-------------------------- MODULE ActionStackProofs --------------------------
(* Proofs about the list of stacks, for any number of blocks, stacks and ids.     *)
EXTENDS ActionStack, TLAPS, FiniteSetTheorems

-----------------------------------------------------------------------------
(* Lists *)

Pointers == [Block -> Block \cup {Null}]

\* What can be reached is the least set with b that no pointer leads out of.
LEMMA ReachIsLeast ==
    ASSUME NEW nx \in Pointers, NEW b \in Block \cup {Null}
    PROVE  /\ Reach(nx, b) \subseteq Block /\ b \in Reach(nx, b) \cup {Null} /\ Closed(nx, Reach(nx, b))
           /\ \A S \in SUBSET Block : b \in S \cup {Null} /\ Closed(nx, S) => Reach(nx, b) \subseteq S
<1>1. Reach(nx, b) \subseteq Block /\ b \in Reach(nx, b) \cup {Null}
  BY DEF Reach
<1>2. ASSUME NEW c \in Reach(nx, b) PROVE nx[c] \in Reach(nx, b) \cup {Null}
  <2> SUFFICES ASSUME nx[c] # Null, NEW S \in SUBSET Block, b \in S \cup {Null}, Closed(nx, S)
               PROVE  nx[c] \in S
    BY <1>1 DEF Reach, Pointers
  <2>1. c \in S
    BY DEF Reach
  <2> QED BY <2>1 DEF Closed
<1> QED BY <1>1, <1>2 DEF Reach, Closed

LEMMA ReachNull ==
    ASSUME NEW nx \in Pointers PROVE Reach(nx, Null) = {}
<1>1. Closed(nx, {})
  BY DEF Closed
<1> QED BY <1>1, ReachIsLeast

LEMMA ReachStep ==
    ASSUME NEW nx \in Pointers, NEW b \in Block
    PROVE  Reach(nx, b) = {b} \cup Reach(nx, nx[b])
<1>1. nx[b] \in Block \cup {Null} /\ b # Null
  BY BlockAssumption DEF Pointers
<1>2. Reach(nx, b) \subseteq {b} \cup Reach(nx, nx[b])
  <2>1. Closed(nx, {b} \cup Reach(nx, nx[b])) /\ {b} \cup Reach(nx, nx[b]) \in SUBSET Block
    BY <1>1, ReachIsLeast DEF Closed
  <2> QED BY <2>1, ReachIsLeast
<1>3. b \in Reach(nx, b) /\ nx[b] \in Reach(nx, b) \cup {Null}
  BY <1>1, ReachIsLeast DEF Closed
<1>4. Reach(nx, nx[b]) \subseteq Reach(nx, b)
  BY <1>1, <1>3, ReachIsLeast
<1> QED BY <1>2, <1>3, <1>4

\* A list is not changed by pointers outside of it,
LEMMA ReachSame ==
    ASSUME NEW nx \in Pointers, NEW ny \in Pointers, NEW b \in Block \cup {Null},
           \A c \in Reach(nx, b) : ny[c] = nx[c]
    PROVE  Reach(ny, b) = Reach(nx, b)
<1>1. Reach(ny, b) \subseteq Reach(nx, b)
  <2>1. Closed(ny, Reach(nx, b))
    BY ReachIsLeast DEF Closed
  <2> QED BY <2>1, ReachIsLeast
<1>2. Closed(nx, Reach(ny, b))
  <2> SUFFICES ASSUME NEW c \in Reach(ny, b) PROVE nx[c] \in Reach(ny, b) \cup {Null}
    BY DEF Closed
  <2>1. ny[c] \in Reach(ny, b) \cup {Null}
    BY ReachIsLeast DEF Closed
  <2> QED BY <2>1, <1>1
<1>3. Reach(nx, b) \subseteq Reach(ny, b)
  BY <1>2, ReachIsLeast
<1> QED BY <1>1, <1>3

\* and neither is what its pointers lead to.
LEMMA AcyclicSame ==
    ASSUME NEW nx \in Pointers, NEW ny \in Pointers, NEW b \in Block \cup {Null},
           \A c \in Reach(nx, b) : ny[c] = nx[c],
           \A c \in Reach(nx, b) : c \notin Reach(nx, nx[c])
    PROVE  \A c \in Reach(nx, b) : c \notin Reach(ny, ny[c])
<1> SUFFICES ASSUME NEW c \in Reach(nx, b) PROVE c \notin Reach(ny, nx[c])
  OBVIOUS
<1>1. nx[c] \in Reach(nx, b) \cup {Null} /\ nx[c] \in Block \cup {Null}
  BY ReachIsLeast DEF Closed
<1>2. Reach(nx, nx[c]) \subseteq Reach(nx, b)
  BY <1>1, ReachIsLeast
<1>3. Reach(ny, nx[c]) = Reach(nx, nx[c])
  BY <1>1, <1>2, ReachSame
<1> QED BY <1>3

\* Of two blocks of a list one is behind the other.
LEMMA ReachTotal ==
    ASSUME NEW nx \in Pointers, NEW h \in Block \cup {Null}, NEW a \in Reach(nx, h), NEW c \in Reach(nx, h)
    PROVE  c \in Reach(nx, a) \/ a \in Reach(nx, c)
<1> DEFINE S == {d \in Reach(nx, h) : d \in Reach(nx, a) \/ a \in Reach(nx, d)}
<1>1. Reach(nx, h) \subseteq Block /\ a \in Block
  BY ReachIsLeast
<1>2. h \in S \cup {Null}
  BY ReachIsLeast
<1>3. ASSUME NEW d \in S PROVE nx[d] \in S \cup {Null}
  <2>1. nx[d] \in Reach(nx, h) \cup {Null} /\ d \in Block
    BY <1>1, ReachIsLeast DEF Closed
  <2>2. CASE d \in Reach(nx, a)
    <3>1. nx[d] \in Reach(nx, a) \cup {Null}
      BY <2>2, <1>1, ReachIsLeast DEF Closed
    <3> QED BY <2>1, <3>1
  <2>3. CASE a \in Reach(nx, d) /\ d # a
    BY <2>1, <2>3, ReachStep
  <2>4. CASE d = a
    BY <2>4, <2>2, <1>1, ReachIsLeast
  <2> QED BY <2>2, <2>3, <2>4
<1>4. Closed(nx, S) /\ S \in SUBSET Block
  BY <1>1, <1>3 DEF Closed
<1>5. Reach(nx, h) \subseteq S
  BY <1>2, <1>4, ReachIsLeast
<1> QED BY <1>5

\* Numbers that fall along a list are the greatest at its head.
LEMMA FallingIsGreatest ==
    ASSUME NEW nx \in Pointers, NEW b \in Block, NEW f \in [Block -> Int],
           \A c \in Reach(nx, b) : nx[c] # Null => f[nx[c]] < f[c]
    PROVE  \A c \in Reach(nx, b) : f[c] <= f[b]
<1> DEFINE S == {c \in Reach(nx, b) : f[c] <= f[b]}
<1>1. Reach(nx, b) \subseteq Block /\ b \in Reach(nx, b)
  BY ReachIsLeast, BlockAssumption
<1>2. ASSUME NEW c \in S PROVE nx[c] \in S \cup {Null}
  <2>1. nx[c] \in Reach(nx, b) \cup {Null}
    BY ReachIsLeast DEF Closed
  <2>2. CASE nx[c] # Null
    <3>1. nx[c] \in Block /\ c \in Block /\ f[nx[c]] < f[c] /\ f[c] <= f[b]
      BY <1>1, <2>1, <2>2
    <3>2. f[nx[c]] \in Int /\ f[c] \in Int /\ f[b] \in Int
      BY <3>1
    <3> QED BY <2>1, <3>1, <3>2
  <2> QED BY <2>2
<1>3. Closed(nx, S) /\ S \in SUBSET Block /\ b \in S
  BY <1>1, <1>2 DEF Closed
<1>4. Reach(nx, b) \subseteq S
  BY <1>3, ReachIsLeast
<1> QED BY <1>4

\* Taking a block out of a list.
LEMMA ReachWithout ==
    ASSUME NEW nx \in Pointers, NEW h \in Block, NEW d \in Reach(nx, h), d # h, nx[d] # d,
           NEW ny \in Pointers,
           \A b \in Block : ny[b] = IF nx[b] = d /\ b \in Reach(nx, h) THEN nx[d] ELSE nx[b]
    PROVE  Reach(ny, h) = Reach(nx, h) \ {d}
<1> DEFINE R == Reach(nx, h)
           T == Reach(ny, h)
<1>1. R \subseteq Block /\ h \in R /\ T \subseteq Block /\ h \in T /\ d \in Block
  BY ReachIsLeast, BlockAssumption
<1>2. (\A b \in R : nx[b] \in R \cup {Null}) /\ (\A b \in T : ny[b] \in T \cup {Null})
  BY ReachIsLeast DEF Closed
<1>3. T \subseteq R \ {d}
  <2>1. Closed(ny, R \ {d})
    BY <1>1, <1>2, BlockAssumption DEF Closed
  <2> QED BY <1>1, <2>1, ReachIsLeast
<1>4. R \subseteq T \cup {d}
  <2>1. CASE \E p \in T : nx[p] = d
    <3>1. PICK p \in T : nx[p] = d
      BY <2>1
    <3>2. ny[p] = nx[d] /\ nx[d] \in T \cup {Null}
      BY <1>1, <1>2, <1>3, <3>1
    <3>3. Closed(nx, T \cup {d})
      BY <1>1, <1>2, <3>2 DEF Closed
    <3> QED BY <1>1, <3>3, ReachIsLeast
  <2>2. CASE ~ \E p \in T : nx[p] = d
    <3>1. Closed(nx, T)
      BY <1>1, <1>2, <2>2 DEF Closed
    <3> QED BY <1>1, <3>1, ReachIsLeast
  <2> QED BY <2>1, <2>2
<1> QED BY <1>3, <1>4

-----------------------------------------------------------------------------
(* The invariant *)

Alive == Listed(head)
Spare == Listed(free)

Creating  == pc \in {"link", "insert", "name"}
Finishing == pc \in {"unlink", "mark", "free"}
Between   == pc \in {"call", "next", "restart"}

Types ==
    /\ next \in Pointers /\ id \in [Block -> 0 .. MaxId] /\ ptr \in [Block -> -1 .. MaxDepth]
    /\ head \in Block \cup {Null} /\ free \in Block \cup {Null} /\ active \in Block \cup {Null}
    /\ saved \in Block \cup {Null} /\ blk \in Block \cup {Null} /\ wp \in Block \cup {Null}
    /\ unused \subseteq Block /\ num \in 0 .. MaxStacks /\ taskId \in 1 .. MaxId + 1
    /\ pc = "idle" \/ Between \/ Creating \/ Finishing
    /\ ret \in {"idle", "call", "next", "restart"} /\ cur \in 0 .. MaxId
    /\ wpc \in {"idle", "look", "advance"} /\ wid \in 0 .. MaxId
    /\ answer \in {"none", "alive", "finished"} /\ wasLive \in BOOLEAN

\* Every block is in one place, and the free list ends.
Parts ==
    /\ Alive \cap Spare = {} /\ Alive \cap unused = {} /\ Spare \cap unused = {}
    /\ Surgery \cap Alive = {} /\ Surgery \cap Spare = {} /\ Surgery \cap unused = {}
    /\ Alive \cup Spare \cup unused \cup Surgery = Block
    /\ IsFiniteSet(Alive)
    /\ \A b \in Spare : b \notin Reach(next, next[b])

\* A block has an id while it is listed, and nearly as long; no id is used twice.
Ids ==
    /\ \A b \in Block : id[b] # 0 => b \in Alive \/ (pc = "mark" /\ b = blk)
    /\ \A b \in Alive : id[b] = 0 => pc = "name" /\ b = blk
    /\ \A b \in Block : id[b] < taskId
    /\ \A b, c \in Block : id[b] = id[c] /\ id[b] # 0 => b = c

\* The list falls from the newest stack to the oldest.
Order == \A b \in Alive : next[b] # Null => id[b] > id[next[b]] \/ (pc = "name" /\ b = blk)

\* What create and finish have in their hands.
Hands ==
    /\ Creating => /\ blk \in Block /\ id[blk] = 0 /\ ptr[blk] = 0
                   /\ ret \in {"idle", "next"} /\ num < MaxStacks /\ taskId <= MaxId
    /\ pc = "insert" => next[blk] = head
    /\ pc = "name" => head = blk /\ \A b \in Alive : next[b] # blk
    /\ pc = "unlink" => blk \in Alive /\ id[blk] # 0
    /\ Finishing => blk \in Block
    /\ pc = "free" => id[blk] = 0

Count ==
    /\ pc = "name" => num + 1 = Cardinality(Alive)
    /\ pc = "mark" => num = Cardinality(Alive) + 1
    /\ pc \notin {"name", "mark"} => num = Cardinality(Alive)

\* In a pass, the stack saved is the newest one older than the stack served.
Idle    == pc = "idle" \/ ((Creating \/ Finishing) /\ ret = "idle")
Serving == pc = "call" \/ (Finishing /\ ret = "call")

Pass ==
    /\ Idle => cur = 0
    /\ ~Idle => /\ active \in Block /\ cur > 0 /\ cur < taskId
                /\ saved # Null => saved \in Alive /\ 0 < id[saved] /\ id[saved] < cur
                /\ \A b \in Alive : 0 < id[b] /\ id[b] < cur => saved # Null /\ id[b] <= id[saved]
                /\ pc = "unlink" => id[blk] >= cur
    /\ Serving => id[active] = cur \/ (id[active] = 0 /\ ptr[active] = -1)

\* Only the stack whose turn it is can be empty.
Filled == \A b \in Alive : ptr[b] >= 0 \/ (Serving /\ b = active) \/ (pc = "unlink" /\ b = blk)

\* A question about a stack that had ended: no block has its id, or the walk began
\* when that block was unlinked.
Walk ==
    /\ wid < taskId /\ (wpc # "idle" => wid > 0) /\ (wpc = "advance" => wp # Null)
    /\ wpc # "idle" /\ ~wasLive =>
          \/ \A b \in Block : id[b] # wid
          \/ pc = "mark" /\ id[blk] = wid /\ wp \in Alive \cup {Null}
    /\ AliveRight

StackInv == Types /\ Parts /\ Ids /\ Order /\ Hands /\ Count /\ Pass /\ Filled /\ Walk

LEMMA StackInit == Init => StackInv
<1> SUFFICES ASSUME Init PROVE StackInv
  OBVIOUS
<1>1. next \in Pointers /\ Alive = {} /\ Spare = {}
  <2>1. next \in Pointers
    BY DEF Init, Pointers
  <2> QED BY <2>1, ReachNull DEF Init, Alive, Spare, Listed
<1>2. Surgery = {} /\ pc = "idle"
  BY DEF Init, Surgery
<1>3. Types
  <2>1. id \in [Block -> 0 .. MaxId] /\ ptr \in [Block -> -1 .. MaxDepth]
    BY IdAssumption DEF Init
  <2>2. num \in 0 .. MaxStacks /\ taskId \in 1 .. MaxId + 1 /\ cur \in 0 .. MaxId /\ wid \in 0 .. MaxId
    BY BlockAssumption, IdAssumption DEF Init
  <2> QED BY <1>1, <2>1, <2>2 DEF Init, Types
<1>4. Parts /\ Count
  BY <1>1, <1>2, FS_EmptySet DEF Init, Parts, Count
<1>5. Ids /\ Order
  BY <1>1 DEF Init, Ids, Order
<1>6. Hands /\ Pass /\ Filled
  BY <1>1 DEF Init, Hands, Pass, Filled, Idle, Serving, Creating, Finishing
<1>7. Walk
  BY DEF Init, Walk, AliveRight
<1> QED BY <1>3, <1>4, <1>5, <1>6, <1>7 DEF StackInv

\* The lists as sets.
LEMMA ListsAreSets ==
    ASSUME Types
    PROVE  /\ Alive \subseteq Block /\ Spare \subseteq Block
           /\ \A b \in Alive : next[b] \in Alive \cup {Null}
           /\ head \in Alive \cup {Null} /\ (head = Null => Alive = {})
           /\ head # Null => Alive = {head} \cup Reach(next, next[head])
           /\ free # Null => Spare = {free} \cup Reach(next, next[free])
<1>1. next \in Pointers /\ head \in Block \cup {Null} /\ free \in Block \cup {Null}
  BY DEF Types
<1> QED BY <1>1, ReachIsLeast, ReachNull, ReachStep DEF Alive, Spare, Listed, Closed

\* Behind a stack are all the older ones, the newest of them first.
LEMMA NextIsOlder ==
    ASSUME Types, Ids, Order, pc # "name", NEW a \in Alive
    PROVE  /\ next[a] # Null => next[a] \in Alive /\ 0 < id[next[a]] /\ id[next[a]] < id[a]
           /\ \A b \in Alive : id[b] < id[a] => next[a] # Null /\ id[b] <= id[next[a]]
           /\ head # Null /\ id[a] <= id[head]
<1>1. /\ next \in Pointers /\ head \in Block \cup {Null} /\ Alive \subseteq Block /\ a \in Block
      /\ id \in [Block -> Int] /\ \A b \in Alive : id[b] > 0 /\ id[b] \in Int
      /\ \A b \in Alive : next[b] \in Alive \cup {Null}
  <2>1. \A b \in Block : id[b] \in 0 .. MaxId
    BY DEF Types
  <2>2. \A b \in Alive : id[b] # 0
    BY DEF Ids
  <2>3. id \in [Block -> Int] /\ next \in Pointers /\ head \in Block \cup {Null}
    BY DEF Types
  <2> QED BY <2>1, <2>2, <2>3, ListsAreSets
<1>2. \A b \in Alive : next[b] # Null => id[next[b]] < id[b]
  <2> SUFFICES ASSUME NEW b \in Alive, next[b] # Null PROVE id[next[b]] < id[b]
    OBVIOUS
  <2>1. id[b] > id[next[b]] /\ id[b] \in Int /\ id[next[b]] \in Int
    BY <1>1 DEF Order
  <2> QED BY <2>1
<1>3. ASSUME NEW b \in Alive
      PROVE  Reach(next, b) \subseteq Alive /\ \A c \in Reach(next, b) : id[c] <= id[b]
  <2>1. Reach(next, b) \subseteq Alive
    BY <1>1, ReachIsLeast DEF Alive, Listed, Closed
  <2>2. \A c \in Reach(next, b) : next[c] # Null => id[next[c]] < id[c]
    BY <1>2, <2>1
  <2>3. b \in Block
    BY <1>1
  <2> HIDE DEF Alive
  <2>4. \A c \in Reach(next, b) : id[c] <= id[b]
    BY <1>1, <2>2, <2>3, FallingIsGreatest
  <2> QED BY <2>1, <2>4
<1>4. next[a] # Null => next[a] \in Alive /\ 0 < id[next[a]] /\ id[next[a]] < id[a]
  BY <1>1, <1>2
<1>5. ASSUME NEW b \in Alive, id[b] < id[a] PROVE next[a] # Null /\ id[b] <= id[next[a]]
  <2>1. b \in Reach(next, a) \/ a \in Reach(next, b)
    BY <1>1, ReachTotal DEF Alive, Listed
  <2>2. a \notin Reach(next, b)
    <3>1. a \in Reach(next, b) => id[a] <= id[b]
      BY <1>3
    <3> QED BY <3>1, <1>1, <1>5
  <2>3. b \in Reach(next, next[a])
    <3>1. b # a
      BY <1>1, <1>5
    <3> QED BY <2>1, <2>2, <3>1, <1>1, ReachStep
  <2>4. next[a] # Null
    BY <2>3, <1>1, ReachNull
  <2> QED BY <2>3, <2>4, <1>3, <1>4
<1>6. head # Null /\ id[a] <= id[head]
  <2>1. head # Null /\ head \in Alive /\ Alive = Reach(next, head)
    BY ListsAreSets DEF Alive, Listed
  <2> QED BY <2>1, <1>3
<1> QED BY <1>4, <1>5, <1>6

-----------------------------------------------------------------------------
(* Steps that leave the list alone *)

\* The parts that speak of the pass and of the list only.
Still == next' = next /\ head' = head /\ free' = free /\ id' = id

LEMMA StillSame ==
    ASSUME Still
    PROVE  Alive' = Alive /\ Spare' = Spare
  BY DEF Still, Alive, Spare, Listed

LEMMA StillParts ==
    ASSUME StackInv, Still, UNCHANGED <<unused, num, taskId>>, Surgery' = Surgery,
           pc' # "name", pc # "name", pc' # "mark", pc # "mark"
    PROVE  Parts' /\ Ids' /\ Order' /\ Count'
<1>1. Alive' = Alive /\ Spare' = Spare
  BY StillSame
<1> QED BY <1>1 DEF StackInv, Still, Parts, Ids, Order, Count

LEMMA StillWalk ==
    ASSUME StackInv, Still, UNCHANGED <<taskId, walkVars>>, pc # "mark", pc' # "mark"
    PROVE  Walk'
  BY DEF StackInv, Still, Walk, AliveRight, walkVars

\* Pointers of other blocks are changed.
LEMMA AliveSame ==
    ASSUME Types, next' \in Pointers, head' = head, \A c \in Alive : next'[c] = next[c]
    PROVE  Alive' = Alive
<1>1. next \in Pointers /\ head \in Block \cup {Null} /\ Alive = Reach(next, head) /\ Alive' = Reach(next', head)
  BY DEF Types, Alive, Listed
<1>2. \A c \in Reach(next, head) : next'[c] = next[c]
  BY <1>1
<1>3. Reach(next', head) = Reach(next, head)
  BY ONLY next' \in Pointers, <1>1, <1>2, ReachSame
<1> QED BY <1>1, <1>3

LEMMA SpareSame ==
    ASSUME Types, next' \in Pointers, free' = free, \A c \in Spare : next'[c] = next[c],
           \A c \in Spare : c \notin Reach(next, next[c])
    PROVE  Spare' = Spare /\ \A c \in Spare' : c \notin Reach(next', next'[c])
<1>1. next \in Pointers /\ free \in Block \cup {Null} /\ Spare = Reach(next, free) /\ Spare' = Reach(next', free)
  BY DEF Types, Spare, Listed
<1>2. /\ \A c \in Reach(next, free) : next'[c] = next[c]
      /\ \A c \in Reach(next, free) : c \notin Reach(next, next[c])
  BY <1>1
<1>3. Reach(next', free) = Reach(next, free)
  BY ONLY next' \in Pointers, <1>1, <1>2, ReachSame
<1>4. \A c \in Reach(next, free) : c \notin Reach(next', next'[c])
  BY ONLY next' \in Pointers, <1>1, <1>2, AcyclicSame
<1> QED BY <1>1, <1>3, <1>4

\* action_stack_create takes a block that nobody has.
LEMMA CreateTakeKeeps ==
    ASSUME StackInv, NEW to, CreateTake(to), \/ pc = "idle" /\ to = "idle"
                                             \/ pc = "restart" /\ to = "next"
    PROVE  StackInv'
<1>1. Types /\ Surgery = {} /\ pc \in {"idle", "restart"} /\ pc' = "link" /\ ret' = to
  BY DEF StackInv, CreateTake, Surgery
<1>2. PICK b \in Block : blk' = b /\ b \notin Alive
  <2>1. CASE free # Null
    BY <2>1, ListsAreSets DEF CreateTake, StackInv, Parts, Types
  <2>2. CASE free = Null
    BY <2>2 DEF CreateTake, StackInv, Parts, Types
  <2> QED BY <2>1, <2>2
<1>3. /\ \A c \in Block : next'[c] = IF c = b THEN Null ELSE next[c]
      /\ \A c \in Block : id'[c] = IF c = b THEN 0 ELSE id[c]
      /\ \A c \in Block : ptr'[c] = IF c = b THEN 0 ELSE ptr[c]
      /\ next \in Pointers /\ next' \in Pointers
  BY <1>1, <1>2 DEF CreateTake, Types, Pointers
<1>4. Alive' = Alive
  <2>1. head' = head /\ \A c \in Alive : next'[c] = next[c]
    BY <1>1, <1>2, <1>3, ListsAreSets DEF CreateTake
  <2> QED BY <1>1, <1>3, <2>1, AliveSame
<1>5. /\ Spare' \cup unused' = (Spare \cup unused) \ {b} /\ b \in Spare \cup unused
      /\ Spare' \subseteq Spare /\ unused' \subseteq unused
      /\ \A c \in Spare' : c \notin Reach(next', next'[c])
      /\ free' \in Block \cup {Null}
  <2>1. CASE free # Null
    <3>1. b = free /\ free' = next[free] /\ unused' = unused /\ free \in Block
      BY <2>1, <1>1, <1>2 DEF CreateTake, Types
    <3>2. Spare = {free} \cup Reach(next, next[free]) /\ free \notin Reach(next, next[free])
      BY <1>1, <2>1, ListsAreSets DEF StackInv, Parts
    <3>3. \A c \in Reach(next, next[free]) : next'[c] = next[c]
      BY <1>1, <1>3, <3>1, <3>2, ListsAreSets
    <3>4. next[free] \in Block \cup {Null}
      BY <1>3, <3>1 DEF Pointers
    <3>5. Spare' = Reach(next, next[free])
      BY <1>3, <3>1, <3>3, <3>4, ReachSame DEF Spare, Listed
    <3>6. \A c \in Reach(next, next[free]) : c \notin Reach(next, next[c])
      BY <3>2 DEF StackInv, Parts
    <3>7. \A c \in Reach(next, next[free]) : c \notin Reach(next', next'[c])
      BY <1>3, <3>3, <3>4, <3>6, AcyclicSame
    <3> QED BY <3>1, <3>2, <3>4, <3>5, <3>7 DEF StackInv, Parts
  <2>2. CASE free = Null
    <3>1. b \in unused /\ unused' = unused \ {b} /\ free' = free /\ b \notin Spare
      BY <2>2, <1>2 DEF CreateTake, StackInv, Parts
    <3>2. \A c \in Spare : next'[c] = next[c]
      BY <1>1, <1>3, <3>1, ListsAreSets
    <3>3. Spare' = Spare /\ \A c \in Spare' : c \notin Reach(next', next'[c])
      BY <1>1, <1>3, <3>1, <3>2, SpareSame DEF StackInv, Parts
    <3> QED BY <1>1, <3>1, <3>3 DEF Types
  <2> QED BY <2>1, <2>2
<1>6. Surgery' = {b}
  BY <1>1, <1>2 DEF Surgery
<1>7. Types'
  <2>1. id' \in [Block -> 0 .. MaxId] /\ ptr' \in [Block -> -1 .. MaxDepth]
    BY <1>1, <1>2, IdAssumption DEF CreateTake, Types
  <2>2. unused' \subseteq Block /\ blk' \in Block \cup {Null}
    BY <1>1, <1>2, <1>5 DEF Types
  <2> QED BY <1>1, <1>3, <1>5, <2>1, <2>2 DEF CreateTake, Types, Creating, walkVars
<1>8. Parts'
  <2>1. Alive \cap (Spare \cup unused) = {} /\ Spare \cap unused = {}
        /\ Alive \cup Spare \cup unused = Block /\ IsFiniteSet(Alive)
    BY <1>1 DEF StackInv, Parts
  <2> QED BY <2>1, <1>4, <1>5, <1>6 DEF Parts
<1>9. Ids'
  <2>1. \A c \in Block : id[c] # 0 => c \in Alive
    BY <1>1 DEF StackInv, Ids
  <2>2. \A c \in Alive : id[c] # 0
    BY <1>1 DEF StackInv, Ids
  <2>3. 0 < taskId
    BY <1>1 DEF Types
  <2>4. taskId' = taskId
    BY DEF CreateTake
  <2> QED BY <1>1, <1>2, <1>3, <1>4, <2>1, <2>2, <2>3, <2>4, ListsAreSets DEF StackInv, Ids
<1>10. Order'
  <2>1. \A c \in Alive : next[c] \in Alive \cup {Null}
    BY <1>1, ListsAreSets
  <2> QED BY <1>1, <1>2, <1>3, <1>4, <2>1, ListsAreSets DEF StackInv, Order
<1>11. Hands' /\ Count'
  <2>1. num' = num /\ num # MaxStacks /\ taskId' = taskId /\ taskId <= MaxId
    BY DEF CreateTake, Full
  <2>2. num < MaxStacks
    BY <1>1, <2>1, BlockAssumption DEF Types
  <2>3. num = Cardinality(Alive)
    BY <1>1 DEF StackInv, Count
  <2> QED BY <1>1, <1>2, <1>3, <1>4, <2>1, <2>2, <2>3 DEF Hands, Count, Creating, Finishing
<1>12. Pass'
  <2>1. Idle' = Idle /\ ~Serving'
    BY <1>1 DEF Idle, Serving, Creating, Finishing
  <2>2. ~Idle /\ saved # Null => saved # b
    BY <1>2 DEF StackInv, Pass
  <2>3. UNCHANGED <<active, saved, cur, taskId>>
    BY DEF CreateTake
  <2> QED BY <1>1, <1>2, <1>3, <1>4, <2>1, <2>2, <2>3, ListsAreSets DEF StackInv, Pass
<1>13. Filled'
  <2>1. \A c \in Alive : ptr[c] >= 0
    BY <1>1 DEF StackInv, Filled, Serving, Finishing
  <2> QED BY <1>2, <1>3, <1>4, <2>1, <1>1, ListsAreSets DEF Filled
<1>14. Walk'
  <2>1. wpc # "idle" /\ ~wasLive => \A c \in Block : id[c] # wid
    BY <1>1 DEF StackInv, Walk
  <2>2. taskId' = taskId /\ UNCHANGED walkVars
    BY DEF CreateTake
  <2> QED BY <1>3, <2>1, <2>2 DEF StackInv, Walk, AliveRight, walkVars
<1> QED BY <1>7, <1>8, <1>9, <1>10, <1>11, <1>12, <1>13, <1>14 DEF StackInv

LEMMA CreateLinkKeeps ==
    ASSUME StackInv, CreateLink PROVE StackInv'
<1>1. Types /\ blk \in Block /\ Surgery = {blk} /\ Surgery' = {blk} /\ pc' = "insert" /\ pc = "link" /\ blk' = blk
  BY DEF StackInv, CreateLink, Surgery, Hands, Creating
<1>2. /\ \A c \in Block : next'[c] = IF c = blk THEN head ELSE next[c]
      /\ next \in Pointers /\ next' \in Pointers /\ id' = id /\ ptr' = ptr
  BY <1>1 DEF CreateLink, Types, Pointers
<1>3. blk \notin Alive /\ blk \notin Spare
  BY <1>1 DEF StackInv, Parts
<1>4. \A c \in Alive \cup Spare : next'[c] = next[c]
  BY <1>1, <1>2, <1>3, ListsAreSets
<1>5. Alive' = Alive /\ Spare' = Spare /\ \A c \in Spare' : c \notin Reach(next', next'[c])
  <2>1. head' = head /\ free' = free /\ \A c \in Spare : c \notin Reach(next, next[c])
    BY DEF CreateLink, StackInv, Parts
  <2> QED BY <1>1, <1>2, <1>4, <2>1, AliveSame, SpareSame
<1>6. Types'
  BY <1>1, <1>2 DEF CreateLink, Types, Creating, walkVars
<1>7. Parts'
  BY <1>1, <1>5 DEF CreateLink, StackInv, Parts
<1>8. Ids' /\ Count' /\ Hands'
  BY <1>1, <1>2, <1>5 DEF CreateLink, StackInv, Ids, Count, Hands, Creating, Finishing
<1>9. Order'
  BY <1>1, <1>2, <1>4, <1>5 DEF StackInv, Order
<1>10. Pass' /\ Filled'
  BY <1>1, <1>2, <1>5 DEF CreateLink, StackInv, Pass, Filled, Idle, Serving, Creating, Finishing
<1>11. Walk'
  BY <1>1, <1>2, <1>5 DEF CreateLink, StackInv, Walk, AliveRight, walkVars
<1> QED BY <1>6, <1>7, <1>8, <1>9, <1>10, <1>11 DEF StackInv

LEMMA CreateInsertKeeps ==
    ASSUME StackInv, CreateInsert PROVE StackInv'
<1>1. /\ Types /\ blk \in Block /\ Surgery = {blk} /\ Surgery' = {} /\ pc = "insert" /\ pc' = "name"
      /\ blk' = blk /\ next' = next /\ id' = id /\ ptr' = ptr /\ head' = blk /\ next[blk] = head
      /\ id[blk] = 0 /\ ptr[blk] = 0 /\ blk \notin Alive /\ ret' = ret /\ taskId' = taskId
  BY DEF StackInv, CreateInsert, Surgery, Hands, Creating, Parts
<1>2. Alive' = {blk} \cup Alive
  <2>1. next \in Pointers
    BY <1>1 DEF Types
  <2>2. Reach(next, blk) = {blk} \cup Reach(next, head)
    BY ONLY <2>1, <1>1, ReachStep
  <2> QED BY <1>1, <2>2 DEF Alive, Listed
<1>3. Spare' = Spare
  BY <1>1 DEF CreateInsert, Spare, Listed
<1>4. \A c \in Alive' : next[c] # blk
  <2>1. \A c \in Alive : next[c] # blk
    BY <1>1, ListsAreSets, BlockAssumption
  <2>2. head # blk
    BY <1>1, ListsAreSets, BlockAssumption
  <2> QED BY <1>1, <1>2, <2>1, <2>2
<1>5. IsFiniteSet(Alive') /\ Cardinality(Alive') = Cardinality(Alive) + 1
  BY <1>1, <1>2, FS_AddElement DEF StackInv, Parts
<1>6. Types'
  BY <1>1 DEF CreateInsert, Types, Creating, walkVars
<1>7. Parts'
  BY <1>1, <1>2, <1>3, <1>5 DEF CreateInsert, StackInv, Parts
<1>8. Ids' /\ Order'
  BY <1>1, <1>2 DEF StackInv, Ids, Order
<1>9. Hands' /\ Count'
  <2>1. num = Cardinality(Alive) /\ num' = num
    BY <1>1 DEF CreateInsert, StackInv, Count
  <2> QED BY <1>1, <1>4, <1>5, <2>1 DEF CreateInsert, StackInv, Hands, Count, Creating, Finishing
<1>10. Pass' /\ Filled'
  BY <1>1, <1>2 DEF CreateInsert, StackInv, Pass, Filled, Idle, Serving, Creating, Finishing
<1>11. Walk'
  BY <1>1 DEF CreateInsert, StackInv, Walk, AliveRight, walkVars
<1> QED BY <1>6, <1>7, <1>8, <1>9, <1>10, <1>11 DEF StackInv

LEMMA CreateNameKeeps ==
    ASSUME StackInv, CreateName PROVE StackInv'
<1>1. /\ Types /\ blk \in Block /\ Surgery = {} /\ Surgery' = {} /\ pc = "name" /\ pc' = ret
      /\ ret \in {"idle", "next"} /\ num < MaxStacks /\ taskId <= MaxId /\ num' = num + 1
      /\ taskId' = taskId + 1 /\ blk' = blk /\ blk = head /\ ret' = ret /\ active' = active
      /\ saved' = saved /\ cur' = cur /\ taskId \in Nat /\ taskId > 0
  BY DEF StackInv, CreateName, Surgery, Hands, Creating, Types
<1>2. /\ \A c \in Block : id'[c] = IF c = blk THEN taskId ELSE id[c]
      /\ \A c \in Block : ptr'[c] = IF c = blk THEN 0 ELSE ptr[c]
      /\ \A c \in Block : id[c] \in Nat /\ id[c] < taskId
      /\ next' = next
  BY <1>1 DEF CreateName, Types, StackInv, Ids
<1>3. Alive' = Alive /\ Spare' = Spare /\ Alive \subseteq Block /\ blk \in Alive
  <2>1. head # Null
    BY <1>1, BlockAssumption
  <2> QED BY <1>1, <2>1, ListsAreSets DEF CreateName, Alive, Spare, Listed
<1>4. Types'
  <2>1. id' \in [Block -> 0 .. MaxId] /\ ptr' \in [Block -> -1 .. MaxDepth]
    BY <1>1, IdAssumption DEF CreateName, Types
  <2>2. num' \in 0 .. MaxStacks /\ taskId' \in 1 .. MaxId + 1
    BY <1>1, BlockAssumption, IdAssumption DEF Types
  <2> QED BY <1>1, <2>1, <2>2 DEF CreateName, Types, Between, walkVars
<1>5. Parts'
  BY <1>1, <1>2, <1>3 DEF CreateName, StackInv, Parts
<1>6. Ids'
  BY <1>1, <1>2, <1>3 DEF StackInv, Ids
<1>7. Order'
  <2> SUFFICES ASSUME NEW c \in Alive, next[c] # Null PROVE id'[c] > id'[next[c]]
    BY <1>2, <1>3 DEF Order
  <2>1. next[c] # blk /\ next[c] \in Block
    BY <1>1, <1>3, ListsAreSets DEF StackInv, Hands
  <2>2. CASE c = blk
    BY <2>1, <2>2, <1>1, <1>2
  <2>3. CASE c # blk
    BY <2>1, <2>3, <1>2, <1>3 DEF StackInv, Order
  <2> QED BY <2>2, <2>3
<1>8. Hands' /\ Count'
  BY <1>1, <1>3 DEF StackInv, Hands, Count, Creating, Finishing
<1>9. Pass'
  <2>1. Idle' = Idle /\ ~Serving'
    BY <1>1 DEF Idle, Serving, Creating, Finishing
  <2>2. ~Idle => cur < taskId /\ cur \in Nat /\ (saved # Null => saved \in Alive /\ saved # blk)
    BY <1>1 DEF StackInv, Pass, Types, Hands, Creating
  <2>3. \A c \in Alive : ~Idle /\ 0 < id'[c] /\ id'[c] < cur => c # blk /\ saved # Null /\ id[c] <= id[saved]
    BY <1>1, <1>2, <1>3, <2>2 DEF StackInv, Pass
  <2> QED BY <1>1, <1>2, <1>3, <2>1, <2>2, <2>3 DEF StackInv, Pass
<1>10. Filled'
  BY <1>1, <1>2, <1>3 DEF StackInv, Filled, Serving, Finishing
<1>11. Walk'
  <2>1. UNCHANGED walkVars /\ wid \in Nat
    BY <1>1 DEF CreateName, Types
  <2>2. wid < taskId /\ (wpc # "idle" /\ ~wasLive => \A c \in Block : id[c] # wid)
    BY <1>1 DEF StackInv, Walk
  <2> QED BY <1>1, <1>2, <2>1, <2>2 DEF StackInv, Walk, AliveRight, walkVars
<1> QED BY <1>4, <1>5, <1>6, <1>7, <1>8, <1>9, <1>10, <1>11 DEF StackInv

\* action_stack_finish and action_stack_kill begin.
LEMMA FinishThenKeeps ==
    ASSUME StackInv, NEW b \in Block, NEW to, FinishThen(b, to),
           UNCHANGED <<listVars, active, saved, cur, walkVars>>,
           pc \in {"idle", "call"}, id[b] # 0 => b \in Alive,
           \/ pc = "idle" /\ to = "idle" /\ id[b] # 0
           \/ pc = "call" /\ to \in {"call", "next", "restart"} /\ (id[b] # 0 => id[b] >= cur),
           to \in {"next", "restart"} => b = active,
           to = "restart" => ptr[b] >= 0
    PROVE  StackInv'
<1>1. /\ Still /\ Surgery = {} /\ Surgery' = {} /\ blk' = b /\ ret' = to /\ Types
      /\ pc' = (IF id[b] = 0 THEN to ELSE "unlink") /\ UNCHANGED <<unused, num, taskId, ptr>>
      /\ to \in {"idle", "call", "next", "restart"}
  BY DEF FinishThen, Still, listVars, Surgery, StackInv
<1>2. Alive' = Alive /\ Spare' = Spare
  BY <1>1, StillSame
<1>3. Types'
  BY <1>1 DEF Types, Between, Finishing, listVars, walkVars
<1>4. Parts' /\ Ids' /\ Order' /\ Count'
  BY <1>1, StillParts
<1>5. Hands'
  BY <1>1, <1>2 DEF Still, Hands, Creating, Finishing
<1>6. Pass'
  <2>1. Idle' = Idle
    BY <1>1 DEF Idle, Creating, Finishing
  <2>2. Serving' => Serving
    BY <1>1 DEF Serving, Finishing
  <2> QED BY <1>1, <1>2, <2>1, <2>2 DEF Still, StackInv, Pass, Idle
<1>7. Filled'
  <2>1. CASE to = "call"
    BY <1>1, <1>2, <2>1 DEF StackInv, Filled, Serving, Finishing
  <2>2. CASE to # "call" /\ pc = "call"
    <3>1. \A c \in Alive : ptr[c] >= 0 \/ c = b
      BY <2>2 DEF StackInv, Filled, Serving, Finishing
    <3>2. id[b] = 0 => b \notin Alive
      BY <2>2 DEF StackInv, Ids
    <3> QED BY <1>1, <1>2, <3>1, <3>2 DEF Filled
  <2>3. CASE pc = "idle"
    BY <1>1, <1>2, <2>3 DEF StackInv, Filled, Serving, Finishing
  <2> QED BY <2>1, <2>2, <2>3
<1>8. Walk'
  BY <1>1, StillWalk
<1> QED BY <1>3, <1>4, <1>5, <1>6, <1>7, <1>8 DEF StackInv

LEMMA FinishUnlinkKeeps ==
    ASSUME StackInv, FinishUnlink
    PROVE  StackInv' /\ Alive' = Alive \ {blk}
<1>1. /\ Types /\ blk \in Alive /\ blk \in Block /\ id[blk] # 0 /\ Surgery = {} /\ Surgery' = {blk}
      /\ pc = "unlink" /\ pc' = "mark" /\ blk' = blk /\ ret' = ret
      /\ UNCHANGED <<id, ptr, free, unused, num, taskId, active, saved, cur>>
  BY ListsAreSets DEF StackInv, FinishUnlink, Surgery, Hands
<1>2. /\ next \in Pointers /\ head \in Block /\ next[blk] \in Block \cup {Null} /\ next[blk] # blk
      /\ Alive \subseteq Block /\ Alive = Reach(next, head)
  <2>1. head # Null /\ Alive \subseteq Block
    BY <1>1, NextIsOlder, ListsAreSets DEF StackInv
  <2>2. next[blk] # blk
    BY <1>1, <2>1, NextIsOlder, BlockAssumption DEF StackInv, Types
  <2> QED BY <1>1, <2>1, <2>2 DEF Types, Pointers, Alive, Listed
<1>3. /\ next' \in Pointers
      /\ Alive' = Alive \ {blk}
      /\ \A c \in Block \ Alive : next'[c] = next[c]
      /\ \A c \in Alive' : next'[c] = next[c] \/ (next[c] = blk /\ next'[c] = next[blk])
  <2>1. CASE blk = head
    <3>1. next' = next /\ head' = next[head]
      BY <2>1 DEF FinishUnlink
    <3>2. Alive = {head} \cup Reach(next, next[head])
      BY <1>1, <1>2, ListsAreSets, BlockAssumption
    <3>3. head \notin Reach(next, next[head])
      <4>1. CASE next[head] = Null
        BY <4>1, <1>2, ReachNull
      <4>2. CASE next[head] # Null
        <5>1. next[head] \in Alive /\ id[next[head]] < id[head]
          BY <4>2, <1>1, <2>1, NextIsOlder DEF StackInv
        <5>2. Reach(next, next[head]) \subseteq Alive
          BY <3>2
        <5>3. \A c \in Reach(next, next[head]) : next[c] # Null => id[next[c]] < id[c]
          BY <5>2, <1>1, NextIsOlder DEF StackInv
        <5>4. id \in [Block -> Int]
          BY <1>1 DEF Types
        <5>5. \A c \in Reach(next, next[head]) : id[c] <= id[next[head]]
          BY <5>1, <5>3, <5>4, <1>2, FallingIsGreatest
        <5>6. id[head] \in Int /\ id[next[head]] \in Int
          BY <5>1, <5>4, <1>2
        <5> QED BY <5>1, <5>5, <5>6
      <4> QED BY <4>1, <4>2
    <3>4. Alive' = Reach(next, next[head])
      BY <3>1 DEF Alive, Listed
    <3> QED BY <2>1, <3>1, <3>2, <3>3, <3>4, <1>2
  <2>2. CASE blk # head
    <3>1. head' = head /\ next' = [b \in Block |-> IF next[b] = blk /\ b \in Alive THEN next[blk] ELSE next[b]]
      BY <2>2 DEF FinishUnlink, Alive
    <3>2. next' \in Pointers
      BY <1>2, <3>1 DEF Pointers
    <3>3. \A b \in Block : next'[b] = IF next[b] = blk /\ b \in Reach(next, head) THEN next[blk] ELSE next[b]
      BY <3>1, <1>2
    <3>4. Alive' = Reach(next', head)
      BY <3>1 DEF Alive, Listed
    <3>5. blk \in Reach(next, head)
      BY <1>1, <1>2
    <3>6. Reach(next', head) = Reach(next, head) \ {blk}
      BY ONLY <1>2, <2>2, <3>2, <3>3, <3>5, ReachWithout
    <3> QED BY <1>2, <3>1, <3>2, <3>4, <3>6
  <2> QED BY <2>1, <2>2
<1>4. Spare' = Spare /\ \A c \in Spare' : c \notin Reach(next', next'[c])
  <2>1. \A c \in Spare : next'[c] = next[c]
    BY <1>1, <1>3, ListsAreSets DEF StackInv, Parts
  <2> QED BY <1>1, <1>3, <2>1, SpareSame DEF StackInv, Parts
<1>5. Types'
  <2>1. head' \in Block \cup {Null}
    BY <1>2 DEF FinishUnlink
  <2> QED BY <1>1, <1>3, <2>1 DEF FinishUnlink, Types, Finishing, walkVars
<1>6. IsFiniteSet(Alive') /\ Cardinality(Alive') = Cardinality(Alive) - 1
  BY <1>1, <1>3, FS_RemoveElement DEF StackInv, Parts
<1>7. Parts'
  BY <1>1, <1>3, <1>4, <1>6, ListsAreSets DEF StackInv, Parts
<1>8. Ids'
  BY <1>1, <1>3 DEF StackInv, Ids
<1>9. Order'
  <2> SUFFICES ASSUME NEW c \in Alive', next'[c] # Null PROVE id[c] > id[next'[c]]
    BY <1>1 DEF Order
  <2>1. c \in Alive /\ \A b \in Alive : next[b] # Null => id[b] > id[next[b]] /\ next[b] \in Alive
    BY <1>1, <1>3, NextIsOlder DEF StackInv, Order
  <2>2. \A b \in Block : id[b] \in Int
    BY <1>1 DEF Types
  <2>3. blk \in Block /\ blk # Null /\ c \in Block
    BY <1>2, <1>1, <2>1, BlockAssumption
  <2>4. CASE next'[c] = next[c]
    BY <2>1, <2>4
  <2>5. CASE next[c] = blk /\ next'[c] = next[blk]
    <3>1. id[c] > id[blk] /\ id[blk] > id[next[blk]] /\ next[blk] \in Block
      BY <2>1, <2>3, <2>5, <1>1, <1>2
    <3> QED BY <2>2, <2>3, <2>5, <3>1
  <2> QED BY <1>3, <2>4, <2>5
<1>10. Hands' /\ Count'
  <2>1. num = Cardinality(Alive) /\ Cardinality(Alive) \in Nat
    BY <1>1, FS_CardinalityType DEF StackInv, Count, Parts
  <2> QED BY <1>1, <1>6, <2>1 DEF Hands, Count, Creating, Finishing
<1>11. Pass'
  <2>1. Idle' = Idle /\ Serving' = Serving
    BY <1>1 DEF Idle, Serving, Creating, Finishing
  <2>2. ~Idle => id[blk] >= cur /\ cur \in Int /\ id[blk] \in Int
    BY <1>1 DEF StackInv, Pass, Types
  <2>3. ~Idle /\ saved # Null => saved # blk
    BY <2>2 DEF StackInv, Pass
  <2> QED BY <1>1, <1>3, <2>1, <2>3 DEF StackInv, Pass
<1>12. Filled'
  BY <1>1, <1>3 DEF StackInv, Filled, Serving, Finishing
<1>13. Walk'
  BY <1>1 DEF FinishUnlink, StackInv, Walk, AliveRight, walkVars
<1> QED BY <1>3, <1>5, <1>7, <1>8, <1>9, <1>10, <1>11, <1>12, <1>13 DEF StackInv

LEMMA FinishMarkKeeps ==
    ASSUME StackInv, FinishMark PROVE StackInv'
<1>1. /\ Types /\ blk \in Block /\ Surgery = {blk} /\ Surgery' = {blk} /\ blk \notin Alive
      /\ pc = "mark" /\ pc' = "free" /\ blk' = blk /\ ret' = ret /\ num' = num - 1
      /\ UNCHANGED <<next, head, free, unused, taskId, active, saved, cur, walkVars>>
  BY DEF StackInv, FinishMark, Surgery, Hands, Finishing, Parts
<1>2. /\ \A c \in Block : id'[c] = IF c = blk THEN 0 ELSE id[c]
      /\ \A c \in Block : ptr'[c] = IF c = blk THEN -1 ELSE ptr[c]
  BY <1>1 DEF FinishMark, Types
<1>3. Alive' = Alive /\ Spare' = Spare /\ Alive \subseteq Block
  BY <1>1, ListsAreSets DEF Alive, Spare, Listed
<1>4. num' = Cardinality(Alive) /\ Cardinality(Alive) \in Nat
  BY <1>1, FS_CardinalityType DEF StackInv, Count, Parts
<1>5. Types'
  <2>1. id' \in [Block -> 0 .. MaxId] /\ ptr' \in [Block -> -1 .. MaxDepth]
    BY <1>1, IdAssumption DEF FinishMark, Types
  <2>2. num' \in 0 .. MaxStacks
    BY <1>1, <1>4, BlockAssumption DEF Types
  <2> QED BY <1>1, <2>1, <2>2 DEF Types, Finishing, walkVars
<1>6. Parts'
  BY <1>1, <1>3 DEF StackInv, Parts
<1>7. Ids' /\ Order'
  <2>1. \A c \in Alive : c # blk /\ (next[c] # Null => next[c] # blk /\ next[c] \in Block)
    BY <1>1, <1>3, ListsAreSets
  <2>2. taskId > 0
    BY <1>1 DEF Types
  <2>3. Ids'
    BY <1>1, <1>2, <1>3, <2>2 DEF StackInv, Ids
  <2>4. Order'
    BY <1>1, <1>2, <1>3, <2>1 DEF StackInv, Order
  <2> QED BY <2>3, <2>4
<1>8. Hands' /\ Count'
  BY <1>1, <1>2, <1>3, <1>4 DEF Hands, Count, Creating, Finishing
<1>9. Pass'
  <2>1. Idle' = Idle /\ Serving' = Serving
    BY <1>1 DEF Idle, Serving, Creating, Finishing
  <2>2. \A c \in Alive : id'[c] = id[c]
    BY <1>1, <1>2, <1>3
  <2>4. Serving => active \in Block
    BY <1>1 DEF StackInv, Pass, Idle, Serving, Finishing, Creating
  <2>5. Serving => id'[active] = cur \/ (id'[active] = 0 /\ ptr'[active] = -1)
    BY <1>2, <2>4 DEF StackInv, Pass
  <2> QED BY <1>1, <1>3, <2>1, <2>2, <2>5 DEF StackInv, Pass
<1>10. Filled'
  BY <1>1, <1>2, <1>3 DEF StackInv, Filled, Serving, Finishing
<1>11. Walk'
  <2>1. wpc # "idle" /\ ~wasLive => \A c \in Block : id'[c] # wid
    BY <1>1, <1>2 DEF StackInv, Walk, Ids
  <2> QED BY <1>1, <2>1 DEF StackInv, Walk, AliveRight, walkVars
<1> QED BY <1>5, <1>6, <1>7, <1>8, <1>9, <1>10, <1>11 DEF StackInv

LEMMA FinishFreeKeeps ==
    ASSUME StackInv, FinishFree PROVE StackInv'
<1>1. /\ Types /\ blk \in Block /\ Surgery = {blk} /\ blk \notin Alive /\ blk \notin Spare
      /\ pc = "free" /\ pc' = ret /\ blk' = blk /\ ret' = ret /\ id[blk] = 0 /\ free' = blk
      /\ ret \in {"idle", "call", "next", "restart"} /\ free \in Block \cup {Null}
      /\ UNCHANGED <<id, ptr, head, unused, num, taskId, active, saved, cur, walkVars>>
  BY DEF StackInv, FinishFree, Surgery, Hands, Finishing, Parts, Types
<1>2. /\ \A c \in Block : next'[c] = IF c = blk THEN free ELSE next[c]
      /\ next \in Pointers /\ next' \in Pointers
  BY <1>1 DEF FinishFree, Types, Pointers
<1>3. Alive \subseteq Block /\ Spare \subseteq Block /\ \A c \in Alive \cup Spare : next'[c] = next[c]
  BY <1>1, <1>2, ListsAreSets
<1>4. Alive' = Alive
  BY <1>1, <1>2, <1>3, AliveSame
<1>5. Spare' = {blk} \cup Spare /\ \A c \in Spare' : c \notin Reach(next', next'[c])
  <2>1. \A c \in Reach(next, free) : next'[c] = next[c]
    BY <1>3 DEF Spare, Listed
  <2>2. \A c \in Reach(next, free) : c \notin Reach(next, next[c])
    BY DEF StackInv, Parts, Spare, Listed
  <2>3. Reach(next', free) = Reach(next, free)
    BY ONLY <1>1, <1>2, <2>1, ReachSame
  <2>4. \A c \in Reach(next, free) : c \notin Reach(next', next'[c])
    BY ONLY <1>1, <1>2, <2>1, <2>2, AcyclicSame
  <2>5. next'[blk] = free
    BY <1>1, <1>2
  <2>6. Reach(next', blk) = {blk} \cup Reach(next', free)
    BY <1>1, <1>2, <2>5, ReachStep
  <2>7. blk \notin Reach(next', next'[blk])
    BY <1>1, <2>3, <2>5 DEF Spare, Listed
  <2> QED BY <1>1, <2>3, <2>4, <2>6, <2>7 DEF Spare, Listed
<1>6. Surgery' = {}
  BY <1>1 DEF Surgery
<1>7. Types'
  BY <1>1, <1>2 DEF Types, Between, walkVars
<1>8. Parts'
  BY <1>1, <1>4, <1>5, <1>6 DEF StackInv, Parts
<1>9. Ids' /\ Order'
  BY <1>1, <1>3, <1>4 DEF StackInv, Ids, Order
<1>10. Hands' /\ Count'
  BY <1>1, <1>4 DEF StackInv, Hands, Count, Creating, Finishing
<1>11. Pass'
  <2>1. Idle' = Idle /\ Serving' = Serving
    BY <1>1 DEF Idle, Serving, Creating, Finishing
  <2> QED BY <1>1, <1>4, <2>1 DEF StackInv, Pass
<1>12. Filled'
  BY <1>1, <1>4 DEF StackInv, Filled, Serving, Finishing
<1>13. Walk'
  BY <1>1 DEF StackInv, Walk, AliveRight, walkVars
<1> QED BY <1>7, <1>8, <1>9, <1>10, <1>11, <1>12, <1>13 DEF StackInv

-----------------------------------------------------------------------------
(* action_stack_process_all and action_stack_process *)

\* The turn of the first stack, of the next one, or the end of the pass.
LEMMA StackBeginKeeps ==
    ASSUME StackInv, NEW b \in Alive \cup {Null}, StackBegin(b), pc \in {"idle", "next"},
           UNCHANGED <<listVars, ret, blk, walkVars>>
    PROVE  StackInv'
<1>1. /\ Still /\ Surgery = {} /\ Surgery' = {} /\ Types /\ active' = b /\ blk' = blk /\ ret' = ret
      /\ UNCHANGED <<unused, num, taskId, ptr>> /\ pc' \in {"idle", "call"}
  BY DEF StackBegin, Still, listVars, Surgery, StackInv
<1>2. Alive' = Alive /\ Spare' = Spare /\ Alive \subseteq Block /\ Null \notin Block
  BY <1>1, StillSame, ListsAreSets, BlockAssumption
<1>3. b # Null => /\ b \in Block /\ pc' = "call" /\ saved' = next[b] /\ cur' = id[b]
                  /\ id[b] > 0 /\ id[b] < taskId /\ id[b] \in 0 .. MaxId
  BY <1>1, <1>2 DEF StackBegin, StackInv, Ids, Types
<1>4. b = Null => pc' = "idle" /\ saved' = Null /\ cur' = 0
  BY DEF StackBegin
<1>5. Types'
  <2>1. saved' \in Block \cup {Null} /\ cur' \in 0 .. MaxId /\ b \in Block \cup {Null}
    BY <1>1, <1>2, <1>3, <1>4, IdAssumption DEF Types, Pointers
  <2> QED BY <1>1, <2>1 DEF Types, Between, listVars, walkVars
<1>6. Parts' /\ Ids' /\ Order' /\ Count'
  BY <1>1, StillParts
<1>7. Hands'
  BY <1>1 DEF Hands, Creating, Finishing
<1>8. Pass'
  <2>1. CASE b # Null
    <3>1. /\ saved' # Null => saved' \in Alive /\ 0 < id[saved'] /\ id[saved'] < cur'
          /\ \A c \in Alive : id[c] < cur' => saved' # Null /\ id[c] <= id[saved']
      BY <2>1, <1>1, <1>2, <1>3, NextIsOlder DEF StackInv
    <3>2. ~Idle' /\ pc' # "unlink" /\ active' \in Block /\ cur' > 0 /\ cur' < taskId' /\ id'[active'] = cur'
      BY <2>1, <1>1, <1>3 DEF Still, Idle, Creating, Finishing
    <3> QED BY <3>1, <3>2, <1>1, <1>2 DEF Still, Pass
  <2>2. CASE b = Null
    BY <2>2, <1>4 DEF Pass, Idle, Serving, Finishing
  <2> QED BY <2>1, <2>2
<1>9. Filled'
  BY <1>1, <1>2 DEF StackInv, Filled, Serving, Finishing
<1>10. Walk'
  BY <1>1, StillWalk
<1> QED BY <1>5, <1>6, <1>7, <1>8, <1>9, <1>10 DEF StackInv

\* A function of the active stack waits, pushes or pops.
LEMMA CallKeeps ==
    ASSUME StackInv, CallWait \/ CallPop \/ CallPush
    PROVE  StackInv'
<1>1. /\ Still /\ Surgery = {} /\ Surgery' = {} /\ Types /\ active \in Block /\ pc = "call"
      /\ ptr[active] >= 0 /\ pc' \in {"call", "next"} /\ id[active] = cur
      /\ UNCHANGED <<unused, num, taskId, active, saved, ret, blk, cur, walkVars>>
  <2>1. pc = "call" /\ ptr[active] >= 0
    BY DEF CallWait, CallPop, CallPush, Runs
  <2>2. active \in Block
    BY <2>1 DEF StackInv, Pass, Idle, Creating, Finishing
  <2>3. id[active] = cur
    BY <2>1 DEF StackInv, Pass, Serving
  <2> QED BY <2>1, <2>2, <2>3 DEF CallWait, CallPop, CallPush, Still, listVars, passVars, Surgery, StackInv
<1>2. Alive' = Alive /\ Spare' = Spare
  BY <1>1, StillSame
<1>3. /\ ptr' \in [Block -> -1 .. MaxDepth] /\ \A c \in Block \ {active} : ptr'[c] = ptr[c]
      /\ pc' = "next" => ptr' = ptr
  <2>1. CASE CallWait
    BY <2>1, <1>1 DEF CallWait, listVars, Types
  <2>2. CASE CallPop
    BY <2>2, <1>1, IdAssumption DEF CallPop, Types, passVars
  <2>3. CASE CallPush
    BY <2>3, <1>1, IdAssumption DEF CallPush, Types, passVars
  <2> QED BY <2>1, <2>2, <2>3
<1>4. Types'
  BY <1>1, <1>3 DEF Still, Types, Between, walkVars
<1>5. Parts' /\ Ids' /\ Order' /\ Count'
  BY <1>1, StillParts
<1>6. Hands'
  BY <1>1 DEF Hands, Creating, Finishing
<1>7. Pass'
  BY <1>1, <1>2 DEF Still, StackInv, Pass, Idle, Serving, Creating, Finishing
<1>8. Filled'
  <2>1. \A c \in Alive : c \in Block /\ (c # active => ptr[c] >= 0)
    BY <1>1, ListsAreSets DEF StackInv, Filled, Finishing
  <2> QED BY <1>1, <1>2, <1>3, <2>1 DEF Filled, Serving
<1>9. Walk'
  BY <1>1, StillWalk
<1> QED BY <1>4, <1>5, <1>6, <1>7, <1>8, <1>9 DEF StackInv

\* The restarted script does not compile.
LEMMA RestartFailsKeeps ==
    ASSUME StackInv, RestartFails PROVE StackInv'
<1>1. /\ Still /\ Surgery = {} /\ Surgery' = {} /\ pc = "restart" /\ pc' = "next" /\ Types
      /\ UNCHANGED <<ptr, unused, num, taskId, active, saved, ret, blk, cur, walkVars>>
  BY DEF RestartFails, Still, listVars, Surgery, StackInv
<1>2. Alive' = Alive
  BY <1>1, StillSame
<1>3. Types'
  BY <1>1 DEF Still, Types, Between, walkVars
<1>4. Parts' /\ Ids' /\ Order' /\ Count' /\ Walk'
  BY <1>1, StillParts, StillWalk
<1>5. Hands' /\ Pass' /\ Filled'
  BY <1>1, <1>2 DEF Still, StackInv, Hands, Pass, Filled, Idle, Serving, Creating, Finishing
<1> QED BY <1>3, <1>4, <1>5 DEF StackInv

\* A stack is ended, by its number or by what runs on it.
LEMMA EndKeeps ==
    ASSUME StackInv, KillIdle \/ CallEnd \/ CallRestart \/ Emptied
    PROVE  StackInv'
<1>1. Types /\ \A b \in Alive : b \in Block /\ (pc # "name" => id[b] # 0)
  BY ListsAreSets DEF StackInv, Ids
<1>2. pc = "call" => /\ active \in Block /\ (id[active] # 0 => active \in Alive /\ id[active] = cur)
                     /\ ptr[active] >= 0 => id[active] = cur
                     /\ cur \in Nat /\ id[active] \in Nat
  <2> SUFFICES ASSUME pc = "call"
               PROVE  /\ active \in Block /\ (id[active] # 0 => active \in Alive /\ id[active] = cur)
                      /\ ptr[active] >= 0 => id[active] = cur
                      /\ cur \in Nat /\ id[active] \in Nat
    OBVIOUS
  <2>1. active \in Block
    BY DEF StackInv, Pass, Idle, Creating, Finishing
  <2>2. id[active] = cur \/ (id[active] = 0 /\ ptr[active] = -1)
    BY DEF StackInv, Pass, Serving
  <2>3. id[active] # 0 => active \in Alive
    BY <2>1 DEF StackInv, Ids
  <2>4. cur \in Nat /\ id[active] \in Nat
    BY <1>1, <2>1 DEF Types
  <2> QED BY <2>1, <2>2, <2>3, <2>4
<1>3. CASE KillIdle
  <2>1. PICK b \in Alive : FinishThen(b, "idle")
    BY <1>3 DEF KillIdle, Alive
  <2>2. pc = "idle" /\ UNCHANGED <<listVars, active, saved, cur, walkVars>> /\ id[b] # 0 /\ b \in Block
    BY <1>1, <1>3 DEF KillIdle
  <2> QED BY <2>1, <2>2, FinishThenKeeps
<1>4. CASE CallEnd
  <2>1. pc = "call" /\ ptr[active] >= 0 /\ UNCHANGED <<listVars, active, saved, cur, walkVars>>
    BY <1>4 DEF CallEnd, Runs
  <2>2. PICK b \in Alive : id[b] >= id[active] /\ FinishThen(b, "call")
    BY <1>4 DEF CallEnd, Alive
  <2>3. id[b] # 0 => id[b] >= cur
    BY <1>2, <2>1, <2>2
  <2> QED BY <1>1, <2>1, <2>2, <2>3, FinishThenKeeps
<1>5. CASE CallRestart
  <2>1. /\ pc = "call" /\ ptr[active] >= 0 /\ FinishThen(active, "restart")
        /\ UNCHANGED <<listVars, active, saved, cur, walkVars>>
    BY <1>5 DEF CallRestart, Runs
  <2>2. active \in Block /\ (id[active] # 0 => active \in Alive /\ id[active] >= cur)
    BY <1>2, <2>1
  <2> QED BY <2>1, <2>2, FinishThenKeeps
<1>6. CASE Emptied
  <2>1. /\ pc = "call" /\ FinishThen(active, "next")
        /\ UNCHANGED <<listVars, active, saved, cur, walkVars>>
    BY <1>6 DEF Emptied
  <2>2. active \in Block /\ (id[active] # 0 => active \in Alive /\ id[active] >= cur)
    BY <1>2, <2>1
  <2> QED BY <2>1, <2>2, FinishThenKeeps
<1> QED BY <1>3, <1>4, <1>5, <1>6

-----------------------------------------------------------------------------
(* action_stack_is_finished, and every step *)

LEMMA PtpKeeps ==
    ASSUME StackInv, Ptp PROVE StackInv'
<1>1. /\ UNCHANGED <<listVars, passVars>> /\ Types
      /\ wpc' \in {"idle", "look", "advance"} /\ wid' \in 0 .. MaxId /\ wid' < taskId
      /\ wp' \in Block \cup {Null} /\ answer' \in {"none", "alive", "finished"} /\ wasLive' \in BOOLEAN
      /\ (wpc' # "idle" => wid' > 0) /\ (wpc' = "advance" => wp' # Null)
  <2>1. Types /\ wid < taskId /\ (wpc # "idle" => wid > 0) /\ (wpc = "advance" => wp # Null)
    BY DEF StackInv, Walk
  <2>2. CASE Ask
    <3>1. wid' \in 1 .. taskId - 1 /\ taskId \in 1 .. MaxId + 1
      BY <2>1, <2>2 DEF Ask, Types
    <3>2. wid' \in 0 .. MaxId /\ wid' < taskId /\ wid' > 0
      BY <3>1, IdAssumption
    <3>3. wasLive' \in BOOLEAN
      BY <2>2 DEF Ask
    <3>4. wpc' = "look" /\ wp' = head /\ UNCHANGED <<listVars, passVars, answer>>
      BY <2>2 DEF Ask
    <3> QED BY <2>1, <3>2, <3>3, <3>4 DEF Types
  <2>3. CASE Look
    BY <2>1, <2>3 DEF Look, Types
  <2>4. CASE Advance
    <3>1. wp \in Block
      BY <2>1, <2>4 DEF Advance, Types
    <3> QED BY <2>1, <2>4, <3>1 DEF Advance, Types, Pointers
  <2>5. CASE Finished
    BY <2>1, <2>5 DEF Finished, Types
  <2> QED BY <2>2, <2>3, <2>4, <2>5 DEF Ptp
<1>2. Still /\ Surgery' = Surgery /\ pc' = pc /\ blk' = blk
  BY <1>1 DEF Still, Surgery, listVars, passVars
<1>3. Alive' = Alive /\ Spare' = Spare /\ Alive \subseteq Block
  BY <1>1, <1>2, StillSame, ListsAreSets
<1>4. Types'
  BY <1>1 DEF Types, Creating, Finishing, Between, listVars, passVars
<1>5. Parts' /\ Ids' /\ Order' /\ Hands' /\ Count' /\ Pass' /\ Filled'
  BY <1>1, <1>2, <1>3 DEF Still, StackInv, Parts, Ids, Order, Hands, Count, Pass, Filled, Idle, Serving,
                          Creating, Finishing, listVars, passVars
<1>6. /\ wpc' # "idle" /\ ~wasLive' =>
           (\A b \in Block : id[b] # wid') \/ (pc = "mark" /\ id[blk] = wid' /\ wp' \in Alive \cup {Null})
      /\ AliveRight'
  <2>1. /\ \A b \in Block : id[b] # 0 => b \in Alive \/ (pc = "mark" /\ b = blk)
        /\ \A b, c \in Block : id[b] = id[c] /\ id[b] # 0 => b = c
        /\ pc = "mark" => blk \in Block /\ blk \notin Alive
    BY DEF StackInv, Ids, Hands, Finishing, Parts, Surgery
  <2>2. wpc # "idle" /\ ~wasLive =>
           (\A b \in Block : id[b] # wid) \/ (pc = "mark" /\ id[blk] = wid /\ wp \in Alive \cup {Null})
    BY DEF StackInv, Walk
  <2>3. CASE Ask
    <3>1. wid' > 0 /\ wpc' = "look" /\ wp' = head /\ wasLive' = (wid' \in Live)
      BY <2>3 DEF Ask
    <3>2. ~wasLive' => \A b \in Alive : id[b] # wid'
      <4>1. \A b \in Alive : id[b] = wid' => wid' \in Live
        BY <3>1, <1>1 DEF Live, Alive
      <4>2. ~wasLive' => wid' \notin Live
        BY <2>3 DEF Ask
      <4> QED BY <4>1, <4>2
    <3>3. head \in Alive \cup {Null}
      BY <1>1, ListsAreSets
    <3>4. ~wasLive' => (\A b \in Block : id[b] # wid') \/ (pc = "mark" /\ id[blk] = wid')
      BY <3>1, <3>2, <2>1, <1>1
    <3>5. wp' \in Alive \cup {Null} /\ wpc' = "look"
      BY <2>3, <3>3 DEF Ask
    <3> QED BY <3>4, <3>5 DEF AliveRight
  <2>4. CASE Look
    <3>1. wp \in Block /\ wid # 0 /\ wpc = "look" /\ UNCHANGED <<wp, wid, wasLive>>
          /\ wasLive \in BOOLEAN
      BY <2>4, <1>1 DEF Look, Types, StackInv, Walk
    <3>2. CASE id[wp] = wid
      <4>1. wasLive
        BY <3>1, <3>2, <2>1, <2>2, BlockAssumption
      <4>2. wpc' = "idle"
        BY <2>4, <3>2 DEF Look
      <4> QED BY <3>1, <4>1, <4>2 DEF AliveRight
    <3>3. CASE id[wp] # wid
      <4>1. wpc' = "advance"
        BY <2>4, <3>3 DEF Look
      <4> QED BY <3>1, <4>1, <2>2 DEF AliveRight
    <3> QED BY <3>2, <3>3
  <2>5. CASE Advance
    <3>1. wpc = "advance" /\ wp # Null /\ wp' = next[wp] /\ wpc' = "look" /\ UNCHANGED <<wid, wasLive>>
      BY <2>5 DEF Advance, StackInv, Walk
    <3>2. wp \in Alive \cup {Null} => wp' \in Alive \cup {Null}
      BY <3>1, <1>1, ListsAreSets
    <3> QED BY <3>1, <3>2, <2>2 DEF AliveRight
  <2>6. CASE Finished
    BY <2>6 DEF Finished, AliveRight
  <2> QED BY <2>3, <2>4, <2>5, <2>6 DEF Ptp
<1>7. Walk'
  <2>1. taskId' = taskId /\ id' = id
    BY <1>1 DEF listVars
  <2> QED BY <1>1, <1>2, <1>3, <1>6, <2>1 DEF Walk
<1> QED BY <1>4, <1>5, <1>7 DEF StackInv

LEMMA StackStep == StackInv /\ [Next]_vars => StackInv'
<1> SUFFICES ASSUME StackInv, [Next]_vars PROVE StackInv'
  OBVIOUS
<1>1. CASE UNCHANGED vars
  <2>1. UNCHANGED <<listVars, passVars, walkVars>>
    BY <1>1 DEF vars
  <2>2. Still /\ Surgery' = Surgery
    BY <2>1 DEF Still, Surgery, listVars, passVars
  <2>3. Alive' = Alive /\ Spare' = Spare
    BY <2>2, StillSame
  <2>4. Types'
    BY <2>1 DEF StackInv, Types, Creating, Finishing, Between, listVars, passVars, walkVars
  <2>5. Parts' /\ Ids' /\ Order' /\ Hands' /\ Count' /\ Pass' /\ Filled' /\ Walk'
    BY <2>1, <2>2, <2>3 DEF Still, StackInv, Parts, Ids, Order, Hands, Count, Pass, Filled, Walk, Idle,
                            Serving, Creating, Finishing, AliveRight, listVars, passVars, walkVars
  <2> QED BY <2>4, <2>5 DEF StackInv
<1>2. CASE Start \/ Restart
  BY <1>2, CreateTakeKeeps DEF Start, Restart
<1>3. CASE StartRefused
  BY <1>1, <1>3 DEF StartRefused
<1>4. CASE CreateLink
  BY <1>4, CreateLinkKeeps
<1>5. CASE CreateInsert
  BY <1>5, CreateInsertKeeps
<1>6. CASE CreateName
  BY <1>6, CreateNameKeeps
<1>7. CASE FinishUnlink
  BY <1>7, FinishUnlinkKeeps
<1>8. CASE FinishMark
  BY <1>8, FinishMarkKeeps
<1>9. CASE FinishFree
  BY <1>9, FinishFreeKeeps
<1>10. CASE PassBegin
  <2>1. head \in Alive \cup {Null}
    BY ListsAreSets DEF StackInv
  <2> QED BY <1>10, <2>1, StackBeginKeeps DEF PassBegin
<1>11. CASE PassNext
  <2>1. saved \in Alive \cup {Null}
    BY <1>11 DEF PassNext, StackInv, Pass, Idle, Creating, Finishing
  <2> QED BY <1>11, <2>1, StackBeginKeeps DEF PassNext
<1>12. CASE CallWait \/ CallPop \/ CallPush
  BY <1>12, CallKeeps
<1>13. CASE RestartFails
  BY <1>13, RestartFailsKeeps
<1>14. CASE KillIdle \/ CallEnd \/ CallRestart \/ Emptied
  BY <1>14, EndKeeps
<1>15. CASE Ptp
  BY <1>15, PtpKeeps
<1> QED BY <1>1, <1>2, <1>3, <1>4, <1>5, <1>6, <1>7, <1>8, <1>9, <1>10, <1>11, <1>12, <1>13, <1>14, <1>15
        DEF Next, Kbd

LEMMA StackAlways == Spec => []StackInv
  BY StackInit, StackStep, PTL DEF Spec

-----------------------------------------------------------------------------
(* What the list promises *)

\* Every pointer of the lists and of the two tasks is a block or none, and every
\* count is within its bound.
THEOREM StackTypeCorrect == Spec => []TypeOK
<1>1. StackInv => TypeOK
  BY DEF StackInv, Types, TypeOK, Pointers, Creating, Finishing, Between
<1> QED BY <1>1, StackAlways, PTL

\* However stacks are started, ended and restarted, in a pass or between passes,
\* every block stays on one list, the list stays ordered and num_stacks counts it.
THEOREM ListWellFormed == Spec => []WellFormed
<1>1. StackInv => WellFormed
  <2> SUFFICES ASSUME StackInv PROVE WellFormed
    OBVIOUS
  <2>1. /\ Alive \cap Spare = {} /\ Alive \cap unused = {} /\ Spare \cap unused = {}
        /\ Surgery \cap Alive = {} /\ Surgery \cap Spare = {} /\ Surgery \cap unused = {}
        /\ Alive \cup Spare \cup unused \cup Surgery = Block
    BY DEF StackInv, Parts
  <2> DEFINE parts == <<Alive, Spare, unused, Surgery>>
  <2>2. 1 .. 4 = {1, 2, 3, 4}
    OBVIOUS
  <2>3. parts[1] = Alive /\ parts[2] = Spare /\ parts[3] = unused /\ parts[4] = Surgery
    OBVIOUS
  <2> HIDE DEF parts
  <2>4. UNION {parts[k] : k \in 1 .. 4} = Block
    <3>1. {parts[k] : k \in 1 .. 4} = {Alive, Spare, unused, Surgery}
      BY <2>2, <2>3
    <3>2. UNION {Alive, Spare, unused, Surgery} = Block
      BY <2>1
    <3> QED BY <3>1, <3>2
  <2>5. \A j, k \in 1 .. 4 : j # k => parts[j] \cap parts[k] = {}
    BY <2>1, <2>2, <2>3
  <2>6. \A b \in Alive : next[b] # Null => id[b] > id[next[b]] \/ (pc = "name" /\ b = blk)
    BY DEF StackInv, Order
  <2>7. pc \in {"idle", "call", "next", "restart"} => num = Cardinality(Alive)
    BY DEF StackInv, Count
  <2>8. pc = "idle" => \A b \in Alive : ptr[b] >= 0
    BY DEF StackInv, Filled, Serving, Finishing
  <2> QED BY <2>4, <2>5, <2>6, <2>7, <2>8 DEF WellFormed, Alive, Spare, parts
<1> QED BY <1>1, StackAlways, PTL

\* A stack the PTP task is told is alive was alive when it asked, wherever its walk
\* was when the keyboard task unlinked, emptied or reused the block under it.
THEOREM AliveAnswersRight == Spec => []AliveRight
<1>1. StackInv => AliveRight
  BY DEF StackInv, Walk
<1> QED BY <1>1, StackAlways, PTL

-----------------------------------------------------------------------------
(* The list as the set of stacks that StackList describes *)

\* The ids in the blocks, but for the one of a stack that has been unlinked.
Named == {id[b] : b \in {c \in Block : ~(pc = "mark" /\ c = blk)}} \ {0}

LEMMA LiveIsNamed == StackInv => Live = Named
<1> SUFFICES ASSUME StackInv PROVE Live = Named
  OBVIOUS
<1>1. Alive \subseteq Block /\ (pc = "mark" => blk \notin Alive)
  BY ListsAreSets DEF StackInv, Parts, Surgery
<1>2. \A b \in Block : id[b] # 0 => b \in Alive \/ (pc = "mark" /\ b = blk)
  BY DEF StackInv, Ids
<1> QED BY <1>1, <1>2 DEF Live, Named, Alive

\* Fewer ids than blocks that hold them.
LEMMA FewerIds ==
    ASSUME NEW S \in SUBSET Block, IsFiniteSet(S), NEW f \in [Block -> Int]
    PROVE  Cardinality({f[b] : b \in S}) <= Cardinality(S) /\ IsFiniteSet({f[b] : b \in S})
<1> DEFINE g == [b \in S |-> f[b]]
           T == {f[b] : b \in S}
<1>1. g \in Surjection(S, T)
  BY DEF Surjection
<1> HIDE DEF g, T
<1>2. Cardinality(T) <= Cardinality(S) /\ IsFiniteSet(T)
  BY <1>1, FS_Surjection
<1> QED BY <1>2 DEF T

LEMMA GreatestChosen ==
    ASSUME NEW S \in SUBSET Int, NEW m \in S, \A j \in S : j <= m
    PROVE  (CHOOSE i \in S : \A j \in S : j <= i) = m
<1>1. \A i \in S : (\A j \in S : j <= i) => i = m
  <2> SUFFICES ASSUME NEW i \in S, \A j \in S : j <= i PROVE i = m
    OBVIOUS
  <2>1. m <= i /\ i <= m /\ i \in Int /\ m \in Int
    OBVIOUS
  <2> QED BY <2>1
<1>2. \E i \in S : \A j \in S : j <= i
  OBVIOUS
<1>3. (CHOOSE i \in S : \A j \in S : j <= i) \in S
      /\ \A k \in S : k <= (CHOOSE i \in S : \A j \in S : j <= i)
  BY <1>2
<1> QED BY <1>1, <1>3

LEMMA StackListInit == Init => List!Init
<1> SUFFICES ASSUME Init PROVE List!Init
  OBVIOUS
<1>1. next \in Pointers /\ head = Null
  BY DEF Init, Pointers
<1>2. Live = {}
  BY <1>1, ReachNull DEF Live, Listed
<1> QED BY <1>2 DEF Init, List!Init

\* A turn begins: StackList serves the greatest id that is left.
LEMMA TurnServes ==
    ASSUME StackInv, Live' = Live, PassBegin \/ PassNext
    PROVE  List!Serve
<1>1. /\ Types /\ Ids /\ Order /\ Alive \subseteq Block /\ taskId' = taskId
      /\ \A b \in Alive : id[b] \in Int /\ 0 < id[b]
      /\ pc # "name"
  <2>1. pc \in {"idle", "next"} /\ taskId' = taskId
    BY DEF PassBegin, PassNext, listVars
  <2>2. \A b \in Block : id[b] \in 0 .. MaxId
    BY DEF StackInv, Types
  <2> QED BY <2>1, <2>2, ListsAreSets DEF StackInv, Ids
<1>2. Live = {id[b] : b \in Alive}
  BY <1>1 DEF Live, Alive
<1>3. CASE PassBegin
  <2>1. cur = 0 /\ head \in Alive /\ cur' = id[head]
    BY <1>1, <1>3, ListsAreSets DEF PassBegin, StackBegin, StackInv, Pass, Idle
  <2>2. List!Older(cur) = Live
    BY <2>1 DEF List!Older
  <2>3. \A b \in Alive : id[b] <= id[head]
    BY <1>1, NextIsOlder
  <2>4. Live \subseteq Int /\ id[head] \in Live /\ \A j \in Live : j <= id[head]
    BY <1>1, <1>2, <2>1, <2>3
  <2>5. (CHOOSE i \in Live : \A j \in Live : j <= i) = id[head]
    BY <2>4, GreatestChosen
  <2> QED BY <1>1, <2>1, <2>2, <2>4, <2>5 DEF List!Serve
<1>4. CASE PassNext
  <2>1. /\ cur > 0 /\ cur \in Nat
        /\ saved # Null => saved \in Alive /\ id[saved] < cur
        /\ \A b \in Alive : id[b] < cur => saved # Null /\ id[b] <= id[saved]
        /\ cur' = IF saved = Null THEN 0 ELSE id[saved]
    <3>1. ~Idle /\ cur \in Nat
      BY <1>1, <1>4 DEF PassNext, Idle, Creating, Finishing, Types
    <3> QED BY <1>1, <1>4, <3>1 DEF PassNext, StackBegin, StackInv, Pass
  <2> DEFINE O == {j \in Live : j < cur}
  <2>2. List!Older(cur) = O
    BY <2>1 DEF List!Older
  <2>3. CASE saved = Null
    <3>1. O = {}
      BY <1>2, <2>1, <2>3
    <3> QED BY <1>1, <2>1, <2>2, <2>3, <3>1 DEF List!Serve
  <2>4. CASE saved # Null
    <3>1. O \subseteq Int /\ id[saved] \in O /\ \A j \in O : j <= id[saved]
      BY <1>1, <1>2, <2>1, <2>4
    <3> HIDE DEF O
    <3>2. (CHOOSE i \in O : \A j \in O : j <= i) = id[saved]
      BY <3>1, GreatestChosen
    <3> QED BY <1>1, <2>1, <2>2, <2>4, <3>1, <3>2 DEF List!Serve
  <2> QED BY <2>3, <2>4
<1> QED BY <1>3, <1>4

LEMMA StackListStep ==
    ASSUME StackInv, StackInv', Live = Named, Live' = Named', [Next]_vars
    PROVE  [List!Next]_(List!vars)
<1>1. Types /\ Alive \subseteq Block
  BY ListsAreSets DEF StackInv
\* the steps that end or name no stack
<1>2. ASSUME id' = id, pc # "mark", pc' # "mark" PROVE Live' = Live
  BY <1>2 DEF Named
<1>3. ASSUME Live' = Live, taskId' = taskId, cur' = cur PROVE UNCHANGED List!vars
  BY <1>3 DEF List!vars
<1>4. CASE Start \/ Restart
  <2>1. PICK b \in Block : b \notin Alive /\ id' = [id EXCEPT ![b] = 0]
    <3>1. CASE free # Null
      BY <1>1, <1>4, <3>1, ListsAreSets DEF Start, Restart, CreateTake, StackInv, Parts, Types
    <3>2. CASE free = Null
      BY <1>1, <1>4, <3>2 DEF Start, Restart, CreateTake, StackInv, Parts
    <3> QED BY <3>1, <3>2
  <2>2. pc \in {"idle", "restart"} /\ pc' = "link" /\ taskId' = taskId /\ cur' = cur
    BY <1>4 DEF Start, Restart, CreateTake
  <2>3. id[b] = 0 /\ \A c \in Block : id'[c] = IF c = b THEN 0 ELSE id[c]
    BY <1>1, <2>1, <2>2 DEF StackInv, Ids, Types
  <2>4. Live' = Live
    BY <2>2, <2>3 DEF Named
  <2> QED BY <1>3, <2>2, <2>4
<1>5. CASE CreateName
  <2>1. /\ pc = "name" /\ pc' \in {"idle", "next"} /\ blk \in Block /\ blk \in Alive /\ id[blk] = 0
        /\ num < MaxStacks /\ taskId <= MaxId /\ taskId' = taskId + 1 /\ cur' = cur
        /\ num + 1 = Cardinality(Alive) /\ taskId > 0 /\ taskId \in Nat
        /\ IsFiniteSet(Alive) /\ id \in [Block -> Int] /\ \A b \in Alive : b # blk => id[b] # 0
    <3>1. blk \in Alive
      <4>1. pc = "name" /\ head = blk /\ blk \in Block
        BY <1>5 DEF CreateName, StackInv, Hands, Creating
      <4> QED BY <1>1, <4>1, ListsAreSets, BlockAssumption
    <3> QED BY <1>1, <1>5, <3>1 DEF CreateName, StackInv, Hands, Creating, Count, Types, Parts, Ids
  <2>2. \A b \in Block : id'[b] = IF b = blk THEN taskId ELSE id[b]
    BY <1>1, <1>5 DEF CreateName, Types
  <2>3. Live' = Live \cup {taskId}
    BY <2>1, <2>2 DEF Named
  <2>4. Live = {id[b] : b \in Alive \ {blk}}
    BY <2>1 DEF Live, Alive
  <2>5. IsFiniteSet(Alive \ {blk}) /\ Cardinality(Alive \ {blk}) = Cardinality(Alive) - 1
    BY <2>1, FS_RemoveElement
  <2>6. Cardinality(Live) <= Cardinality(Alive \ {blk}) /\ IsFiniteSet(Live)
    BY <1>1, <2>1, <2>4, <2>5, FewerIds
  <2>7. List!Cardinality(Live) < MaxStacks
    <3>1. Cardinality(Live) \in Nat /\ num \in Nat /\ MaxStacks \in Nat
      BY <1>1, <2>6, FS_CardinalityType, BlockAssumption DEF Types
    <3>2. Cardinality(Alive \ {blk}) = num
      BY <2>1, <2>5, <3>1
    <3>3. List!Cardinality(Live) = Cardinality(Live)
      BY DEF List!Cardinality, Cardinality
    <3> QED BY <2>1, <2>6, <3>1, <3>2, <3>3
  <2>8. /\ taskId - 1 < MaxId /\ taskId' - 1 = (taskId - 1) + 1
        /\ Live' = Live \cup {(taskId - 1) + 1}
    BY <2>1, <2>3, IdAssumption
  <2> QED BY <2>1, <2>7, <2>8 DEF List!Next, List!Create
<1>6. CASE FinishUnlink
  <2>1. /\ pc = "unlink" /\ pc' = "mark" /\ blk' = blk /\ blk \in Block /\ id[blk] # 0 /\ id' = id
        /\ taskId' = taskId /\ cur' = cur
        /\ \A b, c \in Block : id[b] = id[c] /\ id[b] # 0 => b = c
    BY <1>6 DEF FinishUnlink, StackInv, Hands, Finishing, Ids
  <2>2. id[blk] \in Live /\ Live' = Live \ {id[blk]}
    BY <2>1 DEF Named
  <2> QED BY <2>1, <2>2 DEF List!Next, List!Remove
<1>7. CASE FinishMark
  <2>1. /\ pc = "mark" /\ pc' = "free" /\ taskId' = taskId /\ cur' = cur
        /\ \A c \in Block : id'[c] = IF c = blk THEN 0 ELSE id[c]
    BY <1>1, <1>7 DEF FinishMark, Types
  <2>2. Live' = Live
    BY <2>1 DEF Named
  <2> QED BY <1>3, <2>1, <2>2
<1>8. CASE PassBegin \/ PassNext
  <2>1. id' = id /\ pc # "mark" /\ pc' # "mark"
    BY <1>8 DEF PassBegin, PassNext, StackBegin, listVars
  <2> QED BY <1>2, <1>8, <2>1, TurnServes DEF List!Next
<1>9. CASE CreateLink \/ CreateInsert \/ FinishFree
  <2>1. id' = id /\ pc # "mark" /\ pc' # "mark" /\ taskId' = taskId /\ cur' = cur
    BY <1>1, <1>9 DEF CreateLink, CreateInsert, FinishFree, Types
  <2> QED BY <1>2, <1>3, <2>1
<1>10. CASE KillIdle \/ CallWait \/ CallPop \/ CallPush \/ CallEnd \/ CallRestart \/ RestartFails \/ Emptied
  <2>1. id' = id /\ pc # "mark" /\ pc' # "mark" /\ taskId' = taskId /\ cur' = cur
    BY <1>10 DEF KillIdle, CallWait, CallPop, CallPush, CallEnd, CallRestart, RestartFails, Emptied, Runs,
                 FinishThen, listVars, passVars
  <2> QED BY <1>2, <1>3, <2>1
<1>11. CASE Ptp \/ StartRefused \/ UNCHANGED vars
  <2>1. id' = id /\ pc' = pc /\ blk' = blk /\ taskId' = taskId /\ cur' = cur
    BY <1>11 DEF Ptp, Ask, Look, Advance, Finished, StartRefused, vars, listVars, passVars
  <2>2. Live' = Live
    BY <2>1 DEF Named
  <2> QED BY <1>3, <2>1, <2>2
<1> QED BY <1>4, <1>5, <1>6, <1>7, <1>8, <1>9, <1>10, <1>11 DEF Next, Kbd

\* The linked list, cut and linked a pointer at a time, is for everyone a set of at
\* most MaxStacks ids, none used twice, and a pass serves each of them once, from the
\* newest to the oldest, whatever the functions it calls end or start.
THEOREM ListIsStacks == Spec => ImplementsStackList
<1>1. (StackInv => Live = Named) /\ (StackInv => Live = Named)'
  BY LiveIsNamed, PTL
<1>2. StackInv /\ StackInv' /\ [Next]_vars => [List!Next]_(List!vars)
  BY <1>1, StackListStep
<1> QED BY <1>2, StackListInit, StackAlways, PTL DEF Spec, ImplementsStackList, List!Spec

\* A stack that was made and is not live any more.
Ended(i) == 0 < i /\ i < taskId /\ i \notin Live

\* A stack that has ended stays ended: its id never becomes that of another one,
\* although its block does, so the id a caller of action_stack_create has kept names
\* his stack or none, however late he asks for it or kills it.
THEOREM EndedForGood == ASSUME NEW i \in Nat PROVE Spec => [](Ended(i) => []Ended(i))
<1>1. StackInv /\ StackInv' /\ [Next]_vars => (Ended(i) => Ended(i)')
  <2> SUFFICES ASSUME StackInv, StackInv', [Next]_vars, Ended(i) PROVE Ended(i)'
    OBVIOUS
  <2>1. taskId \in Int /\ taskId' \in Int
    BY DEF StackInv, Types
  <2>2. Live = Named /\ Live' = Named'
    <3>1. (StackInv => Live = Named) /\ (StackInv => Live = Named)'
      BY LiveIsNamed, PTL
    <3> QED BY <3>1
  <2>3. [List!Next]_(List!vars)
    BY <2>2, StackListStep
  <2>4. \/ Live' = Live \cup {taskId - 1 + 1} /\ taskId' - 1 = taskId - 1 + 1
        \/ Live' \subseteq Live /\ taskId' - 1 = taskId - 1
    <3>1. CASE List!Create
      BY <3>1 DEF List!Create
    <3>2. CASE ~List!Create
      BY <2>3, <3>2 DEF List!Next, List!Remove, List!Serve, List!vars
    <3> QED BY <3>1, <3>2
  <2>5. \A a, b \in Int : (b - 1 = a - 1 + 1 => b = a + 1) /\ (b - 1 = a - 1 => b = a)
                        /\ a - 1 + 1 = a
    OBVIOUS
  <2>6. \/ Live' = Live \cup {taskId} /\ taskId' = taskId + 1
        \/ Live' \subseteq Live /\ taskId' = taskId
    BY <2>1, <2>4, <2>5
  <2>7. i \in Nat /\ 0 < i /\ i < taskId /\ i \notin Live
    BY DEF Ended
  <2>8. i < taskId' /\ i \notin Live'
    BY <2>1, <2>6, <2>7
  <2> QED BY <2>7, <2>8 DEF Ended
<1> QED BY <1>1, StackAlways, PTL DEF Spec
=============================================================================
