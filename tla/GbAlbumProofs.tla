---------------------------- MODULE GbAlbumProofs ----------------------------
(* Proofs about the album, for any number of slots, of pictures to keep and of    *)
(* pictures taken.                                                            *)
EXTENDS GbAlbum, TLAPS, SequenceTheorems, WellFoundedInduction

-----------------------------------------------------------------------------
(* Numbers *)

\* A non-empty set of numbers has a least member,
LEMMA LeastNumber ==
    ASSUME NEW S \in SUBSET Nat, S # {}
    PROVE  \E n \in S : \A m \in S : n <= m
<1>1. PICK n \in S : \A m \in S : <<m, n>> \notin OpToRel(<, Nat)
  BY NatLessThanWellFounded, WFMin
<1>2. \A m \in S : ~ (m < n)
  BY <1>1 DEF OpToRel
<1> QED BY <1>2

\* and, if it is bounded, a greatest one.
LEMMA GreatestNumber ==
    ASSUME NEW b \in Nat, NEW S \in SUBSET Nat, S # {}, \A n \in S : n < b
    PROVE  \E n \in S : \A m \in S : n >= m
<1> DEFINE T == {b - n : n \in S}
<1>1. T \in SUBSET Nat /\ T # {}
  <2>1. \A n \in S : n \in Nat /\ n < b
    OBVIOUS
  <2>2. \A n \in Nat : n < b => b - n \in Nat
    OBVIOUS
  <2> QED BY <2>1, <2>2
<1> HIDE DEF T
<1>2. PICK x \in T : \A y \in T : x <= y
  BY <1>1, LeastNumber
<1>3. PICK n \in S : x = b - n
  BY DEF T
<1>4. ASSUME NEW m \in S PROVE n >= m
  <2>1. b - m \in T
    BY DEF T
  <2>2. b - n <= b - m
    BY <2>1, <1>2, <1>3
  <2>3. n \in Nat /\ m \in Nat
    OBVIOUS
  <2> QED BY <2>2, <2>3
<1> QED BY <1>4

-----------------------------------------------------------------------------
(* The variables and the numbers in DCIM *)

Carts == [tiles : [Slots -> 0 .. taken], tab : Seq(Slots)]

Types ==
    /\ phase \in {"off", "on", "closing"} /\ rom \in {"idle", "stored", "counted", "listed"}
    /\ dirty \in BOOLEAN /\ commit \in BOOLEAN /\ refused \in BOOLEAN
    /\ taken \in 0 .. MaxPics /\ cursor \in 0 .. NSlots /\ guard \in 0 .. Guard
    /\ tiles \in [Slots -> 0 .. taken] /\ sum \in [Slots -> 0 .. taken]
    /\ tab \in Seq(Slots) /\ wtab \in Seq(Slots) /\ sav \in Carts
    /\ IsInjective(tab) /\ IsInjective(wtab) /\ IsInjective(sav.tab)
    /\ deleted \subseteq 1 .. taken

\* The numbers in use are bounded, and the next one is beyond those of the pictures
\* unless the session could not read the directory.
Numbers ==
    /\ DOMAIN dcim \subseteq 0 .. LastNumber
    /\ InDcim \subseteq 1 .. taken
    /\ dcimNext \in -1 .. LastNumber + 1 /\ blind \in BOOLEAN
    /\ dcimNext < 0 \/ blind \/ \A n \in DOMAIN dcim : dcim[n] # 0 => n < dcimNext

\* A directory that is read to its end gives a number beyond all in use.
LEMMA FirstFreeIsFree ==
    ASSUME Numbers
    PROVE  FirstFree \in 0 .. LastNumber + 1 /\ \A n \in DOMAIN dcim : n < FirstFree
<1>1. CASE DOMAIN dcim = {}
  BY <1>1, NumberAssumption DEF FirstFree
<1>2. CASE DOMAIN dcim # {}
  <2>1. /\ LastNumber + 1 \in Nat /\ DOMAIN dcim \subseteq Nat
        /\ \A n \in DOMAIN dcim : n < LastNumber + 1
    BY NumberAssumption DEF Numbers
  <2>2. \E n \in DOMAIN dcim : \A m \in DOMAIN dcim : n >= m
    BY <1>2, <2>1, GreatestNumber
  <2>3. Max(DOMAIN dcim) \in DOMAIN dcim /\ \A m \in DOMAIN dcim : Max(DOMAIN dcim) >= m
    BY <2>2 DEF Max
  <2>4. \A m \in DOMAIN dcim : m \in 0 .. LastNumber
    BY DEF Numbers
  <2> QED BY <1>2, <2>3, <2>4, NumberAssumption DEF FirstFree
<1> QED BY <1>1, <1>2

LEMMA ScanInRange == ASSUME Numbers PROVE Scan \subseteq 0 .. LastNumber + 1
<1>1. \A m \in DOMAIN dcim : 1 + m \in 0 .. LastNumber + 1
  BY NumberAssumption DEF Numbers
<1>2. 0 \in 0 .. LastNumber + 1
  BY NumberAssumption
<1> QED BY <1>1, <1>2, FirstFreeIsFree DEF Scan

\* One file more, or another one with a number in use.
LEMMA PutFile ==
    ASSUME NEW n, NEW q
    PROVE  /\ DOMAIN Put(n, q) = DOMAIN dcim \cup {n}
           /\ \A m \in DOMAIN dcim : m # n => Put(n, q)[m] = dcim[m]
           /\ Put(n, q)[n] = q
           /\ Range(Put(n, q)) \subseteq Range(dcim) \cup {q}
BY DEF Put, Range

-----------------------------------------------------------------------------
(* The table of slots *)

LEMMA WithoutFirst ==
    ASSUME NEW L \in Nat, NEW f \in 0 .. L, NEW q, DOMAIN q = 1 .. L, IsInjective(q),
           NEW r, DOMAIN r = 1 .. L - f, \A i \in 1 .. L - f : r[i] = q[f + i]
    PROVE  IsInjective(r) /\ Range(q) = Range(r) \cup {q[i] : i \in 1 .. f}
<1>1. IsInjective(r)
  <2> SUFFICES ASSUME NEW a \in 1 .. L - f, NEW b \in 1 .. L - f, r[a] = r[b] PROVE a = b
    BY DEF IsInjective
  <2>1. f + a \in 1 .. L /\ f + b \in 1 .. L /\ q[f + a] = q[f + b]
    OBVIOUS
  <2>2. f + a = f + b
    BY <2>1 DEF IsInjective
  <2> QED BY <2>2
<1>2. ASSUME NEW i \in 1 .. L, i \notin 1 .. f PROVE q[i] \in Range(r)
  <2>1. i - f \in 1 .. L - f /\ f + (i - f) = i
    BY <1>2
  <2>2. r[i - f] = q[i]
    BY <2>1
  <2> QED BY <2>1, <2>2 DEF Range
<1>3. ASSUME NEW i \in 1 .. L - f PROVE r[i] \in Range(q)
  <2>1. f + i \in 1 .. L /\ r[i] = q[f + i]
    OBVIOUS
  <2> QED BY <2>1 DEF Range
<1>4. 1 .. f \subseteq 1 .. L
  OBVIOUS
<1> QED BY <1>1, <1>2, <1>3, <1>4 DEF Range

\* The entries behind the k-th of a list.
LEMMA TailEntries ==
    ASSUME NEW q \in Seq(Slots), NEW f \in 0 .. Len(q)
    PROVE  /\ SubSeq(q, f + 1, Len(q)) \in Seq(Slots)
           /\ Len(SubSeq(q, f + 1, Len(q))) = Len(q) - f
           /\ \A i \in 1 .. Len(q) - f : SubSeq(q, f + 1, Len(q))[i] = q[f + i]
<1>1. Len(q) \in Nat /\ \A i \in 1 .. Len(q) : q[i] \in Slots
  OBVIOUS
<1> DEFINE m == f + 1
           n == Len(q)
           t == SubSeq(q, m, n)
<1>2. m \in Int /\ n \in Int /\ m >= 1
  BY <1>1
<1>3. \A i \in m .. n : q[i] \in Slots
  BY <1>1, <1>2
<1> HIDE DEF m, n
<1>4. /\ t \in Seq(Slots) /\ Len(t) = IF m <= n THEN n - m + 1 ELSE 0
      /\ \A i \in 1 .. n - m + 1 : t[i] = q[m + i - 1]
  BY ONLY <1>2, <1>3, SubSeqProperties
<1> HIDE DEF t
<1>5. n - m + 1 = Len(q) - f /\ (m <= n \/ Len(q) - f = 0)
      /\ \A i \in Int : m + i - 1 = f + i
  BY <1>1 DEF m, n
<1>6. Len(t) = Len(q) - f /\ \A i \in 1 .. Len(q) - f : t[i] = q[f + i]
  <2>1. Len(t) = Len(q) - f
    BY ONLY <1>1, <1>2, <1>4, <1>5
  <2>2. ASSUME NEW i \in 1 .. Len(q) - f PROVE t[i] = q[f + i]
    <3>1. i \in Int /\ i \in 1 .. n - m + 1 /\ m + i - 1 = f + i
      BY ONLY <2>2, <1>5
    <3> QED BY ONLY <3>1, <1>4
  <2> QED BY <2>1, <2>2
<1> QED BY <1>4, <1>6 DEF t, m, n

\* r is what is left of a list q without its first f entries.
IsTail(r, q, f) ==
    /\ r \in Seq(Slots) /\ IsInjective(r) /\ Len(r) = Len(q) - f
    /\ \A i \in 1 .. Len(r) : r[i] = q[f + i]
    /\ Range(q) = Range(r) \cup {q[i] : i \in 1 .. f}

LEMMA TailIsList ==
    ASSUME NEW q \in Seq(Slots), IsInjective(q), NEW f \in 0 .. Len(q),
           NEW r, r = SubSeq(q, f + 1, Len(q))
    PROVE  IsTail(r, q, f)
<1> DEFINE L == Len(q)
<1>1. r \in Seq(Slots) /\ Len(r) = L - f /\ \A i \in 1 .. L - f : r[i] = q[f + i]
  BY TailEntries
<1>2. DOMAIN r = 1 .. L - f /\ DOMAIN q = 1 .. L
  BY <1>1
<1>3. L \in Nat /\ f \in 0 .. L
  OBVIOUS
<1>4. IsInjective(q)
  OBVIOUS
<1> HIDE DEF L
<1>5. IsInjective(r) /\ Range(q) = Range(r) \cup {q[i] : i \in 1 .. f}
  BY ONLY <1>1, <1>2, <1>3, <1>4, WithoutFirst
<1> QED BY <1>1, <1>5 DEF L, IsTail

LEMMA WithoutOne ==
    ASSUME NEW L \in Nat, NEW k \in 1 .. L, NEW q, DOMAIN q = 1 .. L, IsInjective(q),
           NEW r, DOMAIN r = 1 .. L - 1,
           \A i \in 1 .. L - 1 : i < k => r[i] = q[i],
           \A i \in 1 .. L - 1 : i >= k => r[i] = q[i + 1]
    PROVE  IsInjective(r) /\ Range(r) \subseteq Range(q) /\ Range(q) \subseteq Range(r) \cup {q[k]}
<1>1. IsInjective(r)
  <2> SUFFICES ASSUME NEW i \in 1 .. L - 1, NEW j \in 1 .. L - 1, r[i] = r[j] PROVE i = j
    BY DEF IsInjective
  <2>1. \A x, y \in 1 .. L : q[x] = q[y] => x = y
    BY DEF IsInjective
  <2> DEFINE x == IF i < k THEN i ELSE i + 1
             y == IF j < k THEN j ELSE j + 1
  <2>2. x \in 1 .. L /\ y \in 1 .. L
    OBVIOUS
  <2>3. r[i] = q[x] /\ r[j] = q[y]
    OBVIOUS
  <2>4. x = y => i = j
    OBVIOUS
  <2> HIDE DEF x, y
  <2> QED BY <2>1, <2>2, <2>3, <2>4
<1>2. Range(r) \subseteq Range(q)
  <2> SUFFICES ASSUME NEW i \in 1 .. L - 1 PROVE \E m \in 1 .. L : r[i] = q[m]
    BY DEF Range
  <2>1. i \in 1 .. L /\ i + 1 \in 1 .. L
    OBVIOUS
  <2> QED BY <2>1
<1>3. Range(q) \subseteq Range(r) \cup {q[k]}
  <2>1. ASSUME NEW i \in 1 .. L, i < k PROVE q[i] \in Range(r)
    <3>1. i \in 1 .. L - 1 /\ r[i] = q[i]
      BY <2>1
    <3> QED BY <3>1 DEF Range
  <2>2. ASSUME NEW i \in 1 .. L, i > k PROVE q[i] \in Range(r)
    <3>1. i - 1 \in 1 .. L - 1 /\ i - 1 >= k /\ (i - 1) + 1 = i
      BY <2>2
    <3>2. r[i - 1] = q[i]
      BY <3>1
    <3> QED BY <3>1, <3>2 DEF Range
  <2>3. \A i \in 1 .. L : i < k \/ i = k \/ i > k
    OBVIOUS
  <2> QED BY <2>1, <2>2, <2>3 DEF Range
<1> QED BY <1>1, <1>2, <1>3

LEMMA RemovedIsList ==
    ASSUME NEW q \in Seq(Slots), IsInjective(q), NEW k \in DOMAIN q,
           NEW r, r = SubSeq(q, 1, k - 1) \o SubSeq(q, k + 1, Len(q))
    PROVE  /\ r \in Seq(Slots) /\ IsInjective(r)
           /\ Range(q) \subseteq Range(r) \cup {q[k]}
           /\ Range(r) \subseteq Range(q)
<1> DEFINE L == Len(q)
           a == SubSeq(q, 1, k - 1)
           b == SubSeq(q, k + 1, L)
<1>1. DOMAIN q = 1 .. L /\ L \in Nat /\ k \in 1 .. L
  OBVIOUS
<1>2. a \in Seq(Slots) /\ Len(a) = k - 1 /\ \A i \in 1 .. k - 1 : a[i] = q[i]
  BY <1>1
<1>3. b \in Seq(Slots) /\ Len(b) = L - k /\ \A i \in 1 .. L - k : b[i] = q[k + i]
  <2>1. k \in 0 .. Len(q)
    BY <1>1
  <2> QED BY <2>1, TailEntries
<1>4. r = a \o b
  OBVIOUS
<1> HIDE DEF a, b, L
<1>5. r \in Seq(Slots) /\ Len(r) = Len(a) + Len(b) /\ Len(a) \in Nat /\ Len(b) \in Nat
  <2>1. a \o b \in Seq(Slots) /\ Len(a \o b) = Len(a) + Len(b)
    BY ONLY <1>2, <1>3, ConcatProperties
  <2>2. Len(a) \in Nat /\ Len(b) \in Nat
    BY ONLY <1>2, <1>3
  <2> QED BY ONLY <2>1, <2>2, <1>4
<1>6. \A i \in 1 .. Len(r) : r[i] = IF i <= Len(a) THEN a[i] ELSE b[i - Len(a)]
  <2>1. \A i \in 1 .. Len(a) + Len(b) : (a \o b)[i] = IF i <= Len(a) THEN a[i] ELSE b[i - Len(a)]
    BY ONLY <1>2, <1>3, ConcatProperties
  <2> QED BY ONLY <2>1, <1>4, <1>5
<1>7. Len(r) = L - 1 /\ DOMAIN r = 1 .. L - 1
  BY <1>1, <1>2, <1>3, <1>5
<1>8. ASSUME NEW i \in 1 .. L - 1, i < k PROVE r[i] = q[i]
  <2>1. i <= Len(a) /\ i \in 1 .. k - 1
    BY <1>1, <1>2, <1>8
  <2> QED BY <2>1, <1>2, <1>6, <1>7
<1>9. ASSUME NEW i \in 1 .. L - 1, i >= k PROVE r[i] = q[i + 1]
  <2>1. ~ (i <= Len(a)) /\ i - Len(a) \in 1 .. L - k /\ k + (i - Len(a)) = i + 1
    BY <1>1, <1>2, <1>9
  <2>2. r[i] = b[i - Len(a)]
    BY <2>1, <1>6, <1>7
  <2>3. b[i - Len(a)] = q[k + (i - Len(a))]
    BY <2>1, <1>3
  <2> QED BY <2>1, <2>2, <2>3
<1>10. IsInjective(r) /\ Range(r) \subseteq Range(q) /\ Range(q) \subseteq Range(r) \cup {q[k]}
  <2>1. IsInjective(q)
    OBVIOUS
  <2>2. \A i \in 1 .. L - 1 : i < k => r[i] = q[i]
    BY <1>8
  <2>3. \A i \in 1 .. L - 1 : i >= k => r[i] = q[i + 1]
    BY <1>9
  <2> QED BY ONLY <1>1, <1>7, <2>1, <2>2, <2>3, WithoutOne
<1> QED BY <1>5, <1>10

LEMMA AppendedIsList ==
    ASSUME NEW q \in Seq(Slots), IsInjective(q), NEW s \in Slots, s \notin Range(q),
           NEW r, r = Append(q, s)
    PROVE  r \in Seq(Slots) /\ IsInjective(r) /\ Range(r) = Range(q) \cup {s}
<1>1. r \in Seq(Slots) /\ Len(r) = Len(q) + 1 /\ r[Len(r)] = s
      /\ \A i \in 1 .. Len(q) : r[i] = q[i]
  OBVIOUS
<1>2. DOMAIN q = 1 .. Len(q) /\ DOMAIN r = 1 .. Len(q) + 1 /\ Len(q) \in Nat
  BY <1>1
<1>3. \A i \in DOMAIN r : \/ i \in DOMAIN q /\ r[i] = q[i]
                          \/ i = Len(r) /\ r[i] = s
  BY <1>1, <1>2
<1>4. \A i \in DOMAIN q : q[i] # s
  BY DEF Range
<1>5. IsInjective(r)
  BY <1>1, <1>3, <1>4 DEF IsInjective
<1>6. Range(r) = Range(q) \cup {s}
  <2>1. DOMAIN q \subseteq DOMAIN r /\ Len(r) \in DOMAIN r /\ \A i \in DOMAIN q : r[i] = q[i]
    BY <1>1, <1>2
  <2> QED BY <2>1, <1>1, <1>3 DEF Range
<1> QED BY <1>1, <1>5, <1>6

\* gbc_album_recycle: it frees as many of the oldest as it may.
LEMMA FreedIsMost ==
    ASSUME tab \in Seq(Slots)
    PROVE  /\ Freed \in 0 .. Len(tab)
           /\ Len(tab) <= Keep => Freed = 0
           /\ Len(tab) > Keep => /\ Freed <= Len(tab) - Keep
                                 /\ \A i \in 1 .. Freed : sum[tab[i]] # 0
                                 /\ Freed = Len(tab) - Keep \/ sum[tab[Freed + 1]] = 0
<1>1. CASE Len(tab) <= Keep
  BY <1>1, SlotsAssumption DEF Freed
<1>2. CASE Len(tab) > Keep
  <2> DEFINE m == Len(tab) - Keep
             Ends == {k \in 0 .. m : k = m \/ sum[tab[k + 1]] = 0}
             P(k) == /\ \A i \in 1 .. k : sum[tab[i]] # 0
                     /\ k = m \/ sum[tab[k + 1]] = 0
  <2>1. m \in Nat /\ m <= Len(tab)
    BY <1>2, SlotsAssumption
  <2>2. m \in Ends /\ Ends \in SUBSET Nat
    BY <2>1
  <2>3. PICK k \in Ends : \A j \in Ends : k <= j
    BY <2>2, LeastNumber
  <2>4. ASSUME NEW i \in 1 .. k PROVE sum[tab[i]] # 0
    <3>1. i - 1 \in 0 .. m /\ i - 1 # m /\ (i - 1) + 1 = i /\ ~ (k <= i - 1)
      BY <2>1, <2>3
    <3>2. i - 1 \notin Ends
      BY <3>1, <2>3
    <3> QED BY <3>1, <3>2
  <2>5. k \in 0 .. m /\ P(k)
    BY <2>3, <2>4
  <2> HIDE DEF P
  <2>6. Freed = CHOOSE x \in 0 .. m : P(x)
    <3>1. ~ (Len(tab) <= Keep)
      BY <1>2, SlotsAssumption
    <3> QED BY ONLY <3>1 DEF Freed, P
  <2>7. Freed \in 0 .. m /\ P(Freed)
    BY <2>5, <2>6
  <2> QED BY <1>2, <2>1, <2>7, SlotsAssumption DEF P
<1> QED BY <1>1, <1>2, SlotsAssumption

-----------------------------------------------------------------------------
(* The flush is long enough *)

\* What is listed is a picture, and the one being stored is not listed yet.
Listed ==
    /\ \A s \in Range(tab) \cup Range(wtab) : tiles[s] # 0
    /\ \A s \in Range(sav.tab) : sav.tiles[s] # 0
    /\ rom = "stored" => taken > 0 /\ \A s \in Range(wtab) : tiles[s] # taken

\* What is not dirty is in the .SAV; a closed emulator has committed everything
\* unless the card refused it.
Saved ==
    /\ ~dirty => sav = [tiles |-> tiles, tab |-> tab]
    /\ phase # "on" /\ ~refused /\ dirty => commit
    /\ phase = "off" => ~commit /\ (dirty => refused)
    /\ phase = "on" => ~refused

\* The calls a commit still needs: the .SAV, a slot each, once more the .SAV when
\* something is recycled, and the end.
Left == (IF dirty THEN 1 ELSE 0) + (NSlots - cursor)
        + (IF cursor = NSlots /\ Freed = 0 THEN 0 ELSE 2) + 1

Enough == phase = "closing" /\ commit => guard >= Left

FlushInv == Types /\ Numbers /\ Listed /\ Saved /\ Enough

LEMMA FlushInit == Init => FlushInv
<1> SUFFICES ASSUME Init PROVE FlushInv
  OBVIOUS
<1>1. Blank \in [Slots -> 0 .. 0] /\ <<>> \in Seq(Slots) /\ IsInjective(<<>>)
  BY DEF Blank, IsInjective
<1>2. Types
  <2>1. tiles \in [Slots -> 0 .. taken] /\ sum \in [Slots -> 0 .. taken]
    BY <1>1 DEF Init
  <2>2. sav \in Carts /\ sav.tab = <<>>
    BY <1>1 DEF Init, Carts
  <2>3. IsInjective(tab) /\ IsInjective(wtab) /\ IsInjective(sav.tab)
    BY <1>1, <2>2 DEF Init
  <2>4. cursor \in 0 .. NSlots /\ guard \in 0 .. Guard /\ taken \in 0 .. MaxPics
    BY SlotsAssumption, PicsAssumption DEF Init, Guard
  <2>5. tab \in Seq(Slots) /\ wtab \in Seq(Slots)
    BY <1>1 DEF Init
  <2> QED BY <2>1, <2>2, <2>3, <2>4, <2>5 DEF Init, Types
<1>3. Numbers
  <2>1. DOMAIN dcim = {} /\ InDcim = {}
    BY DEF Init, InDcim, Range
  <2>2. -1 \in -1 .. LastNumber + 1
    BY NumberAssumption
  <2> QED BY <2>1, <2>2 DEF Init, Numbers
<1> QED BY <1>2, <1>3 DEF Init, FlushInv, Listed, Range, Saved, Enough

LEMMA OpenKeeps ==
    ASSUME FlushInv, Open PROVE FlushInv'
<1>1. Types'
  <2>1. sav.tiles \in [Slots -> 0 .. taken] /\ sav.tab \in Seq(Slots) /\ IsInjective(sav.tab)
    BY DEF FlushInv, Types, Carts
  <2>2. sav' \in Carts' /\ taken' = taken /\ deleted' = deleted
    BY DEF FlushInv, Open, Types, Carts
  <2>3. IsInjective(tab') /\ IsInjective(wtab') /\ IsInjective((sav').tab)
    BY <2>1 DEF Open
  <2>4. tiles' \in [Slots -> 0 .. taken'] /\ sum' \in [Slots -> 0 .. taken']
    BY <2>1, <2>2 DEF Open, LoadedSum
  <2>5. cursor' \in 0 .. NSlots /\ guard' \in 0 .. Guard
    BY SlotsAssumption DEF Open, Guard
  <2>6. tab' \in Seq(Slots) /\ wtab' \in Seq(Slots) /\ taken' \in 0 .. MaxPics /\ deleted' \subseteq 1 .. taken'
    BY <2>1, <2>2 DEF FlushInv, Open, Types
  <2> QED BY <2>2, <2>3, <2>4, <2>5, <2>6 DEF Open, Types
<1>2. Numbers'
  <2>1. -1 \in -1 .. LastNumber + 1
    BY NumberAssumption
  <2> QED BY <2>1 DEF FlushInv, Open, Numbers, InDcim
<1>3. Listed'
  BY DEF FlushInv, Open, Listed
<1>4. Saved' /\ Enough'
  BY DEF FlushInv, Open, Saved, Enough, Types, Carts
<1> QED BY <1>1, <1>2, <1>3, <1>4 DEF FlushInv

LEMMA CloseKeeps ==
    ASSUME FlushInv, Close PROVE FlushInv'
<1>1. Types'
  BY SlotsAssumption DEF FlushInv, Close, Types, Carts, Guard, cartVars, cardVars
<1>2. Numbers'
  BY DEF FlushInv, Close, Numbers, InDcim, cartVars, cardVars, history
<1>3. Listed'
  BY DEF FlushInv, Close, Listed, cartVars, cardVars
<1>4. Saved'
  BY DEF FlushInv, Close, Saved, cartVars, cardVars
<1>5. Enough'
  BY SlotsAssumption DEF FlushInv, Close, Enough, Left, Types, Guard
<1> QED BY <1>1, <1>2, <1>3, <1>4, <1>5 DEF FlushInv

LEMMA LeftPositive == FlushInv => Left > 0
  BY SlotsAssumption DEF FlushInv, Types, Left

LEMMA ClosedKeeps ==
    ASSUME FlushInv, Closed PROVE FlushInv'
<1>0. ~commit
  BY LeftPositive, SlotsAssumption DEF FlushInv, Closed, Enough, Types, Left
<1>1. Types'
  <2>1. Blank \in [Slots -> 0 .. taken] /\ <<>> \in Seq(Slots) /\ IsInjective(<<>>)
    BY DEF Blank, IsInjective, FlushInv, Types
  <2> QED BY <2>1, SlotsAssumption DEF FlushInv, Closed, Types, Carts, Guard, cardVars, history
<1>2. Numbers'
  BY DEF FlushInv, Closed, Numbers, InDcim, cardVars, history
<1>3. Listed'
  BY DEF FlushInv, Closed, Listed, Range, cardVars
<1>4. Saved' /\ Enough'
  BY <1>0 DEF FlushInv, Closed, Saved, Enough, cardVars, history
<1> QED BY <1>1, <1>2, <1>3, <1>4 DEF FlushInv

LEMMA PowerCutKeeps ==
    ASSUME FlushInv, PowerCut PROVE FlushInv'
<1>1. Types'
  <2>1. Blank \in [Slots -> 0 .. taken] /\ <<>> \in Seq(Slots) /\ IsInjective(<<>>)
    BY DEF Blank, IsInjective, FlushInv, Types
  <2>2. sav.tiles \in [Slots -> 0 .. taken] /\ sav.tab \in Seq(Slots) /\ IsInjective(sav.tab)
    BY DEF FlushInv, Types, Carts
  <2>3. sav' \in Carts' /\ taken' = taken /\ deleted' = deleted
    BY DEF FlushInv, PowerCut, Types, Carts
  <2>4. IsInjective(tab') /\ IsInjective(wtab') /\ IsInjective((sav').tab)
    BY <2>1, <2>2 DEF PowerCut
  <2>5. tiles' \in [Slots -> 0 .. taken'] /\ sum' \in [Slots -> 0 .. taken']
    BY <2>1, <2>2, <2>3 DEF PowerCut
  <2>6. cursor' \in 0 .. NSlots /\ guard' \in 0 .. Guard
    BY SlotsAssumption DEF PowerCut, Guard
  <2>7. /\ tab' \in Seq(Slots) /\ wtab' \in Seq(Slots)
        /\ taken' \in 0 .. MaxPics /\ deleted' \subseteq 1 .. taken' /\ refused' \in BOOLEAN
    BY <2>1, <2>2, <2>3 DEF FlushInv, PowerCut, Types
  <2> QED BY <2>3, <2>4, <2>5, <2>6, <2>7 DEF PowerCut, Types
<1>2. Numbers'
  <2>1. -1 \in -1 .. LastNumber + 1
    BY NumberAssumption
  <2> QED BY <2>1 DEF FlushInv, PowerCut, Numbers, InDcim
<1>3. Listed'
  BY DEF FlushInv, PowerCut, Listed, Range
<1>4. Saved' /\ Enough'
  BY DEF FlushInv, PowerCut, Saved, Enough, Types, Carts
<1> QED BY <1>1, <1>2, <1>3, <1>4 DEF FlushInv

\* A picture more.
LEMMA MoreTaken ==
    ASSUME taken \in 0 .. MaxPics, taken' = taken + 1
    PROVE  0 .. taken \subseteq 0 .. taken' /\ 1 .. taken \subseteq 1 .. taken'
  BY PicsAssumption

LEMMA RomStoreKeeps ==
    ASSUME FlushInv, RomStore PROVE FlushInv'
<1>0. 0 .. taken \subseteq 0 .. taken' /\ 1 .. taken \subseteq 1 .. taken' /\ taken + 1 \in 0 .. taken'
      /\ taken' \in 0 .. MaxPics
  BY MoreTaken, PicsAssumption DEF FlushInv, Types, RomStore
<1>1. Types'
  <2>1. tiles' \in [Slots -> 0 .. taken'] /\ sum' \in [Slots -> 0 .. taken'] /\ sav' \in Carts'
    BY <1>0 DEF FlushInv, Types, Carts, RomStore, RomUnchanged, cardVars
  <2> QED BY <1>0, <2>1 DEF FlushInv, Types, RomStore, RomUnchanged, cardVars, history
<1>2. Numbers'
  BY <1>0 DEF FlushInv, RomStore, RomUnchanged, Numbers, InDcim, cardVars, history
<1>3. Listed'
  <2>1. PICK s \in Slots \ Range(wtab) : tiles' = [tiles EXCEPT ![s] = taken + 1]
    BY DEF RomStore
  <2>2. \A x \in Slots : tiles'[x] = (IF x = s THEN taken + 1 ELSE tiles[x]) /\ tiles[x] \in 0 .. taken
    BY <2>1 DEF FlushInv, Types
  <2>3. Range(tab) \cup Range(wtab) \subseteq Slots
    BY DEF FlushInv, Types, Range
  <2>4. taken \in Nat
    BY DEF FlushInv, Types
  <2> QED BY <2>2, <2>3, <2>4 DEF FlushInv, RomStore, RomUnchanged, Listed, cardVars
<1>4. Saved' /\ Enough'
  BY DEF FlushInv, RomStore, RomFree, RomUnchanged, Saved, Enough, history
<1> QED BY <1>1, <1>2, <1>3, <1>4 DEF FlushInv

LEMMA RomCountKeeps ==
    ASSUME FlushInv, RomCount PROVE FlushInv'
<1>1. Types'
  <2>1. PICK s \in Slots : tiles[s] = taken /\ wtab' = Append(wtab, s)
    BY DEF RomCount
  <2>2. s \notin Range(wtab)
    BY <2>1 DEF RomCount, FlushInv, Listed
  <2>3. wtab' \in Seq(Slots) /\ IsInjective(wtab')
    BY <2>1, <2>2, AppendedIsList DEF FlushInv, Types
  <2> QED BY <2>3 DEF FlushInv, Types, Carts, RomCount, RomUnchanged, cardVars, history
<1>2. Numbers'
  BY DEF FlushInv, RomCount, RomUnchanged, Numbers, InDcim, cardVars, history
<1>3. Listed'
  <2>1. PICK s \in Slots : tiles[s] = taken /\ wtab' = Append(wtab, s)
    BY DEF RomCount
  <2>2. s \notin Range(wtab)
    BY <2>1 DEF RomCount, FlushInv, Listed
  <2>3. Range(wtab') = Range(wtab) \cup {s}
    BY <2>1, <2>2, AppendedIsList DEF FlushInv, Types
  <2> QED BY <2>1, <2>3 DEF FlushInv, Listed, RomCount, RomUnchanged, cardVars
<1>4. Saved' /\ Enough'
  BY DEF FlushInv, RomCount, RomUnchanged, Saved, Enough, history, cardVars
<1> QED BY <1>1, <1>2, <1>3, <1>4 DEF FlushInv

LEMMA RomListKeeps ==
    ASSUME FlushInv, RomList PROVE FlushInv'
<1>1. Types'
  BY DEF FlushInv, Types, Carts, RomList, RomUnchanged, cardVars, history
<1>2. Numbers'
  BY DEF FlushInv, RomList, RomUnchanged, Numbers, InDcim, cardVars, history
<1>3. Listed'
  BY DEF FlushInv, RomList, RomUnchanged, Listed, cardVars
<1>4. Saved' /\ Enough'
  BY DEF FlushInv, RomList, RomUnchanged, Saved, Enough, history, cardVars
<1> QED BY <1>1, <1>2, <1>3, <1>4 DEF FlushInv

LEMMA RomDeleteKeeps ==
    ASSUME FlushInv, RomDelete PROVE FlushInv'
<1>1. Types'
  <2>1. PICK k \in DOMAIN wtab :
            /\ wtab' = SubSeq(wtab, 1, k - 1) \o SubSeq(wtab, k + 1, Len(wtab))
            /\ deleted' = deleted \cup {tiles[wtab[k]]}
    BY DEF RomDelete
  <2>2. wtab' \in Seq(Slots) /\ IsInjective(wtab')
    BY <2>1, RemovedIsList DEF FlushInv, Types
  <2>3. wtab[k] \in Slots
    BY DEF FlushInv, Types
  <2>4. tiles[wtab[k]] \in 1 .. taken
    BY <2>3 DEF FlushInv, Types, Listed, Range
  <2> QED BY <2>1, <2>2, <2>4 DEF FlushInv, Types, Carts, RomDelete, RomUnchanged, cardVars, history
<1>2. Numbers'
  BY DEF FlushInv, RomDelete, RomUnchanged, Numbers, InDcim, cardVars, history
<1>3. Listed'
  <2>1. PICK k \in DOMAIN wtab : wtab' = SubSeq(wtab, 1, k - 1) \o SubSeq(wtab, k + 1, Len(wtab))
    BY DEF RomDelete
  <2>2. Range(wtab') \subseteq Range(wtab)
    BY <2>1, RemovedIsList DEF FlushInv, Types
  <2> QED BY <2>2 DEF FlushInv, Listed, RomDelete, RomUnchanged, cardVars
<1>4. Saved' /\ Enough'
  BY DEF FlushInv, RomDelete, RomFree, RomUnchanged, Saved, Enough, history, cardVars
<1> QED BY <1>1, <1>2, <1>3, <1>4 DEF FlushInv

LEMMA RomDisableKeeps ==
    ASSUME FlushInv, RomDisable PROVE FlushInv'
<1>1. Types'
  <2>1. cursor' \in 0 .. NSlots /\ commit' \in BOOLEAN
    <3>1. 0 \in 0 .. NSlots
      BY SlotsAssumption
    <3> QED BY <3>1 DEF FlushInv, Types, RomDisable, Request
  <2> QED BY <2>1 DEF FlushInv, Types, Carts, RomDisable, cardVars, history
<1>2. Numbers'
  BY DEF FlushInv, RomDisable, Numbers, InDcim, cardVars, history
<1>3. Listed'
  BY DEF FlushInv, RomDisable, Listed, cardVars
<1>4. Saved' /\ Enough'
  BY DEF FlushInv, RomDisable, Saved, Enough, history, cardVars
<1> QED BY <1>1, <1>2, <1>3, <1>4 DEF FlushInv

\* What the album holds is of the form of a .SAV.
LEMMA CartIsSav ==
    ASSUME Types PROVE [tiles |-> tiles, tab |-> tab] \in Carts /\ [tiles |-> Blank, tab |-> <<>>] \in Carts
<1>1. Blank \in [Slots -> 0 .. taken] /\ <<>> \in Seq(Slots)
  BY DEF Blank, Types
<1> QED BY <1>1 DEF Types, Carts

\* A call of the flush is one less.
LEMMA ServicedTypes ==
    ASSUME Types, Serviced
    PROVE  guard' \in 0 .. Guard /\ (phase = "closing" => guard' = guard - 1) /\ commit
  BY SlotsAssumption DEF Types, Serviced, Guard

\* What each call of a commit leaves of the work.
LEMMA WriteSavLeft ==
    ASSUME Types, WriteSav PROVE Left' = Left - 1 /\ Left \in Int
<1>1. Freed' = Freed
  BY DEF WriteSav, Freed, cartVars
<1> QED BY <1>1, SlotsAssumption DEF WriteSav, Left, Types

LEMMA WriteSavKeeps ==
    ASSUME FlushInv, WriteSav PROVE FlushInv'
<1>0. Types /\ guard' \in 0 .. Guard /\ (phase = "closing" => guard' = guard - 1) /\ commit
  BY ServicedTypes DEF FlushInv, WriteSav
<1>1. Types'
  <2>1. sav' \in Carts'
    BY <1>0, CartIsSav DEF WriteSav, cartVars, Carts
  <2>2. IsInjective((sav').tab)
    BY <1>0 DEF WriteSav, Types
  <2> QED BY <1>0, <2>1, <2>2 DEF Types, WriteSav, cartVars, history
<1>2. Numbers'
  BY DEF FlushInv, WriteSav, Numbers, InDcim, cartVars, history
<1>3. Listed'
  BY DEF FlushInv, WriteSav, Listed, cartVars
<1>4. Saved'
  BY <1>0 DEF FlushInv, WriteSav, Saved, cartVars, history
<1>5. Enough'
  <2>1. Left' = Left - 1 /\ Left \in Int /\ guard \in Int
    BY <1>0, WriteSavLeft, SlotsAssumption DEF Types, Guard
  <2> QED BY <2>1, <1>0 DEF FlushInv, Enough, WriteSav
<1> QED BY <1>1, <1>2, <1>3, <1>4, <1>5 DEF FlushInv

LEMMA WriteSavFailsKeeps ==
    ASSUME FlushInv, WriteSavFails PROVE FlushInv'
<1>0. Types /\ guard' \in 0 .. Guard /\ commit
  BY ServicedTypes DEF FlushInv, WriteSavFails
<1>1. Types' /\ Listed'
  <2>1. sav' \in Carts' /\ IsInjective((sav').tab)
    <3>1. [tiles |-> Blank, tab |-> <<>>].tab = <<>> /\ IsInjective(<<>>)
      BY DEF IsInjective
    <3> QED BY <1>0, <3>1, CartIsSav DEF WriteSavFails, cartVars, Carts, Types
  <2>2. \A s \in Range((sav').tab) : (sav').tiles[s] # 0
    BY DEF FlushInv, Listed, WriteSavFails, Range
  <2>3. Types'
    BY <1>0, <2>1 DEF Types, WriteSavFails, cartVars
  <2>4. Listed'
    BY <2>2 DEF FlushInv, Listed, WriteSavFails, cartVars
  <2> QED BY <2>3, <2>4
<1>2. Numbers'
  BY DEF FlushInv, WriteSavFails, Numbers, InDcim, cartVars, history
<1>3. Saved' /\ Enough'
  BY <1>0 DEF FlushInv, WriteSavFails, Saved, Enough, cartVars, Serviced
<1> QED BY <1>1, <1>2, <1>3 DEF FlushInv

LEMMA ExportTypes ==
    ASSUME FlushInv, NEW s \in Slots, Export(s)
    PROVE  Types /\ tiles[s] \in 1 .. taken /\ taken \in Nat /\ taken' = taken /\ s \in 0 .. NSlots - 1
  BY PicsAssumption DEF FlushInv, Types, Export, Pending, Slots, cartVars

\* What is exported gets a number that no picture has, unless the session could not
\* read the directory.
LEMMA ExportNumbers ==
    ASSUME FlushInv, NEW s \in Slots, Export(s)
    PROVE  /\ Numbers'
           /\ ~blind' => \A n \in DOMAIN dcim : dcim[n] # 0 => n \in DOMAIN dcim' /\ dcim'[n] = dcim[n]
<1> DEFINE q == tiles[s]
<1>1. PICK n \in IF dcimNext < 0 THEN Scan ELSE {dcimNext} :
          /\ blind' = IF dcimNext < 0 THEN n # FirstFree ELSE blind
          /\ DcimWrite(n, q)
  BY DEF Export
<1>2. Numbers /\ q \in 1 .. taken /\ taken' = taken /\ taken \in Nat
  BY ExportTypes DEF FlushInv
<1>3. n \in 0 .. LastNumber + 1 /\ blind' \in BOOLEAN
  <2>1. CASE dcimNext < 0
    BY <1>1, <1>2, <2>1, ScanInRange
  <2>2. CASE ~ (dcimNext < 0)
    BY <1>1, <1>2, <2>2 DEF Numbers
  <2> QED BY <2>1, <2>2
<1>4. ~blind' => \A m \in DOMAIN dcim : dcim[m] # 0 => m < n
  BY <1>1, <1>2, FirstFreeIsFree DEF Numbers
<1>5. \/ dcim' = dcim /\ dcimNext' = n
      \/ n <= LastNumber /\ dcim' = Put(n, q) /\ dcimNext' = n + 1
      \/ n <= LastNumber /\ dcim' = Put(n, 0) /\ dcimNext' = n
  BY <1>1 DEF DcimWrite
<1> HIDE DEF q
<1>6. DOMAIN dcim \subseteq 0 .. LastNumber /\ InDcim \subseteq 1 .. taken
  BY <1>2 DEF Numbers
<1>7. CASE dcim' = dcim /\ dcimNext' = n
  BY <1>2, <1>3, <1>4, <1>6, <1>7, NumberAssumption DEF Numbers, InDcim
<1>8. CASE n <= LastNumber /\ dcim' = Put(n, q) /\ dcimNext' = n + 1
  <2>0. /\ DOMAIN dcim' = DOMAIN dcim \cup {n}
        /\ \A m \in DOMAIN dcim : m # n => dcim'[m] = dcim[m]
        /\ dcim'[n] = q
        /\ Range(dcim') \subseteq Range(dcim) \cup {q}
    <3> DEFINE file == Put(n, q)
    <3>1. /\ DOMAIN file = DOMAIN dcim \cup {n}
          /\ \A m \in DOMAIN dcim : m # n => file[m] = dcim[m]
          /\ file[n] = q
          /\ Range(file) \subseteq Range(dcim) \cup {q}
      BY PutFile
    <3>2. dcim' = file
      BY <1>8
    <3> HIDE DEF file
    <3> QED BY <3>1, <3>2
  <2>1. DOMAIN dcim' \subseteq 0 .. LastNumber /\ dcimNext' \in -1 .. LastNumber + 1
    BY <1>3, <1>6, <1>8, <2>0, NumberAssumption
  <2>2. InDcim' \subseteq 1 .. taken'
    BY <1>2, <1>6, <2>0 DEF InDcim
  <2>3. ~blind' => \A m \in DOMAIN dcim : dcim[m] # 0 => m \in DOMAIN dcim' /\ dcim'[m] = dcim[m]
    BY <1>3, <1>4, <1>8, <2>0
  <2>4. ~blind' => \A m \in DOMAIN dcim' : dcim'[m] # 0 => m < dcimNext'
    <3> SUFFICES ASSUME ~blind', NEW m \in DOMAIN dcim', dcim'[m] # 0 PROVE m < n + 1
      BY <1>8
    <3>1. CASE m = n
      BY <3>1, <1>3
    <3>2. CASE m # n
      <4>1. m \in DOMAIN dcim /\ dcim[m] # 0
        BY <3>2, <1>8, <2>0
      <4>2. m < n /\ m \in Int
        BY <4>1, <1>4, <1>6
      <4> QED BY <4>2, <1>3
    <3> QED BY <3>1, <3>2
  <2> QED BY <1>3, <2>1, <2>2, <2>3, <2>4 DEF Numbers
<1>9. CASE n <= LastNumber /\ dcim' = Put(n, 0) /\ dcimNext' = n
  <2>0. /\ DOMAIN dcim' = DOMAIN dcim \cup {n}
        /\ \A m \in DOMAIN dcim : m # n => dcim'[m] = dcim[m]
        /\ dcim'[n] = 0
        /\ Range(dcim') \subseteq Range(dcim) \cup {0}
    <3> DEFINE file == Put(n, 0)
    <3>1. /\ DOMAIN file = DOMAIN dcim \cup {n}
          /\ \A m \in DOMAIN dcim : m # n => file[m] = dcim[m]
          /\ file[n] = 0
          /\ Range(file) \subseteq Range(dcim) \cup {0}
      BY PutFile
    <3>2. dcim' = file
      BY <1>9
    <3> HIDE DEF file
    <3> QED BY <3>1, <3>2
  <2>1. DOMAIN dcim' \subseteq 0 .. LastNumber /\ dcimNext' \in -1 .. LastNumber + 1
    BY <1>3, <1>6, <1>9, <2>0, NumberAssumption
  <2>2. InDcim' \subseteq 1 .. taken'
    BY <1>2, <1>6, <2>0 DEF InDcim
  <2>3. ~blind' => \A m \in DOMAIN dcim : dcim[m] # 0 => m \in DOMAIN dcim' /\ dcim'[m] = dcim[m]
    BY <1>3, <1>4, <1>9, <2>0
  <2>4. ~blind' => \A m \in DOMAIN dcim' : dcim'[m] # 0 => m < dcimNext'
    BY <1>4, <1>9, <2>0
  <2> QED BY <1>3, <2>1, <2>2, <2>3, <2>4 DEF Numbers
<1> QED BY <1>5, <1>7, <1>8, <1>9

\* What was in DCIM is there or excused, and so is what the call exports or passes over.
LEMMA ExportExcuses ==
    ASSUME FlushInv, NEW s \in Slots, Export(s)
    PROVE  /\ InDcim \cup excused \subseteq InDcim' \cup excused'
           /\ \A t \in PendingTo(s) \cup {s} : tiles[t] \in InDcim' \cup excused'
<1>1. /\ excused \subseteq InDcim' \cup excused'
      /\ \A t \in PendingTo(s) \cup {s} : tiles[t] \in InDcim' \cup excused'
      /\ blind' => InDcim \subseteq InDcim' \cup excused'
  BY DEF Export
<1>2. ~blind' => InDcim \subseteq InDcim'
  BY ExportNumbers DEF InDcim, Range
<1> QED BY <1>1, <1>2

LEMMA ExportLeft ==
    ASSUME Types, NEW s \in Slots, Export(s)
    PROVE  Left' <= Left - 1 /\ Left \in Int /\ Left' \in Int
<1>1. s \in Int /\ s \in 0 .. NSlots - 1 /\ s >= cursor /\ cursor' = s + 1 /\ ~dirty
  BY SlotsAssumption DEF Slots, Export
<1>2. Left = (NSlots - cursor) + 3
  BY <1>1, SlotsAssumption DEF Types, Left
<1>3. Left' <= (NSlots - cursor') + 3
  BY <1>1, SlotsAssumption DEF Export, Left
<1>4. Left' \in Int /\ cursor \in Int /\ NSlots \in Int
  BY <1>1, SlotsAssumption DEF Types, Left
<1>5. Left' <= (NSlots - (s + 1)) + 3
  BY <1>3, <1>1
<1> QED BY <1>1, <1>2, <1>4, <1>5

LEMMA ExportKeeps ==
    ASSUME FlushInv, NEW s \in Slots, Export(s) PROVE FlushInv'
<1>0. Types /\ guard' \in 0 .. Guard /\ (phase = "closing" => guard' = guard - 1) /\ commit
  BY ServicedTypes DEF FlushInv, Export
<1>a. s + 1 \in 0 .. NSlots /\ s >= cursor /\ cursor' = s + 1 /\ s \in Int /\ ~dirty
  <2>1. s \in 0 .. NSlots - 1
    BY DEF Slots
  <2>2. s >= cursor /\ cursor' = s + 1 /\ ~dirty
    BY DEF Export
  <2>3. s + 1 \in 0 .. NSlots /\ s \in Int
    BY <2>1, SlotsAssumption
  <2> QED BY <2>2, <2>3
<1>1. Types'
  <2>1. sum' \in [Slots -> 0 .. taken]
    BY <1>0, ExportTypes DEF Export, Types
  <2> QED BY <1>0, <1>a, <2>1, ExportTypes DEF Types, Carts, Export, cartVars
<1>2. Numbers'
  BY ExportNumbers
<1>3. Listed'
  BY DEF FlushInv, Export, Listed, cartVars
<1>4. Saved'
  BY <1>0 DEF FlushInv, Export, Saved, cartVars
<1>5. Enough'
  <2>1. Left' <= Left - 1 /\ Left \in Int /\ guard \in Int /\ Left' \in Int
    BY <1>0, ExportLeft, SlotsAssumption DEF Types, Guard
  <2> QED BY <2>1, <1>0 DEF FlushInv, Enough, Export
<1> QED BY <1>1, <1>2, <1>3, <1>4, <1>5 DEF FlushInv

\* The working copy is shortened as the table is, or left as it is.
LEMMA PatchedCopy ==
    ASSUME FlushInv, tab' = SubSeq(tab, Freed + 1, Len(tab)), wtab' = Patched(wtab)
    PROVE  /\ wtab' \in Seq(Slots) /\ IsInjective(wtab') /\ Range(wtab') \subseteq Range(wtab)
           /\ wtab = tab => wtab' = tab'
<1>1. tab \in Seq(Slots) /\ wtab \in Seq(Slots) /\ IsInjective(wtab)
  BY DEF FlushInv, Types
<1>2. Freed \in 0 .. Len(tab)
  BY <1>1, FreedIsMost
<1> DEFINE f == Freed
<1>3. CASE wtab' = wtab /\ ~ (wtab = tab)
  BY <1>1, <1>3
<1>4. CASE Len(tab) <= Len(wtab) /\ wtab' = SubSeq(wtab, f + 1, Len(wtab))
  <2>1. f \in 0 .. Len(wtab)
    BY <1>1, <1>2, <1>4
  <2> HIDE DEF f
  <2>2. IsTail(wtab', wtab, f)
    BY ONLY <1>1, <1>4, <2>1, TailIsList
  <2>3. wtab = tab => wtab' = tab'
    BY <1>4 DEF f
  <2> QED BY <2>2, <2>3 DEF IsTail
<1>5. \/ wtab' = wtab /\ ~ (wtab = tab)
      \/ Len(tab) <= Len(wtab) /\ wtab' = SubSeq(wtab, f + 1, Len(wtab))
  <2>1. Len(tab) <= Len(tab)
    BY <1>1
  <2> QED BY <2>1 DEF Patched
<1> QED BY <1>3, <1>4, <1>5

\* Once the list is shortened nothing more can be freed.
LEMMA RecycledOnce ==
    ASSUME FlushInv, Recycle
    PROVE  /\ tab' \in Seq(Slots) /\ IsInjective(tab') /\ Range(tab') \subseteq Range(tab)
           /\ Range(tab) \subseteq Range(tab') \cup {tab[i] : i \in 1 .. Freed}
           /\ Freed' = 0
<1> DEFINE f == Freed
           L == Len(tab)
<1>1. tab \in Seq(Slots) /\ IsInjective(tab) /\ L \in Nat
  BY DEF FlushInv, Types
<1>2. /\ f \in 0 .. L
      /\ L <= Keep => f = 0
      /\ L > Keep => f <= L - Keep /\ (f = L - Keep \/ sum[tab[f + 1]] = 0)
  BY <1>1, FreedIsMost
<1>3. f > 0 /\ tab' = SubSeq(tab, f + 1, L)
  BY DEF Recycle
<1> HIDE DEF f, L
<1>4. /\ tab' \in Seq(Slots) /\ IsInjective(tab') /\ Len(tab') = L - f
      /\ \A i \in 1 .. Len(tab') : tab'[i] = tab[f + i]
      /\ Range(tab) = Range(tab') \cup {tab[i] : i \in 1 .. f}
  <2>1. f \in 0 .. Len(tab) /\ tab' = SubSeq(tab, f + 1, Len(tab))
    BY <1>2, <1>3 DEF L
  <2>2. IsTail(tab', tab, f)
    BY ONLY <1>1, <2>1, TailIsList
  <2> QED BY <2>2 DEF IsTail, L
<1>5. Len(tab') > Keep => sum'[tab'[1]] = 0
  <2> SUFFICES ASSUME Len(tab') > Keep PROVE sum'[tab'[1]] = 0
    OBVIOUS
  <2>1. f < L - Keep /\ 1 \in 1 .. Len(tab')
    BY <1>1, <1>2, <1>3, <1>4, SlotsAssumption
  <2>2. sum[tab[f + 1]] = 0 /\ tab'[1] = tab[f + 1]
    BY <1>1, <1>2, <1>4, <2>1, SlotsAssumption
  <2>3. tab'[1] \in Slots
    BY <1>4, <2>1
  <2> QED BY <2>2, <2>3 DEF Recycle
<1>6. /\ Len(tab') <= Keep => Freed' = 0
      /\ Len(tab') > Keep => Freed' \in 0 .. Len(tab') /\ \A i \in 1 .. Freed' : sum'[tab'[i]] # 0
  <2>1. (tab \in Seq(Slots) => /\ Freed \in 0 .. Len(tab)
                               /\ Len(tab) <= Keep => Freed = 0
                               /\ Len(tab) > Keep => \A i \in 1 .. Freed : sum[tab[i]] # 0)'
    BY FreedIsMost, PTL
  <2> QED BY <2>1, <1>4
<1>7. Freed' = 0
  <2>1. CASE Len(tab') > Keep
    <3>1. ~ (1 \in 1 .. Freed')
      BY <2>1, <1>5, <1>6
    <3> QED BY <3>1, <2>1, <1>6
  <2>2. CASE ~ (Len(tab') > Keep)
    BY <2>2, <1>4, <1>6, <1>1, <1>2, SlotsAssumption
  <2> QED BY <2>1, <2>2
<1> QED BY <1>4, <1>7 DEF f

LEMMA RecycleLeft ==
    ASSUME FlushInv, Recycle PROVE Left' = 2 /\ Left >= 3 /\ Left \in Int
<1>1. Left' = 2
  BY RecycledOnce, SlotsAssumption DEF Left, Recycle, Exported
<1>2. Left >= 3 /\ Left \in Int
  BY SlotsAssumption DEF FlushInv, Left, Types, Recycle, Exported
<1> QED BY <1>1, <1>2

LEMMA RecycleKeeps ==
    ASSUME FlushInv, Recycle PROVE FlushInv'
<1>0. Types /\ guard' \in 0 .. Guard /\ (phase = "closing" => guard' = guard - 1) /\ commit
  BY ServicedTypes DEF FlushInv, Recycle, Exported
<1>a. tab' \in Seq(Slots) /\ IsInjective(tab') /\ Range(tab') \subseteq Range(tab) /\ Freed' = 0
  BY RecycledOnce
<1>b. wtab' \in Seq(Slots) /\ IsInjective(wtab') /\ Range(wtab') \subseteq Range(wtab)
  BY PatchedCopy DEF Recycle
<1>1. Types'
  <2>1. sum' \in [Slots -> 0 .. taken]
    BY <1>0 DEF Recycle, Types
  <2>2. wtab' \in Seq(Slots) /\ IsInjective(wtab')
    BY <1>b
  <2>3. NSlots \in 0 .. NSlots
    BY SlotsAssumption
  <2> QED BY <1>0, <1>a, <2>1, <2>2, <2>3 DEF Types, Carts, Recycle, Exported, cardVars
<1>2. Numbers'
  BY DEF FlushInv, Recycle, Exported, Numbers, InDcim, cardVars
<1>3. Listed'
  <2>1. Range(tab') \subseteq Range(tab) /\ Range(wtab') \subseteq Range(wtab)
    BY <1>a, <1>b
  <2> QED BY <2>1 DEF FlushInv, Listed, Recycle, cardVars
<1>4. Saved'
  BY <1>0 DEF FlushInv, Recycle, Exported, Saved, cardVars
<1>5. Enough'
  <2>1. Left' = 2 /\ Left >= 3 /\ Left \in Int /\ guard \in Int
    BY <1>0, RecycleLeft, SlotsAssumption DEF Types, Guard
  <2> QED BY <2>1, <1>0 DEF FlushInv, Enough, Recycle
<1> QED BY <1>1, <1>2, <1>3, <1>4, <1>5 DEF FlushInv

LEMMA FinishKeeps ==
    ASSUME FlushInv, Finish PROVE FlushInv'
<1>0. Types /\ guard' \in 0 .. Guard /\ commit /\ ~dirty
  BY ServicedTypes DEF FlushInv, Finish, Exported
<1>1. Types'
  <2>1. NSlots \in 0 .. NSlots
    BY SlotsAssumption
  <2> QED BY <1>0, <2>1 DEF Types, Carts, Finish, Exported, cartVars, cardVars
<1>2. Numbers'
  BY DEF FlushInv, Finish, Exported, Numbers, InDcim, cartVars, cardVars
<1>3. Listed'
  BY DEF FlushInv, Finish, Listed, cartVars, cardVars
<1>4. Saved' /\ Enough'
  BY <1>0 DEF FlushInv, Finish, Exported, Serviced, Saved, Enough, cartVars, cardVars
<1> QED BY <1>1, <1>2, <1>3, <1>4 DEF FlushInv

LEMMA FlushStep == FlushInv /\ [Next]_vars => FlushInv'
<1> SUFFICES ASSUME FlushInv, [Next]_vars PROVE FlushInv'
  OBVIOUS
<1>1. CASE UNCHANGED vars
  <2> USE <1>1 DEF vars, cartVars, jobVars, cardVars, history, FlushInv
  <2>1. Types' /\ Numbers'
    BY DEF Types, Carts, Numbers, InDcim
  <2>2. Listed' /\ Saved'
    BY DEF Listed, Saved
  <2>3. Enough'
    BY DEF Enough, Left, Freed
  <2> QED BY <2>1, <2>2, <2>3
<1>2. CASE Next
  BY <1>2, OpenKeeps, CloseKeeps, ClosedKeeps, PowerCutKeeps, RomStoreKeeps, RomCountKeeps, RomListKeeps,
     RomDeleteKeeps, RomDisableKeeps, WriteSavKeeps, WriteSavFailsKeeps, ExportKeeps, RecycleKeeps,
     FinishKeeps DEF Next, Rom, Service
<1> QED BY <1>1, <1>2

LEMMA FlushAlways == Spec => []FlushInv
<1> QED BY FlushInit, FlushStep, PTL DEF Spec

\* The variables keep to their values, the table lists each slot once, and the next
\* number of DCIM is beyond all pictures in it if the session has read the directory.
THEOREM AlbumTypeCorrect == Spec => []TypeOK
<1>1. FlushInv => TypeOK
  BY DEF FlushInv, Types, Carts, Numbers, TypeOK
<1> QED BY <1>1, FlushAlways, PTL

\* gbc_save_flush: its bounded loop is long enough for whatever is left to do.
THEOREM FlushIsEnough == Spec => []ClosedIsSaved
<1>1. FlushInv => ClosedIsSaved
  BY DEF FlushInv, Saved, ClosedIsSaved
<1> QED BY <1>1, FlushAlways, PTL

\* gbc_save_service: every call of a commit ends it or leaves less to do, although a
\* recycling opens it once more, and nothing but a save of the ROM adds to it.  With a
\* scheduler that goes on calling, this is why every commit ends.
ServiceAdvances ==
    [][/\ Service => ~commit' \/ (0 < Left' /\ Left' < Left)
       /\ commit /\ commit' /\ ~Rom => Left' <= Left]_vars

THEOREM ServiceShrinks == Spec => ServiceAdvances
<1>1. FlushInv /\ FlushInv' /\ Service /\ commit' => 0 < Left' /\ Left' < Left
  <2> SUFFICES ASSUME FlushInv, FlushInv', Service, commit' PROVE 0 < Left' /\ Left' < Left
    OBVIOUS
  <2>1. 0 < Left'
    <3>1. (FlushInv => Left > 0)'
      BY LeftPositive, PTL
    <3> QED BY <3>1
  <2>2. CASE WriteSav
    BY <2>1, <2>2, WriteSavLeft DEF FlushInv
  <2>3. CASE \E s \in Slots : Export(s)
    BY <2>1, <2>3, ExportLeft DEF FlushInv
  <2>4. CASE Recycle
    BY <2>1, <2>4, RecycleLeft
  <2>5. CASE WriteSavFails \/ Finish
    BY <2>5 DEF WriteSavFails, Finish
  <2> QED BY <2>2, <2>3, <2>4, <2>5 DEF Service
<1>2. FlushInv /\ Next /\ ~Rom /\ ~Service /\ commit /\ commit' => Left' = Left
  <2> SUFFICES ASSUME FlushInv, Next, ~Rom, ~Service, commit, commit' PROVE Left' = Left
    OBVIOUS
  <2>1. Close
    <3>1. ~Open /\ ~PowerCut
      BY DEF FlushInv, Saved, Open, PowerCut
    <3>2. ~Closed
      BY LeftPositive, SlotsAssumption DEF FlushInv, Enough, Types, Closed, Left
    <3> QED BY <3>1, <3>2 DEF Next
  <2>2. Freed' = Freed
    BY <2>1 DEF Close, Freed, cartVars
  <2> QED BY <2>1, <2>2 DEF Close, Left
<1>3. FlushInv => Left \in Int
  BY SlotsAssumption DEF FlushInv, Types, Left
<1> DEFINE Advance == /\ Service => ~commit' \/ (0 < Left' /\ Left' < Left)
                      /\ commit /\ commit' /\ ~Rom => Left' <= Left
<1>4. FlushInv /\ FlushInv' /\ [Next]_vars => [Advance]_vars
  <2> SUFFICES ASSUME FlushInv, FlushInv', Next PROVE Advance
    OBVIOUS
  <2>1. (FlushInv => Left \in Int)'
    BY <1>3, PTL
  <2> QED BY <1>1, <1>2, <1>3, <2>1
<1> QED BY <1>4, FlushAlways, PTL DEF Spec, ServiceAdvances

\* gbc_dcim_write overwrites no picture of DCIM in a session that has read the
\* directory, whatever of the card fails after that.
THEOREM DcimGrows == Spec => NumbersKept
<1> DEFINE Kept == ~blind' => \A n \in DOMAIN dcim :
                                dcim[n] # 0 => n \in DOMAIN dcim' /\ dcim'[n] = dcim[n]
<1>1. FlushInv /\ [Next]_vars => [Kept]_vars
  <2> SUFFICES ASSUME FlushInv, Next PROVE Kept
    OBVIOUS
  <2>1. CASE \E s \in Slots : Export(s)
    BY <2>1, ExportNumbers
  <2>2. CASE ~ \E s \in Slots : Export(s)
    <3>1. dcim' = dcim
      BY <2>2 DEF Next, Rom, Service, Open, Close, Closed, PowerCut, RomStore, RomCount, RomList, RomDelete,
                  RomDisable, RomUnchanged, WriteSav, WriteSavFails, Recycle, Finish, cardVars
    <3> QED BY <3>1
  <2> QED BY <2>1, <2>2
<1> QED BY <1>1, FlushAlways, PTL DEF Spec, NumbersKept

-----------------------------------------------------------------------------
(* No picture is lost, when the ROM takes the next one after the commit *)

Patient == "quick" \notin Env

\* Nobody misses these in the album, and these are to be found there.
Good == InDcim \cup excused \cup deleted
Lost == 1 .. taken \ Good

\* The ROM's working copy is the table unless a picture is entered or taken out.
Copies ==
    /\ phase = "on" /\ rom # "counted" => wtab = tab
    /\ phase = "off" => rom = "idle"

Done(s) == tiles[s] \in Good \cup {0}
New(s)  == rom # "idle" /\ phase = "on" /\ dirty /\ ~commit /\ tiles[s] = taken

\* What has a checksum and what the commit has passed is exported, but for the picture
\* that is being stored.
Behind ==
    /\ \A s \in Slots : sum[s] \in Good \cup {0}
    /\ ~commit /\ ~dirty => \A s \in Slots : Done(s)
    /\ phase = "off" => \A s \in Slots : sav.tiles[s] \in Good \cup {0}
    /\ refused => 1 .. taken \subseteq Good
    /\ \A s \in Slots : s < cursor => Done(s) \/ New(s)

\* The others are in the album, and in the .SAV when the emulator is closed.
Kept ==
    /\ phase = "on" => Lost \subseteq Album(tiles, tab) \cup
                                      (IF rom \in {"stored", "counted"} THEN {taken} ELSE {})
    /\ phase = "on" /\ rom = "counted" => Lost \subseteq Album(tiles, wtab)
    /\ phase = "closing" => Lost \subseteq Album(tiles, tab)
    /\ phase = "off" => Lost \subseteq Album(sav.tiles, sav.tab)

KeepInv == FlushInv /\ Copies /\ Behind /\ Kept

LEMMA KeepInit == Init => KeepInv
<1> SUFFICES ASSUME Init PROVE KeepInv
  OBVIOUS
<1>1. Lost = {} /\ 1 .. taken = {}
  BY DEF Init, Lost
<1>2. \A s \in Slots : Blank[s] = 0
  BY DEF Blank
<1> QED BY <1>1, <1>2, FlushInit, SlotsAssumption DEF Init, KeepInv, Copies, Behind, Kept, Done, Slots

\* What is good stays good.
LEMMA GoodGrows ==
    ASSUME FlushInv, Next
    PROVE  Good \subseteq Good'
<1>1. deleted \subseteq deleted'
  BY DEF Next, Rom, Service, Open, Close, Closed, PowerCut, RomStore, RomCount, RomList, RomDelete, Export,
         RomDisable, RomUnchanged, WriteSav, WriteSavFails, Recycle, Finish, cartVars
<1>2. InDcim \cup excused \subseteq InDcim' \cup excused'
  <2>1. CASE \E s \in Slots : Export(s)
    BY <2>1, ExportExcuses
  <2>2. CASE ~ \E s \in Slots : Export(s)
    <3>1. InDcim' = InDcim
      BY <2>2 DEF Next, Rom, Service, Open, Close, Closed, PowerCut, RomStore, RomCount, RomList, RomDelete,
                  RomDisable, RomUnchanged, WriteSav, WriteSavFails, Recycle, Finish, cardVars, InDcim
    <3>2. excused \subseteq excused' \cup InDcim
      BY <2>2 DEF Next, Rom, Service, Open, Close, Closed, PowerCut, RomStore, RomCount, RomList, RomDelete,
                  RomDisable, RomUnchanged, WriteSav, WriteSavFails, Recycle, Finish, Exported, Excused, history
    <3> QED BY <3>1, <3>2
  <2> QED BY <2>1, <2>2
<1> QED BY <1>1, <1>2 DEF Good

LEMMA OpenLoses ==
    ASSUME KeepInv, Open PROVE KeepInv'
<1>1. FlushInv' /\ Good \subseteq Good' /\ taken' = taken
  BY OpenKeeps, GoodGrows DEF KeepInv, Next, Open
<1>2. Copies'
  BY DEF Open, Copies
<1>3. Behind'
  BY <1>1, SlotsAssumption DEF KeepInv, Open, Behind, Done, LoadedSum, Slots
<1>4. Kept'
  BY <1>1 DEF KeepInv, Open, Kept, Lost
<1> QED BY <1>1, <1>2, <1>3, <1>4 DEF KeepInv

LEMMA CloseLoses ==
    ASSUME KeepInv, Close PROVE KeepInv'
<1>1. FlushInv' /\ Good \subseteq Good' /\ taken' = taken
  BY CloseKeeps, GoodGrows DEF KeepInv, Next, Close, cartVars
<1>2. rom # "idle" => taken \in Good'
  BY <1>1 DEF Close, Excused, Good, InDcim, cardVars
<1>3. Copies'
  BY DEF KeepInv, Close, Copies
<1>4. Behind'
  BY <1>1, <1>2 DEF KeepInv, Close, Behind, Done, New, cartVars, cardVars
<1>5. Kept'
  BY <1>1, <1>2 DEF KeepInv, Close, Kept, Lost, cartVars, cardVars
<1> QED BY <1>1, <1>3, <1>4, <1>5 DEF KeepInv

LEMMA ClosedLoses ==
    ASSUME KeepInv, Closed PROVE KeepInv'
<1>1. FlushInv' /\ Good \subseteq Good' /\ taken' = taken
  BY ClosedKeeps, GoodGrows DEF KeepInv, Next, Closed
<1>2. ~commit'
  BY <1>1 DEF FlushInv, Saved, Closed
<1>3. Copies'
  BY DEF Closed, Copies
<1>4. \/ ~dirty /\ sav.tiles = tiles /\ sav.tab = tab /\ \A s \in Slots : Done(s)
      \/ 1 .. taken \subseteq Good
  BY <1>2 DEF KeepInv, FlushInv, Saved, Behind, Closed
<1>5. \A s \in Slots : sav.tiles[s] \in 0 .. taken /\ tiles[s] \in 0 .. taken
  BY DEF KeepInv, FlushInv, Types, Carts
<1>6. taken \in Nat
  BY DEF KeepInv, FlushInv, Types
<1>7. Behind'
  <2>1. \A s \in Slots : sav.tiles[s] \in Good \cup {0}
    BY <1>4, <1>5, <1>6 DEF Done
  <2>2. \A s \in Slots : ~dirty => Done(s)
    BY <1>2 DEF KeepInv, Behind, Closed
  <2>3. \A s \in Slots : sum'[s] = 0 /\ ~ (s < 0)
    BY SlotsAssumption DEF Closed, Blank, Slots
  <2> QED BY <1>1, <2>1, <2>2, <2>3 DEF KeepInv, Closed, Behind, Done, cardVars, history
<1>8. Kept'
  BY <1>1, <1>4 DEF KeepInv, Closed, Kept, Lost, cardVars
<1> QED BY <1>1, <1>3, <1>7, <1>8 DEF KeepInv

LEMMA PowerCutLoses ==
    ASSUME KeepInv, PowerCut PROVE KeepInv'
<1>1. FlushInv' /\ Good \subseteq Good' /\ taken' = taken
  BY PowerCutKeeps, GoodGrows DEF KeepInv, Next, PowerCut
<1>2. 1 .. taken \subseteq Good'
  BY DEF PowerCut, Excused, Good, InDcim
<1>3. Copies'
  BY DEF PowerCut, Copies
<1>4. \A s \in Slots : sav.tiles[s] \in Good' \cup {0}
  <2>1. \A s \in Slots : sav.tiles[s] \in 0 .. taken /\ taken \in Nat
    BY DEF KeepInv, FlushInv, Types, Carts
  <2> QED BY <2>1, <1>2
<1>5. Behind'
  <2>1. \A s \in Slots : sum'[s] = 0 /\ ~ (s < 0)
    BY SlotsAssumption DEF PowerCut, Blank, Slots
  <2> QED BY <1>1, <1>2, <1>4, <2>1 DEF PowerCut, Behind, Done
<1>6. Kept'
  BY <1>1, <1>2 DEF PowerCut, Kept, Lost
<1> QED BY <1>1, <1>3, <1>5, <1>6 DEF KeepInv

LEMMA RomStoreLoses ==
    ASSUME KeepInv, Patient, RomStore PROVE KeepInv'
<1>1. FlushInv' /\ Good \subseteq Good' /\ taken' = taken + 1 /\ taken \in Nat
  <2>1. FlushInv' /\ Good \subseteq Good'
    BY RomStoreKeeps, GoodGrows DEF KeepInv, Next, Rom
  <2> QED BY <2>1 DEF KeepInv, FlushInv, Types, RomStore
<1>2. rom = "idle" /\ phase = "on" /\ ~commit /\ phase' = "on" /\ rom' = "stored" /\ dirty' /\ ~commit'
  BY DEF RomStore, RomFree, RomUnchanged, Patient
<1>3. PICK s \in Slots \ Range(wtab) : tiles' = [tiles EXCEPT ![s] = taken + 1]
  BY DEF RomStore
<1>4. \A t \in Slots : tiles'[t] = IF t = s THEN taken' ELSE tiles[t]
  BY <1>1, <1>3 DEF KeepInv, FlushInv, Types
<1>5. wtab = tab /\ tab' = tab /\ wtab' = tab
  BY <1>2 DEF KeepInv, Copies, RomStore
<1>6. Copies'
  BY <1>2, <1>5 DEF Copies
<1>7. Behind'
  <2>1. \A t \in Slots : t < cursor => Done(t)
    BY <1>2 DEF KeepInv, Behind, New
  <2>2. ~refused'
    BY <1>2 DEF KeepInv, FlushInv, Saved, RomStore, RomUnchanged, history
  <2> QED BY <1>1, <1>2, <1>4, <2>1, <2>2 DEF KeepInv, RomStore, RomUnchanged, Behind, Done, New
<1>8. Kept'
  <2>1. Album(tiles', tab') = Album(tiles, tab)
    <3>1. Range(tab) \subseteq Slots /\ s \notin Range(tab)
      BY <1>3, <1>5 DEF KeepInv, FlushInv, Types, Range
    <3>2. \A t \in Range(tab) : tiles'[t] = tiles[t]
      BY <1>4, <3>1
    <3> QED BY <3>2, <1>5 DEF Album
  <2>2. Lost' \subseteq Lost \cup {taken'}
    BY <1>1 DEF Lost
  <2> QED BY <1>2, <2>1, <2>2 DEF KeepInv, Kept
<1> QED BY <1>1, <1>6, <1>7, <1>8 DEF KeepInv

LEMMA RomCountLoses ==
    ASSUME KeepInv, RomCount PROVE KeepInv'
<1>1. FlushInv' /\ Good \subseteq Good' /\ taken' = taken
  BY RomCountKeeps, GoodGrows DEF KeepInv, Next, Rom, RomCount
<1>2. PICK s \in Slots : tiles[s] = taken /\ wtab' = Append(wtab, s)
  BY DEF RomCount
<1>3. Copies'
  BY DEF RomCount, RomUnchanged, Copies
<1>4. Behind'
  BY <1>1 DEF KeepInv, RomCount, RomUnchanged, Behind, Done, New, cardVars, history
<1>5. Kept'
  <2>1. s \notin Range(wtab) /\ wtab = tab
    BY <1>2 DEF RomCount, KeepInv, FlushInv, Listed, Copies
  <2>2. Range(wtab') = Range(wtab) \cup {s}
    BY <1>2, <2>1, AppendedIsList DEF KeepInv, FlushInv, Types
  <2>3. Album(tiles, wtab') = Album(tiles, tab) \cup {taken}
    BY <1>2, <2>1, <2>2 DEF Album
  <2> QED BY <1>1, <2>3 DEF KeepInv, RomCount, RomUnchanged, Kept, Lost
<1> QED BY <1>1, <1>3, <1>4, <1>5 DEF KeepInv

LEMMA RomListLoses ==
    ASSUME KeepInv, RomList PROVE KeepInv'
<1>1. FlushInv' /\ Good \subseteq Good' /\ taken' = taken
  BY RomListKeeps, GoodGrows DEF KeepInv, Next, Rom, RomList
<1>2. Copies'
  BY DEF RomList, RomUnchanged, Copies
<1>3. Behind'
  BY <1>1 DEF KeepInv, RomList, RomUnchanged, Behind, Done, New, cardVars, history
<1>4. Kept'
  BY <1>1 DEF KeepInv, RomList, RomUnchanged, Kept, Lost
<1> QED BY <1>1, <1>2, <1>3, <1>4 DEF KeepInv

LEMMA RomDeleteLoses ==
    ASSUME KeepInv, RomDelete PROVE KeepInv'
<1>1. FlushInv' /\ Good \subseteq Good' /\ taken' = taken
  BY RomDeleteKeeps, GoodGrows DEF KeepInv, Next, Rom, RomDelete
<1>2. PICK k \in DOMAIN wtab : /\ wtab' = SubSeq(wtab, 1, k - 1) \o SubSeq(wtab, k + 1, Len(wtab))
                               /\ deleted' = deleted \cup {tiles[wtab[k]]}
  BY DEF RomDelete
<1>3. rom = "idle" /\ phase = "on" /\ wtab = tab
  BY DEF RomDelete, RomFree, KeepInv, Copies
<1>4. Copies'
  BY DEF RomDelete, RomUnchanged, RomFree, Copies
<1>5. Behind'
  BY <1>1, <1>3 DEF KeepInv, RomDelete, RomUnchanged, Behind, Done, New, cardVars, history
<1>6. Kept'
  <2>1. Range(wtab) \subseteq Range(wtab') \cup {wtab[k]}
    BY <1>2, RemovedIsList DEF KeepInv, FlushInv, Types
  <2>2. Album(tiles, wtab) \subseteq Album(tiles, wtab') \cup {tiles[wtab[k]]}
    BY <2>1 DEF Album
  <2>3. tiles[wtab[k]] \in Good'
    BY <1>2 DEF Good
  <2>4. Lost' \subseteq Lost /\ tiles[wtab[k]] \notin Lost'
    BY <1>1, <2>3 DEF Lost
  <2> QED BY <1>3, <2>2, <2>4 DEF KeepInv, RomDelete, RomUnchanged, Kept
<1> QED BY <1>1, <1>4, <1>5, <1>6 DEF KeepInv

LEMMA RomDisableLoses ==
    ASSUME KeepInv, RomDisable PROVE KeepInv'
<1>1. FlushInv' /\ Good \subseteq Good' /\ taken' = taken
  BY RomDisableKeeps, GoodGrows DEF KeepInv, Next, Rom, RomDisable
<1>2. Copies'
  BY DEF KeepInv, RomDisable, Copies
<1>3. Behind'
  <2>1. \A s \in Slots : s < cursor' => Done(s)
    <3>1. CASE dirty
      <4>1. cursor' = 0
        BY <3>1 DEF RomDisable, Request
      <4> QED BY <4>1, SlotsAssumption DEF Slots
    <3>2. CASE ~dirty
      BY <3>2 DEF KeepInv, RomDisable, Behind, New
    <3> QED BY <3>1, <3>2
  <2> QED BY <1>1, <2>1 DEF KeepInv, RomDisable, Request, Behind, Done, cardVars, history
<1>4. Kept'
  BY <1>1 DEF KeepInv, RomDisable, Kept, Lost
<1> QED BY <1>1, <1>2, <1>3, <1>4 DEF KeepInv

LEMMA WriteSavLoses ==
    ASSUME KeepInv, WriteSav PROVE KeepInv'
<1>1. FlushInv' /\ Good \subseteq Good' /\ taken' = taken /\ commit
  BY WriteSavKeeps, GoodGrows DEF KeepInv, Next, Service, WriteSav, Serviced, cartVars
<1>2. phase # "off"
  BY DEF WriteSav, Serviced
<1>3. Copies'
  BY DEF KeepInv, WriteSav, Copies, cartVars
<1>4. Behind'
  BY <1>1, <1>2 DEF KeepInv, WriteSav, Behind, Done, New, cartVars, history
<1>5. Kept'
  BY <1>1, <1>2 DEF KeepInv, WriteSav, Kept, Lost, cartVars
<1> QED BY <1>1, <1>3, <1>4, <1>5 DEF KeepInv

LEMMA WriteSavFailsLoses ==
    ASSUME KeepInv, WriteSavFails PROVE KeepInv'
<1>1. FlushInv' /\ Good \subseteq Good' /\ taken' = taken /\ commit /\ dirty /\ dirty'
  BY WriteSavFailsKeeps, GoodGrows DEF KeepInv, Next, Service, WriteSavFails, Serviced, cartVars
<1>2. phase # "off" /\ phase' = phase
  BY DEF WriteSavFails, Serviced
<1>3. phase = "closing" => 1 .. taken \subseteq Good'
  BY DEF WriteSavFails, Excused, Good, InDcim
<1>4. Copies'
  BY DEF KeepInv, WriteSavFails, Copies, cartVars
<1>5. Behind'
  BY <1>1, <1>2, <1>3 DEF KeepInv, WriteSavFails, Behind, Done, New, cartVars
<1>6. Kept'
  BY <1>1, <1>2, <1>3 DEF KeepInv, WriteSavFails, Kept, Lost, cartVars
<1> QED BY <1>1, <1>4, <1>5, <1>6 DEF KeepInv

\* The pictures passed over are excused or have their checksum.
LEMMA PassedAreDone ==
    ASSUME KeepInv, Next, commit, NEW m, tiles' = tiles,
           \A t \in PendingTo(m) : tiles[t] \in Good',
           NEW t \in Slots, t < m, t \in 0 .. m - 1
    PROVE  tiles[t] \in Good' \cup {0}
<1>1. Good \subseteq Good'
  BY GoodGrows DEF KeepInv
<1>2. CASE t < cursor
  BY <1>1, <1>2 DEF KeepInv, Behind, Done, New
<1>3. CASE ~ (t < cursor)
  <2>1. t \in cursor .. m - 1
    BY <1>3, SlotsAssumption DEF Slots, KeepInv, FlushInv, Types
  <2>2. CASE Pending(t)
    BY <2>1, <2>2 DEF PendingTo
  <2>3. CASE ~Pending(t)
    BY <2>3, <1>1 DEF Pending, KeepInv, Behind
  <2> QED BY <2>2, <2>3
<1> QED BY <1>2, <1>3

LEMMA ExportLoses ==
    ASSUME KeepInv, NEW s \in Slots, Export(s) PROVE KeepInv'
<1>1. FlushInv' /\ Good \subseteq Good' /\ taken' = taken /\ commit /\ Next
  BY ExportKeeps, GoodGrows DEF KeepInv, Next, Service, Export, Serviced, cartVars
<1>2. phase' = phase /\ phase # "off" /\ tiles' = tiles /\ commit'
  BY <1>1 DEF KeepInv, Export, Serviced, cartVars
<1>3. \A t \in PendingTo(s) \cup {s} : tiles[t] \in Good'
  BY ExportExcuses DEF KeepInv, Good
<1>4. Copies'
  BY DEF KeepInv, Export, Copies, cartVars
<1>5. Behind'
  <2>1. \A t \in PendingTo(s) : tiles[t] \in Good'
    BY <1>3
  <2>2. \A t \in Slots : t < s => tiles[t] \in Good' \cup {0}
    <3>1. \A t \in Slots : t < s => t \in 0 .. s - 1
      BY SlotsAssumption DEF Slots
    <3> QED BY <1>1, <1>2, <2>1, <3>1, PassedAreDone
  <2>3. \A t \in Slots : t < cursor' => t < s \/ t = s
    BY SlotsAssumption DEF Slots, Export
  <2>4. \A t \in Slots : sum'[t] \in Good' \cup {0}
    <3>1. \A t \in Slots : sum'[t] = IF t = s THEN tiles[s] ELSE sum[t]
      BY DEF Export, KeepInv, FlushInv, Types
    <3> QED BY <3>1, <1>1, <1>3 DEF KeepInv, Behind
  <2>5. refused' = refused
    BY DEF Export
  <2> QED BY <1>1, <1>2, <1>3, <2>2, <2>3, <2>4, <2>5 DEF KeepInv, Behind, Done
<1>6. Kept'
  BY <1>1, <1>2 DEF KeepInv, Export, Kept, Lost, cartVars
<1> QED BY <1>1, <1>4, <1>5, <1>6 DEF KeepInv

\* At the end of a commit nothing is behind.
LEMMA ExportedAll ==
    ASSUME KeepInv, Next, Exported, tiles' = tiles
    PROVE  \A s \in Slots : tiles[s] \in Good' \cup {0}
<1>1. \A t \in Slots : t < NSlots /\ t \in 0 .. NSlots - 1
  BY SlotsAssumption DEF Slots
<1>2. commit /\ excused' = Excused({tiles[t] : t \in PendingTo(NSlots)})
  BY DEF Exported, Serviced
<1>3. InDcim \subseteq Good'
  BY GoodGrows DEF KeepInv, Good
<1>4. \A t \in PendingTo(NSlots) : tiles[t] \in Good'
  BY <1>2, <1>3 DEF Excused, Good
<1> QED BY <1>1, <1>2, <1>4, PassedAreDone

LEMMA RecycleLoses ==
    ASSUME KeepInv, Recycle PROVE KeepInv'
<1>1. FlushInv' /\ Good \subseteq Good' /\ taken' = taken /\ Next /\ tiles' = tiles
  BY RecycleKeeps, GoodGrows DEF KeepInv, Next, Service, Recycle
<1>2. phase' = phase /\ phase # "off" /\ commit' /\ refused' = refused /\ rom' = rom
  BY DEF Recycle, Exported, Serviced
<1>3. \A s \in Slots : tiles[s] \in Good' \cup {0}
  BY <1>1, ExportedAll DEF Recycle
<1>4. /\ wtab' = Patched(wtab) /\ tab' = SubSeq(tab, Freed + 1, Len(tab))
      /\ wtab = tab => wtab' = tab'
  BY PatchedCopy DEF Recycle, KeepInv
<1>5. Copies'
  BY <1>2, <1>4 DEF KeepInv, Copies, Recycle
<1>6. Behind'
  <2>1. \A s \in Slots : sum'[s] \in {0, sum[s]}
    BY DEF Recycle
  <2> QED BY <1>1, <1>2, <1>3, <2>1 DEF KeepInv, Behind, Done
<1>7. Kept'
  <2>1. \A p \in Lost' : p \in Lost /\ p \notin Good' \cup {0}
    BY <1>1 DEF Lost, KeepInv, FlushInv, Types
  <2>2. \A p \in Album(tiles, tab) : p \in Album(tiles, tab') \/ p \in Good' \cup {0}
    <3>1. Range(tab) \subseteq Range(tab') \cup {tab[i] : i \in 1 .. Freed} /\ Range(tab) \subseteq Slots
      <4>1. Range(tab) \subseteq Range(tab') \cup {tab[i] : i \in 1 .. Freed}
        BY RecycledOnce DEF KeepInv
      <4>2. Range(tab) \subseteq Slots
        BY DEF KeepInv, FlushInv, Types, Range
      <4> QED BY <4>1, <4>2
    <3> QED BY <3>1, <1>3 DEF Album
  <2>3. \A p \in Album(tiles, wtab) : p \in Album(tiles, wtab') \/ p \in Good' \cup {0}
    <3>1. Range(wtab) \subseteq Slots
      BY DEF KeepInv, FlushInv, Types, Range
    <3> QED BY <3>1, <1>3 DEF Album
  <2> QED BY <1>1, <1>2, <2>1, <2>2, <2>3 DEF KeepInv, Kept
<1> QED BY <1>1, <1>5, <1>6, <1>7 DEF KeepInv

LEMMA FinishLoses ==
    ASSUME KeepInv, Finish PROVE KeepInv'
<1>1. FlushInv' /\ Good \subseteq Good' /\ taken' = taken /\ Next /\ tiles' = tiles
  BY FinishKeeps, GoodGrows DEF KeepInv, Next, Service, Finish, cartVars
<1>2. phase' = phase /\ phase # "off" /\ ~commit' /\ refused' = refused /\ dirty' = dirty
  BY DEF Finish, Exported, Serviced
<1>3. \A s \in Slots : tiles[s] \in Good' \cup {0}
  BY <1>1, ExportedAll DEF Finish
<1>4. Copies'
  BY DEF KeepInv, Finish, Copies, cartVars
<1>5. Behind'
  BY <1>1, <1>2, <1>3 DEF KeepInv, Finish, Behind, Done
<1>6. Kept'
  BY <1>1, <1>2 DEF KeepInv, Finish, Kept, Lost, cartVars
<1> QED BY <1>1, <1>4, <1>5, <1>6 DEF KeepInv

LEMMA KeepStep == Patient /\ KeepInv /\ [Next]_vars => KeepInv'
<1> SUFFICES ASSUME Patient, KeepInv, [Next]_vars PROVE KeepInv'
  OBVIOUS
<1>1. CASE UNCHANGED vars
  <2>1. FlushInv'
    BY FlushStep DEF KeepInv
  <2> QED BY <1>1, <2>1 DEF vars, cartVars, jobVars, cardVars, history, KeepInv, Copies, Behind, Kept, Lost,
                           Good, Done, New, InDcim, Album
<1>2. CASE Next
  BY <1>2, OpenLoses, CloseLoses, ClosedLoses, PowerCutLoses, RomStoreLoses, RomCountLoses, RomListLoses,
     RomDeleteLoses, RomDisableLoses, WriteSavLoses, WriteSavFailsLoses, ExportLoses, RecycleLoses,
     FinishLoses DEF Next, Rom, Service
<1> QED BY <1>1, <1>2

\* gbc_album_recycle and the ROM together lose no picture: it is in the album or in
\* DCIM, unless the player deleted it, the card failed on it, the power was cut, DCIM
\* was at its last number, or a session that could not read the directory wrote over it.
THEOREM AlbumLosesNothing == Patient => (Spec => []NothingLost)
<1> SUFFICES ASSUME Patient PROVE Spec => []NothingLost
  OBVIOUS
<1>1. Init => KeepInv
  BY KeepInit
<1>2. KeepInv /\ [Next]_vars => KeepInv'
  BY KeepStep
<1>3. KeepInv => NothingLost
  BY DEF KeepInv, FlushInv, Types, Kept, Lost, Good, NothingLost, Found
<1> QED BY <1>1, <1>2, <1>3, PTL DEF Spec
=============================================================================
