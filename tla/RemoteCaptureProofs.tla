------------------------ MODULE RemoteCaptureProofs ------------------------
(* Proofs about remote capture, for every number of shots and chunks, when the *)
(* file is among what is asked for and no target is set while a shot or a       *)
(* request is on its way; the last section needs neither.                      *)
EXTENDS RemoteCapture, SequenceTheorems, TLAPS

WithJpg == \A ts \in Targets : "jpg" \in ts
Settled == WithJpg /\ "rearm" \notin Env

\* The shots in a queue, and those that are not its first.
Members(qu) == {qu[i] : i \in 1 .. Len(qu)}
Behind(qu)  == {qu[i] : i \in 2 .. Len(qu)}

NoFile  == fwt.pc = "idle" /\ Members(queue) = {}
OneFile == IF fwt.pc = "idle" THEN Behind(queue) = {} ELSE Members(queue) = {}

\* The file that is next to be closed, and those behind it.
First(s) == IF fwt.pc = "idle" THEN Members(queue) # {} /\ queue[1] = s ELSE fwt.shot = s
Later(s) == s \in IF fwt.pc = "idle" THEN Behind(queue) ELSE Members(queue)

InRaw == spy.pc \in {"dng", "raw"}

CapTypes ==
    /\ target \in SUBSET Types /\ avail \in Types \cup {None} /\ pending \in SUBSET Types
    /\ fileNum \in 0 .. shots /\ expect \in 0 .. 1 /\ chunk \in 0 .. NChunks /\ chunks \in 0 .. shots
    /\ ignore \in BOOLEAN /\ ignored \in BOOLEAN

TaskTypes ==
    /\ shots \in 0 .. MaxShots
    /\ spy \in [pc : {"idle", "hook", "process", "block", "dng", "raw"}, shot : Nat]
    /\ fwt \in [pc : {"idle", "hook", "open", "close"}, shot : 0 .. shots]
    /\ fwt.pc # "idle" => fwt.shot > 0
    /\ queue \in Seq(Nat) /\ Members(queue) \subseteq 1 .. shots
    /\ hook \in [set : BOOLEAN, active : BOOLEAN]

HostTypes ==
    /\ ptp \in [pc : {"idle", "send"}, type : Types \cup {None}, src : Nat, last : BOOLEAN]
    /\ ptp.pc = "send" => ptp.type # None
    /\ part \in Seq(Nat \X Int) /\ torn = {}
    /\ want \in [Shots -> SUBSET Types]
    /\ open \in 0 .. shots /\ card \subseteq 1 .. shots

\* Targets have the file in them, and nothing but a target makes a shot wanted.
Wanted ==
    /\ target # {} => "jpg" \in target
    /\ \A s \in Shots : /\ want[s] # {} => "jpg" \in want[s]
                        /\ s > shots => want[s] = {}
    /\ spy.pc \in {"hook", "process", "block"} => want[shots] = {}

\* spytask is at the newest shot, which is in nobody else's hands.
Newest ==
    spy.pc # "idle" =>
        /\ spy.shot = shots /\ shots > 0 /\ shots \notin card
        /\ fwt.pc # "idle" => fwt.shot # shots
        /\ shots \notin Members(queue)

\* ignore_current_write is set for one file, and cleared when that is closed.
Ignoring ==
    /\ ignore <=> expect = 1
    /\ ignore => ~NoFile \/ InRaw
    /\ IF fwt.pc = "close" THEN ignore = ignored ELSE ~ignored /\ open = 0
    /\ ignore => open = 0
    /\ spy.pc = "block" => OneFile /\ (NoFile \/ ignore)
    /\ InRaw => NoFile /\ ignore /\ "jpg" \in want[shots] /\ fileNum = shots

\* If any file that is on its way is wanted, it is the one that goes first.
Foremost ==
    \A s \in Shots : /\ Later(s) => "jpg" \notin want[s]
                     /\ First(s) /\ "jpg" \in want[s] => ignore

\* With a target set, at most one file is on its way, and all data is of one shot.
Targeted ==
    target # {} =>
        /\ OneFile
        /\ ~NoFile => "jpg" \in pending /\ ignore /\ First(fileNum)
        /\ InRaw => "jpg" \in pending /\ target = want[shots] /\ chunk = 0
        /\ fwt.pc = "idle" /\ Members(queue) # {} => chunk = 0

\* What is available is there, and held by the task that made it available.
Available ==
    /\ avail # None => avail \in target
    /\ avail = "jpg" => fwt.pc = "hook" /\ chunks = fwt.shot
    /\ avail \in {"dng", "raw"} => spy.pc = avail

\* The host's part of a file is its first chunks, and a request on its way is for
\* what is available.
Requested ==
    target # {} =>
        /\ ptp.pc = "send" => avail = ptp.type /\ avail # None /\ ptp.src = Source(avail)
        /\ ptp.pc = "idle" /\ part # <<>> => avail = "jpg"
        /\ avail = "jpg" => /\ part = [i \in 1 .. chunk |-> <<chunks, i - 1>>]
                            /\ IF ptp.pc = "send" THEN ptp.last <=> chunk = NChunks
                                                  ELSE chunk < NChunks
        /\ ptp.pc = "send" /\ avail \in {"dng", "raw"} =>
               ptp.last /\ part = <<<<shots, NChunks - 1>>>>

Got(s, types) == \A t \in types : <<s, t>> \in got

\* A shot that is taken and not yet on the card or given to the host.
InProgress(s) == \/ spy.pc # "idle" /\ s = spy.shot
                 \/ fwt.pc # "idle" /\ s = fwt.shot
                 \/ s \in Members(queue)

\* Without a target, what was wanted of a shot in progress is given up.
GivenUp ==
    \A s \in Shots \ excused :
        InProgress(s) => /\ target = {} => want[s] = {} /\ spy.pc # "block"
                         /\ First(s) /\ ignore => "jpg" \in want[s]

\* What is wanted of a shot and behind it is with the host: in the queue, in the
\* file writer and in the raw hook.
QueueGot ==
    \A s \in Members(queue) \ excused : Got(s, want[s] \ {"jpg"})

WriterGot ==
    fwt.pc # "idle" /\ fwt.shot \notin excused =>
        /\ Got(fwt.shot, want[fwt.shot] \ {"jpg"})
        /\ (fwt.pc = "hook" /\ avail = "jpg") \/ Got(fwt.shot, want[fwt.shot])

HookGot ==
    InRaw /\ shots \notin excused =>
        /\ avail = spy.pc \/ <<shots, spy.pc>> \in got
        /\ spy.pc = "raw" => Got(shots, want[shots] \cap {"dng"})
        /\ spy.pc = "dng" => "dng" \in want[shots]

\* NothingLost, without the set of shots in progress.
Stored ==
    \A s \in 1 .. shots :
        \/ InProgress(s) \/ s \in excused \/ s \in card
        \/ want[s] # {} /\ Got(s, want[s])

CapInv ==
    /\ CapTypes /\ TaskTypes /\ HostTypes /\ Wanted /\ Newest /\ Ignoring /\ Foremost /\ Targeted
    /\ Available /\ Requested /\ GivenUp /\ QueueGot /\ WriterGot /\ HookGot
    /\ Stored /\ NotOnCard

-----------------------------------------------------------------------------
(* The queue of the file writer *)

LEMMA QueueParts ==
    ASSUME NEW qu \in Seq(Nat)
    PROVE  /\ Members(qu) = {} <=> qu = <<>>
           /\ Members(qu) = {} => Behind(qu) = {}
           /\ Members(qu) # {} => Members(qu) = {qu[1]} \cup Behind(qu)
<1>1. Len(qu) \in Nat /\ (Len(qu) = 0 <=> qu = <<>>)
  OBVIOUS
<1>2. CASE Len(qu) = 0
  <2>1. Members(qu) = {} /\ Behind(qu) = {}
    BY <1>2 DEF Members, Behind
  <2> QED BY <1>1, <1>2, <2>1
<1>3. CASE Len(qu) # 0
  <2>1. 1 .. Len(qu) = {1} \cup 2 .. Len(qu)
    BY <1>1, <1>3
  <2>2. Members(qu) = {qu[1]} \cup Behind(qu)
    BY <2>1 DEF Members, Behind
  <2> QED BY <1>1, <1>3, <2>2
<1> QED BY <1>2, <1>3

LEMMA QueueAppend ==
    ASSUME NEW qu \in Seq(Nat), NEW x \in Nat
    PROVE  /\ Append(qu, x) \in Seq(Nat)
           /\ Members(Append(qu, x)) = Members(qu) \cup {x}
           /\ Append(qu, x)[1] = IF Members(qu) = {} THEN x ELSE qu[1]
           /\ Behind(Append(qu, x)) = IF Members(qu) = {} THEN {} ELSE Behind(qu) \cup {x}
<1>1. /\ Append(qu, x) \in Seq(Nat) /\ Len(Append(qu, x)) = Len(qu) + 1 /\ Len(qu) \in Nat
      /\ \A i \in 1 .. Len(qu) : Append(qu, x)[i] = qu[i]
      /\ Append(qu, x)[Len(qu) + 1] = x
  BY AppendProperties
<1>2. Members(qu) = {} <=> Len(qu) = 0
  <2>1. Members(qu) = {} <=> qu = <<>>
    BY QueueParts
  <2> QED BY <2>1
<1>3. Members(Append(qu, x)) = Members(qu) \cup {x}
  BY <1>1 DEF Members
<1>4. CASE Members(qu) = {}
  BY <1>1, <1>2, <1>3, <1>4 DEF Behind
<1>5. CASE Members(qu) # {}
  <2>1. Append(qu, x)[1] = qu[1]
    BY <1>1, <1>2, <1>5
  <2>2. Behind(Append(qu, x)) = Behind(qu) \cup {x}
    BY <1>1, <1>2, <1>5 DEF Behind
  <2> QED BY <1>1, <1>3, <1>5, <2>1, <2>2
<1> QED BY <1>4, <1>5

LEMMA QueueTail ==
    ASSUME NEW qu \in Seq(Nat), qu # <<>>
    PROVE  /\ Head(qu) = qu[1] /\ Tail(qu) \in Seq(Nat)
           /\ Members(Tail(qu)) = Behind(qu)
           /\ Behind(Tail(qu)) \subseteq Behind(qu)
<1>1. /\ Tail(qu) \in Seq(Nat) /\ Len(Tail(qu)) = Len(qu) - 1 /\ Len(qu) \in Nat \ {0}
      /\ \A i \in 1 .. Len(qu) - 1 : Tail(qu)[i] = qu[i + 1]
  BY HeadTailProperties
<1>2. \A s : s \in Members(Tail(qu)) => s \in Behind(qu)
  BY <1>1 DEF Members, Behind
<1>3. ASSUME NEW s \in Behind(qu) PROVE s \in Members(Tail(qu))
  <2>1. PICK i \in 2 .. Len(qu) : s = qu[i]
    BY DEF Behind
  <2>2. i - 1 \in 1 .. Len(qu) - 1 /\ Tail(qu)[i - 1] = s
    BY <1>1, <2>1
  <2> QED BY <1>1, <2>2 DEF Members
<1>4. Behind(Tail(qu)) \subseteq Members(Tail(qu))
  BY <1>1 DEF Members, Behind
<1> QED BY <1>1, <1>2, <1>3, <1>4

LEMMA InFlightIs == TaskTypes => \A s : s \in InFlight <=> InProgress(s)
<1> SUFFICES ASSUME TaskTypes PROVE \A s : s \in InFlight <=> InProgress(s)
  OBVIOUS
<1>1. {queue[i] : i \in DOMAIN queue} = Members(queue)
  BY DEF TaskTypes, Members
<1>2. \A s : s \in (IF spy.pc = "idle" THEN {} ELSE {spy.shot}) <=> spy.pc # "idle" /\ s = spy.shot
  OBVIOUS
<1>3. \A s : s \in (IF fwt.pc = "idle" THEN {} ELSE {fwt.shot}) <=> fwt.pc # "idle" /\ s = fwt.shot
  OBVIOUS
<1> QED BY ONLY <1>1, <1>2, <1>3, Zenon DEF InFlight, InProgress

\* What is in progress at a timeout or a cancel is excused.
LEMMA Excusing == TaskTypes /\ Failed => \A s : s \in excused' <=> s \in excused \/ InProgress(s)
BY InFlightIs DEF Failed

\* The end of the raw hook puts the shot at the end of the queue.
Queued ==
    /\ spy' = [spy EXCEPT !.pc = "idle"]
    /\ queue' \in Seq(Nat) /\ Members(queue') = Members(queue) \cup {spy.shot}
    /\ queue'[1] = IF Members(queue) = {} THEN spy.shot ELSE queue[1]
    /\ Behind(queue') = IF Members(queue) = {} THEN {} ELSE Behind(queue) \cup {spy.shot}

LEMMA Released == TaskTypes /\ Release => Queued
BY QueueAppend DEF TaskTypes, Release, Queued

\* A shot released to the file writer is one that was taken.
LEMMA QueuedTyped ==
    ASSUME TaskTypes, Queued, UNCHANGED <<shots, fwt, hook>>, spy.shot \in 1 .. shots
    PROVE  TaskTypes'
<1>1. spy' \in [pc : {"idle", "hook", "process", "block", "dng", "raw"}, shot : Nat]
  BY DEF TaskTypes, Queued
<1>2. queue' \in Seq(Nat) /\ Members(queue') \subseteq 1 .. shots
  BY DEF TaskTypes, Queued
<1> QED BY <1>1, <1>2 DEF TaskTypes

LEMMA AfterQueued ==
    ASSUME TaskTypes, Queued, UNCHANGED fwt, spy.pc # "idle", NEW s
    PROVE  /\ InProgress(s)' <=> InProgress(s)
           /\ First(s)' <=> IF NoFile THEN s = spy.shot ELSE First(s)
           /\ Later(s)' <=> Later(s) \/ (~NoFile /\ s = spy.shot)
<1>1. queue \in Seq(Nat) /\ (Members(queue) = {} => Behind(queue) = {})
  BY QueueParts DEF TaskTypes
<1>2. spy'.pc = "idle" /\ Members(queue') # {} /\ Members(queue') = Members(queue) \cup {spy.shot}
  BY DEF Queued, TaskTypes
<1>3. InProgress(s)' <=> InProgress(s)
  BY <1>2 DEF InProgress
<1>4. First(s)' <=> IF NoFile THEN s = spy.shot ELSE First(s)
  BY <1>2 DEF Queued, First, NoFile
<1>5. Later(s)' <=> Later(s) \/ (~NoFile /\ s = spy.shot)
  BY <1>1, <1>2 DEF Queued, Later, NoFile
<1> QED BY <1>3, <1>4, <1>5

\* What stays in progress, or has been stored, keeps NothingLost.
LEMMA StoredKept ==
    ASSUME Stored, shots' = shots, card \subseteq card', excused \subseteq excused', got \subseteq got',
           \A s \in 1 .. shots : InProgress(s) => InProgress(s)',
           \A s \in 1 .. shots : InProgress(s) \/ want'[s] = want[s]
    PROVE  Stored'
<1> SUFFICES ASSUME NEW s \in 1 .. shots
             PROVE  \/ InProgress(s)' \/ s \in excused' \/ s \in card'
                    \/ want'[s] # {} /\ \A t \in want'[s] : <<s, t>> \in got'
  BY DEF Stored, Got
<1> QED BY DEF Stored, Got

-----------------------------------------------------------------------------
(* The steps: each action keeps the invariant, part by part *)

LEMMA SetTargetKeeps ==
    ASSUME Settled, CapInv, SetTarget PROVE CapInv'
<1> USE TargetsAssumption, ShotsAssumption DEF CapInv, SetTarget, Settled, WithJpg, Idle,
       Writing, fileVars, taskVars, hostVars, cardVars
<1>q. /\ queue \in Seq(Nat)
      /\ Members(queue) = {} <=> queue = <<>>
      /\ Members(queue) = {} => Behind(queue) = {}
      /\ Members(queue) # {} => Members(queue) = {queue[1]} \cup Behind(queue)
  BY QueueParts DEF TaskTypes
<1>i. /\ spy.pc = "idle" /\ fwt.pc = "idle" /\ Members(queue) = {} /\ ptp.pc = "idle" /\ part = <<>>
      /\ avail = None /\ "jpg" \in target' /\ target' \in SUBSET Types
  BY <1>q DEF Available, CapTypes, Types
<1> USE <1>q, <1>i
<1>1. CapTypes' BY DEF CapTypes
<1>2. TaskTypes' BY DEF TaskTypes
<1>3. HostTypes' BY DEF HostTypes
<1>4. Wanted' BY DEF Wanted
<1>5. Newest' BY DEF Newest
<1>6. Ignoring' BY DEF Ignoring, NoFile, OneFile, InRaw, Shots
<1>7. Foremost' BY DEF Foremost, NoFile, OneFile, First, Later, InRaw, Shots
<1>8. Targeted' BY DEF Targeted, NoFile, OneFile, First, Later, InRaw, Shots
<1>9. Available' BY DEF Available
<1>10. Requested' BY DEF Requested, Source, NoFile, OneFile, InRaw, Types, None
<1>11. GivenUp' BY DEF GivenUp, InProgress, NoFile, OneFile, First, Later, InRaw, Shots
<1>12. QueueGot' BY DEF QueueGot
<1>13. WriterGot' BY DEF WriterGot
<1>14. HookGot' BY DEF HookGot, InProgress, Got, InRaw, Shots, Types
<1>15. Stored' BY DEF Stored, InProgress, Got, Shots, First
<1>16. NotOnCard' BY DEF NotOnCard
<1> QED BY <1>1, <1>2, <1>3, <1>4, <1>5, <1>6, <1>7, <1>8, <1>9, <1>10, <1>11, <1>12, <1>13,
       <1>14, <1>15, <1>16 DEF CapInv

LEMMA ShootKeeps ==
    ASSUME Settled, CapInv, Shoot PROVE CapInv'
<1> USE TargetsAssumption, ShotsAssumption DEF CapInv, Shoot, capVars, fileVars, hostVars,
       cardVars
<1>s. /\ shots \in Nat /\ shots' = shots + 1 /\ shots' \in Shots
      /\ spy.pc = "idle" /\ spy'.pc \in {"hook", "process"} /\ spy'.shot = shots'
  BY DEF TaskTypes, Shots
<1>t. /\ want[shots'] = {} /\ shots' \notin Members(queue) /\ fwt.shot # shots' /\ shots' \notin card
  <2>1. want[shots'] = {}
    BY <1>s DEF Wanted
  <2>2. shots' \notin 1 .. shots
    BY <1>s
  <2>3. shots' \notin Members(queue) /\ shots' \notin card
    BY <2>2 DEF TaskTypes, HostTypes
  <2>4. fwt.shot # shots'
    BY <1>s DEF TaskTypes
  <2> QED BY <2>1, <2>3, <2>4
<1>u. queue' = queue /\ Members(queue) # {} => queue[1] \in Members(queue)
  BY QueueParts DEF TaskTypes
<1> USE <1>s, <1>t, <1>u
<1>1. CapTypes' BY DEF CapTypes
<1>2. TaskTypes'
  <2>1. shots' \in 0 .. MaxShots
    BY <1>s DEF TaskTypes
  <2>2. spy' \in [pc : {"idle", "hook", "process", "block", "dng", "raw"}, shot : Nat]
    BY <1>s DEF TaskTypes
  <2>3. hook' \in [set : BOOLEAN, active : BOOLEAN]
    BY DEF TaskTypes
  <2>4. 0 .. shots \subseteq 0 .. shots' /\ 1 .. shots \subseteq 1 .. shots'
    BY ONLY <1>s
  <2>5. fwt' = fwt /\ queue' = queue /\ Members(queue') = Members(queue)
    OBVIOUS
  <2> QED BY <2>1, <2>2, <2>3, <2>4, <2>5 DEF TaskTypes
<1>3. HostTypes' BY DEF HostTypes
<1>4. Wanted'
  <2>1. \A s \in Shots : /\ want[s] # {} => "jpg" \in want[s]
                        /\ s > shots' => want[s] = {}
    BY DEF Wanted, Shots
  <2> QED BY <2>1 DEF Wanted
<1>5. Newest' BY DEF Newest
<1>6. Ignoring' BY DEF Ignoring, NoFile, OneFile, InRaw, Shots
<1>7. Foremost' BY DEF Foremost, NoFile, OneFile, First, Later, InRaw, Shots
<1>8. Targeted' BY DEF Targeted, NoFile, OneFile, First, Later, InRaw, Shots
<1>9. Available' BY DEF Available
<1>10. Requested'
  <2>1. UNCHANGED <<target, avail, chunk, chunks, ptp, part>> /\ avail \notin {"dng", "raw"}
    BY DEF Available
  <2>2. avail # None => avail = "jpg"
    BY <2>1 DEF CapTypes, Types
  <2>3. avail # None => Source(avail)' = Source(avail)
    BY <2>1, <2>2 DEF Source
  <2> QED BY <2>1, <2>3 DEF Requested
<1>11. GivenUp'
  <2> SUFFICES ASSUME NEW s \in Shots, s \notin excused, InProgress(s)'
               PROVE  /\ target = {} => want[s] = {} /\ spy'.pc # "block"
                      /\ First(s)' /\ ignore => "jpg" \in want[s]
    BY DEF GivenUp
  <2>1. CASE s = shots'
    BY <2>1 DEF First, TaskTypes
  <2>2. CASE s # shots'
    <3>1. InProgress(s)
      BY <2>2 DEF InProgress
    <3> QED BY <3>1 DEF GivenUp, First
  <2> QED BY <2>1, <2>2
<1>12. QueueGot' BY DEF QueueGot, InProgress, Got, NoFile, InRaw, Shots, Types
<1>13. WriterGot' BY DEF WriterGot, InProgress, Got, Shots, NoFile
<1>14. HookGot' BY DEF HookGot, InProgress, Got, InRaw, Shots, Types
<1>15. Stored'
  <2> SUFFICES ASSUME NEW s \in 1 .. shots'
               PROVE  \/ InProgress(s)' \/ s \in excused \/ s \in card
                      \/ want[s] # {} /\ Got(s, want[s])
    BY DEF Stored, Got
  <2>1. CASE s = shots'
    BY <2>1 DEF InProgress
  <2>2. CASE s # shots'
    <3>1. InProgress(s) => InProgress(s)'
      BY <2>2 DEF InProgress
    <3> QED BY <2>2, <3>1 DEF Stored
  <2> QED BY <2>1, <2>2
<1>16. NotOnCard' BY DEF NotOnCard
<1> QED BY <1>1, <1>2, <1>3, <1>4, <1>5, <1>6, <1>7, <1>8, <1>9, <1>10, <1>11, <1>12, <1>13,
       <1>14, <1>15, <1>16 DEF CapInv

LEMMA ProcessKeeps ==
    ASSUME Settled, CapInv, Process PROVE CapInv'
<1> USE TargetsAssumption, ShotsAssumption DEF CapInv, Process, capVars, fileVars, hostVars,
       cardVars
<1>q. /\ queue \in Seq(Nat)
      /\ Members(queue) = {} <=> queue = <<>>
      /\ Members(queue) = {} => Behind(queue) = {}
      /\ Members(queue) # {} => Members(queue) = {queue[1]} \cup Behind(queue)
  BY QueueParts DEF TaskTypes
<1>n. /\ spy.shot = shots /\ shots \in Nat /\ shots \in Shots /\ shots > 0
      /\ shots \notin Members(queue) /\ shots \notin card /\ (fwt.pc # "idle" => fwt.shot # shots)
  BY DEF TaskTypes, Newest, Shots
<1>w. spy.pc = "process" /\ want[shots] = {}
  BY DEF Wanted
<1> USE <1>q, <1>n, <1>w
<1>c1. CASE target = {}
  <2>a. Queued
    BY <1>c1, Released
  <2>b. spy'.pc = "idle" /\ spy'.shot = shots /\ fwt' = fwt
    BY <2>a DEF Queued, TaskTypes
  <2> USE <1>c1, <2>a, <2>b DEF Queued
  <2>1. CapTypes' BY DEF CapTypes
  <2>2. TaskTypes'
    <3>1. spy.shot \in 1 .. shots
      BY DEF TaskTypes, Newest
    <3> QED BY <3>1, QueuedTyped
  <2>3. HostTypes' BY DEF HostTypes
  <2>4. Wanted' BY DEF Wanted
  <2>5. Newest' BY DEF Newest
  <2>6. Ignoring' BY DEF Ignoring, NoFile, OneFile, InRaw, Shots
  <2>7. Foremost'
    <3> SUFFICES ASSUME NEW s \in Shots
                 PROVE  /\ Later(s)' => "jpg" \notin want'[s]
                        /\ First(s)' /\ "jpg" \in want'[s] => ignore'
      BY DEF Foremost
    <3> QED BY AfterQueued DEF Foremost, Ignoring, InRaw
  <2>8. Targeted' BY DEF Targeted
  <2>9. Available' BY DEF Available
  <2>10. Requested' BY DEF Requested
  <2>11. GivenUp'
    <3> SUFFICES ASSUME NEW s \in Shots, s \notin excused', InProgress(s)'
                 PROVE  /\ target' = {} => want'[s] = {} /\ spy'.pc # "block"
                        /\ First(s)' /\ ignore' => "jpg" \in want'[s]
      BY DEF GivenUp
    <3> QED BY AfterQueued DEF GivenUp, Ignoring, InRaw
  <2>12. QueueGot' BY DEF QueueGot, InProgress, Got, NoFile, InRaw, Shots, Types
  <2>13. WriterGot' BY DEF WriterGot, InProgress, Got, Shots, NoFile
  <2>14. HookGot' BY DEF HookGot, InProgress, Got, InRaw, Shots, Types
  <2>15. Stored'
    <3>1. \A s \in 1 .. shots : InProgress(s) => InProgress(s)'
      BY AfterQueued
    <3> QED BY <3>1, StoredKept
  <2>16. NotOnCard' BY DEF NotOnCard
  <2> QED BY <2>1, <2>2, <2>3, <2>4, <2>5, <2>6, <2>7, <2>8, <2>9, <2>10, <2>11, <2>12, <2>13,
         <2>14, <2>15, <2>16 DEF CapInv
<1>c2. CASE target # {}
  <2>b. spy'.pc = "block" /\ spy'.shot = shots /\ fwt' = fwt /\ queue' = queue
    BY <1>c2 DEF TaskTypes
  <2> USE <1>c2, <2>b
  <2>1. CapTypes' BY DEF CapTypes
  <2>2. TaskTypes' BY DEF TaskTypes
  <2>3. HostTypes' BY DEF HostTypes
  <2>4. Wanted' BY DEF Wanted
  <2>5. Newest' BY DEF Newest
  <2>6. Ignoring'
    BY DEF Ignoring, Wanted, Newest, Targeted, TaskTypes, HostTypes, NoFile, OneFile, InRaw,
       CapTypes, Shots
  <2>7. Foremost' BY DEF Foremost, NoFile, OneFile, First, Later, InRaw, Shots
  <2>8. Targeted' BY DEF Targeted, NoFile, OneFile, First, Later, InRaw, Shots
  <2>9. Available' BY DEF Available
  <2>10. Requested' BY DEF Requested, Source, NoFile, OneFile, InRaw, Types, None
  <2>11. GivenUp' BY DEF GivenUp, InProgress, NoFile, OneFile, First, Later, InRaw, Shots
  <2>12. QueueGot' BY DEF QueueGot, InProgress, Got, NoFile, InRaw, Shots, Types
  <2>13. WriterGot' BY DEF WriterGot, InProgress, Got, Shots, NoFile
  <2>14. HookGot' BY DEF HookGot, InProgress, Got, InRaw, Shots, Types
  <2>15. Stored'
    <3>1. \A s \in 1 .. shots : InProgress(s) => InProgress(s)'
      BY DEF InProgress
    <3> QED BY <3>1, StoredKept
  <2>16. NotOnCard' BY DEF NotOnCard
  <2> QED BY <2>1, <2>2, <2>3, <2>4, <2>5, <2>6, <2>7, <2>8, <2>9, <2>10, <2>11, <2>12, <2>13,
         <2>14, <2>15, <2>16 DEF CapInv
<1> QED BY <1>c1, <1>c2

LEMMA UnblockKeeps ==
    ASSUME Settled, CapInv, Unblock PROVE CapInv'
<1> USE TargetsAssumption, ShotsAssumption DEF CapInv, Unblock, Blocked, Begin, capVars,
       hostVars, cardVars
<1>q. /\ queue \in Seq(Nat)
      /\ Members(queue) = {} <=> queue = <<>>
      /\ Members(queue) = {} => Behind(queue) = {}
      /\ Members(queue) # {} => Members(queue) = {queue[1]} \cup Behind(queue)
  BY QueueParts DEF TaskTypes
<1>n. /\ spy.shot = shots /\ shots \in Nat /\ shots \in Shots /\ shots > 0
      /\ shots \notin Members(queue) /\ shots \notin card /\ (fwt.pc # "idle" => fwt.shot # shots)
  BY DEF TaskTypes, Newest, Shots
<1>w. /\ spy.pc = "block" /\ pending = {} /\ avail = None
      /\ target # {} => "jpg" \in target /\ NoFile
      /\ target \in SUBSET Types /\ fwt' = fwt
  <2>1. avail \in Types \cup {None} /\ target \in SUBSET Types
    BY DEF CapTypes
  <2>2. target # {} => "jpg" \in target /\ NoFile
    BY DEF Targeted, Wanted
  <2>3. avail # "dng" /\ avail # "raw" /\ avail # "jpg"
    BY <2>2 DEF Available, NoFile, None
  <2> QED BY <2>1, <2>2, <2>3 DEF Types
<1>v. /\ want' \in [Shots -> SUBSET Types] /\ want'[shots] = target
      /\ \A s \in Shots : s # shots => want'[s] = want[s]
  BY <1>n, <1>w DEF HostTypes
<1> USE <1>q, <1>n, <1>w, <1>v
<1>c1. CASE RawTypes(target) = {}
  <2>a. Queued /\ avail' = None
    BY <1>c1, Released DEF Offer
  <2>b. spy'.pc = "idle" /\ spy'.shot = shots
    BY <2>a DEF Queued, TaskTypes
  <2>c. target = {} \/ target = {"jpg"}
    <3>1. "dng" \notin target /\ "raw" \notin target
      BY <1>c1 DEF RawTypes
    <3>2. \A t \in target : t = "jpg"
      BY <3>1 DEF Types
    <3> QED BY <3>2
  <2> USE <2>a, <2>b, <2>c DEF Queued
  <2>1. CapTypes' BY DEF CapTypes
  <2>2. TaskTypes'
    <3>1. spy.shot \in 1 .. shots
      BY DEF TaskTypes, Newest
    <3> QED BY <3>1, QueuedTyped
  <2>3. HostTypes' BY DEF HostTypes
  <2>4. Wanted' BY DEF Wanted
  <2>5. Newest' BY DEF Newest
  <2>6. Ignoring' BY DEF Ignoring, NoFile, OneFile, InRaw, Shots
  <2>7. Foremost'
    <3> SUFFICES ASSUME NEW s \in Shots
                 PROVE  /\ Later(s)' => "jpg" \notin want'[s]
                        /\ First(s)' /\ "jpg" \in want'[s] => ignore'
      BY DEF Foremost
    <3>1. Later(s) => s # shots
      BY DEF Later
    <3> QED BY <3>1, AfterQueued DEF Foremost
  <2>8. Targeted' BY DEF Targeted, NoFile, OneFile, First, Later, InRaw, Shots
  <2>9. Available' BY DEF Available
  <2>10. Requested' BY DEF Requested, Source, NoFile, OneFile, InRaw, Types, None
  <2>11. GivenUp'
    <3> SUFFICES ASSUME NEW s \in Shots, s \notin excused', InProgress(s)'
                 PROVE  /\ target' = {} => want'[s] = {} /\ spy'.pc # "block"
                        /\ First(s)' /\ ignore' => "jpg" \in want'[s]
      BY DEF GivenUp
    <3>1. target = {} => InProgress(s)
      BY AfterQueued
    <3>2. target = {} => FALSE
      BY <3>1 DEF GivenUp
    <3>3. target # {} => s = shots
      BY AfterQueued DEF NoFile, InProgress
    <3> QED BY <3>2, <3>3
  <2>12. QueueGot'
    <3> SUFFICES ASSUME NEW s \in Members(queue'), s \notin excused, NEW t \in want'[s] \ {"jpg"}
                 PROVE  <<s, t>> \in got
      BY DEF QueueGot, Got
    <3>1. s # shots
      OBVIOUS
    <3>2. s \in Members(queue) /\ s \in Shots
      BY <3>1 DEF TaskTypes, Shots
    <3> QED BY <3>1, <3>2 DEF QueueGot, Got
  <2>13. WriterGot'
    <3>1. fwt.pc # "idle" /\ fwt.shot \notin excused => fwt.shot \in Shots /\ want'[fwt.shot] = want[fwt.shot]
      BY DEF TaskTypes, Shots, GivenUp, InProgress
    <3> QED BY <3>1 DEF WriterGot, Got
  <2>14. HookGot' BY DEF HookGot, InProgress, Got, InRaw, Shots, Types
  <2>15. Stored'
    <3>1. \A s \in 1 .. shots : InProgress(s) => InProgress(s)'
      BY AfterQueued
    <3>2. \A s \in 1 .. shots : InProgress(s) \/ want'[s] = want[s]
      BY DEF InProgress, Shots, TaskTypes
    <3> QED BY <3>1, <3>2, StoredKept
  <2>16. NotOnCard' BY DEF NotOnCard
  <2> QED BY <2>1, <2>2, <2>3, <2>4, <2>5, <2>6, <2>7, <2>8, <2>9, <2>10, <2>11, <2>12, <2>13,
         <2>14, <2>15, <2>16 DEF CapInv
<1>c2. CASE RawTypes(target) # {}
  <2>a. /\ target # {} /\ spy'.pc \in {"dng", "raw"} /\ spy'.pc \in target /\ avail' = spy'.pc
        /\ (spy'.pc = "raw" => "dng" \notin target)
        /\ spy' = [spy EXCEPT !.pc = spy'.pc] /\ spy'.shot = shots /\ queue' = queue
    BY <1>c2 DEF Offer, RawTypes, TaskTypes
  <2> USE <2>a
  <2>1. CapTypes' BY DEF CapTypes
  <2>2. TaskTypes' BY DEF TaskTypes
  <2>3. HostTypes' BY DEF HostTypes
  <2>4. Wanted' BY DEF Wanted
  <2>5. Newest' BY DEF Newest
  <2>6. Ignoring' BY DEF Ignoring, NoFile, OneFile, InRaw, Shots
  <2>7. Foremost' BY DEF Foremost, NoFile, OneFile, First, Later, InRaw, Shots
  <2>8. Targeted' BY DEF Targeted, NoFile, OneFile, First, Later, InRaw, Shots
  <2>9. Available' BY DEF Available
  <2>10. Requested' BY DEF Requested, Source, NoFile, OneFile, InRaw, Types, None
  <2>11. GivenUp' BY DEF GivenUp, InProgress, NoFile, OneFile, First, Later, InRaw, Shots
  <2>12. QueueGot' BY DEF QueueGot, NoFile
  <2>13. WriterGot' BY DEF WriterGot, NoFile
  <2>14. HookGot' BY DEF HookGot, InProgress, Got, InRaw, Shots, Types
  <2>15. Stored'
    <3>1. \A s \in 1 .. shots : InProgress(s) => InProgress(s)'
      BY DEF InProgress
    <3>2. \A s \in 1 .. shots : InProgress(s) \/ want'[s] = want[s]
      BY DEF InProgress, Shots, TaskTypes
    <3> QED BY <3>1, <3>2, StoredKept
  <2>16. NotOnCard' BY DEF NotOnCard
  <2> QED BY <2>1, <2>2, <2>3, <2>4, <2>5, <2>6, <2>7, <2>8, <2>9, <2>10, <2>11, <2>12, <2>13,
         <2>14, <2>15, <2>16 DEF CapInv
<1> QED BY <1>c1, <1>c2

LEMMA UnblockTimeoutKeeps ==
    ASSUME Settled, CapInv, UnblockTimeout PROVE CapInv'
<1> USE TargetsAssumption, ShotsAssumption DEF CapInv, UnblockTimeout, Begin, capVars,
       hostVars, cardVars
<1>q. /\ queue \in Seq(Nat)
      /\ Members(queue) = {} <=> queue = <<>>
      /\ Members(queue) = {} => Behind(queue) = {}
      /\ Members(queue) # {} => Members(queue) = {queue[1]} \cup Behind(queue)
  BY QueueParts DEF TaskTypes
<1>n. /\ spy.shot = shots /\ shots \in Nat /\ shots \in Shots /\ shots > 0
      /\ shots \notin Members(queue) /\ shots \notin card /\ (fwt.pc # "idle" => fwt.shot # shots)
  BY DEF TaskTypes, Newest, Shots
<1>e. \A s : s \in excused' <=> s \in excused \/ InProgress(s)
  BY Excusing
<1>r. Queued
  BY Released
<1>b. /\ spy' = [pc |-> "idle", shot |-> shots] /\ spy'.pc = "idle" /\ spy'.shot = shots
      /\ fwt' = fwt /\ shots' = shots
  BY <1>r, <1>n DEF Queued, TaskTypes
<1>v. /\ want' \in [Shots -> SUBSET Types] /\ want'[shots] = {} /\ spy.pc = "block"
      /\ \A s \in Shots : s # shots => want'[s] = want[s]
  BY <1>n DEF HostTypes
<1> USE <1>q, <1>n, <1>e, <1>r, <1>b, <1>v DEF Queued
<1>1. CapTypes' BY DEF CapTypes
<1>2. TaskTypes'
  <2>1. spy.shot \in 1 .. shots
    BY <1>n
  <2> QED BY <2>1, QueuedTyped
<1>3. HostTypes' BY DEF HostTypes
<1>4. Wanted' BY DEF Wanted
<1>5. Newest' BY DEF Newest
<1>6. Ignoring' BY DEF Ignoring, NoFile, OneFile, InRaw, Shots
<1>7. Foremost'
  <2> SUFFICES ASSUME NEW s \in Shots
               PROVE  /\ Later(s)' => "jpg" \notin want'[s]
                      /\ First(s)' /\ "jpg" \in want'[s] => ignore'
    BY DEF Foremost
  <2>1. Later(s) => s # shots
    BY DEF Later
  <2> QED BY <2>1, AfterQueued DEF Foremost
<1>8. Targeted' BY DEF Targeted
<1>9. Available' BY DEF Available, NoFile, OneFile, InRaw, Types, None
<1>10. Requested' BY DEF Requested
<1>11. GivenUp'
  <2> SUFFICES ASSUME NEW s \in Shots, s \notin excused', InProgress(s)'
               PROVE  /\ target' = {} => want'[s] = {} /\ spy'.pc # "block"
                      /\ First(s)' /\ ignore' => "jpg" \in want'[s]
    BY DEF GivenUp
  <2> QED BY AfterQueued
<1>12. QueueGot'
  <2> SUFFICES ASSUME NEW s \in Members(queue'), s \notin excused', NEW t \in want'[s] \ {"jpg"}
               PROVE  <<s, t>> \in got
    BY DEF QueueGot, Got
  <2>1. InProgress(s)
    BY DEF InProgress
  <2> QED BY <2>1
<1>13. WriterGot' BY DEF WriterGot, InProgress, Got, Shots, NoFile
<1>14. HookGot' BY DEF HookGot, InProgress, Got, InRaw, Shots, Types
<1>15. Stored'
  <2>1. \A s \in 1 .. shots : InProgress(s) => InProgress(s)'
    BY AfterQueued
  <2>2. \A s \in 1 .. shots : InProgress(s) \/ want'[s] = want[s]
    BY DEF InProgress, Shots, TaskTypes
  <2> QED BY <2>1, <2>2, StoredKept
<1>16. NotOnCard' BY DEF NotOnCard
<1> QED BY <1>1, <1>2, <1>3, <1>4, <1>5, <1>6, <1>7, <1>8, <1>9, <1>10, <1>11, <1>12, <1>13,
       <1>14, <1>15, <1>16 DEF CapInv

LEMMA RawTimeoutKeeps ==
    ASSUME Settled, CapInv, RawTimeout PROVE CapInv'
<1> USE TargetsAssumption, ShotsAssumption DEF CapInv, RawTimeout, Reset, capVars, fileVars,
       hostVars, cardVars
<1>q. /\ queue \in Seq(Nat)
      /\ Members(queue) = {} <=> queue = <<>>
      /\ Members(queue) = {} => Behind(queue) = {}
      /\ Members(queue) # {} => Members(queue) = {queue[1]} \cup Behind(queue)
  BY QueueParts DEF TaskTypes
<1>n. /\ spy.shot = shots /\ shots \in Nat /\ shots \in Shots /\ shots > 0
      /\ shots \notin Members(queue) /\ shots \notin card /\ (fwt.pc # "idle" => fwt.shot # shots)
  BY DEF TaskTypes, Newest, Shots
<1>e. \A s : s \in excused' <=> s \in excused \/ InProgress(s)
  BY Excusing
<1>r. Queued
  BY Released
<1>b. /\ spy' = [pc |-> "idle", shot |-> shots] /\ spy'.pc = "idle" /\ spy'.shot = shots
      /\ fwt' = fwt /\ shots' = shots
  BY <1>r, <1>n DEF Queued, TaskTypes
<1> USE <1>q, <1>n, <1>e, <1>r, <1>b DEF Queued
<1>1. CapTypes' BY DEF CapTypes
<1>2. TaskTypes'
  <2>1. spy.shot \in 1 .. shots
    BY <1>n
  <2> QED BY <2>1, QueuedTyped
<1>3. HostTypes' BY DEF HostTypes
<1>4. Wanted' BY DEF Wanted
<1>5. Newest' BY DEF Newest
<1>6. Ignoring' BY DEF Ignoring, NoFile, OneFile, InRaw, Shots
<1>7. Foremost'
  <2> SUFFICES ASSUME NEW s \in Shots
               PROVE  /\ Later(s)' => "jpg" \notin want'[s]
                      /\ First(s)' /\ "jpg" \in want'[s] => ignore'
    BY DEF Foremost
  <2> QED BY AfterQueued DEF Foremost, Ignoring, InRaw
<1>8. Targeted' BY DEF Targeted
<1>9. Available' BY DEF Available, NoFile, OneFile, InRaw, Types, None
<1>10. Requested' BY DEF Requested
<1>11. GivenUp'
  <2> SUFFICES ASSUME NEW s \in Shots, s \notin excused', InProgress(s)'
               PROVE  /\ target' = {} => want'[s] = {} /\ spy'.pc # "block"
                      /\ First(s)' /\ ignore' => "jpg" \in want'[s]
    BY DEF GivenUp
  <2> QED BY AfterQueued
<1>12. QueueGot'
  <2> SUFFICES ASSUME NEW s \in Members(queue'), s \notin excused', NEW t \in want'[s] \ {"jpg"}
               PROVE  <<s, t>> \in got
    BY DEF QueueGot, Got
  <2>1. InProgress(s)
    BY DEF InProgress
  <2> QED BY <2>1
<1>13. WriterGot' BY DEF WriterGot, InProgress, Got, Shots, NoFile
<1>14. HookGot' BY DEF HookGot, InProgress, Got, InRaw, Shots, Types
<1>15. Stored'
  <2>1. \A s \in 1 .. shots : InProgress(s) => InProgress(s)'
    BY AfterQueued
  <2>2. \A s \in 1 .. shots : InProgress(s) \/ want'[s] = want[s]
    BY DEF InProgress, Shots, TaskTypes
  <2> QED BY <2>1, <2>2, StoredKept
<1>16. NotOnCard' BY DEF NotOnCard
<1> QED BY <1>1, <1>2, <1>3, <1>4, <1>5, <1>6, <1>7, <1>8, <1>9, <1>10, <1>11, <1>12, <1>13,
       <1>14, <1>15, <1>16 DEF CapInv

LEMMA RawTakenKeeps ==
    ASSUME Settled, CapInv, RawTaken PROVE CapInv'
<1> USE TargetsAssumption, ShotsAssumption DEF CapInv, RawTaken, capVars, fileVars, hostVars,
       cardVars
<1>q. /\ queue \in Seq(Nat)
      /\ Members(queue) = {} <=> queue = <<>>
      /\ Members(queue) = {} => Behind(queue) = {}
      /\ Members(queue) # {} => Members(queue) = {queue[1]} \cup Behind(queue)
  BY QueueParts DEF TaskTypes
<1>n. /\ spy.shot = shots /\ shots \in Nat /\ shots \in Shots /\ shots > 0
      /\ shots \notin Members(queue) /\ shots \notin card /\ (fwt.pc # "idle" => fwt.shot # shots)
  BY DEF TaskTypes, Newest, Shots
<1>a. avail # spy.pc /\ (avail = None \/ target # {})
  BY DEF Available
<1>g. shots \notin excused => <<shots, spy.pc>> \in got
  BY DEF HookGot, InRaw
<1>o. IF spy.pc = "dng" /\ "raw" \in target
      THEN /\ avail' = "raw" /\ queue' = queue /\ spy' = [pc |-> "raw", shot |-> shots]
           /\ spy.pc = "dng" /\ "raw" \in target
      ELSE avail' = avail /\ Queued
  BY <1>n, Released DEF Offer, TaskTypes
<1>m. "jpg" \in want[shots] /\ fwt' = fwt /\ fwt.pc = "idle" /\ Members(queue) = {} /\ Behind(queue) = {}
  BY <1>q DEF Ignoring, InRaw, NoFile
<1>l. target # {} => avail = None /\ target = want[shots] /\ "jpg" \in pending
  <2>1. target # {} => target = want[shots] /\ "jpg" \in pending
    BY DEF Targeted, InRaw
  <2>2. avail # "jpg" /\ avail # "dng" /\ avail # "raw"
    BY <1>m, <1>a DEF Available
  <2> QED BY <2>1, <2>2 DEF CapTypes, Types
<1> USE <1>q, <1>n, <1>a, <1>g, <1>m, <1>l
<1>c1. CASE spy.pc = "dng" /\ "raw" \in target
  <2>a. /\ avail' = "raw" /\ queue' = queue /\ spy' = [pc |-> "raw", shot |-> shots]
        /\ spy'.pc = "raw" /\ spy'.shot = shots
    BY <1>o, <1>c1
  <2> USE <2>a, <1>c1
  <2>1. CapTypes' BY DEF CapTypes
  <2>2. TaskTypes' BY DEF TaskTypes
  <2>3. HostTypes' BY DEF HostTypes
  <2>4. Wanted' BY DEF Wanted
  <2>5. Newest' BY DEF Newest
  <2>6. Ignoring' BY DEF Ignoring, NoFile, OneFile, InRaw, Shots
  <2>7. Foremost' BY DEF Foremost, NoFile, OneFile, First, Later, InRaw, Shots
  <2>8. Targeted' BY DEF Targeted, NoFile, OneFile, First, Later, InRaw, Shots
  <2>9. Available' BY DEF Available
  <2>10. Requested' BY DEF Requested, Source, NoFile, OneFile, InRaw, Types, None
  <2>11. GivenUp' BY DEF GivenUp, InProgress, NoFile, OneFile, First, Later, InRaw, Shots
  <2>12. QueueGot' BY DEF QueueGot
  <2>13. WriterGot' BY DEF WriterGot
  <2>14. HookGot' BY DEF HookGot, InProgress, Got, InRaw, Shots, Types
  <2>15. Stored'
    <3>1. \A s \in 1 .. shots : InProgress(s) => InProgress(s)'
      BY DEF InProgress
    <3> QED BY <3>1, StoredKept
  <2>16. NotOnCard' BY DEF NotOnCard
  <2> QED BY <2>1, <2>2, <2>3, <2>4, <2>5, <2>6, <2>7, <2>8, <2>9, <2>10, <2>11, <2>12, <2>13,
         <2>14, <2>15, <2>16 DEF CapInv
<1>c2. CASE ~(spy.pc = "dng" /\ "raw" \in target)
  <2>a. Queued /\ avail' = avail
    BY <1>o, <1>c2
  <2>b. spy' = [pc |-> "idle", shot |-> shots] /\ spy'.pc = "idle" /\ spy'.shot = shots
    BY <2>a DEF Queued, TaskTypes
  <2> USE <2>a, <2>b, <1>c2 DEF Queued
  <2>1. CapTypes' BY DEF CapTypes
  <2>2. TaskTypes' BY DEF TaskTypes
  <2>3. HostTypes' BY DEF HostTypes
  <2>4. Wanted' BY DEF Wanted
  <2>5. Newest' BY DEF Newest
  <2>6. Ignoring' BY DEF Ignoring, NoFile, OneFile, InRaw, Shots
  <2>7. Foremost'
    <3> SUFFICES ASSUME NEW s \in Shots
                 PROVE  /\ Later(s)' => "jpg" \notin want'[s]
                        /\ First(s)' /\ "jpg" \in want'[s] => ignore'
      BY DEF Foremost
    <3> QED BY AfterQueued DEF Foremost, Ignoring, InRaw
  <2>8. Targeted'
    BY DEF Targeted, Ignoring, Wanted, Newest, TaskTypes, HostTypes, NoFile, OneFile, First,
       Later, InRaw, Shots, Available, CapTypes
  <2>9. Available' BY DEF Available
  <2>10. Requested' BY DEF Requested
  <2>11. GivenUp'
    <3> SUFFICES ASSUME NEW s \in Shots, s \notin excused', InProgress(s)'
                 PROVE  /\ target' = {} => want'[s] = {} /\ spy'.pc # "block"
                        /\ First(s)' /\ ignore' => "jpg" \in want'[s]
      BY DEF GivenUp
    <3> QED BY AfterQueued DEF GivenUp
  <2>12. QueueGot'
    <3> SUFFICES ASSUME shots \notin excused, NEW t \in want[shots], t # "jpg"
                 PROVE  <<shots, t>> \in got
      BY DEF QueueGot, Got
    <3>1. t \in {"dng", "raw"}
      BY DEF HostTypes, Types, Shots
    <3>2. spy.pc = "dng" => t # "raw"
      <4>1. InProgress(shots)
        BY DEF InProgress
      <4>2. target # {}
        BY <4>1 DEF GivenUp
      <4> QED BY <4>2
    <3> QED BY <3>1, <3>2 DEF HookGot, InRaw, Got
  <2>13. WriterGot' BY DEF WriterGot
  <2>14. HookGot' BY DEF HookGot, InProgress, Got, InRaw, Shots, Types
  <2>15. Stored'
    <3>1. \A s \in 1 .. shots : InProgress(s) => InProgress(s)'
      BY AfterQueued
    <3>2. \A s \in 1 .. shots : InProgress(s) \/ want'[s] = want[s]
      BY DEF InProgress, Shots, TaskTypes
    <3> QED BY <3>1, <3>2, StoredKept
  <2>16. NotOnCard' BY DEF NotOnCard
  <2> QED BY <2>1, <2>2, <2>3, <2>4, <2>5, <2>6, <2>7, <2>8, <2>9, <2>10, <2>11, <2>12, <2>13,
         <2>14, <2>15, <2>16 DEF CapInv
<1> QED BY <1>c1, <1>c2

LEMMA FileHookKeeps ==
    ASSUME Settled, CapInv, FileHook PROVE CapInv'
<1> USE TargetsAssumption, ShotsAssumption DEF CapInv, FileHook, capVars, fileVars, hostVars,
       cardVars
<1>q. /\ queue \in Seq(Nat)
      /\ Members(queue) = {} <=> queue = <<>>
      /\ Members(queue) = {} => Behind(queue) = {}
      /\ Members(queue) # {} => Members(queue) = {queue[1]} \cup Behind(queue)
  BY QueueParts DEF TaskTypes
<1>h. /\ Members(queue) # {} /\ queue[1] = Head(queue) /\ queue' \in Seq(Nat) /\ queue' = Tail(queue)
      /\ Members(queue') = Behind(queue) /\ Behind(queue') \subseteq Behind(queue)
      /\ Members(queue) = {queue[1]} \cup Behind(queue)
  BY <1>q, QueueTail
<1>f. /\ queue[1] \in 1 .. shots /\ queue[1] \in Shots
      /\ fwt'.pc \in {"hook", "open"} /\ fwt'.shot = queue[1]
      /\ fwt' = [pc |-> fwt'.pc, shot |-> queue[1]]
  BY <1>h DEF TaskTypes, Shots
<1>p. \A s : InProgress(s)' <=> InProgress(s)
  BY <1>h, <1>f DEF InProgress
<1> HIDE DEF FileHook
<1>u. /\ target' = target /\ pending' = pending /\ fileNum' = fileNum /\ expect' = expect /\ chunk' = chunk
      /\ ignore' = ignore /\ ignored' = ignored /\ shots' = shots /\ spy' = spy /\ hook' = hook
      /\ ptp' = ptp /\ part' = part /\ got' = got /\ torn' = torn /\ want' = want
      /\ open' = open /\ card' = card /\ excused' = excused /\ fwt.pc = "idle"
      /\ IF "jpg" \in target
         THEN chunks' = queue[1] /\ avail' = "jpg" /\ fwt'.pc = "hook"
         ELSE chunks' = chunks /\ avail' = avail /\ fwt'.pc = "open"
  BY <1>h DEF FileHook
<1>r. avail # "dng" /\ avail # "raw" /\ avail # "jpg" /\ ~InRaw
  BY <1>u, <1>h DEF Available, Ignoring, InRaw, NoFile
<1>s. avail = None
  BY <1>r DEF CapTypes, Types
<1> USE <1>q, <1>h, <1>f, <1>u, <1>r, <1>s
<1>1. CapTypes' BY DEF CapTypes
<1>2. TaskTypes' BY DEF TaskTypes
<1>3. HostTypes' BY DEF HostTypes
<1>4. Wanted' BY DEF Wanted
<1>5. Newest' BY DEF Newest
<1>6. Ignoring' BY DEF Ignoring, NoFile, OneFile, InRaw, Shots
<1>7. Foremost'
  <2> SUFFICES ASSUME NEW s \in Shots
               PROVE  /\ Later(s)' => "jpg" \notin want'[s]
                      /\ First(s)' /\ "jpg" \in want'[s] => ignore'
    BY DEF Foremost
  <2>1. Later(s)' => Later(s)
    BY DEF Later
  <2>2. First(s)' => First(s)
    BY DEF First
  <2> QED BY <2>1, <2>2 DEF Foremost
<1>8. Targeted' BY DEF Targeted, NoFile, OneFile, First, Later, InRaw, Shots
<1>9. Available' BY DEF Available
<1>10. Requested'
  <2>1. target # {} => ptp.pc = "idle" /\ part = <<>> /\ chunk = 0
    BY DEF Requested, Targeted, HostTypes
  <2>2. chunk = 0 => [i \in 1 .. chunk |-> <<chunks', i - 1>>] = <<>> /\ chunk < NChunks
    OBVIOUS
  <2>3. target # {} => avail' = "jpg"
    BY DEF Wanted
  <2> QED BY <2>1, <2>2, <2>3 DEF Requested
<1>11. GivenUp'
  <2> SUFFICES ASSUME NEW s \in Shots, s \notin excused', InProgress(s)'
               PROVE  /\ target' = {} => want'[s] = {} /\ spy'.pc # "block"
                      /\ First(s)' /\ ignore' => "jpg" \in want'[s]
    BY DEF GivenUp
  <2>1. InProgress(s) /\ (First(s)' => First(s))
    BY DEF InProgress, First
  <2> QED BY <2>1 DEF GivenUp
<1>12. QueueGot'
  <2> SUFFICES ASSUME NEW s \in Members(queue'), s \notin excused, NEW t \in want[s] \ {"jpg"}
               PROVE  <<s, t>> \in got
    BY DEF QueueGot, Got
  <2>1. s \in Members(queue)
    OBVIOUS
  <2> QED BY <2>1 DEF QueueGot, Got
<1>13. WriterGot'
  <2>1. InProgress(queue[1]) /\ queue[1] \in Members(queue)
    BY DEF InProgress
  <2>2. queue[1] \notin excused => Got(queue[1], want[queue[1]] \ {"jpg"})
    BY <2>1 DEF QueueGot
  <2>3. CASE "jpg" \in target
    BY <2>2, <2>3 DEF WriterGot, Got
  <2>4. CASE "jpg" \notin target
    <3>1. target = {}
      BY <2>4 DEF Wanted
    <3>2. queue[1] \notin excused => want[queue[1]] = {}
      BY <2>1, <3>1 DEF GivenUp
    <3> QED BY <2>2, <3>2 DEF WriterGot, Got
  <2> QED BY <2>3, <2>4
<1>14. HookGot' BY DEF HookGot, InProgress, Got, InRaw, Shots, Types
<1>15. Stored'
  <2>1. \A s \in 1 .. shots : InProgress(s) => InProgress(s)'
    BY DEF InProgress
  <2> QED BY <2>1, StoredKept
<1>16. NotOnCard' BY DEF NotOnCard
<1> QED BY <1>1, <1>2, <1>3, <1>4, <1>5, <1>6, <1>7, <1>8, <1>9, <1>10, <1>11, <1>12, <1>13,
       <1>14, <1>15, <1>16 DEF CapInv

LEMMA FileTakenKeeps ==
    ASSUME Settled, CapInv, FileTaken PROVE CapInv'
<1> USE TargetsAssumption, ShotsAssumption DEF CapInv, FileTaken, capVars, cardVars, hostVars
<1>q. /\ queue \in Seq(Nat)
      /\ Members(queue) = {} <=> queue = <<>>
      /\ Members(queue) = {} => Behind(queue) = {}
      /\ Members(queue) # {} => Members(queue) = {queue[1]} \cup Behind(queue)
  BY QueueParts DEF TaskTypes
<1>1. CapTypes' BY DEF CapTypes, TaskTypes, Types, None, Shots
<1>2. TaskTypes' BY DEF TaskTypes
<1>3. HostTypes' BY DEF HostTypes
<1>4. Wanted' BY DEF Wanted
<1>5. Newest' BY DEF Newest
<1>6. Ignoring' BY DEF Ignoring, NoFile, OneFile, InRaw, Shots
<1>7. Foremost' BY DEF Foremost, NoFile, OneFile, First, Later, InRaw, Shots
<1>8. Targeted' BY DEF Targeted, NoFile, OneFile, First, Later, InRaw, Shots
<1>9. Available' BY DEF Available
<1>10. Requested' BY DEF Requested, Source, NoFile, OneFile, InRaw, Types, None
<1>11. GivenUp' BY DEF GivenUp, InProgress, NoFile, OneFile, First, Later, InRaw, Shots
<1>12. QueueGot' BY DEF QueueGot, InProgress, Got, NoFile, InRaw, Shots, Types
<1>13. WriterGot' BY DEF WriterGot, InProgress, Got, Shots, NoFile
<1>14. HookGot' BY DEF HookGot, InProgress, Got, InRaw, Shots, Types
<1>15. Stored' BY DEF Stored, InProgress, Got, Shots, First
<1>16. NotOnCard' BY DEF NotOnCard
<1> QED BY <1>1, <1>2, <1>3, <1>4, <1>5, <1>6, <1>7, <1>8, <1>9, <1>10, <1>11, <1>12, <1>13,
       <1>14, <1>15, <1>16 DEF CapInv

LEMMA FileTimeoutKeeps ==
    ASSUME Settled, CapInv, FileTimeout PROVE CapInv'
<1> USE TargetsAssumption, ShotsAssumption DEF CapInv, FileTimeout, Reset, cardVars, hostVars
<1>q. /\ queue \in Seq(Nat)
      /\ Members(queue) = {} <=> queue = <<>>
      /\ Members(queue) = {} => Behind(queue) = {}
      /\ Members(queue) # {} => Members(queue) = {queue[1]} \cup Behind(queue)
  BY QueueParts DEF TaskTypes
<1>e. \A s : s \in excused' <=> s \in excused \/ InProgress(s)
  BY Excusing
<1> USE <1>q, <1>e
<1>1. CapTypes' BY DEF CapTypes, TaskTypes, Types, None, Shots
<1>2. TaskTypes' BY DEF TaskTypes
<1>3. HostTypes' BY DEF HostTypes
<1>4. Wanted' BY DEF Wanted
<1>5. Newest' BY DEF Newest
<1>6. Ignoring' BY DEF Ignoring, NoFile, OneFile, InRaw, Shots
<1>7. Foremost' BY DEF Foremost, NoFile, OneFile, First, Later, InRaw, Shots
<1>8. Targeted' BY DEF Targeted
<1>9. Available' BY DEF Available, NoFile, OneFile, InRaw, Types, None
<1>10. Requested' BY DEF Requested
<1>11. GivenUp' BY DEF GivenUp, InProgress, NoFile, OneFile, First, Later, InRaw, Shots
<1>12. QueueGot' BY DEF QueueGot, InProgress, Got, NoFile, InRaw, Shots, Types
<1>13. WriterGot' BY DEF WriterGot, InProgress, Got, Shots, NoFile
<1>14. HookGot'
  BY DEF HookGot, GivenUp, Available, Requested, Wanted, Newest, TaskTypes, HostTypes, CapTypes,
     InProgress, Got, InRaw, Shots, Targeted, Types
<1>15. Stored'
  <2>1. \A s \in 1 .. shots : InProgress(s) => InProgress(s)'
    BY DEF InProgress
  <2> QED BY <2>1, StoredKept
<1>16. NotOnCard' BY DEF NotOnCard
<1> QED BY <1>1, <1>2, <1>3, <1>4, <1>5, <1>6, <1>7, <1>8, <1>9, <1>10, <1>11, <1>12, <1>13,
       <1>14, <1>15, <1>16 DEF CapInv

LEMMA FileOpenKeeps ==
    ASSUME Settled, CapInv, FileOpen PROVE CapInv'
<1> USE TargetsAssumption, ShotsAssumption DEF CapInv, FileOpen, capVars, hostVars
<1>q. /\ queue \in Seq(Nat)
      /\ Members(queue) = {} <=> queue = <<>>
      /\ Members(queue) = {} => Behind(queue) = {}
      /\ Members(queue) # {} => Members(queue) = {queue[1]} \cup Behind(queue)
  BY QueueParts DEF TaskTypes
<1>1. CapTypes' BY DEF CapTypes
<1>2. TaskTypes' BY DEF TaskTypes
<1>3. HostTypes' BY DEF HostTypes, CapTypes, TaskTypes, Types, None, Shots, Newest
<1>4. Wanted' BY DEF Wanted
<1>5. Newest' BY DEF Newest
<1>6. Ignoring'
  BY DEF Ignoring, Wanted, Newest, Targeted, TaskTypes, HostTypes, NoFile, OneFile, InRaw,
     CapTypes, Shots
<1>7. Foremost' BY DEF Foremost, NoFile, OneFile, First, Later, InRaw, Shots
<1>8. Targeted' BY DEF Targeted, NoFile, OneFile, First, Later, InRaw, Shots
<1>9. Available' BY DEF Available
<1>10. Requested' BY DEF Requested, Source, NoFile, OneFile, InRaw, Types, None
<1>11. GivenUp' BY DEF GivenUp, InProgress, NoFile, OneFile, First, Later, InRaw, Shots
<1>12. QueueGot' BY DEF QueueGot, InProgress, Got, NoFile, InRaw, Shots, Types
<1>13. WriterGot' BY DEF WriterGot, InProgress, Got, Shots, NoFile
<1>14. HookGot' BY DEF HookGot, InProgress, Got, InRaw, Shots, Types
<1>15. Stored' BY DEF Stored, InProgress, Got, Shots, First
<1>16. NotOnCard' BY DEF NotOnCard
<1> QED BY <1>1, <1>2, <1>3, <1>4, <1>5, <1>6, <1>7, <1>8, <1>9, <1>10, <1>11, <1>12, <1>13,
       <1>14, <1>15, <1>16 DEF CapInv

LEMMA HookSetKeeps ==
    ASSUME Settled, CapInv, HookSet PROVE CapInv'
<1> USE TargetsAssumption, ShotsAssumption DEF CapInv, HookSet, capVars, fileVars, taskVars,
       cardVars, hostVars
<1>1. CapTypes' BY DEF CapTypes
<1>2. TaskTypes' BY DEF TaskTypes
<1>3. HostTypes' BY DEF HostTypes
<1>4. Wanted' BY DEF Wanted
<1>5. Newest' BY DEF Newest
<1>6. Ignoring' BY DEF Ignoring, NoFile, OneFile, InRaw, Shots
<1>7. Foremost' BY DEF Foremost, NoFile, OneFile, First, Later, InRaw, Shots
<1>8. Targeted' BY DEF Targeted, NoFile, OneFile, First, Later, InRaw, Shots
<1>9. Available' BY DEF Available
<1>10. Requested' BY DEF Requested, Source, NoFile, OneFile, InRaw, Types, None
<1>11. GivenUp' BY DEF GivenUp, InProgress, NoFile, OneFile, First, Later, InRaw, Shots
<1>12. QueueGot' BY DEF QueueGot, InProgress, Got, NoFile, InRaw, Shots, Types
<1>13. WriterGot' BY DEF WriterGot, InProgress, Got, Shots, NoFile
<1>14. HookGot' BY DEF HookGot, InProgress, Got, InRaw, Shots, Types
<1>15. Stored' BY DEF Stored, InProgress, Got, Shots, First
<1>16. NotOnCard' BY DEF NotOnCard
<1> QED BY <1>1, <1>2, <1>3, <1>4, <1>5, <1>6, <1>7, <1>8, <1>9, <1>10, <1>11, <1>12, <1>13,
       <1>14, <1>15, <1>16 DEF CapInv

LEMMA HookContinueKeeps ==
    ASSUME Settled, CapInv, HookContinue PROVE CapInv'
<1> USE TargetsAssumption, ShotsAssumption DEF CapInv, HookContinue, capVars, fileVars,
       taskVars, cardVars, hostVars
<1>1. CapTypes' BY DEF CapTypes
<1>2. TaskTypes' BY DEF TaskTypes
<1>3. HostTypes' BY DEF HostTypes
<1>4. Wanted' BY DEF Wanted
<1>5. Newest' BY DEF Newest
<1>6. Ignoring' BY DEF Ignoring, NoFile, OneFile, InRaw, Shots
<1>7. Foremost' BY DEF Foremost, NoFile, OneFile, First, Later, InRaw, Shots
<1>8. Targeted' BY DEF Targeted, NoFile, OneFile, First, Later, InRaw, Shots
<1>9. Available' BY DEF Available
<1>10. Requested' BY DEF Requested, Source, NoFile, OneFile, InRaw, Types, None
<1>11. GivenUp' BY DEF GivenUp, InProgress, NoFile, OneFile, First, Later, InRaw, Shots
<1>12. QueueGot' BY DEF QueueGot, InProgress, Got, NoFile, InRaw, Shots, Types
<1>13. WriterGot' BY DEF WriterGot, InProgress, Got, Shots, NoFile
<1>14. HookGot' BY DEF HookGot, InProgress, Got, InRaw, Shots, Types
<1>15. Stored' BY DEF Stored, InProgress, Got, Shots, First
<1>16. NotOnCard' BY DEF NotOnCard
<1> QED BY <1>1, <1>2, <1>3, <1>4, <1>5, <1>6, <1>7, <1>8, <1>9, <1>10, <1>11, <1>12, <1>13,
       <1>14, <1>15, <1>16 DEF CapInv

LEMMA HooksResetKeeps ==
    ASSUME Settled, CapInv, HooksReset PROVE CapInv'
<1> USE TargetsAssumption, ShotsAssumption DEF CapInv, HooksReset, capVars, fileVars, taskVars,
       cardVars, hostVars
<1>1. CapTypes' BY DEF CapTypes
<1>2. TaskTypes' BY DEF TaskTypes
<1>3. HostTypes' BY DEF HostTypes
<1>4. Wanted' BY DEF Wanted
<1>5. Newest' BY DEF Newest
<1>6. Ignoring' BY DEF Ignoring, NoFile, OneFile, InRaw, Shots
<1>7. Foremost' BY DEF Foremost, NoFile, OneFile, First, Later, InRaw, Shots
<1>8. Targeted' BY DEF Targeted, NoFile, OneFile, First, Later, InRaw, Shots
<1>9. Available' BY DEF Available
<1>10. Requested' BY DEF Requested, Source, NoFile, OneFile, InRaw, Types, None
<1>11. GivenUp' BY DEF GivenUp, InProgress, NoFile, OneFile, First, Later, InRaw, Shots
<1>12. QueueGot' BY DEF QueueGot, InProgress, Got, NoFile, InRaw, Shots, Types
<1>13. WriterGot' BY DEF WriterGot, InProgress, Got, Shots, NoFile
<1>14. HookGot' BY DEF HookGot, InProgress, Got, InRaw, Shots, Types
<1>15. Stored' BY DEF Stored, InProgress, Got, Shots, First
<1>16. NotOnCard' BY DEF NotOnCard
<1> QED BY <1>1, <1>2, <1>3, <1>4, <1>5, <1>6, <1>7, <1>8, <1>9, <1>10, <1>11, <1>12, <1>13,
       <1>14, <1>15, <1>16 DEF CapInv

LEMMA HookDoneKeeps ==
    ASSUME Settled, CapInv, HookDone PROVE CapInv'
<1> USE TargetsAssumption, ShotsAssumption DEF CapInv, HookDone, capVars, fileVars, cardVars,
       hostVars
<1>1. CapTypes' BY DEF CapTypes
<1>2. TaskTypes' BY DEF TaskTypes
<1>3. HostTypes' BY DEF HostTypes
<1>4. Wanted' BY DEF Wanted
<1>5. Newest' BY DEF Newest
<1>6. Ignoring' BY DEF Ignoring, NoFile, OneFile, InRaw, Shots
<1>7. Foremost' BY DEF Foremost, NoFile, OneFile, First, Later, InRaw, Shots
<1>8. Targeted' BY DEF Targeted, NoFile, OneFile, First, Later, InRaw, Shots
<1>9. Available' BY DEF Available
<1>10. Requested' BY DEF Requested, Source, NoFile, OneFile, InRaw, Types, None
<1>11. GivenUp' BY DEF GivenUp, InProgress, NoFile, OneFile, First, Later, InRaw, Shots
<1>12. QueueGot' BY DEF QueueGot, InProgress, Got, NoFile, InRaw, Shots, Types
<1>13. WriterGot' BY DEF WriterGot, InProgress, Got, Shots, NoFile
<1>14. HookGot' BY DEF HookGot, InProgress, Got, InRaw, Shots, Types
<1>15. Stored' BY DEF Stored, InProgress, Got, Shots, First
<1>16. NotOnCard' BY DEF NotOnCard
<1> QED BY <1>1, <1>2, <1>3, <1>4, <1>5, <1>6, <1>7, <1>8, <1>9, <1>10, <1>11, <1>12, <1>13,
       <1>14, <1>15, <1>16 DEF CapInv

LEMMA ClearTargetKeeps ==
    ASSUME Settled, CapInv, ClearTarget PROVE CapInv'
<1> USE TargetsAssumption, ShotsAssumption DEF CapInv, ClearTarget, Reset, fileVars, taskVars,
       cardVars, hostVars
<1>q. /\ queue \in Seq(Nat)
      /\ Members(queue) = {} <=> queue = <<>>
      /\ Members(queue) = {} => Behind(queue) = {}
      /\ Members(queue) # {} => Members(queue) = {queue[1]} \cup Behind(queue)
  BY QueueParts DEF TaskTypes
<1>e. \A s : s \in excused' <=> s \in excused \/ InProgress(s)
  BY Excusing
<1> USE <1>q, <1>e
<1>1. CapTypes' BY DEF CapTypes
<1>2. TaskTypes' BY DEF TaskTypes
<1>3. HostTypes' BY DEF HostTypes
<1>4. Wanted' BY DEF Wanted
<1>5. Newest' BY DEF Newest
<1>6. Ignoring' BY DEF Ignoring, NoFile, OneFile, InRaw, Shots
<1>7. Foremost' BY DEF Foremost, NoFile, OneFile, First, Later, InRaw, Shots
<1>8. Targeted' BY DEF Targeted
<1>9. Available' BY DEF Available, NoFile, OneFile, InRaw, Types, None
<1>10. Requested' BY DEF Requested
<1>11. GivenUp' BY DEF GivenUp, InProgress, NoFile, OneFile, First, Later, InRaw, Shots
<1>12. QueueGot' BY DEF QueueGot, InProgress, Got, NoFile, InRaw, Shots, Types
<1>13. WriterGot' BY DEF WriterGot, InProgress, Got, Shots, NoFile
<1>14. HookGot'
  BY DEF HookGot, GivenUp, Available, Requested, Wanted, Newest, TaskTypes, HostTypes, CapTypes,
     InProgress, Got, InRaw, Shots, Targeted, Types
<1>15. Stored'
  <2>1. \A s \in 1 .. shots : InProgress(s) => InProgress(s)'
    BY DEF InProgress
  <2> QED BY <2>1, StoredKept
<1>16. NotOnCard' BY DEF NotOnCard
<1> QED BY <1>1, <1>2, <1>3, <1>4, <1>5, <1>6, <1>7, <1>8, <1>9, <1>10, <1>11, <1>12, <1>13,
       <1>14, <1>15, <1>16 DEF CapInv

LEMMA GetOtherKeeps ==
    ASSUME Settled, CapInv, GetOther PROVE CapInv'
<1> USE TargetsAssumption, ShotsAssumption DEF CapInv, GetOther, Reset, fileVars, taskVars,
       cardVars
<1>q. /\ queue \in Seq(Nat)
      /\ Members(queue) = {} <=> queue = <<>>
      /\ Members(queue) = {} => Behind(queue) = {}
      /\ Members(queue) # {} => Members(queue) = {queue[1]} \cup Behind(queue)
  BY QueueParts DEF TaskTypes
<1>e. \A s : s \in excused' <=> s \in excused \/ InProgress(s)
  BY Excusing
<1> USE <1>q, <1>e
<1>1. CapTypes' BY DEF CapTypes
<1>2. TaskTypes' BY DEF TaskTypes
<1>3. HostTypes' BY DEF HostTypes
<1>4. Wanted' BY DEF Wanted
<1>5. Newest' BY DEF Newest
<1>6. Ignoring' BY DEF Ignoring, NoFile, OneFile, InRaw, Shots
<1>7. Foremost' BY DEF Foremost, NoFile, OneFile, First, Later, InRaw, Shots
<1>8. Targeted' BY DEF Targeted
<1>9. Available' BY DEF Available, NoFile, OneFile, InRaw, Types, None
<1>10. Requested' BY DEF Requested
<1>11. GivenUp' BY DEF GivenUp, InProgress, NoFile, OneFile, First, Later, InRaw, Shots
<1>12. QueueGot' BY DEF QueueGot, InProgress, Got, NoFile, InRaw, Shots, Types
<1>13. WriterGot' BY DEF WriterGot, InProgress, Got, Shots, NoFile
<1>14. HookGot'
  BY DEF HookGot, GivenUp, Available, Requested, Wanted, Newest, TaskTypes, HostTypes, CapTypes,
     InProgress, Got, InRaw, Shots, Targeted, Types
<1>15. Stored'
  <2>1. \A s \in 1 .. shots : InProgress(s) => InProgress(s)'
    BY DEF InProgress
  <2> QED BY <2>1, StoredKept
<1>16. NotOnCard' BY DEF NotOnCard
<1> QED BY <1>1, <1>2, <1>3, <1>4, <1>5, <1>6, <1>7, <1>8, <1>9, <1>10, <1>11, <1>12, <1>13,
       <1>14, <1>15, <1>16 DEF CapInv

LEMMA FileCloseKeeps ==
    ASSUME Settled, CapInv, FileClose PROVE CapInv'
<1> USE TargetsAssumption, ShotsAssumption DEF CapInv, FileClose, capVars, cardVars, hostVars
<1>q. /\ queue \in Seq(Nat)
      /\ Members(queue) = {} <=> queue = <<>>
      /\ Members(queue) = {} => Behind(queue) = {}
      /\ Members(queue) # {} => Members(queue) = {queue[1]} \cup Behind(queue)
  BY QueueParts DEF TaskTypes
<1>f. /\ fwt.shot \in 1 .. shots /\ fwt.shot \in Shots /\ shots' = shots /\ queue' = queue
      /\ fwt.pc = "close" /\ fwt' = [pc |-> "idle", shot |-> 0] /\ fwt'.pc = "idle" /\ spy' = spy
      /\ target' = target /\ avail' = avail /\ want' = want /\ got' = got /\ excused' = excused
      /\ shots \in Nat
  BY DEF TaskTypes, Shots
<1>g. Behind(queue) \subseteq Members(queue) /\ (Members(queue) # {} => queue[1] \in Members(queue))
  BY <1>q
<1>e. expect = IF ignore THEN 1 ELSE 0
  BY DEF Ignoring, CapTypes
<1>w. /\ First(fwt.shot) /\ InProgress(fwt.shot)
      /\ fwt.shot \notin excused => Got(fwt.shot, want[fwt.shot]) /\ (ignore => "jpg" \in want[fwt.shot])
      /\ ~ignore => "jpg" \notin want[fwt.shot]
  <2>1. First(fwt.shot) /\ InProgress(fwt.shot)
    BY <1>f DEF First, InProgress
  <2> QED BY <1>f, <2>1 DEF GivenUp, WriterGot, Foremost
<1>h. /\ IF ignore THEN /\ ignored' = FALSE /\ pending' = pending \ {"jpg"} /\ expect' = 0 /\ ignore' = FALSE
                        /\ open' = open /\ card' = card
                   ELSE /\ open' = 0 /\ card' = card \cup {fwt.shot} /\ pending' = pending
                        /\ expect' = expect /\ ignore' = ignore /\ ignored' = ignored
      /\ ignore' = FALSE /\ expect' = 0
  <2>1. CASE ignore
    <3>1. expect = 1 /\ FileComplete /\ UNCHANGED cardVars
      BY <1>e, <2>1
    <3>2. (expect > 1) = FALSE
      BY <3>1
    <3>3. ignore' = FALSE
      BY <3>1, <3>2, Zenon DEF FileComplete
    <3>4. ignored' = FALSE /\ pending' = pending \ {"jpg"} /\ expect' = 0
      BY <3>1 DEF FileComplete
    <3> QED BY <2>1, <3>1, <3>3, <3>4
  <2>2. CASE ~ignore
    <3>1. expect' = expect /\ ignore' = ignore
      BY <2>2
    <3> QED BY <1>e, <2>2, <3>1 DEF CapTypes
  <2> QED BY <2>1, <2>2
<1>u. UNCHANGED <<target, avail, fileNum, chunk, chunks, shots, spy, hook, queue, ptp, part, got, torn,
                  want, excused>>
  OBVIOUS
<1> HIDE DEF FileClose
<1> USE <1>q, <1>f, <1>g, <1>e, <1>w, <1>h, <1>u
<1>1. CapTypes'
  <2>1. CASE ignore
    <3>1. pending' \in SUBSET Types /\ ignored' \in BOOLEAN
      BY <2>1 DEF CapTypes
    <3>2. ignore' = FALSE /\ expect' = 0
      OBVIOUS
    <3>3. expect' \in 0 .. 1
      BY <3>2
    <3>4. ignore' \in BOOLEAN
      BY <3>2
    <3> HIDE <1>h
    <3> QED BY <3>1, <3>3, <3>4 DEF CapTypes
  <2>2. CASE ~ignore
    BY <2>2 DEF CapTypes, Types
  <2> QED BY <2>1, <2>2
<1>2. TaskTypes' BY DEF TaskTypes
<1>3. HostTypes'
  <2>1. CASE ignore
    BY <2>1 DEF HostTypes
  <2>2. CASE ~ignore
    <3>1. card' = card \cup {fwt.shot} /\ open' = 0
      BY <2>2
    <3>2. card' \subseteq 1 .. shots
      BY <3>1 DEF HostTypes
    <3>3. open' \in 0 .. shots
      BY <3>1
    <3> QED BY <3>2, <3>3 DEF HostTypes
  <2> QED BY <2>1, <2>2
<1>4. Wanted' BY DEF Wanted
<1>5. Newest' BY DEF Newest
<1>6. Ignoring'
  <2>1. CASE ignore
    BY <2>1 DEF Ignoring, NoFile, OneFile, InRaw, HostTypes
  <2>2. CASE ~ignore
    BY <2>2 DEF Ignoring, NoFile, OneFile, InRaw, HostTypes
  <2> QED BY <2>1, <2>2
<1>7. Foremost'
  <2> SUFFICES ASSUME NEW s \in Shots
               PROVE  /\ Later(s)' => "jpg" \notin want'[s]
                      /\ First(s)' /\ "jpg" \in want'[s] => ignore'
    BY DEF Foremost
  <2>1. First(s)' => Later(s)
    BY DEF First, Later
  <2>2. Later(s)' => Later(s)
    BY DEF Later
  <2> QED BY <2>1, <2>2 DEF Foremost
<1>8. Targeted'
  BY DEF Targeted, Ignoring, Wanted, Newest, TaskTypes, HostTypes, NoFile, OneFile, First, Later,
     InRaw, Shots, Available, CapTypes
<1>9. Available' BY DEF Available
<1>10. Requested' BY DEF Requested, Source, NoFile, OneFile, InRaw, Types, None
<1>11. GivenUp'
  <2> SUFFICES ASSUME NEW s \in Shots, s \notin excused', InProgress(s)'
               PROVE  /\ target' = {} => want'[s] = {} /\ spy'.pc # "block"
                      /\ First(s)' /\ ignore' => "jpg" \in want'[s]
    BY DEF GivenUp
  <2>1. InProgress(s)
    BY DEF InProgress
  <2> QED BY <2>1 DEF GivenUp
<1>12. QueueGot' BY DEF QueueGot, InProgress, Got, NoFile, InRaw, Shots, Types
<1>13. WriterGot' BY DEF WriterGot
<1>14. HookGot' BY DEF HookGot, InProgress, Got, InRaw, Shots, Types
<1>15. Stored'
  <2> SUFFICES ASSUME NEW s \in 1 .. shots
               PROVE  \/ InProgress(s)' \/ s \in excused' \/ s \in card'
                      \/ want'[s] # {} /\ \A t \in want'[s] : <<s, t>> \in got'
    BY DEF Stored, Got
  <2>1. CASE s = fwt.shot
    BY <2>1 DEF Got
  <2>2. CASE s # fwt.shot
    <3>1. InProgress(s) => InProgress(s)'
      BY <2>2 DEF InProgress
    <3> QED BY <3>1 DEF Stored, Got
  <2> QED BY <2>1, <2>2
<1>16. NotOnCard' BY DEF NotOnCard
<1> QED BY <1>1, <1>2, <1>3, <1>4, <1>5, <1>6, <1>7, <1>8, <1>9, <1>10, <1>11, <1>12, <1>13,
       <1>14, <1>15, <1>16 DEF CapInv

LEMMA GetDataKeeps ==
    ASSUME Settled, CapInv, GetData PROVE CapInv'
<1> USE TargetsAssumption, ShotsAssumption DEF CapInv, GetData, Asks, capVars, cardVars, taskVars
<1>q. /\ queue \in Seq(Nat)
      /\ Members(queue) = {} <=> queue = <<>>
      /\ Members(queue) = {} => Behind(queue) = {}
      /\ Members(queue) # {} => Members(queue) = {queue[1]} \cup Behind(queue)
  BY QueueParts DEF TaskTypes
<1>a. /\ target # {} /\ part \in Seq(Nat \X Int) /\ (avail # "jpg" => part = <<>>)
      /\ avail \in Types /\ avail # None /\ ptp.pc = "idle"
  BY DEF Requested, CapTypes, HostTypes, Types
<1>s. Source(avail) \in Nat /\ chunk \in Nat /\ NChunks \in Nat \ {0} /\ (avail = "jpg" => chunk < NChunks)
  BY <1>a DEF CapTypes, TaskTypes, Requested, Source
<1> DEFINE n == IF avail = "jpg" THEN chunk ELSE NChunks - 1
<1>n. /\ ptp' = [pc |-> "send", type |-> avail, src |-> Source(avail), last |-> n >= NChunks - 1]
      /\ part' = Append(part, <<Source(avail), n>>) /\ n \in Nat
      /\ chunk' = IF avail = "jpg" THEN chunk + 1 ELSE chunk
      /\ target' = target /\ avail' = avail /\ chunks' = chunks /\ spy' = spy /\ shots' = shots
      /\ Source(avail)' = Source(avail)
  BY <1>s DEF GetData, Source
<1> DEFINE end == n >= NChunks - 1
<1>l. ptp'.last <=> n >= NChunks - 1
  <2>1. ptp' = [pc |-> "send", type |-> avail, src |-> Source(avail), last |-> end]
    BY <1>n
  <2>2. ptp'.last = end
    <3> HIDE DEF end, n
    <3> QED BY ONLY <2>1
  <2> QED BY ONLY <2>2
<1>j. avail = "jpg" => /\ part' = [i \in 1 .. chunk' |-> <<chunks', i - 1>>]
                       /\ ptp'.last <=> chunk' = NChunks
  <2> SUFFICES ASSUME avail = "jpg"
               PROVE  /\ Append(part, <<chunks, chunk>>) = [i \in 1 .. chunk + 1 |-> <<chunks, i - 1>>]
                      /\ chunk >= NChunks - 1 <=> chunk + 1 = NChunks
    BY <1>n, <1>l DEF Source
  <2>1. part = [i \in 1 .. chunk |-> <<chunks, i - 1>>]
    BY <1>a DEF Requested
  <2>2. Append(part, <<chunks, chunk>>) = [i \in 1 .. chunk + 1 |-> <<chunks, i - 1>>]
    BY <1>s, <2>1
  <2>3. chunk >= NChunks - 1 <=> chunk + 1 = NChunks
    BY <1>s
  <2> QED BY <2>2, <2>3
<1>r. avail \in {"dng", "raw"} => ptp'.last /\ part' = <<<<shots, NChunks - 1>>>>
  <2> SUFFICES ASSUME avail \in {"dng", "raw"} PROVE ptp'.last /\ part' = <<<<shots, NChunks - 1>>>>
    OBVIOUS
  <2>1. spy.shot = shots
    BY DEF Available, Newest
  <2>2. n = NChunks - 1 /\ part = <<>>
    BY <1>a
  <2> QED BY <1>s, <1>n, <1>l, <2>1, <2>2 DEF Source
<1> HIDE DEF n, end
<1> USE <1>q, <1>a, <1>s
<1>1. CapTypes'
  <2>1. chunk' \in 0 .. NChunks
    BY <1>n DEF CapTypes
  <2> QED BY <2>1 DEF CapTypes
<1>2. TaskTypes' BY DEF TaskTypes
<1>3. HostTypes'
  <2>1. <<Source(avail), n>> \in Nat \X Int
    BY <1>n
  <2>2. part' \in Seq(Nat \X Int)
    BY <1>n, <2>1, AppendProperties
  <2>3. ptp' \in [pc : {"idle", "send"}, type : Types \cup {None}, src : Nat, last : BOOLEAN]
    BY <1>n
  <2> QED BY <2>2, <2>3 DEF HostTypes
<1>4. Wanted' BY DEF Wanted
<1>5. Newest' BY DEF Newest
<1>6. Ignoring' BY DEF Ignoring, NoFile, OneFile, InRaw, Shots
<1>7. Foremost' BY DEF Foremost, NoFile, OneFile, First, Later, InRaw, Shots
<1>8. Targeted'
  BY DEF Targeted, Ignoring, Wanted, Newest, TaskTypes, HostTypes, NoFile, OneFile, First, Later,
     InRaw, Shots, Available, CapTypes
<1>9. Available' BY DEF Available
<1>10. Requested'
  <2>1. avail \in Types /\ ptp'.pc = "send" /\ ptp'.type = avail /\ ptp'.src = Source(avail)'
    BY <1>n
  <2> QED BY <1>n, <1>j, <1>r, <2>1 DEF Requested
<1>11. GivenUp' BY DEF GivenUp, InProgress, NoFile, OneFile, First, Later, InRaw, Shots
<1>12. QueueGot' BY DEF QueueGot, InProgress, Got, NoFile, InRaw, Shots, Types
<1>13. WriterGot' BY DEF WriterGot, InProgress, Got, Shots, NoFile
<1>14. HookGot' BY DEF HookGot, InProgress, Got, InRaw, Shots, Types
<1>15. Stored'
  <2>1. \A s \in 1 .. shots : InProgress(s) => InProgress(s)'
    BY DEF InProgress
  <2> QED BY <2>1, StoredKept
<1>16. NotOnCard' BY DEF NotOnCard
<1> QED BY <1>1, <1>2, <1>3, <1>4, <1>5, <1>6, <1>7, <1>8, <1>9, <1>10, <1>11, <1>12, <1>13,
       <1>14, <1>15, <1>16 DEF CapInv

LEMMA SentKeeps ==
    ASSUME Settled, CapInv, Sent PROVE CapInv'
<1> USE TargetsAssumption, ShotsAssumption DEF CapInv, Sent, SendComplete, capVars, fileVars,
       taskVars, cardVars
<1>q. /\ queue \in Seq(Nat)
      /\ Members(queue) = {} <=> queue = <<>>
      /\ Members(queue) = {} => Behind(queue) = {}
      /\ Members(queue) # {} => Members(queue) = {queue[1]} \cup Behind(queue)
  BY QueueParts DEF TaskTypes
<1>u. /\ target' = target /\ chunk' = chunk /\ chunks' = chunks /\ spy' = spy /\ fwt' = fwt /\ queue' = queue
      /\ want' = want /\ shots' = shots /\ excused' = excused
      /\ got \subseteq got' /\ avail' = IF ptp.last THEN None ELSE avail
      /\ ptp' = [ptp EXCEPT !.pc = "idle"] /\ ptp'.pc = "idle" /\ ptp.pc = "send"
  BY DEF HostTypes
<1>e. target = {} => avail = None
  BY DEF Available
<1>t. target # {} => /\ avail = ptp.type /\ avail # None /\ ptp.src = Source(avail)
                     /\ (ptp.last => got' = got \cup {<<ptp.src, ptp.type>>} /\ part' = <<>>)
                     /\ (~ptp.last => got' = got /\ part' = part /\ avail = "jpg")
  BY DEF Requested, CapTypes, Types
<1>h. target # {} /\ ptp.last => Held(ptp.type, ptp.src) /\ Whole(ptp.type, ptp.src)
  <2> SUFFICES ASSUME target # {}, ptp.last PROVE Held(avail, Source(avail)) /\ Whole(avail, Source(avail))
    BY <1>t
  <2>1. CASE avail = "jpg"
    <3>1. part = [i \in 1 .. NChunks |-> <<chunks, i - 1>>]
      BY <1>u, <2>1 DEF Requested
    <3> QED BY <2>1, <3>1 DEF Held, Whole, Source, Available
  <2>2. CASE avail \in {"dng", "raw"}
    <3>1. part = <<<<shots, NChunks - 1>>>> /\ spy.pc = avail /\ spy.shot = shots
      BY <1>u, <2>2 DEF Requested, Available, Newest
    <3> QED BY <2>2, <3>1 DEF Held, Whole, Source
  <2> QED BY <1>t, <2>1, <2>2 DEF CapTypes, Types
<1>k. torn' = {} /\ (part' = <<>> \/ part' = part)
  <2>1. CASE target = {}
    BY <1>e, <1>u, <2>1 DEF HostTypes
  <2>2. CASE target # {} /\ ptp.last
    BY <1>h, <2>2 DEF HostTypes
  <2>3. CASE ~ptp.last
    BY <2>3 DEF HostTypes
  <2> QED BY <2>1, <2>2, <2>3
<1>g. /\ avail' # None => avail' = avail
      /\ avail # None /\ avail' = None => <<Source(avail), avail>> \in got'
      /\ avail' # None => ~ptp.last
  <2>1. avail # None => target # {}
    BY <1>e
  <2> QED BY <1>u, <1>t, <2>1
<1>v. UNCHANGED <<pending, fileNum, expect, ignore, ignored, hook, open, card>>
  BY DEF Sent
<1> HIDE DEF Sent
<1> USE <1>q, <1>u, <1>v
<1>1. CapTypes'
  BY <1>g DEF CapTypes
<1>2. TaskTypes' BY DEF TaskTypes
<1>3. HostTypes'
  <2>1. part' \in Seq(Nat \X Int)
    <3>1. <<>> \in Seq(Nat \X Int)
      OBVIOUS
    <3> QED BY <1>k, <3>1 DEF HostTypes
  <2>2. ptp' \in [pc : {"idle", "send"}, type : Types \cup {None}, src : Nat, last : BOOLEAN]
    BY DEF HostTypes
  <2> QED BY <1>k, <2>1, <2>2 DEF HostTypes
<1>4. Wanted' BY DEF Wanted
<1>5. Newest' BY DEF Newest
<1>6. Ignoring' BY DEF Ignoring, NoFile, OneFile, InRaw, Shots
<1>7. Foremost' BY DEF Foremost, NoFile, OneFile, First, Later, InRaw, Shots
<1>8. Targeted' BY DEF Targeted, NoFile, OneFile, First, Later, InRaw, Shots
<1>9. Available'
  BY <1>g DEF Available, None
<1>10. Requested'
  <2> SUFFICES ASSUME target # {}
               PROVE  /\ part' # <<>> => avail' = "jpg"
                      /\ avail' = "jpg" => /\ part' = [i \in 1 .. chunk |-> <<chunks, i - 1>>]
                                           /\ chunk < NChunks
    BY DEF Requested, None
  <2>1. CASE ptp.last
    BY <1>t, <2>1 DEF None
  <2>2. CASE ~ptp.last
    BY <1>t, <2>2 DEF Requested, CapTypes
  <2> QED BY <2>1, <2>2
<1>11. GivenUp' BY DEF GivenUp, InProgress, NoFile, OneFile, First, Later, InRaw, Shots
<1>12. QueueGot' BY DEF QueueGot, Got
<1>13. WriterGot'
  <2> SUFFICES ASSUME fwt.pc # "idle", fwt.shot \notin excused
               PROVE  /\ \A t \in want[fwt.shot] \ {"jpg"} : <<fwt.shot, t>> \in got'
                      /\ (fwt.pc = "hook" /\ avail' = "jpg") \/ \A t \in want[fwt.shot] : <<fwt.shot, t>> \in got'
    BY DEF WriterGot, Got
  <2>1. Got(fwt.shot, want[fwt.shot] \ {"jpg"})
    BY DEF WriterGot
  <2>2. CASE fwt.pc = "hook" /\ avail = "jpg"
    <3>1. avail' = "jpg" \/ <<fwt.shot, "jpg">> \in got'
      BY <1>g, <2>2 DEF Available, Source, None
    <3> QED BY <2>1, <2>2, <3>1 DEF Got
  <2>3. CASE Got(fwt.shot, want[fwt.shot])
    BY <2>1, <2>3 DEF Got
  <2> QED BY <2>1, <2>2, <2>3 DEF WriterGot
<1>14. HookGot'
  <2> SUFFICES ASSUME InRaw, shots \notin excused
               PROVE  /\ avail' = spy.pc \/ <<shots, spy.pc>> \in got'
                      /\ spy.pc = "raw" => \A t \in want[shots] \cap {"dng"} : <<shots, t>> \in got'
                      /\ spy.pc = "dng" => "dng" \in want[shots]
    BY DEF HookGot, InRaw, Got
  <2>1. /\ avail = spy.pc \/ <<shots, spy.pc>> \in got
        /\ spy.pc = "raw" => Got(shots, want[shots] \cap {"dng"})
        /\ spy.pc = "dng" => "dng" \in want[shots]
    BY DEF HookGot
  <2>2. avail = spy.pc => avail' = avail \/ <<shots, spy.pc>> \in got'
    BY <1>g DEF InRaw, Source, None, Newest
  <2> QED BY <2>1, <2>2 DEF Got
<1>15. Stored'
  <2>1. \A s \in 1 .. shots : InProgress(s) => InProgress(s)'
    BY DEF InProgress
  <2> QED BY <2>1, StoredKept
<1>16. NotOnCard' BY DEF NotOnCard
<1> QED BY <1>1, <1>2, <1>3, <1>4, <1>5, <1>6, <1>7, <1>8, <1>9, <1>10, <1>11, <1>12, <1>13,
       <1>14, <1>15, <1>16 DEF CapInv

-----------------------------------------------------------------------------
(* The invariant *)

LEMMA CapInit == Init => CapInv
<1> SUFFICES ASSUME Init PROVE CapInv
  OBVIOUS
<1> USE ShotsAssumption DEF Init
<1>1. queue \in Seq(Nat) /\ Members(queue) = {} /\ Behind(queue) = {}
  BY DEF Members, Behind
<1>2. want \in [Shots -> SUBSET Types] /\ \A s \in Shots : want[s] = {}
  OBVIOUS
<1> USE <1>1, <1>2
<1>3. CapTypes
  <2>1. target \in SUBSET Types /\ pending \in SUBSET Types /\ avail \in Types \cup {None}
    OBVIOUS
  <2>2. fileNum \in 0 .. shots /\ chunk \in 0 .. NChunks /\ chunks \in 0 .. shots
    OBVIOUS
  <2>3. expect \in 0 .. 1
    OBVIOUS
  <2> QED BY <2>1, <2>2, <2>3 DEF CapTypes
<1>4. TaskTypes
  BY DEF TaskTypes
<1>5. HostTypes
  <2>1. ptp \in [pc : {"idle", "send"}, type : Types \cup {None}, src : Nat, last : BOOLEAN]
    BY DEF None, Types
  <2>2. part \in Seq(Nat \X Int)
    OBVIOUS
  <2>3. open \in 0 .. shots /\ card \subseteq 1 .. shots
    OBVIOUS
  <2> QED BY <2>1, <2>2, <2>3 DEF HostTypes
<1>6. Wanted /\ Newest /\ Foremost /\ Targeted
  BY DEF Wanted, Newest, Foremost, Targeted
<1>7. Ignoring
  BY DEF Ignoring, NoFile, OneFile, InRaw
<1>8. Available /\ Requested
  BY DEF Available, Requested, None
<1>9. GivenUp /\ QueueGot /\ WriterGot /\ HookGot
  BY DEF GivenUp, InProgress, QueueGot, WriterGot, HookGot, InRaw
<1>10. Stored /\ NotOnCard
  BY DEF Stored, NotOnCard
<1> QED BY <1>3, <1>4, <1>5, <1>6, <1>7, <1>8, <1>9, <1>10 DEF CapInv

LEMMA CapStutter == CapInv /\ UNCHANGED vars => CapInv'
<1> SUFFICES ASSUME CapInv, UNCHANGED vars PROVE CapInv'
  OBVIOUS
<1> USE DEF CapInv, vars, capVars, fileVars, taskVars, hostVars, cardVars
<1>1. CapTypes' /\ TaskTypes' /\ HostTypes'
  BY DEF CapTypes, TaskTypes, HostTypes
<1>2. Wanted' /\ Newest' /\ Ignoring'
  BY DEF Wanted, Newest, Ignoring, NoFile, OneFile, InRaw
<1>3. Foremost' /\ Targeted' /\ Available'
  BY DEF Foremost, Later, First, Targeted, OneFile, NoFile, InRaw, Available
<1>4. Requested'
  BY DEF Requested, Source
<1>5. GivenUp'
  BY DEF GivenUp, InProgress, First
<1>6. QueueGot' /\ WriterGot' /\ HookGot'
  BY DEF QueueGot, WriterGot, HookGot, Got, InRaw
<1>7. Stored' /\ NotOnCard'
  BY DEF Stored, InProgress, Got, NotOnCard
<1> QED BY <1>1, <1>2, <1>3, <1>4, <1>5, <1>6, <1>7

LEMMA CapStep == Settled /\ CapInv /\ [Next]_vars => CapInv'
<1> SUFFICES ASSUME Settled, CapInv, [Next]_vars PROVE CapInv'
  OBVIOUS
<1>1. CASE Script
  BY <1>1, SetTargetKeeps, ClearTargetKeeps, HookSetKeeps, HookContinueKeeps, HooksResetKeeps DEF Script
<1>2. CASE Spytask
  BY <1>2, ShootKeeps, HookDoneKeeps, ProcessKeeps, UnblockKeeps, UnblockTimeoutKeeps, RawTakenKeeps,
     RawTimeoutKeeps DEF Spytask
<1>3. CASE FileWriter
  BY <1>3, FileHookKeeps, FileTakenKeeps, FileTimeoutKeeps, FileOpenKeeps, FileCloseKeeps DEF FileWriter
<1>4. CASE Host
  BY <1>4, GetDataKeeps, GetOtherKeeps, SentKeeps DEF Host
<1>5. CASE UNCHANGED vars
  BY <1>5, CapStutter
<1> QED BY <1>1, <1>2, <1>3, <1>4, <1>5 DEF Next

LEMMA CapAlways == Settled => (Spec => []CapInv)
<1> SUFFICES ASSUME Settled PROVE Spec => []CapInv
  OBVIOUS
<1>1. CapInv /\ [Next]_vars => CapInv'
  BY CapStep
<1> QED BY <1>1, CapInit, PTL DEF Spec

\* The tasks are at their places and their shots are shots that were taken.
THEOREM CaptureTypeCorrect == Settled => (Spec => []TypeOK)
<1>1. CapInv => TypeOK
  <2> SUFFICES ASSUME CapInv PROVE TypeOK
    OBVIOUS
  <2>1. DOMAIN queue = 1 .. Len(queue) /\ shots \in 0 .. MaxShots
    BY DEF CapInv, TaskTypes
  <2>2. \A i \in DOMAIN queue : queue[i] \in Shots
    <3>1. \A i \in DOMAIN queue : queue[i] \in 1 .. shots
      BY <2>1 DEF CapInv, TaskTypes, Members
    <3> QED BY <2>1, <3>1, ShotsAssumption DEF Shots
  <2>3. card \subseteq Shots
    BY <2>1, ShotsAssumption DEF CapInv, HostTypes, Shots
  <2>4. torn \subseteq got /\ open \in 0 .. shots
    BY DEF CapInv, HostTypes
  <2> QED BY <2>1, <2>2, <2>3, <2>4 DEF CapInv, CapTypes, TaskTypes, TypeOK
<1> QED BY <1>1, CapAlways, PTL

\* A shot that spytask and the file writer are through with is on the card, or the host
\* has all that was wanted of it (raw_process, filewrite_main_hook, fwt_close).
THEOREM CaptureLosesNothing == Settled => (Spec => []NothingLost)
<1>1. CapInv => NothingLost
  <2> SUFFICES ASSUME CapInv, NEW s \in 1 .. shots, ~InProgress(s), s \notin excused
               PROVE  s \in card \/ (want[s] # {} /\ \A t \in want[s] : <<s, t>> \in got)
    BY InFlightIs DEF CapInv, NothingLost, Finished
  <2> QED BY DEF CapInv, Stored, Got
<1> QED BY <1>1, CapAlways, PTL

\* remotecap_get_data_chunk and remotecap_send_complete: what the host takes as complete
\* is whole and was held while it was sent.
THEOREM TransfersWhole == Settled => (Spec => []NeverTorn)
<1>1. CapInv => NeverTorn
  BY DEF CapInv, HostTypes, NeverTorn
<1> QED BY <1>1, CapAlways, PTL

\* remotecap_raw_available: target_file_num is the number of the shot whose data is there.
THEOREM NumbersRight == Settled => (Spec => []NumberRight)
<1>1. CapInv => NumberRight
  <2> SUFFICES ASSUME CapInv, avail \in target PROVE fileNum = Source(avail)
    BY DEF NumberRight
  <2>1. avail \in Types
    BY DEF CapInv, CapTypes
  <2>2. CASE avail = "jpg"
    <3>1. fwt.pc = "hook" /\ chunks = fwt.shot /\ target # {}
      BY <2>2 DEF CapInv, Available
    <3>2. First(fileNum)
      BY <3>1 DEF CapInv, Targeted, NoFile
    <3> QED BY <2>2, <3>1, <3>2 DEF First, Source
  <2>3. CASE avail \in {"dng", "raw"}
    BY <2>3 DEF CapInv, Available, Newest, Ignoring, InRaw, Source
  <2> QED BY <2>1, <2>2, <2>3 DEF Types
<1> QED BY <1>1, CapAlways, PTL

\* fwt_open and fwt_close agree, for every file, on whether it is ignored.
THEOREM FilesClosedAsOpened == Settled => (Spec => []ClosedAsOpened)
<1>1. CapInv => ClosedAsOpened
  BY DEF CapInv, Ignoring, ClosedAsOpened
<1> QED BY <1>1, CapAlways, PTL

\* A picture whose file went to the host does not reach the card too.
THEOREM CapturedNotOnCard == Settled => (Spec => []NotOnCard)
<1>1. CapInv => NotOnCard
  BY DEF CapInv
<1> QED BY <1>1, CapAlways, PTL

-----------------------------------------------------------------------------
(* Each type of a shot once: this needs no Settled, and holds of every target,   *)
(* cancel and timeout.                                                        *)

\* The shots that the file writer has not got to.
Ahead == Members(queue) \cup (IF spy.pc = "idle" THEN {} ELSE {spy.shot})

Distinct(qu) == \A i, j \in 1 .. Len(qu) : qu[i] = qu[j] => i = j

SpyPlaces == {"idle", "hook", "process", "block", "dng", "raw"}

OnceTypes ==
    /\ shots \in Nat /\ avail \in Types \cup {None}
    /\ spy \in [pc : SpyPlaces, shot : Nat] /\ queue \in Seq(Nat)
    /\ ptp \in [pc : {"idle", "send"}, type : Types \cup {None}, src : Nat, last : BOOLEAN]
    /\ ptp.pc = "send" => ptp.type # None
    /\ chunks \in Nat

\* A shot is in one place, and only shots that were taken are in any.
OnceOrder ==
    /\ Distinct(queue) /\ \A s \in Members(queue) : s \in Nat /\ s <= shots
    /\ spy.pc # "idle" => spy.shot = shots /\ shots \notin Members(queue)
    /\ spy.shot <= shots /\ chunks <= shots /\ ptp.src <= shots

\* What the host was given or is being sent is of a shot that was taken, and a file is
\* of one that the file writer has got to.
OncePast ==
    /\ \A s, t : <<s, t>> \in got => s \in Nat /\ s <= shots /\ (t = "jpg" => s \notin Ahead)
    /\ ptp.pc = "send" /\ ptp.type = "jpg" => ptp.src \notin Ahead

\* Raw data is available only where spytask waits for it to be taken.
OnceHeld ==
    /\ avail = "jpg" => chunks \notin Ahead
    /\ avail \in {"dng", "raw"} => spy.pc = avail

\* What spytask has yet to offer has not been given.
OnceToCome ==
    /\ spy.pc \in {"hook", "process", "block"} => \A t : <<shots, t>> \notin got
    /\ spy.pc = "dng" => <<shots, "raw">> \notin got

OnceInv == OnceTypes /\ OnceOrder /\ OncePast /\ OnceHeld /\ OnceToCome /\ OfferedOnce

LEMMA DistinctAppend ==
    ASSUME NEW qu \in Seq(Nat), Distinct(qu), NEW x \in Nat, x \notin Members(qu)
    PROVE  Distinct(Append(qu, x))
<1>1. /\ Len(Append(qu, x)) = Len(qu) + 1 /\ Len(qu) \in Nat
      /\ \A i \in 1 .. Len(qu) : Append(qu, x)[i] = qu[i]
      /\ Append(qu, x)[Len(qu) + 1] = x
  BY AppendProperties
<1>2. \A i \in 1 .. Len(qu) : qu[i] # x
  BY DEF Members
<1> SUFFICES ASSUME NEW i \in 1 .. Len(qu) + 1, NEW j \in 1 .. Len(qu) + 1,
                    Append(qu, x)[i] = Append(qu, x)[j]
             PROVE  i = j
  BY <1>1 DEF Distinct
<1>3. CASE i \in 1 .. Len(qu) /\ j \in 1 .. Len(qu)
  BY <1>1, <1>3 DEF Distinct
<1>4. CASE i = Len(qu) + 1 \/ j = Len(qu) + 1
  BY <1>1, <1>2, <1>4
<1> QED BY <1>1, <1>3, <1>4

LEMMA DistinctTail ==
    ASSUME NEW qu \in Seq(Nat), Distinct(qu), qu # <<>>
    PROVE  /\ Distinct(Tail(qu)) /\ Tail(qu) \in Seq(Nat) /\ Head(qu) \in Members(qu)
           /\ Members(Tail(qu)) \subseteq Members(qu) /\ Head(qu) \notin Members(Tail(qu))
<1>1. /\ Tail(qu) \in Seq(Nat) /\ Len(Tail(qu)) = Len(qu) - 1 /\ Len(qu) \in Nat \ {0}
      /\ \A i \in 1 .. Len(qu) - 1 : Tail(qu)[i] = qu[i + 1]
      /\ Head(qu) = qu[1]
  BY HeadTailProperties
<1>2. \A i \in 1 .. Len(qu) - 1 : i + 1 \in 1 .. Len(qu) /\ i + 1 # 1
  BY <1>1
<1>3. Distinct(Tail(qu))
  <2> SUFFICES ASSUME NEW i \in 1 .. Len(qu) - 1, NEW j \in 1 .. Len(qu) - 1, qu[i + 1] = qu[j + 1]
               PROVE  i = j
    BY <1>1 DEF Distinct
  <2>1. i + 1 = j + 1
    BY <1>2 DEF Distinct
  <2> QED BY <2>1
<1>4. Head(qu) \in Members(qu) /\ Members(Tail(qu)) \subseteq Members(qu)
  BY <1>1, <1>2 DEF Members
<1>5. \A i \in 1 .. Len(qu) - 1 : Tail(qu)[i] # Head(qu)
  BY <1>1, <1>2 DEF Distinct
<1> QED BY <1>1, <1>3, <1>4, <1>5 DEF Members

LEMMA OnceStart == Init => OnceInv
<1> SUFFICES ASSUME Init PROVE OnceInv
  OBVIOUS
<1>1. queue = <<>> /\ Members(queue) = {} /\ Distinct(queue)
  BY DEF Init, Members, Distinct
<1>2. OnceTypes
  BY <1>1 DEF Init, OnceTypes, SpyPlaces, None, Types
<1>3. OnceOrder
  BY <1>1 DEF Init, OnceOrder
<1>4. OncePast /\ OnceHeld /\ OnceToCome /\ OfferedOnce
  BY DEF Init, OncePast, OnceHeld, OnceToCome, OfferedOnce, None
<1> QED BY <1>2, <1>3, <1>4 DEF OnceInv

\* Steps that move no shot: what is available stays or goes.
LEMMA OnceStill ==
    ASSUME OnceInv, UNCHANGED <<shots, spy, queue, ptp, got>>, chunks' \in {chunks, 0},
           avail' \in {avail, None}, avail' = "jpg" => chunks' = chunks
    PROVE  OnceInv'
<1> USE DEF OnceInv
<1>1. Ahead' = Ahead
  BY DEF Ahead
<1>2. OnceTypes'
  BY DEF OnceTypes
<1>3. OnceOrder'
  BY DEF OnceTypes, OnceOrder
<1>4. OncePast' /\ OnceToCome'
  BY <1>1 DEF OncePast, OnceToCome
<1>5. OnceHeld'
  BY <1>1 DEF OnceHeld, None
<1>6. OfferedOnce'
  BY DEF OfferedOnce, Source
<1> QED BY <1>2, <1>3, <1>4, <1>5, <1>6

\* The camera gets to the next shot.
LEMMA OnceShoot == ASSUME OnceInv, Shoot PROVE OnceInv'
<1> USE DEF OnceInv
<1>0. /\ shots \in Nat /\ shots' = shots + 1 /\ spy.pc = "idle" /\ spy'.shot = shots + 1
      /\ spy'.pc \in {"hook", "process"} /\ spy' \in [pc : SpyPlaces, shot : Nat]
      /\ UNCHANGED <<avail, queue, ptp, got, chunks>>
  BY DEF Shoot, OnceTypes, SpyPlaces, capVars, fileVars, hostVars
<1>1. Ahead' = Ahead \cup {shots + 1}
  BY <1>0 DEF Ahead
<1>2. OnceTypes'
  BY <1>0 DEF OnceTypes
<1>3. OnceOrder'
  <2>1. \A s \in Members(queue) : s \in Nat /\ s <= shots + 1 /\ s # shots + 1
    BY <1>0 DEF OnceOrder
  <2>2. spy'.shot <= shots' /\ chunks' <= shots' /\ ptp'.src <= shots'
    BY <1>0 DEF OnceTypes, OnceOrder
  <2> QED BY <1>0, <2>1, <2>2 DEF OnceOrder
<1>4. OncePast'
  <2>1. \A s, t : <<s, t>> \in got => s \in Nat /\ s <= shots + 1 /\ s # shots + 1
    BY <1>0 DEF OncePast
  <2>2. ptp.src # shots + 1
    BY <1>0 DEF OnceTypes, OnceOrder
  <2> QED BY <1>0, <1>1, <2>1, <2>2 DEF OncePast
<1>5. avail \notin {"dng", "raw"} /\ chunks # shots + 1
  BY <1>0 DEF OnceHeld, OnceTypes, OnceOrder
<1>6. OnceHeld'
  BY <1>0, <1>1, <1>5 DEF OnceHeld
<1>7. OnceToCome'
  <2>1. \A t : <<shots + 1, t>> \notin got
    BY <1>0 DEF OncePast
  <2> QED BY <1>0, <2>1 DEF OnceToCome
<1>8. OfferedOnce'
  BY <1>0, <1>5 DEF OfferedOnce, Source, OnceTypes, Types
<1> QED BY <1>2, <1>3, <1>4, <1>6, <1>7, <1>8

\* spytask goes on with its shot, perhaps to offer a type that was still to come.
LEMMA OnceGoesOn ==
    ASSUME OnceInv, UNCHANGED <<shots, queue, ptp, got, chunks>>, spy.pc # "idle",
           NEW p \in {"process", "block", "dng", "raw"}, spy' = [spy EXCEPT !.pc = p],
           \/ p \in {"process", "block"} /\ spy.pc \in {"hook", "process"} /\ avail' = avail
           \/ p \in {"dng", "raw"} /\ spy.pc = "block" /\ avail' = p
           \/ p = "raw" /\ spy.pc = "dng" /\ avail' = p
    PROVE  OnceInv'
<1> USE DEF OnceInv
<1>0. /\ spy'.pc = p /\ spy'.shot = spy.shot /\ spy.shot = shots
      /\ spy' \in [pc : SpyPlaces, shot : Nat]
  BY DEF OnceTypes, OnceOrder, SpyPlaces
<1>1. Ahead' = Ahead
  BY <1>0 DEF Ahead
<1>2. OnceTypes'
  BY <1>0 DEF OnceTypes, Types
<1>3. OnceOrder'
  BY <1>0 DEF OnceOrder
<1>4. OncePast'
  BY <1>1 DEF OncePast
<1>5. OnceHeld'
  BY <1>0, <1>1 DEF OnceHeld
<1>6. OnceToCome'
  BY <1>0 DEF OnceToCome
<1>7. OfferedOnce'
  <2>1. CASE p \in {"process", "block"}
    <3>1. avail \notin {"dng", "raw"} /\ avail' = avail
      BY <2>1 DEF OnceHeld
    <3> QED BY <3>1 DEF OfferedOnce, Source, OnceTypes, Types
  <2>2. CASE p \in {"dng", "raw"}
    <3>1. avail' = p /\ <<shots, p>> \notin got
      BY <2>2 DEF OnceToCome
    <3> QED BY <1>0, <2>2, <3>1 DEF OfferedOnce, Source
  <2> QED BY <2>1, <2>2
<1> QED BY <1>2, <1>3, <1>4, <1>5, <1>6, <1>7

\* spytask lets the camera develop its shot.
LEMMA OnceRelease ==
    ASSUME OnceInv, UNCHANGED <<shots, ptp, got, chunks>>, spy.pc # "idle", Release,
           avail' = None \/ (avail' = avail /\ avail # spy.pc)
    PROVE  OnceInv'
<1> USE DEF OnceInv
<1>0. /\ spy'.pc = "idle" /\ spy'.shot = spy.shot /\ spy.shot = shots /\ shots \in Nat
      /\ spy' \in [pc : SpyPlaces, shot : Nat] /\ shots \notin Members(queue)
      /\ queue \in Seq(Nat) /\ Distinct(queue) /\ queue' = Append(queue, shots)
  BY DEF Release, OnceTypes, OnceOrder, SpyPlaces
<1>q. queue' \in Seq(Nat) /\ Members(queue') = Members(queue) \cup {shots} /\ Distinct(queue')
  BY <1>0, QueueAppend, DistinctAppend
<1>1. Ahead' = Ahead
  BY <1>0, <1>q DEF Ahead
<1>2. OnceTypes'
  BY <1>0, <1>q DEF OnceTypes
<1>3. OnceOrder'
  BY <1>0, <1>q DEF OnceOrder
<1>4. OncePast'
  BY <1>1 DEF OncePast
<1>5. avail' \notin {"dng", "raw"}
  BY DEF OnceHeld, None
<1>6. OnceHeld' /\ OnceToCome'
  BY <1>0, <1>1, <1>5 DEF OnceHeld, OnceToCome, None
<1>7. OfferedOnce'
  BY <1>5 DEF OfferedOnce, Source, OnceTypes, Types
<1> QED BY <1>2, <1>3, <1>4, <1>6, <1>7

\* filewrite_main_hook: the file writer gets to a shot, and makes its file available.
LEMMA OnceFileHook == ASSUME OnceInv, FileHook PROVE OnceInv'
<1> USE DEF OnceInv
<1>0. /\ UNCHANGED <<shots, spy, ptp, got>> /\ queue' = Tail(queue)
      /\ \/ avail' = "jpg" /\ chunks' = Head(queue)
         \/ avail' = avail /\ chunks' = chunks
  BY DEF FileHook, hostVars
<1>q. /\ queue' \in Seq(Nat) /\ Distinct(queue') /\ Members(queue') \subseteq Members(queue)
      /\ Head(queue) \in Members(queue) /\ Head(queue) \notin Members(queue')
  BY DistinctTail DEF FileHook, OnceTypes, OnceOrder
<1>h. Head(queue) \in Nat /\ Head(queue) <= shots /\ (spy.pc # "idle" => Head(queue) # spy.shot)
  BY <1>q DEF OnceOrder
<1>1. Ahead' \subseteq Ahead /\ Head(queue) \notin Ahead' /\ Head(queue) \in Ahead
  BY <1>0, <1>q, <1>h DEF Ahead
<1>2. OnceTypes'
  BY <1>0, <1>q, <1>h DEF OnceTypes, Types
<1>3. OnceOrder'
  BY <1>0, <1>q, <1>h DEF OnceOrder
<1>4. OncePast' /\ OnceToCome'
  BY <1>0, <1>1 DEF OncePast, OnceToCome
<1>5. OnceHeld'
  BY <1>0, <1>1 DEF OnceHeld
<1>6. OfferedOnce'
  <2>1. <<Head(queue), "jpg">> \notin got
    BY <1>1 DEF OncePast
  <2> QED BY <1>0, <2>1 DEF OfferedOnce, Source
<1> QED BY <1>2, <1>3, <1>4, <1>5, <1>6

\* The PTP task remembers whose data it sends.
LEMMA OnceGetData == ASSUME OnceInv, GetData PROVE OnceInv'
<1> USE DEF OnceInv
<1> DEFINE n == IF avail = "jpg" THEN chunk ELSE NChunks - 1
           end == n >= NChunks - 1
<1>0. /\ UNCHANGED <<shots, avail, spy, queue, chunks, got>> /\ avail # None
      /\ ptp' = [pc |-> "send", type |-> avail, src |-> Source(avail), last |-> end]
  BY DEF GetData, capVars, taskVars
<1> HIDE DEF end
<1>1. /\ ptp'.pc = "send" /\ ptp'.type = avail /\ ptp'.src = Source(avail) /\ ptp'.last = end
      /\ end \in BOOLEAN
  BY ONLY <1>0 DEF end
<1>2. Source(avail) \in Nat /\ Source(avail) <= shots
  BY DEF Source, OnceTypes, OnceOrder
<1>3. Ahead' = Ahead
  BY <1>0 DEF Ahead
<1>4. OnceTypes'
  BY <1>0, <1>1, <1>2 DEF OnceTypes
<1>5. OnceOrder'
  BY <1>0, <1>1, <1>2 DEF OnceOrder
<1>6. OncePast'
  BY <1>0, <1>1, <1>3 DEF OncePast, OnceHeld, Source
<1>7. OnceHeld' /\ OnceToCome'
  BY <1>0, <1>3 DEF OnceHeld, OnceToCome
<1>8. OfferedOnce'
  BY <1>0 DEF OfferedOnce, Source
<1> QED BY <1>4, <1>5, <1>6, <1>7, <1>8

\* remotecap_send_complete: what was taken is not available any more.
LEMMA OnceSent == ASSUME OnceInv, Sent PROVE OnceInv'
<1> USE DEF OnceInv
<1>0. /\ UNCHANGED <<shots, spy, queue, chunks>>
      /\ avail' = IF ptp.last THEN None ELSE avail
      /\ ptp.pc = "send" /\ ptp' = [ptp EXCEPT !.pc = "idle"]
      /\ \/ got' = got
         \/ got' = got \cup {<<ptp.src, ptp.type>>} /\ avail = ptp.type /\ ptp.last
  BY DEF Sent, SendComplete, fileVars, taskVars
<1>1. ptp'.pc = "idle" /\ ptp'.src = ptp.src /\ ptp.src \in Nat /\ ptp.src <= shots
      /\ ptp' \in [pc : {"idle", "send"}, type : Types \cup {None}, src : Nat, last : BOOLEAN]
  BY <1>0 DEF OnceTypes, OnceOrder
<1>2. Ahead' = Ahead
  BY <1>0 DEF Ahead
<1>3. OnceTypes'
  BY <1>0, <1>1 DEF OnceTypes
<1>4. OnceOrder'
  BY <1>0, <1>1 DEF OnceOrder
<1>5. \A s, t : <<s, t>> \in got' =>
                   \/ <<s, t>> \in got
                   \/ s = ptp.src /\ t = ptp.type /\ avail = t /\ avail' = None
  BY <1>0
<1>6. OncePast'
  BY <1>0, <1>1, <1>2, <1>5 DEF OncePast
<1>7. OnceHeld'
  BY <1>0, <1>2 DEF OnceHeld, None
<1>8. OnceToCome'
  <2>1. CASE spy.pc \in {"hook", "process", "block"}
    <3>1. avail \notin {"dng", "raw"} /\ \A t : <<shots, t>> \notin got
      BY <2>1 DEF OnceHeld, OnceToCome
    <3>2. avail = "jpg" /\ ptp.type = "jpg" => ptp.src # shots
      BY <1>0, <2>1 DEF OncePast, OnceOrder, Ahead
    <3>3. avail = "jpg" \/ avail = None
      BY <3>1 DEF OnceTypes, Types
    <3>4. \A t : <<shots, t>> \notin got'
      <4> SUFFICES ASSUME NEW t, <<shots, t>> \in got' PROVE FALSE
        OBVIOUS
      <4>1. shots = ptp.src /\ t = ptp.type /\ avail = t
        BY <1>5, <3>1
      <4>2. ptp.type # None
        BY <1>0 DEF OnceTypes
      <4> QED BY <3>2, <3>3, <4>1, <4>2
    <3> QED BY <1>0, <2>1, <3>4 DEF OnceToCome
  <2>2. CASE spy.pc = "dng"
    <3>1. avail # "raw" /\ <<shots, "raw">> \notin got
      BY <2>2 DEF OnceHeld, OnceToCome
    <3> QED BY <1>0, <1>5, <2>2, <3>1 DEF OnceToCome
  <2> QED BY <1>0, <2>1, <2>2 DEF OnceToCome
<1>9. OfferedOnce'
  <2>1. CASE avail' = None
    BY <2>1 DEF OfferedOnce
  <2>2. CASE avail' # None
    <3>1. got' = got /\ avail' = avail
      BY <1>0, <2>2
    <3> QED BY <1>0, <2>2, <3>1 DEF OfferedOnce, Source
  <2> QED BY <2>1, <2>2
<1> QED BY <1>3, <1>4, <1>6, <1>7, <1>8, <1>9

\* Steps of the script, the file writer and the host that move no shot.
LEMMA OnceQuiet ==
    ASSUME OnceInv,
           \/ SetTarget \/ ClearTarget \/ HookSet \/ HookContinue \/ HooksReset
           \/ FileTaken \/ FileTimeout \/ FileOpen \/ FileClose \/ GetOther \/ UNCHANGED vars
    PROVE  OnceInv'
<1>1. /\ UNCHANGED <<shots, spy, queue, ptp, got>>
      /\ avail' \in {avail, None} /\ chunks' \in {chunks, 0} /\ (avail' = "jpg" => chunks' = chunks)
  <2>1. CASE SetTarget \/ HookSet \/ HookContinue \/ HooksReset \/ UNCHANGED vars
    BY <2>1 DEF SetTarget, HookSet, HookContinue, HooksReset, vars, capVars, fileVars, taskVars, hostVars
  <2>2. CASE ClearTarget \/ GetOther
    BY <2>2 DEF ClearTarget, GetOther, Reset, fileVars, taskVars, hostVars
  <2>3. CASE FileTaken \/ FileTimeout
    BY <2>3 DEF FileTaken, FileTimeout, Reset, None, capVars, hostVars
  <2>4. CASE FileOpen
    BY <2>4 DEF FileOpen, capVars, hostVars
  <2>5. CASE FileClose
    BY <2>5 DEF FileClose, hostVars
  <2> QED BY <2>1, <2>2, <2>3, <2>4, <2>5
<1> QED BY <1>1, OnceStill

\* remotecap_wait offers what is still to come, or the hook is over.
LEMMA OnceOffer ==
    ASSUME OnceInv, NEW types, Offer(types), UNCHANGED <<shots, ptp, got, chunks>>,
           avail # spy.pc,
           \/ spy.pc = "block" /\ types \subseteq {"dng", "raw"}
           \/ spy.pc = "dng" /\ types \subseteq {"raw"}
           \/ spy.pc = "raw" /\ types = {}
    PROVE  OnceInv'
<1>1. CASE types = {}
  <2>1. Release /\ avail' = avail /\ spy.pc # "idle"
    BY <1>1 DEF Offer
  <2> QED BY <2>1, OnceRelease
<1>2. CASE types # {}
  <2>1. PICK p \in {"dng", "raw"} : /\ avail' = p /\ spy' = [spy EXCEPT !.pc = p] /\ queue' = queue
                                    /\ p = "dng" => "dng" \in types
    BY <1>2 DEF Offer
  <2>2. (spy.pc = "block" \/ (spy.pc = "dng" /\ p = "raw")) /\ spy.pc # "idle"
    BY <1>2, <2>1
  <2> QED BY <2>1, <2>2, OnceGoesOn
<1> QED BY <1>1, <1>2

LEMMA OnceStep == OnceInv /\ [Next]_vars => OnceInv'
<1> SUFFICES ASSUME OnceInv, [Next]_vars PROVE OnceInv'
  OBVIOUS
<1>0. avail \in Types \cup {None}
  BY DEF OnceInv, OnceTypes
<1>1. CASE HookDone
  <2>1. /\ UNCHANGED <<shots, avail, queue, ptp, got, chunks>> /\ spy.pc = "hook"
        /\ spy' = [spy EXCEPT !.pc = "process"]
    BY <1>1 DEF HookDone, capVars, fileVars, hostVars
  <2> QED BY <2>1, OnceGoesOn
<1>2. CASE Process
  <2>1. /\ UNCHANGED <<shots, avail, ptp, got, chunks>> /\ spy.pc = "process"
        /\ Release \/ (spy' = [spy EXCEPT !.pc = "block"] /\ queue' = queue)
    BY <1>2 DEF Process, capVars, fileVars, hostVars
  <2>2. avail # spy.pc
    BY <1>0, <2>1 DEF Types, None
  <2> QED BY <2>1, <2>2, OnceGoesOn, OnceRelease
<1>3. CASE Unblock
  <2>1. /\ UNCHANGED <<shots, ptp, got, chunks>> /\ spy.pc = "block" /\ Offer(RawTypes(target))
    BY <1>3 DEF Unblock, hostVars
  <2>2. RawTypes(target) \subseteq {"dng", "raw"} /\ avail # spy.pc
    BY <1>0, <2>1 DEF RawTypes, Types, None
  <2> QED BY <2>1, <2>2, OnceOffer
<1>4. CASE UnblockTimeout \/ RawTimeout
  <2>1. /\ UNCHANGED <<shots, ptp, got, chunks>> /\ spy.pc \in {"block", "dng", "raw"} /\ Release
        /\ avail' = None
    BY <1>4 DEF UnblockTimeout, RawTimeout, Reset, fileVars, hostVars
  <2> QED BY <2>1, OnceRelease
<1>5. CASE RawTaken
  <2> DEFINE types == IF spy.pc = "dng" THEN target \cap {"raw"} ELSE {}
  <2>1. /\ UNCHANGED <<shots, ptp, got, chunks>> /\ spy.pc \in {"dng", "raw"} /\ avail # spy.pc
        /\ Offer(types)
    BY <1>5 DEF RawTaken, fileVars, hostVars
  <2>2. \/ spy.pc = "dng" /\ types \subseteq {"raw"}
        \/ spy.pc = "raw" /\ types = {}
    BY <2>1
  <2> HIDE DEF types
  <2> QED BY <2>1, <2>2, OnceOffer
<1>6. CASE Shoot \/ FileHook \/ GetData \/ Sent
  BY <1>6, OnceShoot, OnceFileHook, OnceGetData, OnceSent
<1>7. CASE Script \/ FileTaken \/ FileTimeout \/ FileOpen \/ FileClose \/ GetOther \/ UNCHANGED vars
  BY <1>7, OnceQuiet DEF Script
<1> QED BY <1>1, <1>2, <1>3, <1>4, <1>5, <1>6, <1>7 DEF Next, Spytask, FileWriter, Host

\* What the host has taken is never offered to it again, whatever ran out, was cancelled
\* or was set while a shot was on its way: remotecap_send_complete makes a type
\* unavailable before spytask or the file writer goes on, and neither comes back to it.
THEOREM OfferedOnlyOnce == Spec => []OfferedOnce
<1>1. OnceInv => OfferedOnce
  BY DEF OnceInv
<1> QED BY <1>1, OnceStart, OnceStep, PTL DEF Spec
=============================================================================
