---------------------------- MODULE BendTagProofs ----------------------------
(* Proofs about the recipe in the photograph, for any number of shots, when on a  *)
(* build that appends in the file writer a picture is closed before the next hook. *)
EXTENDS BendTag, TLAPS

NoBurst == TRUE \notin Burst

States == {"absent", "open", "full", "short", "whole", "broken", "discarded"}

Types ==
    /\ inject \in BOOLEAN /\ saved \in BOOLEAN /\ avail \in BOOLEAN /\ pending \in BOOLEAN
    /\ arm \in BOOLEAN
    /\ shot \in 0 .. MaxShots /\ cpc \in {"idle", "hook"}
    /\ spc \in {"service", "check", "text", "built", "complete", "clear"}
    /\ path \in 0 .. shot /\ text \in 0 .. shot /\ age \in {"new", "due", "old"}
    /\ fpc \in {"idle", "write", "segment", "append", "close"} /\ file \in 0 .. shot
    /\ card \in [Shots -> States]
    /\ tag \in [Shots -> None .. MaxShots]
    /\ bent \in SUBSET (1 .. shot) /\ excused \in SUBSET (1 .. shot)

Building == spc \in {"text", "built"}

\* The capture task waits while there is raw data, and until it is released.
Handshake ==
    /\ Building \/ spc = "complete" => cpc = "hook" /\ ~saved
    /\ spc = "clear" => saved
    /\ cpc = "hook" => shot > 0
    /\ avail /\ spc # "clear" => cpc = "hook" /\ ~saved
    /\ avail /\ spc \in {"service", "check"} => shot \notin bent

\* The pictures behind the file writer are closed, those before it are not there.
Card ==
    \A n \in Shots :
        /\ n > file => card[n] = "absent"
        /\ n < file => card[n] \in {"whole", "broken", "discarded"}
        /\ n = file => card[n] \in CASE fpc = "idle"  -> {"whole", "broken", "discarded"}
                                      [] fpc = "write" -> {"open"}
                                      [] OTHER        -> {"full", "short"}

\* While the hook is held, the file writer of a build that appends is through.
Through == inject /\ cpc = "hook" => fpc = "idle" /\ file = shot - 1

\* The job is for a bent shot, and what is built is for it.
Job ==
    /\ IF Building THEN path = shot ELSE text = path
    /\ pending \/ Building => path > 0
    /\ path > 0 => path \in bent

\* The file writer is armed for its own picture.
Armed ==
    /\ fpc # "idle" /\ arm => inject /\ path = file
    /\ fpc = "append" => inject /\ arm
    /\ fpc # "idle" => file > 0

\* The file writer is not yet behind the place where it appends to picture n.
Before(n) == n > file \/ (n = file /\ fpc \in {"write", "segment", "append"})

\* What is not yet written has no recipe, nor what a job stands for.
Untagged ==
    /\ \A n \in Shots : /\ tag[n] > Torn => tag[n] = n
                        /\ tag[n] # None => n \in bent
                        /\ inject /\ Before(n) => tag[n] = None
    /\ ~inject /\ (pending \/ Building) => tag[path] = None

\* The recipe of a bent shot is in the picture, or on its way to it.
OnItsWay ==
    inject => \A n \in bent : \/ tag[n] = n
                              \/ n \in excused
                              \/ Building /\ n = shot
                              \/ pending /\ path = n /\ Before(n) /\ (n = file => arm)

BendInv == Types /\ Handshake /\ Card /\ Through /\ Job /\ Armed /\ Untagged /\ OnItsWay

LEMMA RawHookKeeps ==
    ASSUME NoBurst, BendInv, RawHook PROVE BendInv'
<1> USE ShotsAssumption DEF BendInv, RawHook, ExposureTakesTime, NoBurst, hookVars, spyVars, jobVars, fileVars
<1>a. shot \in Nat /\ shot' = shot + 1 /\ shot' \in 0 .. MaxShots
  BY DEF Types
<1>b. 0 .. shot \subseteq 0 .. shot'
  BY <1>a
<1>c. SUBSET (1 .. shot) \subseteq SUBSET (1 .. shot')
  BY <1>a
<1>d. inject => file = shot /\ fpc = "idle"
  <2> SUFFICES ASSUME inject PROVE file = shot /\ fpc = "idle"
    OBVIOUS
  <2>1. 1 .. shot \subseteq Closed
    BY DEF Types
  <2>2. CASE shot = 0
    BY <2>2 DEF Types, Armed
  <2>3. CASE shot # 0
    <3>1. shot \in Shots /\ shot \in Closed
      BY <1>a, <2>1, <2>3 DEF Shots
    <3>2. card[shot] \notin {"absent", "open", "full", "short"}
      BY <3>1 DEF Closed, Held
    <3>3. file = shot
      BY <3>1, <3>2 DEF Card, Types
    <3> QED BY <3>1, <3>2, <3>3 DEF Card, Types
  <2> QED BY <2>2, <2>3
<1>1. Types'
  BY <1>a, <1>b, <1>c DEF Types
<1>2. Handshake' BY DEF Handshake, Types, Building
<1>3. Card' BY DEF Card
<1>4. Through'
  BY <1>a, <1>d DEF Through, Types
<1>5. Job' BY DEF Job, Types, Building, Handshake
<1>6. Armed' BY DEF Armed
<1>7. Untagged' BY DEF Untagged, Building, Before, Shots, None, Torn
<1>8. OnItsWay'
  BY DEF OnItsWay, Types, Building, Before, Job, Armed, Handshake, Shots, Through, Card, Untagged, None, Torn
<1> QED BY <1>1, <1>2, <1>3, <1>4, <1>5, <1>6, <1>7, <1>8 DEF BendInv

LEMMA RawHookDoneKeeps ==
    ASSUME NoBurst, BendInv, RawHookDone PROVE BendInv'
<1> USE ShotsAssumption DEF BendInv, RawHookDone, hookVars, spyVars, jobVars, fileVars
<1>1. Types' BY DEF Types
<1>2. Handshake' BY DEF Handshake, Building
<1>3. Card' BY DEF Card
<1>4. Through' BY DEF Through
<1>5. Job' BY DEF Job, Building
<1>6. Armed' BY DEF Armed
<1>7. Untagged' BY DEF Untagged, Building, Before, Shots, None, Torn
<1>8. OnItsWay' BY DEF OnItsWay, Building, Before, Shots, None, Torn
<1> QED BY <1>1, <1>2, <1>3, <1>4, <1>5, <1>6, <1>7, <1>8 DEF BendInv

LEMMA ServiceInjectKeeps ==
    ASSUME NoBurst, BendInv, ServiceInject PROVE BendInv'
<1> USE ShotsAssumption DEF BendInv, ServiceInject, GiveUp, hookVars, spyVars, jobVars, fileVars
<1>a. pending /\ age = "old" => pending' = FALSE /\ excused' = excused \cup ({path} \ Closed)
  OBVIOUS
<1>b. ~(pending /\ age = "old") => pending' = pending /\ excused' = excused
  OBVIOUS
<1>c. \A n \in Shots : pending /\ path = n /\ Before(n) => n \notin Closed
  BY DEF Types, Card, Before, Closed, Held, Armed
<1>1. Types' BY DEF Types, None, Torn, Shots, States, Job, Armed, Building
<1>2. Handshake' BY DEF Handshake, Building
<1>3. Card' BY DEF Card
<1>4. Through' BY DEF Through
<1>5. Job' BY DEF Job, Building
<1>6. Armed' BY DEF Armed
<1>7. Untagged' BY DEF Untagged, Building, Before, Shots, None, Torn
<1>8. OnItsWay'
  <2> SUFFICES ASSUME NEW n \in bent
               PROVE  \/ tag[n] = n
                      \/ n \in excused'
                      \/ Building' /\ n = shot
                      \/ pending' /\ path = n /\ Before(n)' /\ (n = file => arm)
    BY DEF OnItsWay
  <2>1. n \in Shots
    BY DEF Types, Shots
  <2> QED BY <1>a, <1>b, <1>c, <2>1 DEF OnItsWay, Building, Before
<1> QED BY <1>1, <1>2, <1>3, <1>4, <1>5, <1>6, <1>7, <1>8 DEF BendInv

LEMMA ServicePollKeeps ==
    ASSUME NoBurst, BendInv, ServicePoll PROVE BendInv'
<1> USE ShotsAssumption DEF BendInv, ServicePoll, GiveUp, Append, Ready, hookVars, spyVars, jobVars, fileVars
<1>a. /\ spc = "service" /\ spc' = "check" /\ text = path
      /\ pending => path \in Shots /\ path \in 1 .. shot
  BY DEF Types, Job, Building, Shots
<1>b. /\ pending' \in BOOLEAN
      /\ pending => tag' \in {tag, [tag EXCEPT ![path] = text], [tag EXCEPT ![path] = Torn]}
      /\ ~pending => tag' = tag
      /\ excused' \in {excused, excused \cup {path}, excused \cup ({path} \ Closed)}
      /\ ~pending => excused' = excused
  BY DEF Types
<1>1. Types'
  <2>1. excused' \in SUBSET (1 .. shot)
    BY <1>a, <1>b DEF Types
  <2>2. tag' \in [Shots -> None .. MaxShots]
    BY <1>a, <1>b DEF Types, None, Torn, Shots
  <2>3. card' \in [Shots -> States]
    BY DEF Types, States
  <2> QED BY <1>a, <1>b, <2>1, <2>2, <2>3 DEF Types
<1>2. Handshake' BY DEF Handshake, Building
<1>3. Card' BY DEF Card
<1>4. Through' BY DEF Through
<1>5. Job' BY DEF Job, Building
<1>6. Armed' BY DEF Armed
<1>7. Untagged'
  BY DEF Untagged, Types, Building, Before, Job, Armed, Handshake, Shots, None, Torn, Through
<1>8. OnItsWay' BY DEF OnItsWay
<1> QED BY <1>1, <1>2, <1>3, <1>4, <1>5, <1>6, <1>7, <1>8 DEF BendInv

LEMMA NoRawDataKeeps ==
    ASSUME NoBurst, BendInv, NoRawData PROVE BendInv'
<1> USE ShotsAssumption DEF BendInv, NoRawData, hookVars, spyVars, jobVars, fileVars
<1>1. Types' BY DEF Types
<1>2. Handshake' BY DEF Handshake, Building
<1>3. Card' BY DEF Card
<1>4. Through' BY DEF Through
<1>5. Job' BY DEF Job, Building
<1>6. Armed' BY DEF Armed
<1>7. Untagged' BY DEF Untagged, Building, Before, Shots, None, Torn
<1>8. OnItsWay' BY DEF OnItsWay, Building, Before, Shots, None, Torn
<1> QED BY <1>1, <1>2, <1>3, <1>4, <1>5, <1>6, <1>7, <1>8 DEF BendInv

LEMMA RawPlainKeeps ==
    ASSUME NoBurst, BendInv, RawPlain PROVE BendInv'
<1> USE ShotsAssumption DEF BendInv, RawPlain, hookVars, spyVars, jobVars, fileVars
<1>1. Types' BY DEF Types
<1>2. Handshake' BY DEF Handshake
<1>3. Card' BY DEF Card
<1>4. Through' BY DEF Through
<1>5. Job' BY DEF Job, Building
<1>6. Armed' BY DEF Armed
<1>7. Untagged' BY DEF Untagged, Building, Before, Shots, None, Torn
<1>8. OnItsWay' BY DEF OnItsWay, Building, Before, Shots, None, Torn
<1> QED BY <1>1, <1>2, <1>3, <1>4, <1>5, <1>6, <1>7, <1>8 DEF BendInv

LEMMA QueuePathKeeps ==
    ASSUME NoBurst, BendInv, QueuePath PROVE BendInv'
<1> USE ShotsAssumption DEF BendInv, QueuePath, hookVars, spyVars, jobVars, fileVars
<1>a. cpc = "hook" /\ shot \in 1 .. shot /\ shot \notin bent /\ shot \in Shots
  BY DEF Types, Handshake, Through, Shots
<1>1. Types'
  <2>1. bent' \in SUBSET (1 .. shot) /\ path' \in 0 .. shot
    BY <1>a DEF Types
  <2> QED BY <2>1 DEF Types
<1>2. Handshake' BY DEF Handshake
<1>3. Card' BY DEF Card
<1>4. Through' BY DEF Through
<1>5. Job'
  BY <1>a DEF Job, Building, Types
<1>6. Armed' BY DEF Armed, Types, Handshake, Through, Building, Job
<1>7. Untagged'
  BY <1>a DEF Untagged, Building, Before, Types
<1>8. OnItsWay'
  BY DEF OnItsWay, Types, Building, Before, Job, Armed, Handshake, Shots, Through, Card, Untagged, None, Torn
<1> QED BY <1>1, <1>2, <1>3, <1>4, <1>5, <1>6, <1>7, <1>8 DEF BendInv

LEMMA QueueTextKeeps ==
    ASSUME NoBurst, BendInv, QueueText PROVE BendInv'
<1> USE ShotsAssumption DEF BendInv, QueueText, hookVars, spyVars, jobVars, fileVars
<1>1. Types' BY DEF Types, None, Torn, Shots, States, Building
<1>2. Handshake' BY DEF Handshake, Building
<1>3. Card' BY DEF Card
<1>4. Through' BY DEF Through
<1>5. Job' BY DEF Job, Building
<1>6. Armed' BY DEF Armed
<1>7. Untagged' BY DEF Untagged, Building, Before, Shots, None, Torn
<1>8. OnItsWay' BY DEF OnItsWay, Building, Before, Shots, None, Torn
<1> QED BY <1>1, <1>2, <1>3, <1>4, <1>5, <1>6, <1>7, <1>8 DEF BendInv

LEMMA QueuePendingKeeps ==
    ASSUME NoBurst, BendInv, QueuePending PROVE BendInv'
<1> USE ShotsAssumption DEF BendInv, QueuePending, hookVars, spyVars, jobVars, fileVars
<1>1. Types' BY DEF Types
<1>2. Handshake' BY DEF Handshake, Building
<1>3. Card' BY DEF Card
<1>4. Through' BY DEF Through
<1>5. Job' BY DEF Job, Building
<1>6. Armed' BY DEF Armed
<1>7. Untagged' BY DEF Untagged, Building, Before, Shots, None, Torn
<1>8. OnItsWay'
  BY DEF OnItsWay, Types, Building, Before, Job, Armed, Handshake, Shots, Through, Card, Untagged, None, Torn
<1> QED BY <1>1, <1>2, <1>3, <1>4, <1>5, <1>6, <1>7, <1>8 DEF BendInv

LEMMA ReleaseKeeps ==
    ASSUME NoBurst, BendInv, Release PROVE BendInv'
<1> USE ShotsAssumption DEF BendInv, Release, hookVars, spyVars, jobVars, fileVars
<1>1. Types' BY DEF Types
<1>2. Handshake' BY DEF Handshake, Building
<1>3. Card' BY DEF Card
<1>4. Through' BY DEF Through
<1>5. Job' BY DEF Job, Building
<1>6. Armed' BY DEF Armed
<1>7. Untagged' BY DEF Untagged, Building, Before, Shots, None, Torn
<1>8. OnItsWay' BY DEF OnItsWay, Building, Before, Shots, None, Torn
<1> QED BY <1>1, <1>2, <1>3, <1>4, <1>5, <1>6, <1>7, <1>8 DEF BendInv

LEMMA ClearAvailKeeps ==
    ASSUME NoBurst, BendInv, ClearAvail PROVE BendInv'
<1> USE ShotsAssumption DEF BendInv, ClearAvail, hookVars, spyVars, jobVars, fileVars
<1>1. Types' BY DEF Types
<1>2. Handshake' BY DEF Handshake, Building
<1>3. Card' BY DEF Card
<1>4. Through' BY DEF Through
<1>5. Job' BY DEF Job, Building
<1>6. Armed' BY DEF Armed
<1>7. Untagged' BY DEF Untagged, Building, Before, Shots, None, Torn
<1>8. OnItsWay' BY DEF OnItsWay, Building, Before, Shots, None, Torn
<1> QED BY <1>1, <1>2, <1>3, <1>4, <1>5, <1>6, <1>7, <1>8 DEF BendInv

LEMMA TickKeeps ==
    ASSUME NoBurst, BendInv, Tick PROVE BendInv'
<1> USE ShotsAssumption DEF BendInv, Tick, hookVars, spyVars, jobVars, fileVars
<1>1. Types' BY DEF Types
<1>2. Handshake' BY DEF Handshake, Building
<1>3. Card' BY DEF Card
<1>4. Through' BY DEF Through
<1>5. Job' BY DEF Job, Building
<1>6. Armed' BY DEF Armed
<1>7. Untagged' BY DEF Untagged, Building, Before, Shots, None, Torn
<1>8. OnItsWay' BY DEF OnItsWay, Building, Before, Shots, None, Torn
<1> QED BY <1>1, <1>2, <1>3, <1>4, <1>5, <1>6, <1>7, <1>8 DEF BendInv

LEMMA FileOpenKeeps ==
    ASSUME NoBurst, BendInv, FileOpen PROVE BendInv'
<1> USE ShotsAssumption DEF BendInv, FileOpen, hookVars, spyVars, jobVars, fileVars
<1>a. file + 1 \in Shots /\ file' = file + 1 /\ file' \in 1 .. shot
  BY DEF Types, Shots
<1>1. Types' BY DEF Types, None, Torn, Shots, States, Building
<1>2. Handshake' BY DEF Handshake, Building
<1>3. Card' BY DEF Card, Types, Shots, States
<1>4. Through' BY DEF Through, Types, Handshake, Building, Card
<1>5. Job' BY DEF Job, Building
<1>6. Armed'
  <2>1. arm' => inject /\ path = file + 1
    <3>1. arm' = (inject /\ pending /\ path = file + 1)
      OBVIOUS
    <3> QED BY <3>1, Zenon
  <2>2. fpc' = "write" /\ file' > 0 /\ inject' = inject /\ path' = path
    BY <1>a
  <2> QED BY <1>a, <2>1, <2>2 DEF Armed
<1>7. Untagged'
  BY DEF Untagged, Types, Building, Before, Job, Armed, Handshake, Shots, None, Torn, Through
<1>8. OnItsWay'
  BY DEF OnItsWay, Types, Building, Before, Job, Armed, Handshake, Shots, Through, Card, Untagged, None, Torn
<1> QED BY <1>1, <1>2, <1>3, <1>4, <1>5, <1>6, <1>7, <1>8 DEF BendInv

LEMMA FileWriteKeeps ==
    ASSUME NoBurst, BendInv, FileWrite PROVE BendInv'
<1> USE ShotsAssumption DEF BendInv, FileWrite, hookVars, spyVars, jobVars, fileVars
<1>a. file \in Shots /\ file \in 1 .. shot
  BY DEF Types, Armed, Shots
<1>1. Types'
  <2>1. excused' \in SUBSET (1 .. shot)
    BY <1>a DEF Types
  <2>2. tag' \in [Shots -> None .. MaxShots]
    BY <1>a DEF Types, None, Torn, Shots
  <2>3. card' \in [Shots -> States]
    BY DEF Types, States
  <2> QED BY <1>a, <2>1, <2>2, <2>3 DEF Types
<1>2. Handshake' BY DEF Handshake, Building
<1>3. Card' BY DEF Card, Types, Shots, States
<1>4. Through' BY DEF Through
<1>5. Job' BY DEF Job, Building
<1>6. Armed' BY DEF Armed
<1>7. Untagged' BY DEF Untagged, Building, Before, Shots, None, Torn
<1>8. OnItsWay' BY DEF OnItsWay, Building, Before, Shots, None, Torn
<1> QED BY <1>1, <1>2, <1>3, <1>4, <1>5, <1>6, <1>7, <1>8 DEF BendInv

LEMMA FileDiscardKeeps ==
    ASSUME NoBurst, BendInv, FileDiscard PROVE BendInv'
<1> USE ShotsAssumption DEF BendInv, FileDiscard, hookVars, spyVars, jobVars, fileVars
<1>1. Types' BY DEF Types, None, Torn, Shots, States, Job, Armed, Building
<1>2. Handshake' BY DEF Handshake, Building
<1>3. Card' BY DEF Card, Types, Shots, States
<1>4. Through' BY DEF Through
<1>5. Job' BY DEF Job, Building
<1>6. Armed' BY DEF Armed
<1>7. Untagged' BY DEF Untagged, Building, Before, Shots, None, Torn
<1>8. OnItsWay' BY DEF OnItsWay, Building, Before, Shots, None, Torn
<1> QED BY <1>1, <1>2, <1>3, <1>4, <1>5, <1>6, <1>7, <1>8 DEF BendInv

LEMMA SegmentKeeps ==
    ASSUME NoBurst, BendInv, Segment PROVE BendInv'
<1> USE ShotsAssumption DEF BendInv, Segment, hookVars, spyVars, jobVars, fileVars
<1>1. Types' BY DEF Types
<1>2. Handshake' BY DEF Handshake, Building
<1>3. Card' BY DEF Card
<1>4. Through' BY DEF Through
<1>5. Job' BY DEF Job, Building
<1>6. Armed' BY DEF Armed
<1>7. Untagged' BY DEF Untagged, Building, Before, Shots, None, Torn
<1>8. OnItsWay' BY DEF OnItsWay, Building, Before, Shots, None, Torn
<1> QED BY <1>1, <1>2, <1>3, <1>4, <1>5, <1>6, <1>7, <1>8 DEF BendInv

LEMMA SegmentAppendKeeps ==
    ASSUME NoBurst, BendInv, SegmentAppend PROVE BendInv'
<1> USE ShotsAssumption DEF BendInv, SegmentAppend, hookVars, spyVars, jobVars, fileVars
<1>a. /\ file \in Shots /\ file \in 1 .. shot /\ path = file /\ text = file /\ inject
      /\ file \in bent /\ ~Building /\ tag[file] = None
  BY DEF Types, Armed, Through, Job, Handshake, Building, Shots, Untagged, Before
<1>1. Types'
  <2>1. excused' \in SUBSET (1 .. shot)
    BY <1>a DEF Types
  <2>2. tag' \in [Shots -> None .. MaxShots]
    <3>1. file \in None .. MaxShots /\ Torn \in None .. MaxShots
      BY <1>a DEF None, Torn, Shots
    <3>2. tag \in [Shots -> None .. MaxShots]
      BY DEF Types
    <3>3. tag' = [tag EXCEPT ![file] = file] \/ tag' = [tag EXCEPT ![file] = Torn]
      BY <1>a
    <3> QED BY ONLY <3>1, <3>2, <3>3
  <2>3. card' \in [Shots -> States]
    BY DEF Types, States
  <2> QED BY <1>a, <2>1, <2>2, <2>3 DEF Types
<1>2. Handshake' BY DEF Handshake, Building
<1>3. Card' BY DEF Card
<1>4. Through' BY DEF Through
<1>5. Job' BY DEF Job, Building
<1>6. Armed' BY DEF Armed
<1>7. Untagged'
  <2>1. tag' = [tag EXCEPT ![file] = file] \/ tag' = [tag EXCEPT ![file] = Torn]
    BY <1>a
  <2>2. fpc' = "close" /\ file' = file /\ bent' = bent
    OBVIOUS
  <2>3. ASSUME NEW n \in Shots
        PROVE  /\ tag'[n] > Torn => tag'[n] = n
               /\ tag'[n] # None => n \in bent
               /\ Before(n)' => tag'[n] = None
    BY <1>a, <2>1, <2>2 DEF Untagged, Types, Before, Torn
  <2> QED BY <1>a, <2>2, <2>3 DEF Untagged
<1>8. OnItsWay'
  <2> SUFFICES ASSUME NEW n \in bent
               PROVE  \/ tag'[n] = n
                      \/ n \in excused'
                      \/ Building' /\ n = shot
                      \/ pending' /\ path = n /\ Before(n)' /\ (n = file => arm')
    BY DEF OnItsWay
  <2>1. n \in Shots
    BY DEF Types, Shots
  <2>2. CASE n = file
    BY <1>a, <2>1, <2>2 DEF Types
  <2>3. CASE n # file
    <3>1. tag'[n] = tag[n] /\ (n \in excused => n \in excused')
      BY <2>1, <2>3 DEF Types
    <3> QED BY <1>a, <2>3, <3>1 DEF OnItsWay
  <2> QED BY <2>2, <2>3
<1> QED BY <1>1, <1>2, <1>3, <1>4, <1>5, <1>6, <1>7, <1>8 DEF BendInv

LEMMA FileCloseKeeps ==
    ASSUME NoBurst, BendInv, FileClose PROVE BendInv'
<1> USE ShotsAssumption DEF BendInv, FileClose, hookVars, spyVars, jobVars, fileVars
<1>1. Types' BY DEF Types, None, Torn, Shots, States, Building
<1>2. Handshake' BY DEF Handshake, Building
<1>3. Card' BY DEF Card, Types, Shots, States
<1>4. Through' BY DEF Through
<1>5. Job' BY DEF Job, Building
<1>6. Armed' BY DEF Armed
<1>7. Untagged' BY DEF Untagged, Building, Before, Shots, None, Torn
<1>8. OnItsWay'
  BY DEF OnItsWay, Types, Building, Before, Job, Armed, Handshake, Shots, Through, Card, Untagged, None, Torn
<1> QED BY <1>1, <1>2, <1>3, <1>4, <1>5, <1>6, <1>7, <1>8 DEF BendInv

-----------------------------------------------------------------------------
(* The invariant *)

LEMMA BendInit == Init => BendInv
<1> SUFFICES ASSUME Init PROVE BendInv
  OBVIOUS
<1> USE ShotsAssumption DEF Init
<1>1. Types
  <2>1. card \in [Shots -> States] /\ tag \in [Shots -> None .. MaxShots]
    BY DEF States, None, Shots
  <2>2. shot \in 0 .. MaxShots
    OBVIOUS
  <2>3. path \in 0 .. shot /\ text \in 0 .. shot /\ file \in 0 .. shot
    OBVIOUS
  <2> QED BY <2>1, <2>2, <2>3 DEF Types
<1>2. Handshake /\ Card /\ Through
  BY DEF Handshake, Building, Card, Through, Shots
<1>3. Job /\ Armed
  BY DEF Job, Building, Armed
<1>4. Untagged /\ OnItsWay
  BY DEF Untagged, OnItsWay, Building, None, Torn, Shots
<1> QED BY <1>1, <1>2, <1>3, <1>4 DEF BendInv

LEMMA BendStutter == BendInv /\ UNCHANGED vars => BendInv'
BY DEF BendInv, vars, hookVars, spyVars, jobVars, fileVars, Types, Handshake, Card, Through, Job, Armed,
       Untagged, OnItsWay, Building, Before

LEMMA BendStep == NoBurst /\ BendInv /\ [Next]_vars => BendInv'
<1> SUFFICES ASSUME NoBurst, BendInv, [Next]_vars PROVE BendInv'
  OBVIOUS
<1>1. CASE Capture
  BY <1>1, RawHookKeeps, RawHookDoneKeeps DEF Capture
<1>2. CASE Spy
  BY <1>2, ServiceInjectKeeps, ServicePollKeeps, NoRawDataKeeps, RawPlainKeeps, QueuePathKeeps,
     QueueTextKeeps, QueuePendingKeeps, ReleaseKeeps, ClearAvailKeeps DEF Spy
<1>3. CASE File
  BY <1>3, FileOpenKeeps, FileWriteKeeps, FileDiscardKeeps, SegmentKeeps, SegmentAppendKeeps,
     FileCloseKeeps DEF File
<1>4. CASE Tick
  BY <1>4, TickKeeps
<1>5. CASE UNCHANGED vars
  BY <1>5, BendStutter
<1> QED BY <1>1, <1>2, <1>3, <1>4, <1>5 DEF Next

LEMMA BendAlways == NoBurst => (Spec => []BendInv)
<1> SUFFICES ASSUME NoBurst PROVE Spec => []BendInv
  OBVIOUS
<1>1. BendInv /\ [Next]_vars => BendInv'
  BY BendStep
<1> QED BY <1>1, BendInit, PTL DEF Spec

\* The variables of the job, of the tasks and of the card keep to their values.
THEOREM BendTypeCorrect == NoBurst => (Spec => []TypeOK)
<1>1. BendInv => TypeOK
  BY DEF BendInv, Types, Job, TypeOK, States, Held
<1> QED BY <1>1, BendAlways, PTL

\* bend_tag_segment and bt_append write the recipe of the picture's own shot.
THEOREM RecipesOwn == NoBurst => (Spec => []OwnRecipe)
<1>1. BendInv => OwnRecipe
  BY DEF BendInv, Untagged, OwnRecipe
<1> QED BY <1>1, BendAlways, PTL

\* fwt_close leaves no bent picture without its recipe, card errors and late pictures
\* aside.
THEOREM BentAreTagged == NoBurst => (Spec => []EveryBentTagged)
<1>1. BendInv => EveryBentTagged
  <2> SUFFICES ASSUME BendInv, inject, NEW n \in Closed, n \in bent
               PROVE  tag[n] = n \/ n \in excused \/ (pending /\ path = n)
    BY DEF EveryBentTagged
  <2>1. n \in Shots /\ card[n] \notin {"absent", "open", "full", "short"}
    BY DEF Closed, Held
  <2>2. ~(Building /\ n = shot)
    BY <2>1, ShotsAssumption DEF BendInv, Types, Handshake, Through, Card, Shots
  <2> QED BY <2>2 DEF BendInv, OnItsWay
<1> QED BY <1>1, BendAlways, PTL

\* Nothing is appended twice, or before Canon's last byte.
THEOREM AppendsOnce == NoBurst => (Spec => AppendedOnce)
<1> SUFFICES ASSUME NoBurst PROVE Spec => AppendedOnce
  OBVIOUS
<1> DEFINE Once == \A n \in Shots : tag'[n] # tag[n] =>
                      tag[n] = None /\ card[n] \in {"full", "short", "whole"}
<1>1. BendInv /\ [Next]_vars => [Once]_vars
  <2> SUFFICES ASSUME BendInv, Next PROVE Once
    OBVIOUS
  <2>1. CASE ServicePoll
    <3>1. tag' # tag => pending /\ Ready /\ ~inject
      BY <2>1 DEF ServicePoll
    <3>2. \A n \in Shots : tag'[n] # tag[n] => n = path
      BY <2>1 DEF ServicePoll, Append, BendInv, Types
    <3> QED BY <3>1, <3>2 DEF BendInv, Untagged, Ready
  <2>2. CASE SegmentAppend
    <3>1. \A n \in Shots : tag'[n] # tag[n] => n = file
      BY <2>2 DEF SegmentAppend, BendInv, Types
    <3>2. fpc = "append" /\ inject
      BY <2>2 DEF SegmentAppend, BendInv, Armed
    <3>3. Before(file) /\ (file \in Shots => tag[file] = None /\ card[file] \in {"full", "short"})
      BY <3>2 DEF BendInv, Untagged, Before, Card
    <3> QED BY <3>1, <3>3
  <2>3. CASE ~ServicePoll /\ ~SegmentAppend
    <3>1. tag' = tag
      BY <2>3 DEF Next, Capture, Spy, File, RawHook, RawHookDone, ServiceInject, NoRawData, RawPlain,
                  QueuePath, QueueText, QueuePending, Release, ClearAvail, Tick, FileOpen, FileWrite,
                  FileDiscard, Segment, FileClose
    <3> QED BY <3>1
  <2> QED BY <2>1, <2>2, <2>3
<1>2. Spec => []BendInv
  BY BendAlways
<1> QED BY <1>1, <1>2, PTL DEF Spec, AppendedOnce
=============================================================================
