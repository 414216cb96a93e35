------------------------- MODULE MultiExposureProofs -------------------------
(* Proofs about multiple exposure, for every number of shots and of exposures, *)
(* when the menu is not used while spytask is at a frame.                      *)
EXTENDS MultiExposure, FiniteSetTheorems, TLAPS

\* A buffer with the shots of D, each of them bent n times.
Blend(D, n) == [s \in D |-> n]

Times(bending) == IF bending THEN 1 ELSE 0

\* The n shots up to z, without those that the file did not open for.
Kept(n, z) == (z - n + 1 .. z) \ dropped

\* The accumulator, if it is there, holds what was kept of the n shots up to z.
Accumulated(n, z) ==
    /\ dropped \subseteq z - n + 1 .. z
    /\ file = Missing \/ file = Blend(Kept(n, z), Times(eachUsed))

\* What there is of the sequence whose last exposure was shot z: the accumulator
\* and the tile hold what was kept of its `count` shots, or are not there.
Sequence(z) ==
    /\ count < target /\ count <= z
    /\ count > 0 => Accumulated(count, z)
    /\ kpc # "ghost" => tile = {} \/ (count > 0 /\ tile = Kept(count, z) \cup {z})

\* What was kept of the last n shots, and the newest one, is in the buffer, all
\* bent or none.
Blended(n) == n \in 1 .. shot /\ raw = Blend(Kept(n, shot) \cup {shot}, Times(bendEach))

\* The newest shot is in the buffer and bent as decided, whatever came along.
Exposed == shot \in DOMAIN raw /\ raw[shot] = Times(bendEach)

\* No sequence runs.  A file may be there.
Fresh == count = 0 /\ tile = {}

\* What holds at each place of spytask.
At ==
    /\ pc = "idle" => Sequence(shot)
    /\ pc = "decide" => Sequence(shot - 1) /\ raw = Blend({shot}, 0)
    /\ pc = "mexp" => /\ Sequence(shot - 1) /\ Blended(1)
                      /\ enable => bendEach = IF count > 0 THEN eachUsed ELSE bendEachConf
    /\ pc = "store" => Fresh /\ dropped = {} /\ bendEach = eachUsed /\ Blended(1)
    /\ pc = "counted" => /\ Fresh /\ dropped = {} /\ bendEach = eachUsed
                         /\ Blended(1) /\ file = raw
    /\ pc = "combined" => /\ count \in 1 .. target - 1 /\ bendEach = eachUsed
                          /\ Blended(count + 1) /\ Accumulated(count, shot - 1)
    /\ pc = "keep" => /\ count \in 2 .. target - 1 /\ bendEach = eachUsed
                      /\ Blended(count) /\ Accumulated(count - 1, shot - 1)
    /\ pc = "finish" => /\ count = 0 => Fresh /\ Exposed
                        /\ count > 0 => Blended(count) /\ bendEach = eachUsed
                        /\ count \in 1 .. target - 1 => Accumulated(count, shot)
                        /\ count = target => shot \notin dropped
    /\ pc = "final" => IF done THEN Fresh /\ Blended(target) /\ shot \notin dropped
                       ELSE Sequence(shot) /\ Exposed
    /\ pc = "out" => /\ Sequence(shot)
                     /\ raw[shot] > 0 <=> tagged
                     /\ done => shot >= target /\ raw = Blend(Kept(target, shot), 1)

\* The composite is made of the sequence because at every place the buffer, the
\* accumulator, the tile and the count speak of the same shots.
MexpInv ==
    /\ TypeOK
    /\ pc # "idle" => shot > 0 /\ kpc = "idle"
    /\ pc \in {"store", "counted", "combined", "keep", "finish"} => ~done
    /\ At

\* The two halves of the type invariant, and a buffer.
Flags == {enable, bendEachConf, ghostConf, eachUsed, bendEach, done, tagged} \subseteq BOOLEAN

Buffer(b) == DOMAIN b \subseteq 0 .. shot /\ \A s \in DOMAIN b : b[s] \in 0 .. 2

Numbers ==
    /\ {frames, target} \subseteq 2 .. MaxFrames /\ count \in 0 .. target
    /\ shot \in 0 .. MaxShots /\ tile \subseteq 1 .. shot /\ since \in 0 .. shot
    /\ dropped \subseteq 1 .. shot
    /\ Buffer(raw) /\ Buffer(file)
    /\ pc \in {"idle", "decide", "mexp", "store", "counted", "combined", "keep", "finish", "final", "out"}
    /\ kpc \in {"idle", "remove", "reset", "ghost"}

LEMMA TypeParts == TypeOK <=> Flags /\ Numbers
BY DEF TypeOK, Flags, Numbers, Buffer

\* A blend of no more than the shots taken is a buffer.
LEMMA BlendType ==
    ASSUME NEW D \in SUBSET (0 .. shot), NEW n \in 0 .. 2
    PROVE  Buffer(Blend(D, n))
BY DEF Blend, Buffer

LEMMA MissingType == Buffer(Missing)
BY DEF Missing, Buffer

\* mexp_combine adds the new frame to the exposures before it.
LEMMA Combined ==
    ASSUME NEW n \in Nat, NEW z \in Int, NEW k
    PROVE  Join(Blend(Kept(n, z - 1), k), Blend({z}, k)) = Blend(Kept(n + 1, z) \cup {z}, k)
<1>1. Kept(n, z - 1) \cup {z} = Kept(n + 1, z) \cup {z}
  <2>1. (z - 1) - n + 1 = z - (n + 1) + 1
    OBVIOUS
  <2>2. ((z - n) .. (z - 1)) \cup {z} = (z - n .. z) \cup {z}
    OBVIOUS
  <2> QED BY <2>1, <2>2 DEF Kept
<1>2. DOMAIN Join(Blend(Kept(n, z - 1), k), Blend({z}, k)) = Kept(n, z - 1) \cup {z}
  BY DEF Join, Blend
<1> QED BY <1>1, <1>2 DEF Join, Blend

LEMMA NothingCombined == ASSUME NEW b PROVE DOMAIN Join(Missing, b) = DOMAIN b /\ \A s \in DOMAIN b : Join(Missing, b)[s] = b[s]
BY DEF Missing, Join

LEMMA OneShot == \A z \in Int : [s \in {z} |-> 0] = Blend({z}, 0)
BY DEF Blend

LEMMA BentBlend == \A D : Bent(Blend(D, 0)) = Blend(D, 1)
BY DEF Blend, Bent

\* The first exposure is alone in the buffer.
LEMMA BlendedOne ==
    ASSUME shot \in Int, shot > 0
    PROVE  Blended(1) <=> raw = Blend({shot}, Times(bendEach))
<1>1. Kept(1, shot) \cup {shot} = {shot}
  BY DEF Kept
<1> QED BY <1>1 DEF Blended

LEMMA MexpInit == Init => MexpInv
<1> SUFFICES ASSUME Init PROVE MexpInv
  OBVIOUS
<1>1. Flags
  BY DEF Init, Flags
<1>2. Numbers
  <2>1. Buffer(raw) /\ Buffer(file)
    BY DEF Init, Missing, Leftover, Buffer
  <2>2. {frames, target} \subseteq 2 .. MaxFrames /\ count \in 0 .. target
    BY ShotsAssumption DEF Init
  <2> QED BY <2>1, <2>2, ShotsAssumption DEF Init, Numbers
<1>3. Sequence(shot)
  BY DEF Init, Sequence
<1> QED BY <1>1, <1>2, <1>3, TypeParts DEF Init, MexpInv, At

-----------------------------------------------------------------------------
(* spytask *)

LEMMA FrameKeeps ==
    ASSUME MexpInv, Frame, ~MenuBusy PROVE MexpInv'
<1> USE DEF MexpInv, Frame, confVars, seqVars, kbdVars
<1>1. raw' = Blend({shot + 1}, 0) /\ shot \in Nat /\ shot' = shot + 1
  <2>1. shot \in Nat /\ shot + 1 \in Int
    BY ShotsAssumption DEF TypeOK
  <2> QED BY <2>1, OneShot
<1>2. TypeOK'
  <2>1. Flags'
    BY TypeParts DEF Flags
  <2>2. Buffer(raw)' /\ Buffer(file)'
    BY <1>1, TypeParts DEF Numbers, Buffer, Blend
  <2>3. Numbers'
    BY <1>1, <2>2, TypeParts, ShotsAssumption DEF Numbers
  <2> QED BY <2>1, <2>3 DEF TypeOK, Flags, Numbers, Buffer
<1>3. Sequence(shot) /\ kpc = "idle"
  BY DEF At
<1>4. Sequence(shot - 1)'
  BY <1>1, <1>3 DEF Sequence, Accumulated, Kept
<1> QED BY <1>1, <1>2, <1>3, <1>4 DEF At

LEMMA DecideKeeps ==
    ASSUME MexpInv, Decide PROVE MexpInv'
<1> USE DEF MexpInv, Decide, confVars, seqVars, kbdVars
<1>1. raw' = Blend({shot}, Times(bendEach')) /\ shot \in 1 .. MaxShots
  BY BentBlend, ShotsAssumption DEF TypeOK, At, Times
<1>2. TypeOK'
  BY <1>1 DEF TypeOK, Blend, Times
<1>3. Sequence(shot - 1)'
  BY DEF At, Sequence, Accumulated, Kept
<1>4. Blended(1)'
  BY <1>1 DEF Blended, Kept
<1> QED BY <1>1, <1>2, <1>3, <1>4 DEF At, TypeOK

\* A cancelled sequence leaves nothing behind.
LEMMA CancelFresh == Cancel => Fresh'
BY DEF Cancel, Fresh

LEMMA FreshSequence ==
    ASSUME TypeOK, Fresh, NEW z \in Nat PROVE Sequence(z)
BY DEF TypeOK, Fresh, Sequence

\* The newest shot is in what was blended.
LEMMA BlendedExposed == \A n : Blended(n) => Exposed
BY DEF Blended, Exposed, Blend

LEMMA MexpOffKeepsInv ==
    ASSUME MexpInv, MexpOff PROVE MexpInv'
<1> USE DEF MexpInv, MexpOff, confVars, kbdVars
<1>1. TypeOK'
  <2>1. Flags'
    BY TypeParts DEF Flags
  <2>2. Numbers'
    BY TypeParts DEF Numbers, Buffer, Cancel, Missing
  <2> QED BY <2>1, <2>2 DEF TypeOK, Flags, Numbers, Buffer
<1>2. Exposed'
  BY BlendedExposed DEF At, Exposed
<1>3. Fresh' /\ shot' \in Nat
  <2>1. CASE count > 0
    BY <2>1, CancelFresh, ShotsAssumption DEF TypeOK
  <2>2. CASE ~(count > 0)
    <3>1. count = 0 /\ shot \in Nat
      BY <2>2, ShotsAssumption DEF TypeOK
    <3>2. tile = {}
      BY <3>1 DEF At, Sequence
    <3> QED BY <3>1, <3>2 DEF Fresh
  <2> QED BY <2>1, <2>2
<1>4. Sequence(shot)'
  BY <1>1, <1>3 DEF TypeOK, Fresh, Sequence
<1> QED BY <1>1, <1>2, <1>4 DEF At

LEMMA MexpBeginKeeps ==
    ASSUME MexpInv, MexpBegin PROVE MexpInv'
<1> USE DEF MexpInv, MexpBegin, confVars, kbdVars
<1>1. TypeOK'
  <2>1. Flags'
    BY TypeParts DEF Flags
  <2>2. Numbers'
    BY TypeParts DEF Numbers, Buffer
  <2> QED BY <2>1, <2>2 DEF TypeOK, Flags, Numbers, Buffer
<1>2. Blended(1)'
  BY BlendedOne, ShotsAssumption DEF At, Blended, Kept, TypeOK
<1>3. Fresh' /\ eachUsed' = bendEach
  BY DEF At, Sequence, Fresh
<1> QED BY <1>1, <1>2, <1>3 DEF At

LEMMA StoreFirstKeeps ==
    ASSUME MexpInv, StoreFirst PROVE MexpInv'
<1> USE DEF MexpInv, StoreFirst, Store, confVars, kbdVars
<1>1. TypeOK'
  <2>1. Flags'
    BY TypeParts DEF Flags
  <2>2. Numbers'
    BY TypeParts DEF Numbers, Buffer, Missing
  <2> QED BY <2>1, <2>2 DEF TypeOK, Flags, Numbers, Buffer
<1>2. Blended(1)' /\ Exposed'
  BY BlendedExposed DEF At, Blended, Exposed, Kept
<1>3. Fresh' /\ dropped' = {} /\ bendEach' = eachUsed' /\ count' = 0
  BY DEF At, Fresh
<1>4. pc' = "counted" => file' = raw'
  OBVIOUS
<1>5. target' > 1 /\ target' \in Int
  BY <1>1 DEF TypeOK
<1> QED BY <1>1, <1>2, <1>3, <1>4, <1>5 DEF At

LEMMA CountFirstKeeps ==
    ASSUME MexpInv, CountFirst PROVE MexpInv'
<1> USE DEF MexpInv, CountFirst, confVars, kbdVars
<1>1. TypeOK'
  <2>1. Flags'
    BY TypeParts DEF Flags
  <2>2. Numbers'
    BY TypeParts DEF Numbers, Buffer
  <2> QED BY <2>1, <2>2 DEF TypeOK, Flags, Numbers, Buffer
<1>2. Blended(1)' /\ bendEach' = eachUsed'
  BY DEF At, Blended, Kept
<1>3. Accumulated(1, shot)'
  <2>1. shot \in Int /\ dropped = {} /\ bendEach = eachUsed /\ file = raw
    BY ShotsAssumption DEF TypeOK, At
  <2>2. Kept(1, shot) \cup {shot} = Kept(1, shot)
    BY <2>1 DEF Kept
  <2>3. file = Blend(Kept(1, shot), Times(eachUsed))
    BY <2>1, <2>2 DEF At, Blended
  <2> QED BY <2>1, <2>3 DEF Accumulated, Kept
<1>4. target' > 1 /\ target' \in Int
  BY <1>1 DEF TypeOK
<1> QED BY <1>1, <1>2, <1>3, <1>4 DEF At

LEMMA CombineKeeps ==
    ASSUME MexpInv, Combine PROVE MexpInv'
<1> USE DEF MexpInv, Combine, confVars, seqVars, kbdVars
<1>1. /\ shot \in 1 .. MaxShots /\ count \in 1 .. target - 1 /\ count <= shot - 1
      /\ bendEach = eachUsed /\ bendEach \in BOOLEAN
  BY ShotsAssumption DEF TypeOK, At, Sequence
<1>2. Accumulated(count, shot - 1)
  BY <1>1 DEF At, Sequence
<1>3. raw = Blend({shot}, Times(bendEach))
  BY <1>1, BlendedOne, ShotsAssumption DEF At
<1>4. raw' = Blend(Kept(count + 1, shot) \cup {shot}, Times(bendEach))
  BY <1>1, <1>2, <1>3, Combined, ShotsAssumption DEF Accumulated
<1>5. TypeOK'
  <2>1. Flags'
    BY TypeParts DEF Flags
  <2>2. Kept(count + 1, shot) \cup {shot} \in SUBSET (0 .. shot) /\ Times(bendEach) \in 0 .. 2
    BY <1>1, ShotsAssumption DEF Kept, Times
  <2>3. Buffer(raw)'
    BY <1>4, <2>2, BlendType DEF Buffer
  <2>4. Numbers'
    BY <2>3, TypeParts DEF Numbers, Buffer
  <2> QED BY <2>1, <2>4 DEF TypeOK, Flags, Numbers, Buffer
<1>6. Blended(count + 1)' /\ Accumulated(count, shot - 1)'
  BY <1>1, <1>2, <1>4 DEF Blended, Accumulated, Kept
<1> QED BY <1>1, <1>5, <1>6 DEF At

LEMMA CombineFailsKeeps ==
    ASSUME MexpInv, CombineFails PROVE MexpInv'
<1> USE DEF MexpInv, CombineFails, confVars, kbdVars
<1>1. /\ shot \in 1 .. MaxShots /\ count \in 1 .. target - 1 /\ count <= shot - 1
      /\ bendEach = eachUsed /\ bendEach \in BOOLEAN
  BY ShotsAssumption DEF TypeOK, At, Sequence
<1>2. Accumulated(count, shot - 1)
  BY <1>1 DEF At, Sequence
<1>3. raw = Blend({shot}, Times(bendEach))
  BY <1>1, BlendedOne, ShotsAssumption DEF At
<1>4. Exposed' /\ Buffer(raw)'
  <2>1. CASE raw' = raw
    BY <1>1, <1>3, <2>1, TypeParts DEF Exposed, Blend, Numbers, Buffer
  <2>2. CASE raw' = Join(file, raw)
    <3>1. CASE file = Missing
      <4>1. DOMAIN raw' = {shot} /\ raw'[shot] = Times(bendEach)
        BY <1>3, <2>2, <3>1, NothingCombined DEF Blend
      <4> QED BY <1>1, <4>1, ShotsAssumption DEF Exposed, Buffer, Times
    <3>2. CASE file # Missing
      <4>1. raw' = Blend(Kept(count + 1, shot) \cup {shot}, Times(bendEach))
        BY <1>1, <1>2, <1>3, <2>2, <3>2, Combined, ShotsAssumption DEF Accumulated
      <4>2. Kept(count + 1, shot) \cup {shot} \in SUBSET (0 .. shot) /\ Times(bendEach) \in 0 .. 2
        BY <1>1, ShotsAssumption DEF Kept, Times
      <4> QED BY <4>1, <4>2, BlendType DEF Exposed, Buffer, Blend
    <3> QED BY <3>1, <3>2
  <2> QED BY <2>1, <2>2
<1>5. TypeOK'
  <2>1. Flags'
    BY TypeParts DEF Flags
  <2>2. Numbers'
    BY <1>4, TypeParts DEF Numbers, Buffer, Cancel, Missing
  <2> QED BY <2>1, <2>2 DEF TypeOK, Flags, Numbers, Buffer
<1>6. Fresh' /\ count' = 0 /\ target' > 1 /\ target' \in Int
  BY <1>5, CancelFresh DEF Cancel, TypeOK
<1> QED BY <1>1, <1>4, <1>5, <1>6 DEF At

LEMMA CountUpKeeps ==
    ASSUME MexpInv, CountUp PROVE MexpInv'
<1> USE DEF MexpInv, CountUp, confVars, kbdVars
<1>1. /\ shot \in 1 .. MaxShots /\ count \in 1 .. target - 1 /\ target \in Nat
      /\ bendEach = eachUsed /\ Blended(count + 1) /\ Accumulated(count, shot - 1)
  BY ShotsAssumption DEF TypeOK, At
<1>2. TypeOK'
  <2>1. Flags'
    BY TypeParts DEF Flags
  <2>2. Numbers'
    BY <1>1, TypeParts DEF Numbers, Buffer
  <2> QED BY <2>1, <2>2 DEF TypeOK, Flags, Numbers, Buffer
<1>3. Blended(count)' /\ Accumulated(count - 1, shot - 1)'
  <2>1. count' - 1 = count
    BY <1>1
  <2> QED BY <1>1, <2>1 DEF Blended, Accumulated, Kept
<1>4. shot' \notin dropped'
  BY <1>1, ShotsAssumption DEF Accumulated
<1>5. bendEach' = eachUsed' /\ count' \in 2 .. target'
  BY <1>1
<1>6. pc' = "keep" => count' \in 2 .. target' - 1
  BY <1>1
<1>7. pc' = "finish" => count' = target'
  BY <1>1
<1> QED BY <1>2, <1>3, <1>4, <1>5, <1>6, <1>7 DEF At

\* The exposure joins the accumulator, or those that the file did not open for.
LEMMA KeepKeeps ==
    ASSUME MexpInv, Keep PROVE MexpInv'
<1> USE DEF MexpInv, Keep, Store, confVars, kbdVars
<1>1. /\ shot \in 1 .. MaxShots /\ count \in 2 .. target - 1 /\ target \in Nat
      /\ bendEach = eachUsed /\ Blended(count) /\ Accumulated(count - 1, shot - 1)
  BY ShotsAssumption DEF TypeOK, At
<1>2. TypeOK'
  <2>1. Flags'
    BY TypeParts DEF Flags
  <2>2. Numbers'
    BY <1>1, TypeParts DEF Numbers, Buffer, Missing
  <2> QED BY <2>1, <2>2 DEF TypeOK, Flags, Numbers, Buffer
<1>3. (shot - 1) - (count - 1) + 1 = shot - count + 1
  BY <1>1
<1>4. dropped \subseteq shot - count + 1 .. shot - 1
  BY <1>1, <1>3 DEF Accumulated
<1>5. Kept(count - 1, shot - 1) \cup {shot} = Kept(count, shot)
  BY <1>1, <1>3, <1>4, ShotsAssumption DEF Kept
<1>6. shot \in Kept(count, shot)
  BY <1>5
<1>7. CASE dropped' = dropped /\ file' = raw
  <2>1. Kept(count, shot)' = Kept(count, shot)
    BY <1>7 DEF Kept
  <2>2. Kept(count, shot) \cup {shot} = Kept(count, shot)
    BY <1>6
  <2>3. raw = Blend(Kept(count, shot), Times(eachUsed))
    BY <1>1, <2>2 DEF Blended
  <2>4. Blended(count)'
    BY <1>1, <2>1 DEF Blended
  <2>5. Accumulated(count, shot)'
    BY <1>1, <1>4, <1>7, <2>1, <2>3, ShotsAssumption DEF Accumulated
  <2> QED BY <1>1, <1>2, <2>4, <2>5 DEF At
<1>8. CASE dropped' = dropped \cup {shot} /\ file' \in {file, Missing}
  <2>1. Kept(count, shot)' = Kept(count - 1, shot - 1)
    BY <1>1, <1>4, <1>5, <1>8, ShotsAssumption DEF Kept
  <2>2. Kept(count, shot)' \cup {shot} = Kept(count, shot) \cup {shot}
    BY <1>5, <1>6, <2>1
  <2>3. Blended(count)'
    BY <1>1, <2>2 DEF Blended
  <2>4. Accumulated(count, shot)'
    BY <1>1, <1>4, <1>8, <2>1, ShotsAssumption DEF Accumulated
  <2> QED BY <1>1, <1>2, <2>3, <2>4 DEF At
<1> QED BY <1>7, <1>8

LEMMA FinishKeeps ==
    ASSUME MexpInv, Finish PROVE MexpInv'
<1> USE DEF MexpInv, Finish, Enough, confVars, kbdVars
<1>1. TypeOK'
  <2>1. Flags'
    BY TypeParts DEF Flags
  <2>2. Numbers'
    BY TypeParts DEF Numbers, Buffer, Cancel, Missing
  <2> QED BY <2>1, <2>2 DEF TypeOK, Flags, Numbers, Buffer
<1>2. count = target /\ count > 0
  BY DEF TypeOK
<1>3. Blended(target)' /\ shot' \notin dropped'
  BY <1>2 DEF At, Blended, Kept
<1>4. Fresh'
  BY CancelFresh
<1> QED BY <1>1, <1>3, <1>4 DEF At

LEMMA ContinueKeeps ==
    ASSUME MexpInv, Continue PROVE MexpInv'
<1> USE DEF MexpInv, Continue, Enough, confVars, kbdVars
<1>1. count < target /\ shot \in Nat /\ count \in Nat /\ ~done
  BY ShotsAssumption DEF TypeOK
<1>2. CASE count = 0
  <2>1. Fresh /\ Exposed /\ kpc = "idle"
    BY <1>2 DEF At
  <2>2. Sequence(shot)' /\ Exposed'
    BY <1>1, <1>2, <2>1 DEF Fresh, Sequence, Exposed
  <2>3. TypeOK'
    <3>1. Flags'
      BY <1>2, TypeParts DEF Flags
    <3>2. Numbers'
      BY <1>2, TypeParts DEF Numbers, Buffer
    <3> QED BY <3>1, <3>2 DEF TypeOK, Flags, Numbers, Buffer
  <2>4. pc' = "final" /\ kpc' = "idle" /\ shot' > 0 /\ ~done'
    BY <1>1, <2>1
  <2> QED BY <2>2, <2>3, <2>4 DEF At
<1>3. CASE count > 0
  <2>1. /\ Blended(count) /\ bendEach = eachUsed /\ kpc = "idle" /\ count <= shot
        /\ Accumulated(count, shot)
    <3>1. count \in 1 .. target - 1 /\ target \in Int
      BY <1>1, <1>3 DEF TypeOK
    <3>2. Accumulated(count, shot) /\ Blended(count) /\ bendEach = eachUsed
      BY <1>3, <3>1 DEF At
    <3> QED BY <1>1, <3>2 DEF Blended
  <2>2. DOMAIN raw = Kept(count, shot) \cup {shot}
    BY <2>1 DEF Blended, Blend
  <2>3. tile' = {} \/ tile' = Kept(count, shot) \cup {shot}
    BY <1>3, <2>2 DEF Ghost
  <2>4. Sequence(shot)'
    BY <1>1, <1>3, <2>1, <2>3 DEF Sequence, Accumulated, Kept
  <2>5. Exposed'
    BY <2>1, BlendedExposed DEF Exposed
  <2>6. TypeOK'
    <3>1. tile' \subseteq 1 .. shot
      BY <1>1, <1>3, <2>1, <2>3 DEF Kept
    <3>2. Flags'
      BY TypeParts DEF Flags
    <3>3. Numbers'
      BY <3>1, TypeParts DEF Numbers, Buffer
    <3> QED BY <3>2, <3>3 DEF TypeOK, Flags, Numbers, Buffer
  <2> QED BY <1>1, <2>1, <2>4, <2>5, <2>6 DEF At
<1> QED BY <1>1, <1>2, <1>3

LEMMA FinalKeeps ==
    ASSUME MexpInv, Final PROVE MexpInv'
<1> USE DEF MexpInv, Final, confVars, seqVars, kbdVars
<1>1. shot \in 1 .. MaxShots /\ target \in 2 .. MaxFrames /\ bendEach \in BOOLEAN /\ done \in BOOLEAN
  BY ShotsAssumption DEF TypeOK
<1>2. Sequence(shot)'
  <2>1. Sequence(shot)
    BY <1>1, FreshSequence, ShotsAssumption DEF At
  <2> QED BY <2>1 DEF Sequence, Accumulated, Kept
<1>3. CASE done
  <2>1. /\ target <= shot /\ shot \notin dropped
        /\ raw' = Blend(Kept(target, shot) \cup {shot}, 1)
    BY <1>1, <1>3, BentBlend DEF At, Blended, Times
  <2>2. Kept(target, shot) \cup {shot} = Kept(target, shot) /\ Kept(target, shot) \subseteq 0 .. shot
    BY <1>1, <2>1, ShotsAssumption DEF Kept
  <2>3. raw' = Blend(Kept(target, shot), 1) /\ raw'[shot] = 1
    BY <2>1, <2>2 DEF Blend
  <2>4. tagged' = TRUE
    BY <1>3
  <2>5. TypeOK'
    <3>1. Buffer(raw')
      BY <2>2, <2>3, BlendType
    <3>2. Flags'
      BY <2>4, TypeParts DEF Flags
    <3>3. Numbers'
      BY <3>1, TypeParts DEF Numbers, Buffer
    <3> QED BY <3>2, <3>3 DEF TypeOK, Flags, Numbers, Buffer
  <2>6. Kept(target, shot)' = Kept(target, shot)
    BY DEF Kept
  <2> QED BY <1>1, <1>2, <2>1, <2>3, <2>4, <2>5, <2>6 DEF At
<1>4. CASE ~done
  <2>1. raw[shot] = Times(bendEach) /\ raw' = raw
    BY <1>4 DEF At, Exposed
  <2>2. raw'[shot] > 0 <=> tagged'
    BY <1>1, <1>4, <2>1 DEF Times
  <2>3. TypeOK'
    BY <1>4 DEF TypeOK
  <2> QED BY <1>1, <1>2, <1>4, <2>2, <2>3 DEF At
<1> QED BY <1>1, <1>3, <1>4

LEMMA DevelopKeeps ==
    ASSUME MexpInv, Develop PROVE MexpInv'
<1> USE DEF MexpInv, Develop, confVars, seqVars, kbdVars
<1>1. TypeOK'
  <2>1. Flags'
    BY TypeParts DEF Flags
  <2>2. Numbers'
    BY TypeParts DEF Numbers, Buffer
  <2> QED BY <2>1, <2>2 DEF TypeOK, Flags, Numbers, Buffer
<1>2. Sequence(shot)'
  BY DEF At, Sequence, Accumulated, Kept
<1> QED BY <1>1, <1>2 DEF At

LEMMA SpyKeeps ==
    ASSUME MexpInv, Spy, ~MenuBusy PROVE MexpInv'
BY FrameKeeps, DecideKeeps, MexpOffKeepsInv, MexpBeginKeeps, StoreFirstKeeps, CountFirstKeeps,
   CombineKeeps, CombineFailsKeeps, CountUpKeeps, KeepKeeps, FinishKeeps, ContinueKeeps,
   FinalKeeps, DevelopKeeps DEF Spy

-----------------------------------------------------------------------------
(* The menu, between two frames *)

\* Nothing of the sequence changes.
LEMMA SettingsKeep ==
    ASSUME MexpInv, ~MenuBusy, Settings \/ Enable \/ Disable \/ MenuCancel PROVE MexpInv'
<1> USE DEF MexpInv, Settings, Enable, Disable, MenuCancel, MenuFree, seqVars, rawVars, kbdVars,
            confVars
<1>1. pc = "idle" /\ pc' = "idle" /\ kpc' \in {"idle", "remove"} /\ kpc = "idle"
  OBVIOUS
<1>2. TypeOK'
  <2>1. Flags'
    BY TypeParts DEF Flags
  <2>2. Numbers'
    BY TypeParts DEF Numbers, Buffer
  <2> QED BY <2>1, <2>2 DEF TypeOK, Flags, Numbers, Buffer
<1>3. Sequence(shot)'
  BY <1>1 DEF At, Sequence, Accumulated, Kept
<1> QED BY <1>1, <1>2, <1>3 DEF At

\* raw_mexp_cancel, between frames, takes the file away before the count.
LEMMA MenuCancelKeeps ==
    ASSUME MexpInv, CancelRemove \/ CancelReset \/ CancelGhost PROVE MexpInv'
<1> USE DEF MexpInv, CancelRemove, CancelReset, CancelGhost, rawVars, confVars
<1>1. pc = "idle" /\ pc' = "idle"
  OBVIOUS
<1>2. TypeOK'
  <2>1. Flags'
    BY TypeParts DEF Flags
  <2>2. Numbers'
    BY TypeParts DEF Numbers, Buffer, Missing
  <2> QED BY <2>1, <2>2 DEF TypeOK, Flags, Numbers, Buffer
<1>3. Sequence(shot)'
  <2>1. shot \in Nat /\ target \in Nat /\ target > 1 /\ Sequence(shot)
    BY <1>1, ShotsAssumption DEF At, TypeOK
  <2>2. CASE CancelRemove
    BY <2>1, <2>2 DEF Sequence, Accumulated, Kept
  <2>3. CASE CancelReset
    BY <2>1, <2>3 DEF Sequence, Accumulated, Kept
  <2>4. CASE CancelGhost
    BY <2>1, <2>4 DEF Sequence, Accumulated, Kept
  <2> QED BY <2>2, <2>3, <2>4
<1> QED BY <1>1, <1>2, <1>3 DEF At

LEMMA CardLostKeeps ==
    ASSUME MexpInv, CardLost PROVE MexpInv'
<1> USE DEF MexpInv, CardLost, rawVars, confVars, kbdVars
<1>1. TypeOK'
  <2>1. Flags'
    BY TypeParts DEF Flags
  <2>2. Numbers'
    BY TypeParts DEF Numbers, Buffer, Missing
  <2> QED BY <2>1, <2>2 DEF TypeOK, Flags, Numbers, Buffer
<1>2. Sequence(shot)'
  BY DEF At, Sequence, Accumulated, Kept
<1> QED BY <1>1, <1>2 DEF At

LEMMA StutterKeeps ==
    ASSUME MexpInv, UNCHANGED vars PROVE MexpInv'
<1> USE DEF MexpInv, vars, confVars, seqVars, rawVars, kbdVars
<1>1. TypeOK'
  BY DEF TypeOK
<1>2. At'
  BY DEF At, Sequence, Accumulated, Kept, Fresh, Blended, Exposed
<1> QED BY <1>1, <1>2

LEMMA MexpInvariant == ~MenuBusy => (Spec => []MexpInv)
<1> SUFFICES ASSUME ~MenuBusy PROVE Spec => []MexpInv
  OBVIOUS
<1>1. MexpInv /\ [Next]_vars => MexpInv'
  BY SpyKeeps, SettingsKeep, MenuCancelKeeps, CardLostKeeps, StutterKeeps DEF Next, Kbd
<1> QED BY <1>1, MexpInit, PTL DEF Spec

-----------------------------------------------------------------------------
(* Theorems *)

\* Every variable keeps its type and range, and buffers hold shots that were taken.
THEOREM MexpTypeCorrect == ~MenuBusy => (Spec => []TypeOK)
<1>1. MexpInv => TypeOK
  BY DEF MexpInv
<1> QED BY <1>1, MexpInvariant, PTL

\* However long the sequences are and whatever of the card or the memory fails, the
\* composite of a sequence is made of its exposures, all of them but those that
\* MEXP.TMP did not open for, and no others.
THEOREM CompositesExact == ~MenuBusy => (Spec => []CompositeExact)
<1>1. MexpInv => CompositeExact
  BY ShotsAssumption DEF MexpInv, TypeOK, At, CompositeExact, Blend, Kept
<1> QED BY <1>1, MexpInvariant, PTL

\* mexp_combine is called with the number of exposures that MEXP.TMP holds, and of
\* those that it did not open for.
THEOREM WeightsRight == ~MenuBusy => (Spec => []WeightRight)
<1>1. MexpInv => WeightRight
  <2> SUFFICES ASSUME MexpInv, pc = "mexp", count > 0, file # Missing
               PROVE  count = Cardinality(DOMAIN file) + Cardinality(dropped)
    BY DEF WeightRight
  <2> DEFINE Shots == shot - 1 - count + 1 .. shot - 1
  <2>1. /\ count \in Nat /\ shot \in Nat /\ dropped \subseteq Shots
        /\ DOMAIN file = Shots \ dropped
    BY ShotsAssumption DEF MexpInv, TypeOK, At, Sequence, Accumulated, Kept, Blend
  <2>2. IsFiniteSet(Shots) /\ Cardinality(Shots) = count
    BY <2>1, FS_Interval
  <2> HIDE DEF Shots
  <2>3. IsFiniteSet(dropped) /\ Cardinality(dropped) \in Nat
    BY <2>1, <2>2, FS_Subset, FS_CardinalityType
  <2>4. Shots \cap dropped = dropped
    BY <2>1
  <2>5. Cardinality(Shots \ dropped) = Cardinality(Shots) - Cardinality(dropped)
    BY <2>2, <2>4, FS_Difference
  <2> QED BY <2>1, <2>2, <2>3, <2>5
<1> QED BY <1>1, MexpInvariant, PTL

\* Every exposure of a composite is bent exactly once: by itself or with the rest.
THEOREM CompositeBentOnce == ~MenuBusy => (Spec => []BentOnce)
<1>1. MexpInv => BentOnce
  BY ShotsAssumption DEF MexpInv, TypeOK, At, BentOnce, Blend
<1> QED BY <1>1, MexpInvariant, PTL

\* raw_bend_shot queues a recipe for a picture exactly if its newest exposure was bent.
THEOREM RecipeIfBent == ~MenuBusy => (Spec => []TaggedIfBent)
<1>1. MexpInv => TaggedIfBent
  BY DEF MexpInv, At, TaggedIfBent
<1> QED BY <1>1, MexpInvariant, PTL

\* The ghost on the display is that of the sequence that runs: the newest exposure and
\* what is kept of it.
THEOREM GhostsRight == ~MenuBusy => (Spec => []GhostRight)
<1>1. MexpInv => GhostRight
  BY DEF MexpInv, At, Sequence, Kept, GhostRight
<1> QED BY <1>1, MexpInvariant, PTL
=============================================================================
