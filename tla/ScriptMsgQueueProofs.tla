----------------------- MODULE ScriptMsgQueueProofs -----------------------
(* Proofs about one PTP script message queue, for every queue length and *)
(* every set of messages.                                                *)
EXTENDS ScriptMsgQueue, SequenceTheorems, TLAPS

\* The slots the reader may take, from r round to w, without arithmetic modulo:
Published(i) == IF r <= w THEN r <= i /\ i < w ELSE r <= i \/ i < w

\* SlotOwnership made inductive: every published slot holds a message, and the
\* writer's copies of w and of the next index agree with the shared ones.
QueueInv ==
    /\ TypeOK
    /\ \A i \in Slots : Published(i) => q[i] \in Msg
    /\ wpc \in {"store", "publish"} => /\ wnext = QNext(w)
                                       /\ wnext # r
                                       /\ wmsg \in Msg
    /\ wpc = "publish" => q[w] = wmsg
    /\ rpc # "idle" => r # w
    /\ rpc = "advance" => rmsg = q[r]

\* QNext stays inside the buffer and never leaves an index where it was,
\* unless the buffer has one slot only (script_msg_q_next).
LEMMA QNextSlots == \A i \in Slots : QNext(i) \in Slots
BY QLenAssumption DEF Slots, QNext

\* The queue is created empty (ptp.c:308-309).
LEMMA QueueInit == Init => QueueInv
BY QLenAssumption DEF Init, QueueInv, TypeOK, Slots, Published

LEMMA QueueStep == QueueInv /\ [Next]_vars => QueueInv'
<1> SUFFICES ASSUME QueueInv, [Next]_vars PROVE QueueInv'
  OBVIOUS
<1> USE QLenAssumption, NoMsgAssumption, QNextSlots DEF QueueInv, TypeOK
<1>1. ASSUME NEW m \in Msg, EnqueueCheck(m) PROVE QueueInv'
  BY <1>1 DEF EnqueueCheck, rvars, Published
<1>2. CASE EnqueueStore
  BY <1>2 DEF EnqueueStore, rvars, Published, Slots, QNext
<1>3. CASE EnqueuePublish
  BY <1>3 DEF EnqueuePublish, rvars, Published, Slots, QNext
<1>4. CASE DequeueCheck
  BY <1>4 DEF DequeueCheck, wvars, Published
<1>5. CASE DequeueFetch
  <2>1. q[r] \in Msg
    BY <1>5 DEF DequeueFetch, Published, Slots
  <2> QED BY <1>5, <2>1 DEF DequeueFetch, wvars, Published
<1>6. CASE DequeueAdvance
  BY <1>6 DEF DequeueAdvance, wvars, Published, Slots, QNext
<1>7. CASE UNCHANGED vars
  BY <1>7 DEF vars, Published
<1> QED
  BY <1>1, <1>2, <1>3, <1>4, <1>5, <1>6, <1>7 DEF Next, Writer, Reader

LEMMA QueueInvariant == Spec => []QueueInv
BY QueueInit, QueueStep, PTL DEF Spec

\* The indices, slots and messages keep their types whatever the queue length.
THEOREM TypeCorrect == Spec => []TypeOK
<1>1. QueueInv => TypeOK
  BY DEF QueueInv
<1> QED BY QueueInvariant, <1>1, PTL

\* enqueue_script_msg and dequeue_script_msg need no lock: at every interleaving
\* the reader fetches a published message from a slot the writer is not filling.
THEOREM SlotsOwned == Spec => []SlotOwnership
<1>1. QueueInv => SlotOwnership
  BY DEF QueueInv, SlotOwnership, TypeOK, Published, Slots
<1> QED BY QueueInvariant, <1>1, PTL

-----------------------------------------------------------------------------
(* The queue implements MsgFifo.  The mapping counts modulo QLen; first, what it *)
(* is without.                                                                *)

LEMMA ModSmall == \A a \in Int : 0 <= a /\ a < QLen => a % QLen = a
BY QLenAssumption

LEMMA ModWrap == \A a \in Int : QLen <= a /\ a < 2 * QLen => a % QLen = a - QLen
BY QLenAssumption

LEMMA ModNegative == \A a \in Int : -QLen <= a /\ a < 0 => a % QLen = a + QLen
BY QLenAssumption

\* How many slots lie from a up to b, and which is the i-th from a.
Gap(a, b) == IF a <= b THEN b - a ELSE b - a + QLen
Nth(a, i) == IF a + i - 1 < QLen THEN a + i - 1 ELSE a + i - 1 - QLen

\* The messages in the slots of buffer c from a up to b.
Between(a, b, c) == [i \in 1 .. Gap(a, b) |-> c[Nth(a, i)]]

LEMMA GapIs == \A a, b \in Slots : (b - a) % QLen = Gap(a, b)
BY QLenAssumption, ModSmall, ModNegative DEF Slots, Gap

LEMMA GapRange == \A a, b \in Slots : Gap(a, b) \in 0 .. QLen - 1
BY QLenAssumption DEF Slots, Gap

LEMMA NthIs == \A a \in Slots, i \in 1 .. QLen : (a + i - 1) % QLen = Nth(a, i)
BY QLenAssumption, ModSmall, ModWrap DEF Slots, Nth

LEMMA NthSlot == \A a \in Slots, i \in 1 .. QLen : Nth(a, i) \in Slots
BY QLenAssumption DEF Slots, Nth

\* The mapping of the refinement.
AbsFifo == [i \in 1 .. Held |-> q[(r + i - 1) % QLen]]

LEMMA FifoIs ==
    ASSUME NEW a \in Slots, NEW b \in Slots, NEW c
    PROVE  [i \in 1 .. (b - a) % QLen |-> c[(a + i - 1) % QLen]] = Between(a, b, c)
<1>1. (b - a) % QLen = Gap(a, b) /\ Gap(a, b) \in 0 .. QLen - 1
  BY GapIs, GapRange
<1>2. \A i \in 1 .. Gap(a, b) : c[(a + i - 1) % QLen] = c[Nth(a, i)]
  BY <1>1, NthIs, QLenAssumption
<1> QED BY <1>1, <1>2 DEF Between

\* What is published is a sequence of messages.
LEMMA FifoSeq == QueueInv => Between(r, w, q) \in Seq(Msg)
<1> SUFFICES ASSUME QueueInv PROVE Between(r, w, q) \in Seq(Msg)
  OBVIOUS
<1>1. r \in Slots /\ w \in Slots /\ Gap(r, w) \in Nat
  BY GapRange, QLenAssumption DEF QueueInv, TypeOK
<1>2. ASSUME NEW i \in 1 .. Gap(r, w) PROVE q[Nth(r, i)] \in Msg
  <2>1. Nth(r, i) \in Slots /\ Published(Nth(r, i))
    BY <1>1, QLenAssumption DEF Slots, Nth, Gap, Published
  <2> QED BY <2>1 DEF QueueInv
<1> QED BY <1>1, <1>2 DEF Between

\* Moving w on by one appends the slot it was at.
LEMMA Appended ==
    ASSUME QueueInv, QNext(w) # r
    PROVE  /\ Between(r, QNext(w), q) = Append(Between(r, w, q), q[w])
           /\ Gap(r, w) < QLen - 1
<1>1. r \in Slots /\ w \in Slots
  BY DEF QueueInv, TypeOK
<1>2. /\ Gap(r, QNext(w)) = Gap(r, w) + 1 /\ Gap(r, w) \in Nat
      /\ Nth(r, Gap(r, w) + 1) = w /\ Gap(r, w) < QLen - 1
  BY <1>1, QLenAssumption DEF Slots, Gap, Nth, QNext
<1>3. /\ Between(r, w, q) \in Seq(Msg)
      /\ Len(Between(r, w, q)) = Gap(r, w)
  BY <1>2, FifoSeq DEF Between
<1>4. Append(Between(r, w, q), q[w]) =
        [i \in 1 .. Gap(r, w) + 1 |-> IF i = Gap(r, w) + 1 THEN q[w] ELSE Between(r, w, q)[i]]
  BY <1>3
<1>5. \A i \in 1 .. Gap(r, w) + 1 :
        q[Nth(r, i)] = IF i = Gap(r, w) + 1 THEN q[w] ELSE Between(r, w, q)[i]
  BY <1>2 DEF Between
<1> QED BY <1>2, <1>4, <1>5 DEF Between

\* Moving r on by one takes the head.
LEMMA Taken ==
    ASSUME QueueInv, r # w
    PROVE  /\ Between(r, w, q) # <<>>
           /\ Head(Between(r, w, q)) = q[r]
           /\ Between(QNext(r), w, q) = Tail(Between(r, w, q))
<1>1. r \in Slots /\ w \in Slots
  BY DEF QueueInv, TypeOK
<1>2. /\ Gap(QNext(r), w) = Gap(r, w) - 1 /\ Gap(r, w) \in Nat \ {0}
      /\ Nth(r, 1) = r
  BY <1>1, QLenAssumption DEF Slots, Gap, Nth, QNext
<1>3. \A i \in 1 .. Gap(r, w) - 1 : Nth(QNext(r), i) = Nth(r, i + 1)
  BY <1>1, QLenAssumption DEF Slots, Gap, Nth, QNext
<1>4. /\ Between(r, w, q) \in Seq(Msg)
      /\ Len(Between(r, w, q)) = Gap(r, w)
      /\ Between(r, w, q)[1] = q[r]
  BY <1>2, FifoSeq DEF Between
<1>5. /\ Tail(Between(r, w, q)) \in Seq(Msg)
      /\ Len(Tail(Between(r, w, q))) = Gap(r, w) - 1
      /\ \A i \in 1 .. Gap(r, w) - 1 : Tail(Between(r, w, q))[i] = Between(r, w, q)[i + 1]
  <2>1. Between(r, w, q) # <<>>
    BY <1>2, <1>4
  <2>2. PICK s \in Seq(Msg) : s = Between(r, w, q)
    BY <1>4
  <2>3. /\ Tail(s) \in Seq(Msg) /\ Len(Tail(s)) = Len(s) - 1
        /\ \A i \in 1 .. Len(Tail(s)) : Tail(s)[i] = s[i + 1]
    BY ONLY <2>1, <2>2, HeadTailProperties
  <2> QED BY ONLY <1>4, <2>2, <2>3
<1>6. \A i \in 1 .. Gap(r, w) - 1 : Between(r, w, q)[i + 1] = q[Nth(QNext(r), i)]
  BY <1>2, <1>3 DEF Between
<1>7. Between(QNext(r), w, q) = Tail(Between(r, w, q))
  <2>1. PICK t \in Seq(Msg) : t = Tail(Between(r, w, q))
    BY <1>5
  <2>2. t = [i \in 1 .. Gap(r, w) - 1 |-> t[i]]
    <3>1. t \in [1 .. Len(t) -> Msg] /\ Len(t) = Gap(r, w) - 1
      BY ONLY <1>5, <2>1, LenProperties
    <3> QED BY ONLY <3>1
  <2>3. \A i \in 1 .. Gap(r, w) - 1 : t[i] = q[Nth(QNext(r), i)]
    BY ONLY <1>5, <1>6, <2>1
  <2>4. Between(QNext(r), w, q) = [i \in 1 .. Gap(r, w) - 1 |-> q[Nth(QNext(r), i)]]
    BY <1>2 DEF Between
  <2> QED BY ONLY <2>1, <2>2, <2>3, <2>4
<1> QED BY <1>2, <1>4, <1>7

\* The slot the writer fills is not one of those published.
LEMMA Stored ==
    ASSUME QueueInv, EnqueueStore
    PROVE  Between(r, w, q') = Between(r, w, q)
<1>1. r \in Slots /\ w \in Slots /\ q \in [Slots -> Msg \cup {NoMsg}]
  BY DEF QueueInv, TypeOK
<1>2. \A i \in 1 .. Gap(r, w) : Nth(r, i) \in Slots /\ Nth(r, i) # w
  BY <1>1, QLenAssumption DEF Slots, Gap, Nth
<1>3. \A i \in 1 .. Gap(r, w) : q'[Nth(r, i)] = q[Nth(r, i)]
  BY <1>1, <1>2 DEF EnqueueStore
<1> QED BY <1>3 DEF Between

LEMMA FifoInit == Init => Fifo!Init
<1> SUFFICES ASSUME Init PROVE Fifo!Init
  OBVIOUS
<1>1. TypeOK
  BY QueueInit DEF QueueInv
<1>2. Between(r, w, q) = <<>>
  BY DEF Init, Between, Gap
<1>3. AbsFifo = Between(r, w, q)
  BY <1>1, FifoIs DEF TypeOK, Held, AbsFifo
<1> QED BY <1>2, <1>3 DEF Init, Fifo!Init, AbsFifo

LEMMA FifoStep ==
    ASSUME QueueInv, QueueInv', [Next]_vars PROVE [Fifo!Next]_(Fifo!vars)
<1> DEFINE B == Between(r, w, q)
<1>1. AbsFifo = B /\ AbsFifo' = Between(r', w', q')
  <2>1. AbsFifo = B
    BY FifoIs DEF AbsFifo, Held, QueueInv, TypeOK
  <2>2. r' \in Slots /\ w' \in Slots
    BY DEF QueueInv, TypeOK
  <2> QED BY <2>1, <2>2, FifoIs DEF AbsFifo, Held
<1>2. r \in Slots /\ w \in Slots
  BY DEF QueueInv, TypeOK
<1>3. B \in Seq(Msg) /\ Len(B) = Gap(r, w)
  BY <1>2, FifoSeq, GapRange, QLenAssumption DEF Between
<1> HIDE DEF B
<1>4. ASSUME NEW m \in Msg, EnqueueCheck(m) PROVE [Fifo!Next]_(Fifo!vars)
  <2>1. AbsFifo' = AbsFifo
    BY <1>1, <1>4 DEF B, EnqueueCheck
  <2>2. CASE wnext' = r
    <3>1. Gap(r, w) = QLen - 1
      BY <1>2, <1>4, <2>2, QLenAssumption DEF EnqueueCheck, Slots, Gap, QNext
    <3>2. put' = "full" /\ got' = got
      BY <1>4, <2>2 DEF EnqueueCheck, rvars
    <3> QED BY <1>1, <1>3, <2>1, <3>1, <3>2 DEF Fifo!Next, Fifo!Refuse, AbsFifo
  <2>3. CASE wnext' # r
    BY <1>4, <2>1, <2>3 DEF EnqueueCheck, rvars, Fifo!vars, AbsFifo
  <2> QED BY <2>2, <2>3
<1>5. CASE EnqueueStore
  <2>1. AbsFifo' = AbsFifo
    BY <1>1, <1>5, Stored DEF B, EnqueueStore
  <2> QED BY <1>5, <2>1 DEF EnqueueStore, rvars, Fifo!vars, AbsFifo
<1>6. CASE EnqueuePublish
  <2>1. wnext = QNext(w) /\ QNext(w) # r /\ q[w] = wmsg /\ wmsg \in Msg
    BY <1>6 DEF EnqueuePublish, QueueInv
  <2>2. AbsFifo' = Append(AbsFifo, q[w]) /\ Len(AbsFifo) < QLen - 1
    BY <1>1, <1>3, <1>6, <2>1, Appended DEF B, EnqueuePublish
  <2> QED BY <1>6, <2>1, <2>2 DEF EnqueuePublish, rvars, Fifo!Next, Fifo!Put, AbsFifo
<1>7. CASE DequeueCheck
  <2>1. AbsFifo' = AbsFifo
    BY <1>1, <1>7 DEF B, DequeueCheck, wvars
  <2>2. CASE w = r
    <3>1. B = <<>>
      BY <1>2, <1>3, <2>2 DEF Gap, Slots
    <3> QED BY <1>1, <1>7, <2>1, <2>2, <3>1
            DEF DequeueCheck, wvars, Fifo!Next, Fifo!TakeNone, AbsFifo
  <2>3. CASE w # r
    BY <1>7, <2>1, <2>3 DEF DequeueCheck, wvars, Fifo!vars, AbsFifo
  <2> QED BY <2>2, <2>3
<1>8. CASE DequeueFetch
  <2>1. AbsFifo' = AbsFifo
    BY <1>1, <1>8 DEF B, DequeueFetch, wvars
  <2> QED BY <1>8, <2>1 DEF DequeueFetch, wvars, Fifo!vars, AbsFifo
<1>9. CASE DequeueAdvance
  <2>1. r # w /\ rmsg = q[r]
    BY <1>9 DEF DequeueAdvance, QueueInv
  <2>2. AbsFifo # <<>> /\ Head(AbsFifo) = rmsg /\ AbsFifo' = Tail(AbsFifo)
    BY <1>1, <1>9, <2>1, Taken DEF B, DequeueAdvance
  <2> QED BY <1>9, <2>2 DEF DequeueAdvance, wvars, Fifo!Next, Fifo!Take, AbsFifo
<1>10. CASE UNCHANGED vars
  <2>1. AbsFifo' = AbsFifo
    BY <1>1, <1>10 DEF B, vars
  <2> QED BY <1>10, <2>1 DEF vars, Fifo!vars, AbsFifo
<1> QED
  BY <1>4, <1>5, <1>6, <1>7, <1>8, <1>9, <1>10 DEF Next, Writer, Reader

\* Whatever the length of the ring, its two unlocked ends make a bounded FIFO: no
\* message is lost, doubled, reordered or overwritten, and a full or empty queue
\* is reported only when it was one.
THEOREM QueueIsFifo == Spec => ImplementsFifo
<1>1. QueueInv /\ QueueInv' /\ [Next]_vars => [Fifo!Next]_(Fifo!vars)
  BY FifoStep
<1> QED BY <1>1, FifoInit, QueueInvariant, PTL DEF Spec, ImplementsFifo, Fifo!Spec
=============================================================================
