--------------------------- MODULE ScriptMsgQueue ---------------------------
(* One of the two PTP script message queues of core/ptp.c, msg_q_in or      *)
(* msg_q_out: a ring buffer of pointers without a lock, written by one task *)
(* and read by another.  Every step reads or writes shared memory once, so  *)
(* the writer and the reader interleave as two tasks of the camera do.      *)
EXTENDS Integers, Sequences

CONSTANTS Msg, NoMsg,
          QLen          \* PTP_SCRIPT_MSG_Q_LEN

ASSUME QLenAssumption == QLen \in Nat \ {0}
ASSUME NoMsgAssumption == NoMsg \notin Msg

VARIABLES r, w, q,          \* ptp_script_msg_q
          wpc, wmsg, wnext, \* the writer: position, message, local w
          put,              \* result of its last enqueue
          rpc, rmsg,        \* the reader: position, local msg
          got               \* result of its last dequeue

wvars == <<wpc, wmsg, wnext, put>>
rvars == <<rpc, rmsg, got>>
vars  == <<r, w, q, wpc, wmsg, wnext, put, rpc, rmsg, got>>

Slots == 0 .. QLen - 1

\* script_msg_q_next
QNext(i) == IF i = QLen - 1 THEN 0 ELSE i + 1

Init == /\ r = 0 /\ w = 0
        /\ q = [i \in Slots |-> NoMsg]
        /\ wpc = "idle" /\ wmsg = NoMsg /\ wnext = 0 /\ put = "ok"
        /\ rpc = "idle" /\ rmsg = NoMsg /\ got = NoMsg

-----------------------------------------------------------------------------
(* enqueue_script_msg *)

\* slip: no test for a full queue
EnqueueUnchecked(m) ==
    /\ wpc = "idle"
    /\ wnext' = QNext(w)
    /\ wmsg' = m
    /\ wpc' = "store"
    /\ UNCHANGED <<r, w, q, put, rvars>>

\* compute the next w, compare it with r; a full queue refuses the message
EnqueueCheck(m) ==
    /\ wpc = "idle"
    /\ wnext' = QNext(w)
    /\ wmsg' = m
    /\ \/ wnext' # r /\ wpc' = "store" /\ put' = put
       \/ wnext' = r /\ wpc' = "idle"  /\ put' = "full"
    /\ UNCHANGED <<r, w, q, rvars>>

EnqueueStore ==
    /\ wpc = "store"
    /\ q' = [q EXCEPT ![w] = wmsg]
    /\ wpc' = "publish"
    /\ UNCHANGED <<r, w, wmsg, wnext, put, rvars>>

EnqueuePublish ==
    /\ wpc = "publish"
    /\ w' = wnext
    /\ put' = "ok"
    /\ wpc' = "idle"
    /\ UNCHANGED <<r, q, wmsg, wnext, rvars>>

-----------------------------------------------------------------------------
(* dequeue_script_msg *)

\* slip: r moves on before the slot is read
DequeueEarlyAdvance ==
    /\ rpc = "fetch"
    /\ rmsg' = q[QNext(r)]
    /\ rpc' = "advance"
    /\ UNCHANGED <<r, w, q, wvars, got>>

DequeueCheck ==
    /\ rpc = "idle"
    /\ \/ w = r /\ rpc' = "idle" /\ got' = NoMsg
       \/ w # r /\ rpc' = "fetch" /\ got' = got
    /\ UNCHANGED <<r, w, q, wvars, rmsg>>

DequeueFetch ==
    /\ rpc = "fetch"
    /\ rmsg' = q[r]
    /\ rpc' = "advance"
    /\ UNCHANGED <<r, w, q, wvars, got>>

DequeueAdvance ==
    /\ rpc = "advance"
    /\ r' = QNext(r)
    /\ got' = rmsg
    /\ rpc' = "idle"
    /\ UNCHANGED <<w, q, wvars, rmsg>>

Writer == (\E m \in Msg : EnqueueCheck(m)) \/ EnqueueStore \/ EnqueuePublish
Reader == DequeueCheck \/ DequeueFetch \/ DequeueAdvance

Next == Writer \/ Reader

Spec == Init /\ [][Next]_vars

-----------------------------------------------------------------------------
(* Correctness *)

TypeOK == /\ r \in Slots /\ w \in Slots /\ wnext \in Slots
          /\ q \in [Slots -> Msg \cup {NoMsg}]
          /\ wmsg \in Msg \cup {NoMsg} /\ rmsg \in Msg \cup {NoMsg}
          /\ got \in Msg \cup {NoMsg}
          /\ wpc \in {"idle", "store", "publish"}
          /\ rpc \in {"idle", "fetch", "advance"}
          /\ put \in {"ok", "full"}

\* The slot the writer is filling is never the slot the reader is fetching
\* from, although neither task takes a lock: what DequeueFetch returns is a
\* message whose publication it has seen, still in place when r moves past it.
SlotOwnership ==
    /\ wpc = "store" => (rpc = "idle" \/ r # w)
    /\ rpc # "idle" => q[r] \in Msg
    /\ rpc = "advance" => rmsg = q[r]

\* The queue the two tasks see: the slots from r up to w.
Held == (w - r) % QLen
Fifo == INSTANCE MsgFifo WITH
            fifo <- [i \in 1 .. Held |-> q[(r + i - 1) % QLen]],
            Cap  <- QLen - 1

\* Every step of the two tasks is a Put, a Take, or a refusal that the queue
\* really justified at that moment: no message is lost, doubled, reordered or
\* overwritten by interleaving enqueue_script_msg with dequeue_script_msg.
ImplementsFifo == Fifo!Spec
=============================================================================
