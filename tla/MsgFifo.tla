------------------------------ MODULE MsgFifo ------------------------------
(* What a PTP script message queue promises its two users: a bounded FIFO. *)
(* `put` is the result of the writer's last enqueue, `got` of the reader's *)
(* last dequeue.                                                            *)
EXTENDS Naturals, Sequences

CONSTANTS Msg,      \* messages
          NoMsg,    \* what a dequeue of an empty queue returns (NULL)
          Cap       \* messages the queue can hold

VARIABLES fifo, put, got

vars == <<fifo, put, got>>

Init == fifo = <<>> /\ put = "ok" /\ got = NoMsg

Put == /\ Len(fifo) < Cap
       /\ \E m \in Msg : fifo' = Append(fifo, m)
       /\ put' = "ok"
       /\ UNCHANGED got

Refuse == /\ Len(fifo) = Cap
          /\ put' = "full"
          /\ UNCHANGED <<fifo, got>>

Take == /\ fifo # <<>>
        /\ got' = Head(fifo)
        /\ fifo' = Tail(fifo)
        /\ UNCHANGED put

TakeNone == /\ fifo = <<>>
            /\ got' = NoMsg
            /\ UNCHANGED <<fifo, put>>

Next == Put \/ Refuse \/ Take \/ TakeNone

Spec == Init /\ [][Next]_vars
=============================================================================
