-------------------------------- MODULE Heap --------------------------------
(* What an allocator of one memory area promises: blocks of words inside the    *)
(* area that never overlap, each at least as large as what was asked for, and   *)
(* a refusal only when no stretch of free words is long enough.                *)
EXTENDS Integers

CONSTANTS Lo, Hi,   \* the area: words Lo .. Hi - 1
          Requests, \* sizes that are asked for
          Need,     \* words a request takes, its bookkeeping included
          Slack     \* words a block may have more than that

VARIABLES blocks,   \* the blocks in use: first word -> number of words
          ptr       \* what the last call returned: a block, or 0

\* the n words from a on are in no block
FreeStretch(a, n) ==
    /\ Lo <= a /\ a + n <= Hi
    /\ \A b \in DOMAIN blocks : a + n <= b \/ b + blocks[b] <= a

Init == blocks = [b \in {} |-> 0] /\ ptr = 0

Alloc(a, n) ==
    /\ FreeStretch(a, n)
    /\ blocks' = [b \in DOMAIN blocks \cup {a} |-> IF b = a THEN n ELSE blocks[b]]
    /\ ptr' = a

Refuse(r) ==
    /\ \A a \in Lo .. Hi - 1 : ~FreeStretch(a, Need[r])
    /\ ptr' = 0
    /\ UNCHANGED blocks

Release(a) ==
    /\ blocks' = [b \in DOMAIN blocks \ {a} |-> blocks[b]]
    /\ UNCHANGED ptr

Next == \/ \E r \in Requests : Refuse(r)
        \/ \E r \in Requests : \E a \in Lo .. Hi, n \in Need[r] .. Need[r] + Slack : Alloc(a, n)
        \/ \E a \in DOMAIN blocks : Release(a)

Spec == Init /\ [][Next]_<<blocks, ptr>>
=============================================================================
