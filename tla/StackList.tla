----------------------------- MODULE StackList -----------------------------
(* What action_stack.h promises: a set of live stacks, at most MaxStacks of *)
(* them, whose ids are never used again, and passes in which the keyboard    *)
(* task serves the stacks from the newest to the oldest.                    *)
EXTENDS Integers, FiniteSets

CONSTANTS MaxStacks, MaxId

VARIABLES live,   \* ids of the live stacks
          last,   \* the id handed out last
          served  \* the stack being served, 0 between passes

vars == <<live, last, served>>

Init == live = {} /\ last = 0 /\ served = 0

Create == /\ Cardinality(live) < MaxStacks
          /\ last < MaxId
          /\ last' = last + 1
          /\ live' = live \cup {last + 1}
          /\ UNCHANGED served

\* The stack being served may end another one, or itself.
Remove == /\ \E i \in live : live' = live \ {i}
          /\ UNCHANGED <<last, served>>

\* Start a pass, go on to the next older stack, or end the pass.  From the stack
\* served now no live stack is passed over.
Older(i) == {j \in live : served = 0 \/ j < i}

Serve == /\ served' = IF Older(served) = {} THEN 0
                      ELSE CHOOSE i \in Older(served) : \A j \in Older(served) : j <= i
         /\ UNCHANGED <<live, last>>

Next == Create \/ Remove \/ Serve

Spec == Init /\ [][Next]_vars
=============================================================================
