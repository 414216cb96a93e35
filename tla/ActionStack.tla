----------------------------- MODULE ActionStack -----------------------------
(* The action stacks of core/action_stack.c: a linked list of blocks that the  *)
(* keyboard task links, runs and unlinks, while the PTP task walks it to ask    *)
(* whether a script is running.  A step writes the list once, or reads it once.  *)
(*                                                                            *)
(* What the functions on a stack do is their caller's: here they wait, push,    *)
(* pop, end their own or a newer stack, or end it and start another one, which  *)
(* is what scripts, shooting and the USB remote make of them.                   *)
EXTENDS Integers, FiniteSets

CONSTANTS Block,     \* memory blocks for action_stack_t
          Null,
          MaxStacks, \* MAX_ACTION_STACKS
          MaxId,     \* bound: stacks created
          MaxDepth   \* bound: function entries on a stack

ASSUME BlockAssumption == Null \notin Block /\ MaxStacks \in Nat
ASSUME IdAssumption == MaxId \in Nat /\ MaxDepth \in Nat

VARIABLES
    next,     \* action_stack_t.next
    id,       \* action_stack_t.comp_id, 0 when finished
    ptr,      \* function entries on the stack less one, -1 when empty
    head,     \* action_stacks
    free,     \* free_stacks
    unused,   \* blocks not allocated yet
    num,      \* num_stacks
    taskId,   \* task_comp_id
    active,   \* active_stack
    saved,    \* `next` of action_stack_process_all
    pc, ret,  \* the keyboard task: position, where create or finish returns to
    blk,      \* the block create or finish works on
    wpc, wp, wid, \* action_stack_is_finished: position, p, comp_id
    answer,   \* its last answer
    cur,      \* history: the id active_stack had when its turn came
    wasLive   \* history: was wid alive when the question was asked?

listVars == <<next, id, ptr, head, free, unused, num, taskId>>
passVars == <<active, saved, pc, ret, blk, cur>>
walkVars == <<wpc, wp, wid, answer, wasLive>>
vars == <<listVars, passVars, walkVars>>

Init ==
    /\ next = [b \in Block |-> Null] /\ id = [b \in Block |-> 0]
    /\ ptr = [b \in Block |-> -1]
    /\ head = Null /\ free = Null /\ unused = Block /\ num = 0 /\ taskId = 1
    /\ active = Null /\ saved = Null /\ pc = "idle" /\ ret = "idle" /\ blk = Null
    /\ wpc = "idle" /\ wp = Null /\ wid = 0 /\ answer = "none"
    /\ cur = 0 /\ wasLive = FALSE

\* a set of blocks that no pointer leads out of
Closed(nx, S) == \A b \in S : nx[b] \in S \cup {Null}

\* the blocks that can be reached from b along the pointers nx
Reach(nx, b) == {c \in Block : \A S \in SUBSET Block : b \in S \cup {Null} /\ Closed(nx, S) => c \in S}

Listed(b) == Reach(next, b)

Live == {id[b] : b \in Listed(head)} \ {0}

-----------------------------------------------------------------------------
(* action_stack_create *)

\* slip: one stack too many
FullLate == num > MaxStacks

\* more than MAX_ACTION_STACKS: refused, nothing changes
Full == num = MaxStacks

CreateTake(to) ==
    /\ ~Full /\ taskId <= MaxId
    /\ \/ free # Null /\ blk' = free /\ free' = next[free] /\ UNCHANGED unused
       \/ free = Null /\ blk' \in unused /\ unused' = unused \ {blk'} /\ UNCHANGED free
    /\ next' = [next EXCEPT ![blk'] = Null]
    /\ id' = [id EXCEPT ![blk'] = 0]
    /\ ptr' = [ptr EXCEPT ![blk'] = 0]
    /\ pc' = "link" /\ ret' = to
    /\ UNCHANGED <<head, num, taskId, active, saved, cur, walkVars>>

CreateLink ==
    /\ pc = "link"
    /\ next' = [next EXCEPT ![blk] = head]
    /\ pc' = "insert"
    /\ UNCHANGED <<id, ptr, head, free, unused, num, taskId, active, saved, ret, blk, cur, walkVars>>

CreateInsert ==
    /\ pc = "insert"
    /\ head' = blk
    /\ pc' = "name"
    /\ UNCHANGED <<next, id, ptr, free, unused, num, taskId, active, saved, ret, blk, cur, walkVars>>

CreateName ==
    /\ pc = "name"
    /\ id' = [id EXCEPT ![blk] = taskId]
    /\ ptr' = [ptr EXCEPT ![blk] = 0]
    /\ num' = num + 1
    /\ taskId' = taskId + 1
    /\ pc' = ret
    /\ UNCHANGED <<next, head, free, unused, active, saved, ret, blk, cur, walkVars>>

-----------------------------------------------------------------------------
(* action_stack_finish, action_stack_kill *)

\* slip: a stack that was finished already is finished again
FinishAgain(b, to) ==
    /\ blk' = b /\ ret' = to
    /\ pc' = "unlink"

\* finish b and go on at `to`; a block finished already is left alone
FinishThen(b, to) ==
    /\ blk' = b /\ ret' = to
    /\ pc' = IF id[b] = 0 THEN to ELSE "unlink"

FinishUnlink ==
    /\ pc = "unlink"
    /\ IF blk = head
       THEN head' = next[head] /\ next' = next
       ELSE /\ head' = head
            /\ next' = [b \in Block |-> IF next[b] = blk /\ b \in Listed(head) THEN next[blk]
                                        ELSE next[b]]
    /\ pc' = "mark"
    /\ UNCHANGED <<id, ptr, free, unused, num, taskId, active, saved, ret, blk, cur, walkVars>>

\* slip: the id of a finished stack is left in its block
FinishUnmarked ==
    /\ pc = "mark"
    /\ num' = num - 1
    /\ ptr' = [ptr EXCEPT ![blk] = -1]
    /\ pc' = "free"
    /\ UNCHANGED <<next, id, head, free, unused, taskId, active, saved, ret, blk, cur, walkVars>>

FinishMark ==
    /\ pc = "mark"
    /\ num' = num - 1
    /\ id' = [id EXCEPT ![blk] = 0]
    /\ ptr' = [ptr EXCEPT ![blk] = -1]
    /\ pc' = "free"
    /\ UNCHANGED <<next, head, free, unused, taskId, active, saved, ret, blk, cur, walkVars>>

FinishFree ==
    /\ pc = "free"
    /\ next' = [next EXCEPT ![blk] = free]
    /\ free' = blk
    /\ pc' = ret
    /\ UNCHANGED <<id, ptr, head, unused, num, taskId, active, saved, ret, blk, cur, walkVars>>

-----------------------------------------------------------------------------
(* The keyboard task between passes: stacks are started, or killed by id *)

Start == pc = "idle" /\ CreateTake("idle")

StartRefused == pc = "idle" /\ Full /\ UNCHANGED vars

KillIdle ==
    /\ pc = "idle"
    /\ \E b \in Listed(head) : FinishThen(b, "idle")
    /\ UNCHANGED <<listVars, active, saved, cur, walkVars>>

-----------------------------------------------------------------------------
(* action_stack_process_all and action_stack_process *)

\* active_stack becomes b; the next one is saved before b is processed
StackBegin(b) ==
    /\ active' = b /\ cur' = IF b = Null THEN 0 ELSE id[b]
    /\ IF b = Null THEN pc' = "idle" /\ saved' = Null ELSE pc' = "call" /\ saved' = next[b]

PassBegin ==
    /\ pc = "idle" /\ head # Null
    /\ StackBegin(head)
    /\ UNCHANGED <<listVars, ret, blk, walkVars>>

\* slip: the next stack is read after the active one has been processed
PassNextUnsaved ==
    /\ pc = "next"
    /\ StackBegin(next[active])
    /\ UNCHANGED <<listVars, ret, blk, walkVars>>

PassNext ==
    /\ pc = "next"
    /\ StackBegin(saved)
    /\ UNCHANGED <<listVars, ret, blk, walkVars>>

Runs == pc = "call" /\ ptr[active] >= 0

\* the function on top waits for something: it returns 0
CallWait ==
    /\ Runs
    /\ pc' = "next"
    /\ UNCHANGED <<listVars, active, saved, ret, blk, cur, walkVars>>

\* it pops itself, or pushes another one, and returns 1
CallPop ==
    /\ Runs
    /\ ptr' = [ptr EXCEPT ![active] = @ - 1]
    /\ UNCHANGED <<next, id, head, free, unused, num, taskId, passVars, walkVars>>

CallPush ==
    /\ Runs /\ ptr[active] < MaxDepth
    /\ ptr' = [ptr EXCEPT ![active] = @ + 1]
    /\ UNCHANGED <<next, id, head, free, unused, num, taskId, passVars, walkVars>>

\* it ends the newest script, which is the one that runs or one started since
\* (script_end), and returns 1.  An entry that is no function ends its own stack the
\* same way.
CallEnd ==
    /\ Runs
    /\ \E b \in Listed(head) : id[b] >= id[active] /\ FinishThen(b, "call")
    /\ UNCHANGED <<listVars, active, saved, cur, walkVars>>

\* it ends its own stack, starts another one and returns 0 (lua_script_error)
CallRestart ==
    /\ Runs
    /\ FinishThen(active, "restart")
    /\ UNCHANGED <<listVars, active, saved, cur, walkVars>>

Restart == pc = "restart" /\ CreateTake("next")

\* the script does not compile any more, or there is no room
RestartFails ==
    /\ pc = "restart"
    /\ pc' = "next"
    /\ UNCHANGED <<listVars, active, saved, ret, blk, cur, walkVars>>

\* the stack is empty
Emptied ==
    /\ pc = "call" /\ ptr[active] < 0
    /\ FinishThen(active, "next")
    /\ UNCHANGED <<listVars, active, saved, cur, walkVars>>

-----------------------------------------------------------------------------
(* action_stack_is_finished in the PTP task: a script it knows of, by its id *)

Ask ==
    /\ wpc = "idle"
    /\ wid' \in 1 .. taskId - 1
    /\ wp' = head
    /\ wpc' = "look"
    /\ wasLive' = (wid' \in Live)
    /\ UNCHANGED <<listVars, passVars, answer>>

Look ==
    /\ wpc = "look" /\ wp # Null
    /\ IF id[wp] = wid
       THEN wpc' = "idle" /\ answer' = "alive"
       ELSE wpc' = "advance" /\ answer' = "none"
    /\ UNCHANGED <<listVars, passVars, wp, wid, wasLive>>

Advance ==
    /\ wpc = "advance"
    /\ wp' = next[wp]
    /\ wpc' = "look"
    /\ UNCHANGED <<listVars, passVars, wid, answer, wasLive>>

Finished ==
    /\ wpc = "look" /\ wp = Null
    /\ wpc' = "idle" /\ answer' = "finished"
    /\ UNCHANGED <<listVars, passVars, wp, wid, wasLive>>

-----------------------------------------------------------------------------
Kbd == \/ Start \/ StartRefused \/ KillIdle \/ CreateLink \/ CreateInsert \/ CreateName
       \/ FinishUnlink \/ FinishMark \/ FinishFree \/ PassBegin \/ PassNext
       \/ CallWait \/ CallPop \/ CallPush \/ CallEnd \/ CallRestart \/ Restart
       \/ RestartFails \/ Emptied

Ptp == Ask \/ Look \/ Advance \/ Finished

Next == Kbd \/ Ptp

Spec == Init /\ [][Next]_vars

-----------------------------------------------------------------------------
(* Properties *)

\* The blocks on neither list: malloc has them, or create or finish is between
\* taking them from one list and putting them on the other.
Surgery == IF pc \in {"link", "insert", "mark", "free"} THEN {blk} ELSE {}

\* Every pointer is a block or Null, every count within its bound.
TypeOK ==
    /\ next \in [Block -> Block \cup {Null}] /\ id \in [Block -> 0 .. MaxId]
    /\ ptr \in [Block -> -1 .. MaxDepth]
    /\ {head, free, active, saved, blk, wp} \subseteq Block \cup {Null}
    /\ unused \subseteq Block /\ num \in 0 .. MaxStacks /\ taskId \in 1 .. MaxId + 1
    /\ pc \in {"idle", "link", "insert", "name", "unlink", "mark", "free", "call", "next", "restart"}
    /\ ret \in {"idle", "call", "next", "restart"} /\ cur \in 0 .. MaxId
    /\ wpc \in {"idle", "look", "advance"} /\ wid \in 0 .. MaxId
    /\ answer \in {"none", "alive", "finished"} /\ wasLive \in BOOLEAN

\* Every block is in one place: listed, free, not allocated, or in the hands of
\* create or finish.  The list is ordered from the newest stack to the oldest,
\* num_stacks counts it, and an empty stack is listed only until its turn ends.
WellFormed ==
    /\ LET parts == <<Listed(head), Listed(free), unused, Surgery>>
       IN  /\ UNION {parts[k] : k \in 1 .. 4} = Block
           /\ \A j, k \in 1 .. 4 : j # k => parts[j] \cap parts[k] = {}
    /\ \A b \in Listed(head) : next[b] # Null => \/ id[b] > id[next[b]]
                                                 \/ pc = "name" /\ b = blk
    /\ pc \in {"idle", "call", "next", "restart"} => num = Cardinality(Listed(head))
    /\ pc = "idle" => \A b \in Listed(head) : ptr[b] >= 0

\* A stack the PTP task is told is alive was alive when it asked, although the
\* list may have been cut under it on the way.
AliveRight == wpc = "idle" /\ answer = "alive" => wasLive

\* A stack the PTP task is told is finished has finished.
FinishedRight == [][answer' = "finished" /\ wpc = "look" /\ wpc' = "idle" => wid \notin Live]_vars

List == INSTANCE StackList WITH live <- Live, last <- taskId - 1, served <- cur

\* The linked list is a set of ids, served from the newest to the oldest: a pass
\* serves no stack twice and misses none, whatever is ended or started in it.
ImplementsStackList == List!Spec
=============================================================================
