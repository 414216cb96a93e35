------------------------ MODULE ScriptControlProofs ------------------------
(* Proofs about ScriptControl, for every number of scripts and requests.    *)
EXTENDS ScriptControl, TLAPS, WellFoundedInduction, FiniteSetTheorems

\* A non-empty set of numbers below a number has a greatest member.
LEMMA Greatest ==
    ASSUME NEW id \in Nat, NEW S \in SUBSET Nat, S # {}, \A n \in S : n < id
    PROVE  \E n \in S : \A m \in S : m <= n
<1> DEFINE T == {id - n : n \in S}
<1>1. T \subseteq Nat /\ T # {}
  <2>1. \A n \in S : n \in Nat /\ n < id
    OBVIOUS
  <2>2. \A n \in Nat : n < id => id - n \in Nat
    OBVIOUS
  <2> QED BY <2>1, <2>2
<1>2. PICK x \in T : \A y \in T : <<y, x>> \notin OpToRel(<, Nat)
  BY <1>1, NatLessThanWellFounded, WFMin
<1>3. \A y \in T : ~ (y < x)
  BY <1>1, <1>2 DEF OpToRel
<1>4. PICK n \in S : x = id - n
  OBVIOUS
<1>5. \A m \in S : m <= n
  <2> SUFFICES ASSUME NEW m \in S PROVE m <= n
    OBVIOUS
  <2>1. id - m \in T
    OBVIOUS
  <2>2. ~ (id - m < id - n)
    BY <2>1, <1>3, <1>4
  <2>3. m \in Nat /\ n \in Nat
    OBVIOUS
  <2> HIDE DEF T
  <2> QED BY <2>2, <2>3
<1> QED BY <1>5

\* active_stack moves to a stack of the list or to its end (action_stack.c).
LEMMA AfterInList ==
    ASSUME Ids \subseteq Nat, NEW id \in Nat
    PROVE  After(id) \in Ids \cup {0}
<1> DEFINE Older == {n \in Ids : n < id}
<1>1. CASE Older = {}
  BY <1>1 DEF After
<1>2. CASE Older # {}
  <2>1. \E n \in Older : \A m \in Older : m <= n
    BY <1>2, Greatest
  <2> QED BY <1>2, <2>1 DEF After
<1> QED BY <1>1, <1>2

-----------------------------------------------------------------------------
(* Without dialogs and scripts the user starts: host scripts run alone.       *)

\* The inductive invariant.  While there is a script, its stack is the only one,
\* it is the one remembered in running_script_stack_name, and the interpreter
\* holds its program; a state flag that says otherwise can only be the terminate
\* key pressed with no script, on its way to script_end.
HostInv ==
    /\ nextId \in Nat \ {0}
    /\ Ids \subseteq Nat \ {0} /\ \A i \in Ids : i < nextId
    /\ kcur \in Nat
    /\ interp.lang = "lua" /\ interp = [lang |-> interp.lang, of |-> interp.of]
    /\ dialog = NoDialog
    /\ \A i \in Ids : stacks[i] = "script"
    /\ kpc \notin {"starting", "restart", "opening"} /\ kret \in {"check", "keys", "stacks", "finish"}
    /\ kpc = "process" => kcur \in Ids
    /\ kpc = "ending" => run = "inactive"
    /\ kpc = "finish" => Ids = {}
    /\ \/ Ids = {} /\ (run # "inactive" => kpc = "restore")
       \/ Ids = {name} /\ interp.of = name /\ (run # "inactive" \/ kpc = "ending")
    /\ ppc = "flush" \/ script => Ids = {} \/ kpc = "ending"
    /\ script => ppc = "started"

HostEnv == Env \subseteq {"key", "alt"}

\* The initial state of camera_info and of the tasks.
LEMMA HostInit == Init => HostInv
BY DEF Init, HostInv, Ids, NoDialog

\* One step of the keyboard task up to the action stacks.
LEMMA HostKeys ==
    ASSUME HostEnv, HostInv,
           \/ CheckTerminate \/ EarlyReturn \/ AltButton \/ KeysPass \/ GuiPass
           \/ GuiStart \/ TerminateKey \/ Restore \/ DialogExit
           \/ EndFinish \/ StartGuiFinish
    PROVE  HostInv'
<1> USE DEF HostInv, Ids
<1>1. CASE CheckTerminate
  BY <1>1 DEF CheckTerminate, EndBegin, langVars, guiVars, handVars, ptpVars
<1>2. CASE EarlyReturn
  BY <1>2 DEF EarlyReturn, scriptVars, langVars, guiVars, handVars, ptpVars
<1>3. CASE AltButton
  BY <1>3 DEF AltButton, scriptVars, langVars, guiVars, handVars, ptpVars
<1>4. CASE KeysPass
  BY <1>4 DEF KeysPass, scriptVars, langVars, guiVars, handVars, ptpVars
<1>5. CASE GuiPass
  BY <1>5 DEF GuiPass, scriptVars, langVars, guiVars, handVars, ptpVars
<1>6. ~ GuiStart /\ ~ DialogExit /\ ~ StartGuiFinish
  BY DEF HostEnv, GuiStart, DialogExit, StartGuiFinish, NoDialog
<1>7. CASE TerminateKey
  BY <1>7 DEF TerminateKey, EndBegin, langVars, guiVars, handVars, ptpVars
<1>8. CASE Restore
  BY <1>8 DEF Restore, EndBegin, guiVars, handVars, ptpVars
<1>9. CASE EndFinish
  BY <1>9 DEF EndFinish, ScriptReset, Kill, handVars, ptpVars
<1> QED BY <1>1, <1>2, <1>3, <1>4, <1>5, <1>6, <1>7, <1>8, <1>9

\* One step of the keyboard task over the action stacks and after them.
LEMMA HostStacks ==
    ASSUME HostEnv, HostInv,
           \/ StacksBegin \/ StacksNext \/ StackFinish \/ WaitModule \/ ScriptRun
           \/ Restart \/ ScriptOpensDialog \/ OpenDialog \/ KbdStart \/ NoPtpScript
    PROVE  HostInv'
<1> USE DEF HostInv
<1>1. CASE StacksBegin
  <2>1. After(nextId) \in Ids \cup {0}
    BY AfterInList
  <2> QED BY <1>1, <2>1 DEF StacksBegin, Visit, Ids, scriptVars, langVars, guiVars, handVars, ptpVars
<1>2. CASE StacksNext
  <2>1. After(kcur) \in Ids \cup {0}
    BY AfterInList
  <2> QED BY <1>2, <2>1 DEF StacksNext, Visit, Ids, scriptVars, langVars, guiVars, handVars, ptpVars
<1>3. CASE StackFinish
  BY <1>3 DEF StackFinish, Kill, Ids, langVars, guiVars, handVars, ptpVars
<1>4. ~ WaitModule /\ ~ Restart /\ ~ ScriptOpensDialog /\ ~ OpenDialog
  BY DEF HostEnv, WaitModule, Waiting, Restart, ScriptOpensDialog, OpenDialog
<1>5. CASE ScriptRun
  BY <1>5 DEF ScriptRun, RunsScript, EndBegin, HostEnv, Ids, guiVars, handVars, ptpVars
<1>6. ASSUME NEW c \in BOOLEAN, StartPtp(c) PROVE HostInv'
  <2>1. Ids = {}
    BY <1>6 DEF StartPtp
  <2>2. CASE c
    <3>1. /\ stacks' = [i \in {nextId} |-> "script"]
          /\ nextId' = nextId + 1 /\ name' = nextId
          /\ interp' = [lang |-> "lua", of |-> nextId]
          /\ run' = "ran" /\ script' = FALSE /\ kpc' = "check"
      BY <1>6, <2>1, <2>2 DEF StartPtp, StackStart, Push, Ids
    <3>2. UNCHANGED <<kcur, kret, dialog, ppc>>
      BY <1>6 DEF StartPtp, ptpVars
    <3>3. ppc # "flush"
      BY <1>6 DEF StartPtp
    <3> QED BY <3>1, <3>2, <3>3 DEF Ids
  <2>3. CASE ~c
    BY <1>6, <2>1, <2>3 DEF StartPtp, Ids, ptpVars
  <2> QED BY <2>2, <2>3
<1>7. CASE NoPtpScript
  BY <1>7 DEF NoPtpScript, Ids, scriptVars, langVars, guiVars, handVars, ptpVars
<1> QED BY <1>1, <1>2, <1>3, <1>4, <1>5, <1>6, <1>7 DEF KbdStart

\* One step of spytask or of the PTP task.
LEMMA HostOthers ==
    ASSUME HostEnv, HostInv, Spy \/ Ptp \/ UNCHANGED vars
    PROVE  HostInv'
<1> USE DEF HostInv, Ids
<1>1. CASE Spy
  <2>1. ~ SpyUnload
    BY DEF SpyUnload, NoDialog
  <2>2. CASE SpyLeave
    <3>1. dialog' = NoDialog /\ run' = run
      BY <2>2 DEF SpyLeave, NoDialog
    <3> QED BY <2>2, <3>1 DEF SpyLeave, handVars, kbdVars, ptpVars
  <2>3. CASE SpyLook \/ SpyEnter \/ SpyReset
    <3>1. UNCHANGED <<scriptVars, langVars, dialog, handVars, kbdVars, ptpVars>>
      BY <2>3 DEF SpyLook, SpyEnter, SpyReset, guiVars
    <3> QED BY <3>1 DEF scriptVars, langVars, handVars, kbdVars, ptpVars
  <2> QED BY <1>1, <2>1, <2>2, <2>3 DEF Spy
<1>2. CASE Ptp
  <2> USE DEF PtpUnchanged, scriptVars, langVars, guiVars, handVars, kbdVars
  <2>0. ASSUME PtpUnchanged, UNCHANGED script, script => ppc' = ppc, ppc' = "flush" => run = "inactive"
        PROVE  HostInv'
    <3>1. UNCHANGED <<run, name, stacks, nextId, interp, dialog, kpc, kret, kcur, script>>
      BY <2>0
    <3>2. ppc' = "flush" \/ script => Ids = {} \/ kpc = "ending"
      BY <2>0
    <3> HIDE DEF PtpUnchanged
    <3> QED BY ONLY HostInv, <2>0, <3>1, <3>2 DEF HostInv, Ids, NoDialog
  <2>1. ASSUME NEW nk \in BOOLEAN, ExecuteScript(nk) PROVE HostInv'
    BY <2>0, <2>1 DEF ExecuteScript
  <2>2. CASE Terminate \/ PollTerminated
    BY <2>0, <2>2 DEF Terminate, PollTerminated
  <2>3. CASE RequestTerminate
    BY <2>3 DEF RequestTerminate
  <2>4. CASE PostScript
    BY <2>4 DEF PostScript
  <2>5. CASE Answer
    BY <2>0, <2>5 DEF Answer
  <2> QED BY <1>2, <2>1, <2>2, <2>3, <2>4, <2>5 DEF Ptp
<1>3. CASE UNCHANGED vars
  BY <1>3 DEF vars, scriptVars, langVars, guiVars, handVars, kbdVars, ptpVars
<1> QED BY <1>1, <1>2, <1>3

LEMMA HostInvariant == ASSUME HostEnv PROVE Spec => []HostInv
<1>1. HostInv /\ [Next]_vars => HostInv'
  BY HostKeys, HostStacks, HostOthers DEF Next, Kbd
<1> QED BY HostInit, <1>1, PTL DEF Spec

\* With the host and the terminate key only, and the ALT button pressed at any
\* time, start_ptp_script never adds a second script stack to the list.
THEOREM HostScriptsAlone == ASSUME HostEnv PROVE Spec => []OneScript
<1>1. HostInv => OneScript
  BY DEF HostInv, OneScript
<1> QED BY HostInvariant, <1>1, PTL

\* The program the interpreter holds is that of the stack that will run it.
THEOREM HostOwnProgram == ASSUME HostEnv PROVE Spec => []OwnProgram
<1>1. HostInv => OwnProgram
  BY DEF HostInv, OwnProgram
<1> QED BY HostInvariant, <1>1, PTL

\* When ExecuteScript empties the inbound queue no script is left that reads it.
THEOREM HostFlushSafe == ASSUME HostEnv PROVE Spec => []FlushSafe
<1>1. HostInv => FlushSafe
  BY DEF HostInv, FlushSafe
<1> QED BY HostInvariant, <1>1, PTL

-----------------------------------------------------------------------------
(* A termination request stands, whatever dialogs and keys do.               *)

NoUserStart == "start" \notin Env /\ "restart" \notin Env

\* While the PTP task polls, the request is set, and nothing is posted that the
\* keyboard task could start, which would clear it.
RequestInv ==
    /\ ppc = "poll" => termReq
    /\ script => ppc = "started"
    /\ kpc \notin {"restart", "starting"}
    /\ kret \notin {"restart", "starting"}

LEMMA RequestStep == ASSUME NoUserStart, RequestInv, [Next]_vars PROVE RequestInv'
<1> USE DEF RequestInv
<1>1. ~ GuiStart /\ ~ Restart /\ ~ StartGuiFinish
  BY DEF NoUserStart, GuiStart, Restart, StartGuiFinish
<1>2. CASE CheckTerminate \/ EarlyReturn \/ AltButton \/ KeysPass \/ GuiPass
  <2>1. UNCHANGED <<termReq, script, ppc>>
    BY <1>2 DEF CheckTerminate, EarlyReturn, AltButton, KeysPass, GuiPass, scriptVars,
                handVars, ptpVars
  <2>2. kpc' \notin {"restart", "starting"} /\ kret' \notin {"restart", "starting"}
    BY <1>2 DEF CheckTerminate, EarlyReturn, AltButton, KeysPass, GuiPass, EndBegin
  <2> QED BY <2>1, <2>2
<1>3. CASE TerminateKey \/ Restore \/ DialogExit \/ EndFinish
  <2>1. UNCHANGED <<termReq, script, ppc>>
    BY <1>3 DEF TerminateKey, Restore, DialogExit, EndFinish, handVars, ptpVars
  <2>2. kpc' \notin {"restart", "starting"} /\ kret' \notin {"restart", "starting"}
    BY <1>3 DEF TerminateKey, Restore, DialogExit, AfterDialog, EndFinish, EndBegin
  <2> QED BY <2>1, <2>2
<1>4. CASE StacksBegin \/ StacksNext \/ StackFinish \/ WaitModule \/ NoPtpScript
  <2>1. UNCHANGED <<termReq, script, ppc, kret>>
    BY <1>4 DEF StacksBegin, StacksNext, StackFinish, WaitModule, NoPtpScript, scriptVars,
                handVars, ptpVars
  <2>2. kpc' \notin {"restart", "starting"}
    BY <1>4 DEF StacksBegin, StacksNext, StackFinish, WaitModule, NoPtpScript, Visit
  <2> QED BY <2>1, <2>2
<1>5. CASE ScriptRun \/ ScriptOpensDialog \/ OpenDialog
  <2>1. UNCHANGED <<termReq, script, ppc>>
    BY <1>5 DEF ScriptRun, ScriptOpensDialog, OpenDialog, handVars, ptpVars
  <2>2. kpc' \notin {"restart", "starting"} /\ kret' \notin {"restart", "starting"}
    BY <1>5 DEF ScriptRun, ScriptOpensDialog, OpenDialog, EndBegin, NoUserStart
  <2> QED BY <2>1, <2>2
<1>6. CASE KbdStart
  BY <1>6 DEF KbdStart, StartPtp, ptpVars
<1>7. CASE Spy
  <2>1. UNCHANGED <<termReq, script, ppc, kpc, kret>>
    BY <1>7 DEF Spy, SpyLook, SpyEnter, SpyLeave, SpyReset, SpyUnload, scriptVars, handVars,
                kbdVars, ptpVars
  <2> QED BY <2>1
<1>8. CASE Ptp
  <2>1. kpc' = kpc /\ kret' = kret
    BY <1>8 DEF Ptp, ExecuteScript, Terminate, RequestTerminate, PollTerminated, PostScript,
                Answer, PtpUnchanged, kbdVars
  <2>2. ASSUME NEW nk \in BOOLEAN, ExecuteScript(nk) PROVE RequestInv'
    BY <2>1, <2>2 DEF ExecuteScript, PtpUnchanged, handVars
  <2>3. CASE Terminate \/ RequestTerminate \/ PollTerminated
    BY <2>1, <2>3 DEF Terminate, RequestTerminate, PollTerminated, PtpUnchanged, handVars
  <2>4. CASE PostScript \/ Answer
    BY <2>1, <2>4 DEF PostScript, Answer, PtpUnchanged, handVars
  <2> QED BY <1>8, <2>2, <2>3, <2>4 DEF Ptp
<1>9. CASE UNCHANGED vars
  BY <1>9 DEF vars, scriptVars, handVars, kbdVars, ptpVars
<1> QED BY <1>1, <1>2, <1>3, <1>4, <1>5, <1>6, <1>7, <1>8, <1>9 DEF Next, Kbd

\* Unless scripts are started in another way meanwhile, script_wait_terminate
\* waits with its request set: the next pass of kbd_process that finds a script
\* running ends it.
THEOREM RequestKept == ASSUME NoUserStart PROVE Spec => []RequestStands
<1>1. Init => RequestInv
  BY DEF Init, RequestInv
<1>2. RequestInv /\ [Next]_vars => RequestInv'
  BY RequestStep
<1>3. RequestInv => RequestStands
  BY DEF RequestInv, RequestStands
<1> QED BY <1>1, <1>2, <1>3, PTL DEF Spec

-----------------------------------------------------------------------------
(* The state flag says "ran" only for a script that has a stack.             *)

NoDialogs == "dialog" \notin Env

\* script_end sets the state before it kills the stack, script_stack_start makes
\* the stack before other tasks look, and nothing else but a dialog sets "ran".
RanInv ==
    /\ dialog = NoDialog
    /\ run = "ran" => name \in Ids
    /\ kpc \in {"ending", "finish", "restart"} => run = "inactive"
    /\ kpc = "starting" => kret \in {"stacks", "walk"}
    /\ kret \notin {"ending", "starting", "opening"} /\ kpc # "opening"

LEMMA RanStep == ASSUME NoDialogs, RanInv, [Next]_vars PROVE RanInv'
<1> USE DEF RanInv, Ids
<1>1. ~ DialogExit /\ ~ ScriptOpensDialog /\ ~ OpenDialog /\ ~ SpyUnload
  BY DEF NoDialogs, DialogExit, ScriptOpensDialog, OpenDialog, SpyUnload, NoDialog
<1>2. CASE CheckTerminate
  <2>1. UNCHANGED <<dialog, stacks, name>>
    BY <1>2 DEF CheckTerminate, guiVars
  <2>2. \/ run' = run /\ kret' = kret /\ kpc' = "keys"
        \/ run' = "inactive" /\ kret' = "keys" /\ kpc' = "ending"
    BY <1>2 DEF CheckTerminate, EndBegin
  <2> QED BY <2>1, <2>2
<1>15. CASE EarlyReturn \/ AltButton \/ KeysPass \/ GuiPass
  <2>1. UNCHANGED <<dialog, stacks, name, run, kret>>
    BY <1>15 DEF EarlyReturn, AltButton, KeysPass, GuiPass, scriptVars, guiVars
  <2>2. kpc' \in {"check", "keys", "gui", "stacks"}
    BY <1>15 DEF EarlyReturn, AltButton, KeysPass, GuiPass
  <2> QED BY <2>1, <2>2
<1>3. CASE GuiStart \/ Restart
  <2>1. UNCHANGED <<dialog, stacks, name, run>> /\ kret' \in {"stacks", "walk"}
    BY <1>3 DEF GuiStart, Restart, StartGui, guiVars
  <2>2. kpc' \in {"starting", "stacks", "walk"}
    BY <1>3 DEF GuiStart, Restart
  <2> QED BY <2>1, <2>2
<1>4. CASE TerminateKey \/ Restore
  <2>1. UNCHANGED <<dialog, stacks, name>>
    BY <1>4 DEF TerminateKey, Restore, guiVars
  <2>2. \/ run' = "inactive" /\ kret' = "stacks" /\ kpc' = "ending"
        \/ run' = "interrupted" /\ kret' = kret /\ kpc' = "restore"
        \/ run' = run /\ kret' = kret /\ kpc' = "stacks"
    BY <1>4 DEF TerminateKey, Restore, EndBegin
  <2> QED BY <2>1, <2>2
<1>5. CASE EndFinish
  <2>1. run' = "inactive" /\ dialog' = dialog /\ kret' = kret /\ kpc' = kret
    BY <1>5 DEF EndFinish
  <2> QED BY <2>1
<1>6. CASE StartGuiFinish
  <2>1. name' \in DOMAIN stacks' /\ dialog' = dialog
    BY <1>6 DEF StartGuiFinish, StackStart, Push, guiVars
  <2>2. kpc' = kret /\ kret' = kret /\ run' = "ran" /\ kret \in {"stacks", "walk"}
    BY <1>6 DEF StartGuiFinish, StackStart
  <2> QED BY <2>1, <2>2
<1>7. CASE StacksBegin \/ StacksNext \/ NoPtpScript
  BY <1>7 DEF StacksBegin, StacksNext, NoPtpScript, Visit, scriptVars, guiVars
<1>8. CASE StackFinish
  <2>1. run = "inactive"
    BY <1>8 DEF StackFinish
  <2> QED BY <1>8, <2>1 DEF StackFinish, guiVars
<1>9. CASE WaitModule
  <2>1. DOMAIN stacks \subseteq DOMAIN stacks'
    BY <1>9 DEF WaitModule, Push
  <2> QED BY <1>9, <2>1 DEF WaitModule, guiVars
<1>10. CASE ScriptRun
  <2>1. UNCHANGED <<dialog, stacks, name>>
    BY <1>10 DEF ScriptRun, guiVars
  <2>2. \/ run' = run /\ kret' = kret /\ kpc' = "walk"
        \/ run' = "inactive" /\ kret' \in {"finish", "restart"} /\ kpc' = "ending"
    BY <1>10 DEF ScriptRun, EndBegin
  <2> QED BY <2>1, <2>2
<1>11. ASSUME NEW c \in BOOLEAN, StartPtp(c) PROVE RanInv'
  <2>1. dialog' = dialog /\ kret' = kret /\ kpc' = "check"
    BY <1>11 DEF StartPtp
  <2>2. CASE c
    BY <1>11, <2>1, <2>2 DEF StartPtp, StackStart, Push
  <2>3. CASE ~c
    BY <1>11, <2>1, <2>3 DEF StartPtp
  <2> QED BY <2>2, <2>3
<1>12. CASE Spy
  <2>1. UNCHANGED <<name, stacks, kpc, kret>>
    BY <1>12 DEF Spy, SpyLook, SpyEnter, SpyLeave, SpyReset, SpyUnload, scriptVars, kbdVars
  <2>2. run' = run /\ dialog' = NoDialog
    BY <1>1, <1>12 DEF Spy, SpyLook, SpyEnter, SpyLeave, SpyReset, scriptVars, guiVars, NoDialog
  <2> QED BY <2>1, <2>2
<1>13. CASE Ptp
  <2>1. UNCHANGED <<name, stacks, run, dialog, kpc, kret>>
    BY <1>13 DEF Ptp, ExecuteScript, Terminate, RequestTerminate, PollTerminated, PostScript,
                 Answer, PtpUnchanged, scriptVars, guiVars, kbdVars
  <2> QED BY <2>1
<1>14. CASE UNCHANGED vars
  BY <1>14 DEF vars, scriptVars, guiVars, kbdVars
<1> QED BY <1>1, <1>2, <1>3, <1>4, <1>5, <1>6, <1>7, <1>8, <1>9, <1>10, <1>11, <1>12,
           <1>13, <1>14, <1>15 DEF Next, Kbd, KbdStart

\* Unless a script opens a dialog, whatever the user, the host and the restart
\* option start at whatever moment, a script in state "ran" has its stack.
THEOREM RanScriptsRun == ASSUME NoDialogs PROVE Spec => []RanHasStack
<1>1. Init => RanInv
  BY DEF Init, RanInv, Ids
<1>2. RanInv /\ [Next]_vars => RanInv'
  BY RanStep
<1>3. RanInv => RanHasStack
  BY DEF RanInv, RanHasStack
<1> QED BY <1>1, <1>2, <1>3, PTL DEF Spec

-----------------------------------------------------------------------------
(* Type correctness                                                          *)

\* TypeOK, and what it takes to keep it: the keyboard task processes a stack of
\* the list, and a script or a request that was let in is still below its bound.
TypeInv ==
    /\ TypeOK
    /\ kpc \in {"process", "opening"} => kcur \in Ids
    /\ kpc = "starting" => nextId <= MaxScripts
    /\ kret \notin {"process", "opening", "starting"}
    /\ ppc \in {"terminate", "request", "poll", "flush"} => runId < MaxRequests

\* Pushing on a stack of the list, or making one, and killing one.
LEMMA StacksTyped ==
    ASSUME ScriptTypes, NEW id \in Ids \cup {nextId}, NEW t \in Tops
    PROVE  /\ Push(id, t) \in [Ids \cup {id} -> Tops]
           /\ DOMAIN Push(id, t) = Ids \cup {id}
           /\ Kill(id) \in [Ids \ {id} -> Tops]
           /\ DOMAIN Kill(id) = Ids \ {id}
<1>1. stacks \in [Ids -> Tops]
  BY DEF ScriptTypes, Ids
<1>2. Push(id, t) \in [Ids \cup {id} -> Tops] /\ DOMAIN Push(id, t) = Ids \cup {id}
  BY <1>1 DEF Push
<1>3. Kill(id) \in [Ids \ {id} -> Tops] /\ DOMAIN Kill(id) = Ids \ {id}
  BY <1>1 DEF Kill
<1> QED BY <1>2, <1>3

\* The script's state: script_start_gui, start_ptp_script and script_end.
LEMMA ScriptTyped == ASSUME TypeInv, [Next]_vars PROVE ScriptTypes'
<1> USE BoundAssumption
<1>0. ScriptTypes
  BY DEF TypeInv, TypeOK
<1>1. CASE UNCHANGED scriptVars
  BY <1>0, <1>1 DEF ScriptTypes, scriptVars, Ids
<1>2. ASSUME UNCHANGED <<name, oldGui, stacks, nextId>>, termReq' \in BOOLEAN,
             run' \in {"inactive", "ran", "interrupted"}
      PROVE  ScriptTypes'
  BY <1>0, <1>2 DEF ScriptTypes, Ids
<1>3. CASE CheckTerminate \/ TerminateKey \/ Restore \/ ScriptRun
  BY <1>0, <1>2, <1>3 DEF CheckTerminate, TerminateKey, Restore, ScriptRun, EndBegin, ScriptTypes
<1>4. CASE DialogExit \/ SpyLeave \/ RequestTerminate
  BY <1>0, <1>2, <1>4 DEF DialogExit, SpyLeave, RequestTerminate, Selected, ScriptTypes
<1>5. CASE GuiStart \/ Restart
  <2>1. UNCHANGED <<run, name, stacks, nextId>>
    BY <1>5 DEF GuiStart, Restart
  <2>2. oldGui' \in {oldGui, gui} /\ termReq' \in {termReq, FALSE}
    BY <1>5 DEF GuiStart, Restart, StartGui
  <2>3. gui \in {"none", "alt", "script", "module"}
    BY DEF TypeInv, TypeOK, GuiTypes
  <2> QED BY <1>0, <2>1, <2>2, <2>3 DEF ScriptTypes, Ids
<1>6. CASE EndFinish
  <2>1. UNCHANGED <<run, termReq, nextId>> /\ oldGui' = "null" /\ name' = -1
    BY <1>6 DEF EndFinish
  <2>2. stacks' \in [Ids \ {name} -> Tops] /\ DOMAIN stacks' = Ids \ {name}
    BY <1>0, <1>6 DEF EndFinish, Kill, ScriptTypes, Ids
  <2> QED BY <1>0, <2>1, <2>2 DEF ScriptTypes, Ids
<1>7. ASSUME StackStart, nextId <= MaxScripts, termReq' \in BOOLEAN, oldGui' = oldGui
      PROVE  ScriptTypes'
  <2>1. stacks' \in [Ids \cup {nextId} -> Tops]
        /\ DOMAIN stacks' = Ids \cup {nextId}
    BY <1>0, <1>7, StacksTyped DEF StackStart, Tops
  <2> QED BY <1>0, <1>7, <2>1 DEF StackStart, ScriptTypes, Ids
<1>8. CASE StartGuiFinish
  BY <1>0, <1>7, <1>8 DEF StartGuiFinish, TypeInv, ScriptTypes
<1>9. ASSUME NEW c \in BOOLEAN, StartPtp(c) PROVE ScriptTypes'
  <2>1. CASE c
    BY <1>7, <1>9, <2>1 DEF StartPtp
  <2>2. CASE ~c
    BY <1>1, <1>9, <2>2 DEF StartPtp, scriptVars
  <2> QED BY <2>1, <2>2
<1>10. CASE StackFinish
  <2>1. stacks' \in [Ids \ {kcur} -> Tops] /\ DOMAIN stacks' = Ids \ {kcur}
    BY <1>0, <1>10 DEF StackFinish, Kill, ScriptTypes, Ids
  <2> QED BY <1>0, <1>10, <2>1 DEF StackFinish, ScriptTypes, Ids
<1>16. CASE ScriptOpensDialog
  BY <1>0, <1>2, <1>16 DEF ScriptOpensDialog, ScriptTypes
<1>11. CASE WaitModule \/ OpenDialog
  <2>1. kcur \in Ids
    BY <1>11 DEF WaitModule, OpenDialog, TypeInv
  <2>2. stacks' \in [Ids -> Tops] /\ DOMAIN stacks' = Ids
    <3>1. stacks' \in {stacks, Push(kcur, "script"), Push(kcur, "module"), Push(kcur, "stranded")}
      BY <1>11 DEF WaitModule, OpenDialog, Opened, NotLoaded
    <3>2. Ids \cup {kcur} = Ids
      BY <2>1
    <3>3. stacks \in [Ids -> Tops] /\ DOMAIN stacks = Ids
      BY <1>0 DEF ScriptTypes, Ids
    <3>4. \A t \in Tops :
             /\ Push(kcur, t) \in [Ids -> Tops] /\ DOMAIN Push(kcur, t) = Ids
      BY <1>0, <2>1, <3>2, StacksTyped
    <3>5. "script" \in Tops /\ "module" \in Tops /\ "stranded" \in Tops
      BY DEF Tops, Waiting
    <3> QED BY ONLY <3>1, <3>3, <3>4, <3>5
  <2>3. UNCHANGED <<termReq, name, oldGui, nextId>> /\ run' \in {run, "ran"}
    BY <1>11 DEF WaitModule, OpenDialog, Opened, NotLoaded, Selected
  <2> QED BY <1>0, <2>2, <2>3 DEF ScriptTypes, Ids
<1>12. CASE \/ EarlyReturn \/ AltButton \/ KeysPass \/ GuiPass \/ StacksBegin \/ StacksNext
            \/ NoPtpScript
  BY <1>1, <1>12 DEF EarlyReturn, AltButton, KeysPass, GuiPass, StacksBegin, StacksNext, NoPtpScript
<1>13. CASE SpyLook \/ SpyEnter \/ SpyReset \/ SpyUnload
  BY <1>1, <1>13 DEF SpyLook, SpyEnter, SpyReset, SpyUnload
<1>14. ASSUME NEW nk \in BOOLEAN,
              ExecuteScript(nk) \/ Terminate \/ PollTerminated \/ PostScript \/ Answer
       PROVE  ScriptTypes'
  BY <1>1, <1>14 DEF ExecuteScript, Terminate, PollTerminated, PostScript, Answer, PtpUnchanged
<1>15. CASE UNCHANGED vars
  BY <1>1, <1>15 DEF vars
<1> QED
  BY <1>3, <1>4, <1>5, <1>6, <1>8, <1>9, <1>10, <1>11, <1>12, <1>13, <1>14, <1>15, <1>16
  DEF Next, Kbd, KbdStart, Spy, Ptp

\* The language module: loaded with a program, or reset.
LEMMA LangTyped == ASSUME TypeInv, [Next]_vars PROVE LangTypes'
<1> USE BoundAssumption
<1>0. LangTypes
  BY DEF TypeInv, TypeOK
<1>1. CASE UNCHANGED langVars
  BY <1>0, <1>1 DEF LangTypes, langVars
<1>2. nextId \in 1 .. MaxScripts + 1
  BY DEF TypeInv, TypeOK, ScriptTypes
<1>3. CASE GuiStart \/ Restart
  <2>1. PICK lang \in Langs, compiles \in BOOLEAN : StartGui(lang, compiles)
    BY <1>3 DEF GuiStart, Restart
  <2>2. savedAlt' = savedAlt
    BY <1>3 DEF GuiStart, Restart
  <2>3. (IF compiles THEN nextId ELSE 0) \in 0 .. MaxScripts
    BY <1>2, <2>1 DEF StartGui
  <2> QED BY <1>0, <2>1, <2>2, <2>3 DEF StartGui, LangTypes
<1>4. ASSUME NEW c \in BOOLEAN, StartPtp(c) PROVE LangTypes'
  <2>1. \E n \in 0 .. MaxScripts : interp' = [lang |-> "lua", of |-> n]
    <3>1. CASE c
      BY <1>2, <1>4, <3>1 DEF StartPtp
    <3>2. CASE ~c
      BY <1>4, <3>2 DEF StartPtp
    <3> QED BY <3>1, <3>2
  <2>2. isPtp' \in BOOLEAN /\ savedAlt' \in BOOLEAN
    BY <1>4 DEF StartPtp
  <2> QED BY <2>1, <2>2 DEF LangTypes, Langs
<1>5. CASE EndFinish
  <2>1. interp' = [interp EXCEPT !.of = 0] /\ UNCHANGED <<isPtp, savedAlt>>
    BY <1>5 DEF EndFinish, ScriptReset
  <2> QED BY <1>0, <2>1 DEF LangTypes
<1>6. CASE \/ CheckTerminate \/ EarlyReturn \/ AltButton \/ KeysPass \/ GuiPass \/ TerminateKey
           \/ Restore \/ DialogExit \/ StacksBegin \/ StacksNext \/ StackFinish \/ WaitModule
           \/ ScriptRun \/ ScriptOpensDialog \/ OpenDialog \/ StartGuiFinish \/ NoPtpScript
  BY <1>1, <1>6 DEF CheckTerminate, EarlyReturn, AltButton, KeysPass, GuiPass, TerminateKey,
     Restore, DialogExit, StacksBegin, StacksNext, StackFinish, WaitModule, ScriptRun,
     ScriptOpensDialog, OpenDialog, StartGuiFinish, NoPtpScript, langVars
<1>7. CASE Spy
  BY <1>1, <1>7 DEF Spy, SpyLook, SpyEnter, SpyLeave, SpyReset, SpyUnload, langVars
<1>8. CASE Ptp
  BY <1>1, <1>8 DEF Ptp, ExecuteScript, Terminate, RequestTerminate, PollTerminated, PostScript,
     Answer, PtpUnchanged
<1>9. CASE UNCHANGED vars
  BY <1>1, <1>9 DEF vars
<1> QED BY <1>3, <1>4, <1>5, <1>6, <1>7, <1>8, <1>9 DEF Next, Kbd, KbdStart

\* The GUI mode, the ALT request and the dialog.
LEMMA GuiTyped == ASSUME TypeInv, [Next]_vars PROVE GuiTypes'
<1>0. GuiTypes
  BY DEF TypeInv, TypeOK
<1>1. CASE UNCHANGED <<guiVars, spc>>
  BY <1>0, <1>1 DEF GuiTypes, guiVars
<1>2. CASE AltButton
  <2>1. blocked' \in BOOLEAN /\ altReq' \in {"enter", "enterScript", "leave"}
    BY <1>2 DEF AltButton, EnterAlt, ExitAlt
  <2>2. UNCHANGED <<gui, dialog, spc>>
    BY <1>2 DEF AltButton
  <2> QED BY <1>0, <2>1, <2>2 DEF GuiTypes
<1>3. CASE GuiStart \/ Restart
  <2>1. gui' \in {gui, "script"} /\ UNCHANGED <<altReq, blocked, dialog, spc>>
    BY <1>3 DEF GuiStart, Restart, StartGui
  <2> QED BY <1>0, <2>1 DEF GuiTypes
<1>4. ASSUME NEW c \in BOOLEAN, StartPtp(c) PROVE GuiTypes'
  <2>1. blocked' \in BOOLEAN /\ altReq' \in {"enter", "enterScript", "leave"}
    BY <1>4 DEF StartPtp, EnterAlt, ExitAlt
  <2>2. UNCHANGED <<gui, dialog, spc>>
    BY <1>4 DEF StartPtp
  <2> QED BY <1>0, <2>1, <2>2 DEF GuiTypes
<1>5. CASE EndFinish
  <2>1. blocked' \in BOOLEAN /\ altReq' \in {altReq, "enter", "enterScript", "leave"}
    BY <1>0, <1>5 DEF EndFinish, ScriptReset, EnterAlt, ExitAlt, GuiTypes
  <2>2. gui' \in {"none", "alt", "script", "module"} /\ UNCHANGED <<dialog, spc>>
    BY <1>0, <1>5 DEF EndFinish, GuiTypes, TypeInv, TypeOK, ScriptTypes
  <2> QED BY <1>0, <2>1, <2>2 DEF GuiTypes
<1>6. CASE DialogExit \/ SpyLeave
  <2>1. gui' \in {"none", dialog.old} /\ dialog' = [dialog EXCEPT !.open = FALSE]
    BY <1>6 DEF DialogExit, SpyLeave
  <2>2. UNCHANGED <<altReq, blocked>> /\ spc' \in {spc, "reset"}
    BY <1>6 DEF DialogExit, SpyLeave
  <2>3. dialog.old \in {"none", "alt", "script", "module"}
    BY <1>0 DEF GuiTypes
  <2>4. dialog' \in [kind : {"none", "browser", "textbox"}, open : BOOLEAN,
                     old : {"none", "alt", "script", "module"}]
    BY <1>0, <2>1 DEF GuiTypes
  <2> QED BY <1>0, <2>1, <2>2, <2>3, <2>4 DEF GuiTypes
<1>7. CASE OpenDialog
  <2>1. PICK k \in {"browser", "textbox"} : Opened(k) \/ NotLoaded(k)
    BY <1>7 DEF OpenDialog
  <2>2. UNCHANGED <<altReq, blocked, spc>>
    BY <1>7 DEF OpenDialog
  <2>3. CASE Opened(k)
    BY <1>0, <2>2, <2>3 DEF Opened, GuiTypes
  <2>4. CASE NotLoaded(k)
    BY <1>0, <2>2, <2>4 DEF NotLoaded, GuiTypes
  <2> QED BY <2>1, <2>3, <2>4
<1>8. CASE SpyLook \/ SpyEnter \/ SpyReset
  <2>1. gui' \in {gui, "script", "alt"} /\ UNCHANGED <<blocked, dialog>>
    BY <1>8 DEF SpyLook, SpyEnter, SpyReset, guiVars
  <2>2. altReq' \in {altReq, "normal"} /\ spc' \in {"loop", "enter", "leave", "reset"}
    BY <1>8 DEF SpyLook, SpyEnter, SpyReset, guiVars
  <2> QED BY <1>0, <2>1, <2>2 DEF GuiTypes
<1>9. CASE SpyUnload
  <2>1. dialog' = [kind |-> "none", open |-> FALSE, old |-> "none"]
        /\ UNCHANGED <<gui, altReq, blocked, spc>>
    BY <1>9 DEF SpyUnload, NoDialog
  <2> QED BY <1>0, <2>1 DEF GuiTypes
<1>10. CASE \/ CheckTerminate \/ EarlyReturn \/ KeysPass \/ GuiPass \/ TerminateKey \/ Restore
            \/ StacksBegin \/ StacksNext \/ StackFinish \/ WaitModule \/ ScriptRun
            \/ ScriptOpensDialog \/ StartGuiFinish \/ NoPtpScript
  BY <1>1, <1>10 DEF CheckTerminate, EarlyReturn, KeysPass, GuiPass, TerminateKey, Restore,
     StacksBegin, StacksNext, StackFinish, WaitModule, ScriptRun, ScriptOpensDialog,
     StartGuiFinish, NoPtpScript
<1>11. CASE Ptp
  BY <1>1, <1>11 DEF Ptp, ExecuteScript, Terminate, RequestTerminate, PollTerminated, PostScript,
     Answer, PtpUnchanged
<1>12. CASE UNCHANGED vars
  BY <1>1, <1>12 DEF vars
<1> QED BY <1>2, <1>3, <1>4, <1>5, <1>6, <1>7, <1>8, <1>9, <1>10, <1>11, <1>12
        DEF Next, Kbd, KbdStart, Spy

\* The hand-over between the PTP and the keyboard task, and ExecuteScript, which
\* counts a request up to its bound only if it was below it when it came in.
LEMMA HandTyped ==
    ASSUME TypeInv, [Next]_vars
    PROVE  /\ HandTypes'
           /\ ppc' \in {"terminate", "request", "poll", "flush"} => runId' < MaxRequests
<1> DEFINE Goal == /\ HandTypes
                   /\ ppc \in {"terminate", "request", "poll", "flush"} => runId < MaxRequests
<1> USE BoundAssumption
<1>0. Goal
  BY DEF TypeInv, TypeOK
<1>1. CASE UNCHANGED <<handVars, ptpVars>>
  BY <1>0, <1>1 DEF HandTypes, handVars, ptpVars
<1>2. ASSUME NEW c \in BOOLEAN, StartPtp(c) PROVE Goal'
  <2>1. nextId \in 1 .. MaxScripts + 1
    BY DEF TypeInv, TypeOK, ScriptTypes
  <2>2. startState' \in -1 .. MaxScripts
    <3>1. CASE c
      BY <1>2, <2>1, <3>1 DEF StartPtp
    <3>2. CASE ~c
      BY <1>2, <3>2 DEF StartPtp
    <3> QED BY <3>1, <3>2
  <2>3. script' = FALSE /\ UNCHANGED <<runId, ppc, nokill, reply>>
    BY <1>2 DEF StartPtp, ptpVars
  <2> QED BY <1>0, <2>2, <2>3 DEF HandTypes
<1>3. ASSUME NEW nk \in BOOLEAN, ExecuteScript(nk) PROVE Goal'
  BY <1>0, <1>3 DEF ExecuteScript, HandTypes, handVars
<1>4. CASE Terminate \/ RequestTerminate \/ PollTerminated
  BY <1>0, <1>4 DEF Terminate, RequestTerminate, PollTerminated, HandTypes, handVars
<1>5. CASE PostScript
  BY <1>0, <1>5 DEF PostScript, HandTypes
<1>6. CASE Answer
  BY <1>0, <1>6 DEF Answer, HandTypes, handVars
<1>7. CASE \/ CheckTerminate \/ EarlyReturn \/ AltButton \/ KeysPass \/ GuiPass \/ GuiStart
           \/ TerminateKey \/ Restore \/ DialogExit \/ StacksBegin \/ StacksNext \/ StackFinish
           \/ WaitModule \/ ScriptRun \/ Restart \/ ScriptOpensDialog \/ OpenDialog
           \/ EndFinish \/ StartGuiFinish \/ NoPtpScript
  BY <1>1, <1>7 DEF CheckTerminate, EarlyReturn, AltButton, KeysPass, GuiPass, GuiStart,
     TerminateKey, Restore, DialogExit, StacksBegin, StacksNext, StackFinish, WaitModule,
     ScriptRun, Restart, ScriptOpensDialog, OpenDialog, EndFinish, StartGuiFinish, NoPtpScript
<1>8. CASE Spy
  BY <1>1, <1>8 DEF Spy, SpyLook, SpyEnter, SpyLeave, SpyReset, SpyUnload
<1>9. CASE UNCHANGED vars
  BY <1>1, <1>9 DEF vars
<1> QED BY <1>2, <1>3, <1>4, <1>5, <1>6, <1>7, <1>8, <1>9 DEF Next, Kbd, KbdStart, Ptp

\* The keyboard task's place in kbd_process and in the list of stacks.
LEMMA KbdTyped ==
    ASSUME TypeInv, [Next]_vars
    PROVE  /\ KbdTypes'
           /\ kpc' \in {"process", "opening"} => kcur' \in Ids'
           /\ kpc' = "starting" => nextId' <= MaxScripts
           /\ kret' \notin {"process", "opening", "starting"}
<1> DEFINE Goal == /\ KbdTypes
                   /\ kpc \in {"process", "opening"} => kcur \in Ids
                   /\ kpc = "starting" => nextId <= MaxScripts
                   /\ kret \notin {"process", "opening", "starting"}
<1> USE BoundAssumption
<1>0. Goal
  BY DEF TypeInv, TypeOK
<1>1. nextId \in 1 .. MaxScripts + 1 /\ Ids \subseteq 1 .. nextId - 1
  BY DEF TypeInv, TypeOK, ScriptTypes
<1>2. CASE UNCHANGED <<kbdVars, nextId, stacks>>
  BY <1>0, <1>2 DEF KbdTypes, kbdVars, Ids
<1>3. ASSUME kcur' = kcur,
             kret' \in {kret, "keys", "stacks", "walk", "finish", "restart"},
             kpc' \in Positions \ {"process", "opening", "starting"}
      PROVE  Goal'
  BY <1>0, <1>3 DEF KbdTypes, Positions
<1>4. CASE CheckTerminate \/ EarlyReturn \/ AltButton \/ KeysPass \/ GuiPass
  BY <1>3, <1>4 DEF CheckTerminate, EarlyReturn, AltButton, KeysPass, GuiPass, EndBegin, Positions
<1>5. CASE TerminateKey \/ Restore \/ DialogExit \/ NoPtpScript
  BY <1>3, <1>5 DEF TerminateKey, Restore, DialogExit, AfterDialog, NoPtpScript, EndBegin, Positions
<1>6. CASE StackFinish \/ WaitModule \/ ScriptRun \/ OpenDialog
  BY <1>3, <1>6 DEF StackFinish, WaitModule, ScriptRun, OpenDialog, EndBegin, Positions
<1>14. CASE ScriptOpensDialog
  <2>1. kcur' = kcur /\ kret' = kret /\ stacks' = stacks /\ kpc = "process" /\ kpc' = "opening"
    BY <1>14 DEF ScriptOpensDialog, RunsScript
  <2> QED BY <1>0, <2>1 DEF KbdTypes, Positions, Ids
<1>7. CASE EndFinish \/ StartGuiFinish
  <2>1. kcur' = kcur /\ kpc' = kret /\ kret' = kret
    BY <1>7 DEF EndFinish, StartGuiFinish
  <2>2. kret \in Positions \ {"process", "opening", "starting"}
    BY <1>0 DEF KbdTypes
  <2> QED BY <1>3, <2>1, <2>2
<1>8. ASSUME NEW c \in BOOLEAN, StartPtp(c) PROVE Goal'
  <2>1. kcur' = kcur /\ kpc' = "check" /\ kret' = kret
    BY <1>8 DEF StartPtp
  <2> QED BY <1>3, <2>1 DEF Positions
<1>9. CASE GuiStart \/ Restart
  <2>1. kcur' = kcur /\ kret' \in {"stacks", "walk"} /\ nextId' = nextId
    BY <1>9 DEF GuiStart, Restart
  <2>2. PICK lang \in Langs, compiles \in BOOLEAN :
             /\ StartGui(lang, compiles)
             /\ compiles => kpc' = "starting"
             /\ ~compiles => kpc' = "stacks" \/ kpc' = "walk"
    BY <1>9 DEF GuiStart, Restart
  <2>3. compiles => nextId <= MaxScripts
    BY <2>2 DEF StartGui
  <2>4. kpc' \in {"stacks", "walk"} \/ (kpc' = "starting" /\ nextId <= MaxScripts)
    BY <2>2, <2>3
  <2> QED BY <1>0, <2>1, <2>4 DEF KbdTypes, Positions
<1>10. CASE StacksBegin \/ StacksNext
  <2>1. After(nextId) \in Ids \cup {0}
    BY <1>1, AfterInList
  <2>2. After(kcur) \in Ids \cup {0}
    BY <1>0, <1>1, AfterInList DEF KbdTypes
  <2>3. PICK id \in Ids \cup {0} : kcur' = id /\ kpc' = IF id = 0 THEN "start" ELSE "process"
    BY <1>10, <2>1, <2>2 DEF StacksBegin, StacksNext, Visit
  <2>4. stacks' = stacks /\ kret' = kret /\ nextId' = nextId
    BY <1>10 DEF StacksBegin, StacksNext, scriptVars
  <2>5. id \in 0 .. MaxScripts
    BY <1>1
  <2>6. kpc' \in {"start", "process"} /\ (kpc' = "process" => kcur' \in Ids)
    BY <1>1, <2>3
  <2> QED BY <1>0, <2>3, <2>4, <2>5, <2>6 DEF KbdTypes, Positions, Ids
<1>11. CASE Spy
  BY <1>2, <1>11 DEF Spy, SpyLook, SpyEnter, SpyLeave, SpyReset, SpyUnload, scriptVars
<1>12. CASE Ptp
  BY <1>2, <1>12 DEF Ptp, ExecuteScript, Terminate, RequestTerminate, PollTerminated, PostScript,
     Answer, PtpUnchanged, scriptVars
<1>13. CASE UNCHANGED vars
  BY <1>2, <1>13 DEF vars, scriptVars
<1> QED BY <1>4, <1>5, <1>6, <1>7, <1>8, <1>9, <1>10, <1>11, <1>12, <1>13, <1>14
        DEF Next, Kbd, KbdStart

LEMMA TypesStart == Init => TypeInv
<1>1. Init => TypeInv
  <2> SUFFICES ASSUME Init PROVE TypeInv
    OBVIOUS
  <2>1. ScriptTypes
    <3>1. Ids = {} /\ stacks \in [{} -> Tops]
      BY DEF Init, Ids
    <3>2. 1 \in 1 .. MaxScripts + 1 /\ 0 \in -1 .. 1 - 1
      BY BoundAssumption
    <3>3. nextId \in 1 .. MaxScripts + 1 /\ name \in -1 .. nextId - 1
      BY <3>2 DEF Init
    <3> QED BY <3>1, <3>3 DEF Init, ScriptTypes
  <2>2. LangTypes
    <3>1. 0 \in 0 .. MaxScripts
      BY BoundAssumption
    <3> QED BY <3>1 DEF Init, LangTypes, Langs
  <2>4. HandTypes
    <3>1. 0 \in -1 .. MaxScripts /\ 0 \in 0 .. MaxRequests
      BY BoundAssumption
    <3> QED BY <3>1 DEF Init, HandTypes
  <2>3. GuiTypes
    BY DEF Init, GuiTypes, NoDialog
  <2> QED BY <2>1, <2>2, <2>3, <2>4, BoundAssumption DEF Init, TypeInv, TypeOK, KbdTypes, Positions
<1> QED BY <1>1

LEMMA TypesStep == TypeInv /\ [Next]_vars => TypeInv'
  BY ScriptTyped, LangTyped, GuiTyped, HandTyped, KbdTyped DEF TypeInv, TypeOK

\* In every environment the variables keep their types; a stack id that is
\* remembered or processed was handed out by action_stack_create.
THEOREM ScriptTypeCorrect == Spec => []TypeOK
<1>1. TypeInv => TypeOK
  BY DEF TypeInv
<1> QED BY <1>1, TypesStart, TypesStep, PTL DEF Spec

-----------------------------------------------------------------------------
(* A script that waits for a dialog is not forgotten, when the host starts one *)
(* script and the user others.                                               *)

\* Two scripts of the host, or the ALT button, do break the promise: with either,
\* TLC finds a script whose dialog is closed by somebody else's exit_alt.
WaiterEnv == "alt" \notin Env /\ MaxRequests <= 1

\* The interpreter holds the host's script, and will hand ALT back at its end.
HostHolds == interp.lang = "lua" /\ isPtp

\* spytask found enter_alt requested by a script that has ended since; its late
\* entry into ALT mode does no harm.
LateEntry == /\ Ids = {} /\ run = "inactive" /\ kpc \notin {"restore", "ending"}
             /\ ~dialog.open /\ gui \in {"none", "alt"}

WaitTypes ==
    /\ nextId \in Nat \ {0} /\ Ids \subseteq Nat \ {0} /\ (\A i \in Ids : i < nextId)
    /\ kcur \in Nat
    /\ interp = [lang |-> interp.lang, of |-> interp.of]
    /\ dialog = [kind |-> dialog.kind, open |-> dialog.open, old |-> dialog.old]
    /\ dialog.open \in BOOLEAN
    /\ spc \in {"loop", "enter", "leave", "reset"}
    /\ kret \in {"check", "keys", "stacks", "finish", "walk", "restart"}
    /\ kpc \in Positions
    /\ ~savedAlt

\* There is one stack, the remembered one, and none while the GUI is about to
\* leave ALT mode or is in the mode where the user starts scripts.
OneAtATime ==
    /\ Ids = {} \/ Ids = {name}
    /\ kpc \in {"starting", "restart", "finish"} => Ids = {}
    /\ kpc \in {"process", "opening"} => kcur \in Ids
    /\ kpc = "starting" => kret \in {"stacks", "walk"} /\ gui # "alt"
    /\ gui = "alt" => Ids = {}
    /\ dialog.old # "alt"
    /\ spc = "leave" \/ (spc = "loop" /\ altReq = "leave") => Ids = {}

\* Waiter at every position: the dialog is open, or it has called back, or the
\* script is about to be killed.  A script that does not wait is not inactive, but for
\* the moment before its dialog opens.
Woken == /\ \A i \in Ids : \/ run # "inactive" \/ kpc \in {"ending", "opening"}
                           \/ stacks[i] = "module" /\ dialog.open
                           \/ stacks[i] = "stranded"
         /\ kpc = "opening" => run = "inactive" /\ ~dialog.open

\* The one request of the host, from the PTP task to the keyboard task.
OneRequest ==
    /\ runId \in {0, 1} /\ (runId = 1 => ppc \in {"started", "idle"})
    /\ script => startState = 0 /\ ppc = "started"
    /\ ppc = "flush" => startState = 0
    /\ startState # 0 => runId = 1 /\ ~script
    /\ runId = 0 => startState = 0
    /\ ppc = "started" => runId = 1
    /\ runId = 0 => ppc \in {"idle", "flush"}

\* Until it has been started the user cannot start a script either: nothing has
\* entered ALT mode.
BeforeHost ==
    startState = 0 =>
        /\ Ids = {} /\ run = "inactive" /\ gui = "none" /\ oldGui = "null"
        /\ dialog = NoDialog /\ altReq = "normal" /\ spc = "loop"
        /\ kpc \in {"check", "keys", "gui", "stacks", "walk", "start"}

\* While the interpreter holds it, a pending enter_alt belongs to a live script and
\* a pending exit_alt to a dead one; a dialog opened before spytask has entered
\* ALT mode goes back to the GUI mode there was.
DuringHost ==
    startState # 0 /\ HostHolds =>
        /\ oldGui = "null" /\ kpc \notin {"starting", "restart"}
        /\ kpc = "ending" => kret # "restart"
        /\ altReq \in {"normal", "enterScript", "leave"}
        /\ Ids # {} => altReq # "leave"
        /\ Ids = {} => altReq # "enterScript"
        /\ altReq = "enterScript" /\ spc \in {"loop", "enter"} =>
              /\ gui \in {"none", "module"} /\ dialog.old = "none" /\ kpc # "restore"
              /\ dialog.open => run = "inactive" /\ kpc # "ending"
              /\ gui = "module" => dialog.open
              /\ kpc = "ending" => run = "inactive"
        /\ spc = "enter" => altReq # "normal" /\ (altReq = "leave" => LateEntry)
        /\ gui = "alt" => LateEntry /\ (spc = "reset" \/ (spc = "loop" /\ altReq = "normal"))

\* Once the user has started one, the ALT switch is not used any more.
AfterHost == startState # 0 /\ ~HostHolds => spc = "reset" \/ (spc = "loop" /\ altReq = "normal")

WaiterInv == /\ WaitTypes /\ OneAtATime /\ Woken /\ OneRequest
             /\ BeforeHost /\ DuringHost /\ AfterHost

\* The initial state of camera_info and of the tasks.
LEMMA WaiterInit == Init => WaiterInv
BY DEF Init, WaiterInv, WaitTypes, OneAtATime, Woken, OneRequest, BeforeHost, DuringHost, AfterHost,
       Ids, NoDialog, Positions, HostHolds

\* One step of the keyboard task up to the action stacks.
LEMMA WaiterKeys ==
    ASSUME WaiterEnv, WaiterInv,
           \/ CheckTerminate \/ EarlyReturn \/ AltButton \/ KeysPass \/ GuiPass
           \/ GuiStart \/ TerminateKey \/ Restore \/ DialogExit
           \/ EndFinish \/ StartGuiFinish
    PROVE  WaiterInv'
<1> USE DEF WaiterInv, WaitTypes, OneAtATime, Woken, OneRequest, BeforeHost, DuringHost, AfterHost,
            Ids, NoDialog, Positions, HostHolds, LateEntry
<1>1. CASE CheckTerminate
  BY <1>1 DEF CheckTerminate, EndBegin, langVars, guiVars, handVars, ptpVars
<1>2. CASE EarlyReturn
  BY <1>2 DEF EarlyReturn, scriptVars, langVars, guiVars, handVars, ptpVars
<1>3. ~ AltButton
  BY DEF AltButton, WaiterEnv
<1>4. CASE KeysPass
  BY <1>4 DEF KeysPass, scriptVars, langVars, guiVars, handVars, ptpVars
<1>5. CASE GuiPass
  BY <1>5 DEF GuiPass, scriptVars, langVars, guiVars, handVars, ptpVars
<1>6. CASE GuiStart
  <2>1. /\ UNCHANGED <<run, name, stacks, nextId, savedAlt, altReq, dialog, script, startState, runId>>
        /\ UNCHANGED <<kcur, ppc, spc>>
        /\ gui = "alt" /\ kret' = "stacks"
    BY <1>6 DEF GuiStart, handVars, ptpVars
  <2>2. PICK lang \in Langs, compiles \in BOOLEAN :
           /\ StartGui(lang, compiles)
           /\ kpc' = IF compiles THEN "starting" ELSE "stacks"
    BY <1>6 DEF GuiStart
  <2>3. Ids = {} /\ startState # 0 /\ (spc = "reset" \/ (spc = "loop" /\ altReq = "normal"))
    BY <2>1
  <2>4. interp' = [lang |-> lang, of |-> IF compiles THEN nextId ELSE 0] /\ ~ HostHolds'
    BY <2>2 DEF StartGui
  <2>5. kpc' \in {"starting", "stacks"} /\ (kpc' = "starting" => gui' = "script")
    BY <2>2 DEF StartGui
  <2> QED BY <2>1, <2>3, <2>4, <2>5
<1>7. CASE TerminateKey
  BY <1>7 DEF TerminateKey, EndBegin, langVars, guiVars, handVars, ptpVars
<1>8. CASE Restore
  BY <1>8 DEF Restore, EndBegin, guiVars, handVars, ptpVars
<1>9. CASE DialogExit
  <2>1. WaitTypes' /\ OneAtATime' /\ Woken' /\ OneRequest'
    BY <1>9 DEF DialogExit, AfterDialog, Selected, handVars, ptpVars
  <2>2. BeforeHost' /\ AfterHost'
    BY <1>9 DEF DialogExit, AfterDialog, Selected, handVars, ptpVars
  <2>3. DuringHost'
    BY <1>9 DEF DialogExit, AfterDialog, Selected, handVars, ptpVars
  <2> QED BY <2>1, <2>2, <2>3
<1>10. CASE EndFinish
  <2>1. /\ UNCHANGED <<run, nextId, isPtp, savedAlt, dialog, script, startState, runId>>
        /\ UNCHANGED <<kcur, kret, ppc, spc>>
        /\ kpc = "ending" /\ kpc' = kret /\ oldGui' = "null"
        /\ interp' = [lang |-> interp.lang, of |-> 0]
    BY <1>10 DEF EndFinish, ScriptReset, handVars, ptpVars
  <2>2. stacks' = [i \in {} |-> stacks[i]] /\ Ids' = {} /\ startState # 0
    BY <1>10 DEF EndFinish, Kill
  <2>3. HostHolds' = HostHolds
    BY <2>1
  <2>4. CASE HostHolds
    <3>1. altReq' = "leave" /\ gui' = gui /\ gui # "alt"
      BY <1>10, <2>2, <2>4 DEF EndFinish, ScriptReset, ExitAlt
    <3>2. kret \in {"check", "keys", "stacks", "finish", "walk"}
      BY <2>1, <2>2, <2>4
    <3>3. WaitTypes' /\ OneAtATime' /\ Woken' /\ OneRequest'
      BY <2>1, <2>2, <3>1, <3>2
    <3>4. spc # "enter" \/ LateEntry'
      BY <2>1, <2>2, <2>4, <3>1, <3>2
    <3>5. BeforeHost' /\ DuringHost' /\ AfterHost'
      BY <2>1, <2>2, <2>3, <2>4, <3>1, <3>2, <3>4
    <3> QED BY <3>3, <3>5
  <2>5. CASE ~ HostHolds
    <3>1. altReq' = altReq
      BY <1>10, <2>5 DEF EndFinish, ScriptReset
    <3>2. spc = "reset" \/ (spc = "loop" /\ altReq = "normal")
      BY <2>2, <2>5
    <3> QED BY <2>1, <2>2, <2>3, <2>5, <3>1, <3>2
  <2> QED BY <2>4, <2>5
<1>11. CASE StartGuiFinish
  <2>1. /\ UNCHANGED <<oldGui, interp, isPtp, savedAlt, gui, altReq, dialog, script, startState, runId>>
        /\ UNCHANGED <<kcur, kret, ppc, spc>>
        /\ kpc = "starting" /\ kpc' = kret /\ kret \in {"stacks", "walk"}
    BY <1>11 DEF StartGuiFinish, langVars, guiVars, handVars, ptpVars
  <2>2. /\ stacks' = [i \in {nextId} |-> "script"] /\ Ids' = {nextId}
        /\ name' = nextId /\ nextId' = nextId + 1 /\ run' = "ran"
    BY <1>11, <2>1 DEF StartGuiFinish, StackStart, Push
  <2>3. startState # 0 /\ ~ HostHolds /\ gui # "alt"
    BY <2>1
  <2> QED BY <2>1, <2>2, <2>3
<1> QED BY <1>1, <1>2, <1>3, <1>4, <1>5, <1>6, <1>7, <1>8, <1>9, <1>10, <1>11

\* One step of the keyboard task over the action stacks and after them.
LEMMA WaiterStacks ==
    ASSUME WaiterEnv, WaiterInv,
           \/ StacksBegin \/ StacksNext \/ StackFinish \/ WaitModule \/ ScriptRun
           \/ Restart \/ ScriptOpensDialog \/ OpenDialog \/ KbdStart \/ NoPtpScript
    PROVE  WaiterInv'
<1> USE DEF WaiterInv, WaitTypes, OneAtATime, Woken, OneRequest, BeforeHost, DuringHost, AfterHost,
            NoDialog, Positions, HostHolds, LateEntry
<1>1. CASE StacksBegin
  <2>1. After(nextId) \in Ids \cup {0}
    BY AfterInList
  <2> QED BY <1>1, <2>1 DEF StacksBegin, Visit, Ids, scriptVars, langVars, guiVars, handVars, ptpVars
<1>2. CASE StacksNext
  <2>1. After(kcur) \in Ids \cup {0}
    BY AfterInList
  <2> QED BY <1>2, <2>1 DEF StacksNext, Visit, Ids, scriptVars, langVars, guiVars, handVars, ptpVars
<1>3. CASE StackFinish
  <2>1. /\ UNCHANGED <<run, name, oldGui, nextId, interp, isPtp, savedAlt, gui, altReq, dialog>>
        /\ UNCHANGED <<script, startState, runId, kcur, kret, ppc, spc>>
        /\ kpc' = "walk"
    BY <1>3 DEF StackFinish, langVars, guiVars, handVars, ptpVars
  <2>2. kpc = "finish" /\ Ids = {} /\ Ids' = {} /\ startState # 0
    BY <1>3 DEF StackFinish, Kill, Ids
  <2> QED BY <2>1, <2>2
<1>4. CASE WaitModule
  BY <1>4 DEF WaitModule, Waiting, Push, Ids, langVars, guiVars, handVars, ptpVars
<1>5. CASE ScriptRun
  BY <1>5 DEF ScriptRun, RunsScript, EndBegin, Ids, guiVars, handVars, ptpVars
<1>6. CASE Restart
  <2>1. /\ UNCHANGED <<run, name, stacks, nextId, savedAlt, altReq, dialog, script, startState, runId>>
        /\ UNCHANGED <<kcur, ppc, spc>>
        /\ kpc = "restart" /\ kret' = "walk"
    BY <1>6 DEF Restart, handVars, ptpVars
  <2>2. PICK lang \in Langs, compiles \in BOOLEAN :
           /\ StartGui(lang, compiles)
           /\ kpc' = IF compiles THEN "starting" ELSE "walk"
    BY <1>6 DEF Restart
  <2>3. Ids = {} /\ Ids' = {} /\ startState # 0 /\ ~ HostHolds
    BY <2>1 DEF Ids
  <2>4. interp' = [lang |-> lang, of |-> IF compiles THEN nextId ELSE 0] /\ ~ HostHolds'
    BY <2>2, <2>3 DEF StartGui
  <2>5. kpc' \in {"starting", "walk"} /\ (kpc' = "starting" => gui' = "script")
    BY <2>2 DEF StartGui
  <2> QED BY <2>1, <2>3, <2>4, <2>5
<1>7. CASE ScriptOpensDialog
  BY <1>7 DEF ScriptOpensDialog, RunsScript, Ids, langVars, guiVars, handVars, ptpVars
<1>10. CASE OpenDialog
  <2>1. PICK k \in {"browser", "textbox"} : Opened(k) \/ NotLoaded(k)
    BY <1>10 DEF OpenDialog
  <2>2. CASE Opened(k)
    BY <1>10, <2>2 DEF OpenDialog, Opened, Push, Ids, langVars, handVars, ptpVars
  <2>3. CASE NotLoaded(k)
    <3>1. /\ UNCHANGED <<name, oldGui, nextId, interp, isPtp, savedAlt, gui, altReq, dialog>>
          /\ UNCHANGED <<script, startState, runId, kcur, kret, ppc, spc>>
          /\ kpc = "opening" /\ kpc' = "walk"
      BY <1>10, <2>3 DEF OpenDialog, NotLoaded, langVars, handVars, ptpVars
    <3>2. \/ run' = "ran" /\ stacks' = stacks
          \/ run' = run /\ stacks' = Push(kcur, "stranded")
      BY <2>3 DEF NotLoaded, Selected
    <3>3. startState # 0 /\ run = "inactive" /\ ~dialog.open /\ kcur \in Ids /\ Ids = {name}
      BY <3>1
    <3>4. Ids' = Ids
      BY <3>2, <3>3 DEF Push, Ids
    <3>5. WaitTypes' /\ OneAtATime' /\ OneRequest'
      BY <3>1, <3>2, <3>3, <3>4
    <3>6. Woken'
      BY <3>1, <3>2, <3>3, <3>4 DEF Push
    <3>7. BeforeHost' /\ DuringHost' /\ AfterHost'
      BY <3>1, <3>2, <3>3, <3>4
    <3> QED BY <3>5, <3>6, <3>7
  <2> QED BY <2>1, <2>2, <2>3
<1>8. ASSUME NEW compiles \in BOOLEAN, StartPtp(compiles) PROVE WaiterInv'
  <2>1. /\ UNCHANGED <<oldGui, gui, dialog, runId, kcur, kret, ppc, spc>>
        /\ kpc' = "check" /\ script' = FALSE /\ savedAlt' = (gui = "alt") /\ isPtp' = TRUE
        /\ script /\ kpc = "start"
    BY <1>8 DEF StartPtp, ptpVars
  <2>2. /\ startState = 0 /\ ppc = "started" /\ runId = 1 /\ savedAlt' = FALSE
        /\ Ids = {} /\ run = "inactive" /\ gui = "none" /\ oldGui = "null"
        /\ dialog = NoDialog /\ altReq = "normal" /\ spc = "loop"
    BY <2>1
  <2>3. CASE compiles
    <3>1. /\ stacks' = [i \in {nextId} |-> "script"] /\ Ids' = {nextId}
          /\ name' = nextId /\ nextId' = nextId + 1 /\ run' = "ran" /\ startState' = nextId
          /\ interp' = [lang |-> "lua", of |-> nextId] /\ altReq' = "enterScript"
      BY <1>8, <2>2, <2>3 DEF StartPtp, StackStart, EnterAlt, Push, Ids
    <3> QED BY <2>1, <2>2, <3>1
  <2>4. CASE ~ compiles
    <3>1. /\ UNCHANGED <<run, name, stacks, nextId>> /\ startState' = -1
          /\ interp' = [lang |-> "lua", of |-> 0] /\ altReq' = "leave"
      BY <1>8, <2>2, <2>4 DEF StartPtp, ExitAlt
    <3>2. Ids' = {}
      BY <2>2, <3>1 DEF Ids
    <3> QED BY <2>1, <2>2, <3>1, <3>2
  <2> QED BY <2>3, <2>4
<1>9. CASE NoPtpScript
  BY <1>9 DEF NoPtpScript, Ids, scriptVars, langVars, guiVars, handVars, ptpVars
<1> QED BY <1>1, <1>2, <1>3, <1>4, <1>5, <1>6, <1>7, <1>8, <1>9, <1>10 DEF KbdStart

\* One step of spytask or of the PTP task.
LEMMA WaiterOthers ==
    ASSUME WaiterEnv, WaiterInv, Spy \/ Ptp \/ UNCHANGED vars
    PROVE  WaiterInv'
<1> USE DEF WaiterInv, WaitTypes, OneAtATime, Woken, OneRequest, BeforeHost, DuringHost, AfterHost,
            Ids, NoDialog, Positions, HostHolds, LateEntry
<1>1. CASE SpyLook
  BY <1>1 DEF SpyLook, scriptVars, langVars, guiVars, handVars, kbdVars, ptpVars
<1>2. CASE SpyEnter
  BY <1>2 DEF SpyEnter, scriptVars, langVars, handVars, kbdVars, ptpVars
<1>3. CASE SpyLeave
  <2>1. WaitTypes' /\ OneAtATime' /\ Woken' /\ OneRequest'
    BY <1>3 DEF SpyLeave, Selected, handVars, kbdVars, ptpVars
  <2>2. BeforeHost' /\ AfterHost'
    BY <1>3 DEF SpyLeave, Selected, handVars, kbdVars, ptpVars
  <2>3. DuringHost'
    BY <1>3 DEF SpyLeave, Selected, handVars, kbdVars, ptpVars
  <2> QED BY <2>1, <2>2, <2>3
<1>4. CASE SpyReset
  BY <1>4 DEF SpyReset, scriptVars, langVars, handVars, kbdVars, ptpVars
<1>5. CASE SpyUnload
  BY <1>5 DEF SpyUnload, scriptVars, langVars, handVars, kbdVars, ptpVars
<1>6. CASE Ptp
  <2> USE DEF PtpUnchanged, scriptVars, langVars, guiVars, handVars, kbdVars
  <2>1. ASSUME NEW nk \in BOOLEAN, ExecuteScript(nk) PROVE WaiterInv'
    BY <2>1, BoundAssumption DEF ExecuteScript, WaiterEnv
  <2>2. CASE Terminate \/ PollTerminated
    BY <2>2 DEF Terminate, PollTerminated
  <2>3. CASE RequestTerminate
    BY <2>3 DEF RequestTerminate
  <2>4. CASE PostScript
    BY <2>4 DEF PostScript
  <2>5. CASE Answer
    BY <2>5 DEF Answer
  <2> QED BY <1>6, <2>1, <2>2, <2>3, <2>4, <2>5 DEF Ptp
<1>7. CASE UNCHANGED vars
  BY <1>7 DEF vars, scriptVars, langVars, guiVars, handVars, kbdVars, ptpVars
<1> QED BY <1>1, <1>2, <1>3, <1>4, <1>5, <1>6, <1>7 DEF Spy

\* A script that waits for a browser or a text box is woken, if that was loaded at all:
\* it is on screen, or has called back, whatever the terminate key, a restart after an
\* error and the scripts of the user do in between.
THEOREM DialogWakes == ASSUME WaiterEnv PROVE Spec => []Waiter
<1>1. WaiterInv /\ [Next]_vars => WaiterInv'
  BY WaiterKeys, WaiterStacks, WaiterOthers DEF Next, Kbd
<1>2. WaiterInv => Waiter
  BY DEF WaiterInv, Woken, Waiter
<1> QED BY WaiterInit, <1>1, <1>2, PTL DEF Spec

-----------------------------------------------------------------------------
(* The script stacks as the stacks of ActionStack: each module gives the other *)
(* what it relies on.                                                        *)

Outside == {"check", "keys", "gui", "restore", "stacks", "start"}
Inside  == {"process", "walk", "finish", "restart", "opening"}

\* active_stack is null but during a pass; script_end and script_start_gui are
\* called on either side of that line, and go back to the side they came from.
PassPlace ==
    /\ kpc \in Outside => kcur = 0
    /\ kpc \in Inside => kcur > 0
    /\ kpc \in {"ending", "starting"} => \/ (kret \in {"keys", "stacks"} /\ kcur = 0)
                                         \/ (kret \in {"finish", "restart", "walk"} /\ kcur > 0)

\* The stack remembered in running_script_stack_name is the newest one, or none,
\* and active_stack has been handed out before.
UseInv == PassPlace /\ name \in {-1, nextId - 1} /\ kcur < nextId

LEMMA UseStart == Init => UseInv /\ Stacks!Init
<1> SUFFICES ASSUME Init PROVE UseInv /\ Stacks!Init
  OBVIOUS
<1>1. Ids = {} /\ nextId = 1 /\ kcur = 0 /\ name = 0 /\ kpc = "check"
  BY DEF Init, Ids
<1> QED BY <1>1 DEF UseInv, PassPlace, Outside, Inside, Stacks!Init

\* What every step does to the list of stacks, to active_stack and to the two ids:
\* nothing, or one of the four things ActionStack offers.
Still == Ids' = Ids /\ nextId' = nextId /\ kcur' = kcur

Creates == /\ nextId <= MaxScripts /\ Ids' = Ids \cup {nextId}
           /\ nextId' = nextId + 1 /\ name' = nextId /\ kcur' = kcur

Ends(i) == Ids' = Ids \ {i} /\ nextId' = nextId /\ kcur' = kcur

Turns(i) == Ids' = Ids /\ nextId' = nextId /\ kcur' = After(i)

LEMMA StackUses ==
    ASSUME TypeInv, UseInv, [Next]_vars
    PROVE  /\ UseInv'
           /\ \/ Still \/ Creates
              \/ Ends(kcur) \/ Ends(name)
              \/ (kcur = 0 /\ Turns(nextId))
              \/ (kcur > 0 /\ Turns(kcur))
<1> DEFINE Uses == \/ Still \/ Creates
                   \/ Ends(kcur) \/ Ends(name)
                   \/ (kcur = 0 /\ Turns(nextId))
                   \/ (kcur > 0 /\ Turns(kcur))
<1> USE BoundAssumption
<1>0. /\ nextId \in Nat \ {0} /\ kcur \in Nat /\ Ids \subseteq 1 .. nextId - 1
      /\ ScriptTypes /\ kpc \in Positions /\ kret \in Positions
      /\ PassPlace /\ name \in {-1, nextId - 1} /\ kcur < nextId
  BY DEF TypeInv, TypeOK, ScriptTypes, KbdTypes, UseInv
\* steps that leave the stacks alone
<1>1. ASSUME UNCHANGED <<stacks, nextId, name, kcur>>, PassPlace'
      PROVE  UseInv' /\ Uses
  <2>1. Still
    BY <1>1 DEF Still, Ids
  <2>2. UseInv'
    BY <1>0, <1>1 DEF UseInv
  <2> QED BY <2>1, <2>2
<1>2. ASSUME kcur' = kcur, kpc \in Outside, kpc' \in Outside PROVE PassPlace'
  BY <1>0, <1>2 DEF PassPlace, Outside, Inside
<1>3. ASSUME kcur' = kcur, kpc \in Inside, kpc' \in Inside PROVE PassPlace'
  BY <1>0, <1>3 DEF PassPlace, Outside, Inside
<1>4. ASSUME UNCHANGED kbdVars PROVE PassPlace'
  BY <1>0, <1>4 DEF PassPlace, kbdVars
<1>5. CASE Spy \/ Ptp \/ UNCHANGED vars
  <2>1. UNCHANGED <<stacks, nextId, name, kbdVars>>
    BY <1>5 DEF Spy, SpyLook, SpyEnter, SpyLeave, SpyReset, SpyUnload, Ptp, ExecuteScript, Terminate,
                RequestTerminate, PollTerminated, PostScript, Answer, PtpUnchanged, scriptVars, vars
  <2> QED BY <1>1, <1>4, <2>1 DEF kbdVars
<1>6. CASE CheckTerminate \/ TerminateKey \/ Restore
  <2>1. UNCHANGED <<stacks, nextId, name, kcur>> /\ kpc \in Outside
    BY <1>6 DEF CheckTerminate, TerminateKey, Restore, Outside
  <2>2. kpc' \in Outside \/ (kpc' = "ending" /\ kret' \in {"keys", "stacks"})
    BY <1>6 DEF CheckTerminate, TerminateKey, Restore, EndBegin, Outside
  <2>3. PassPlace'
    BY <1>0, <2>1, <2>2 DEF PassPlace, Outside, Inside
  <2> QED BY <1>1, <2>1, <2>3
<1>7. CASE EarlyReturn \/ AltButton \/ KeysPass \/ GuiPass \/ DialogExit \/ NoPtpScript
  <2>1. UNCHANGED <<stacks, nextId, name, kcur>> /\ kpc \in Outside /\ kpc' \in Outside
    BY <1>7 DEF EarlyReturn, AltButton, KeysPass, GuiPass, DialogExit, AfterDialog, NoPtpScript,
                scriptVars, Outside
  <2> QED BY <1>1, <1>2, <2>1
<1>8. CASE GuiStart \/ Restart
  <2>1. UNCHANGED <<stacks, nextId, name, kcur>>
    BY <1>8 DEF GuiStart, Restart
  <2>2. \/ kpc = "gui" /\ kret' = "stacks" /\ kpc' \in {"starting", "stacks"}
        \/ kpc = "restart" /\ kret' = "walk" /\ kpc' \in {"starting", "walk"}
    BY <1>8 DEF GuiStart, Restart
  <2>3. PassPlace'
    BY <1>0, <2>1, <2>2 DEF PassPlace, Outside, Inside
  <2> QED BY <1>1, <2>1, <2>3
<1>9. CASE ScriptRun
  <2>1. UNCHANGED <<stacks, nextId, name, kcur>> /\ kpc = "process"
    BY <1>9 DEF ScriptRun, RunsScript
  <2>2. kpc' = "walk" \/ (kpc' = "ending" /\ kret' \in {"finish", "restart"})
    BY <1>9 DEF ScriptRun, EndBegin
  <2>3. PassPlace'
    BY <1>0, <2>1, <2>2 DEF PassPlace, Outside, Inside
  <2> QED BY <1>1, <2>1, <2>3
<1>18. CASE ScriptOpensDialog
  <2>1. UNCHANGED <<stacks, nextId, name, kcur>> /\ kpc = "process" /\ kpc' = "opening"
    BY <1>18 DEF ScriptOpensDialog, RunsScript
  <2> QED BY <1>1, <1>3, <2>1 DEF Inside
<1>10. CASE WaitModule \/ OpenDialog
  <2>1. /\ UNCHANGED <<nextId, name, kcur>> /\ kpc \in Inside /\ kpc' \in Inside
        /\ kcur \in Ids
    BY <1>10 DEF WaitModule, OpenDialog, Inside, TypeInv
  <2>2. Ids' = Ids
    <3>1. \E t \in Tops : stacks' \in {stacks, Push(kcur, t)}
      BY <1>10 DEF WaitModule, OpenDialog, Opened, NotLoaded, Tops, Waiting
    <3>2. \A t \in Tops : DOMAIN Push(kcur, t) = Ids
      BY <2>1 DEF Push
    <3> QED BY <3>1, <3>2 DEF Ids
  <2>3. PassPlace'
    BY <1>3, <2>1
  <2> QED BY <1>0, <2>1, <2>2, <2>3 DEF UseInv, Still
<1>11. CASE StacksBegin \/ StacksNext
  <2>1. UNCHANGED <<stacks, nextId, name>>
    BY <1>11 DEF StacksBegin, StacksNext, scriptVars
  <2>2. Ids' = Ids
    BY <2>1 DEF Ids
  <2>3. Ids \subseteq Nat
    BY <1>0
  <2>4. PICK i \in Nat : /\ (i = nextId /\ kcur = 0) \/ (i = kcur /\ kcur > 0)
                        /\ kcur' = After(i) /\ kpc' = IF kcur' = 0 THEN "start" ELSE "process"
    <3>1. CASE StacksBegin
      <4>1. kcur = 0
        BY <1>0, <3>1 DEF StacksBegin, PassPlace, Outside
      <4> QED BY <1>0, <3>1, <4>1 DEF StacksBegin, Visit
    <3>2. CASE StacksNext
      <4>1. kcur > 0
        BY <1>0, <3>2 DEF StacksNext, PassPlace, Inside
      <4> QED BY <1>0, <3>2, <4>1 DEF StacksNext, Visit
    <3> QED BY <1>11, <3>1, <3>2
  <2>5. After(i) \in Ids \cup {0}
    BY <2>3, AfterInList
  <2>6. UseInv'
    <3>1. kcur' \in Nat /\ kcur' < nextId
      <4>1. kcur' \in Ids \cup {0}
        BY <2>4, <2>5
      <4>2. \A n \in Ids \cup {0} : n \in Nat /\ n < nextId
        BY <1>0
      <4> QED BY <4>1, <4>2
    <3>2. PassPlace'
      BY <2>4, <3>1 DEF PassPlace, Outside, Inside
    <3> QED BY <1>0, <2>1, <3>1, <3>2 DEF UseInv
  <2> QED BY <2>1, <2>2, <2>4, <2>6 DEF Turns
<1>12. CASE StackFinish
  <2>1. UNCHANGED <<nextId, name, kcur>> /\ kpc \in Inside /\ kpc' \in Inside /\ stacks' = Kill(kcur)
    BY <1>12 DEF StackFinish, Inside
  <2>2. Ends(kcur)
    BY <2>1 DEF Ends, Kill, Ids
  <2> QED BY <1>0, <1>3, <2>1, <2>2 DEF UseInv
<1>13. ASSUME kcur' = kcur, kpc \in {"ending", "starting"}, kpc' = kret PROVE PassPlace'
  <2>1. \/ kret \in {"keys", "stacks"} /\ kcur = 0
        \/ kret \in {"finish", "restart", "walk"} /\ kcur > 0
    BY <1>0, <1>13 DEF PassPlace
  <2> QED BY <1>13, <2>1 DEF PassPlace, Outside, Inside
<1>14. CASE EndFinish
  <2>1. nextId' = nextId /\ kcur' = kcur /\ name' = -1 /\ stacks' = Kill(name)
        /\ kpc = "ending" /\ kpc' = kret
    BY <1>14 DEF EndFinish
  <2>2. Ends(name)
    BY <2>1 DEF Ends, Kill, Ids
  <2> QED BY <1>0, <1>13, <2>1, <2>2 DEF UseInv
<1>15. ASSUME StackStart, nextId <= MaxScripts, kcur' = kcur, PassPlace' PROVE UseInv' /\ Uses
  <2>1. Ids' = Ids \cup {nextId}
    BY <1>15 DEF StackStart, Push, Ids
  <2>2. nextId' = nextId + 1 /\ name' = nextId
    BY <1>15 DEF StackStart
  <2>3. UseInv'
    BY <1>0, <1>15, <2>2 DEF UseInv
  <2> QED BY <1>15, <2>1, <2>2, <2>3 DEF Creates
<1>16. CASE StartGuiFinish
  <2>1. StackStart /\ kcur' = kcur /\ kpc = "starting" /\ kpc' = kret /\ nextId <= MaxScripts
    BY <1>16 DEF StartGuiFinish, TypeInv
  <2> QED BY <1>13, <1>15, <2>1
<1>17. ASSUME NEW c \in BOOLEAN, StartPtp(c) PROVE UseInv' /\ Uses
  <2>1. kcur' = kcur /\ kpc = "start" /\ kpc' = "check"
    BY <1>17 DEF StartPtp
  <2>2. PassPlace'
    BY <1>2, <2>1 DEF Outside
  <2>3. CASE c
    BY <1>15, <1>17, <2>1, <2>2, <2>3 DEF StartPtp
  <2>4. CASE ~c
    BY <1>1, <1>17, <2>1, <2>2, <2>4 DEF StartPtp
  <2> QED BY <2>3, <2>4
<1> QED
  BY <1>5, <1>6, <1>7, <1>8, <1>9, <1>10, <1>11, <1>12, <1>14, <1>16, <1>17, <1>18
  DEF Next, Kbd, KbdStart

\* Fewer stacks than ids handed out.
LEMMA FewStacks ==
    ASSUME NEW n \in Nat \ {0}, NEW S \in SUBSET (1 .. n - 1)
    PROVE  Cardinality(S) < n
<1>1. IsFiniteSet(1 .. n - 1) /\ Cardinality(1 .. n - 1) = n - 1
  <2>1. n - 1 \in Nat
    OBVIOUS
  <2>2. CASE n - 1 = 0
    BY <2>2, FS_Interval, FS_EmptySet
  <2> QED BY <2>1, FS_Interval
<1>2. Cardinality(S) <= Cardinality(1 .. n - 1) /\ Cardinality(S) \in Nat
  BY <1>1, FS_Subset, FS_CardinalityType
<1> QED BY <1>1, <1>2

LEMMA StackUsesAreList ==
    ASSUME TypeInv, UseInv,
           \/ Still \/ Creates
           \/ Ends(kcur) \/ Ends(name)
           \/ (kcur = 0 /\ Turns(nextId))
           \/ (kcur > 0 /\ Turns(kcur))
    PROVE  [Stacks!Next]_(Stacks!vars)
<1>1. nextId \in Nat \ {0} /\ kcur \in Nat /\ Ids \subseteq 1 .. nextId - 1
  BY BoundAssumption DEF TypeInv, TypeOK, ScriptTypes, KbdTypes
<1>2. CASE Still
  BY <1>2 DEF Still, Stacks!vars
<1>3. CASE Creates
  <2>1. Cardinality(Ids) < nextId
    BY <1>1, FewStacks
  <2>2. Stacks!Cardinality(Ids) = Cardinality(Ids) /\ Cardinality(Ids) \in Nat
    <3>1. IsFiniteSet(1 .. nextId - 1)
      BY <1>1, FS_Interval
    <3>2. IsFiniteSet(Ids)
      BY <1>1, <3>1, FS_Subset
    <3> QED BY <3>2, FS_CardinalityType DEF Stacks!Cardinality, Cardinality
  <2>3. Stacks!Cardinality(Ids) < MaxScripts
    BY <1>1, <1>3, <2>1, <2>2, BoundAssumption DEF Creates
  <2>4. /\ nextId - 1 < MaxScripts /\ nextId' - 1 = (nextId - 1) + 1
        /\ Ids' = Ids \cup {(nextId - 1) + 1} /\ kcur' = kcur
    BY <1>1, <1>3, BoundAssumption DEF Creates
  <2> QED BY <2>3, <2>4 DEF Stacks!Next, Stacks!Create
<1>4. ASSUME NEW i, Ends(i) PROVE [Stacks!Next]_(Stacks!vars)
  <2>1. CASE i \in Ids
    BY <1>4, <2>1 DEF Ends, Stacks!Next, Stacks!Remove
  <2>2. CASE i \notin Ids
    BY <1>4, <2>2 DEF Ends, Stacks!vars
  <2> QED BY <2>1, <2>2
<1>5. ASSUME NEW i, Turns(i), {n \in Ids : n < i} = Stacks!Older(kcur) PROVE Stacks!Serve
  <2> DEFINE Top(S) == CHOOSE n \in S : \A m \in S : m <= n
             Step(S) == IF S = {} THEN 0 ELSE Top(S)
  <2>1. After(i) = Step({n \in Ids : n < i})
    BY DEF After
  <2>2. kcur' = Step(Stacks!Older(kcur)) /\ UNCHANGED <<Ids, nextId - 1>> => Stacks!Serve
    BY DEF Stacks!Serve
  <2> HIDE DEF Step
  <2>3. kcur' = Step(Stacks!Older(kcur)) /\ Ids' = Ids /\ nextId' = nextId
    BY <1>5, <2>1 DEF Turns
  <2> QED BY <2>2, <2>3
<1>6. CASE kcur = 0 /\ Turns(nextId)
  <2>1. {n \in Ids : n < nextId} = Stacks!Older(kcur)
    <3>1. \A n \in Ids : n < nextId
      BY <1>1
    <3>2. Stacks!Older(kcur) = Ids
      BY <1>6 DEF Stacks!Older
    <3> QED BY <3>1, <3>2
  <2> QED BY <1>5, <1>6, <2>1 DEF Stacks!Next
<1>7. CASE kcur > 0 /\ Turns(kcur)
  <2>1. {n \in Ids : n < kcur} = Stacks!Older(kcur)
    BY <1>1, <1>7 DEF Stacks!Older
  <2> QED BY <1>5, <1>7, <2>1 DEF Stacks!Next
<1> QED BY <1>2, <1>3, <1>4, <1>6, <1>7

\* In every environment the tasks use the script stacks as a StackList: an id is new
\* when a script starts, and a pass serves the newest stack that is older than the
\* last one, whether script_end, a restart or a new script has come in between.
THEOREM ScriptsUseList == Spec => UsesStackList
<1>1. TypeInv /\ UseInv /\ [Next]_vars => UseInv' /\ [Stacks!Next]_(Stacks!vars)
  BY StackUses, StackUsesAreList
<1> QED BY <1>1, TypesStart, TypesStep, UseStart, PTL DEF Spec, UsesStackList, Stacks!Spec

\* script_end and the pass end no stack older than the one that is served, which is
\* what ActionStack takes for granted of its callers (CallEnd): the stack saved by
\* action_stack_process_all for its next round is still on the list then.
THEOREM ScriptsLeaveSaved == Spec => SavedStays
<1>1. TypeInv /\ UseInv /\ [Next]_vars => UseInv' /\ [kcur > 0 => \A i \in Ids \ Ids' : i >= kcur]_vars
  <2> SUFFICES ASSUME TypeInv, UseInv, [Next]_vars
               PROVE  UseInv' /\ (kcur > 0 => \A i \in Ids \ Ids' : i >= kcur)
    OBVIOUS
  <2>1. nextId \in Nat /\ kcur \in Nat /\ Ids \subseteq 1 .. nextId - 1
    BY BoundAssumption DEF TypeInv, TypeOK, ScriptTypes, KbdTypes
  <2>2. name \in {-1, nextId - 1} /\ kcur < nextId
    BY DEF UseInv
  <2>3. ASSUME NEW i \in Ids \ Ids' PROVE i = kcur \/ i = name
    BY <2>3, StackUses DEF Still, Creates, Ends, Turns
  <2>4. ASSUME NEW i \in Ids \ Ids' PROVE i >= kcur
    BY <2>1, <2>2, <2>3
  <2> QED BY <2>4, StackUses
<1> QED BY <1>1, TypesStart, TypesStep, UseStart, PTL DEF Spec, SavedStays
=============================================================================
