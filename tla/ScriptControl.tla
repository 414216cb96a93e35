--------------------------- MODULE ScriptControl ---------------------------
(* How a script is started, run, interrupted and terminated: core/script.c, *)
(* the parts of core/kbd_process.c, core/ptp.c, core/gui.c and the script   *)
(* language modules that take part, and the three tasks that run them.      *)
(*                                                                          *)
(*   keyboard task  kbd_process, one pass = kpc from "check" round to "check" *)
(*   PTP task       ExecuteScript, ppc                                      *)
(*   spytask        gui_activate_alt_mode and module_tick_unloader, spc     *)
(*                                                                          *)
(* A step is a stretch of one task between two accesses another task could  *)
(* tell apart.  Env names what happens besides the host's requests, so that *)
(* a run can ask which promise depends on what.                             *)
EXTENDS Integers

CONSTANTS Env,         \* a subset of EnvEvents
          MaxScripts,  \* bound: scripts started
          MaxRequests  \* bound: ExecuteScript requests

EnvEvents == {"start",    \* the user starts a script from ALT mode
              "key",      \* the user clicks the terminate key
              "alt",      \* the user presses the ALT button
              "dialog",   \* a script opens a file browser or a text box
              "noload",   \* the module of a browser or a text box does not load
              "restart"}  \* conf.debug_lua_restart_on_error is set

ASSUME EnvAssumption == Env \subseteq EnvEvents
ASSUME BoundAssumption == MaxScripts \in Nat /\ MaxRequests \in Nat

VARIABLES
    run,       \* camera_info.state.state_kbd_script_run
    termReq,   \* script_terminate_request
    name,      \* running_script_stack_name
    oldGui,    \* old_gui_handler
    stacks,    \* the script action stacks: what is on top of each, by id
    nextId,    \* task_comp_id; also numbers the scripts
    interp,    \* the language module: which program it holds, 0 when closed
    isPtp,     \* lua_script_is_ptp
    savedAlt,  \* ptp_saved_alt_state
    gui,       \* gui_mode
    altReq,    \* gui_current_alt_state
    blocked,   \* kbd_blocked
    dialog,    \* the module a script waits for
    script,    \* ptp_script: has the PTP task posted one?
    startState,\* ptp_script_state
    runId,     \* script_run_id
    kpc, kcur, kret, \* the keyboard task: position, active_stack, return
    ppc, nokill,     \* the PTP task: position, PTP_CHDK_SCRIPT_FL_NOKILL
    reply,           \* what it last answered to ExecuteScript
    spc              \* spytask

scriptVars == <<run, termReq, name, oldGui, stacks, nextId>>
langVars   == <<interp, isPtp, savedAlt>>
guiVars    == <<gui, altReq, blocked, dialog>>
handVars   == <<script, startState, runId>>
kbdVars    == <<kpc, kcur, kret>>
ptpVars    == <<ppc, nokill, reply>>
vars == <<scriptVars, langVars, guiVars, handVars, kbdVars, ptpVars, spc>>

Langs   == {"lua", "ubasic"}
NoDialog == [kind |-> "none", open |-> FALSE, old |-> "none"]

Init ==
    /\ run = "inactive" /\ termReq = FALSE /\ name = 0 /\ oldGui = "null"
    /\ stacks = [i \in {} |-> "script"] /\ nextId = 1
    /\ interp = [lang |-> "lua", of |-> 0] /\ isPtp = FALSE /\ savedAlt = FALSE
    /\ gui = "none" /\ altReq = "normal" /\ blocked = FALSE /\ dialog = NoDialog
    /\ script = FALSE /\ startState = 0 /\ runId = 0
    /\ kpc = "check" /\ kcur = 0 /\ kret = "check"
    /\ ppc = "idle" /\ nokill = FALSE /\ reply = "none" /\ spc = "loop"

-----------------------------------------------------------------------------
(* Script action stacks (action_stack.c), as far as scripts use them: the list *)
(* is in order of descending id, since a new stack goes to its head.  On top is *)
(* AS_SCRIPT_RUN, or AS_WAIT_MODULE for a module that was loaded or is missing.  *)

Waiting == {"module", "stranded"}
Tops    == {"script"} \cup Waiting

Ids == DOMAIN stacks

Push(id, t) == [i \in Ids \cup {id} |-> IF i = id THEN t ELSE stacks[i]]
Kill(id)    == [i \in Ids \ {id} |-> stacks[i]]

\* the stack after id in the list, 0 at its end
After(id) == LET Older == {n \in Ids : n < id}
             IN  IF Older = {} THEN 0 ELSE CHOOSE n \in Older : \A m \in Older : m <= n

-----------------------------------------------------------------------------
(* enter_alt and exit_alt, called with the new state of the ALT switch *)

EnterAlt(scriptMode) == /\ blocked' = TRUE
                        /\ altReq' = IF scriptMode THEN "enterScript" ELSE "enter"
ExitAlt == blocked' = FALSE /\ altReq' = "leave"

\* the language module forgets its program; a PTP script hands ALT back
ScriptReset == /\ interp' = [interp EXCEPT !.of = 0]
               /\ IF interp.lang = "lua" /\ isPtp
                  THEN IF savedAlt THEN EnterAlt(FALSE) ELSE ExitAlt
                  ELSE UNCHANGED <<altReq, blocked>>

-----------------------------------------------------------------------------
(* script_end: other tasks see the state change first, then the rest *)

EndBegin(ret) == /\ run' = "inactive"
                 /\ kpc' = "ending" /\ kret' = ret

EndFinish ==
    /\ kpc = "ending"
    /\ gui' = CASE oldGui = "null" -> gui
                [] oldGui = "alt" /\ gui = "none" -> "none"
                [] oldGui = "none" /\ gui = "alt" -> "alt"
                [] OTHER -> oldGui
    /\ oldGui' = "null"
    /\ ScriptReset
    /\ stacks' = Kill(name)
    /\ name' = -1
    /\ kpc' = kret
    /\ UNCHANGED <<run, termReq, nextId, isPtp, savedAlt, dialog, handVars,
                   kcur, kret, ptpVars, spc>>

-----------------------------------------------------------------------------
(* script_stack_start.  The PTP task, which looks at run and termReq, waits *)
(* while its own script is started, so only script_start_gui splits here.   *)

\* slip: the id is not counted up
StackStartSameId == /\ run' = "ran"
                    /\ stacks' = Push(nextId, "script")
                    /\ name' = nextId
                    /\ nextId' = nextId

\* slip: the id is counted up before it is remembered
StackStartNextId == /\ run' = "ran"
                    /\ stacks' = Push(nextId, "script")
                    /\ name' = nextId + 1
                    /\ nextId' = nextId + 1

StackStart == /\ run' = "ran"
              /\ stacks' = Push(nextId, "script")
              /\ name' = nextId
              /\ nextId' = nextId + 1

\* script_start_gui up to the clearing of termReq; a script that does not
\* compile leaves the interpreter closed and nothing else changed
StartGui(lang, compiles) ==
    /\ compiles => nextId <= MaxScripts
    /\ isPtp' = (isPtp /\ lang # "lua")
    /\ interp' = [lang |-> lang, of |-> IF compiles THEN nextId ELSE 0]
    /\ IF compiles
       THEN oldGui' = gui /\ gui' = "script" /\ termReq' = FALSE
       ELSE UNCHANGED <<oldGui, gui, termReq>>

\* the kbd task is in script_start_gui, about to set the state
StartGuiFinish ==
    /\ kpc = "starting"
    /\ StackStart
    /\ kpc' = kret
    /\ UNCHANGED <<termReq, oldGui, langVars, guiVars, handVars, kcur, kret,
                   ptpVars, spc>>

\* start_ptp_script, the last thing kbd_process does.  It does not ask whether
\* a script is running.
StartPtp(compiles) ==
    /\ kpc = "start" /\ script
    /\ script' = FALSE
    /\ savedAlt' = (gui = "alt")
    /\ isPtp' = TRUE
    /\ IF compiles
       THEN /\ nextId <= MaxScripts
            /\ interp' = [lang |-> "lua", of |-> nextId]
            /\ EnterAlt(TRUE)
            /\ termReq' = FALSE
            /\ StackStart
            /\ startState' = nextId
       ELSE /\ interp' = [lang |-> "lua", of |-> 0]
            /\ IF savedAlt' THEN EnterAlt(FALSE) ELSE ExitAlt
            /\ startState' = -1
            /\ UNCHANGED <<run, termReq, name, stacks, nextId>>
    /\ kpc' = "check"
    /\ UNCHANGED <<oldGui, gui, dialog, runId, kcur, kret, ptpVars, spc>>

NoPtpScript ==
    /\ kpc = "start" /\ ~script
    /\ kpc' = "check"
    /\ UNCHANGED <<scriptVars, langVars, guiVars, handVars, kcur, kret, ptpVars, spc>>

-----------------------------------------------------------------------------
(* kbd_process up to the action stacks *)

\* slip: script_check_terminate called from the script GUI mode only
CheckTerminateInMode ==
    /\ kpc = "check"
    /\ IF run # "inactive" /\ termReq /\ gui = "script"
       THEN EndBegin("keys")
       ELSE kpc' = "keys" /\ UNCHANGED <<run, kret>>
    /\ UNCHANGED <<termReq, name, oldGui, stacks, nextId, langVars, guiVars,
                   handVars, kcur, ptpVars, spc>>

\* script_check_terminate
CheckTerminate ==
    /\ kpc = "check"
    /\ IF run # "inactive" /\ termReq
       THEN EndBegin("keys")
       ELSE kpc' = "keys" /\ UNCHANGED <<run, kret>>
    /\ UNCHANGED <<termReq, name, oldGui, stacks, nextId, langVars, guiVars,
                   handVars, kcur, ptpVars, spc>>

\* a key that ends this pass early: ALT held, MENU on the record screen, a
\* message box or a full-screen module waiting for its key to be released
EarlyReturn ==
    /\ kpc \in {"keys", "gui"}
    /\ kpc' = "check"
    /\ UNCHANGED <<scriptVars, langVars, guiVars, handVars, kcur, kret, ptpVars, spc>>

\* the ALT button is released after a short press
AltButton ==
    /\ "alt" \in Env
    /\ kpc = "keys"
    /\ IF blocked THEN ExitAlt ELSE EnterAlt(run # "inactive")
    /\ kpc' = "check"
    /\ UNCHANGED <<scriptVars, langVars, gui, dialog, handVars, kcur, kret, ptpVars, spc>>

KeysPass ==
    /\ kpc = "keys"
    /\ kpc' = "gui"
    /\ UNCHANGED <<scriptVars, langVars, guiVars, handVars, kcur, kret, ptpVars, spc>>

\* an open text box keeps every key and pass to itself: keyboard_kbd returns 1
TextBoxHasKeys == gui = "module" /\ dialog.open /\ dialog.kind = "textbox"

\* nothing the GUI mode reacts to was clicked
GuiPass ==
    /\ kpc = "gui" /\ ~TextBoxHasKeys
    /\ kpc' = "stacks"
    /\ UNCHANGED <<scriptVars, langVars, guiVars, handVars, kcur, kret, ptpVars, spc>>

\* alt_mode_script_run: shutter in ALT mode, a USB pulse or start-on-ALT
GuiStart ==
    /\ "start" \in Env
    /\ kpc = "gui" /\ gui = "alt"
    /\ \E lang \in Langs, compiles \in BOOLEAN :
          /\ StartGui(lang, compiles)
          /\ kpc' = IF compiles THEN "starting" ELSE "stacks"
    /\ kret' = "stacks"
    /\ UNCHANGED <<run, name, stacks, nextId, savedAlt, altReq, blocked,
                   dialog, handVars, kcur, ptpVars, spc>>

\* slip: a key press also clears the host's request
TerminateKeyClears ==
    /\ "key" \in Env
    /\ kpc = "gui" /\ gui = "script"
    /\ IF run = "interrupted"
       THEN EndBegin("stacks")
       ELSE run' = "interrupted" /\ kpc' = "restore" /\ kret' = kret
    /\ termReq' = FALSE
    /\ UNCHANGED <<name, oldGui, stacks, nextId, langVars, guiVars,
                   handVars, kcur, ptpVars, spc>>

\* gui_script_kbd_process, the terminate key: a second press ends the script,
\* the first one runs its restore code
TerminateKey ==
    /\ "key" \in Env
    /\ kpc = "gui" /\ gui = "script"
    /\ IF run = "interrupted"
       THEN EndBegin("stacks")
       ELSE run' = "interrupted" /\ kpc' = "restore" /\ kret' = kret
    /\ UNCHANGED <<termReq, name, oldGui, stacks, nextId, langVars, guiVars,
                   handVars, kcur, ptpVars, spc>>

\* run_restore: Lua is done when it returns, uBASIC may have code left to run
Restore ==
    /\ kpc = "restore"
    /\ \/ EndBegin("stacks")
       \/ interp.lang = "ubasic" /\ kpc' = "stacks" /\ UNCHANGED <<run, kret>>
    /\ UNCHANGED <<termReq, name, oldGui, stacks, nextId, interp, isPtp, savedAlt,
                   guiVars, handVars, kcur, ptpVars, spc>>

\* return_string_selected, through the callback of a closing browser or box
Selected == run' = "ran"

\* MENU closes either, a choice the browser, and the pass goes on; SAVE and X,
\* keys of the text box, end it
AfterDialog == {"stacks"} \cup (IF dialog.kind = "textbox" THEN {"check"} ELSE {})

\* slip: a cancelled dialog does not call back
DialogCancel ==
    /\ kpc = "gui" /\ gui = "module" /\ dialog.open
    /\ gui' = dialog.old
    /\ dialog' = [dialog EXCEPT !.open = FALSE]
    /\ kpc' \in AfterDialog
    /\ UNCHANGED <<scriptVars, langVars, altReq, blocked, handVars, kcur, kret,
                   ptpVars, spc>>

DialogExit ==
    /\ kpc = "gui" /\ gui = "module" /\ dialog.open
    /\ gui' = dialog.old
    /\ dialog' = [dialog EXCEPT !.open = FALSE]
    /\ Selected
    /\ kpc' \in AfterDialog
    /\ UNCHANGED <<termReq, name, oldGui, stacks, nextId, interp, isPtp, savedAlt,
                   altReq, blocked, handVars, kcur, kret, ptpVars, spc>>

-----------------------------------------------------------------------------
(* action_stack_process_all over the script stacks *)

\* active_stack becomes `id`; at the end of the list the pass goes on
Visit(id) == kcur' = id /\ kpc' = IF id = 0 THEN "start" ELSE "process"

StacksBegin ==
    /\ kpc = "stacks"
    /\ Visit(After(nextId))
    /\ UNCHANGED <<scriptVars, langVars, guiVars, handVars, kret, ptpVars, spc>>

StacksNext ==
    /\ kpc = "walk"
    /\ Visit(After(kcur))
    /\ UNCHANGED <<scriptVars, langVars, guiVars, handVars, kret, ptpVars, spc>>

\* the active stack is empty: action_stack_finish
StackFinish ==
    /\ \/ kpc = "finish"
       \/ kpc = "process" /\ stacks[kcur] = "script" /\ run = "inactive"
    /\ stacks' = Kill(kcur)
    /\ kpc' = "walk"
    /\ UNCHANGED <<run, termReq, name, oldGui, nextId, langVars, guiVars, handVars,
                   kcur, kret, ptpVars, spc>>

\* action_stack_AS_WAIT_MODULE
WaitModule ==
    /\ kpc = "process" /\ stacks[kcur] \in Waiting
    /\ stacks' = IF run = "inactive" THEN stacks
                 ELSE Push(kcur, "script")
    /\ kpc' = "walk"
    /\ UNCHANGED <<run, termReq, name, oldGui, nextId, langVars, guiVars, handVars,
                   kcur, kret, ptpVars, spc>>

\* action_stack_AS_SCRIPT_RUN: one time slice of whatever program the
\* interpreter holds
RunsScript == kpc = "process" /\ stacks[kcur] = "script" /\ run # "inactive"

ScriptRun ==
    /\ RunsScript
    /\ \/ kpc' = "walk" /\ UNCHANGED <<run, kret>>
       \/ EndBegin("finish")
       \/ "restart" \in Env /\ interp.lang = "lua" /\ ~isPtp /\ EndBegin("restart")
    /\ UNCHANGED <<termReq, name, oldGui, stacks, nextId, interp, isPtp, savedAlt,
                   guiVars, handVars, kcur, ptpVars, spc>>

\* lua_script_error restarts the script at once
Restart ==
    /\ kpc = "restart"
    /\ \E lang \in Langs, compiles \in BOOLEAN :
          /\ StartGui(lang, compiles)
          /\ kpc' = IF compiles THEN "starting" ELSE "walk"
    /\ kret' = "walk"
    /\ UNCHANGED <<run, name, stacks, nextId, savedAlt, altReq, blocked,
                   dialog, handVars, kcur, ptpVars, spc>>

\* luaCB_file_browser, luaCB_textbox: first the script gives up the keys
ScriptOpensDialog ==
    /\ "dialog" \in Env
    /\ RunsScript /\ interp.lang = "lua" /\ ~dialog.open
    /\ run' = "inactive"
    /\ kpc' = "opening"
    /\ UNCHANGED <<termReq, name, oldGui, stacks, nextId, langVars, guiVars, handVars,
                   kcur, kret, ptpVars, spc>>

\* then it waits for a module that takes the screen
Opened(k) == /\ dialog' = [kind |-> k, open |-> TRUE, old |-> gui]
             /\ gui' = "module"
             /\ stacks' = Push(kcur, "module")
             /\ run' = run

\* module_load fails, as it may unless the module is still there from before: a
\* text box is answered at once, the wait for a browser is for one that is not there
NotLoaded(k) == /\ "noload" \in Env /\ dialog.kind # k
                /\ IF k = "textbox"
                   THEN Selected /\ stacks' = stacks
                   ELSE stacks' = Push(kcur, "stranded") /\ run' = run
                /\ UNCHANGED <<gui, dialog>>

OpenDialog ==
    /\ kpc = "opening"
    /\ \E k \in {"browser", "textbox"} : Opened(k) \/ NotLoaded(k)
    /\ kpc' = "walk"
    /\ UNCHANGED <<termReq, name, oldGui, nextId, langVars, altReq, blocked, handVars,
                   kcur, kret, ptpVars, spc>>

-----------------------------------------------------------------------------
(* spytask *)

\* gui_activate_alt_mode looks at the requested state
SpyLook ==
    /\ spc = "loop" /\ altReq # "normal"
    /\ spc' = IF altReq = "leave" THEN "leave" ELSE "enter"
    /\ UNCHANGED <<scriptVars, langVars, guiVars, handVars, kbdVars, ptpVars>>

SpyEnter ==
    /\ spc = "enter"
    /\ gui' = IF altReq = "enterScript" THEN "script" ELSE "alt"
    /\ spc' = "reset"
    /\ UNCHANGED <<scriptVars, langVars, altReq, blocked, dialog, handVars, kbdVars, ptpVars>>

\* module_exit_alt closes a loaded browser, calling its callback once more even
\* if it was closed before, and drops a text box together with its callback
SpyLeave ==
    /\ spc = "leave"
    /\ IF dialog.kind = "browser" THEN Selected ELSE run' = run
    /\ dialog' = [dialog EXCEPT !.open = FALSE]
    /\ gui' = "none"
    /\ spc' = "reset"
    /\ UNCHANGED <<termReq, name, oldGui, stacks, nextId, interp, isPtp, savedAlt,
                   altReq, blocked, handVars, kbdVars, ptpVars>>

SpyReset ==
    /\ spc = "reset"
    /\ altReq' = "normal"
    /\ spc' = "loop"
    /\ UNCHANGED <<scriptVars, langVars, gui, blocked, dialog, handVars, kbdVars, ptpVars>>

\* module_tick_unloader: a closed browser or text box is unloaded
SpyUnload ==
    /\ spc = "loop" /\ dialog.kind # "none" /\ ~dialog.open
    /\ dialog' = NoDialog
    /\ UNCHANGED <<scriptVars, langVars, gui, altReq, blocked, handVars, kbdVars, ptpVars, spc>>

-----------------------------------------------------------------------------
(* PTP task: ExecuteScript *)

PtpUnchanged == UNCHANGED <<scriptVars, langVars, guiVars, kbdVars, spc>>

\* slip: an interrupted script, running its restore code, is not waited for
ExecuteScriptRan(nk) ==
    /\ ppc = "idle" /\ runId < MaxRequests
    /\ nokill' = nk
    /\ \/ run # "ran" /\ ppc' = "flush" /\ reply' = reply
       \/ run = "ran" /\ ~nk /\ ppc' = "terminate" /\ reply' = reply
       \/ run = "ran" /\ nk /\ ppc' = "idle" /\ reply' = "running"
    /\ UNCHANGED handVars /\ PtpUnchanged

\* the request is in: is a script running?  If so it is refused or killed.
ExecuteScript(nk) ==
    /\ ppc = "idle" /\ runId < MaxRequests
    /\ nokill' = nk
    /\ \/ run = "inactive" /\ ppc' = "flush" /\ reply' = reply
       \/ run # "inactive" /\ ~nk /\ ppc' = "terminate" /\ reply' = reply
       \/ run # "inactive" /\ nk /\ ppc' = "idle" /\ reply' = "running"
    /\ UNCHANGED handVars /\ PtpUnchanged

\* script_wait_terminate
Terminate ==
    /\ ppc = "terminate"
    /\ ppc' = IF run = "inactive" THEN "flush" ELSE "request"
    /\ UNCHANGED <<nokill, reply, handVars>> /\ PtpUnchanged

RequestTerminate ==
    /\ ppc = "request"
    /\ termReq' = TRUE
    /\ ppc' = "poll"
    /\ UNCHANGED <<run, name, oldGui, stacks, nextId, langVars, guiVars, handVars,
                   kbdVars, nokill, reply, spc>>

\* slip: the wait gives up after one poll
PollOnce ==
    /\ ppc = "poll"
    /\ ppc' = "flush"
    /\ UNCHANGED <<nokill, reply, handVars>> /\ PtpUnchanged

PollTerminated ==
    /\ ppc = "poll" /\ run = "inactive"
    /\ ppc' = "flush"
    /\ UNCHANGED <<nokill, reply, handVars>> /\ PtpUnchanged

\* queues flushed, a new script id, the script handed to the keyboard task
PostScript ==
    /\ ppc = "flush"
    /\ runId' = runId + 1
    /\ script' = TRUE
    /\ ppc' = "started"
    /\ UNCHANGED <<startState, nokill, reply>> /\ PtpUnchanged

\* the keyboard task has taken it: answer the host
Answer ==
    /\ ppc = "started" /\ ~script
    /\ ppc' = "idle"
    /\ reply' = IF startState < 0 THEN "compile" ELSE "ok"
    /\ UNCHANGED <<nokill, handVars>> /\ PtpUnchanged

-----------------------------------------------------------------------------
KbdStart == \E compiles \in BOOLEAN : StartPtp(compiles)

Kbd == \/ CheckTerminate \/ EarlyReturn \/ AltButton \/ KeysPass
       \/ GuiPass \/ GuiStart \/ TerminateKey \/ Restore \/ DialogExit
       \/ StacksBegin \/ StacksNext \/ StackFinish \/ WaitModule
       \/ ScriptRun \/ Restart \/ ScriptOpensDialog \/ OpenDialog
       \/ EndFinish \/ StartGuiFinish \/ KbdStart \/ NoPtpScript

Spy == SpyLook \/ SpyEnter \/ SpyLeave \/ SpyReset \/ SpyUnload

Ptp == \/ \E nk \in BOOLEAN : ExecuteScript(nk)
       \/ Terminate \/ RequestTerminate \/ PollTerminated \/ PostScript \/ Answer

Next == Kbd \/ Spy \/ Ptp

Spec == Init /\ [][Next]_vars

\* The tasks are scheduled: each has idle time in every round.  No key is held
\* for ever, so kbd_process gets past its early returns again and again.
\* ExecuteScript runs to its end once the host has called it.
PtpStep == Terminate \/ RequestTerminate \/ PollTerminated \/ PostScript \/ Answer

Fairness == /\ WF_vars(Kbd) /\ WF_vars(Spy) /\ WF_vars(PtpStep)
            /\ SF_vars(KeysPass) /\ SF_vars(GuiPass)

LiveSpec == Spec /\ Fairness

-----------------------------------------------------------------------------
(* Properties *)

Positions == {"check", "keys", "gui", "restore", "starting", "stacks", "process",
              "walk", "finish", "ending", "restart", "opening", "start"}

ScriptTypes ==
    /\ run \in {"inactive", "ran", "interrupted"} /\ termReq \in BOOLEAN
    /\ oldGui \in {"null", "none", "alt", "script", "module"}
    /\ nextId \in 1 .. MaxScripts + 1 /\ name \in -1 .. nextId - 1
    /\ Ids \subseteq 1 .. nextId - 1
    /\ stacks \in [Ids -> Tops]

LangTypes ==
    /\ interp \in [lang : Langs, of : 0 .. MaxScripts]
    /\ isPtp \in BOOLEAN /\ savedAlt \in BOOLEAN

GuiTypes ==
    /\ gui \in {"none", "alt", "script", "module"} /\ blocked \in BOOLEAN
    /\ altReq \in {"normal", "enter", "enterScript", "leave"}
    /\ dialog \in [kind : {"none", "browser", "textbox"}, open : BOOLEAN,
                   old : {"none", "alt", "script", "module"}]
    /\ spc \in {"loop", "enter", "leave", "reset"}

HandTypes ==
    /\ script \in BOOLEAN /\ startState \in -1 .. MaxScripts
    /\ runId \in 0 .. MaxRequests
    /\ ppc \in {"idle", "terminate", "request", "poll", "flush", "started"}
    /\ nokill \in BOOLEAN /\ reply \in {"none", "ok", "compile", "running"}

KbdTypes == kpc \in Positions /\ kret \in Positions /\ kcur \in 0 .. MaxScripts

\* Every variable has the values its C type and its users allow; in particular a
\* stack id, the remembered one included, was handed out by action_stack_create.
TypeOK == ScriptTypes /\ LangTypes /\ GuiTypes /\ HandTypes /\ KbdTypes

\* One script at a time: the keyboard task never finds two script stacks to
\* process, although neither start_ptp_script nor script_stack_start looks.
OneScript == \A i, j \in Ids : i = j

\* Between two passes of kbd_process a script that the flags call running, its
\* restore code included, has its action stack, and the interpreter holds the
\* program of that stack and no other.
OwnProgram == kpc = "check" /\ run # "inactive" => name \in Ids /\ interp.of = name

\* The same without the interpreter, and for a script that was not interrupted:
\* what is left when the user starts scripts too.
RanHasStack == kpc = "check" /\ run = "ran" => name \in Ids

\* ExecuteScript empties the inbound queue from the PTP task only while no script
\* can read it: at most one that is already being torn down.
FlushSafe == ppc = "flush" => Ids \subseteq (IF kpc = "ending" THEN {name} ELSE {})

\* While the PTP task waits for a script to end, its request to end it stands:
\* nothing that happens meanwhile clears it but the end itself.
RequestStands == ppc = "poll" /\ run # "inactive" /\ kpc # "ending" => termReq

\* A script whose browser or text box was loaded is inactive only while that is on
\* screen: nothing else would wake it.  (One whose browser was not is left to the
\* terminate key.)
Waiter == kpc = "stacks" /\ run = "inactive" /\ (\E i \in Ids : stacks[i] = "module")
              => dialog.open

\* Every ExecuteScript request is answered.
Answered == ppc # "idle" ~> ppc = "idle"

\* No limit on the stacks but the number of scripts: they never run out of room.
Stacks == INSTANCE StackList WITH live <- Ids, last <- nextId - 1, served <- kcur,
                                  MaxStacks <- MaxScripts, MaxId <- MaxScripts

\* Scripts use the stacks as ActionStack keeps them: one is made under the next id,
\* they are ended one at a time, and a pass of the keyboard task serves each one that
\* is still there, whatever script_end has killed in the middle of it.
UsesStackList == Stacks!Spec

\* What ActionStack asks of them in return: during a pass only the stack that is
\* served or a newer one is ended, so the one action_stack_process_all has saved
\* stays on the list.
SavedStays == [][kcur > 0 => \A i \in Ids \ Ids' : i >= kcur]_vars
=============================================================================
