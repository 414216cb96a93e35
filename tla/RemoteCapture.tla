---------------------------- MODULE RemoteCapture ----------------------------
(* Remote capture: a picture's data goes to the host and not to the card.         *)
(* core/remotecap.c, with the raw hook's side in core/raw.c and core/main.c, the    *)
(* file writer's in platform/generic/filewrite.c, the host's in core/ptp.c and the  *)
(* raw shoot hook of scripts in modules/script_shoot_hook.c.                      *)
(*                                                                            *)
(* spytask processes the raw data while the capture task waits for it, the file   *)
(* writer writes pictures one after the other, the PTP task sends, a script       *)
(* chooses what is wanted; all of them share the variables of remotecap.c.  Every *)
(* wait is a loop with a number of turns; that they are used up may happen at any  *)
(* time ("timeout").  Built as for the cameras of this repository: no Canon raw,   *)
(* a file arrives in one pass.                                                 *)
EXTENDS Integers, Sequences, FiniteSets

CONSTANTS Targets,   \* what may be asked for: sets of "dng", "raw" and "jpg"
          MaxShots,  \* bound: pictures taken
          NChunks,   \* chunks of a file
          Env        \* what happens: "timeout" of the waits; the script or the host may
                     \* "cancel"; the next shot comes before the last file is written
                     \* ("burst"); a target is set while that is so ("rearm")

ASSUME TargetsAssumption == Targets \subseteq (SUBSET {"dng", "raw", "jpg"}) \ {{}}
ASSUME ShotsAssumption == MaxShots \in Nat /\ NChunks \in Nat \ {0}
ASSUME EnvAssumption == Env \subseteq {"timeout", "cancel", "burst", "rearm"}

None == "none"
Types == {"dng", "raw", "jpg"}
Shots == 1 .. MaxShots

VARIABLES
    target,    \* camera_info.remotecap.file_target
    avail,     \* available_image_data
    pending,   \* pending_image_data
    fileNum,   \* target_file_num: the shot that has it, 0 before the first
    expect,    \* fwt_expect_file_count
    chunk,     \* fwt_curr_chunk
    chunks,    \* file_chunks: the shot whose file it is, 0 for NULL
    ignore,    \* ignore_current_write
    ignored,   \* current_write_ignored
    shots,     \* pictures taken
    spy,       \* spytask: [pc, shot]
    hook,      \* the raw shoot hook: [set, active]; set: it has a timeout
    queue,     \* shots the camera has developed, for the file writer
    fwt,       \* the file writer: [pc, shot]
    ptp,       \* the PTP task: [pc, type, src, last]
    part,      \* host: the chunks of a file received so far, <<shot, number>>
    got,       \* host: what it was given and took as complete, <<shot, type>>
    torn,      \* history: what it took though the data was not whole
    want,      \* history: what remote capture was to send of a shot
    open, card,\* the shot with a file open on the card, 0 if none; those closed
    excused    \* history: shots in progress at a timeout or a cancel

capVars  == <<target, avail, pending>>
fileVars == <<expect, chunk, chunks, ignore, ignored>>
cardVars == <<open, card>>
hostVars == <<ptp, part, got, torn>>
taskVars == <<shots, spy, queue, fwt>>
vars == <<capVars, fileNum, fileVars, taskVars, hook, hostVars, want, cardVars, excused>>

Init ==
    /\ target = {} /\ avail = None /\ pending = {} /\ fileNum = 0
    /\ expect = 0 /\ chunk = 0 /\ chunks = 0 /\ ignore = FALSE /\ ignored = FALSE
    /\ shots = 0 /\ spy = [pc |-> "idle", shot |-> 0]
    /\ hook = [set |-> FALSE, active |-> FALSE]
    /\ queue = <<>> /\ fwt = [pc |-> "idle", shot |-> 0]
    /\ ptp = [pc |-> "idle", type |-> None, src |-> 0, last |-> FALSE]
    /\ part = <<>> /\ got = {} /\ torn = {}
    /\ want = [s \in Shots |-> {}]
    /\ open = 0 /\ card = {} /\ excused = {}

Writing == fwt.pc # "idle" \/ queue # <<>>
InFlight == (IF spy.pc = "idle" THEN {} ELSE {spy.shot}) \cup
            (IF fwt.pc = "idle" THEN {} ELSE {fwt.shot}) \cup {queue[i] : i \in DOMAIN queue}

\* remotecap_reset
Reset == target' = {} /\ avail' = None /\ pending' = {}

\* a reset also excuses what is in progress
Failed == excused' = excused \cup InFlight

-----------------------------------------------------------------------------
(* The script: remotecap_set_target and the raw shoot hook *)

Idle == spy.pc = "idle" /\ ~Writing /\ ptp.pc = "idle" /\ part = <<>>

SetTarget ==
    /\ "rearm" \in Env \/ Idle
    /\ target' \in Targets
    /\ UNCHANGED <<avail, pending, fileNum, fileVars, taskVars, hook, hostVars, want, cardVars, excused>>

\* a target of 0, or one that is refused
ClearTarget ==
    /\ target # {} /\ ("cancel" \in Env \/ Idle)
    /\ Reset /\ Failed
    /\ UNCHANGED <<fileNum, fileVars, taskVars, hook, hostVars, want, cardVars>>

HookSet ==
    /\ hook' = [hook EXCEPT !.set = ~@]
    /\ UNCHANGED <<capVars, fileNum, fileVars, taskVars, hostVars, want, cardVars, excused>>

\* whatever wait the script meant
HookContinue ==
    /\ hook.active /\ hook' = [hook EXCEPT !.active = FALSE]
    /\ UNCHANGED <<capVars, fileNum, fileVars, taskVars, hostVars, want, cardVars, excused>>

\* the script ends
HooksReset ==
    /\ hook.set /\ hook' = [set |-> FALSE, active |-> FALSE]
    /\ UNCHANGED <<capVars, fileNum, fileVars, taskVars, hostVars, want, cardVars, excused>>

-----------------------------------------------------------------------------
(* spytask *)

Timeout == "timeout" \in Env

\* capt_seq_hook_raw_here: raw data is there, and spytask gets to raw_process
Shoot ==
    /\ spy.pc = "idle" /\ shots < MaxShots /\ ("burst" \in Env \/ ~Writing)
    /\ shots' = shots + 1
    /\ spy' = [pc |-> IF hook.set THEN "hook" ELSE "process", shot |-> shots + 1]
    /\ hook' = [hook EXCEPT !.active = hook.set]
    /\ UNCHANGED <<capVars, fileNum, fileVars, queue, fwt, hostVars, want, cardVars, excused>>

\* slip: a script that never continues is waited for
HookDoneForever ==
    /\ spy.pc = "hook" /\ ~hook.active
    /\ spy' = [spy EXCEPT !.pc = "process"]
    /\ UNCHANGED <<capVars, fileNum, fileVars, shots, hook, queue, fwt, hostVars, want, cardVars, excused>>

\* the wait of script_shoot_hook_run
HookDone ==
    /\ spy.pc = "hook" /\ (~hook.active \/ Timeout)
    /\ hook' = [hook EXCEPT !.active = FALSE]
    /\ spy' = [spy EXCEPT !.pc = "process"]
    /\ UNCHANGED <<capVars, fileNum, fileVars, shots, queue, fwt, hostVars, want, cardVars, excused>>

\* what is left of raw_process, and the end of the raw hook: the camera develops
Release ==
    /\ spy' = [spy EXCEPT !.pc = "idle"]
    /\ queue' = Append(queue, spy.shot)

\* remotecap_wait, with the types that are still to come in this hook
Offer(types) ==
    IF types = {} THEN /\ Release /\ avail' = avail
    ELSE LET t == IF "dng" \in types THEN "dng" ELSE "raw"
         IN  avail' = t /\ spy' = [spy EXCEPT !.pc = t] /\ queue' = queue

RawTypes(ts) == ts \cap {"dng", "raw"}

\* slip: the number is told as soon as it is known
ProcessTells ==
    /\ spy.pc = "process"
    /\ fileNum' = spy.shot
    /\ IF target = {} THEN Release ELSE spy' = [spy EXCEPT !.pc = "block"] /\ queue' = queue
    /\ UNCHANGED <<capVars, fileVars, shots, hook, fwt, hostVars, want, cardVars, excused>>

\* without a target there is nothing to do; the number is known, but told later
Process ==
    /\ spy.pc = "process"
    /\ IF target = {} THEN Release ELSE spy' = [spy EXCEPT !.pc = "block"] /\ queue' = queue
    /\ UNCHANGED <<capVars, fileNum, fileVars, shots, hook, fwt, hostVars, want, cardVars, excused>>

\* slip: the next chunk is the one after the last file's last
BeginKeepsChunk(ts) ==
    /\ pending' = ts /\ want' = [want EXCEPT ![spy.shot] = ts]
    /\ fileNum' = spy.shot
    /\ ignore' = TRUE /\ chunk' = chunk /\ expect' = 1

\* remotecap_raw_available, behind its first wait
Begin(ts) ==
    /\ pending' = ts /\ want' = [want EXCEPT ![spy.shot] = ts]
    /\ fileNum' = spy.shot
    /\ ignore' = TRUE /\ chunk' = 0 /\ expect' = 1

\* slip: a shot does not wait for the last one's file
BlockedNever == FALSE

\* the wait for the last shot's data
Blocked == pending # {}

Unblock ==
    /\ spy.pc = "block" /\ ~Blocked
    /\ Begin(target) /\ Offer(RawTypes(target))
    /\ UNCHANGED <<target, chunks, ignored, shots, hook, fwt, hostVars, cardVars, excused>>

UnblockTimeout ==
    /\ spy.pc = "block" /\ Blocked /\ Timeout
    /\ target' = {} /\ avail' = None /\ Begin({}) /\ Release
    /\ Failed
    /\ UNCHANGED <<chunks, ignored, shots, hook, fwt, hostVars, cardVars>>

\* remotecap_wait is over: the data was taken, or what is available is another
RawTaken ==
    /\ spy.pc \in {"dng", "raw"} /\ avail # spy.pc
    /\ pending' = pending \ {spy.pc}
    /\ Offer(IF spy.pc = "dng" THEN target \cap {"raw"} ELSE {})
    /\ UNCHANGED <<target, fileNum, fileVars, shots, hook, fwt, hostVars, want, cardVars, excused>>

\* or it was not
RawTimeout ==
    /\ spy.pc \in {"dng", "raw"} /\ Timeout
    /\ Reset /\ Release /\ Failed
    /\ UNCHANGED <<fileNum, fileVars, shots, hook, fwt, hostVars, want, cardVars>>

-----------------------------------------------------------------------------
(* The file writer *)

\* filewrite_main_hook
FileHook ==
    /\ fwt.pc = "idle" /\ queue # <<>>
    /\ queue' = Tail(queue)
    /\ IF "jpg" \in target
       THEN /\ fwt' = [pc |-> "hook", shot |-> Head(queue)]
            /\ chunks' = Head(queue) /\ avail' = "jpg"
       ELSE /\ fwt' = [pc |-> "open", shot |-> Head(queue)]
            /\ UNCHANGED <<chunks, avail>>
    /\ UNCHANGED <<target, pending, fileNum, expect, chunk, ignore, ignored, shots, spy, hook,
                   hostVars, want, cardVars, excused>>

FileTaken ==
    /\ fwt.pc = "hook" /\ avail # "jpg"
    /\ chunks' = 0 /\ fwt' = [fwt EXCEPT !.pc = "open"]
    /\ UNCHANGED <<capVars, fileNum, expect, chunk, ignore, ignored, shots, spy, hook, queue,
                   hostVars, want, cardVars, excused>>

FileTimeout ==
    /\ fwt.pc = "hook" /\ Timeout
    /\ chunks' = 0 /\ fwt' = [fwt EXCEPT !.pc = "open"]
    /\ Reset /\ Failed
    /\ UNCHANGED <<fileNum, expect, chunk, ignore, ignored, shots, spy, hook, queue,
                   hostVars, want, cardVars>>

\* fwt_open; fwt_write then follows current_write_ignored
FileOpen ==
    /\ fwt.pc = "open"
    /\ fwt' = [fwt EXCEPT !.pc = "close"]
    /\ IF ignore THEN ignored' = TRUE /\ open' = open
                 ELSE ignored' = ignored /\ open' = fwt.shot
    /\ UNCHANGED <<capVars, fileNum, expect, chunk, chunks, ignore, shots, spy, hook, queue,
                   hostVars, want, card, excused>>

\* filewrite_file_complete and remotecap_fwt_file_complete
FileComplete ==
    /\ ignored' = FALSE
    /\ pending' = pending \ {"jpg"}
    /\ expect' = IF expect > 0 THEN expect - 1 ELSE 0
    /\ ignore' = (expect > 1)

\* fwt_close
FileClose ==
    /\ fwt.pc = "close"
    /\ fwt' = [pc |-> "idle", shot |-> 0]
    /\ IF ignore THEN FileComplete /\ UNCHANGED cardVars
       ELSE /\ open' = 0 /\ card' = card \cup {fwt.shot}
            /\ UNCHANGED <<pending, expect, ignore, ignored>>
    /\ UNCHANGED <<target, avail, fileNum, chunk, chunks, shots, spy, hook, queue,
                   hostVars, want, excused>>

-----------------------------------------------------------------------------
(* The PTP task: PTP_CHDK_RemoteCaptureGetData *)

\* whose data the PTP task finds
Source(t) == IF t = "jpg" THEN chunks ELSE spy.shot

\* what the host asks for: what it is told is available, or the rest of a file
Asks == IF part = <<>> THEN avail ELSE "jpg"

\* remotecap_get_data_chunk
GetData ==
    /\ ptp.pc = "idle" /\ avail # None /\ avail \in target /\ Asks = avail
    /\ LET n == IF avail = "jpg" THEN chunk ELSE NChunks - 1
       IN  /\ ptp' = [pc |-> "send", type |-> avail, src |-> Source(avail), last |-> n >= NChunks - 1]
           /\ part' = Append(part, <<Source(avail), n>>)
    /\ chunk' = IF avail = "jpg" THEN chunk + 1 ELSE chunk
    /\ UNCHANGED <<capVars, fileNum, expect, chunks, ignore, ignored, taskVars, hook, got, torn,
                   want, cardVars, excused>>

\* what it asks for is not there: everything is reset
GetOther ==
    /\ ptp.pc = "idle"
    /\ \/ "cancel" \in Env /\ target # {}
       \/ part # <<>> /\ avail \notin {"jpg"} \cap target
    /\ Reset /\ Failed /\ part' = <<>>
    /\ UNCHANGED <<fileNum, fileVars, taskVars, hook, ptp, got, torn, want, cardVars>>

Held(t, s) == IF t = "jpg" THEN fwt.pc = "hook" /\ fwt.shot = s ELSE spy.pc = t /\ spy.shot = s

Whole(t, s) == IF t = "jpg" THEN part = [i \in 1 .. NChunks |-> <<s, i - 1>>]
                            ELSE part = <<<<s, NChunks - 1>>>>

\* slip: room is made after each chunk
SendCompleteEach == avail' = None

\* slip: a file stays available until the file writer goes on
SendCompleteRaw == avail' = IF ptp.last /\ ptp.type # "jpg" THEN None ELSE avail

\* remotecap_send_complete makes room for the next type after the last chunk
SendComplete == avail' = IF ptp.last THEN None ELSE avail

Sent ==
    /\ ptp.pc = "send"
    /\ ptp' = [ptp EXCEPT !.pc = "idle"]
    /\ SendComplete
    /\ IF avail # ptp.type THEN part' = <<>> /\ UNCHANGED <<got, torn>>
       ELSE IF ~ptp.last THEN UNCHANGED <<part, got, torn>>
       ELSE /\ part' = <<>>
            /\ got' = got \cup {<<ptp.src, ptp.type>>}
            /\ torn' = IF Held(ptp.type, ptp.src) /\ Whole(ptp.type, ptp.src) THEN torn
                       ELSE torn \cup {<<ptp.src, ptp.type>>}
    /\ UNCHANGED <<target, pending, fileNum, fileVars, taskVars, hook, want, cardVars, excused>>

-----------------------------------------------------------------------------
Script == SetTarget \/ ClearTarget \/ HookSet \/ HookContinue \/ HooksReset
Spytask == Shoot \/ HookDone \/ Process \/ Unblock \/ UnblockTimeout \/ RawTaken \/ RawTimeout
FileWriter == FileHook \/ FileTaken \/ FileTimeout \/ FileOpen \/ FileClose
Host == GetData \/ GetOther \/ Sent

Next == Script \/ Spytask \/ FileWriter \/ Host

Spec == Init /\ [][Next]_vars

\* spytask and the file writer go on, and their waits have an end; the script and the
\* host owe nothing
LiveSpec ==
    /\ Spec
    /\ WF_vars(HookDone \/ Process \/ Unblock \/ UnblockTimeout \/ RawTaken \/ RawTimeout)
    /\ WF_vars(FileWriter)

-----------------------------------------------------------------------------
(* Properties *)

\* The tasks are at their places, and what they are at belongs to a shot that was taken.
TypeOK ==
    /\ target \subseteq Types /\ avail \in Types \cup {None} /\ pending \subseteq Types
    /\ fileNum \in 0 .. shots /\ expect \in 0 .. 1 /\ chunk \in 0 .. NChunks
    /\ chunks \in 0 .. shots /\ ignore \in BOOLEAN /\ ignored \in BOOLEAN /\ shots \in 0 .. MaxShots
    /\ spy.pc \in {"idle", "hook", "process", "block", "dng", "raw"}
    /\ fwt.pc \in {"idle", "hook", "open", "close"}
    /\ \A i \in DOMAIN queue : queue[i] \in Shots
    /\ open \in 0 .. shots /\ card \subseteq Shots /\ torn \subseteq got

Finished == {s \in 1 .. shots : s \notin InFlight}

\* A shot that is through is on the card, or the host has everything that was wanted
\* of it, unless a wait ran out or somebody cancelled.
NothingLost ==
    \A s \in Finished \ excused :
        s \in card \/ (want[s] # {} /\ \A t \in want[s] : <<s, t>> \in got)

\* What the host took as complete is whole, of one shot, and was held while it was sent.
NeverTorn == torn = {}

\* The file number that the host is told with the data is that of the shot it is of.
NumberRight == avail \in target => fileNum = Source(avail)

\* A file is closed as it was opened and written: filewrite_file_complete says that it
\* was ignored if and only if it was, and no file stays open.
ClosedAsOpened == IF fwt.pc = "close" THEN ignore = ignored ELSE open = 0

\* A picture whose file went to the host is not on the card too.
NotOnCard == \A s \in card : "jpg" \notin want[s]

\* What the host has taken is not offered to it again: it gets each type of a shot
\* once, however often it asks and whatever ran out in between.
OfferedOnce == avail # None => <<Source(avail), avail>> \notin got

\* The raw hook, which holds the camera, is let go whatever the host and the script do.
HookLetGo == spy.pc # "idle" ~> spy.pc = "idle"
=============================================================================
