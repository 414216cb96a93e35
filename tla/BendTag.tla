------------------------------- MODULE BendTag -------------------------------
(* The recipe inside the photograph: core/bend_tag.c, with the raw hook that   *)
(* feeds it (platform/generic/capt_seq.c, the raw part of core/main.c and       *)
(* core/raw.c) and Canon's file writer that carries it to the card              *)
(* (platform/generic/filewrite.c).                                            *)
(*                                                                            *)
(*   capture task    capt_seq_hook_raw_here, cpc                              *)
(*   spytask         bend_tag_service, raw_process, spc                       *)
(*   filewrite task  the replaced open, write and close, fpc                  *)
(*                                                                            *)
(* Shot n and its picture n are the same number.  A recipe is the number of the *)
(* shot it was built for.                                                     *)
EXTENDS Integers

CONSTANTS MaxShots, \* bound: pictures taken
          Burst     \* the builds on which the next raw hook comes before the last
                    \* picture is closed, by CAM_BEND_TAG_INJECT

ASSUME ShotsAssumption == MaxShots \in Nat
ASSUME BurstAssumption == Burst \subseteq BOOLEAN

VARIABLES
    inject,  \* CAM_BEND_TAG_INJECT: the file writer appends the tag, not spytask
    shot,    \* pictures taken
    cpc,     \* capture task: "idle", or "hook" in capt_seq_hook_raw_here
    saved,   \* raw_save_stage = RAWDATA_SAVED
    avail,   \* raw_data_available
    spc,     \* spytask
    pending, \* bt_pending
    path,    \* bt_path: the picture the tag is for
    text,    \* bt_text: the shot whose recipe it holds, Torn while it is built
    age,     \* how long ago bt_at was: "new", "due" (BT_FIRST_MS), "old" (BT_GIVEUP_MS)
    arm,     \* bt_arm
    fpc, file, \* filewrite task: position, the picture it is at
    card,    \* what is on the card of each picture
    tag,     \* the recipe behind each picture
    bent,    \* history: the shots that were bent
    excused  \* history: pictures not there in time, discarded or hit by a write error

hookVars == <<inject, shot, cpc, saved>>
spyVars  == <<avail, spc>>
jobVars  == <<pending, path, text, age>>
fileVars == <<arm, fpc, file, card>>
vars == <<hookVars, spyVars, jobVars, fileVars, tag, bent, excused>>

Shots == 1 .. MaxShots
None == -1
Torn == 0

Init ==
    /\ inject \in BOOLEAN
    /\ shot = 0 /\ cpc = "idle" /\ saved = FALSE /\ avail = FALSE /\ spc = "service"
    /\ pending = FALSE /\ path = 0 /\ text = 0 /\ age = "new"
    /\ arm = FALSE /\ fpc = "idle" /\ file = 0 /\ card = [n \in Shots |-> "absent"]
    /\ tag = [n \in Shots |-> None] /\ bent = {} /\ excused = {}

Held   == {"open", "full", "short"}
Closed == {n \in Shots : card[n] \notin Held \cup {"absent"}}

-----------------------------------------------------------------------------
(* Capture task *)

\* capt_seq_hook_raw_here.  An exposure takes longer than spytask needs from
\* hook_raw_save_complete to the clearing of raw_data_available.
ExposureTakesTime == spc # "clear"

RawHook ==
    /\ cpc = "idle" /\ shot < MaxShots /\ ExposureTakesTime
    /\ inject \in Burst \/ 1 .. shot \subseteq Closed
    /\ shot' = shot + 1
    /\ cpc' = "hook" /\ saved' = FALSE /\ avail' = TRUE
    /\ UNCHANGED <<inject, spc, jobVars, fileVars, tag, bent, excused>>

RawHookDone ==
    /\ cpc = "hook" /\ saved
    /\ cpc' = "idle"
    /\ UNCHANGED <<inject, shot, saved, spyVars, jobVars, fileVars, tag, bent, excused>>

-----------------------------------------------------------------------------
(* spytask: bend_tag_service, then the raw data if there is any *)

\* slip: a job whose time is up is kept
KeepOn == UNCHANGED <<pending, excused>>

\* the time of a job is up; that the picture is still not on the card excuses it
GiveUp == /\ pending' = FALSE
          /\ excused' = excused \cup ({path} \ Closed)

\* with CAM_BEND_TAG_INJECT only the time is looked at
ServiceInject ==
    /\ inject
    /\ spc = "service" /\ spc' = "check"
    /\ IF pending /\ age = "old" THEN GiveUp ELSE UNCHANGED <<pending, excused>>
    /\ UNCHANGED <<hookVars, avail, path, text, age, fileVars, tag, bent>>

\* slip: any picture that is there is taken for finished
ReadyUnfinished == card[path] \in {"whole", "broken"}

\* bt_ready: the picture is there and ends in EOI
Ready == card[path] = "whole"

\* opening a picture the file writer holds blocks until it is closed
NotHeld == pending /\ age # "new" => card[path] \notin Held

\* bt_append: a short write leaves bytes that read back as no tag
Append == \/ tag' = [tag EXCEPT ![path] = text] /\ UNCHANGED excused
          \/ tag' = [tag EXCEPT ![path] = Torn] /\ excused' = excused \cup {path}

\* otherwise the picture is looked at from BT_FIRST_MS on, until it is tagged or
\* its time is up
ServicePoll ==
    /\ ~inject
    /\ spc = "service" /\ spc' = "check" /\ NotHeld
    /\ IF ~pending \/ age = "new" THEN UNCHANGED <<pending, tag, excused>>
       ELSE IF Ready THEN Append /\ pending' = FALSE
       ELSE IF age = "old" THEN GiveUp /\ UNCHANGED tag
       ELSE UNCHANGED <<pending, tag, excused>>
    /\ UNCHANGED <<hookVars, avail, path, text, age, fileVars, bent>>

NoRawData ==
    /\ spc = "check" /\ ~avail
    /\ spc' = "service"
    /\ UNCHANGED <<hookVars, avail, jobVars, fileVars, tag, bent, excused>>

\* raw_process for a shot that is not bent, or not to be tagged
RawPlain ==
    /\ spc = "check" /\ avail
    /\ spc' = "complete"
    /\ UNCHANGED <<hookVars, avail, jobVars, fileVars, tag, bent, excused>>

\* slip: the number of the next picture
QueuePathNext ==
    /\ spc = "check" /\ avail
    /\ path' = shot + 1
    /\ bent' = bent \cup {shot}
    /\ spc' = "text"
    /\ UNCHANGED <<hookVars, avail, pending, text, age, fileVars, tag, excused>>

\* slip: the hook is let go before the job is queued
QueuePathReleased ==
    /\ spc = "check" /\ avail
    /\ path' = shot
    /\ bent' = bent \cup {shot}
    /\ spc' = "text" /\ saved' = TRUE
    /\ UNCHANGED <<inject, shot, cpc, avail, pending, text, age, fileVars, tag, excused>>

\* raw_process for one that is: bend_tag_queue names the picture,
QueuePath ==
    /\ spc = "check" /\ avail
    /\ path' = shot
    /\ bent' = bent \cup {shot}
    /\ spc' = "text"
    /\ UNCHANGED <<hookVars, avail, pending, text, age, fileVars, tag, excused>>

\* builds the comment,
QueueText ==
    /\ spc = "text"
    /\ text' = Torn
    /\ spc' = "built"
    /\ UNCHANGED <<hookVars, avail, pending, path, age, fileVars, tag, bent, excused>>

\* and marks it pending
QueuePending ==
    /\ spc = "built"
    /\ text' = shot /\ age' = "new" /\ pending' = TRUE
    /\ spc' = "complete"
    /\ UNCHANGED <<hookVars, avail, path, fileVars, tag, bent, excused>>

\* slip: raw_data_available is cleared first
ReleaseLate ==
    /\ spc = "complete"
    /\ spc' = "clear"
    /\ UNCHANGED <<hookVars, avail, jobVars, fileVars, tag, bent, excused>>

\* hook_raw_save_complete
Release ==
    /\ spc = "complete"
    /\ saved' = TRUE
    /\ spc' = "clear"
    /\ UNCHANGED <<inject, shot, cpc, avail, jobVars, fileVars, tag, bent, excused>>

ClearAvail ==
    /\ spc = "clear"
    /\ avail' = FALSE
    /\ spc' = "service"
    /\ UNCHANGED <<hookVars, jobVars, fileVars, tag, bent, excused>>

\* the clock
Tick ==
    /\ pending /\ age # "old"
    /\ age' = IF age = "new" THEN "due" ELSE "old"
    /\ UNCHANGED <<hookVars, spyVars, pending, path, text, fileVars, tag, bent, excused>>

-----------------------------------------------------------------------------
(* filewrite task: pictures in the order they were taken *)

\* slip: any pending tag goes into the next picture
OpenAny ==
    /\ fpc = "idle" /\ file < shot /\ (file + 1 = shot => cpc = "idle")
    /\ file' = file + 1
    /\ arm' = (inject /\ pending)
    /\ card' = [card EXCEPT ![file + 1] = "open"]
    /\ fpc' = "write"
    /\ UNCHANGED <<hookVars, spyVars, jobVars, tag, bent, excused>>

\* filewrite_main_hook and bend_tag_note_file_open: is it the picture queued?
FileOpen ==
    /\ fpc = "idle" /\ file < shot /\ (file + 1 = shot => cpc = "idle")
    /\ file' = file + 1
    /\ arm' = (inject /\ pending /\ path = file + 1)
    /\ card' = [card EXCEPT ![file + 1] = "open"]
    /\ fpc' = "write"
    /\ UNCHANGED <<hookVars, spyVars, jobVars, tag, bent, excused>>

\* Canon's chunks; a write error ends them early
FileWrite ==
    /\ fpc = "write"
    /\ \/ card' = [card EXCEPT ![file] = "full"] /\ UNCHANGED excused
       \/ card' = [card EXCEPT ![file] = "short"] /\ excused' = excused \cup {file}
    /\ fpc' = "segment"
    /\ UNCHANGED <<hookVars, spyVars, jobVars, arm, file, tag, bent>>

\* fwt_close of a picture that went to the host instead: nothing is appended,
\* and bt_arm stays as it is until the next open
FileDiscard ==
    /\ fpc = "write"
    /\ card' = [card EXCEPT ![file] = "discarded"]
    /\ excused' = excused \cup {file}
    /\ fpc' = "idle"
    /\ UNCHANGED <<hookVars, spyVars, jobVars, arm, file, tag, bent>>

\* fwt_close: bend_tag_segment says whether there is something to append
Segment ==
    /\ fpc = "segment"
    /\ fpc' = IF arm /\ pending THEN "append" ELSE "close"
    /\ UNCHANGED <<hookVars, spyVars, jobVars, arm, file, card, tag, bent, excused>>

\* the header is written, and then what bt_text holds by now, to the length that
\* was read with the header; if both reach the card the job is done (bend_tag_segment_written)
SegmentAppend ==
    /\ fpc = "append"
    /\ \/ /\ tag' = [tag EXCEPT ![file] = text]
          /\ arm' = FALSE /\ pending' = FALSE
          /\ UNCHANGED excused
       \/ /\ tag' = [tag EXCEPT ![file] = Torn]
          /\ excused' = excused \cup {file}
          /\ UNCHANGED <<arm, pending>>
    /\ fpc' = "close"
    /\ UNCHANGED <<hookVars, spyVars, path, text, age, file, card, bent>>

\* the picture is closed, then bend_tag_note_file_closed
FileClose ==
    /\ fpc = "close"
    /\ card' = [card EXCEPT ![file] = IF @ = "full" THEN "whole" ELSE "broken"]
    /\ arm' = FALSE
    /\ fpc' = "idle"
    /\ UNCHANGED <<hookVars, spyVars, jobVars, file, tag, bent, excused>>

-----------------------------------------------------------------------------
Capture == RawHook \/ RawHookDone

Spy == \/ ServiceInject \/ ServicePoll \/ NoRawData \/ RawPlain
       \/ QueuePath \/ QueueText \/ QueuePending \/ Release \/ ClearAvail

File == FileOpen \/ FileWrite \/ FileDiscard \/ Segment \/ SegmentAppend \/ FileClose

Next == Capture \/ Spy \/ File \/ Tick

Spec == Init /\ [][Next]_vars

\* Every task is scheduled and the clock runs.  A shot is taken only if the user
\* takes it; RawHookDone is the wait in the hook.
Fairness == WF_vars(Spy) /\ WF_vars(File) /\ WF_vars(RawHookDone) /\ WF_vars(Tick)

LiveSpec == Spec /\ Fairness

-----------------------------------------------------------------------------
(* Properties *)

\* Every variable has the values its users allow; the positions of the tasks are
\* those of their code.
TypeOK ==
    /\ shot \in 0 .. MaxShots /\ cpc \in {"idle", "hook"}
    /\ {inject, saved, avail, pending, arm} \subseteq BOOLEAN
    /\ spc \in {"service", "check", "text", "built", "complete", "clear"}
    /\ path \in 0 .. shot /\ text \in 0 .. shot /\ age \in {"new", "due", "old"}
    /\ (pending => path > 0)
    /\ fpc \in {"idle", "write", "segment", "append", "close"} /\ file \in 0 .. shot
    /\ card \in [Shots -> {"absent", "whole", "broken", "discarded"} \cup Held]
    /\ tag \in [Shots -> None .. MaxShots]
    /\ bent \subseteq 1 .. shot /\ excused \subseteq 1 .. shot

\* The recipe in a picture is the one of the shot that made it.
OwnRecipe == \A n \in Shots : tag[n] > Torn => tag[n] = n

\* Where the file writer appends, a bent shot's picture, once closed, carries its
\* recipe, or will: its job still stands.  Only a picture that was discarded, met a
\* card error or was not closed in the job's time is excused.
EveryBentTagged ==
    inject => \A n \in Closed \cap bent :
                 tag[n] = n \/ n \in excused \/ (pending /\ path = n)

\* Nothing is written behind a picture before Canon's last byte is, and nothing
\* twice.
AppendedOnce ==
    [][\A n \in Shots : tag'[n] # tag[n] =>
          tag[n] = None /\ card[n] \in {"full", "short", "whole"}]_vars

\* A raw hook that waits is let go: spytask never misses a frame.
HookLetGo == cpc = "hook" ~> cpc = "idle"

\* A job does not stay pending for ever, whatever becomes of its picture.
JobEnds == pending ~> ~pending
=============================================================================
