---------------------------- MODULE MultiExposure ----------------------------
(* Multiple exposure: core/raw.c (raw_process, raw_mexp), core/mexp.c and        *)
(* core/mexp_ghost.c in spytask, and the menu of core/gui.c and a script's       *)
(* set_config_value in the keyboard task.                                      *)
(*                                                                            *)
(* A raw buffer is a function from the shots blended into it to how often each   *)
(* of them was bent; the accumulator on the card is one too.                    *)
EXTENDS Integers, FiniteSets

CONSTANTS MaxShots,  \* bound: pictures taken
          MaxFrames, \* bound: exposures of a sequence, MEXP_FRAMES_MAX in the code
          MenuBusy   \* is the menu used while spytask is at a frame?

ASSUME ShotsAssumption == MaxShots \in Nat /\ MaxFrames \in Nat \ {0, 1}
ASSUME MenuAssumption == MenuBusy \in BOOLEAN

VARIABLES
    enable, frames, bendEachConf, ghostConf, \* conf.mexp_enable, _frames, _bend_each, _ghost
    count,    \* mexp_count
    target,   \* mexp_target
    eachUsed, \* mexp_bend_each_used
    file,     \* MEXP.TMP, Missing if it is not there or not whole
    dropped,  \* history: exposures of the sequence that the file did not open for
    tile,     \* mexp_ghost: the shots in the tile, none without a tile
    shot,     \* pictures taken
    raw,      \* the raw buffer
    pc,       \* spytask in raw_process
    bendEach, \* bend_each
    done,     \* composite_done
    tagged,   \* did raw_bend_shot run?
    kpc,      \* keyboard task in raw_mexp_cancel
    since     \* history: the last picture taken when the menu last cancelled a sequence

confVars == <<enable, frames, bendEachConf, ghostConf>>
seqVars  == <<count, target, eachUsed, file, dropped, tile>>
rawVars  == <<shot, raw, pc, bendEach, done, tagged>>
kbdVars  == <<kpc, since>>
vars == <<confVars, seqVars, rawVars, kbdVars>>

Missing == [s \in {} |-> 0]

\* of a sequence that was under way when the camera was switched off: shot 0
Leftover == [s \in {0} |-> 1]

Init ==
    /\ enable = FALSE /\ frames = 2 /\ bendEachConf = TRUE /\ ghostConf = TRUE
    /\ count = 0 /\ target = 2 /\ eachUsed = TRUE /\ tile = {}
    /\ file \in {Missing, Leftover} /\ dropped = {}
    /\ shot = 0 /\ raw = Missing /\ pc = "idle"
    /\ bendEach = TRUE /\ done = FALSE /\ tagged = FALSE
    /\ kpc = "idle" /\ since = 0

-----------------------------------------------------------------------------
(* spytask: raw_process *)

Bent(buffer) == [s \in DOMAIN buffer |-> buffer[s] + 1]

Frame ==
    /\ pc = "idle" /\ shot < MaxShots /\ (MenuBusy \/ kpc = "idle")
    /\ shot' = shot + 1
    /\ raw' = [s \in {shot + 1} |-> 0]
    /\ pc' = "decide"
    /\ UNCHANGED <<confVars, seqVars, bendEach, done, tagged, kbdVars>>

\* slip: the setting is not taken from the sequence
DecideByConf ==
    /\ pc = "decide"
    /\ bendEach' = (~enable \/ bendEachConf)
    /\ raw' = IF bendEach' THEN Bent(raw) ELSE raw
    /\ pc' = "mexp"
    /\ UNCHANGED <<confVars, seqVars, shot, done, tagged, kbdVars>>

\* bend this exposure, or only the composite? (raw_bitbend and raw_bendx)
Decide ==
    /\ pc = "decide"
    /\ bendEach' = (~enable \/ IF count > 0 THEN eachUsed ELSE bendEachConf)
    /\ raw' = IF bendEach' THEN Bent(raw) ELSE raw
    /\ pc' = "mexp"
    /\ UNCHANGED <<confVars, seqVars, shot, done, tagged, kbdVars>>

\* slip: the composite is not recorded
FinalEachOnly ==
    /\ pc = "final"
    /\ raw' = IF ~bendEach /\ done THEN Bent(raw) ELSE raw
    /\ tagged' = bendEach
    /\ pc' = "out"
    /\ UNCHANGED <<confVars, seqVars, shot, bendEach, done, kbdVars>>

\* the composite is bent if its exposures were not; what was bent is recorded
Final ==
    /\ pc = "final"
    /\ raw' = IF ~bendEach /\ done THEN Bent(raw) ELSE raw
    /\ tagged' = (bendEach \/ done)
    /\ pc' = "out"
    /\ UNCHANGED <<confVars, seqVars, shot, bendEach, done, kbdVars>>

\* the buffer is Canon's again
Develop ==
    /\ pc = "out"
    /\ pc' = "idle"
    /\ UNCHANGED <<confVars, seqVars, shot, raw, bendEach, done, tagged, kbdVars>>

-----------------------------------------------------------------------------
(* spytask: raw_mexp *)

\* slip: the ghost is left where it is
CancelNoGhost == file' = Missing /\ count' = 0 /\ UNCHANGED tile

\* raw_mexp_cancel
Cancel == file' = Missing /\ count' = 0 /\ tile' = {}

\* slip: switched off, the sequence is kept
MexpOffKeeps ==
    /\ pc = "mexp" /\ ~enable
    /\ done' = FALSE /\ pc' = "final"
    /\ UNCHANGED <<confVars, seqVars, shot, raw, bendEach, tagged, kbdVars>>

\* switched off part way through: the sequence ends
MexpOff ==
    /\ pc = "mexp" /\ ~enable
    /\ IF count > 0 THEN Cancel ELSE UNCHANGED <<file, count, tile>>
    /\ done' = FALSE /\ pc' = "final"
    /\ UNCHANGED <<confVars, target, eachUsed, dropped, shot, raw, bendEach, tagged, kbdVars>>

\* the first exposure: mexp_begin,
MexpBegin ==
    /\ pc = "mexp" /\ enable /\ count = 0
    /\ target' = frames /\ eachUsed' = bendEachConf /\ count' = 0 /\ dropped' = {}
    /\ done' = FALSE /\ pc' = "store"
    /\ UNCHANGED <<confVars, file, tile, shot, raw, bendEach, tagged, kbdVars>>

\* mexp_store: a file that does not open is left as it was, one that is not written
\* whole is removed
Store(ok) == IF ok THEN file' = raw ELSE file' \in {file, Missing}

\* which is not counted unless it is on the card
StoreFirst ==
    /\ pc = "store"
    /\ \E ok \in BOOLEAN : Store(ok) /\ pc' = IF ok THEN "counted" ELSE "finish"
    /\ UNCHANGED <<confVars, count, target, eachUsed, dropped, tile, shot, raw, bendEach, done,
                   tagged, kbdVars>>

CountFirst ==
    /\ pc = "counted"
    /\ count' = 1
    /\ pc' = "finish"
    /\ UNCHANGED <<confVars, target, eachUsed, file, dropped, tile, shot, raw, bendEach, done, tagged, kbdVars>>

\* the exposures of the accumulator join that of the frame
Join(acc, frame) ==
    [s \in DOMAIN acc \cup DOMAIN frame |-> IF s \in DOMAIN acc THEN acc[s] ELSE frame[s]]

\* a later exposure: mexp_combine
Combine ==
    /\ pc = "mexp" /\ enable /\ count > 0 /\ file # Missing
    /\ raw' = Join(file, raw)
    /\ done' = FALSE /\ pc' = "combined"
    /\ UNCHANGED <<confVars, seqVars, shot, bendEach, tagged, kbdVars>>

\* the file is not there, or there is no memory, or a row cannot be read: the
\* rows before it are blended.  The sequence ends.
CombineFails ==
    /\ pc = "mexp" /\ enable /\ count > 0
    /\ raw' \in {raw, Join(file, raw)}
    /\ Cancel
    /\ done' = FALSE /\ pc' = "finish"
    /\ UNCHANGED <<confVars, target, eachUsed, dropped, shot, bendEach, tagged, kbdVars>>

\* slip: the last exposure but one is not kept either
CountUpEarly ==
    /\ pc = "combined"
    /\ count' = count + 1
    /\ pc' = IF count + 2 < target THEN "keep" ELSE "finish"
    /\ UNCHANGED <<confVars, target, eachUsed, file, dropped, tile, shot, raw, bendEach, done,
                   tagged, kbdVars>>

CountUp ==
    /\ pc = "combined"
    /\ count' = count + 1
    /\ pc' = IF count + 1 < target THEN "keep" ELSE "finish"
    /\ UNCHANGED <<confVars, target, eachUsed, file, dropped, tile, shot, raw, bendEach, done,
                   tagged, kbdVars>>

\* nobody asks whether the exposure, which is counted, was kept
Keep ==
    /\ pc = "keep"
    /\ \E ok \in BOOLEAN : Store(ok) /\ dropped' = IF ok THEN dropped ELSE dropped \cup {shot}
    /\ pc' = "finish"
    /\ UNCHANGED <<confVars, count, target, eachUsed, tile, shot, raw, bendEach, done, tagged, kbdVars>>

\* slip: one exposure more
EnoughLate == count > target

Enough == count >= target

Finish ==
    /\ pc = "finish" /\ Enough
    /\ Cancel
    /\ done' = TRUE /\ pc' = "final"
    /\ UNCHANGED <<confVars, target, eachUsed, dropped, shot, raw, bendEach, tagged, kbdVars>>

\* mexp_ghost_capture; without memory for a first tile there is no ghost
Ghost == IF ghostConf THEN tile' = DOMAIN raw \/ (tile = {} /\ tile' = {})
         ELSE tile' = {}

Continue ==
    /\ pc = "finish" /\ ~Enough
    /\ IF count > 0 THEN Ghost ELSE UNCHANGED tile
    /\ pc' = "final"
    /\ UNCHANGED <<confVars, count, target, eachUsed, file, dropped, shot, raw, bendEach, done,
                   tagged, kbdVars>>

-----------------------------------------------------------------------------
(* Keyboard task: the menu, and set_config_value in a script *)

\* The menu is in another task, which runs while spytask is at a frame
\* (raw_service_ui gives the processor up for it).
MenuFree == kpc = "idle" /\ (MenuBusy \/ pc = "idle")

Settings ==
    /\ MenuFree
    /\ frames' \in 2 .. MaxFrames /\ bendEachConf' \in BOOLEAN /\ ghostConf' \in BOOLEAN
    /\ UNCHANGED <<enable, seqVars, rawVars, kbdVars>>

Enable ==
    /\ MenuFree /\ ~enable
    /\ enable' = TRUE
    /\ UNCHANGED <<frames, bendEachConf, ghostConf, seqVars, rawVars, kbdVars>>

\* the callback of the menu item cancels the sequence; a script has none
Disable ==
    /\ MenuFree /\ enable
    /\ enable' = FALSE
    /\ kpc' \in {"remove", "idle"}
    /\ UNCHANGED <<frames, bendEachConf, ghostConf, seqVars, rawVars, since>>

MenuCancel ==
    /\ MenuFree
    /\ kpc' = "remove"
    /\ UNCHANGED <<confVars, seqVars, rawVars, since>>

CancelRemove ==
    /\ kpc = "remove"
    /\ file' = Missing
    /\ kpc' = "reset"
    /\ UNCHANGED <<confVars, count, target, eachUsed, dropped, tile, rawVars, since>>

CancelReset ==
    /\ kpc = "reset"
    /\ count' = 0 /\ since' = IF count > 0 THEN shot ELSE since
    /\ kpc' = "ghost"
    /\ UNCHANGED <<confVars, target, eachUsed, file, dropped, tile, rawVars>>

CancelGhost ==
    /\ kpc = "ghost"
    /\ tile' = {}
    /\ kpc' = "idle"
    /\ UNCHANGED <<confVars, count, target, eachUsed, file, dropped, rawVars, since>>

\* a card pulled between exposures
CardLost ==
    /\ pc = "idle" /\ file # Missing
    /\ file' = Missing
    /\ UNCHANGED <<confVars, count, target, eachUsed, dropped, tile, rawVars, kbdVars>>

-----------------------------------------------------------------------------
Spy == \/ Frame \/ Decide \/ MexpOff \/ MexpBegin \/ StoreFirst \/ CountFirst
       \/ Combine \/ CombineFails \/ CountUp \/ Keep \/ Finish \/ Continue
       \/ Final \/ Develop

Kbd == Settings \/ Enable \/ Disable \/ MenuCancel \/ CancelRemove \/ CancelReset \/ CancelGhost

Next == Spy \/ Kbd \/ CardLost

Spec == Init /\ [][Next]_vars

-----------------------------------------------------------------------------
(* Properties *)

\* The settings keep to their ranges, no more exposures are counted than the
\* sequence takes, and buffers hold shots that were taken.
TypeOK ==
    /\ {enable, bendEachConf, ghostConf, eachUsed, bendEach, done, tagged} \subseteq BOOLEAN
    /\ {frames, target} \subseteq 2 .. MaxFrames /\ count \in 0 .. target
    /\ shot \in 0 .. MaxShots /\ tile \subseteq 1 .. shot /\ since \in 0 .. shot
    /\ dropped \subseteq 1 .. shot
    /\ \A b \in {raw, file} : DOMAIN b \subseteq 0 .. shot /\ \A s \in DOMAIN b : b[s] \in 0 .. 2
    /\ pc \in {"idle", "decide", "mexp", "store", "counted", "combined", "keep", "finish", "final", "out"}
    /\ kpc \in {"idle", "remove", "reset", "ghost"}

\* A picture taken for the composite blends the last exposures, as many as the sequence
\* was begun with: none is from another sequence, and none is missing but those that
\* MEXP.TMP did not open for, which mexp_store leaves out and raw_mexp counts.
CompositeExact == pc = "out" /\ done => DOMAIN raw = (shot - target + 1 .. shot) \ dropped

\* The count that weights the accumulator in an average is the number of exposures
\* in it, whatever failed before; only those that the file did not open for are counted
\* and not in it.
WeightRight ==
    pc = "mexp" /\ count > 0 /\ file # Missing =>
        count = Cardinality(DOMAIN file) + Cardinality(dropped)

\* No exposure of a composite is left unbent or bent twice, however the setting
\* was changed on the way.
BentOnce == pc = "out" /\ done => \A s \in DOMAIN raw : raw[s] = 1

\* A recipe goes with exactly the pictures whose newest exposure was bent.
TaggedIfBent == pc = "out" => (tagged <=> raw[shot] > 0)

\* The ghost shows the newest exposure and what is kept of the sequence that runs, and
\* nothing without one.
GhostRight ==
    pc = "idle" /\ kpc = "idle" =>
        tile = {} \/ (count > 0 /\ tile = ((shot - count + 1 .. shot) \ dropped) \cup {shot})

\* A composite has all the exposures that were counted.
NoneDropped == pc = "out" /\ done => DOMAIN raw = shot - target + 1 .. shot

\* A sequence cancelled in the menu is over: no composite blends an exposure from
\* before with one from after.
CancelEnds ==
    pc = "out" /\ done => ~ \E s, t \in DOMAIN raw : s <= since /\ since < t
=============================================================================
