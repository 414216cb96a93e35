------------------------------- MODULE GbAlbum -------------------------------
(* The album of the Game Boy Camera emulator: modules/gbc/gbc_save.c, with the    *)
(* commit signal of gbc_cam.c and opening and closing in gbc_emu.c.  All of it    *)
(* runs in one task: the ROM for a frame, then gbc_save_service once.           *)
(*                                                                            *)
(* A picture is its number, which also stands for its checksum; 0 is a blank slot *)
(* and "never exported".                                                      *)
EXTENDS Integers, Sequences, FiniteSetsExt, Functions

CONSTANTS NSlots,   \* GBC_PHOTO_SLOTS
          Keep,     \* GBC_ALBUM_KEEP
          LeastRun, \* entries by which album_patch_wram finds a working copy, 5
          LastNumber, \* the last number of GBC_DCIM_DIR, 9999
          MaxPics,  \* bound: pictures taken
          Env       \* what happens: "power" is cut, the card is "full" or it
                    \* "refuses" the .SAV, the directory is "unread", the ROM is
                    \* "quick" to take the next picture

ASSUME SlotsAssumption == NSlots \in Nat \ {0} /\ Keep \in 0 .. NSlots
ASSUME PicsAssumption == MaxPics \in Nat
ASSUME NumberAssumption == LastNumber \in Nat /\ LeastRun \in Nat
ASSUME EnvAssumption == Env \subseteq {"power", "full", "refuses", "unread", "quick"}

VARIABLES
    phase,          \* the emulator: "off", "on" or "closing"
    tiles, tab,     \* cartridge RAM: the slots, and the table of slots, oldest first
    wtab,           \* the ROM's working copy of the table
    dirty, commit,  \* dirty, commit_pending
    cursor,         \* export_slot
    sum,            \* slot_sum
    guard,          \* calls that gbc_save_flush has left
    rom,            \* the ROM in a save: "idle", "stored", "counted" or "listed"
    sav,            \* the .SAV on the card
    dcim,           \* A/DCIM/GBC: number -> picture, 0 for a file cut short
    dcimNext,       \* gbc_dcim_next, -1 before the directory is read
    taken,          \* pictures taken
    deleted,        \* history: pictures that the player deleted
    blind,          \* history: the numbers of this session began without all of the
                    \* directory
    excused,        \* history: pictures that the card or a cut of the power may cost
    refused         \* history: the card refused the .SAV while the emulator was closing

cartVars == <<tiles, tab, wtab, rom, taken, deleted>>
jobVars  == <<dirty, commit, cursor, sum, guard>>
cardVars == <<sav, dcim, dcimNext>>
history == <<blind, excused, refused>>
vars == <<phase, cartVars, jobVars, cardVars, history>>

Slots   == 0 .. NSlots - 1
Blank   == [s \in Slots |-> 0]
Album(t, q) == {t[s] : s \in Range(q)}
InDcim  == Range(dcim) \ {0}
Excused(p) == (excused \cup p) \ InDcim

Init ==
    /\ phase = "off" /\ tiles = Blank /\ tab = <<>> /\ wtab = <<>>
    /\ dirty = FALSE /\ commit = FALSE /\ cursor = 0 /\ sum = Blank /\ guard = 0
    /\ rom = "idle" /\ sav = [tiles |-> Blank, tab |-> <<>>]
    /\ dcim = <<>> /\ dcimNext = -1
    /\ taken = 0 /\ deleted = {} /\ blind = FALSE /\ excused = {} /\ refused = FALSE

-----------------------------------------------------------------------------
(* Opening and closing *)

\* gbc_save_load: what is in the file counts as exported
LoadedSum == sav.tiles

\* gbc_emu_open; the module may have been unloaded since the last time
Open ==
    /\ phase = "off"
    /\ phase' = "on"
    /\ tiles' = sav.tiles /\ tab' = sav.tab /\ wtab' = sav.tab /\ rom' = "idle"
    /\ sum' = LoadedSum
    /\ dirty' = FALSE /\ commit' = FALSE /\ cursor' = 0 /\ guard' = 0
    /\ dcimNext' \in {dcimNext, -1} /\ refused' = FALSE
    /\ UNCHANGED <<taken, deleted, sav, dcim, blind, excused>>

\* slip: the flush is cut short
GuardShort == NSlots + 3

\* GBC_PHOTO_SLOTS + 4
Guard == NSlots + 4

\* gbc_emu_close: the player may leave while the ROM is at a save
Close ==
    /\ phase = "on"
    /\ phase' = "closing"
    /\ commit' = (commit \/ dirty)
    /\ guard' = Guard
    /\ excused' = IF rom = "idle" THEN excused ELSE Excused({taken})
    /\ UNCHANGED <<cartVars, dirty, cursor, sum, cardVars, blind, refused>>

Closed ==
    /\ phase = "closing" /\ (~commit \/ guard = 0)
    /\ phase' = "off" /\ rom' = "idle"
    /\ wtab' = <<>> /\ cursor' = 0 /\ sum' = Blank /\ guard' = 0
    /\ UNCHANGED <<tiles, tab, taken, deleted, dirty, commit, cardVars, history>>

PowerCut ==
    /\ "power" \in Env /\ phase # "off"
    /\ phase' = "off" /\ rom' = "idle"
    /\ tiles' = sav.tiles /\ tab' = sav.tab
    /\ wtab' = <<>> /\ cursor' = 0 /\ sum' = Blank /\ guard' = 0
    /\ dirty' = FALSE /\ commit' = FALSE
    /\ dcimNext' = -1
    /\ excused' = Excused(1 .. taken)
    /\ UNCHANGED <<taken, deleted, sav, dcim, blind, refused>>

-----------------------------------------------------------------------------
(* The ROM: a save goes over several frames, and the player waits for it *)

RomFree == phase = "on" /\ rom = "idle" /\ (~commit \/ "quick" \in Env)

RomUnchanged == UNCHANGED <<phase, commit, cursor, sum, guard, cardVars, history>>

\* a picture is stored in a slot that the working copy does not list
RomStore ==
    /\ RomFree /\ taken < MaxPics
    /\ \E s \in Slots \ Range(wtab) :
          /\ tiles' = [tiles EXCEPT ![s] = taken + 1]
          /\ taken' = taken + 1
    /\ dirty' = TRUE /\ rom' = "stored"
    /\ UNCHANGED <<tab, wtab, deleted>> /\ RomUnchanged

\* and entered in the working copy,
RomCount ==
    /\ phase = "on" /\ rom = "stored"
    /\ \E s \in Slots : tiles[s] = taken /\ wtab' = Append(wtab, s)
    /\ rom' = "counted"
    /\ UNCHANGED <<tiles, tab, taken, deleted, dirty>> /\ RomUnchanged

\* which is written back
RomList ==
    /\ phase = "on" /\ rom = "counted"
    /\ tab' = wtab /\ dirty' = TRUE /\ rom' = "listed"
    /\ UNCHANGED <<tiles, wtab, taken, deleted>> /\ RomUnchanged

\* the player deletes a picture
RomDelete ==
    /\ RomFree
    /\ \E k \in DOMAIN wtab :
          /\ wtab' = SubSeq(wtab, 1, k - 1) \o SubSeq(wtab, k + 1, Len(wtab))
          /\ deleted' = deleted \cup {tiles[wtab[k]]}
    /\ rom' = "counted"
    /\ UNCHANGED <<tiles, tab, taken, dirty>> /\ RomUnchanged

\* slip: a commit in progress goes on from where it is
RequestOn == commit' = TRUE /\ cursor' = cursor

\* gbc_cam_write: a commit is asked for
Request == commit' = TRUE /\ cursor' = 0

\* the RAM is disabled, which the ROM does between its writes too
RomDisable ==
    /\ phase = "on" /\ rom # "idle"
    /\ IF dirty THEN Request ELSE UNCHANGED <<commit, cursor>>
    /\ rom' \in IF rom = "listed" THEN {"idle"} ELSE {rom}
    /\ UNCHANGED <<phase, tiles, tab, wtab, taken, deleted, dirty, sum, guard, cardVars, history>>

-----------------------------------------------------------------------------
(* gbc_save_service, once a frame, or in a loop when the emulator is closed *)

Serviced ==
    /\ commit
    /\ \/ phase = "on" /\ guard' = guard
       \/ phase = "closing" /\ guard > 0 /\ guard' = guard - 1

\* write_sav
WriteSav ==
    /\ Serviced /\ dirty
    /\ sav' = [tiles |-> tiles, tab |-> tab]
    /\ dirty' = FALSE
    /\ UNCHANGED <<phase, cartVars, commit, cursor, sum, dcim, dcimNext, history>>

\* the card refuses: no file, or one cut short
WriteSavFails ==
    /\ Serviced /\ dirty /\ "refuses" \in Env
    /\ sav' \in {sav, [tiles |-> Blank, tab |-> <<>>]}
    /\ commit' = FALSE
    /\ excused' = IF phase = "closing" THEN Excused(1 .. taken) ELSE excused
    /\ refused' = (refused \/ phase = "closing")
    /\ UNCHANGED <<phase, cartVars, dirty, cursor, sum, dcim, dcimNext, blind>>

\* slip: a slot that was exported once is not exported again
PendingOnce(s) == tiles[s] # 0 /\ sum[s] = 0

\* a picture that is not the one exported last
Pending(s) == tiles[s] # 0 /\ sum[s] # tiles[s]

\* the slots before s that have to be exported; if there are any, the card or the
\* memory did not let them
PendingTo(s) == {t \in cursor .. s - 1 : Pending(t)}
Passed(s) == PendingTo(s) = {} \/ "full" \in Env

\* slip: the first number of a new session is the last one used
LastUsed == IF DOMAIN dcim = {} THEN 0 ELSE Max(DOMAIN dcim)

\* one more than the highest number in the directory
FirstFree == IF DOMAIN dcim = {} THEN 0 ELSE 1 + Max(DOMAIN dcim)

\* gbc_dcim_scan: of a directory that does not open no file is seen, of one that is
\* not read to its end some are
Scan == {FirstFree} \cup
        IF "unread" \in Env THEN {0} \cup {1 + m : m \in DOMAIN dcim} ELSE {}

\* picture p in the file with number n, and the others as they are
Put(n, p) == [m \in DOMAIN dcim \cup {n} |-> IF m = n THEN p ELSE dcim[m]]

\* gbc_dcim_write with number n: the file that there may be is emptied first, and
\* beyond the last number nothing is written
DcimWrite(n, p) ==
    \/ n <= LastNumber /\ dcim' = Put(n, p) /\ dcimNext' = n + 1
    \/ n <= LastNumber /\ "full" \in Env /\ dcim' \in {dcim, Put(n, 0)} /\ dcimNext' = n
    \/ n > LastNumber /\ dcim' = dcim /\ dcimNext' = n

\* gbc_save_export_slot: the one picture of this call, exported whatever of it is in
\* DCIM; what it takes the place of is excused if the scan did not see it
Export(s) ==
    /\ Serviced /\ ~dirty
    /\ s >= cursor /\ Pending(s) /\ Passed(s)
    /\ cursor' = s + 1
    /\ sum' = [sum EXCEPT ![s] = tiles[s]]
    /\ \E n \in IF dcimNext < 0 THEN Scan ELSE {dcimNext} :
          /\ blind' = IF dcimNext < 0 THEN n # FirstFree ELSE blind
          /\ DcimWrite(n, tiles[s])
    /\ excused' = (excused \cup {tiles[t] : t \in PendingTo(s) \cup {s}}
                           \cup IF blind' THEN InDcim ELSE {}) \ InDcim'
    /\ UNCHANGED <<phase, cartVars, dirty, commit, sav, refused>>

\* nothing to export is left
Exported ==
    /\ Serviced /\ ~dirty /\ Passed(NSlots)
    /\ cursor' = NSlots
    /\ excused' = Excused({tiles[t] : t \in PendingTo(NSlots)})
    /\ UNCHANGED <<blind, refused>>

\* how many of the oldest pictures go: those beyond the ones to keep, up to the
\* first that this session has no checksum of
Freed ==
    IF Len(tab) <= Keep THEN 0
    ELSE CHOOSE k \in 0 .. Len(tab) - Keep :
           /\ \A i \in 1 .. k : sum[tab[i]] # 0
           /\ k = Len(tab) - Keep \/ sum[tab[k + 1]] = 0

\* album_patch_wram: a working copy is found by its contents, all of them or the
\* entries of the table alone
Patched(q) ==
    IF \/ q = tab
       \/ /\ LeastRun <= Len(tab) /\ Len(tab) <= Len(q)
          /\ \A i \in 1 .. Len(tab) : q[i] = tab[i]
    THEN SubSeq(q, Freed + 1, Len(q))
    ELSE q

\* slip: a list that is short enough is still written back
RecycleAlways ==
    /\ Exported
    /\ tab' = SubSeq(tab, Freed + 1, Len(tab))
    /\ wtab' = Patched(wtab)
    /\ sum' = [s \in Slots |-> IF \E i \in 1 .. Freed : tab[i] = s THEN 0 ELSE sum[s]]
    /\ dirty' = TRUE
    /\ UNCHANGED <<phase, tiles, rom, taken, deleted, commit, cardVars>>

\* gbc_album_recycle
Recycle ==
    /\ Exported /\ Freed > 0
    /\ tab' = SubSeq(tab, Freed + 1, Len(tab))
    /\ wtab' = Patched(wtab)
    /\ sum' = [s \in Slots |-> IF \E i \in 1 .. Freed : tab[i] = s THEN 0 ELSE sum[s]]
    /\ dirty' = TRUE
    /\ UNCHANGED <<phase, tiles, rom, taken, deleted, commit, cardVars>>

Finish ==
    /\ Exported /\ Freed = 0
    /\ commit' = FALSE
    /\ UNCHANGED <<phase, cartVars, dirty, sum, cardVars>>

-----------------------------------------------------------------------------
Service == WriteSav \/ WriteSavFails \/ (\E s \in Slots : Export(s)) \/ Recycle \/ Finish

Rom == RomStore \/ RomCount \/ RomList \/ RomDelete \/ RomDisable

Next == Open \/ Close \/ Closed \/ PowerCut \/ Rom \/ Service

Spec == Init /\ [][Next]_vars

\* frames run while the emulator is on, and the flush is a loop
LiveSpec == Spec /\ WF_vars(Service)

-----------------------------------------------------------------------------
(* Properties *)

\* The table lists each slot once, what is counted is in range, and what is
\* exported or saved was taken; the next number of DCIM is beyond all pictures in it,
\* unless the directory could not be read when the session began.
TypeOK ==
    /\ phase \in {"off", "on", "closing"} /\ rom \in {"idle", "stored", "counted", "listed"}
    /\ tiles \in [Slots -> 0 .. taken] /\ sum \in [Slots -> 0 .. taken]
    /\ \A q \in {tab, wtab, sav.tab} : q \in Seq(Slots) /\ IsInjective(q)
    /\ cursor \in 0 .. NSlots /\ guard \in 0 .. Guard /\ taken \in 0 .. MaxPics
    /\ InDcim \subseteq 1 .. taken /\ deleted \subseteq 1 .. taken
    /\ DOMAIN dcim \subseteq 0 .. LastNumber /\ dcimNext \in -1 .. LastNumber + 1
    /\ dcimNext < 0 \/ blind \/ \A n \in DOMAIN dcim : dcim[n] # 0 => n < dcimNext
    /\ sav.tiles \in [Slots -> 0 .. taken]

\* Where a picture can still be found.
Found == InDcim \cup Album(sav.tiles, sav.tab) \cup Album(tiles, tab) \cup
         (IF rom \in {"stored", "counted"} THEN {taken} ELSE {})

\* No picture is lost over any number of sessions, whatever is recycled: it is in
\* the album or in DCIM, unless the player deleted it, the card failed on it, the
\* power was cut, DCIM was at its last number, or a session that could not read the
\* directory wrote over it.
NothingLost == 1 .. taken \ (deleted \cup excused) \subseteq Found

\* A picture in DCIM keeps its number and is never overwritten by another one, in a
\* session that read the directory when it began.
NumbersKept ==
    [][~blind' => \A n \in DOMAIN dcim :
                     dcim[n] # 0 => n \in DOMAIN dcim' /\ dcim'[n] = dcim[n]]_vars

\* Closed with a card that takes the .SAV, the emulator has written everything: the
\* bounded loop of the flush is long enough for whatever a commit has left to do.
ClosedIsSaved ==
    phase = "off" /\ ~refused =>
        ~commit /\ ~dirty /\ sav = [tiles |-> tiles, tab |-> tab]

\* Every commit comes to an end, although recycling opens it once more.
CommitEnds == commit ~> ~commit

\* A picture that was in the .SAV is not lost when the power is cut.
SafeInSav == [][Album(sav.tiles, sav.tab) \ deleted' \subseteq Found']_vars

\* No picture is in DCIM twice.
NoDuplicates == \A m, n \in DOMAIN dcim : dcim[m] = dcim[n] /\ dcim[m] # 0 => m = n
=============================================================================
