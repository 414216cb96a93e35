# CHDK Rewired: a TLA+ verification project

CHDK Rewired is firmware that runs beside Canon's own on PowerShot cameras. It
has no operating system of its own: its code is called from, or runs as, tasks
of the camera's real-time kernel, which preempt each other on one CPU, and the
code shares state between them mostly in plain variables without a lock. That is
where it is hard to test, and that is what this project models.

Paths below are relative to `src/chdk-src/`.

Contents: 1 inventory, 2 modules and how they correspond to the code, 3 runs,
4 proofs, 5 what the code does otherwise than its comments say, 6 what is not
modelled and why.

## 1. Inventory

### Tasks

| task | enters CHDK at | does |
|---|---|---|
| keyboard (physw) | `core/kbd_process.c` `kbd_process` | terminates, interrupts, starts and runs scripts, action stacks, GUI key handling, menus, USB remote |
| spytask | `core/main.c` `core_spytask` | start-up and autostart, drawing, raw processing, bend recipes, ALT mode activation, module unloading |
| PTP | `core/ptp.c` `handle_ptp` | one host request at a time: run a script, message it, download files, remote capture |
| capture sequence | `platform/generic/capt_seq.c` | calls the shooting hooks; waits for spytask to finish the raw buffer |
| filewrite | `platform/generic/filewrite.c` | Canon's file writer with open, write and close replaced |

### Components

| component | state | operations | interacts with | what is hard | what makes it correct |
|---|---|---|---|---|---|
| PTP message queues, `core/ptp.c` | two rings: `r`, `w`, `q[16]` | enqueue, dequeue, empty | script (keyboard task) at one end, PTP task at the other | no lock; full and wrap tests | bounded FIFO; a slot belongs to one side at a time |
| script control, `core/script.c`, `core/ptp.c` | `state_kbd_script_run`, `running_script_stack_name`, `script_terminate_request`, `old_gui_handler`, the posted program | start from GUI or host, end, restore, terminate and wait | all three tasks | a check in one task and its use after the other has moved on; a wait without timeout | one script; it runs its own program; a queue is flushed only under no script; every request is answered |
| ALT mode, `core/kbd_process.c`, `core/gui.c` | `kbd_blocked`, `gui_current_alt_state`, `gui_mode` | enter, leave, activate, bend-mode hold | script control, GUI | the request is read in several steps by another task | GUI mode and script state agree |
| action stacks, `core/action_stack.c` | a linked list of stacks, a free list, `active_stack`, ids | create, kill, a pass over all, is-finished | scripts, shooting, USB remote; asked by the PTP task | the list is changed inside the pass and while another task walks it | the list is a set of ids served newest first; a block is on one list |
| Lua and uBASIC hosts, `modules/luascript.c`, `modules/ubasic.c` | the interpreter, `lua_script_is_ptp`, saved ALT state | start, run a slice, restore, reset, restart on error | script control, dialogs | restart from inside the script's own stack | see script control |
| file browser and text box, `modules/gui_fselect.c`, `modules/gui_tbox.c` | open or not, callback, old GUI mode | load, open, select, cancel, leave ALT | script control, module loader | the callback may come late, twice or never; the module may not load | a script that waits for a dialog on screen is woken exactly by it |
| bend recipe tags, `core/bend_tag.c` | one job: `bt_path`, `bt_text`, `bt_pending`, `bt_at`, `bt_arm` | queue, service, note open and close, segment | spytask and filewrite task | one job for pictures that are written later by another task | every bent picture carries its own recipe, behind Canon's last byte |
| raw hook and file writer, `platform/generic/capt_seq.c`, `filewrite.c` | `raw_save_stage`, `raw_data_available`, the open file | wait for spytask; open, write, close, discard | spytask, remote capture, tags | two flags for one handshake | the hook is let go for every frame |
| multiple exposure, `core/raw.c`, `core/mexp.c`, `core/mexp_ghost.c` | `mexp_count`, `mexp_target`, latched settings, `MEXP.TMP`, the ghost tile | begin, store, combine, cancel, draw | spytask; the menu in the keyboard task; scripts through the settings | card errors, settings changed on the way, cancelling from another task | the composite is exactly the exposures of one sequence that its file opened for, weighted by their number, bent once |
| script shoot hooks, `modules/script_shoot_hook.c` | per hook: timeout, active, count | set, run, continue, reset | capture task and script | a late continue | the camera is let go whatever the script does |
| module loader, `modules/module_load.c` | table of loaded modules, a lock flag | find, load, unload, tick | every task that calls a module | find before lock; unload before use | a module is loaded once, and never unloaded in use |
| remote capture, `core/remotecap.c` | target, available and pending data, which files are ignored, chunks, the file number | set target, raw available, file available, file complete, get chunk, send complete, reset | spytask, filewrite, PTP task, script | four tasks and timeouts over shared flags; a burst | every picture is on the card or with the host, whole and under its own number |
| Game Boy Camera album, `modules/gbc/gbc_save.c`, `gbc_cam.c`, `gbc_emu.c` | cartridge RAM with slots and their table, dirty and commit flags, export cursor, checksums of what was exported, next DCIM number | load, service once a frame (write the .SAV, export a slot, recycle), flush on closing | the emulated ROM, the card | a commit spread over many frames; power cuts, a full card, a directory that cannot be read; slots reused | no picture is lost, none in DCIM overwritten, each commit ends |
| USB remote, `core/usb_remote.c`, `usb_module.c`, `usb_input.c`, `usb_sync.c` | logic and virtual remote states | input drivers, control modules | action stacks, key emulation | presses faster than shots | every key pressed is released |
| shooting, `core/shooting.c`, `core/autoiso.c` | override values | set, apply | hooks, scripts | order of overrides | — |
| bend engines, `core/bend*.c` | matrices, chains, presets | bend, pack, store | raw processing, GUI | arithmetic | pack and unpack agree |
| configuration, `core/conf.c` | table of values | set, load, save | menu, scripts | save while edited | — |
| memory, `core/memmgmt.c`, `core/suba.c` | cells with their sizes, the free list, counters, the largest free cell | init, alloc, free, info | all | blocks come back in any order | blocks do not overlap, nothing is lost, a request is refused only if nothing fits |
| GUI, OSD, GPS, interpreters, fonts, platform wrappers | — | — | — | — | see section 6 |

`PROJECT.json` lists the components with their status, and under `hazards` what
is hard to test in this code, at its line.

## 2. Modules

| module | models | abstract specification |
|---|---|---|
| `ScriptMsgQueue` | one of the two PTP message rings; each step is one access to shared memory | `MsgFifo`, a bounded queue |
| `ScriptControl` | start, run, interruption, restore, restart, termination of scripts; the passes of `kbd_process`; ExecuteScript; ALT mode activation; dialogs of scripts | `StackList`, whose user it is |
| `ActionStack` | the list of action stacks with its memory blocks, a pass over it and a walk over it by the PTP task | `StackList`, a set of ids |
| `BendTag` | from the raw hook over the recipe job to the closed file, for both kinds of build | — |
| `MultiExposure` | a sequence of exposures with its file, its ghost and the settings | — |
| `RemoteCapture` | a shot on its way to the host or the card: spytask, the file writer, the PTP task, the script and its raw hook | — |
| `GbAlbum` | the pictures of the Game Boy Camera over sessions: cartridge RAM, .SAV and DCIM | — |
| `SubAlloc` | the sub-allocator of `core/suba.c`: cells, free list and counters | `Heap`, a set of disjoint blocks |
| `MC*` | the instances for TLC: they only extend the module, the constants are in the `.cfg` files (`MCRemoteCapture` names the two sets of targets) | |
| `ScriptMsgQueueProofs`, `ScriptControlProofs`, `SubAllocProofs`, `MultiExposureProofs`, `RemoteCaptureProofs`, `BendTagProofs`, `GbAlbumProofs`, `ActionStackProofs` | the theorems (section 4) | |

Every module keeps the names of the code. A step is a stretch of one task between
two accesses that another task could tell apart; where only one task sees a
variable, a whole function is one step. Operators whose comment starts with
`slip:` are not part of the system: each is a definition with a plausible
mistake, used to see that the properties notice it.

**ScriptMsgQueue.** `r`, `w`, `q` are the fields of `ptp_script_msg_q`, `wpc` and
`rpc` the positions of the two tasks in `enqueue_script_msg` and
`dequeue_script_msg`. `SlotOwnership` says that the slots being written and read
differ and that what is read was written; `ImplementsFifo` is the refinement of
`MsgFifo`, where a message is in the queue from the store of `w` to the store of `r`.

**ScriptControl.** `kpc` goes once round per pass of `kbd_process`: `check`
(`script_check_terminate`), `keys` (ALT button, early returns), `gui` (GUI keys,
terminate key, start), `restore`, `stacks`/`process`/`walk`/`finish` (the pass over
the stacks), `start` (`start_ptp_script`). `ending` is the middle of `script_end`,
`starting` that of `script_start_gui`, at the points where the PTP task can see
half of their effect. `ppc` is the PTP task in ExecuteScript, `spc` spytask in
`gui_activate_alt_mode`. `Env` lists what happens beside the host's requests, so
that a run can say what a promise depends on.

A script opens a dialog in two steps (`opening`): it is inactive before the dialog is
there, and the other tasks can see that. The dialog's module may not load (`"noload"`):
a text box is then answered at once, but nobody notices for a file browser, and its
script waits for a dialog that never comes. The top of a waiting script's stack is
therefore `"module"` or `"stranded"`, the same function of the code
(`action_stack_AS_WAIT_MODULE`) behind a dialog that was loaded or was not. An open text
box takes every key (`keyboard_kbd` always returns 1), so that passes end before the
stacks until it closes; MENU, which is handled before it, and the keys of the browser
let the pass go on (`AfterDialog`).

**ActionStack.** `next`, `id`, `ptr` are the fields of `action_stack_t` for each
block; creating a stack and finishing one are taken apart at every store to the
list, because the PTP task may be at any place in it (`Look`, `Advance`). What the
functions on a stack do is left to their callers: they wait, push, pop, end the
newest script (`script_end`) or replace themselves by a new stack
(`lua_script_error`). `List` maps the linked list to the ids of the listed blocks.

**BendTag.** `inject` is the build option `CAM_BEND_TAG_INJECT`, chosen at the start.
Times are only told apart as the code does: before `BT_FIRST_MS`, after it, after
`BT_GIVEUP_MS`. `card[n]` says what is on the card of picture n. `bent` and
`excused` are history: the shots that were bent, and the pictures that cannot
carry a recipe because they went to the host, met a card error or came too late.
The recipe is written as the number of its shot; `Torn` is a text being built or
cut short. A raw hook waits for spytask, and the exposure of the next picture
takes longer than spytask needs from the end of the frame to clearing
`raw_data_available` (`ExposureTakesTime`): `core/main.c:427-430` sets the one and
clears the other, and a frame between them would be lost.

**MultiExposure.** A buffer is a function from the shots blended into it to the
times each was bent, so that the order of bending and blending, and which shots
take part, can be told; pixel values are left out. The cancel of the menu is three
steps of the keyboard task. `MenuBusy` says whether the menu is used while a frame
is processed, which takes seconds and gives the processor up on purpose
(`raw_service_ui`). `mexp_store` has three outcomes: the file is the buffer, it was not
written whole and is removed, or it did not open and is what it was before. A first
exposure that is not stored is not counted, a later one is, and the composite goes on
without it: `dropped` is the history of those exposures, and `CompositeExact`,
`WeightRight` and `GhostRight` say that nothing else sets the count, the file, the
composite and the ghost apart. What is left of a sequence when the camera is switched
off is `Leftover`. `WeightRight` is stated where `mexp_combine` is called with
`mexp_count`, which weights the accumulator in an average.

**RemoteCapture.** The variables are those of `core/remotecap.c`, the places of the
tasks (`spy`, `fwt`, `ptp`), the queue of pictures the camera has still to write and
what the host has. A wait is two steps, its start and its end, because the other
tasks act in between; its timeout may come at any time (`"timeout"` in `Env`). The
file writer is taken apart at opening, writing and closing, the PTP task at looking
up a buffer and having sent it. A transfer is `NChunks` chunks. `Idle` guards
`SetTarget`: a script that sets a target while pictures are on their way
(`"rearm"`) breaks most of them, see section 5.

**GbAlbum.** A picture is its number, which also stands for its checksum. The ROM
saves in four steps (tiles, counter, table, RAM disabled) and a frame of the service
may come after any of them. Each step of `Service` is one call of
`gbc_save_service`: writing the .SAV, exporting the next slot that has to be, or
recycling, in the order of the code. `PowerCut` may come anywhere; of a copy to DCIM that fails nothing, an empty file or one cut short
may be left (0). `Scan` is the set of what reading the directory may give: one more than
its highest number, 0 if it does not open, and one more than any of its numbers if it is
not read to its end; `blind` says that this session did not get the first. Beyond
`LastNumber` nothing is written and the picture counts as exported all the same.
`Patched` is the search of `album_patch_wram` for the ROM's working copy, by all thirty
bytes or, from `LeastRun` entries on, by the entries alone. A table is the list of its
entries; the unused bytes behind them are not told apart.

`deleted` are the pictures the player deleted. `excused` are those that one of the
failures below may cost: the card or the memory did not let them be copied, DCIM was
at its last number, they were not in DCIM when the power was cut or when a closing
emulator's .SAV was refused, the ROM was in the middle of their save when the emulator
was closed, or they were overwritten by a session that is `blind`.
A picture that is found in DCIM is never excused.

**SubAlloc.** Addresses and sizes are in words. `size` gives the cells, `next` the
free list, so that a cell that is not in the domain of `next` is allocated. A call
holds the allocator's semaphore and is one step. The walk over the list is stated as
its result (the first cell that fits, the last one before an address), which is what
it is because the list is in the order of the addresses; `Linked` is that fact, and it
is proved. Seen as a `Heap`,
an allocated cell, with its header, is a block.

## 3. Runs

| run | instance | shows | distinct states |
|---|---|---|---|
| `script_msg_queue` | 3 messages, 4 slots | queue is a FIFO, slots owned by one side | 52537 |
| `script_host` | 3 scripts, 3 requests; terminate key, ALT | one script, its own program, safe flush, request stands; **every request answered** | 163712 |
| `script_dialog` | 4 scripts, 1 request; dialogs, modules that do not load, terminate key, starts by the user, restarts | a script whose dialog was loaded waits only while that is on screen | 19153 |
| `action_stack` | 3 blocks, limit 2, 4 stacks ever, depth 1 | list and free list well formed; "alive" is right; refines `StackList` | 427492 |
| `bend` | 3 shots, both builds, picture closed before the next hook | recipes right, complete, once; hook let go; jobs end | 66791 |
| `mexp` | 5 shots, sequences of 2 or 3, menu between shots | composites exact, weighted and bent right, ghost right, but for exposures that the file did not open for | 59352 |
| `heap` | 42 words, requests of 0, 9 and 24 bytes | cells tile the area, free ones are listed and joined, counters right; refines `Heap` | 84177 |
| `album` | 2 slots, 1 kept, 3 pictures, last number 1; power cuts, full card, refused .SAV, directory not read | nothing lost, nothing overwritten where the directory was read, closing saves; **every commit ends** | 2128316 |
| `capture` | 3 shots, 2 chunks, targets with the file; timeouts, cancels, bursts | nothing lost or torn, nothing offered twice, right number, never on the card too; **camera let go** | 206344 |
| `bend_burst` | 2 shots, next hook before the last picture is closed | refuted: section 5 | |
| `album_twice` | 3 slots, 1 kept, 3 pictures, nothing fails | refuted: section 5 | |
| `capture_raw` | 3 shots, raw targets only, bursts | refuted: section 5 | |

**Bounds.** Every counter that only grows is bounded by a constant in a guard:
scripts, requests, stacks, shots, pictures. They are chosen so that each reuse
happens: four slots let the ring wrap with one, two and three messages in it; three
scripts are a first, one that replaces it and one after the reuse of every flag; four
stacks over three blocks and a limit of two reuse a finished block twice and meet the
limit; three shots are one being written, one in the hook and one before both;
five shots are a cancelled sequence, one ended by an error and a complete one, or
one of three exposures with a plain picture on either side. The area of 42 words has
room for six smallest cells or two large ones with a rest that is just too small to
split; 0 bytes is the smallest cell, 9 needs rounding, 24 exceeds what two joined
smallest cells give. Two slots and three pictures reuse a slot after it was recycled;
the numbers 0 and 1 let the third picture meet the end of DCIM, and with a last
number of 1 a blind session has both to write over;
two chunks are a first and a last. What does not depend on the bounds is proved
(section 4). With two slots of which one is kept, the search of `album_patch_wram` by the
entries alone cannot find anything (a table that is longer than the one kept leaves no
room for a further entry); the proofs cover it, and `TypeOK`, `NothingLost`,
`ClosedIsSaved` and `NumbersKept` hold with `NSlots = 3`, `Keep = 1`,
`Env = {"full", "unread"}` (2346444 states), which is no run of the list for its length.

**Deadlock** is checked in every run. Where the bound is reached the tasks go on
with what remains to do (passes, polling, queries, opening and closing).

**Fairness.** `script_host`: each task is scheduled again and again (weak fairness
of the keyboard task, of spytask and of the steps of the PTP task). Keyboard and
GUI passes in which a key decides are strongly fair: `kbd_process` returns early
while the ALT button is held, and nobody holds it for ever. A GUI mode whose key handler
always returns nonzero, as an open text box does, also keeps the passes from the stacks
for as long as it is open; `script_host` has no dialogs, and in its modes a handler that
sees no key returns 0. Nothing is assumed of the user or of the host beyond that. `bend`: the tasks and the clock run; a shot is
taken only if the user takes it, and nothing is assumed about a picture ever
coming. `album`: frames run while the emulator is on, and the flush is a loop, so the
service is called again (weak fairness of `Service`); the ROM, the player and the card
owe nothing. `capture`: spytask goes on and its waits end, by their condition or by
their timeout, and the file writer goes on (weak fairness of both); script and host
owe nothing, which is the point of `HookLetGo`.

**Environment.** `script_host` excludes scripts of the user and dialogs, and
`script_dialog` the ALT button and a second request, because the properties do not
hold with them: section 5 has what happens. So `RequestStands` says nothing about a
script of the user, whose start clears the request (section 5). `bend` excludes bursts for the same reason,
`mexp` the menu during a frame (cards may fail in every way), `capture` a target set in the middle of a shot and
targets without the file, `album` a ROM that takes the next picture before the
service has seen the last one.

**EveryBentTagged** is about builds in which the file writer appends. A build that
polls has one job too, and a shot taken before it is served replaces it.

## 4. Proofs

The proof modules are checked by TLAPS from nothing (SMT, Zenon and LS4 only).

*Queues* (`ScriptMsgQueueProofs`), for every length and message set. `SlotOwnership`
is not inductive: it says nothing of the slots in between or of what the writer
remembers. `QueueInv` adds that every published slot holds a message, that the
writer's copies of `w` and of the next index agree with the shared ones, and that
the reader's message is the one in its slot. Theorems: `TypeCorrect`, `SlotsOwned`
and `QueueIsFifo`: the ring implements `MsgFifo`. For that the distance from `r` to `w`
around the ring is `Gap`, `Nth` gives the slot of a message; that a store of `w`
appends and a store of `r` takes the head follows from six lemmas on `%`.
Assumptions: the length is positive, the empty value is no message.

*Scripts* (`ScriptControlProofs`), for every number of scripts and requests:

| theorem | assumes of `Env` | invariant |
|---|---|---|
| `ScriptTypeCorrect` | nothing | `TypeInv`: also that the stack processed is listed and that a request let in is below its bound |
| `HostScriptsAlone`, `HostOwnProgram`, `HostFlushSafe` | no starts by the user, no restarts, no dialogs | `HostInv`: at most one stack, the remembered one, whose program the interpreter holds; between the end of the wait and the start the stack is gone or going; only the PTP task between `started` and the answer has a program posted |
| `RequestKept` | no starts by the user, no restarts | `RequestInv`: while the PTP task polls the request is set and nothing is posted that would clear it |
| `RanScriptsRun` | no dialogs | `RanInv`: the state is set before the stack is killed, the stack made before the state is seen |
| `ScriptsUseList`, `ScriptsLeaveSaved` | nothing | `UseInv`: `active_stack` is null exactly outside of a pass, and the remembered stack is the newest one or none |
| `DialogWakes` | no ALT button, one request of the host | `WaiterInv`: what a pending change of the ALT mode belongs to, before the host's script (`BeforeHost`), while the interpreter holds it (`DuringHost`) and after (`AfterHost`) |

`HostInv` carries three theorems because none of them is inductive alone: that the
posted script starts alone needs that the wait ended with no stack, which needs
that the state flag and the stack go together, which needs that the interpreter's
end is the stack's. Lemmas `Greatest` and `AfterInList` (from the minimum principle
of well-founded relations) say that the list has a next element, which the
`CHOOSE` of `After` needs.

`ScriptsUseList` and `ScriptsLeaveSaved` join scripts and action stacks. `ScriptControl`
uses the stacks through their ids and `ActionStack` leaves to its callers what the functions
on a stack do; `StackList` is what is between them. The list implements it
(`ListIsStacks`), and every step of a script, of `kbd_process` and of the host is a step of
it or none (`UsesStackList`). The list takes one thing for granted, the guard
`id[b] >= id[active]` of `CallEnd`: no stack older than the one served is ended during a
pass, because `action_stack_process_all` has saved its successor. That is `SavedStays`,
and it holds because `script_end` kills the newest stack of a script. The mapping gives
`StackList` room for every script (`MaxStacks <- MaxScripts`): a stack that is refused
(`core/script.c:131`) is in `ActionStack` only.

`DialogWakes` is about dialogs that something other than their own key closes, and about
those whose module was loaded (`"noload"` is allowed): a wait for a browser that did not
load ends by the terminate key alone, and the theorem does not speak of it.
`module_exit_alt` is what could, and its call is a matter of two tasks and four steps
(`exit_alt`, `SpyLook`, `SpyLeave`, `SpyReset`): `WaiterInv` says that from the first to
the third there is no script (`OneAtATime`), so no dialog of one. Its hypotheses are
necessary: section 5 lists what a second request and the ALT button do.

*Memory* (`SubAllocProofs`), for every size of the area and every set of requests,
under `AreaAssumption` (there is room for one cell) and `RequestAssumption`: `TypeOK`,
`Tiling`, `Linked` and `Coalesced` are inductive together (`Shape`) and not one of them
alone: that a freed cell is joined right needs the list in order, that it is in order
needs the tiling. `AreaIsHeap` is the refinement: a block handed out is disjoint from
all others and large enough, and a refusal means that no stretch of free words is
long enough, which needs `Coalesced`. `CountersRight` is `StatsRight`: the counters that
replace a walk over the list. For the sums, `FoldExists` and `FoldUnique` give the recursive
function behind `MapThenSumSet` on every finite set, built by cardinality and unique by a
smallest counterexample (the library's induction theorems are out of reach), and
`WeightSplit` that any element may be the one split off. `FreeCounts` then follows the
words of a header, which become payload when two cells are joined. The invariant is
`StatsInv`, inductive only with `Shape`: a counter is right after a join only if what is
joined was free and next to the cell.

*Multiple exposure* (`MultiExposureProofs`), for every number of shots and frames and
a menu that is used between frames only, whatever the card does. `MexpInv` relates the
accumulator on the card to the count: the domain of `file` is the last `count` shots
without those `dropped` wherever the count is positive, with the exceptions of the steps between writing the one and the other
(`At`, `Sequence`), and every exposure in it was bent as the sequence began
(`Blended`). `CompositesExact`, `WeightsRight`, `CompositeBentOnce`, `RecipeIfBent` and
`GhostsRight` follow from it.

*Remote capture* (`RemoteCaptureProofs`), for every number of shots and chunks, when
targets have the file among them and none is set in the middle of a shot (`Settled`).
The properties need each other. `CapInv` says, in parts: `ignore` is set for exactly one
file and cleared when that is closed (`Ignoring`); the file that is wanted, if any, goes
first (`Foremost`); while a target is set at most one file is on its way and it belongs
to the shot whose number is told (`Targeted`); what is available is held by a task
(`Available`), and a request on its way is for it, with the chunks so far (`Requested`);
without a target what was wanted is given up or excused (`GivenUp`); what is behind a
shot is with the host (`QueueGot`, `WriterGot`, `HookGot`). Each action has its lemma, one
step for each part. `OfferedOnlyOnce` needs none of this and no `Settled`: it holds for raw
targets and with a target set in the middle of a shot. `OnceInv` says where a shot can be:
with spytask, in the queue, or reached by the file writer, in one of them only
(`OnceOrder`); a file that is available or was given is of a shot the file writer has
reached (`OncePast`, `OnceHeld`), and what spytask has yet to offer was not given
(`OnceToCome`). So a shot passes each place where a type of it is offered once, and behind
the last chunk it is not available there any more.

*Recipes* (`BendTagProofs`), for every number of shots, when a build that appends closes a
picture before the next raw hook (`NoBurst`; `bend_burst` shows what is lost without it).
`OwnRecipe` speaks of pictures that are whole and `EveryBentTagged` of the end of the
last one, so neither says where a recipe is in between. `BendInv` does, in parts: where
the hook and spytask stand in the handshake (`Handshake`), what is on the card before and
behind the file writer (`Card`), that a hook that may overwrite the text finds the file
writer through (`Through`), that the text is the one of `path` unless it is being built
(`Job`), that the file writer is armed only for its own picture (`Armed`), that an open
picture has no recipe yet (`Untagged`), and that the recipe of a bent shot is in its
picture or on its way (`OnItsWay`). Theorems: `BendTypeCorrect`, `RecipesOwn`,
`BentAreTagged` and, of steps, `AppendsOnce`.

*Album* (`GbAlbumProofs`), for every number of slots, of pictures kept and of pictures
taken, for every last number and every way of failing in `Env`. `FlushIsEnough` rests on a count of the calls a commit still
needs (`Left`: the .SAV, one call a slot, again the .SAV when something is recycled, and
the end), which every call of the service lowers: `GBC_PHOTO_SLOTS + 4`, the bound in
`gbc_save_flush`, is exactly what it can be at the start. That recycling does not begin a
second round needs that `Freed` is the most that may go (`FreedIsMost`, `RecycledOnce`).
`DcimGrows` and `AlbumTypeCorrect` are of the same invariant `FlushInv`. Both are about
sessions that are not `blind`: only if the directory was read is the next number beyond
all pictures, and only then is no picture overwritten. Of the same invariant is
`ServiceShrinks`: in any phase a call that does not end the commit lowers `Left`, and only
the ROM raises it. That is the safety half of `CommitEnds`; that the service is called
again is fairness and stays with TLC.
`AlbumLosesNothing` assumes a ROM that takes the next picture after the commit
(`Patient`), and excuses what is lost to the failures listed at `NothingLost`, a blind
session and the last number among them: `KeepInv` adds that what has a checksum and what the cursor has passed is
exported, but for a picture in the middle of its save (`Behind`), that the ROM's copy is
the table outside of a save (`Copies`), and where every other picture is (`Kept`). When a
commit ends nothing is behind (`ExportedAll`), so what is recycled is in DCIM.

*Action stacks* (`ActionStackProofs`), for every number of blocks, of stacks and of ids.
What is on a list is `Reach`: the least set with its first block that no pointer leads out
of (`ReachIsLeast`), which needs no induction on the list; from it come what a store to
one pointer does to the list (`ReachSame`, `ReachWithout`), that of two blocks one is
behind the other (`ReachTotal`) and that ids which fall along the list are the greatest at
its head (`FallingIsGreatest`). `StackInv` adds to the properties what holds in the middle
of a creation or an end (`Hands`, `Count`), that no two blocks have the same id and only
listed ones have any (`Ids`), that the free list ends (`Parts`), that the stack saved for
the pass is the newest one older than the stack served (`Pass`), and where a walk can be
whose stack had ended before the question (`Walk`). Theorems: `StackTypeCorrect`,
`ListWellFormed`, `AliveAnswersRight`, and `ListIsStacks`: the list implements
`StackList`. `EndedForGood` is what an id is good for: a stack that has ended never comes back
under its id, though its block does, so an id kept by a script, by the host or by the USB
remote names its own stack or none. (The counter of the ids is taken not to wrap, see
`MaxId`.) `FinishedRight` is no theorem: the code does not keep it (section 5).

Only model-checked: liveness (`Answered`, `HookLetGo`, `JobEnds`, `CommitEnds`), which is
out of reach of the prover. The type invariants `TypeOK` of `ScriptMsgQueue`, `ActionStack`,
`BendTag`, `MultiExposure` and `RemoteCapture` are proved and no run repeats them. Every other property of a passing run is a theorem.

## 5. Where the code differs from what it says

With a run that shows it (see `findings` in `PROJECT.json` for the quotations):

- `bend_burst`: the next shot's recipe overwrites the text while the file writer is
  armed for the last picture, which then carries the wrong recipe.
- `album_twice`: `gbc_album_recycle` clears the checksum of a slot it frees, but the
  tiles stay and `gbc_save_service` walks all slots and not the table, so the next
  commit copies the freed picture to DCIM a second time.
- `capture_raw`: with only raw data wanted nothing is pending once it is sent, raw
  hooks run ahead of the file writer, and one count of expected files serves two
  shots: a file is opened on the card, then taken for ignored and never closed.

Met while modelling, with no run of their own (each can be seen in the model by the
instance named):

- A script waiting in a browser or text box has state 0, so ExecuteScript neither
  refuses nor kills it and empties its queue under it (`core/ptp.c:786-805`):
  `FlushSafe` with `Env = {"dialog"}`.
- A script that starts clears the terminate request (`core/script.c:128`) that was
  meant for the one before it, and the PTP task waits in `script_wait_terminate` as
  long as the new one runs: `Answered` with `Env = {"start", "alt", "restart"}`,
  `MaxScripts = 2`, `MaxRequests = 1`.
- `action_stack_is_finished`, called from the PTP task, follows a finished block onto
  the free list and reports a live script as finished: `FinishedRight` of
  `ActionStack`.
- Cancelled between `mexp_combine` and `mexp_count++`, a sequence goes on from the old
  composite with a count that is too low: `CancelEnds` of `MultiExposure` with
  `MenuBusy = TRUE`.
- A second script from the host that does not compile leaves ALT mode and closes the
  dialog of the running one without its callback: `Waiter` with `MaxRequests = 2`.
- `core/ptp.c:787` says the script id is incremented for a refused request; the
  `break` before `script_run_id++` means it is not.
- `gui_activate_alt_mode` resets the request at its end (`core/gui.c:6286`) and can
  lose one set meanwhile, so that a finished PTP script leaves the GUI in the
  script handler (`SpyReset` after `EndFinish`), against `modules/luascript.c:173`.
- A script posted with the no-kill flag starts although the user's script was
  started after the test (`Env` with `start`), against `core/ptp.h:126`.
- A text box closed by leaving ALT mode drops its callback
  (`modules/gui_tbox.c:207`), and its script waits for ever: `Waiter` with
  `Env = {"dialog", "alt"}`.
- A file browser that does not load leaves its script inactive, waiting for a dialog that
  never comes (`modules/luascript.c:1336-1342`, `core/modules.c:598-603`), until the
  terminate key; a text box that does not load answers at once
  (`modules/luascript.c:1356-1361`): `OpenDialog` with `"noload"`.
- A browser's callback sets the state to running though its script is gone:
  `RanHasStack` with `Env = {"dialog"}`.
- An exposure that `MEXP.TMP` does not open for is counted and not kept: `mexp_store`
  returns without removing the old file (`core/raw.c:990`), `raw_mexp` has counted the
  exposure (`core/raw.c:1112`) and does not look at the result (`core/raw.c:1117`). The
  composite lacks it, and in an average the rest is weighted for one exposure too many:
  `NoneDropped` of `MultiExposure`.
- A shot bent before the last job was served replaces it (`core/bend_tag.c:171`), so
  that `EveryBentTagged` does not hold on polling builds.
- `bend_each` is read (`core/raw.c:281`) before `mexp_begin` latches the setting:
  switched on or changed while the first frame is bent, a composite-only sequence
  has a bent first picture, against `core/raw.c:308` (`MenuBusy = TRUE`).
- `gbc_save_load` takes all it loads for exported. After a power cut between the .SAV
  and the export the pictures are recycled and overwritten without ever being in DCIM,
  against `modules/gbc/gbc_save.h:103-105`: `SafeInSav` of `GbAlbum` with
  `Env = {"power"}`, 3 slots and 3 pictures.
- A DCIM copy that fails sets the slot's checksum all the same
  (`modules/gbc/gbc_save.c:664-665`); the picture is not tried again and may be recycled.
- If A/DCIM/GBC does not open, `gbc_dcim_scan` leaves the next number at 0
  (`modules/gbc/gbc_save.c:553-556`), and the session's copies replace GBC_0000.BMP and on,
  the overwriting that `modules/gbc/gbc_save.c:541-544` means to exclude: `NumbersKept` of
  `GbAlbum` without `~blind`, `Env = {"unread"}`.
- Beyond GBC_9999.BMP nothing is written (`modules/gbc/gbc_save.c:584`), but the slot counts
  as exported (`modules/gbc/gbc_save.c:665`) and may be recycled: `excused` of `Export`.
- A ROM that starts the next picture before the service has run loses the second
  commit: the service clears `dirty` before the RAM is disabled (`Env` with `quick`).
- A target set while a shot is on its way breaks the safety properties of `RemoteCapture`,
  all but `OfferedOnce`
  (`Env` with `rearm`): a late `remotecap_send_complete` takes the next shot's data
  for sent, and a file that was opened is taken for ignored.
- A `continue` of a script ends whichever wait of the hook runs, also the next one's
  (`modules/script_shoot_hook.c:66`).

## 6. Not modelled

- Arithmetic on pixels, packed rows, matrices and exposure values: sequential and
  covered by the host self-tests in `tools/`.
- The contents of recipes, messages, files and screens: one model value each.
- Autostart and the commands that call `script_end` from elsewhere: `ScriptControl`
  has one task in which scripts start, and a start from spytask would need all of
  `script_start_gui` beside it, step by step.
- The timeout of the allocator's semaphore (`core/suba.c:315`): a call that does not get
  it within a second changes nothing and is a failed assertion (`DebugAssert`); an
  allocation that ends so returns null though room may be left.
- A script that is refused a stack: the composition of `ScriptControl` with `ActionStack`
  (section 4) gives scripts as many stacks as they ask for; what would follow from the
  refusal is one sentence (the state stays set and no stack runs).
- The module loader: its hazards depend on which task calls which module when, which
  is spread over all callers of the module interfaces.
- USB remote: state machines in the keyboard task alone, driven by pulse lengths and
  by what the camera does with a pressed key, which is Canon's.
- The heap choice of `memmgmt.c`, shooting and auto ISO, configuration: sequential code
  without state that two callers share.
- Of remote capture: Canon raw, seeking writes and files that arrive in several
  passes; no camera of this repository builds them.
- Of the Game Boy Camera: the emulated CPU and sensor, and the conversion of tiles.
- GPS (no camera of this repository has it), games, viewers and other leaf modules,
  the Lua and uBASIC interpreters, fonts, loaders, camera wrappers and addresses,
  the signature finders and other tools of the build, packaging and the contents of the
  memory cards in `cameras/`: pure input and output, data, third-party code, or the
  camera's own behaviour.
- Canon's firmware, of which only what CHDK relies on is modelled: tasks preempt
  each other, a file held open blocks a second opening, pictures are written in the
  order they were taken.
