# Verification of Rave-OS and acid OS v2

TLA+ models of this repository's own logic, TLC runs that check them on small
instances, and TLAPS proofs of what matters most for every instance. Every
definition is translated from the source; `PROJECT.json` maps each one to its
lines. Paths below are relative to the repository's root.

    tlc -workers 2 -config MCKernelRouter.cfg MCKernelRouter
    tlc -workers 2 -config MCRaveOS.cfg MCRaveOS
    tlapm KernelAudioProofs.tla
    tlapm KernelRouterProofs.tla
    tlapm FlatFSProofs.tla
    tlapm DesktopProofs.tla
    tlapm DriverProofs.tla
    tlapm ForthProofs.tla
    tlapm ScreenProofs.tla
    tlapm SynthProofs.tla

Contents: [inventory](#inventory), [plan](#plan), [modules](#modules),
[runs](#runs), [bounds](#bounds-and-why-they-are-enough),
[granularity, fairness, assumptions](#granularity-fairness-and-assumptions),
[proofs](#proofs), [findings](#findings), [not modelled](#not-modelled).

## Inventory

The repository holds two operating systems. **Rave-OS** (v1: `boot/`,
`kernel/`, `programs/`, `demos/`) is a single-processor x86 kernel with no
libc: one frame loop, interrupt handlers, a cooperative program scheduler.
**acid OS v2** (`v2/`) runs mruby apps, one FreeRTOS task each, over a small C
core; it builds for a simulator (FreeRTOS POSIX port, one processor) and for an
ESP32-P4 board (two processors, its display stubbed at this commit).

### acid OS v2

| Component | State | Operations | Who touches it | What is hard | What makes it correct |
|---|---|---|---|---|---|
| Audio command ring `kernel/kernel_audio.c` | 16 slots, two free-running unsigned counters, `g_voice_owner`, active mask | enqueue of seven kinds of command, `release_owner` with retries, drain and render | app tasks (critical section among them), the audio callback (no lock) | lock-free hand-over, wrap, full ring, handle reuse, bounded retry | no command lost, overwritten, reordered or applied twice; a dead app's voices fall silent |
| Synthesizer `audio/synth.c` | voice table: envelope, oscillator, arpeggiator, filter | gate on/off, set, render a half | audio callback only | what a sequence of commands leaves in a voice | a gated-off voice stays off and belongs to nobody |
| Window table `kernel/kernel_window.c` | 8 slots, `g_next_z` | register, unregister, find, raise, send to back, next by z | router, every app, spawner; no lock | `g_next_z++` and slot filling by several tasks | strict z-order, one window a task |
| Router `kernel/kernel_router.c` | focus, touch owner, drag, strip's desktop, last sample | poll (keys, touch), activate, close, send_event, composite | router task, apps through the bindings | gestures against windows that come and go, full queues | a gesture belongs to the window that took it; no event to a dead queue; every close arrives |
| App spawn `kernel/kernel_spawn.c` | a queue, a semaphore, a canvas and a task for each app | capacity test, create, register, activate | apps (desktop, terminal, file manager), boot | the parts fail one by one; the task runs before its window exists | no leak, no windowless app, no window without an app |
| App lifecycle `vm_host/vm_host.c` | the mruby VM of each task | load, run, cleanup in order | the app's own task | others act between the cleanup's calls | nothing refers to a task that is gone |
| Overlay `kernel/kernel_overlay.c` | canvas, open flag, owner | open, close, release_owner | apps, router | test then claim; owner dies | one owner at a time; gone with its owner |
| Compositor `gfx/gfx.c`, `gfx/wallpaper.c` | dirty flag, lock, canvases | draw, mark dirty, take dirty, blit | everyone | a change between the flag's reset and the frame | every change reaches the screen |
| Bindings `bindings/*.c` | launcher registry, stashed queues | mruby calls into all of the above | apps | windows named by index while they go | a call acts on the window it found or on none |
| Apps `apps/*.rb` | per app; editor buffer, desktop's menu and `@touch_held` | `on_touch`, `on_key`, `draw`, loop of `lib/acid_app.rb` | own queue | lost and unpaired events | press and release pair up; the loop ends on close |
| Targets `sim/`, `hw/main`, HAL | boot order, priorities, callbacks | - | - | - | - |

Interactions: an app calls the core directly (one address space); the core
answers through the app's FreeRTOS queue (`send_event`, never waiting); audio
flows through the ring; the router composes all canvases when the dirty flag
is set.

### Rave-OS (v1)

| Component | State | Operations | What is hard | What makes it correct |
|---|---|---|---|---|
| Filesystem `kernel/fs/fs.c` | superblock (allocator), directory tables, files; in memory the superblock's copy and `mounted` | init/format, create, append, delete, rename, move, copy, list, read | every call is several sector writes; failures and power cuts between them; allocator boundary; `/DEV` reserved | a call happens or does not; no sector has two owners |
| ATA driver `kernel/drivers/ata.c` | - | read, write a sector, time out | a write may be done and reported failed | the result is true |
| Scheduler `kernel/sched/scheduler.c` | 4 slots EMPTY/RESERVED/READY, stacks with canaries, close requests | reserve, activate, tick, yield, request close | nothing preempts a program; the frame loop halts when it thinks it is idle | a runnable program runs again; a close ends in 60 frames |
| Sound `drivers/sb16.c` | a DMA double buffer, the refill flag and its half | beep, start stream, IRQ5, needs refill, refill done | interrupts that merge, or come between test and store | the refilled half is never the one that plays |
| Input `drivers/keyboard.c`, `mouse.c` | two rings of raw bytes, decoder state kept between polls | interrupt handlers; polls in the frame loop | prefixes, lost bytes, overflow bits | what is typed arrives; a torn packet does not outlive the loss |
| Desktop `kernel.c`, `gui/window.c`, `startmenu.c`, `taskbar.c` | windows, z-order, drag, menu, focus flags, the ring-3 mailbox | a packet, a key, a frame | state set by one click and read many frames later; a mailbox of one | one window at most has the keyboard and the user sees it; a closed program is told |
| FILES window `kernel.c` | listing, row mask, clipboard, name field | toggle, open, delete, new, rename, cut, copy, paste | everything goes by row number in a copy of a table that others change | a row names what the user sees |
| Damage `kernel.c` `update_and_present` | what the frame before looked like | repaint, spread, clip, present | overlapping windows, moved, raised and hidden | the screen is the scene |
| Console `gui/console_*.c` | input line, history ring, scrollback ring | type, move, recall, submit, append | three rings and a cursor, indexes counted backwards | lines come back as typed, in order |
| Forth `kernel/forth/forth.c` | stacks, dictionary, code, compile state | eval, compile, control flow, exec | bounds of each stack, aborted definitions, loops in a system without preemption | an error leaves the machine usable; a loop yields |
| Synthesizer `kernel/audio/synth.c` | 8 voices, a shared filter and its silence history | setters, gate on/off, render | fixed-point arithmetic at its edges | an envelope moves on; the filter comes to rest |
| Syscalls and ring 3 `kernel/arch/*` | the ring-3 program's window and event | int 0x80 dispatch, fault handling | blocking by re-entering the frame | the program hears what happened |
| Shell, editor `gui/shell.c`, `editor.c` | working directory; text and cursor | commands; edits | sequential | - |
| Boot, graphics, programs, demos | - | - | - | - |

Interactions: everything of v1 but the interrupt handlers runs inside
`kmain_frame`: poll the mouse and the keyboard, act on them, give every program
its slice, refill the sound, repaint, and halt until the next interrupt if
nothing is going on. A ring-3 program waiting for an event runs the frame from
inside its system call.

## Plan

Order of work, most important behaviour first.

1. *(done)* The audio ring with the voices it drives (`SynthVoices`,
   `AudioService`, `KernelAudio`), then its proofs (`KernelAudioProofs`).
2. *(done)* The windows and the life of apps (`WindowTable`, `KernelRouter`),
   then its proofs (`KernelRouterProofs`).
3. *(done)* The v1 filesystem and what it promises (`FileStore`, `FlatFS`), then the
   proofs of its invariants and of the refinement (`FlatFSProofs`).
4. *(done)* The frame loop of v1 and its drivers: `ProgramScheduler`,
   `AudioStream`, `InputRings`; the drivers' proofs (`DriverProofs`).
5. *(done)* Forth (with `ForthProofs`) and the synthesizer it plays: `ForthVM`,
   `SynthEngine` (with `SynthProofs`).
6. *(done)* What the user sees: `Desktop` (with
   `DesktopProofs`), `FilesWindow`, `Damage` and `Console` (all three with
   `ScreenProofs`).
7. Overlay, dirty flag and compositor of v2, composed with the life of apps:
   one owner, no change left off the screen (liveness under the router's loop).
8. Two spawners in the table at once: a finer `Fill`, and the comment at
   `kernel_spawn.c:86-88` that registration always succeeds.
9. The editors of both systems against a reference text buffer.

Of the safety properties that the passing runs check, every one is proved but
`FilterRests`; the modules still to be written (7 to 9) come with theirs.

## Modules

| Module | Models | State and actions against the code |
|---|---|---|
| `SynthVoices` | a voice as `apply()` and `synth.c` change it | `VoiceState`: envelope stage (`on`, `release`, `off`), whether a pitch is set, `arp_active`, owner. `Applied` is `apply()`, one operator for each command; `Rendered` one half buffer: any releasing voice may have ended, any arpeggiating one stepped |
| `AudioService` | abstract: what `kernel_audio.h` promises | a queue of accepted commands and the voices |
| `KernelAudio` | `kernel_audio.c` | `buf`, `head`, `tail` are the ring; `crit` the producer in the critical section; `apc`, `rd`, `stop` the callback's position and locals. `Enter`, `WriteSlot`, `PublishTail` are `try_enqueue`'s accesses; `Snapshot`, `ApplyNext`, `PublishHead`, `Render` the callback's; `Spawn`, `BeginExit`, `Release`, `GiveUp` an app's life |
| `KernelAudioProofs` | proofs | see [Proofs](#proofs) |
| `WindowTable` | `kernel_window.c` | operators on a table value |
| `KernelRouter` | `kernel_router.c`, `kernel_spawn.c`, `window_binding.c`, `event_binding.c`, `vm_host.c`'s cleanup, `acid_app.rb`'s loop | `Poll` is `kernel_router_poll`, one operator for each branch (`Strip`, `DragMove`, `PressDot`, ...). `job` is the kernel call an app is in the middle of; `phase` where its cleanup is |
| `KernelRouterProofs` | proofs | see [Proofs](#proofs) |
| `MCKernelRouter` | TLC's view, symmetry and constraint | |
| `FileStore` | abstract: what `fs.h` promises | a map from paths to contents |
| `FlatFS` | `fs.c`, with SAVE of `kernel.c` | `super`, `sector` are the disk; `next`, `mounted` the memory. A call is one action that lists its sector writes in order; `Perform` chooses how many reach the disk |
| `FlatFSProofs` | proofs | see [Proofs](#proofs) |
| `MCFlatFS` | TLC's view, symmetry and constraint | |
| `ProgramScheduler` | `scheduler.c`, RUN and the frame's phases in `kernel.c`, `boot_splash.c` | `pstate`, `pclose`, `canary` are the slots; `fphase` and `tickAt` where the frame and the tick are; `running` the program switched into. A program yields or returns, its stack overrun or not |
| `AudioStream` | `sb16.c`, its refill in `kmain_frame` | `channel`, `playing`, `irq5` are the card; `wanted`, `wantHalf` the refill flag and its half; `rstep` the frame's position in the refill, whose comparison and clear are two steps. `fresh` (history): the half holds what was rendered for its next turn |
| `InputRings` | `keyboard.c`, `mouse.c`, the handlers in `isr.c`, the cursor in `kernel.c` | the devices emit real bytes; the rings drop them when full; `TakeScancode` and `TakeMouseByte` are the polls. `kdue`, `aimed` (history): what should arrive |
| `DriverProofs` | proofs | see [Proofs](#proofs) |
| `ForthVM` | `forth.c` | one token or one instruction per action; `mode` says which of the interpreter's loops is running. Every error is `Abort` |
| `ForthProofs` | proofs | see [Proofs](#proofs) |
| `SynthEngine` | `synth.c`, its Forth words and system calls | `SynthWord` and `SynthCall` reach the setters with the arguments each path lets through; `RenderSample` advances every voice's envelope and arpeggio and the filter by a sample |
| `SynthProofs` | proofs | see [Proofs](#proofs) |
| `Desktop` | the windows of `kmain_frame`, `window.c`, `startmenu.c`, `ring3_wait_event` | a packet is one action for each branch of the press, all ending in `Settle`, as every packet does; `EndFrame`, `EndFrameKey` and `EndFrameEdit` end a frame. `owed` (history): the program has still to hear of its window's end |
| `DesktopProofs` | proofs | see [Proofs](#proofs) |
| `FilesWindow` | the FILES window of `kernel.c` over `fs.c`'s tables | `disk` are the directories slot by slot, `rows` the copy on the screen, `mask` the selection; `Elsewhere` what SHELL, EDITOR and programs do to the tables |
| `Damage` | `update_and_present`, `draw_scene` | `desk` is what should be seen, `screen` what was presented, cell by cell; a frame changes something (`Changes`) and repaints |
| `Console` | `console_input.c`, `console_history.c`, `console_output.c` | the rings as arrays with their counters, index by index; an answer is any number of lines |
| `ScreenProofs` | proofs | see [Proofs](#proofs) |
| `MCRaveOS` | the nine modules above on small instances | `part` is the component a behaviour exercises |

Handles are not names: in `KernelAudio` and `KernelRouter` a task's handle is
given out again when the task is gone, as FreeRTOS's heap does; `app` is the
history variable that tells the two owners of a handle apart. History
variables never guard an action.

## Runs

| Run | Shows |
|---|---|
| `audio_ring` | the ring's invariants, that it implements `AudioService` in order and exactly once, that a release takes effect and spares the next app on the handle |
| `audio_release`, `audio_arp` | two statements of the headers that the code does not keep |
| `router` | gestures, capture, focus, z-order, live queues, in every interleaving of the router with the desktop and two apps |
| `router_live` | with two apps in a kernel call at once: an app whose CLOSE is in its queue ends; z-order, queues and focus again |
| `router_close`, `router_release`, `router_composite` | three comments that the code does not keep |
| `flatfs` | every call takes effect at once or not at all, no sector has two owners, `/DEV` stays reserved |
| `flatfs_save` | SAVE is not the no-op on failure its comment says |
| `mc_raveos` | the v1 kernel's components, see the next table |
| `files_rename` | a comment on the selection that the code does not keep |

`mc_raveos` is nine questions in one run, since the components of v1 share
a frame but little state; `MCRaveOS` explores each by itself, and its state
space is the union of theirs.

| Component | What holds |
|---|---|
| `ProgramScheduler` | `RunsAgain`: a runnable program is switched into again, whatever the user does; `CloseTakesEffect`: a close runs out however often it is asked for |
| `AudioStream` | `RefillBehindCard`: the half asked for is not the one playing, however many interrupts merged; `StaleOnce`: after two boundaries served in time the card plays what was rendered for it |
| `InputRings` | `TypedAsPressed`: with no byte lost, the characters are those of the keys; `CursorWhereAimed`: with none lost, the cursor is where the hand moved it; `TearsBounded`: what a lost byte can tear |
| `ForthVM` | `WordsClosed`: no branch of a defined word leaves it, whatever was aborted before; `LoopsYield`: between two turns of a loop there is a yield |
| `SynthEngine` | `EnvelopeMoves`: every stage but sustain moves with every sample; `FilterRests`: after enough silence the filter is at rest |
| `Desktop` | `FocusSound`, `ClosedIsTold` |
| `FilesWindow` | `ListingFresh`: the rows are the directory as long as nobody else changed it |
| `Damage` | `ScreenComplete`: after a frame the screen is what a full redraw would show |
| `Console` | `ConsoleInOrder`: history and scrollback are the last lines, in order |

A run that expects a violation has one property, quoted from a comment or a
header; the counterexample is the behaviour described under
[Findings](#findings).

Each property of the passing runs has a mutant, a plausible bug in one mapped
definition (`(mutant)` operators in the modules), that breaks it under the
run's own configuration.

## Bounds and why they are enough

`KernelAudio.cfg` (718,959 states): two handles, two apps, one voice, a ring of
two slots, counters modulo 4. Two apps give both cases that matter, side by side
and one after the other on one handle; two slots give empty, half and full, and
a producer next to a full ring; modulo 4 makes every run wrap several times
while leaving the distinction between a full and an empty ring (LEN < Mod).
The proofs remove these bounds for the ring's own invariants. `MaxApps` bounds
how many apps start. `MinDrains = 0` lets a release be given up even if no
drain came in its 50 ms, more than the code does, so what passes does not lean
on timing; the two violation runs use 1, what 50 ms against a period of ~46 ms
guarantees. `Kinds` and `Valid` choose which commands the apps send: the
commands that only configure (no owner, no stage) and refused pitches are in
the violation runs and in the proofs, which cover all values.

`MCKernelRouter.cfg` (1,596,299 states): three handles (the desktop's and two
others), a table of two windows, so that it fills and refuses; three apps
started, so that a handle is used twice; queues of one event, so that they are
full most of the time; three rows: strip, one window's title, and body or
another's title, so that windows overlap and hide each other's titles; one
kernel call in progress at a time (`MaxCalls`), interleaved with the router's
polls. The violation runs use queues of two so that losing an event takes a
queue that really was in use. `KernelRouterLive.cfg` (289,177 states) has one app beside the desktop and two
kernel calls in progress at a time; it uses no view and no symmetry, which
liveness does not allow, and so bounds the z-orders.

`MCFlatFS.cfg` (44,305 states): three data sectors, tables of two entries, two
names and DEV, two levels, files of up to three units in sectors of two: files
of zero, one and two sectors, a full table, a full disk, a file that can grow
in place and one that cannot. `FlatFSSave.cfg` is smaller still.

`MCRaveOS.cfg` (433,550 states), component by component:

- scheduler: two slots, a grace of two frames, a banner of one frame, three
  launches: a full table, a slot used twice, a close that runs out.
- stream: two halves, as in the code; nothing is bounded.
- input: a key ring of four and a mouse ring of three places, so that one
  prefixed code fills the first and one packet overfills the second; four key
  events, three packets. The motions are a small one, one whose X byte carries
  bit 3 (9), and one beyond nine bits.
- Forth: stacks and return stack of one, four instructions, two words, one
  level of control flow: every limit is met and every error raised. Four
  instructions hold BEGIN UNTIL, IF ELSE THEN, and a body left half compiled by
  an abort with the next one behind it.
- synthesizer: one voice, two levels of envelope in two sub-units, durations of
  0 and of more than the longest that counts, two filter coefficients and a
  silence history of two. `RestSamples` is twelve: the history must fill and
  repeat before the filter is put to rest.
- desktop: a built-in window that can be opened from the menu, one that only
  EDIT opens, and the ring-3 one; at most two of them under the cursor.
- FILES: two names, tables of two entries, one subdirectory: a full table, a
  name taken, a directory deleted while it is open.
- damage: a screen of 4 by 3 cells, two windows of 2 by 1, the bar, the button,
  the menu, the banner and the cursor: they all overlap some other piece.
- console: lines of up to two characters, a history of two and a scrollback of
  three, so that both wrap; a greeting, answers of up to two lines, three submissions.

The components share no variable, so their product would show nothing that the
union does not. `FilesWindowRename.cfg` has the same names and tables.

Reductions:

- `ZView` (router) keeps the order of the z-orders and forgets their values;
  the code only compares them and, by `StrictZOrder`, the next one is above all.
  `EveryWindowComposited`, which depends on the values, is checked with bounds
  and no view.
- `DiskView` (filesystem) forgets what no path leads to: a sector is written
  whole when it is allocated, before anything reads it.
- Symmetry of handles other than the desktop's, and of names other than DEV:
  no definition tells them apart, and no liveness is checked under it.
- `NotTorn`, `NotHurt`: a state after two overlapping `g_next_z++`, or after a
  failure the disk's format does not survive, is checked and not continued:
  the properties say what holds up to there.

## Granularity, fairness and assumptions

- *Audio.* One step is one access to a counter or to the ring. Producers are
  serialized by the critical section (`crit`); the callback is not, and
  interleaves with each access.
- *Router.* One poll is one step: its task has a higher priority than any app
  (`sim_main.c`), and on one processor it is not preempted by them. It may
  block only on the drawing lock, whose holder inherits its priority and
  touches no router state meanwhile. The two-processor target would need a
  finer step; its display is a stub.
- *Apps.* One kernel call of an app is one step except where the code reads
  first and stores later: `g_next_z++` is a load and a store, finding a window
  and acting on it are two, spawning is four. The stores that fill one window's
  slot are one step (`Fill`).
- *Filesystem.* The kernel calls one function at a time. A call is one step
  that stands for its ordered writes; any prefix of them may reach the disk.
  SAVE is two steps. A superblock write may be lost unnoticed, because the code
  ignores its result.

- *v1's frame.* Everything but interrupts is sequential, so a step is as large
  as the code between two points where an interrupt handler, another program or
  the user can be noticed: in `AudioStream` the comparison and the clear of the
  refill flag, in `InputRings` one byte, in `ForthVM` one instruction (a program
  yields inside a word), in `Desktop` one packet, in `Damage` one frame.

Fairness: `WF(FrameStep)` (`ProgramScheduler`), the processor executes while it
is not halted and a program comes back from its slice; nothing is assumed of
the user or of interrupts, so that a halt with a runnable program would last
for ever. `WF(Audio)`, the sound card never stops calling back (none on the
producers, which may stop for ever). `WF(Calling)`, `WF(Ending)` for each task,
FreeRTOS time-slices tasks of one priority, so an app in a call or in its
cleanup goes on. `SF(Receive)`, an app's handlers return to the loop: strong,
since an app may be in a kernel call, where it cannot receive, again and again.

Assumptions that are in the models as guards:

- `BeingSpawned`: an app does not end within the few calls between its
  `xTaskCreate` and its registration; it has a VM to open and a script to
  compile first. 
- The counters' range is a multiple of the ring's length (`RingAssumption`; 2^32
  and 16).
What is *not* assumed: `acid_close_window` can name the desktop's own window, and
`g_desktop_task` is never cleared. `FindToClose` allows it, the handle is given
out again like any other, and the router's invariants hold of that too.

## Proofs

`KernelAudioProofs` proves, for every ring length dividing the counters' range,
every set of handles and any number of voices and apps:

- `TypeCorrect`: `Spec => []TypeOK`;
- `RingIsConsistent`: `Spec => []RingConsistent`;
- `UnreadNotOverwritten`: `Spec => NoOverwrite`, no step changes a slot that the
  callback has still to read;
- `HeldVoicesAreOwned`: `Spec => []HeldVoiceHasOwner`.

The argument. `RingInv` is `TypeOK`, `RingConsistent` and `HandlesHaveApps` (a
handle in use has an app). `TypeOK` alone is not inductive: that `Applied`
keeps the voices well typed needs the slot being read to hold a command, which
is `RingConsistent`'s last conjunct; that a release carries an app's number
needs `HandlesHaveApps`. `RingConsistent` itself says where everybody is: the
callback between `head` and `tail`, the producer at `tail` with room kept for
it. The arithmetic is in three lemmas: `SlotsDistinct` (two counters less than
a ring apart use different slots, which needs the range to be a multiple of
the length), `SuccDistance` and `DistanceSubtract`. There is one lemma per
action, and each conjunct an action can disturb is a step of it. The
last theorem adds that `apply()` opens a gate only in NOTE_ON, which sets the
owner in the same branch.

It goes on from there, again for every value of the constants:

- `RingImplementsService`: `Spec => ServiceSpec`, the ring implements `AudioService`;
- `NoOtherOrphans`: `Spec => []OrphanOnlyIfDropped`;
- `ReleasesSpareSuccessors`: `Spec => ReleaseSparesSuccessor`;
- `MaskIsFresh`: `Spec => []MaskFresh`.

The argument. `Pending` maps the slots from the reader to `tail` to a sequence.
`OnIs` says what the counter k places on is, across the wrap; `InLine` that each
place in the line is an unread slot. So the line is left alone by every access
that moves neither end (`LineKept`, from `UnreadKept`), grows at its end by the
store of `tail` (`LineGrows`) and loses its first to the callback's read
(`LineShrinks`): the store accepts, the read applies, the rest stutters
(`ServiceStep`). Who owns which voice is then an invariant of the line and not of the
ring: `NotesOwned`, a note in line is of a live app or has its app's release behind
it or that was given up; `ReleasesLast`, nothing before a release is of a later app
than its; `SendersKnown`, what is in the critical section is of an app that is still
there, since its task is. `VoiceInv` is inductive given `RingInv`.

`KernelRouterProofs` proves, for every number of slots, handles and rows, every
queue length and any number of kernel calls in progress at a time, of `Spec`:

- `RouterTypes`: `[]TypeOK`;
- `GesturesAreSingle`: `[]OneGesture`;
- `WindowsAreOrdered`: `[]StrictZOrder`;
- `QueuesAreLive`: `[]LiveQueues`;
- `FocusIsLive`: `[]FocusLive`;
- `FingersAreCaptured`: `[]CaptureKept`;
- `TitlesStayReachable`: `[]TitlesReachable`.

The argument. `RouterInv` is these with what they lean on. `LiveQueues` needs
`Fresh`: while a spawner is between xTaskCreate and the end of
kernel_window_register, its app still runs, has no window, and no second call is
about to give it one; from this also `OneEach`, that a task has one window.
`CaptureKept` needs `Gone` and `Fresh`: a handle given out again has no finger on
it. `FocusLive` needs the cleanup's order (`FocusKnown`: between the
unregistration and clear_focus the focus may stay, after it not). `TypeOK` needs
`RowsOnScreen`, since a press takes its row from the title it hits. `ZStrict`
survives the two-step raise because a slot that was emptied and filled again
between the steps is raised to a z-order still above all: `RaisedShrunk` never asks
whose window it is. No step but `Fill` adds a window, so most steps are instances of
`QuietStep` (no life changes) or `LifeStep` (one task's does), which take what the
step does to the table (`Shrunk`), the gesture and the queues. find_at and
send_to_back look for a largest or smallest z-order: that a finite table has one is
`FiniteMaximum`, by well-founded induction on the finite subsets. `NotTorn`, `MaxZ`
and the other bounds of the runs play no part: the theorems hold past a torn
`g_next_z++` and say what is left then. (After one the counter can be below z-orders
already given out, so `TypeOK` bounds it by no constant.)

`FlatFSProofs` proves, for every size of the disk, of its tables, sectors, files and
paths:

- `DiskWellTyped`: `Spec => []TypeOK`;
- `DevStaysReserved`: `Spec => []DevReserved`;
- `SectorsStayOwned`: `Spec => []SectorsOwned`;
- `StoreImplemented`: `Spec => StoreSpec`, the filesystem implements `FileStore`.

The argument. `CallDoes` sorts the calls by what they write: an entry for newly
allocated sectors (`Adds`: create, copy), an entry blanked, renamed or grown in place
(`Removes`, `Renames`, `Extends`), data and no entry (`Scribbles`, an append that fails
half way), or a file's entry in two tables, one after the other (`Moves`).
`PerformDoes` says what is left on the disk when any prefix of the writes is done and
the superblock's perhaps lost. `SectorsOwned` speaks of the entries that paths of at
most `MaxDepth` names lead to, and is not inductive: which these are changes with every
write of a table, and data written over a table that only a deeper path reaches
would bring up anything. `TreeInv` says instead that *there is* a set of tables,
the root's among them, closed under the directories in them, in which every entry has
its sectors below the allocator and to itself, no file has one of the tables among
its data, and no name is twice in a table (`Tree`). Each write then keeps a
tree, with the new directory's table added: an allocation writes what no entry has
(`AddsTree`), an append stays in its own file or goes where nothing was allocated
after it (`InPlaceTree`, `ScribblesTree`), a move that is cut short
before its entry is in two tables leaves the first or the last state (`MovesTree`), a
boot goes on from the superblock or formats a disk whose root is empty
(`BootTree`). What the format on disk does not survive sets `hurt`, after which
nothing is claimed: a move cut short with its entry in both tables, a machine that stops
with its superblock behind the allocator, a tree formatted away because the superblock
could not be read. The walks of `walk_components` stay in the tree (`WalkStays`), and so
does the unfolding of `Live` (`LiveStays`, `LiveGrows`); by induction on the length of a
path no path leads to two entries and no entry is at two paths (`OnePathEach`).

That `FileStore` is implemented needs what each call does to *every* path, while the
refinement mapping `Contents` walks the tables from the root by the recursive function
in `Live`. The proof replaces the walk by what it finds: `Leads(s, f)`
says of a function `f` from paths to slots that the root's entries and, under a path to a
directory, that directory's are in it and nothing else is. It leads to entries of
the tree only (`LeadsInTree`) and no two paths to one slot (`LeadsOnce`), and `ContentsAre`
shows that `Contents` is `View(sector, f)`, each path with the type and data of its entry.
`LeadsInv` is the invariant that goes with `TreeInv`: such an `f` exists, and every file it
leads to has all its data (`AllFiles`). It is not part of `TreeInv` because a tree allows
tables no path leads to, as a create leaves them when its entry is not written. Then there
is one lemma for each sort of write: it gives the function of after the
write and the store's call (`AddsFollow`, `RemovesFollow`, `RenamesFollow`,
`ExtendsFollow`, `ScribblesFollow`, `MovesFollow`), from how one patched table changes `f`
(`LeadsAdd`, `LeadsRemove`, `LeadsRename`) and from the data of all other files being
where no write goes (`OthersIntact`). A rename of a directory turns every path inside it
(`TurnedAllIs`), which is why `FileStore` moves what is inside with it. `NextFollows` adds
boots, formats and power cuts, which change nothing or hurt the disk.

`DesktopProofs` proves, for every finite set of windows, every stacking order at
boot and every way the windows can lie under the cursor, of `DeskSpec`
(`DeskInit`, `DeskNext`: what `MCRaveOS` runs as its desktop):

- `FocusIsSound`: `DeskSpec => []FocusSound`;
- `ClosedIsAlwaysTold`: `DeskSpec => []ClosedIsTold`.

The argument. `DeskInv` is the types, `FocusSound` with its cardinality spelled
out, and `OwedPending`. `ClosedIsTold` is not inductive: a click on the ring-3
window would replace the pending event. `OwedPending` adds why none comes: while
the program is owed CLOSED its window is closed, only the program opens it, and
a program that is starting owes nothing. `SettleKeeps` is what every packet ends
with; it rests on `TopmostOne` (the window under the cursor is one, and open).
A key for the program needs the ring-3 window focused, so open: there the two
invariants meet (`FrameSteps`). From the constants it takes only
`DesktopAssumption`: finitely many windows, the three kinds the code names
among them, well-typed piles, and a boot order that has every window in it.

`DriverProofs` proves, of `StreamSpec`, `MouseSpec` and `KeySpec` (each driver's part
of the frame as `MCRaveOS` runs it), for rings of any size:

- `RequestsStayBehind`: `StreamSpec => []RefillBehindCard`;
- `RecoversInTwo`: `StreamSpec => []StaleOnce`;
- `TearsArePaid`: `MouseSpec => []TearsBounded`;
- `CursorFollows`: `MouseSpec => []CursorWhereAimed`;
- `KeysComeThrough`: `KeySpec => []TypedAsPressed`.

The argument. `StaleOnce` needs `ServedInTime`: after a boundary that found everything
served, nothing is wanted until its own interrupt; then the request and the refill are
for the half the card is not reading; and when that request is gone the half has been
rendered. `TearsBounded` counts: give each byte the mouse sent its number
(`Serial`, the bytes sent before it). The bytes in flight are in that order, no byte but
a packet's first looks like one, and `TearsPaid` says that the bytes taken plus the
torn packets are at most the number of the next byte to be looked at: every packet torn
so far is paid for by a byte lost before that one. The other two
follow bytes through a ring and an assembler that sees them one at a time. No
induction over the ring is needed: an invariant says that *there are* histories for the
bytes still in flight which step by step are what the decoder would do. For the mouse
(`Follows`, `Lossless`) they are the movements and the positions between them, whose
last is where the hand is; for the keyboard (`Runs`, `Decodes`) the state of the
shift keys and prefix before each code and what each owes, whose end is the keys' own
state. A byte sent extends the histories at one end, a poll cuts them at the
other. What one packet and one code decode to is `PacketDecodes` and `KeyDecodes`.
The proofs found two errors of the model: the nine-bit range of a movement is not symmetric
(-256 can be sent, 256 cannot), and two arms of the keyboard's CASE overlapped.

`ForthProofs` proves, of `ForthSpec`, for every size of the code, the dictionary and
the stacks and every vocabulary:

- `WordsStayClosed`: `ForthSpec => []WordsClosed`;
- `LoopsAlwaysYield`: `ForthSpec => LoopsYield`.

The argument. `ForthInv` gives each word the place of its own exit (`Shelf`: the words
lie one behind the other below `Floor`, where the definition in progress begins or the
code ends), each address on the return stack the word it is in (`Running`) and the
definition in progress the shape of a word with holes (`Draft`: a jump has an entry
on the control stack or a target between the start and the next free place). Only
code at or above `Floor` is written, patches included, so the words stay (`ShelfStays`);
each control word leaves a draft (`GoesOn`, `DraftGrows`); `;` with an empty
control stack makes it a word (`ShelfGrows`); an error raises the floor above what it leaves
behind (`AbortKeeps`). `Lands` also says that a jump goes on or follows a yield, which
is `LoopsYield` when a word jumps. That an entry found by name is in the dictionary
needs a least index of that name (`LeastOne`).

`ScreenProofs` proves, of `DamageSpec`, `ConsoleSpec` and `FilesSpec`, for every screen,
set of windows, ring, table size and set of names:

- `ScreenStaysComplete`: `DamageSpec => []ScreenComplete`;
- `LinesStayInOrder`: `ConsoleSpec => []ConsoleInOrder`;
- `ListingStaysFresh`: `FilesSpec => []ListingFresh`.

The argument, for a frame: the loop that spreads the damage is bounded by the code, and
`SpreadSettles` shows that a round for each region is enough, since a round that is not
the last adds a region (`WidenGrows`). After it (`Settled`) every visible piece that
touches the damage is redrawn, so in it a partial redraw paints what a full one
does (`DamagedCell`), and outside nothing that shows has changed (`UntouchedCell`,
by `SamePiece`). For a console: `Ring` says that the entry k places back from the next
one is the kth last line, `RingAppend` that it stays so when one more is written. What
the recursive functions that append several lines and repeat a round compute is
`Iterates`, proved with `EveryNat`. `FlatFSProofs` uses both for its walks. For FILES:
that the listing is read again is in the actions; that the directory shown exists is
not, since a DELETE takes its names from rows that may be old and a PASTE moves files out
of the directory above. `FilesInv` has what keeps it: a name is once in a table, so
that a file taken out by its name never takes the directory with it (`FileGone`), and
a row that was a directory still is one, though others have changed the table since.
What `fs_list_dir`, DELETE and PASTE do one by one are recursive functions
(`WithoutIs`, `AllDeleted`, `AllPasted`).

`SynthProofs` proves, of `SynthSpec`, for every number of voices and pitches, sample
rate, length of arpeggio, resolution of the envelope and every duration and level that
an `int` argument may hold:

- `EnvelopeNeverSticks`: `SynthSpec => EnvelopeMoves`;
- `VoicesSound`: `SynthSpec => []SynthInv`.

The argument. An envelope moves because its rates are at least one (`RateIs`,
`StepSamplesIs`: the floor that `synth_calc_rate` puts under a quotient that rounds
to nothing), its levels are numbers and its decay stops at the sustain level, from
wherever a change of the settings left it above or below: `SynthInv` has what that
takes of a voice. An arpeggio divides by its count of notes and reads the one it comes to
(`ArpSound`), which is sound because the only word that starts one gives it two at
least and as many as there are places at most; only `Sound` relates the two, since
`synth_arp_off` leaves the count. Each setter gives back a sound voice for a sound one
(`PitchSound`, `AdsrSound`, `WiredSound`, `NoteSound`, `GateSound`, ...), and so does a
sample (`EnvelopedSound`, `ArpeggiatedSound`). From the constants it takes
`SynthAssumption`: sizes are not zero, durations and levels are integers.

`EveryNat` and `LeastOne` are induction in the form the prover can use: no operator is a
parameter, the set of numbers that fail has a least member (`WFMin` of the
well-founded order of the naturals).

Only model-checked: liveness (`RunsAgain`, `CloseTakesEffect`, `ReleaseTakesEffect`,
`CloseEnds`) and anything about ENABLED, which the proof system does not do;
and `FilterRests`, which depends on the filter's
coefficients and the length of its history: it holds of numbers, not of all.

## Findings

Places where the code does not do what a comment or header says; each has its
run, and `PROJECT.json` quotes the lines.

1. `kernel_audio_release_owner` gives up after 50 ms; the header calls it
   delivery-guaranteed.
2. A release leaves the voice's arpeggio running; the header says gating off
   stops it.
3. CLOSE is posted without waiting to a queue that may be full, although the
   comment says it cannot be; the window goes all the same.
4. A press that begins in the desktop's strip and is lifted elsewhere never
   sends its release.
5. The compositor's walk starts above z-order -1 while `send_to_back` goes
   below it: the desktop disappears from the frame and still takes touches.
6. The editor's SAVE deletes before it creates: a failure loses the old file.
7. After a rename in FILES the selection stays, because the row "still names the
   (now renamed) entry"; when SHELL, the editor or a program has changed the
   directory meanwhile, it names another entry, and the next DELETE hits that.

Seen while modelling, and in the models as the code has them, without a run of
their own:

- `sb16_stream_refill_done` tests and clears in two steps; an IRQ5 between them
  asks for the other half and is discarded. `StaleOnce` says what that costs:
  one stale half, after which the stream is in step again.
- A press beside the open start menu "closes it without acting on whatever's
  underneath" (`kernel.c:1995-1997`): it raises and drags nothing, but the
  widgets' own click handling further down still sees the press, so focus and
  FILES buttons react.
- The ring-3 mailbox holds one event. A press is overwritten by the next packet
  of the same held button, which says "held", so a program that acts on presses
  only can miss one.
- Choosing PAINT leaves `kmain_frame` for good in the middle of a packet: the
  menu stays open and `prev_left_held` keeps its old value, so that the same
  press, still held, can choose the item again. A CLOSED still pending is
  read by the next program.
- NEW DIR with rows selected and a free slot above them shifts the rows as in 7.
- Choosing EDIT for another file of the same length, with EDITOR already on top,
  changes no field that `kernel.c:2561-2575` compares.
- `forth_init` does not clear `mem[]`: `!` in one script is `@` in the next run
  of the slot.
- Between the idle test and `hlt` an interrupt can come; its key or packet then
  waits for the next interrupt.

## Not modelled

Pixels, fonts, waveforms, oscillators, wallpaper, descriptor and page tables:
data without control. mruby itself: an app is a task that makes any kernel call
its bindings allow. The handlers of the apps and the games. Two processors. The
master volume. v2's overlay and compositor, still on the [plan](#plan). v1's shell
commands and editor buffer: sequential text handling around the filesystem
calls of `FlatFS`. The set-up handshakes of the drivers, and demos and programs
other than the system calls PAINT makes. `PROJECT.json` has every part
with its status, and the hazards that no property covers yet with the reason.
