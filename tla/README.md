# Lazerbass: TLA+ models of the synthesizer firmware

Lazerbass is the firmware of an additive bass synthesizer on an STM32H750 with
FreeRTOS. Four tasks (audio, control panel, USB MIDI, debug), one timer callback
and a handful of interrupt handlers share a synthesizer object, a modulation
table and a few buffers; the panel edits the modulation table while the audio
task runs it. This directory models the firmware's own code under
`src/LazerbassSoft/Lazerbass`, and the part of the FreeRTOS kernel under
`src/LazerbassSoft/rtos` it stands on; paths below are relative to the former.
`PROJECT.json` maps every definition that models code to its source lines.

Contents: 1 inventory, 2 modules, 3 runs, 4 fairness, 5 proofs, 6 what the models
show, 7 what is not modelled, 8 plan.

## 1. Inventory

### Components

| Component | State | Operations | Correct when |
|---|---|---|---|
| Modulation bank (`dsp/ModulationBank.*`) | `links_`, `paramInfos_`, two lengths, each parameter's `modulationValue` | AddNewLink, RemoveLink, RemoveAllLinks, GetLink, GetLinkOfParam, Tick | a link acts on the parameter it was made for; a parameter is registered once; both tables stay in bounds |
| Panel pages and overlays (`gui/GuiDispatch.*`, `gui/obj/ParamModulations.*`) | page shown, overlay stack, list of link handles, cursor | BtnEvent, EncoderEvent, EnterParamModulations, AddNewOverlay, RemoveOverlay | handles designate live links of the page's parameter; an overlay is modal |
| Parameter pages (`gui/obj/*.cpp` others) | none of their own beyond a page number | EncoderEvent, BtnEvent, Draw | the settings they allow fit the loops of Tick |
| Key handling (`dsp/Lazerbass.cpp` 184-308) | `noteStack_`, `noteNumber_`, `hasNoteOn_`, envelope states | NoteOn, NoteOff, Tick's share | the last key still held sounds; nothing sounds without one |
| MIDI input (`bsp/USBMidi.*`, `bsp/st_usb/usbd_midi.c` DataOut, `main.cpp` UsbTask) | ring of 64 events, two positions, a semaphore | interrupt stores, task plays | every event is played once, in order |
| Audio output (`bsp/PCM5102.*`, `main.cpp` AudioTask) | two half-buffers, `offset_`, a semaphore | DMA, two interrupts, GetNextBlock, copy | the DMA finds consecutive blocks and nobody writes where it reads |
| Block and tick clock (`dsp/Lazerbass.cpp` Process) | `tickPos_` | Process | control ticks are evenly spaced, blocks are filled |
| Key scanner (`bsp/ControlIO.cpp` keys, `main.cpp` BspTask) | two 9-byte arrays, a one-shot timer, an SPI transfer, a semaphore | timer callback, end of transfer, WaitForNextEventBlock | presses and releases alternate; a lasting change is reported |
| Encoders (`bsp/ControlIO.cpp` 341 on) | four counters | edge interrupt, read and clear | every detent counts once |
| Display (`bsp/Oled.cpp`) | frame buffer, busy flag | Init, power sequence, Display | no frame is torn; a power failure is reported |
| Audio lock (`gui/AudioLock.*`) | a binary semaphore | take, give | the synthesizer is changed and run by one task at a time |
| Serial log (`bsp/DebugIO.*`) | transmit buffer, a binary semaphore | Write, Print, end of transfer | a message is not overwritten while it is sent |
| Envelopes (`dsp/Envelope.*`) | stage, phase, output | Tick, GotoReleaseState, Reset | stages follow each other without a jump |
| LFOs (`dsp/LFO.*`) | phase, output | Tick, Reset | floating-point arithmetic |
| Oscillator bank (`dsp/Lazerbass.cpp` AudioGen and the partial pipeline) | frequencies, phases and gains of the partials | AudioGen, Tick, ResetPhase | each partial in use has one harmonic and one gain and sounds at the pitch of the last tick |
| Parameters (`dsp/ParamDesc.hpp`, `dsp/params.hpp`) | value, `modulationValue` | Set, Add, GetWithModulation | values stay in range |
| Tasks and boot (`main.cpp`) | AppMain and four task loops | start | everything is set up before it is used |
| FreeRTOS kernel (`rtos/tasks.c`, `queue.c`, `list.c`, `timers.c`) | lists, semaphores, scheduler state, a timer | take, give, delay, create, delete, tick, timer service | every task is in one list; no wake-up is lost |
| Time counter, USB device set-up, memory, vectors, C library glue | hardware | | |
| Vendored: HAL, CMSIS, USB library, drawing | | | |

### Interactions

* USB interrupt -> ring and semaphore -> UsbTask -> (audio lock) NoteOn/NoteOff
  -> flags -> Tick, called by Process in AudioTask under the same lock. UsbTask
  also writes to the serial line, whose semaphore TestTask shares, *while* it
  holds the audio lock.
* Audio DMA interrupt -> `offset_` and semaphore -> AudioTask -> lock, Process,
  unlock, copy into the half just played.
* Timer -> SPI DMA -> semaphore -> BspTask -> GuiDispatch -> page or overlay ->
  modulation bank. BspTask takes the audio lock inside single handlers only.
* Page -> bank: `GetLinkOfParam` copies link pointers into the page, which keeps
  them across removals that move links.
* Bank -> Tick: Tick follows `targetParamInfo` of every link on each control
  tick, in AudioTask.

### What is hard here

Tasks have equal priority (0) with preemption and without time slicing; the
timer daemon runs at priority 4 and interrupts above all. A task loses the CPU to
its equals when it blocks, and also, at any instruction, when the timer daemon has
run in between: the switch back goes to the next task in the ready list. So every
step of one task may interleave with every step of the others. The hard
behaviours are: binary semaphores that stand for several events; buffers shared
with a DMA; pointers kept into tables that move their entries; counts that are
charged to the wrong slot; flags left for a later tick; settings changed without
the lock while a tick reads them; a task that waits for one resource while it
holds another; handlers that outlast the period of what calls them. Failures of
the hardware end in `DEVICE_ERROR`, an endless loop: nothing restarts, nothing is
persisted, and no message is lost except by overwriting. `PROJECT.json` lists 40
such places under `hazards`, each with the properties that cover it or the reason
why none does.

## 2. Modules

| Module | Models | Composes |
|---|---|---|
| `ModulationBank` | `dsp/ModulationBank.*` | |
| `ModulationRoutes` | abstract: what the bank promises | refined by `ModulationBank` |
| `BankTasks` | the bank between BspTask and AudioTask | EXTENDS `ModulationBank` |
| `ModulationPage` | `gui/GuiDispatch.cpp`, `gui/obj/ParamModulations.cpp` | EXTENDS `ModulationBank` |
| `ParamPages` | whole-number settings of the other pages, the loops of Tick they steer | |
| `Gui` | all pages behind GuiDispatch | `ModulationPage`, `ParamPages` |
| `NoteStack` | keys in `dsp/Lazerbass.cpp`, envelope triggers | |
| `LastNote` | abstract: last-note priority | refined by `NoteStack` |
| `SampleClock` | `Lazerbass::Process` | |
| `Lazerbass` | the synthesizer between its two callers | `NoteStack`, `SampleClock` |
| `Oscillators` | which partials sound, and at which pitch | EXTENDS `Lazerbass` |
| `Envelope` | `dsp/Envelope.cpp` | EXTENDS `Oscillators` |
| `MidiIn` | `bsp/USBMidi.cpp`, UsbTask, AudioTask and TestTask at the lock and the serial line | EXTENDS `NoteStack` |
| `AudioStream` | `bsp/PCM5102.cpp`, AudioTask | |
| `BspTask` | the program counter of BspTask | |
| `ControlScan` | keys of `bsp/ControlIO.cpp` | EXTENDS `BspTask` |
| `Encoder` | one knob of `bsp/ControlIO.cpp` and its interrupt | EXTENDS `BspTask` |
| `Oled` | `bsp/Oled.cpp`: power sequence and frames | EXTENDS `BspTask` |
| `Panel` | BspTask's loop with its three parts | `ControlScan`, `Encoder`, `Oled` |
| `Kernel` | the part of FreeRTOS the firmware uses | |
| `Firmware` | `main.cpp`: AppMain, the tasks, the interrupts | EXTENDS `Kernel` |
| `MCModulationBank`, `MCBankTasks`, `MCGui`, `MCLazerbass`, `MCMidiIn` | bounds for TLC | extend the module they name (`MCLazerbass`: `Envelope`) |
| `ModulationBankProofs`, `GuiProofs`, `NoteStackProofs`, `SynthProofs`, `AudioStreamProofs`, `PanelProofs`, `FirmwareProofs` | proofs | extend the module they name (`ModulationBankProofs`: `BankTasks`; `SynthProofs`: `Envelope` and what is below it, and `MidiIn`) |
| `CommonLemmas` | facts about numbers and sums the proofs share | |

Conventions. Pointers into a table are slot numbers, `nullptr` is `Null` (-1).
A variable that stands for no state of the program but lets a property refer to
the past is called a history variable where it is declared. A definition under
a comment "Faulty variant" is used by no specification: it is the form a
plausible bug would give the definition after it, and `PROJECT.json` "mutants"
says which property notices.

**ModulationBank.** `links`/`numLinks` and `paramInfos`/`numParamInfos` are the
two prefix-filled arrays. `AddNewLink` is `JoinParamInfo` (the parameter has a
slot) or `NewParamInfo` (it gets one), or `OverrunParamInfos` when the second
table is full, which the code does not test. `RemoveLink(i)` swaps the last link
into slot i and charges *that* link's slot (`ChargedInfo`), as the code does by
reading through the pointer after the swap; `CountLeft` is the unsigned
decrement modulo `CountModulus`; at 0 `FreeParamInfo` swaps the last registered
slot in. `Tick(out)` is one call with modulator outputs `out`. Slots behind the
live prefix are kept empty: the code rewrites each field before it counts a slot
again. History: `links[i].asked` (the parameter the link was made for), `freed`
(RemoveParamRegInfo has run) and `overrun` (a write past the table; the model
stops there).

**ModulationRoutes** is a set of (modulator, parameter) pairs of bounded size
and a flag `trusted`. Under the mapping `routes <- {<<source, resolved
parameter>>}`, `trusted <- ~ freed` each bank operation is Connect, Disconnect,
DisconnectAll or a stutter until a slot is freed; `LoseTrack` and `Drift` say
how little is promised after that.

**BankTasks.** BspTask calls AddNewLink without the audio lock, so Tick may run
in the middle of it. `AddBegin` is where its tests have passed, `AddEnd` where all
stores are done; between them `TornTick` lets Tick find each store done or
not, field by field, in the new link and in the parameter's slot, since nothing
orders them. What removals left in a slot behind the live ones (`leftover`) is
what a store not yet done leaves visible. RemoveLink is called under the lock and
stays one step.

**ModulationPage.** `Press(k)` is one key of a scan, in ascending order;
`branch` is the branch BtnEvent chose at the first key of the scan (the code
tests `numOverlayObjs_` once, before the loop). `list`, `listPos` are the page's
handles and cursor; `overlays`, `handle` the overlay stack and the handle
`modulatorChoose` holds. `PageDelete` removes the *last* handle of the list,
as the code does by swapping a copy. `ChooserGone` is the call through
`overlay_[-1]`. One key (`kBeating`) stands for all keys that merely switch to
another page.

**ParamPages.** The settings that are whole numbers or switches: kind of wave,
number of partials and of oscillators, and a section's enable and pattern, with
their steps, clamps and reset keys. `Harmonics`, `Gains`, `TreatedFrom` and
`PhasedFrom` are what the loops of Tick make of them: sets of pairs
<<partial, harmonic or table entry>>, and recursive functions for the loops
over patterns. **Gui** puts both kinds of page behind the dispatch; `touched`
says whether an instance moves the links or the sound, which share nothing.

**NoteStack.** `NoteOn`, `NoteOff`, and in `Tick` the envelopes' advance, then the
take-over of pitch and trigger, in the code's order. An envelope is a state out
of kInit, kAttack, kRelease; `Advance` gives every state one call can leave it
in. `LastNote` orders the held keys by their last press and is otherwise free of
stacks and flags. **SampleClock** is Process's loop, with `tickPos` as the
countdown that survives from block to block. **Lazerbass** puts them together: keys
come between two blocks only (the lock), a tick takes them over; `late` counts
the samples generated at a pitch the keys have left.

**Oscillators.** Tick computes frequencies for the partials in use, AudioGen
takes them over, and the page may change their number between any two steps
of Process, as it does not take the lock. Partials are counted in pairs, and a
frequency is named by its note. **Envelope** decides by the phase what `NoteStack`
leaves open in `Advance`: a phase is a small integer out of `0 .. One`, each tick
takes its increments anew because the panel may move the times, and an increment
above One is a time of at most kMinTime. The falling through from the end of
the attack into the release within one call is modelled, and the keys set the
phase back between two blocks.

**MidiIn.** `DataIn(packet)` is the receive interrupt (atomic: it runs to
completion above all tasks). UsbTask has a step per semaphore operation and per
access to the ring: wait, lock, fetch, two tests and the play step, each of which
re-reads the slot through `e`, print, unlock. AudioTask is reduced to
wanting a block, taking the lock, ticking and giving it; TestTask to writing on
the serial line. `lapped` records that the interrupt reached unread events;
`hostStack` is the keys the host holds.

**AudioStream.** `DmaSwitch` is the DMA entering the other half, `Interrupt` the
handler it causes, then AudioTask's wait, reading of `offset_`, Process under the
lock, and the copy. `OtherLocks`/`OtherUnlocks` are any other holder of the lock.
Blocks are numbered modulo `BlockModulus`. The task may be late by any number of
half-buffers. `onTime` counts, up to 2, the DMA's switches that found the task
waiting; it is what the properties condition on. The one timing assumption is
that an interrupt is served before the next one is due (a half-buffer is
millions of cycles long against a handler of a few lines).

**Panel** is BspTask's loop (`pc` in `BspTask`) through its three parts.
*ControlScan*: a byte array is the set of its bits that are 1; the contacts move
at any time, the timer callback samples them, `ReceiveByte` is the DMA writing one
byte, `HAL_SpiHandler` gives the semaphore, BspTask compares, restarts the
one-shot timer and only then handles the events; `known` (history) is the set of
keys whose last report was a press. *Encoder*: `pos` is the knob in quarters of a
detent; `Turn` moves it, `Bounce` makes A1 bounce while A0 is still; the interrupt
reads the pins after the edge; BspTask reads a count, handles it and clears it,
with whatever the interrupt has added meanwhile. *Oled*: the power sequence with
its uint8_t counter, then frames: drawn, dropped while a transfer runs or copied
for the DMA, which sends them part by part. `touched` moves one of the three from
outside in each instance: they share nothing but BspTask, which passes through the
others as well.

**Kernel.** Tasks of one priority in the ready list `ring`, rotated so that
pxIndex is at its head; `End` is the list's end marker, which does take a place.
Semaphores have a count, a queue of tasks and the lock that keeps interrupts off
that queue (`txLock`). Take is cut where an interrupt makes a difference: after the
first look at the count (`lock`), with the queue locked and the scheduler suspended
(`place`), and asleep (`retry`). Give wakes the first task but hands nothing over.
Delays, the pended tick, the pending-ready list and the timer service task with its
command queue follow `tasks.c` and `timers.c`. **Firmware** gives each task its
program: one label per kernel call, with the work between two calls inside the
step that follows; `devices` says which interrupts may come. Steps that neither
call the kernel nor matter to another task are merged into the next call.

## 3. Runs

The longest, `engine`, takes about two minutes on two workers. Deadlock is
checked except in the runs marked (d), where the model deliberately stops:
after `overrun`, `nulled`, `halted` or a stray key nothing further is claimed, and
at a bound on counts no operation may be left. In the others the system never stops.

| Run | Instance | Distinct states | Shows |
|---|---|---|---|
| `bank_structure` (d) | 2 modulators, 3 parameters, 4 links, `CountBound` 5 | 194 106 | RegisteredOnce, RoutesKept, NoDuplicateLink, ChargesConserved, FreesOnlyRegistered: both tables stay consistent through any order of adds, removals and clears; RefinesRoutes: refinement of `ModulationRoutes` |
| `bank_tasks` (d) | 2 modulators, 2 parameters, 2 links, amounts {0, 1}, both switches, `CountBound` 3, `ValueBound` 4 | 489 123 | NothingLeftBehind, QuietTickExact: what a Tick in the middle of AddNewLink gets wrong is gone after the next one |
| `page` (d) | modulators {24, 25}, 3 parameters, 3 links, `CountBound` 3, `PressBound` 2; up to 16 partials, patterns up to 7 | 1 617 938 | HandlesLive, PageShowsTarget, OverlayModal, StrayKeyNeedsChord: handles, cursor and overlays; WaveComplete, PatternSplits: every setting fits the loops |
| `engine` | 3 notes, 1 envelope, 2 pairs of partials, block 16, tick every 5 units, One = 3, `Increments` {1, 2, 4} | 1 559 818 | PitchChangeTriggers, StrayAttackNeedsTap, EvenTicks, KeyHeardInTime, CountedInTune, NoJump: keys, ticks, partials and envelopes together; RefinesLastNote: refinement of `LastNote` |
| `midi` | 2 notes, ring of 3, packets of 2, `MaxPackets` 2 | 219 768 | FollowsHost, NoLostWakeup, Drains: from host to keys |
| `audio` | `BlockModulus` 5 | 8 708 | NeverIntoPlayed, OneBlockPerHalf, Gapless, RefillsBoth: half-buffers, late task included |
| `panel` (d) | keys 7, 41, 47; a knob up to 5 quarters from its start; 2 pictures in 2 parts; `Trys` 2 | 446 351 | OneTurn, EdgesAlternate, HeldIsReported (keys), CountExact, AllTaken (knob), NoTear, NewestShown (display) |
| `tasks` | AppMain with {AudioTask, BspTask}, and with {AudioTask, TestTask, UsbTask} | 391 361 | OnePlace, NoStrandedWaiter: the kernel's lists; HeldOnce, BootOrder: locks and start; AudioServed: progress |
| `bank_limit` (d) | 3 parameters, 2 slots | violation of AddStopsAtLimit | finding 1 |
| `bank_stale` (d) | 3 parameters, 3 slots | violation of LinksOfParamComplete | finding 2 |
| `page_chord` (d) | as `page`, `CountBound` 5 | violation of ChooserGoesBack | finding 3 |
| `scan_unused` (d) | keys 7, 45 | violation of UnusedSilent | finding 4 |

### Bounds, and why they suffice

* `MaxModulations`: 16 in the code. The tables only distinguish first, last and
  other entries, and a removal involves the removed, the last and the charged
  slot; three of each table show every such coincidence, four links leave
  room for one uninvolved link. The proofs need no bound.
* `CountModulus` (2^32 in the code) is 16 or 32, beyond the bounded counts, so
  that a decrement of 0 wraps to a value no sequence of the instance reaches. The
  wrap is what keeps a stale slot from being freed twice.
* `CountBound`: through wrong charges a count can grow for ever; 5 is more than
  the links of the instance, one charge beyond. `ValueBound`: torn ticks and stale
  values add up without limit; 4 leaves room for two links' worth of leftovers.
  `bank_tasks` ends where a slot is freed, as both its properties do.
* Amounts and outputs take their extremes only: Contribution is linear in each.
* `PressBound`: two keys in a scan are enough to change branch under the second.
* `Steps`, `Turns`: an encoder's count per scan, one step either way; a larger one
  is a series of single steps up to the clamp at the end.
* `MaxPartials` 16, `MaxParttern` 7: patterns that divide the number of partials
  and patterns that do not, cut off in either half, and numbers of oscillators
  (2 to 6) that do and do not divide it; 256 and 64 in the code.
* Three notes give stacks in which a released note is on top, in the middle, at
  the bottom, or missing. `StackBound` and `LateBound` cut off nothing the code
  does: a stack of distinct notes is shorter, a tick comes earlier. They only
  end faulty variants.
* Block 16 with a tick every 5 units: relatively prime, so a tick falls on every
  position of a block, as with 512 and 160 samples; the unit is 32 samples.
* `One` = 3 with increments 1, 2 and 4: a stage that ends exactly, one that ends
  with a remainder, one that ends at once. One envelope: they share nothing.
* Two pairs: one in use throughout and one that comes and goes.
* A ring of 3 with packets of 2 wraps within the second packet and may be
  lapped; `MaxPackets` 2 covers a packet that arrives at each step of UsbTask's
  handling of another. In the code the ring has 64 entries and a packet 16.
* `BlockModulus` only has to tell a block from its successor and predecessor.
* `Keys`: one key in the first byte, one that the mask on byte 5 clears, and one of
  byte 5 that it keeps, so that a scan can be caught between bytes.
* `MaxTurn` 5: from below the detent of the start to beyond the next one; behind it
  the contacts repeat.
* `Trys` 2 instead of 32: an answer to the first, to the last attempt, and none.
* `tasks`: the instances hold every semaphore, both users of the lock beside
  AudioTask and both of the serial line; with all four tasks at once TLC does not
  finish. Periods of 1 tick: each delay may end at any tick, as ticks are not
  bound to the speed of the tasks.

Symmetry (parameters; for the bank alone modulators, too) is used where no
liveness is checked; no definition distinguishes those model values. The
panel's modulators are numbers, because keys are handled in the order of their
ids, and are left out of it.

## 4. Fairness

Safety needs none. Liveness is stated in four modules.

* `MidiIn` (Drains): weak fairness for every step of UsbTask and AudioTask that
  only needs the CPU, and for the end of a serial transfer. Strong fairness for
  `UsbLock` and `UsbPrint`: these wait on semaphores others take repeatedly.
  UsbTask is queued on them by the time their holder gives them back, and the
  holder does not come back for them before it has left the CPU: AudioTask waits
  for its next block, TestTask sleeps. No fairness for the host, the interrupt
  or TestTask.
* `AudioStream` (RefillsBoth): the DMA never stops and its interrupt is served.
  Nothing is assumed of AudioTask and of the lock: no fairness bounds a task's
  speed against a DMA. `RefillsBoth` is conditional on the task being in time from
  some point on instead; a task that is always late by one half-buffer fills the
  same half for ever.
* `Panel` (HeldIsReported, AllTaken, NewestShown): the timer, the interrupts and
  error-free transfers proceed, and BspTask is scheduled. That the display answers
  is not assumed (`BspStep` excludes it): the power sequence ends by its counter.
  Strong fairness for drawing a frame: every round of the loop takes time, so a
  frame is due again and again. Each property allows for BspTask stopped by an
  error.
* `Firmware` (AudioServed): the processor runs, ticks, half-buffers and transfers go
  on. Strong fairness for AudioTask's turns: with the processor given away
  again before each of its instructions, which interrupts could do in the model
  and not in time, it would not get on. Strong fairness also for the end of the
  display's attempts and of the events of a scan, which are finitely many.
  The order in which tasks get the processor is the kernel's and is not assumed.

## 5. Proofs

`tlapm` checks every theorem below to its leaves, for every value of the
constants allowed by the module's named assumptions. The shape is the same in
each module: an inductive invariant, lemmas with one step per action, its
invariance, and the properties from it.

**ModulationBankProofs** (`TypeCorrect`, `RegisteredOnceHolds`, `RoutesKeptHolds`,
`NoDuplicateLinkHolds`, `RefinesRoutesHolds`). From `MaxModulations > 0`,
`CountModulus > 2`, finite `Params`, and two model values that are not members of
the other constants. `IInv` adds `LiveSound` to the properties: every live link and
every live slot carries real entries, also after a slot was freed when a
link's slot number may be behind `numParamInfos`. Without it neither the join with
an existing registration nor a swap can be shown to keep the types; and the three
properties need each other, since `RoutesKept` is kept by an add only if a
parameter has a single slot, and `NoDuplicateLink` only if GetLink compares what
the link was made for. `RoutesKept` and `NoDuplicateLink` are guarded by
`~ freed`: that is not for convenience, finding 2 is what happens without. The
refinement counts: until a slot is freed, links and routes match one to one
(`RoutesFit`), so a removal takes away just the route of its link, and the removal
that frees a slot leaves fewer routes than there were, whatever the links left
resolve to.

*The counts* (`ChargesConservedHolds`, `FreesOnlyRegisteredHolds`). `ChargesInv` is
the law itself and that no registered slot has a count of 0 before one is freed;
the lemmas follow a sum over the live slots through a charge, a new slot and the
swap that frees one. `StaleInv` says why no slot behind the live ones is ever
freed again: a link left pointing to it can only take its count below 0, to the top
of the unsigned range, and how far it is below, plus the positions of the links to
it, is at most `MaxModulations` squared, since each charge takes such a link away
or moves it down. `CountModulus > MaxModulations^2 + 1` is all that is assumed
of the width; the code has 2^32 for 16 slots.

*Between two tasks* (`TasksKeepTables`, `QuietTickExactHolds`,
`NothingLeftBehindHolds`). A step of the two tasks is a step of the bank or leaves
the tables alone, so `IInv` carries over; a Tick between two calls then finds for
each parameter exactly the links added for it, and clears the parameter first, as
`RegisteredOnce` says. `LeftInv` says why a torn Tick leaves nothing behind: slots
not yet used hold no parameter, what is left of a removed link points to a used
slot, and until a slot is freed a slot keeps its parameter. So a link found half
written adds to the parameter being added, to a registered one or to none, and for
any other the sum is over no links.

**GuiProofs**, the links (`GuiRefinesPage`, `HandlesLiveHolds`, `PageShowsTargetHolds`,
`OverlayModalHolds`, `StrayKeyNeedsChordHolds`). `HandlesLive` holds with the handles
in ascending order: GetLinkOfParam finds them so, OK appends the newest link,
DELETE removes the last. So the removed link is behind all handles kept, and the
link that moves into its slot is behind it: no handle kept changes. `ModalInv` adds
the order of the keys within a scan (`KeysInOrder`): OK opens an overlay only
behind the keys that could open a second one.

**GuiProofs**, the settings (`GuiRefinesParam`, `WaveCompleteHolds`,
`PatternSplitsHolds`). `SettingsOK` is the invariant: the pages keep every setting in
its range, and the number of partials even, for any encoder movement and any even
`MaxPartials`. Both properties follow from it alone. For the waves, each of the eight
kinds of loop is shown to leave the table some function gives (`WaveIs`): the loops
over pairs because every partial is an even number or one more, the strides
because the oscillator and the round of a partial are its remainder and quotient.
For the patterns, the recursive functions are unfolded: the function that gives the
upper part of each round satisfies their equation (`OneRound`, on what a remainder
does when one round is taken off), and every solution is that function, by induction
on the partials left (`TreatedIs`, `PhasedIs`).

**NoteStackProofs** (`StackDistinctHolds`, `SoundsTopHolds`,
`PitchChangeTriggersHolds`, `StrayAttackNeedsTapHolds`, `StackRefinesLastNote`).
`NoteInv` needs its parts together: that a note is in the stack once makes the
erased stack the old one with an entry left out; that the stack is empty exactly
without output tells a fall back to another key from the last release. The refinement
rests on what a press and a release do to the order of positions (`PushedOrder`,
`ErasedOrder`) and on the top being the newest (`TopIsLatest`).

**SynthProofs**, the engine. The clock, from positive block size and rates with at least one
sample per tick: `TypeCorrect`, `EvenTicksHolds`, `PieceInBlockHolds`,
`BlockFilledHolds`; `CountsDown` says that samples since the last tick plus the
countdown are the period, across the end of a block. The engine:
`EngineRefinesClock`, `EngineRefinesKeys`, `OscRefinesEngine`, `EnvelopeRefinesOsc`
carry each theorem about a part over to the whole. `KeyHeardInTimeHolds` (`LateInv`:
samples already late and those left until the tick are fewer than a period, but
for the piece right behind a tick, where no key can come). `CountedInTuneHolds`
(`TuneInv`). `StagesAdvance`: where the phases of an envelope lead is within
`NoteStack`'s `Advance`. `NoJumpHolds` (`LevelInv`: the output is the one its state
and phase stand for, unless a key has set them since).

**SynthProofs**, the ring (`NoLostWakeupHolds`, `KeysBetweenBlocks`,
`MidiRefinesKeys`, `FollowsHostHolds`).
`RingInv` ties the positions of the ring to UsbTask's place, `LockInv` the lock's
owner to the tasks', `SlotsInv` says that slots hold events of the host, whatever
laps; so each step is one of `NoteSpec`, and the theorems of the keys hold behind
the ring. `HostInv` follows the host's keys: those that sound, then what is in
UsbTask's hand, then what is unread (`Unread`), make the keys the host has down. A
packet adds to that list what it adds to the host's keys, a step of UsbTask moves
its first entry over, and the positions, taken modulo the size of the ring, tell
the list apart from the rest as long as the host has not lapped it.

**AudioStreamProofs** (`TypeCorrect`, `NeverIntoPlayedHolds`, `OneBlockPerHalfHolds`,
`GaplessHolds`). From `BlockModulus > 3`. None of the properties is inductive: they
speak of a task that has caught up, and what brings it back into step is where
`offset_` and the semaphore were left. `IInv` says it: `IrqMatches` (the pending
interrupt belongs to the half the DMA left), `OffsetFresh` (a task about to read
`offset_` with no interrupt pending reads the right half), `CaughtUp` (with neither
interrupt nor semaphore left, the task works on the half that is not played),
`InTime` (the three places where a task in time can be, and which block is in
which half).

**PanelProofs** (`OneTurnHolds`, `EdgesAlternateHolds`, `CountExactHolds`,
`NoTearHolds`). `ScanInv`: from the firing of the timer to the comparison
`lastButtons_` is what has been reported, from there to the next firing `buttons_`
is. `KnobInv`: once the last edge is answered, `init_nu` says whether it found A1
down, and then the count is the detent A1 fell in, which `flag` tells from the
next. `FrameInv`: the parts sent are those of the buffer.

**FirmwareProofs**, the owners (`HeldOnceHolds`). For any delays and any choice of
tasks; that the tasks and the semaphores differ is assumed, and nothing is used of
the kernel's lists. `HeldInv` counts: who holds a semaphore is told by labels and
calls (`LockUsers`, `SerialUsers`, the transfer among them), and their number and the
count of the semaphore make 1 from its creation on. It needs to know who may be
waiting for what (`WaitersOK`: a woken task that takes the lock becomes one more
user), that nobody is placed in the queue of a semaphore not yet created
(`CallsOK`: a null handle is never had, so nobody is inside before), and that
AppMain creates either once (`CreatedOnce`). A give by one who has the semaphore
then finds a count of 0, and so does the end of a transfer. This is also what lets
`MidiIn` treat the audio lock as a variable with one owner.

**FirmwareProofs**, the lists (`OnePlaceHolds`, `NoStrandedWaiterHolds`). `PlaceInv`
is one invariant for both, as neither holds alone: no list has an entry twice
(`ListsOK`), no two have one in common and together they hold who is alive
(`PlacesOK`); who runs is ready, but between leaving the list and the switch
(`TurnOK`); the scheduler is suspended for one task, the running one (`CallerOK`);
who is in a queue is in the call that retries when woken (`QueuesOK`); only the task
a semaphore signals waits for it, so its queue is empty when it is created
(`SignalOK`, `UnbornOK`); a locked queue whose semaphore was given has the note of
it (`LockedOK`). Before the steps come lemmas about the lists, stated as which
entries a list has once: what appending, cutting, removing, rotating and the
insertion by tick make of them. The hardest step is `Place`, where one action moves
tasks out of the queue, the pending list, the delayed list and the ready list at
once.

**FirmwareProofs**, the start (`BootOrderHolds`). `BootInv` adds to `PlaceInv` which
semaphore exists from which label on (`ExistOK`), and, until the synthesizer is
prepared, `Booting`: the timer has not been started and nobody sleeps (so no tick
moves a task), AudioTask is in no call that could block, and in the ready list it
has its turn before TestTask, BspTask and UsbTask (`AudioFirst`). The lemmas show that
this order survives whatever the kernel does to the list: a rotation, the removal of
the running task, entries of AppMain or the idle task joining at its end. The one
assumption is that AudioTask is among the tasks created, as it is in `AppMain`.

### Only model-checked

All liveness: `Drains`, `RefillsBoth`, `HeldIsReported`, `AllTaken`, `NewestShown`,
`AudioServed`. The prover cannot deal with fairness (ENABLED). Every invariant and
every action property that a run finds to hold is also proved.

## 6. What the models show

### Findings: the code departs from what it documents

1. `bank_limit` / `AddStopsAtLimit`. `AddNewLink` is documented to return nullptr at
   the limit, but only the number of links is tested. A registered slot is
   normally never freed, because its count starts one too high, so the 17th
   distinct parameter is written behind `paramInfos_`; the GUI offers 23.
2. `bank_stale` / `LinksOfParamComplete`. `RemoveLink` charges the slot of the link
   swapped in. In a suitable order this frees the slot of a parameter that still
   has a link, which then resolves to another slot: `GetLinkOfParam` no longer
   "gets all links of the parameter".
3. `page_chord` / `ChooserGoesBack`. Of two keys pressed in one scan while
   the chooser is open the first closes it and the second goes to `overlay_[-1]`.
4. `scan_unused` / `UnusedSilent`. The mask `0b11100001` is said to clear keys 43
   to 46 and clears 41 to 44: two real keys are dead and two unconnected inputs
   are reported.

### Properties that hold for a reason worth knowing

* `HandlesLive` holds *because* DELETE removes the last link of the page's list
  instead of the one shown (`std::swap` on a copy). Repairing that line alone
  would leave handles pointing at moved links.
* `FreesOnlyRegistered` holds because an unsigned count wraps.
* `ChargesConserved` is an accounting law with an off-by-one in it: counts exceed
  links by exactly one per registered slot. That is why slots leak and also why
  finding 2 needs a longer sequence of operations.
* `QuietTickExact` holds although AddNewLink runs without the lock: a Tick that
  meets it half done may apply a wrong amount to a wrong parameter, or follow a null
  pointer (the model stops there, `nulled`), but the next Tick puts every
  registered parameter right.
* `StrayAttackNeedsTap`: a key pressed and released within one control period
  leaves the envelopes attacking with no key held. It is the only way there.
* `CountedInTune`: a page that raises the number of partials between a tick and
  the pieces behind it makes the added partials sound at an old frequency until the
  next tick; those already counted are never out of tune.
* `FollowsHost` holds up to the 64th unread event; at that point the write position
  meets the read position and the whole ring reads as empty: note-offs
  may be lost and a key stays on. Nothing holds the host back.
* `NoLostWakeup` shows the opposite of the usual worry: one binary semaphore for
  any number of packets is enough, because UsbTask drains the ring after the take.
* `BootOrder`: AudioTask calls `bass_.Init` after it has started the stream and
  without the lock, and Init would clear what a note had set. It is the order in
  which AppMain creates the tasks, and the turns they get, that keeps everyone else
  away until then.
* `AudioServed` is conditional. A give hands nothing over: the task that gave the
  lock may take it again before the one it woke has its turn, and an endless stream
  of packets can keep AudioTask from its blocks.
* `CountExact`: bouncing contacts never make a detent count twice; what BspTask
  clears without having handed it over is the only loss.

### Observations without a property

Read from the code while modelling; no document states the contrary, or the
behaviour is outside of the models.

* With a full bank, asking for a link that exists returns nullptr with "did not
  exist". `RemoveParamRegInfo(param)` would loop for ever without a match; it has
  no caller. `RemoveAllLinks` leaves the last `modulationValue` of each parameter.
* Two full links to a parameter add up to 2; `ParamDesc.hpp` says -1~1. The mapped
  value is clamped, so this saturates.
* The second partial of each pair of FullSquare takes the gain entry one behind its
  own harmonic (`dsp/Lazerbass.cpp`, about line 431); `WaveComplete` states it.
* NoteOff of the last key restarts the release from the peak, so the output of an
  envelope caught in its attack jumps up; and since `output_` is then false,
  AudioGen stays silent and the release is only ever seen by the modulation bank.
* `invUpdateRate_` is update rate over sample rate, so times of envelopes and LFOs
  fit one combination of rates.
* Sums of partials in `int16_t` wrap; the first sample of each piece includes
  partials that were disabled for being out of range.
* A note-on with velocity 0 is a press.
* UsbTask holds the audio lock during a serial transfer.
* When the task that runs blocks, `uxListRemove` moves pxIndex back, and a task
  woken before the next switch is inserted in front of one that was ready
  earlier, contrary to the fairness described at `rtos/list.c:118`.
* The polled Print of AppMain waits for a line whose DMA may still be running.
* The retry counter of the display's power sequence ends at 255 without an answer
  and at 0 when the last attempt succeeds, and is tested for 0.
* A panel message is shown longer than its time when frames are late:
  `msStillShow` goes down by the previous loop's duration once per frame.

## 7. What is not modelled

The map covers a small share of the repository by lines: the tree is mostly
vendored (HAL, CMSIS, the USB library, a full FreeRTOS with its headers), and the
firmware's own control code is a few thousand lines. Modelled of the vendored code
is what the firmware calls of FreeRTOS.

* LFOs: a phase accumulator without control state besides the wrap.
* Levels, phases, gains and value mappings: floating-point arithmetic with no
  control state. Settings that only scale a level, and the pages for them.
* Drawing and texts; messages; velocities; the LED bits that ride on the scan's
  transfer.
* The bulk removals of the bank (no caller), the polled Print, the error hooks.
* Failures that end in `DEVICE_ERROR`: the device or the task stops there.
  `Panel` has such cases as `halted` and `stopped`, and shows which of them a wrong
  order of steps cannot cause (a transfer started while one runs).
* The heap: `noteStack_` is an unbounded sequence.
* Enumeration and descriptors of the USB device; set-up of clocks, memory and
  peripherals; vectors and C library glue.
* Of FreeRTOS: queues of data, mutexes, notifications, event groups, stream buffers,
  timeouts, priorities other than two. Nothing of the firmware uses them.

## 8. Plan

Done: bank, its abstract specification and proofs, alone and between two tasks; all
pages that hold control state, with proofs of the handles, the overlays and the
settings; keys, clock, partials and envelopes as one engine with proofs from bottom
to top; MIDI input; audio stream; the panel's three parts; the kernel with all tasks
on it, with proofs of its lists, the owners and the start.

Left: the LFO's phase and its reset, composed with `Envelope`.
