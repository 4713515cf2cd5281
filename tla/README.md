# A TLA+ model of Swanium

Swanium is a WonderSwan emulator in Rust: a deterministic emulation core
(`crates/core`), host services (`crates/audio`, `input`, `video`, `common`) and a
desktop frontend (`crates/frontend`) that runs the core on a worker thread. This
directory holds its TLA+ models, the TLC instances that check them and the
TLAPS proofs about them. Line numbers are those of the sources the map in
`PROJECT.json` names.

## 1. Inventory

| Component | State | Operations | Talks to | What makes it correct |
|---|---|---|---|---|
| Emulation worker (`frontend/src/emulation.rs`) | machine, pause flag, dump and START requests, pacing clock; command, reply and event channels; published frame | nine commands, one frame, stop on a fault, shutdown | GUI thread by channels, audio ring, shared atomics | requests are answered or time out; a machine's sound and picture do not outlive it, but for the resampler's last sample; the thread can always be joined |
| GUI controller (`frontend/src/main.rs`) | `rom_path`, `paused`, pending open/reset/BIOS requests, capture, files | menu callbacks, a 4 ms timer, ROM change, save states, autosave, quit | worker, files, window | each file gets the bytes of its own ROM; nothing unsaved is discarded; what the window says is what the worker does |
| Audio path (`audio/src`) | ring (`head`, `len`, buffer), resampler phase and previous pair | push, pop, clear, resample | worker pushes, the device's thread pops | channels stay aligned, samples in order, no drift between the rates |
| Frame driver (`core/src/system.rs`) | cycle carry, CPU, bus | run a frame line by line, service interrupts | CPU, bus, PPU, APU | no cycle is lost or doubled, interrupts are taken once and a program cannot tell it was interrupted |
| Bus (`core/src/bus/mod.rs`) | ports, WRAM, interrupt latch, timers, GDMA, SDMA, internal EEPROM | port reads and writes, line and frame events | everything in the core | enabled sources are latched until acknowledged, timers keep their period, protected words stay protected |
| Cartridge (`core/src/bus/cart`) | ROM, save RAM, banks, serial EEPROM, RTC | banked reads and writes, EEPROM commands, RTC protocol | bus, save files | addresses stay in range, locked EEPROM is never written, the clock is always a date |
| CPU (`core/src/cpu`) | registers, flags, prefix and interrupt-inhibit state | one instruction | bus | REP suspension, HALT, interrupt shadows |
| PPU (`core/src/ppu`), APU (`core/src/apu`) | sprite latches, frame; channel counters, sample buffer | render a line; tick | bus memory and ports | sprites shown are those of the frame before; sample count follows the cycles |
| Input (`input/src`, `frontend/src/keymap.rs`, `core/src/keypad.rs`) | pressed set, gamepad state, key matrix | events, poll, capture, rebind | GUI timer, bus | no key sticks, no press is lost |
| Configuration, video conversion, window mark-up, logging | settings, recent files | load, store; pixel maps | GUI | the file says what the program shows; recent list bounded, the latest first |

Hard behaviours. Two threads plus the audio device's thread; a FIFO command
channel with synchronous requests that time out (2 s) and are answered late; a
GUI thread whose timer returns early in four situations; a worker that can stop
(faulting game) or die (a panic outside `catch_unwind`); files written in place;
and, inside the core, the order of line events, interrupts and long instructions.
`PROJECT.json` lists each hazard at its line with the properties that watch it.

## 2. Plan

The order is by what can go wrong; all steps but the last are done.

| Step | Modules | Composes / implements | Status |
|---|---|---|---|
| 1 | `EmulationWorker` | the worker thread and its channels | done |
| 2 | `Frontend` (+ `Frontend_proofs`) | the GUI thread, the files and the user, composed with the worker | done, safety proved |
| 3 | `BusEvents`, `CpuControl`, `FrameDriver` (+ `FrameDriver_proofs`) | interrupt latch and timers; CPU control state; one frame, composed of both | done, safety proved |
| 4 | `SampleQueue` (abstract), `AudioRing` (+ `Sound_proofs`, `Arithmetic`) | a bounded FIFO; the ring with `head` and `len` implements it | done, refinement proved |
| 5 | `Resampler` (+ `Sound_proofs`) | phase arithmetic, interpolation and its width | done, no drift and interpolation proved |
| 6 | `AudioPacing` (+ `Sound_proofs`) | `next_frame_at`, `audio_low`, `audio_high` between the worker and the draining device | done, proved |
| 7 | `WordMemory` (abstract), `Eeprom`, `InternalEeprom` (+ `Bus_proofs`) | a lockable word memory; the serial chip implements it; the console's ports on the same chip | done, both proved |
| 8 | `Rtc` (+ `Bus_proofs`) | calendar carry against a reference calendar, the byte protocol | done, the carry proved |
| 9 | `GeneralDma`, `SoundDma` (+ `Bus_proofs`) | bursts with wrap-around and blocked sources; reload, hold and repeat | done, both proved |
| 10 | `InputPath`, `Settings` (+ `Desktop_proofs`) | gamepad events, capture and rebinding, rotation; config file, recent list, full screen | done, proved |
| 11 | `ApuClock`, `ApuSweep`, `ApuNoise`, `ApuMixer` (+ `Sound_proofs`), `CpuAlu` (+ `Cpu_proofs`) | the tick paths, the sweep, the noise register, the mix; arithmetic against reference results | done, all proved |
| 12 | `Cartridge` | bank arithmetic and save sizes of the mapper | open |

`MCFrontend` and `MCFrameDriver` instantiate steps 1-3; `MCParts` checks the
independent components of steps 4-11 in one run, and `Parts_proofs` proves of the
composed model what is proved of each. What stays with TLC is listed at the
end of section 5.

## 3. Modules and code

### `EmulationWorker` - `frontend/src/emulation.rs`

| State | Code |
|---|---|
| `system`, `paused`, `dumpRequested`, `startFrames` | the fields of `WorkerState` |
| `queue` | the command channel, a sequence of `Command`s; `live` says whether its reply receiver still exists |
| `reply`, `stops` | the reply channel of the request under way; `Stopped` events not drained |
| `frameOf`, `audio` | the machine whose picture is published; the `AudioProducer`: of which two machines each queued sample is interpolated, and whose sample the resampler was given last |
| `wpc` | where `worker_loop` is: draining commands, about to run a frame, exited |

A machine is the ROM it runs (or the BIOS) and how often the game wrote its save
RAM. Each command is an action (`ReplaceSystem` ... `Shutdown`), each being the
whole body of its match arm, ring flush and published frame included; a frame
runs (`RunFrame`), stops on a fault (`StopWorker`) or kills the thread outside
`catch_unwind` (`WorkerDies`). `PushAudio` queues a frame's samples, the first of which
starts at what the resampler `carried`; `ClearAudio` empties the ring and leaves that,
as `AudioProducer::clear` does. Both exist where the host has a device (`"sound"`).

### `Frontend` - `frontend/src/main.rs`

EXTENDS the worker. The GUI is one thread whose callbacks run to their end, so a
callback that sends several commands or waits is a walk of `pc` (`Freeze`,
`SaveRequest`, `ReplyWritten`/`ReplyDone`/`NoReply`, `WriteDone`, `SwapRom`,
`Resume` ...) during which only the worker moves; `cont` is the operation under
way. Menu callbacks are user actions, the four exits of the timer are
`TimerOpen`, `TimerReset`, `TimerFree`/`TimerEvents` and `TimerFlush`, in the order
the code tests them. `NoReply` is the 2 s timeout: the command stays queued and its
answer goes nowhere. A file is written in place, so a crash between truncation and
the end of the write leaves it torn (`ReplyWritten`, `WriteDone`, `Crash`,
`Relaunch`). A torn `.state` decodes to nothing; of a torn `.sav` the next load takes
the prefix there is for save RAM (`FreshMachines`), which may hold any number of the
game's writes. `Scenario` selects which user actions and failures a run has.

### `BusEvents`, `CpuControl`, `FrameDriver` - `core/src`

`BusEvents` holds ports 0xB2-0xB4 and the two timers of `bus/mod.rs`; a 16-bit register
is two bytes of base `Base`, written one at a time as games do. `CpuControl` is
`cpu/mod.rs` reduced to its control state: IF, TF and their one-instruction shadows,
HALT, pushed interrupt frames, and string instructions, which the code runs to
their end at once and then rewinds if an interrupt comes (`override` is
`interrupt_return_override_ip`). IP is reduced to its place relative to a string
instruction. `FrameDriver` composes both into `drive_frame`: `CpuTurn` is one
iteration of `run_cpu_cycles` (acceptance, instruction, trap), `EndLine` the carry,
sprite capture and line event, `ServiceLine` and `ServiceFrame` the service of an
interrupted string instruction, `FrameEvent` is `on_vblank`, `EndFrame` the
promotion of the captured sprites. `SaveAndLoad` is a state written and read between
two frames; the captured sprite table is marked `serde(skip)` and comes back empty.
The game is any program of the instruction kinds in `Program`, and uses the
interrupts and timers of `GameSources`.

History variables, which no guard reads: `clock` (APU cycles), `lap` (lines since the
line timer was loaded), `shadow`, `waiting`, `redone` (elements a string instruction
executed after being rewound), `irq` (the interrupt just taken).

### `MCParts` - the parts that share no state

Steps 4-11 are fifteen small state machines that share no variable, neither in
the models nor in the code. A behaviour of all together is, for each, its own
behaviour with stuttering in between, so `MCParts` chooses one part at the start and
lets only that part step.

| Module | Code | State and actions |
|---|---|---|
| `AudioRing` | `audio/src/lib.rs`, `stream.rs` | `head`, `len` and the buffer of `RingBuffer`; `RingPush` (the producer), `RingDrain` (the device's callback), `RingClear`, each one step because the code holds the mutex throughout. `SampleQueue` is what its doc comments promise |
| `Resampler` | `audio/src/resample.rs` | `phase`, `prev`, `has_prev`; a step is one stereo pair, wherever batches end; `OpenStream` starts afresh at another rate. `lead` (history) is how far the output is ahead of the input's time |
| `AudioPacing` | `worker_loop`, `run_one_frame` in `emulation.rs` | the ring's fill and the distance to `next_frame_at`; time passes in ticks while the thread waits or emulates, and the device drains |
| `Eeprom`, `InternalEeprom` | `cart/eeprom.rs`, `cart/mod.rs`, `bus/mod.rs` | the chip's words, enable latch and data register, commands decoded by their bits; the console's ports with status, two command widths and owner data. `WordMemory` is a memory that changes only while unlocked |
| `Rtc` | `cart/rtc.rs` | BCD registers, cycle accumulator, command and byte pointer; `RtcTick` carries a second, `WriteData` lets a game write any byte |
| `GeneralDma` | `bus/mod.rs` | source, target, length, control; `Burst` is the whole copy, wrapping and stopping at a closed window |
| `SoundDma` | `bus/mod.rs` | the latched transfer and the registers the game goes on writing |
| `ApuClock`, `ApuSweep`, `ApuNoise`, `ApuMixer` | `core/src/apu/mod.rs` | one channel and the sample cadence under the three tick paths; the sweep's two counters; the 15-bit register; the mix of one sample and the voice filter |
| `InputPath` | `input/src`, `main.rs`, `video/src/lib.rs` | the gamepad library's queue, held buttons, bindings and an armed rebind; the turn of picture and keys |
| `Settings` | `common/src/config.rs`, `main.rs` | configuration, the file (whole or torn, or edited: values out of range, lists too long and with repetitions), full-screen state of system and program; kills and failed writes. `found` and `opened` (history) are the list at the start and the ROMs opened since |
| `CpuAlu` | `core/src/cpu/*_ops.rs`, `mod.rs` | a register pair, flags and short idioms whose instructions depend on each other's flags |

## 4. Runs

| Run | Question | Bounds |
|---|---|---|
| `swap` | does a ROM change, a reset or a BIOS start lose unsaved progress, is the pause shown the pause there is, does the START hold reach the BIOS machine; do picture and sound belong to the machine that runs | 2 ROMs, backlog 1, an audio device |
| `files` | does every file belong to its ROM, and the running ROM to the window, under crashes, relaunches, timeouts, failed writes and a dying worker | 2 ROMs, backlog 0 |
| `control` | with dialogs, captures, resets and BIOS starts that keep the timer from its work: can a machine stay frozen behind an unpaused window; do requests return, progress reach the disk, a stop the window, and does quitting join the worker | 1 ROM, backlog 0, fair |
| `cycles` | are cycles conserved; do interrupts respect shadows and rewind only the string instruction they follow, without running an element twice | 4 lines of 3 cycles, costs 1 and 4, two nested frames |
| `frames` | does every frame end and every halted CPU with the frame interrupt enabled run on; does a line timer keep its period; does a frame show one sprite table, one the game wrote | 4 lines of 2 cycles, instructions of 3, halted cycles of 1, byte base 2, two sprite tables, fair |
| `parts` | the questions of section 3's table, one part at a time | below |
| `dump_swap`, `stale_stop`, `scan_rewound`, `masked_irq`, `pad_stuck`, `idiv_overflow` | the disagreements of section 6 | smallest that show them |

What `parts` shows: the ring implements a queue (`RingIsQueue`) and the chip a locked
memory (`EepromIsMemory`); owner data survives every write command
(`WritesSpareOwner`); sound does not drift, is interpolated where the arithmetic fits,
and neither overruns, runs dry nor races (`NoDrift`, `Interpolates` in `PartsTypeOK`,
`PacingKept`); the clock moves from any date to the next moment (`SecondCarries`);
DMA copies the right bytes and stays in its block (`BurstCopies`, `StaysOnBlock`);
the APU's batches are exact, a sweep goes on, noise does not die and the mix fits
its width (`BatchingExact`, `SweepResponds`, `NoiseAlive`, `MixFits` in `PartsTypeOK`);
no key sticks and directions follow the screen (`NoStuckKeys`, `InputFollowsScreen`);
settings survive a kill, recent files are the latest, and full screen settles where the user asked
(`SettingsKept`, `FullscreenSettles`); idioms compute what they should
(`AluMatches`).

Bounds and why they are enough. `MaxSram` = 1: a write saved and one not saved
are told apart. `MaxStops` = 1 and `HoldFrames` = 1: a stop and a hold each happen
and end; they are reset only by what the runs exercise. `MaxBacklog` bounds how many
commands are queued when the user or the timer *acts*, not how many a callback
queues; with 1 a command of one callback is still queued while the next runs, which
is what the hazards need (`files` has three failure modes and two ROMs, `control` checks
liveness under most of the user's actions, and both use 0).
Two ROMs are what "another ROM's file" needs, and nothing tells one ROM from the
other, hence the symmetry of the safety runs. `RomSymmetry` is not used where liveness
is checked. Frames are 4 lines (2 visible: capture on the first, frame event behind
the third) instead of 159; instructions are longer than a line, so the carry
covers whole lines, as a GDMA burst does; string instructions reach `LongRep` with
three elements.

In `parts`: a ring of four samples (two stereo pairs) wraps, fills and pads; rates of
1, 3, 5 and 8 to 3 skip, copy and repeat pairs, with 2-bit samples in 5-bit products, which the
largest distances overflow at 8, as they do at 48 kHz;
a ring of 20 units, frames of 4 and a device that takes 0 or 1 a tick is a little
above the least ring `PacingHolds` allows, and a frame of 11 ticks is a stall longer
than the schedule catches up; chips of 3 and 5 words with 2 and 3
address bits have addresses past their end and owner words at the end; host times
are the ends of a minute, hour, day, month, leap February, year and century; address
spaces of 3 and 16 bytes wrap within a transfer; periods, sweep times and taps
reach zero and their maximum; two pads and two queued events are what a release
lost behind another event takes; three ROMs and a limit of two overflow the recent
list, and an edited file lists up to three, with repetitions (no definition tells one
path from another, hence `PathSymmetry`); scale and volume take values in and out of
their ranges; registers have 8 bits and limbs at both ends of their range. The proofs of
section 5 do not depend on any of these sizes.

Deadlock is checked in every run but `parts`, where a part may stop because its
program is over, a division panicked or a bound of its counters is reached.

Fairness. The worker polls its channel every 4 ms and never blocks, and a GUI
callback that runs goes on: weak fairness of `HandleCommand`, `StartFrame`,
`RunFrame` and `GuiStep`. The 4 ms timer fires whenever the GUI is free: a user who
opens dialogs again and again disables it again and again, but not for 4 ms at a
time for ever, hence strong fairness of the timer's exits `TimerOpen`, `TimerReset`
and `TimerFlush`, the last of which drains the events first. A tick returns early while
a dialog is open, an open or a reset is pending or a capture is armed. That an open or
a reset does not stay pending is the timer's doing and part of what is checked; that
the user ends dialogs and captures, if only to begin others, is a premise of `StopShown`
and `ProgressSaved` (`UserComesBack`), because a dialog left open for ever does suspend
the autosave. `ProgressSaved` excuses progress whose machine is gone before the
autosave: swapped (which `SwapLosesNothing` is about), lost with a worker thread that
died, or ended with the program. The user, the dialog, faults, timeouts and crashes
owe nothing. In `frames`, `drive_frame` is a loop of one thread: weak fairness of
each of its steps. A string instruction with CX = 0 reports no cycle; the run has none
with CX = 0 of the game's own, and weak fairness would say that a program does not
consist of these alone, so `FrameCompletes` says nothing of such a loop (every loop has
a jump that costs some cycles).

## 5. Proofs

`Frontend_proofs` proves, for any set of ROMs, any scenario, any channel length and
any number of frames: `TypeCorrect` (`[]TypeOK`), `SavesOwned` (`[]SaveFileOwner`) and
`StatesOwned` (`[]StateFileNotForeign`). Neither invariant is inductive: the code pairs
bytes it got from the worker with a path the GUI knows, and compares nothing. The
inductive invariant `IInv` says why they agree: every machine the worker holds or
will take from its channel runs the ROM whose path the files will be written for, or
is the BIOS, unless a swap queued behind it discards it (`MachinesCovered`); an
answerable request is the last command of the channel, so nothing overtakes it
(`LiveIsLast`); a reply the GUI holds belongs to that ROM (`ReplyOwned`). The
preservation proof has one lemma per action, grouped by what it does to the channel.

From the same invariant it proves, again for any constants:
`NeverFrozen` (`[]NoSilentFreeze`), `PauseShown` (`[]PausedMeansPaused`, of scenarios
without faulting games: `stale_stop` of section 6 is the counterexample with them),
`OutputsOwned` (`[]OutputsBelongToMachine`: the picture is the running machine's, every
queued sample leads to one of its samples, and at most one interval, the first behind a
change, leaves from the machine before) and `MachineMatches`
(`[]MachineMatchesPath`). Worker and window each keep a pause of their own; what can be
related is the pause the worker will be in once its channel is drained. Only a
`SetPaused` that is sent and a frame that faults change that, never a command that
is received, and `PauseInv` ties it to the window's (`PauseKnown`, `PauseKept`) and to
the resume a callback still owes (`ResumeOwed`).

From both it proves `HoldOnBios` (`HoldReachesBios`), for any constants and
failures: in the channel, a START hold meets the BIOS machine sent before it, because
nothing that changes the machine is queued in between (`BiosAt`); and `SwapsSaved`
(`SwapLosesNothing`), of scenarios without frame dumps, faults, timeouts and failed
writes (`Undisturbed`; section 6 has the counterexamples for the first two, and after
the others the code goes on without a save). What it received is the machine
as it still is, because the worker is paused behind an empty channel while the answer
is in hand (`Snapshot`); from there to the swap no queued command can run or change it
(`SwapSafe`). The worker may die and the program may be killed at any point.

`FrameDriver_proofs` proves, for any number and length of lines, any instruction
costs, thresholds and games: `TypeCorrect`, `CyclesNeverLost` (`[]CyclesConserved`),
`RewindsSound` (`[]RewindsOnlyItself`), `ShadowsHold` (`[]ShadowRespected`),
`SpritesWritten` (`[]SpritesAreOams`), `NeverTorn` (`NoTearing`), `TimerTrue`
(`TimerKeepsTime`) and, of programs without SCAS and CMPS, `MovesRepeatOnce`
(`[]RepeatsOnce`). The strengthening: only a line under way has
spent cycles and a frame begins at line 0 (`LinePhase`); an override an interrupt
could use is that of the instruction that just ran (`OverrideFresh` - a trap can
leave a stale one behind, but it also masks interrupts until an instruction clears
it); an open shadow is still counted and is never that of a string instruction
(`ShadowCounted`), which is why `service_pending_rep_irq_after_scanline_event` needs no
test of its own. `InstructionFacts` states once what every instruction guarantees.
For sprites (`SpriteInv`): behind the capture line the captured table is one the game
wrote, so what a loaded state lost is captured again before it is promoted. For
strings (`RepeatInv`): wherever the program stands behind a string instruction, or
will return to one, CX is zero (`Settled`). For the timer (`LapInv`): the lines of a lap
and what is left in the counter make up the period.

`Sound_proofs` follows a sample from the APU to the device.

* `RingImplementsQueue` (`RingSpec => RingIsQueue`): a refinement with the contents read
  off `head` and `len` as the queue. The capacity must be even (`RingAssumption`): a
  push cut short by a full ring would otherwise keep the left sample of a pair and
  drop the right one.
* `ResamplerKeepsTime` (`[]NoDrift`): the phase *is* the lead over the input's time.
* `PacingHolds` (`[]PacingKept`), for a ring of which a quarter holds a frame and what
  the device takes while the thread sleeps and emulates one, and frames that last the
  device as long as they may take to emulate (`RingLarge`): no frame but a dump
  overruns the ring, a primed ring never runs dry, and after any stall at most
  `MaxBurst` frames, each emulated in less than half a period, follow one another
  without a wait. `RaceInv` counts what such frames make up: every one at least half a
  tick more than half a period of lateness, and half a frame of samples, until the
  schedule is met and the low mark passed. The ring has 16384 samples, a frame at
  48 kHz about 1270, so the ring is large enough up to about 118 kHz; at 192 kHz a
  frame is larger than a quarter.
* `SweepKeepsMoving` (`[]SweepResponds`): the time without a step is bounded by what the
  two counters have left.
* `BatchesExact` (`[]BatchingExact`): the reference ticks a channel one cycle at a time
  and is a recursive function, so the proof is an induction over the cycles of a batch.
* `NoiseNeverStuck` (`[]NoiseAlive`): as long as the tap stays, a clear bit at or below
  the highest place the feedback looks at is shifted on until it is the feedback's
  turn, which then is clear (`NoiseInv`).
* `ResamplerInterpolates` (`[]Interpolates`), at any pair of rates: a sample is emitted
  only while the phase is at most the output rate, so the weight of the later pair is
  at most one and no product is larger than that of the whole distance; where that one
  fits (`StepFits`) none wraps, and division towards zero does not leave the interval
  (`LinesInv`). It is a condition on each step, not on the rates: at 48 kHz it holds of
  every two samples at most 44739 apart. Of a wider step nothing is claimed.
* `MixNeverClips` (`[](MixerTypeOK /\ MixFits)`): the widest sum of waves and voice fits 16
  bits whatever the latches hold, so without HyperVoice the clamp behind it never acts.

`Bus_proofs` has the devices.

* `EepromImplements` (`EepromSpec => EepromIsMemory`), a refinement for chips of any
  width and size, and `OwnerSpared` (`ConsoleSpec => WritesSpareOwner`), both from one
  lemma: a command does to a chip nothing or one step of a word memory.
* `SdmaStays` (`[]StaysOnBlock`), which with the types is inductive. The set of rates
  must not be empty.
* `BurstsCopy` (`BurstCopies`): the loop of a burst is a recursive function; `OneBurst`
  is the induction over its bytes, for source and target that wrap, overlap and go up
  or down.
* `SecondsCarry` (`SecondCarries`): each carry moves to the next second, day, month and
  year of the reference calendar, from any registers a game may have written.

`Desktop_proofs` has the desktop program's own state.

* `NothingStuck` (`[]NoStuckKeys`), for programs in which an armed rebind is always
  carried through (`~MayCancel`; `pad_stuck` of section 6 is the counterexample with
  one given up). The property speaks of an empty queue only; the invariant `PadsInv`
  accounts for every event in it: a queued press is of a button still down or is lifted
  behind it, and a held key is that of a button still down or cleared by the queue.
* `InputUpright` (`[]InputFollowsScreen`), for pictures of any size.
* `ScreenSettles` (`[]FullscreenSettles`): a transition that is pending is the one last
  asked for, and the settings follow the system otherwise (`ScreenInv`).
* `SettingsHold` (`[]SettingsKept`): the program runs with settings a load would not
  change (`InInterval`), the file holds them unless the last write failed (`FileKept`), and
  the recent list is in order and cut at the limit (`RecentKept`). Whatever list the file
  had, the ROMs opened since the start head it, the last first and each once, and nothing
  else is listed but what the file did; if that list repeated no ROM, as one the program
  wrote from an empty one never does, it counts as history and the whole list is that of
  the latest openings. `sanitised` only cuts a list, so repetitions in an edited file
  stand until the ROM is opened.
* `SettingsTyped` (`[]SettingsTypeOK`): the settings stay within their ranges and a running
  worker plays at their volume (`SafeInv`), of files whose volumes are numbers that are
  not negative, as the file's type has them.

`Cpu_proofs` proves `AluCorrect` (`[]AluMatches`), for registers of any width above four
bits (decimal adjustments at eight only), any operands and any programs. What an idiom
computes is a fact about several instructions and the flags between them, of which a
state shows the last only; the invariant `AluInv` therefore says that a run of the program
so far exists: a sequence of states, each the effect of one instruction on the one
before. An idiom's property then follows from that of its instructions, each a lemma:
carries and borrows (`AddFacts`, `SubFacts`), shifts (`ShiftFacts`), a rotation undone step
by step (`TurnUndone1`, `TurnUndoneAll`), masks bit by bit (`MaskLaws`), the decimal
adjustments (`AdjustFacts`), division with its remainder, unsigned and truncating
(`DivFacts`, `IDivFacts`).

`Parts_proofs` is about the composed model of `MCParts`. `PartsApart` says formally what
its comment claims: a behaviour in which one part runs is a behaviour of every part.
Hence `PartsHold`: every safety property that `parts` checks holds of it, for the rings
of `PacingHolds` and the rebinds of `NothingStuck`, which its instance satisfies.
`PartsTyped` (`[]PartsTypeOK`) has an invariant of its own (`PartsInv`): the part that
runs keeps its registers, counters, files and keys in range.

`Arithmetic` holds what these share: quotients and remainders, and induction.
The library's induction theorems take an operator, which no installed prover can
instantiate; stated of a set of numbers (`InductionSet`, from the well-foundedness of
finite sets) induction is a fact like any other, and `Iteration` and `Traversal` derive
from it that a recursive function over 0 .. n has the values its equation says.

Assumptions used: those named in the modules (`CartAssumption`, `CostAssumption`:
instructions and interrupts cost at least one cycle, `LineAssumption`: at least two
visible lines and one more, `BaseAssumption`, `GameAssumption`, `RingAssumption`,
`EepromAssumption`, `RtcAssumption`: the host's clock gives bytes, and so on), and those
a theorem states itself (`PauseShown`, `SwapsSaved`, `MovesRepeatOnce`, `PacingHolds`,
`NothingStuck`). TLC evaluates the former in the passing runs, whose instances
satisfy the latter.

Only model-checked: liveness (`StopShown`, `ProgressSaved`, `RequestsReturn`,
`ShutdownCompletes`, `FrameCompletes`, `HaltWakes`), because the prover has neither
fairness nor ENABLED, and the properties of section 6's runs, which are false of the
code or, like `NoStuckKeys` with `MayCancel`, of the scenario of the run. Every
invariant and action property of a passing run is proved. No module declares a RECURSIVE
operator or uses bitwise ones: `Bitwise` in `CpuAlu` is a recursive function, because the
provers can reason about it.

## 6. Disagreements found

Each of the first six has a run that shows it.

* `dump_swap`: a frame dump requested before a ROM change lets the frozen machine run
  between its last save and its replacement, against the comment at `main.rs:1097`.
* `stale_stop`: a `Stopped` event carries no machine, so the stop of a replaced
  machine marks its successor paused while it runs. A ROM change made then skips the
  freeze, and what the game writes between its last save and its replacement is lost.
* `scan_rewound`: an interrupt behind a long REP SCAS or CMPS that ended on its
  condition rewinds it all the same; after the handler it scans on past the match.
* `masked_irq`: `pending_irq` delivers a source that was latched and then disabled,
  against its comment. (`on_vblank`'s comment "always enabled" is likewise not what
  its body does; no run is spent on it.)
* `pad_stuck`: while a rebind is armed, `poll_capture` swallows releases and
  disconnections; if the rebind is then given up, the button released meanwhile stays
  held for the game, against `gamepad.rs:46-48`.
* `idiv_overflow`: the least dividend divided by -1 overflows Rust's own division
  before the range test, and panics instead of raising INT 0 (`alu_ops.rs:171-172`).

Met while modelling, not run:

* `AudioProducer::clear` empties the ring "so the previous game's trailing audio does
  not bleed into the next one" (`stream.rs:144-146`), but leaves the resampler its last
  sample: the first samples of the next machine are drawn from the old one's
  (`OutputsBelongToMachine` allows that one interval and no more).
* `resample.rs:75`: `delta * numer` overflows `i32` for a step of more than 44739 at
  48 kHz; `Interpolates` is stated of the steps whose product fits.
* `push_recent` removes earlier occurrences "so the list stays duplicate-free"
  (`config.rs:185-188`); an edited file's list with repetitions is loaded as it is.
* A torn `.sav` is taken for save RAM as far as it goes (`load_save_data`): the rest of
  the game's save is lost at the next start, and the autosave makes that final.
* A stopped line timer whose counter was left at 1 fires once more (`bus/mod.rs:322`);
  `TimerKeepsTime` is about timers that run.
* `apu/mod.rs:18-20` says that the noise register steps every 2048 - pitch ticks while
  channel 4 and noise mode are enabled; it steps every 2049 - pitch ticks, whenever its
  gate is open. Likewise a sweep interval is 8193 cycles, its constant says 8192.
* The speaker mix adds left and right and can clip; `tick_wave_only` mixes the held
  sample of a channel that was switched off.
* A noise tap changed without a reset can leave the register all ones, which its
  feedback keeps for ever; `NoiseAlive` is stated of games that reset it.
* The owner data of the internal EEPROM is protected on the write control only: erases
  through 0x40 and the short commands reach it (`WritesSpareOwner` says so).
* A GDMA burst stopped at the SRAM window leaves its registers mid-way (`BurstCopies`
  says where); a sound transfer cannot be stopped with colour mode off.
* A scale change while a title-bar full-screen transition is not reconciled restores
  the old state; a full-screen request the system refuses leaves `pending_fullscreen`
  set.
* A launch that finds a torn settings file writes the defaults over it.
* Two ROM files of one name in different directories, or whose names differ only in
  characters that `file_name_for_rom` replaces by `_`, share a `.sav` and a `.state`.
* A ROM whose size is no power of two is mapped by a remainder of its size
  (`read_rom_ex`), so the CPU's reset vector at 0xFFFF0 does not fall on the footer,
  which the header parser takes from the file's end (the mapper is not modelled).

## 7. Not modelled

`PROJECT.json` gives the reason per component. Data the properties do not look at:
pixels and colours of the PPU's layers, waveforms read from work RAM and the APU's
sample buffer, addressing modes, moves and cycle counts of the CPU, the format of
save states and of the settings file, device sample formats and volume. State
without interaction: alarm and status values of the RTC and its `load_state`, plain
port storage and the memory map, the key matrix, models and profiles, the FPS counter.
Sampled afresh and therefore without history: gamepad sticks and the keyboard. Not
yet modelled: the cartridge's bank arithmetic, the instant a DMA's wait cycles are
charged, a state loaded while START is held for the BIOS, and what the worker does
between the last save and `Shutdown` when the window is closed. Hazards without a
property are these three, a device that drains faster than real time (those of
`AudioPacing` do not), a loop of string instructions without work, the stopped timer and
the erases of section 6. Window mark-up, logging, benches and packaging have no
state that interacts with the rest.
