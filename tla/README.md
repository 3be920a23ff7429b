# A verification of GBemu

TLA+ models of the parts of this Game Boy emulator that are driven by order and
timing, TLC configurations that check them on small instances, and TLAPS proofs of
their main properties for every value of the constants. Paths are relative to the
repository's root. `PROJECT.json` has the exact map from definitions to source lines,
the hazards, the runs with their mutants, the findings and the list of theorems.

    tlc -config MCTimer.cfg MCTimer.tla        # one run
    tlapm TimerProofs.tla                      # one module's proofs

Definitions whose comment says "Mutant of X" are wrong versions of the definition X.
No specification uses one: put in X's place, it must make a property fail.

## 1. The system

The emulator is one process with one thread of control. `GBEmulator::run`
(`GBEmulator.inc`) loops: while a game is loaded it calls `MainLoop::run`, which
executes one CPU instruction; after each completed frame it presents the frame and lets
the window handle its events. Every machine cycle of every instruction goes through
`CPU::tick` (`cpu/cpu.inc`), which ticks the timer, the PPU, the APU, the memory controller and
the interrupt countdown in turn. "Concurrency" here is this interleaving: the
program's memory accesses fall between two ticks, and each component sees them in an
order nobody chose. A save state is taken in the window's events, so between two
instructions and, with the LCD on, at the end of a frame.

| Component | State it keeps | Operations | Talks to |
|---|---|---|---|
| Timer (`cpu/clock.*`) | internal clock, TIMA, TMA, TAC, a reload that waits | tick; writes to DIV, TIMA, TMA, TAC; save, load | requests the timer interrupt; clocks the APU's frame sequencer |
| Interrupts and instruction loop (`cpu/interrupt_controller.*`, `cpu/cpu.inc`, `cpu/program_counter.inc`) | IME, the countdown of EI, HALT state, IF, IE | EI, DI, RETI, HALT; check and dispatch before every instruction; fetch | every device through IF; memory (the pushed PC) |
| PPU state machine (`ppu/ppu.cpp`) | mode, LY, cycles in the mode, penalty, window line, STAT line, postponed interrupt | tick; writes to LCDC, STAT, LY, LYC; save, load | requests VBlank and STAT interrupts; asks whether the CPU is halted; ends frames for the main loop |
| PPU memory and OAM DMA (`ppu/ppu_memory.cpp`, `ppu/oamdma.h`) | OAM, VRAM, a vector of up to four transfers | tick; write to FF46; program access | reads the bus through a callback |
| Rendering (`ppu/game_screen.*`, `object_attributes.*`, `palette.h`) | pixels, objects of a line | draw a line | adds penalties to mode 3 |
| Cartridge (`memory/bank_registers.*`, `memory/memory_controller.*`) | bank registers, pointers to banks, RAM banks, dirty flag, tick counter | program writes; tick (saves RAM); load a state | the RAM file |
| ROM loader (`rom/rom_loader.*`) | bytes of the ROM, boot ROM and RAM file | load; questions about the header | constructs the memory controller |
| Session (`GBEmulator.*`, `main_loop.cpp`, `data_structures/save_state.h`) | path, name and loader of a ROM, the machine, the boot ROM's path | open, restart, set boot ROM, save, load, quick save, quick load | everything: it constructs and serialises the machine |
| Joypad (`joypad/joypad.cpp`) | latched button edges, JOYP | update, write to JOYP | requests the joypad interrupt |
| APU (`apu/`) | channels, length counters, sweep, envelope, power, frame sequencer | tick, sequencer step, register writes and reads | clocked by the timer; samples to the window |
| Audio output (`apu/dac.*`, `apu/mixer.*`) | filters, sample buffer | mix, generate | the window |
| Instruction set (`cpu/instructions/`) | CPU registers, flags | decode, execute | memory bridge, interrupts |
| Memory bridge, registers, bus (`memory/memory_bridge.h`, `memory/hardware_registers.h`, `bus.h`) | a compile-time table of handlers; the I/O page | read, write | dispatches to every component |
| Window and platform UI (`SDL/`, `mac_main/`, `windows_main/`) | SDL objects, menus | events, dialogs, audio queue | calls the session |
| Tests and scripts (`test/`, `script/`) | none | run ROM images | the whole emulator |

What is hard in it, and what would make each component correct:

- **Timer.** One rule (TIMA counts falling edges of a multiplexed bit, a wrap is
  answered one cycle later) is spread over `tick`, `write_div` and `write_tac`, with two flags
  between them. Correct: every order of ticks and writes counts what the rule counts; the
  interrupt never stops coming; the APU's clock never stops.
- **Interrupts.** EI's delay is one instruction but is counted in machine cycles; a
  dispatch pushes PC, perhaps over IE or IF, between reading them; HALT with a pending request
  fetches one opcode twice. Correct: the delay is one instruction for every sequence;
  a dispatch serves the best source and acknowledges it; a halted CPU wakes.
- **PPU.** The STAT line is a cache refreshed by hand in many handlers; the LCD may
  be switched at any cycle; lines drop or carry cycles at mode changes. Correct: the cache is
  coherent and no rise is lost; lines have constant length; frames keep ending.
- **OAM DMA.** Transfers overlap in a fixed-size vector. Correct: the last one wins; OAM stays
  hidden; the vector drains.
- **Cartridge.** Bank pointers cache the registers; RAM is saved lazily, in place,
  and the process may die at any time. Correct: the pointers are current; RAM that has settled
  survives.
- **Session.** Four fields describe "the current game" and change one by one, some of
  them when an open fails. Correct: what is saved together belongs together.
- **Joypad.** Presses are latched until their row is selected and spent when it is; the
  window publishes a union of three devices, one of which can be unplugged; a new game or a
  loaded state replaces the joypad but not the window. Correct: what a program reads is what
  is held; one interrupt per press; nothing stays stuck.
- **APU.** A channel is turned on and off from eight places; length counters clock at
  once in the wrong half of the sequencer's period; the sweep checks every frequency twice;
  power-off and loading replay register writes. Correct: NR52 tells the truth; sounds with
  a length end; a channel that is on can be heard.
- **Instructions.** About 500 table entries made of a few operators and operands that tick,
  move PC or HL and read memory as they are taken. Correct: results and flags are those of exact
  arithmetic; the stack gives back what was put on it; accesses fit into the cycles.

The hazards of `PROJECT.json` list these at their lines.

## 2. Modules

| Module | Models | State and actions |
|---|---|---|
| `Timer` | `cpu/clock.cpp` | One action per handler (`Tick`, `WriteDiv`, `WriteTima`, `WriteTma`, `WriteTac`) and the CPU's `Acknowledge`. `MayWrite` is the environment: between two ticks an instruction writes at most two bytes, at adjacent addresses. |
| `EdgeTimer` | its abstract specification | The clock is hidden; a signal falls, a counter counts, a reload follows. `Timer` implements it with `signal` = enable bit and selected clock bit. |
| `Interrupts` | `cpu/interrupt_controller.*`, the loop of `cpu/cpu.inc` | An instruction is cycles, one effect, cycles; the devices may request in each cycle (`Cycle`). `CheckOnly` and `Dispatch` are the two outcomes of `service_interrupts`. `armed` and `shadowHalt` are history: what the instruction set says of EI. |
| `Ppu` | `ppu/ppu.cpp` | `Tick` is the disjunction of the mode changes (`EndSearch`, `EndTransfer`, `EndFirstHBlank`, `NextLine`, `EnterVBlank`, `VBlankLine`, `EndVBlank`) and `Stay`; the writes are `WriteStat`, `WriteLy`, `WriteLyc`, `LcdOn`, `LcdOff`. The record `io` holds STAT, LY, LYC and the interrupt outputs, because `stat_write` and its callers compute on them together. Drawing is its penalty and its effect on the window counter. |
| `Raster` | its abstract specification | A beam that moves over lines of constant length; only the line after switching on is special. |
| `OamDma` | `ppu/oamdma.h`, `ppu/ppu_memory.cpp` | `DmaTick` steps all transfers and erases the one that ends; `Start` is a write to FF46, which exits the process when the vector is full; `WriteOam` is a program store. A byte of OAM is the page it came from. FF46 moves pages from FE up elsewhere (`ppu/ppu.cpp:403`), so no page is OAM itself. |
| `Cartridge` | `memory/bank_registers.*`, `memory/memory_controller.*`, RAM file of `rom/rom_loader.cpp` | One action per register; `WriteRam`; `Tick` with a save that succeeds or fails; `Open` (restart or new process), `KilledInSave`, `LoadState`. A RAM bank is one value. |
| `Alu` | `cpu/instructions/flag_ops.h`, the operators that compute a byte or word | Constant operators: a value and flags in, a value and flags out. |
| `Instructions` | the tables of `instruction_decoder.inc`, `operand.inc`, `operator.inc`, `memory/stack.inc` | One step is one instruction; an action per family of opcodes, decoded by the opcode's octal digits. PUSH and RST push two bytes (`PushBytes`), CALL a word (`Push16`), as in the code. `last` counts ticks and accesses; memory is an array. `pushed` is history. STOP asks the interrupt controller for a mode it does not implement (`stop()` is empty), so a run goes on behind it; behind HALT it does not, since waking up is in `Interrupts`. |
| `Apu` | `apu/apu.cpp`, channels, length counters, sweep, frame sequencer | One action per register (`WriteSweep`, `WriteLength`, `WritePower`, `WriteFrequency`, `WriteNoise`, `WriteControl`), `PowerOff`, `PowerOn`; `Tick` is a machine cycle and `SequencerTick` one in which the sequencer steps first; `Reload` saves and loads. A channel is a record. A cycle holds at most two writes, to neighbours (`open`): `LD (nn),SP` and `push_16` do not tick between their bytes. |
| `MemoryBridge` | `memory/memory_bridge.h`, `memory/detail/memory_bridge_components.h` | No state: the lists of address ranges, which rows of a list match an address (`FirstRows`, `ReadRows`, `WriteRows`), who answers a read (`Reader`) and who hears of a write (`Writers`). |
| `Joypad` | `joypad/joypad.cpp`, `SDLWindow::handleEvents` | The main loop's phases; `Update` before an instruction, `WriteJoyp`, `WriteIF` or `Other` as the instruction, an action per kind of event, `OpenRom` and `QuickLoad` from a shortcut. `seen` is history: presses that JOYP has shown. |
| `Session` | `GBEmulator.inc` | `OpenRom` (may fail), `Restart`, `SetBootRom`, `Save` (may be cut short), `QuickSave`, `Load`, `QuickLoad`, `Quit`. A machine is the ROM it plays. |

The modules `MCTimer`, `MCInterrupts` and so on give the constants values for TLC.
`TimerProofs`, `InterruptsProofs`, `PpuProofs`, `CartridgeProofs`, `SessionProofs`,
`InstructionsProofs` (which also proves about `Alu` and `MemoryBridge`), `ApuProofs` and
`JoypadProofs` hold the proofs; those of `OamDma` are in `PpuProofs`, beside the PPU that ticks it.

Where a model allows more than the program can do: `Ppu` lets writes follow one another
without a tick; `Interrupts` lets every device request in every cycle; `Session` lets any open
fail; `Apu` lets the sequencer step in any cycle; `Joypad` lets a loaded state hold any JOYP
and IF. Properties that hold of the models then hold of the code too.
Where one allows less: `Apu` writes to one channel in a behaviour, whichever it is, besides the
master switch. The channels share the master switch and the sequencer, which it keeps, and
a state that is loaded is the one saved last.

## 3. Runs

| Run | Instance | What it asks |
|---|---|---|
| `timer` | 5-bit clock, 2-bit TIMA and TMA, three frequencies in the code's order | `PendingReadsZero`, `ReloadMirrorsTma`: what the program reads around a reload. `CountsFallingEdges`: `Timer` implements `EdgeTimer`. `KeepsReloading`, `SequencerKeepsRunning`. |
| `interrupts` | three sources, ordinary instructions of 1 to 3 cycles | `DelayIsOneInstruction`, `HaltBugLeaksOnlyBehindEI`, `DispatchServesBest`, `HaltEnds`, `EnabledRequestIsServed`. |
| `ppu` | two lines on the screen and two in VBlank, 10 cycles each, 2 per tick | `StatLineCoherent`, `RisingLineRequests`, `PostponedOnlyInHBlank`, `ModeMatchesLine`, `RunsLikeRaster`, `FramesKeepComing`. |
| `ppu_window` | the same, with a larger window counter | violated: `FrameStartsWindowAtZero`. |
| `oamdma` | OAM of 5 bytes, 3 transfers at a time, 2 pages | `LatestCopyIntact`: what the last transfer copied stays, hidden from the program and the older transfers. `ExitNeedsBurst`, `TransfersEnd`. |
| `instructions` | all opcodes on edge values; all decimal bytes with nine others; nested calls and pushes at three stack pointers | `PopsReturnPushes`: what PUSH, RST and CALL stored, POP and the returns find, through nesting and a stack pointer that wraps. `OneAccessPerCycle` (totals of an instruction only), `DecimalArithmetic`. Before it starts, the assumption `BridgeChecked` evaluates `OneReader`, `SameHoles`, `StoredBeforeNotified`, `EchoIsWorkRam` and `OwnersAreAsked` at all 65536 addresses. |
| `apu` | lengths of 2 to 4, 2-bit frequencies, sweeps off, up and down | `StatusIsTrue`, `MutedOnlyByLastTick`, `LengthEndsSound`. |
| `joypad` | four buttons, two controllers, one axis | `JoypIsCurrent`, `NothingStuck`, `InterruptPerPress`. |
| `cartridge` | MBC1, MBC5 and MBC2, 3-bit bytes, 2 RAM banks, a save every 2 ticks, a counter of 5 values | `MapIsCurrent`, `SurvivesRestart`. |
| `cartridge_battery` | the same | violated: `BatteryRamIsSaved`. |
| `session` | three ROMs, two of which share a name, one state file of the user's | `SavesAreTrue`. |
| `session_boot` | the same | violated: `BootRomRestartsCurrent`. |

Every passing run also checks the module's `TypeOK` (`DmaTypeOK` in `oamdma`).

**Bounds.** Widths are cut, structure is not. The timer's clock is wide enough for
three different bits, so that a TAC write can move the signal either way, and narrow
enough to wrap; TIMA wraps in four edges. Interrupt sources matter through their order
and through being several: with three, a best, a middle and a last exist. The PPU's
lines need a first and a last line on either side of VBlank, and its cycles keep the order of
the code's constants; the penalty of the window is no multiple of a tick, so that
cycles are dropped and carried as in the code. A transfer of OAM overlaps with two
others, and a fourth start can meet a full vector. The MBC5 cartridge has more ROM banks than
its mask has values, as 512 banks have in the code, and the interval is no divisor of
the tick counter's range, as 20000 is none of 2^32. Two ROMs of one name (`x.gb`, `x.bin`)
share a quick save file; a third has its own. The APU's lengths are long enough to run
out, to be one short and to be reloaded in either half of the period, and differ, and a 2-bit
frequency overflows within two steps of the sweep. Each row of the joypad has two
buttons, of which the keyboard and the controller share one, and the axis leans on the two of
the d-pad; with two controllers one can be attached and not in use.
Unbounded counts are cut in the
models: a run of `Instructions` ends after seven of them (nested pushes, calls and
returns need six); `since` at `Interval`, `gap` at `LongGap`, `before` by `MaxBefore`.

**Fairness.** `MainLoop::run` executes instructions without end, and every
instruction ticks, so each specification with liveness is fair to its tick (`Interrupts`: to
its next step). The program's own writes are never fair. `KeepsReloading` and
`SequencerKeepsRunning` therefore say what they assume of the program: that it stops
meddling. A halted CPU still ticks. `Apu` is fair to `SequencerTick`, which is what
`SequencerKeepsRunning` gives unless the program resets the divider without end;
`LengthEndsSound` speaks of a program that has stopped writing. `Session` claims no liveness, and the user may always
do nothing.

**Deadlock** is checked, except in `oamdma`, where a fifth transfer ends the process,
in `joypad`, where the player may quit, and in `instructions`, whose runs end with a crash, HALT
or their bound.

### Findings

1. `ppu_window`: "Reset window line counter for next frame" (`ppu/ppu.cpp:337`)
   happens only on the way into VBlank. A frame cut short by switching the LCD off
   leaves its count to the next frame.
2. `cartridge_battery`: `has_battery` knows the MBC2 battery as code 9
   (`rom/rom_loader.cpp:11`), `rom_type` as code 6 (`rom_loader.cpp:23`). An MBC2
   cartridge's RAM is never saved, though the README promises RAM saving.
3. `session_boot`: "Restart the current ROM if one is loaded" (`GBEmulator.inc:230`)
   restarts the ROM opened last, which is another one when a state was loaded since.

Four more disagreements showed while modelling or proving and have no run of their own:

- ADD SP,e and LD HL,SP+e set the half carry for every negative offset that is a multiple of 16
  (ADD SP,-16, say), although no nibble carries: the comparison at `flag_ops.h:78` takes a nibble that
  did not change for one that went around. The branch for the other offsets (`flag_ops.h:76`) adds the
  nibbles, and sets no half carry for ADD SP,16. The carry flag is found by the same comparison on
  bytes and is right, since none of -128 to -1 is a multiple of 256. `AddSpFlags` says this for every
  stack pointer and offset.
- "Save the length counter bits" and "Restore the length counter bits"
  (`apu/apu.cpp:103`, `apu/apu.cpp:114`): the registers read as ones there
  (`audio_registers.h:110`), so that power-off leaves every counter one tick, whatever its length was.
- A loaded state triggers every channel while the APU is on (`apu/apu.cpp:137`), because the
  trigger bit, too, reads as one; sounds start that were not playing.
- A channel that is triggered by the write that also enables its counter, in the late half of the
  period and with one tick left, is on in NR52 and cannot be heard
  (`length_timer.h:23`); `MutedOnlyByLastTick` says that nothing else mutes one.

## 4. Proofs

All proofs are for every value of the constants that the named assumptions
(`TimerAssumption`, `InterruptsAssumption`, `PpuAssumption`, `CartridgeAssumption`,
`SessionAssumption`, `ApuAssumption`, `JoypadAssumption`, `OamDmaAssumption`,
`InstructionsAssumption`) admit; the code's values satisfy them, save for the cartridges
named below. TLC evaluates the assumptions in the runs.

- **TimerProofs**: `TypeCorrect`, `PendingReadsZeroAlways`, `ReloadMirrorsTmaAlways`,
  `ImplementsEdgeTimer`. Besides the types, the invariant (`QuietWhilePending`) says
  that a pending reload implies a wrapped, hence zero, TIMA and a low signal, so that
  no write before the next tick can count a second edge. The refinement maps each handler to one step of `EdgeTimer` or to a stutter.
- **InterruptsProofs**: `TypeCorrect`, `DelayIsOneInstructionAlways`,
  `HaltBugLeaksOnlyBehindEIAlways`, `DispatchServesBestAlways`. The delay's property speaks of instruction
  boundaries only. In between, the invariant `Countdown` bounds the countdown by what is
  left of the instruction (`armed = "on"`), or fixes it one beyond (`armed = "shadow"`);
  `Shape` says what instructions look like. That a dispatch serves the best source is a property
  of steps; it needs only the types, since IF and IE are read anew behind the push.
- **PpuProofs**: `TypeCorrect`, `StatLineCoherentAlways`,
  `PostponedOnlyInHBlankAlways`, `ModeMatchesLineAlways`, `RisingLineRequestsAlways`,
  `ImplementsRaster`. The
  invariant has a part for the STAT record (`StatInv`: coherence, and the place of a
  postponed interrupt, which needs that STAT shows HBlank whenever it can be postponed)
  and one for time (`Clockwork`: how far each mode can have run, which line it is
  on). The lemmas about `Fire`, `Drive`, `Compare`, `SetMode` and `SetLY` follow the
  functions of `ppu.cpp`. For the refinement, each mode change is one step of the beam;
  the penalty that mode 3 adds is the one that HBlank gives back.
  `RisingLineRequests` is an action property: the relation `Follows` between two STAT records is kept by
  each function and is transitive, so a handler that calls several of them keeps it too.
- **PpuProofs**, for `OamDma`: `DmaTypeCorrect`, `LatestCopyIntactAlways`, `ExitNeedsBurstAlways`. The
  invariant (`DmaInv`) measures a transfer by its ticks (`Progress`). Older transfers have more of them
  (`DmaOrder`), so only the oldest can end, which is what makes the erasure of one enough; it copies
  if any does; and a byte the youngest has written, the others have behind them. If the starts were
  spaced, each transfer is `SafeGap` ticks ahead of the next one (`DmaSpacing`), so the oldest has
  ended before the vector fills: `MaxCount * SafeGap >= WaitCycles + Size`.
- **CartridgeProofs**: `TypeCorrect`, `MapIsCurrentAlways`, `SurvivesRestartAlways`.
  `SavedSoon` is the strengthening: a bank in which the file lags behind was written within
  `Window`, the ticks since the count that last allowed a save, and RAM is dirty. The lemmas
  before it are about remainders, with which masks and the interval are modelled.
- **SessionProofs**: `TypeCorrect`, `SavesAreTrueAlways`. `Agreed` is the
  strengthening: as long as there is a loader, the machine, the header and the name
  are one game's. It is the reset of `loader_` in a failed open that keeps it.
- **InstructionsProofs**: `AddIsExact`, `SubIsExact`, `AddSpFlags`, `DecimalSum`,
  `DecimalDifference` say of the operators of `Alu`, for all operands, what their results and flags
  mean (of `AddSpFlags`: the carry is exact, the half carry is but for the negative multiples of 16 above);
  `BusThm` is `OneAccessPerCycle`. The arithmetic is linear once a byte is split into
  its digits; the decimal theorems are proved by cases on the digits' carries.
  `InstructionsTypeCorrect` has a lemma per family of opcodes.
- **InstructionsProofs**, the stack: `PopsReturnPushesAlways`, and what it rests on: `PushesAgree` (two
  `push_8` and one `push_16` leave the same memory and pointer, for any word, pointer and memory) and
  `StackHoldsPushesAlways` (what is not yet popped lies at SP). The invariant (`StackInv`) adds to
  the latter that every pushed byte lies in memory that stores (`PushedBytes`). That a further push cannot come
  round to the oldest byte follows from `Ram # Word`: an address that drops writes stands
  in the way (`StackFits`). Below 8000 a store reaches the bank registers only (`OwnersAreAsked`).
- **InstructionsProofs**, two instructions: `DecimalArithmeticAlways`. The property speaks of the state two
  steps behind the start, so the invariant (`DecimalInv`) says by the number of instructions left what
  has been computed: nothing, the sum with its carries, the adjusted sum. Then
  `DecimalSum` and `DecimalDifference` are the facts it needs.
- **InstructionsProofs**, the bridge: `OneReaderThm`, `SameHolesThm`, `StoredBeforeNotifiedThm`,
  `EchoIsWorkRamThm`, `OwnersAreAskedThm`. The lemmas `FirstRowsAre`, `ReadRowsAre`, `WriteRowsAre` give for each
  row the addresses it matches; the rest is comparison of these ranges.
- **ApuProofs**: `TypeCorrect`, `StatusIsTrueAlways`, `MutedOnlyByLastTickAlways`. The
  invariant adds to the types that a channel that is on has length left (`Fit`), so that no tick
  can find one expired; that each channel's bit is honest or the channel is dark and the
  boot value stands; and that nothing is on without the master switch (`Silent`). Each operation
  on a channel keeps these (lemmas `...Step`), so actions only combine them; the lemmas
  `...Mute` follow `should_play_` through them in the same way.
- **JoypadProofs**: `TypeCorrect`, `JoypIsCurrentAlways`, `NothingStuckAlways`,
  `InterruptPerPressAlways`. That the latches are exactly the held buttons JOYP has not shown
  (a part of `TypeOK`) is what the interrupt's property needs.

Every safety invariant and action property of the passing runs, and both refinements, are thus
proved. Only model-checked are the liveness properties (`KeepsReloading`, `SequencerKeepsRunning`,
`HaltEnds`, `EnabledRequestIsServed`, `FramesKeepComing`, `TransfersEnd`, `LengthEndsSound`), which
need fairness and `ENABLED`. The three violated properties are refuted by TLC.

## 5. What is not modelled

- Pixels, palettes and object selection; waveforms, envelopes, the LFSR, the mixer, audio filters
  and buffers: arithmetic without control state. What drawing adds to mode 3 is in `Ppu`. The
  gating of wave RAM by channel 3's read position is left out with the waveform.
- The place of ticks inside an instruction: `Instructions` counts them; `Interrupts` and the
  devices' models interleave with cycles, not with named instructions. `OneAccessPerCycle` compares totals,
  so an access that moved to another cycle of its instruction would go unnoticed.
- Sessions behind a damaged state file: a truncated load leaves fields as they were
  (`save_state.h:136`) in a machine that has been replaced already. `Session` lets it happen (`hurt`), and
  `SavesAreTrue` says nothing of what follows.
- What lies behind the memory bridge, in `Instructions`: it has a plain memory whose other
  addresses read as FF and drop writes. The bridge answers a read of FEA0 to FEFF with a null pointer
  (`SameHoles`), which the reader follows; and a 16-bit operand that straddles two regions is
  read past the end of a host array. In the model both are ordinary reads.
- Presses that come and go between two polls: the model has them, and the game does not see them.
- Save and load inside the machine, except for the cartridge and the APU. A reload of the timer
  that waits is lost in a save (`Timer::serialize` writes the clock alone), as the
  hazards note; no property claims otherwise.
- Cartridges with more RAM banks than the four of `ramBanks_`, and MBC5 cartridges without RAM,
  whose program may address a bank that is not there: the code's behaviour is undefined, and
  `CartridgeAssumption` excludes them. `MapIsCurrent` does not ask that all 512 banks of
  the largest MBC5 be reachable, which the byte-wide mask prevents.
- A user who saves a state over another game's quick save file. `Saves` and `Names` are
  disjoint.
- The process is modelled as one controller at a time. `CPU` keeps one lambda in a static
  variable (`cpu/cpu.inc:58`) that outlives it; it works because the next CPU
  takes the same storage, which TLA+ does not see.
- Windows, menus and dialogs, logging, frame pacing.

## 6. Plan

Done, in this order: `Timer` with `EdgeTimer`; `Interrupts`; `Ppu` with `Raster`; `OamDma`;
`Cartridge`; `Session`; `Alu` and `Instructions`; `Apu`; `Joypad`; `MemoryBridge`; the proofs of all of
their safety properties.

What would come next:

1. A composition of `Timer`, `Interrupts` and the joypad's request, for whether an
   interrupt requested in a given cycle is dispatched at the boundary after it.
2. The selection of ten objects of a line and their penalty, and the channels' frequency
   timers, whose 16-bit refresh values wrap, each against a reference definition.
3. Saving and loading a running timer and PPU: which of the unsaved fields can differ.
4. That `Instructions` reads and writes through `MemoryBridge`: its `Ram` as the addresses with a reader.
