---------------------------------- MODULE Apu ----------------------------------
(***************************************************************************)
(* The APU's control: the master switch, the frame sequencer, the four     *)
(* channels' on/off state with their length counters and DACs, channel 1's *)
(* frequency sweep, and what a saved state brings back.                    *)
(*                                                                         *)
(* A channel is a record: "on" is ChannelBase::enabled_, "bit" its bit of  *)
(* NR52, "dac" its DAC's power, "timer", "en" and "play" the length         *)
(* counter's timer_, enabled_ and should_play_.  The waveforms, envelopes,  *)
(* wave RAM and mixer are left out: nothing below depends on them.          *)
(*                                                                         *)
(* The program drives one channel of its choice ("voice") and the master   *)
(* switch; a cycle (CPU::tick) follows each of its writes, except that a    *)
(* 16-bit store or push_16 writes two neighbours in one cycle ("open").     *)
(* A saved state is loaded where it is saved: what a load leaves depends on *)
(* the saved bytes alone, so a later load of them leaves the same.          *)
(***************************************************************************)
EXTENDS Integers

CONSTANTS
  Base,             \* BASE_LENGTH of each channel's length counter (64; 256 for channel 3)
  LowRange,         \* values of a frequency's low register (256)
  HighRange,        \* values of its high bits (8)
  SweepReload,      \* SWEEP_TIMER_RELOAD (8)
  SweepSettings     \* bound: what the program writes to NR10

Channels == 1 .. 4
ChannelRegisters == 0 .. 4                   \* NRx0 .. NRx4, at the voice's addresses
NR52 == 22                                   \* FF26, next to none of them in use
Registers == ChannelRegisters \cup {NR52}
MaxFrequency == (LowRange * HighRange) - 1
Frequencies == 0 .. MaxFrequency
Settings == [pace : 0 .. 7, negate : BOOLEAN, shift : 0 .. 7]     \* NR10
NoSweep == [pace |-> 0, negate |-> FALSE, shift |-> 0]

ASSUME ApuAssumption ==
  /\ Base \in [Channels -> Nat] /\ \A c \in Channels : Base[c] > 1
  /\ LowRange \in Nat \ {0} /\ HighRange \in Nat \ {0} /\ SweepReload \in Nat \ {0}
  /\ SweepSettings \subseteq Settings

VARIABLES
  master,           \* master_enabled_
  step,             \* the frame sequencer's next step
  chan,             \* the channels
  power,            \* what NRx2 (NR30 for channel 3) reads back: DAC on
  sweep,            \* channel 1's Sweep and its frequency
  open,             \* the registers that may be written in this cycle
  stale,            \* NR52 still claims channel 1, as the boot values do
  voice,            \* the channel the program plays on
  quiet             \* the program has stopped writing

vars == <<master, step, chan, power, sweep, open, stale, voice, quiet>>

-----------------------------------------------------------------------------
(* One channel *)

\* Mutant of Disable: NR52 is left alone.
DisableSilently(ch) == [ch EXCEPT !.on = FALSE]

Disable(ch) == [ch EXCEPT !.on = FALSE, !.bit = FALSE]
EnableChannel(ch) == [ch EXCEPT !.on = TRUE, !.bit = TRUE]
Fresh == [on |-> FALSE, bit |-> FALSE, dac |-> FALSE, timer |-> 0, en |-> FALSE, play |-> FALSE]

\* LengthTimer::tick; the last tick turns the channel off.
LengthTick(ch) ==
  CASE ch.timer = 0 \/ ~ch.en -> ch
    [] ch.en /\ ch.timer = 1 -> [Disable(ch) EXCEPT !.timer = 0, !.play = FALSE]
    [] ch.en /\ ch.timer > 1 -> [ch EXCEPT !.timer = @ - 1]

\* next_step_is_length_counter is false: the sequencer has clocked the lengths.
Late == step % 2 = 1

\* Mutant of LengthEnable: enabling does not start().
LengthEnableMute(ch, e, late) ==
  LET started == [ch EXCEPT !.en = e, !.play = IF e THEN @ ELSE TRUE]
  IN  IF e /\ ~ch.en /\ late THEN LengthTick(started) ELSE started

\* enable(): an enable in the late half clocks the counter at once.
LengthEnable(ch, e, late) ==
  LET started == [ch EXCEPT !.en = e, !.play = TRUE]
  IN  IF e /\ ~ch.en /\ late THEN LengthTick(started) ELSE started

\* Mutant of LengthTrigger: a counter that ran out is not reloaded.
LengthTriggerStuck(c, ch, late) == ch

\* trigger(): a counter that ran out starts again, a tick short in the late half.
LengthTrigger(c, ch, late) ==
  LET full == [ch EXCEPT !.timer = Base[c]]
  IN  CASE ch.timer # 0 -> ch
        [] ch.timer = 0 /\ late -> LengthTick(full)
        [] ch.timer = 0 /\ ~late -> full

\* NRx4: the length's enable first, then the trigger.
Control(c, ch, e, trigger, late) ==
  LET set == LengthEnable(ch, e, late)
  IN  IF trigger THEN LengthTrigger(c, EnableChannel(set), late) ELSE set

\* NRx2, or NR30, whose power switch turns channel 3 off at once.
PowerDac(c, ch, p) ==
  IF c = 3 /\ ~p THEN [Disable(ch) EXCEPT !.dac = FALSE] ELSE [ch EXCEPT !.dac = p]

\* ChannelBase::tick: a channel without its DAC goes off.
ChannelTick(ch) == IF ch.on /\ ~ch.dac THEN Disable(ch) ELSE ch

-----------------------------------------------------------------------------
(* The sweep; "over" says that an overflow turned channel 1 off. *)

FreshSweep ==
  [frequency |-> 0, shadow |-> 0, timer |-> 0, on |-> FALSE, calculated |-> FALSE, set |-> NoSweep]

PowersOfTwo == <<1, 2, 4, 8, 16, 32, 64, 128>>

NewFrequency(sw) ==
  LET delta == sw.shadow \div PowersOfTwo[sw.set.shift + 1]
  IN  IF sw.set.negate THEN sw.shadow - delta ELSE sw.shadow + delta

\* Mutant of Overflows: check_overflow lets every frequency pass.
OverflowsNever(sw, f) == FALSE
Overflows(sw, f) == ~sw.set.negate /\ f > MaxFrequency
Pace(set) == IF set.pace > 0 THEN set.pace ELSE SweepReload
Stopped(sw) == [sweep |-> [sw EXCEPT !.on = FALSE], over |-> TRUE]
Running(sw) == [sweep |-> sw, over |-> FALSE]

\* calculate_new_frequency and check_overflow, without taking the frequency.
Checked(sw) ==
  LET after == [sw EXCEPT !.calculated = TRUE]
  IN  IF Overflows(sw, NewFrequency(sw)) THEN Stopped(after) ELSE Running(after)

\* configure(): leaving negate mode after a calculation turns the channel off.
Configure(sw, set) ==
  [sweep |-> [sw EXCEPT !.calculated = FALSE, !.set = set],
   over |-> sw.set.negate /\ ~set.negate /\ sw.calculated]

SweepTrigger(sw) ==
  LET set == sw.set
      started == [sw EXCEPT !.shadow = sw.frequency, !.timer = Pace(set), !.on = set.pace > 0 \/ set.shift > 0]
  IN  IF set.shift > 0 THEN Checked(started) ELSE Running(started)

\* tick(): every Pace(set) ticks a new frequency, which is checked once more.
SweepTick(sw) ==
  LET set == sw.set
      left == IF sw.timer > 0 THEN sw.timer - 1 ELSE 0
      due == [sw EXCEPT !.timer = Pace(set)]
      moved == [due EXCEPT !.shadow = NewFrequency(sw), !.frequency = NewFrequency(sw)]
  IN  CASE ~sw.on -> Running(sw)
        [] sw.on /\ left # 0 -> Running([sw EXCEPT !.timer = left])
        [] sw.on /\ left = 0 /\ set.pace = 0 -> Running(due)
        [] sw.on /\ left = 0 /\ set.pace > 0 ->
             IF set.shift = 0 \/ Overflows(sw, NewFrequency(sw)) THEN Checked(due) ELSE Checked(moved)

\* Channel 1 after a sweep operation.
Swept(ch, result) == IF result.over THEN Disable(ch) ELSE ch

-----------------------------------------------------------------------------
(* Register writes; those to a channel reach it while the master is on. *)

BootPower == [c \in Channels |-> c = 1]      \* NR12 = F3, though the DAC is off

Init ==
  /\ master = TRUE /\ step = 0
  /\ chan = [c \in Channels |-> IF c = 1 THEN [Fresh EXCEPT !.bit = TRUE] ELSE Fresh]
  /\ power = BootPower /\ sweep = FreshSweep
  /\ open = Registers /\ stale = TRUE /\ voice \in Channels /\ quiet = FALSE

\* The program writes register r: the cycle's first write, which leaves its
\* neighbours open, or a neighbour, which leaves none.
Writes(r) ==
  /\ ~quiet /\ r \in open
  /\ open' = IF open = Registers THEN ChannelRegisters \cap {r - 1, r + 1} ELSE {}
  /\ UNCHANGED <<step, voice, quiet>>

\* Channel 1's bit of NR52 is its own from the first time the channel writes it.
StillStale == stale /\ chan'[1].bit /\ ~chan'[1].on

Update(c, ch) == chan' = [chan EXCEPT ![c] = ch] /\ stale' = StillStale

\* NR10.
WriteSweep ==
  \E set \in SweepSettings :
    LET result == Configure(sweep, set)
    IN  /\ Writes(0) /\ master /\ voice = 1
        /\ sweep' = result.sweep
        /\ Update(1, Swept(chan[1], result))
        /\ UNCHANGED <<master, power>>

\* NRx1: heard even while the master is off.
WriteLength ==
  \E length \in 0 .. Base[voice] - 1 :
    /\ Writes(1)
    /\ Update(voice, [chan[voice] EXCEPT !.timer = Base[voice] - length])
    /\ UNCHANGED <<master, power, sweep>>

\* NRx2 (NR30).
WritePower ==
  \E p \in BOOLEAN :
    /\ Writes(IF voice = 3 THEN 0 ELSE 2) /\ master
    /\ power' = [power EXCEPT ![voice] = p]
    /\ Update(voice, PowerDac(voice, chan[voice], p))
    /\ UNCHANGED <<master, sweep>>

\* NR13: the other channels' frequencies are not modelled.
WriteFrequency ==
  \E low \in 0 .. LowRange - 1 :
    /\ Writes(3) /\ master /\ voice = 1
    /\ sweep' = [sweep EXCEPT !.frequency = (LowRange * (@ \div LowRange)) + low]
    /\ UNCHANGED <<master, chan, power, stale>>

\* NR43: a clock shift above MAX_NOISE_CLOCK_SHIFT turns channel 4 off.
WriteNoise ==
  \E tooSlow \in BOOLEAN :
    /\ Writes(3) /\ master /\ voice = 4
    /\ Update(4, IF tooSlow THEN Disable(chan[4]) ELSE chan[4])
    /\ UNCHANGED <<master, power, sweep>>

\* NRx4.
WriteControl ==
  \E e, trigger \in BOOLEAN, high \in 0 .. HighRange - 1 :
    LET tuned == [sweep EXCEPT !.frequency = (LowRange * high) + (@ % LowRange)]
        result == IF trigger THEN SweepTrigger(tuned) ELSE Running(tuned)
        ch == Control(voice, chan[voice], e, trigger, Late)
    IN  /\ Writes(4) /\ master
        /\ voice # 1 => high = 0
        /\ IF voice = 1 THEN sweep' = result.sweep /\ Update(1, Swept(ch, result))
                        ELSE Update(voice, ch) /\ UNCHANGED sweep
        /\ UNCHANGED <<master, power>>

\* reset_registers on one channel: FF10..FF25 are written 0 while the master is
\* still on, then the lengths, which read back as all ones, are written back.
Reset(c, ch) ==
  LET dark == [PowerDac(c, ch, FALSE) EXCEPT !.en = FALSE, !.play = TRUE]
  IN  [dark EXCEPT !.bit = FALSE, !.timer = Base[c] - (Base[c] - 1)]

\* NR52, bit 7 cleared.
PowerOff ==
  LET result == Configure(sweep, NoSweep)
  IN  /\ Writes(NR52) /\ master
      /\ master' = FALSE
      /\ chan' = [c \in Channels |-> Reset(c, IF c = 1 THEN Swept(chan[1], result) ELSE chan[c])]
      /\ power' = [c \in Channels |-> FALSE]
      /\ sweep' = [result.sweep EXCEPT !.frequency = 0]
      /\ stale' = StillStale

\* NR52, bit 7 set: the sequencer starts over.
PowerOn ==
  /\ ~quiet /\ open = Registers /\ ~master
  /\ master' = TRUE /\ step' = 0 /\ open' = {}
  /\ UNCHANGED <<chan, power, sweep, stale, voice, quiet>>

Stop == ~quiet /\ open = Registers /\ quiet' = TRUE /\ UNCHANGED <<master, step, chan, power, sweep, open, stale, voice>>

-----------------------------------------------------------------------------
(* Clocks and saved states *)

Tick ==
  /\ open' = Registers
  /\ chan' = [c \in Channels |-> ChannelTick(chan[c])]
  /\ UNCHANGED <<master, step, power, sweep, stale, voice, quiet>>

\* The timer's bit 10 falls in this cycle, before APU::tick: lengths in the even
\* steps, the sweep behind them in steps 2 and 6.
SequencerTick ==
  LET counted(c) == IF step % 2 = 0 THEN LengthTick(chan[c]) ELSE chan[c]
      result == IF step \in {2, 6} THEN SweepTick(sweep) ELSE Running(sweep)
      clocked(c) == IF c = 1 THEN Swept(counted(1), result) ELSE counted(c)
  IN  /\ open' = Registers
      /\ chan' = [c \in Channels |-> ChannelTick(clocked(c))]
      /\ sweep' = result.sweep
      /\ step' = (step + 1) % 8
      /\ stale' = StillStale
      /\ UNCHANGED <<master, power, voice, quiet>>

\* deserialize on a new APU: the registers come back, and each is written again
\* with the value it reads as.  Lengths and frequencies read as all ones, and
\* so does the trigger bit: while the master is on every channel starts.
Restored(c) ==
  LET heard == [Fresh EXCEPT !.bit = chan[c].bit, !.timer = Base[c] - (Base[c] - 1)]
      started == Control(c, PowerDac(c, heard, power[c]), chan[c].en, TRUE, FALSE)
  IN  IF master THEN started ELSE heard

\* A state saved and loaded, between two cycles.
Reload ==
  LET result == SweepTrigger([FreshSweep EXCEPT !.set = sweep.set, !.frequency = MaxFrequency])
  IN  /\ ~quiet /\ open = Registers
      /\ step' = 0 /\ open' = {}
      /\ chan' = [c \in Channels |-> IF c = 1 /\ master THEN Swept(Restored(1), result) ELSE Restored(c)]
      /\ sweep' = IF master THEN result.sweep ELSE FreshSweep
      /\ stale' = StillStale
      /\ UNCHANGED <<master, power, voice, quiet>>

Next ==
  \/ WriteSweep \/ WriteLength \/ WritePower \/ WriteFrequency \/ WriteNoise \/ WriteControl
  \/ PowerOff \/ PowerOn \/ Stop
  \/ Tick \/ SequencerTick \/ Reload

\* The sequencer is clocked by the divider, which runs unless the program keeps
\* resetting it.
Spec == Init /\ [][Next]_vars /\ WF_vars(SequencerTick)

-----------------------------------------------------------------------------
Channel == [on : BOOLEAN, bit : BOOLEAN, dac : BOOLEAN, timer : Nat, en : BOOLEAN, play : BOOLEAN]
Sweep ==
  [frequency : Frequencies, shadow : Frequencies, timer : 0 .. 7 + SweepReload,
   on : BOOLEAN, calculated : BOOLEAN, set : SweepSettings \cup {NoSweep}]

\* Counters stay within their lengths; and the sweep's frequencies, which the
\* code keeps in 16 bits, never leave the 11 bits the registers hold.
TypeOK ==
  /\ master \in BOOLEAN /\ step \in 0 .. 7
  /\ chan \in [Channels -> Channel] /\ \A c \in Channels : chan[c].timer <= Base[c]
  /\ power \in [Channels -> BOOLEAN] /\ sweep \in Sweep
  /\ open \subseteq Registers /\ stale \in BOOLEAN /\ voice \in Channels /\ quiet \in BOOLEAN

\* NR52 tells the truth whenever the program can read it: a bit is set exactly
\* while its channel is on, whichever of trigger, length, sweep, DAC, master
\* switch or load turned it on or off.  Only the boot value's channel 1 is an
\* exception, until the channel is first used.
StatusIsTrue ==
  open = Registers => \A c \in Channels : chan[c].bit <=> (chan[c].on \/ (c = 1 /\ stale))

\* should_play_ mutes a channel that is on in one case only: the write that
\* enabled its length counter used up the counter's last tick and triggered the
\* channel as well, which reloads the timer but leaves should_play_ cleared
\* (length_timer.cpp:17, 27).
MutedOnlyByLastTick ==
  [][\A c \in Channels :
       (chan'[c].on /\ ~chan'[c].play /\ ~(chan[c].on /\ ~chan[c].play)) =>
         step % 2 = 1 /\ chan[c].timer = 1 /\ ~chan[c].en /\ chan'[c].en]_vars

\* Channels that play with their length counters enabled fall silent, once the
\* program lets them: no order of enables, triggers, resets and loads leaves a
\* counter that cannot run out.  (A quiet program turns no channel on again.)
LengthEndsSound == quiet ~> \A c \in Channels : ~(chan[c].on /\ chan[c].en)
=============================================================================
