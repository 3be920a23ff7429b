-------------------------------- MODULE Timer --------------------------------
(***************************************************************************)
(* The timer of cpu/clock.cpp: a free-running clock, TIMA counting the     *)
(* falling edges of one clock bit, the one-cycle-late reload from TMA, and *)
(* the glitches that DIV and TAC writes cause.                             *)
(*                                                                         *)
(* The environment is the CPU.  CPU::tick runs Timer::tick once per        *)
(* machine cycle; between two ticks an instruction or an interrupt         *)
(* dispatch writes at most two bytes, and two only to adjacent addresses   *)
(* (push_16, LD (nn),SP and the two push_8 of a dispatch).  "wrote" holds  *)
(* the timer registers written since the last tick and enforces that.      *)
(***************************************************************************)
EXTENDS Integers, FiniteSets

CONSTANTS
  ClockSize,        \* values of internal_clock_ (2^16)
  ByteSize,         \* values of TIMA and TMA (2^8)
  InitialClock,     \* TimerConstants::INITIAL_CLOCK_VALUE
  Freqs,            \* values of TAC's frequency field (0..3)
  TacWeight,        \* weight of the clock bit tac_map_ selects: 2^7, 2^1, 2^3, 2^5
  SequencerWeight   \* weight of APU_FRAME_SEQUENCER_BIT: 2^10

ASSUME TimerAssumption ==
  /\ ClockSize \in Nat \ {0}
  /\ ByteSize \in Nat \ {0, 1}
  /\ InitialClock \in 0 .. ClockSize - 1
  /\ Freqs # {}
  /\ TacWeight \in [Freqs -> Nat \ {0}]
  /\ SequencerWeight \in Nat \ {0}

VARIABLES
  clock,            \* internal_clock_ (DIV is its upper byte, always derived)
  tima, tma,        \* registers TIMA and TMA
  tac,              \* register TAC: its enable bit and frequency field
  pending,          \* trigger_tima_next_cycle_
  written,          \* tima_written_this_cycle_
  intr,             \* the timer bit of IF
  clocked,          \* the last tick ran apu_callback_
  wrote             \* timer registers written since the last tick

vars == <<clock, tima, tma, tac, pending, written, intr, clocked, wrote>>

Byte == 0 .. ByteSize - 1
Tac == [on : BOOLEAN, freq : Freqs]

\* FF04 .. FF07, in address order.
Address == [DIV |-> 4, TIMA |-> 5, TMA |-> 6, TAC |-> 7]
Registers == {"DIV", "TIMA", "TMA", "TAC"}

Bit(value, weight) == (value \div weight) % 2 = 1
BitFallen(before, after, weight) == Bit(before, weight) /\ ~Bit(after, weight)

\* The signal TIMA counts: the selected clock bit, gated by the enable bit.
Level(c, t) == t.on /\ Bit(c, TacWeight[t.freq])
Signal == Level(clock, tac)

-----------------------------------------------------------------------------
Init ==
  /\ clock = InitialClock
  /\ tima = 0 /\ tma = 0
  /\ tac \in {t \in Tac : ~t.on}
  /\ pending = FALSE /\ written = FALSE
  /\ intr = FALSE /\ clocked = FALSE
  /\ wrote = {}

\* Mutants of CheckTimaTrigger: no wrap; armed one count early; never armed.
CheckTimaTriggerNoWrap(edge, base, armed) ==
  /\ tima' = IF edge THEN base + 1 ELSE base
  /\ pending' = (armed \/ (edge /\ base = ByteSize - 1))
CheckTimaTriggerEarly(edge, base, armed) ==
  /\ tima' = IF edge THEN (base + 1) % ByteSize ELSE base
  /\ pending' = (armed \/ (edge /\ base = ByteSize - 2))
CheckTimaTriggerNever(edge, base, armed) ==
  /\ tima' = IF edge THEN (base + 1) % ByteSize ELSE base
  /\ pending' = (armed \/ (edge /\ base = ByteSize))

\* TIMA++ when an edge is seen; the wrap from 255 to 0 arms the late reload.
\* (The code's other branch, a zero not reached from 255, cannot be taken.)
CheckTimaTrigger(edge, base, armed) ==
  /\ tima' = IF edge THEN (base + 1) % ByteSize ELSE base
  /\ pending' = (armed \/ (edge /\ base = ByteSize - 1))

\* Mutant of Tick: the sequencer's bit is gated by TAC as well.
TickGated ==
  LET base == IF pending THEN tma ELSE tima
      next == (clock + 1) % ClockSize
  IN  /\ clock' = next
      /\ intr' = (intr \/ pending)
      /\ written' = pending
      /\ CheckTimaTrigger(tac.on /\ BitFallen(clock, next, TacWeight[tac.freq]),
                          base, FALSE)
      /\ clocked' = (tac.on /\ BitFallen(clock, next, SequencerWeight))
      /\ wrote' = {}
      /\ UNCHANGED <<tma, tac>>

\* Timer::tick, one machine cycle.
Tick ==
  LET base == IF pending THEN tma ELSE tima     \* trigger_tima
      next == (clock + 1) % ClockSize
  IN  /\ clock' = next
      /\ intr' = (intr \/ pending)
      /\ written' = pending
      /\ CheckTimaTrigger(tac.on /\ BitFallen(clock, next, TacWeight[tac.freq]),
                          base, FALSE)
      /\ clocked' = BitFallen(clock, next, SequencerWeight)
      /\ wrote' = {}
      /\ UNCHANGED <<tma, tac>>

\* The CPU may write register r: nothing, or one neighbour, written so far.
MayWrite(r) ==
  /\ Cardinality(wrote) < 2
  /\ \A s \in wrote : Address[r] - Address[s] \in {-1, 1}
  /\ wrote' = wrote \union {r}

WriteDiv ==
  /\ MayWrite("DIV")
  /\ clock' = 0
  /\ CheckTimaTrigger(tac.on /\ BitFallen(clock, 0, TacWeight[tac.freq]),
                      tima, pending)
  /\ UNCHANGED <<tma, tac, written, intr, clocked>>

WriteTima(v) ==
  /\ MayWrite("TIMA")
  /\ \/ pending /\ pending' = FALSE /\ tima' = v
     \/ ~pending /\ written /\ UNCHANGED <<pending, tima>>
     \/ ~pending /\ ~written /\ tima' = v /\ UNCHANGED pending
  /\ UNCHANGED <<clock, tma, tac, written, intr, clocked>>

\* Mutant of WriteTma: a write in the reload cycle does not reach TIMA.
WriteTmaLate(v) ==
  /\ MayWrite("TMA")
  /\ tma' = v
  /\ UNCHANGED <<clock, tima, tac, pending, written, intr, clocked>>

WriteTma(v) ==
  /\ MayWrite("TMA")
  /\ tima' = IF written THEN v ELSE tima
  /\ tma' = v
  /\ UNCHANGED <<clock, tac, pending, written, intr, clocked>>

\* Mutant of WriteTac: disabling the timer causes no edge.
WriteTacNoGlitch(t) ==
  /\ MayWrite("TAC")
  /\ CheckTimaTrigger(t.on /\ Level(clock, tac) /\ ~Level(clock, t), tima, pending)
  /\ tac' = t
  /\ UNCHANGED <<clock, tma, written, intr, clocked>>

WriteTac(t) ==
  /\ MayWrite("TAC")
  /\ CheckTimaTrigger(Level(clock, tac) /\ ~Level(clock, t), tima, pending)
  /\ tac' = t
  /\ UNCHANGED <<clock, tma, written, intr, clocked>>

\* The interrupt controller (or a write to IF) clears the request.
Acknowledge ==
  /\ intr' = FALSE
  /\ UNCHANGED <<clock, tima, tma, tac, pending, written, clocked, wrote>>

Next ==
  \/ Tick
  \/ WriteDiv
  \/ \E v \in Byte : WriteTima(v) \/ WriteTma(v)
  \/ \E t \in Tac : WriteTac(t)
  \/ Acknowledge

Spec == Init /\ [][Next]_vars

\* MainLoop::run executes instructions, hence ticks, without end.
FairSpec == Spec /\ WF_vars(Tick)

-----------------------------------------------------------------------------
\* Every variable stays in its range, and at most two adjacent registers are
\* written between two ticks of the timer.
TypeOK ==
  /\ clock \in 0 .. ClockSize - 1
  /\ tima \in Byte /\ tma \in Byte
  /\ tac \in Tac
  /\ pending \in BOOLEAN /\ written \in BOOLEAN
  /\ intr \in BOOLEAN /\ clocked \in BOOLEAN
  /\ wrote \in SUBSET Registers

\* Between a wrap and its reload the program reads TIMA as 0: no write that
\* fits between two ticks (Timer::write_div, write_tac) counts another edge
\* into it.  Only a TMA write in a reload cycle, which Timer::write_tma copies
\* to TIMA, shows another value.
PendingReadsZero ==
  pending => tima = 0 \/ (written /\ "TMA" \in wrote)

\* In the cycle of a reload TIMA shows TMA, the TMA written in that very cycle
\* included, plus one only if an edge came with the reload (Timer::trigger_tima,
\* Timer::write_tma).
ReloadMirrorsTma ==
  written /\ wrote \subseteq {"TMA"} =>
    tima = tma \/ (wrote = {} /\ tima = (tma + 1) % ByteSize)

\* Timer::tick, write_div and write_tac count exactly the falling edges of the
\* multiplexed signal, and a wrap is answered once, one cycle later.
Edge == INSTANCE EdgeTimer
          WITH signal <- Signal, reload <- pending, loaded <- written
CountsFallingEdges == Edge!Spec

\* Left alone with the timer enabled, the timer reloads, and so requests its
\* interrupt, again and again, whatever state earlier writes left.
KeepsReloading ==
  <>[][Tick \/ Acknowledge]_vars /\ <>[](tac.on) => []<>written

\* The APU's frame sequencer is clocked for ever unless the program goes on
\* resetting DIV; TAC and TIMA writes cannot stop it.
SequencerKeepsRunning == <>[][~WriteDiv]_vars => []<>clocked
=============================================================================
