----------------------------- MODULE TimerProofs -----------------------------
(***************************************************************************)
(* Timer for every clock width, byte size, frequency map and sequencer     *)
(* bit: its types, the two invariants about pending and fresh reloads, and *)
(* that it implements EdgeTimer.                                           *)
(***************************************************************************)
EXTENDS Timer, TLAPS

-----------------------------------------------------------------------------
\* A byte counter that steps or stays is still a byte.
LEMMA ByteStep ==
  ASSUME NEW b \in Byte
  PROVE  (b + 1) % ByteSize \in Byte
<1>1. ByteSize \in Nat \ {0, 1}
  BY TimerAssumption
<1>2. (b + 1) % ByteSize \in 0 .. ByteSize - 1
  BY <1>1 DEF Byte
<1>3. QED
  BY <1>2 DEF Byte

\* A zeroed clock has every bit low: a DIV write never leaves the signal high.
LEMMA ZeroIsLow ==
  ASSUME NEW w \in Nat \ {0}
  PROVE  ~Bit(0, w)
<1>1. 0 \div w = 0
  OBVIOUS
<1>2. QED
  BY <1>1 DEF Bit

\* The constructor's values are well typed.
LEMMA InitTypeOK == Init => TypeOK
<1> SUFFICES ASSUME Init
             PROVE  TypeOK
  OBVIOUS
<1>1. clock \in 0 .. ClockSize - 1
  BY TimerAssumption DEF Init
<1>2. tima \in Byte /\ tma \in Byte
  BY TimerAssumption DEF Init, Byte
<1>3. tac \in Tac
  BY DEF Init
<1>4. QED
  BY <1>1, <1>2, <1>3 DEF Init, TypeOK

\* No step leaves the ranges.
LEMMA NextTypeOK == TypeOK /\ [Next]_vars => TypeOK'
<1> SUFFICES ASSUME TypeOK, [Next]_vars
             PROVE  TypeOK'
  OBVIOUS
<1> USE DEF TypeOK
<1>1. CASE Tick
  <2>1. (clock + 1) % ClockSize \in 0 .. ClockSize - 1
    BY TimerAssumption
  <2>2. tima' \in Byte
    BY <1>1, ByteStep DEF Tick, CheckTimaTrigger
  <2>3. QED
    BY <1>1, <2>1, <2>2 DEF Tick, CheckTimaTrigger, BitFallen, Bit, Tac
<1>2. CASE WriteDiv
  <2>1. tima' \in Byte
    BY <1>2, ByteStep DEF WriteDiv, CheckTimaTrigger
  <2>2. wrote' \in SUBSET Registers
    BY <1>2 DEF WriteDiv, MayWrite, Registers
  <2>3. 0 \in 0 .. ClockSize - 1
    BY TimerAssumption
  <2>4. QED
    BY <1>2, <2>1, <2>2, <2>3 DEF WriteDiv, CheckTimaTrigger, BitFallen, Bit, Tac
<1>3. ASSUME NEW v \in Byte, WriteTima(v)
      PROVE  TypeOK'
  BY <1>3 DEF WriteTima, MayWrite, Registers
<1>4. ASSUME NEW v \in Byte, WriteTma(v)
      PROVE  TypeOK'
  BY <1>4 DEF WriteTma, MayWrite, Registers
<1>5. ASSUME NEW t \in Tac, WriteTac(t)
      PROVE  TypeOK'
  <2>1. tima' \in Byte
    BY <1>5, ByteStep DEF WriteTac, CheckTimaTrigger
  <2>2. wrote' \in SUBSET Registers
    BY <1>5 DEF WriteTac, MayWrite, Registers
  <2>3. QED
    BY <1>5, <2>1, <2>2 DEF WriteTac, CheckTimaTrigger, Level, Bit, Tac
<1>6. CASE Acknowledge
  BY <1>6 DEF Acknowledge
<1>7. CASE UNCHANGED vars
  BY <1>7 DEF vars
<1>8. QED
  BY <1>1, <1>2, <1>3, <1>4, <1>5, <1>6, <1>7 DEF Next

\* The variables of Timer are well typed in every reachable state.
THEOREM TypeCorrect == Spec => []TypeOK
  BY InitTypeOK, NextTypeOK, PTL DEF Spec

-----------------------------------------------------------------------------
(***************************************************************************)
(* PendingReadsZero is not inductive: a DIV or TAC write that counted while *)
(* a reload waits would break it.  The signal is low when a reload becomes *)
(* pending and only a TAC write can raise it before the next tick; after   *)
(* that TAC write the adjacency of writes lets neither DIV nor TAC be      *)
(* written again in the same cycle.                                        *)
(***************************************************************************)
QuietWhilePending == pending /\ Signal => "TAC" \in wrote

IInv == TypeOK /\ PendingReadsZero /\ QuietWhilePending

\* The counter wraps to zero exactly from its greatest value.
LEMMA WrapIsZero ==
  ASSUME NEW b \in Byte, b = ByteSize - 1
  PROVE  (b + 1) % ByteSize = 0
<1>1. ByteSize \in Nat \ {0} /\ b + 1 = ByteSize
  BY TimerAssumption DEF Byte
<1>2. ByteSize % ByteSize = 0
  BY <1>1
<1>3. QED
  BY <1>1, <1>2

\* A write that may come next to TAC, or next to DIV, is not one to TAC.
LEMMA TacNotYetWritten ==
  ASSUME wrote \in SUBSET Registers,
         MayWrite("DIV") \/ MayWrite("TAC")
  PROVE  "TAC" \notin wrote
  BY DEF MayWrite, Registers, Address

\* Initially no reload waits.
LEMMA InitIInv == Init => IInv
<1>1. Init => TypeOK
  BY InitTypeOK
<1>2. QED
  BY <1>1 DEF Init, IInv, PendingReadsZero, QuietWhilePending

\* Every step of the timer and of the CPU keeps the strengthened invariant.
LEMMA NextIInv == IInv /\ [Next]_vars => IInv'
<1> SUFFICES ASSUME IInv, [Next]_vars
             PROVE  IInv'
  OBVIOUS
<1>a. TypeOK'
  BY NextTypeOK DEF IInv
<1> USE DEF IInv, TypeOK, PendingReadsZero, QuietWhilePending
<1>1. CASE Tick
  <2>1. DEFINE base == IF pending THEN tma ELSE tima
               next == (clock + 1) % ClockSize
               edge == tac.on /\ BitFallen(clock, next, TacWeight[tac.freq])
  <2>2. base \in Byte
    OBVIOUS
  <2>3. pending' => edge /\ base = ByteSize - 1
    BY <1>1 DEF Tick, CheckTimaTrigger
  <2>4. edge => tima' = (base + 1) % ByteSize
    BY <1>1 DEF Tick, CheckTimaTrigger
  <2>5. pending' => tima' = 0
    BY <2>2, <2>3, <2>4, WrapIsZero
  <2>6. edge => ~Signal'
    BY <1>1 DEF Tick, BitFallen, Signal, Level
  <2>7. QED
    BY <1>a, <2>3, <2>5, <2>6
<1>2. CASE WriteDiv
  <2>1. "TAC" \notin wrote
    BY <1>2, TacNotYetWritten DEF WriteDiv
  <2>2. ~Signal'
    <3>1. tac \in Tac /\ TacWeight[tac.freq] \in Nat \ {0}
      BY TimerAssumption DEF Tac
    <3>2. ~Bit(0, TacWeight[tac.freq])
      BY <3>1, ZeroIsLow
    <3>3. QED
      BY <1>2, <3>2 DEF WriteDiv, Signal, Level
  <2>3. DEFINE edge == tac.on /\ BitFallen(clock, 0, TacWeight[tac.freq])
  <2>4. edge => Signal
    BY DEF BitFallen, Signal, Level
  <2>5. CASE pending
    <3>1. ~edge
      BY <2>1, <2>4, <2>5
    <3>2. tima' = tima /\ written' = written /\ wrote \subseteq wrote'
      BY <1>2, <3>1 DEF WriteDiv, CheckTimaTrigger, MayWrite
    <3>3. QED
      BY <1>a, <2>2, <2>5, <3>2
  <2>6. CASE ~pending
    <3>1. pending' => edge /\ tima = ByteSize - 1 /\ tima' = (tima + 1) % ByteSize
      BY <1>2, <2>6 DEF WriteDiv, CheckTimaTrigger
    <3>2. pending' => tima' = 0
      BY <3>1, WrapIsZero
    <3>3. QED
      BY <1>a, <2>2, <3>2
  <2>7. QED
    BY <2>5, <2>6
<1>3. ASSUME NEW v \in Byte, WriteTima(v)
      PROVE  IInv'
  <2>1. ~pending'
    BY <1>3 DEF WriteTima
  <2>2. QED
    BY <1>a, <2>1
<1>4. ASSUME NEW v \in Byte, WriteTma(v)
      PROVE  IInv'
  <2>1. pending' = pending /\ written' = written /\ "TMA" \in wrote'
    BY <1>4 DEF WriteTma, MayWrite
  <2>2. ~written => tima' = tima
    BY <1>4 DEF WriteTma
  <2>3. PendingReadsZero'
    BY <2>1, <2>2
  <2>4. Signal' = Signal /\ wrote \subseteq wrote'
    BY <1>4 DEF WriteTma, MayWrite, Signal, Level
  <2>5. QED
    BY <1>a, <2>1, <2>3, <2>4
<1>5. ASSUME NEW t \in Tac, WriteTac(t)
      PROVE  IInv'
  <2>1. "TAC" \notin wrote /\ "TAC" \in wrote'
    BY <1>5, TacNotYetWritten DEF WriteTac, MayWrite
  <2>2. CASE pending
    <3>1. ~Level(clock, tac)
      BY <2>1, <2>2 DEF Signal
    <3>2. tima' = tima /\ written' = written /\ wrote \subseteq wrote'
      BY <1>5, <3>1 DEF WriteTac, CheckTimaTrigger, MayWrite
    <3>3. QED
      BY <1>a, <2>1, <2>2, <3>2
  <2>3. CASE ~pending
    <3>1. pending' => tima = ByteSize - 1 /\ tima' = (tima + 1) % ByteSize
      BY <1>5, <2>3 DEF WriteTac, CheckTimaTrigger
    <3>2. pending' => tima' = 0
      BY <3>1, WrapIsZero
    <3>3. QED
      BY <1>a, <2>1, <3>2
  <2>4. QED
    BY <2>2, <2>3
<1>6. CASE Acknowledge
  BY <1>6, <1>a DEF Acknowledge, Signal, Level
<1>7. CASE UNCHANGED vars
  BY <1>7, <1>a DEF vars, Signal, Level
<1>8. QED
  BY <1>1, <1>2, <1>3, <1>4, <1>5, <1>6, <1>7 DEF Next

\* While a wrap waits for its reload the program reads TIMA as 0, except after
\* a TMA write in a reload cycle (Timer::write_div, write_tac, write_tma).
THEOREM PendingReadsZeroAlways == Spec => []PendingReadsZero
<1>1. IInv => PendingReadsZero
  BY DEF IInv
<1>2. QED
  BY InitIInv, NextIInv, <1>1, PTL DEF Spec

-----------------------------------------------------------------------------
\* In a reload's cycle TIMA shows TMA (Timer::trigger_tima, Timer::write_tma).
THEOREM ReloadMirrorsTmaAlways == Spec => []ReloadMirrorsTma
<1>1. Init => ReloadMirrorsTma
  BY DEF Init, ReloadMirrorsTma
<1>2. TypeOK /\ ReloadMirrorsTma /\ [Next]_vars => ReloadMirrorsTma'
  <2> SUFFICES ASSUME TypeOK, ReloadMirrorsTma, [Next]_vars
               PROVE  ReloadMirrorsTma'
    OBVIOUS
  <2> USE DEF ReloadMirrorsTma
  <2>1. CASE Tick
    BY <2>1 DEF Tick, CheckTimaTrigger
  <2>2. CASE WriteDiv
    BY <2>2 DEF WriteDiv, MayWrite
  <2>3. ASSUME NEW v \in Byte, WriteTima(v)
        PROVE  ReloadMirrorsTma'
    BY <2>3 DEF WriteTima, MayWrite
  <2>4. ASSUME NEW v \in Byte, WriteTma(v)
        PROVE  ReloadMirrorsTma'
    BY <2>4 DEF WriteTma
  <2>5. ASSUME NEW t \in Tac, WriteTac(t)
        PROVE  ReloadMirrorsTma'
    BY <2>5 DEF WriteTac, MayWrite
  <2>6. CASE Acknowledge
    BY <2>6 DEF Acknowledge
  <2>7. CASE UNCHANGED vars
    BY <2>7 DEF vars
  <2>8. QED
    BY <2>1, <2>2, <2>3, <2>4, <2>5, <2>6, <2>7 DEF Next
<1>3. QED
  BY TypeCorrect, <1>1, <1>2, PTL DEF Spec

-----------------------------------------------------------------------------
\* The three writers of TIMA in cpu/clock.cpp count exactly the falling edges
\* of the multiplexed signal: Timer implements EdgeTimer.
THEOREM ImplementsEdgeTimer == Spec => CountsFallingEdges
<1>1. Init => Edge!Init
  BY DEF Init, Edge!Init, Signal, Level, Tac
<1>2. TypeOK /\ [Next]_vars => [Edge!Next]_(Edge!vars)
  <2> SUFFICES ASSUME TypeOK, [Next]_vars
               PROVE  Edge!Next \/ UNCHANGED Edge!vars
    OBVIOUS
  <2> USE DEF TypeOK
  <2>a. Signal \in BOOLEAN /\ Signal' \in BOOLEAN
    BY DEF Signal, Level, Tac
  <2>1. CASE Tick
    <3>1. tac.on /\ BitFallen(clock, (clock + 1) % ClockSize, TacWeight[tac.freq])
            <=> Signal /\ ~Signal'
      BY <2>1 DEF Tick, BitFallen, Signal, Level
    <3>2. Edge!Cycle(Signal')
      BY <2>1, <3>1 DEF Tick, CheckTimaTrigger, Edge!Cycle, Edge!Count, Edge!Wraps
    <3>3. QED
      BY <2>a, <3>2 DEF Edge!Next
  <2>2. CASE WriteDiv
    <3>1. tac.on /\ BitFallen(clock, 0, TacWeight[tac.freq]) <=> Signal /\ ~Signal'
      BY <2>2 DEF WriteDiv, BitFallen, Signal, Level
    <3>2. Edge!Reroute(Signal')
      BY <2>2, <3>1
         DEF WriteDiv, CheckTimaTrigger, Edge!Reroute, Edge!Count, Edge!Wraps
    <3>3. QED
      BY <2>a, <3>2 DEF Edge!Next
  <2>3. ASSUME NEW v \in Byte, WriteTima(v)
        PROVE  Edge!Next
    <3>1. Signal' = Signal
      BY <2>3 DEF WriteTima, Signal, Level
    <3>2. Edge!WriteTima(v)
      BY <2>3, <3>1 DEF WriteTima, Edge!WriteTima
    <3>3. QED
      BY <3>2 DEF Edge!Next, Edge!Byte, Byte
  <2>4. ASSUME NEW v \in Byte, WriteTma(v)
        PROVE  Edge!Next
    <3>1. Signal' = Signal
      BY <2>4 DEF WriteTma, Signal, Level
    <3>2. Edge!WriteTma(v)
      BY <2>4, <3>1 DEF WriteTma, Edge!WriteTma
    <3>3. QED
      BY <3>2 DEF Edge!Next, Edge!Byte, Byte
  <2>5. ASSUME NEW t \in Tac, WriteTac(t)
        PROVE  Edge!Next
    <3>1. Signal' = Level(clock, t)
      BY <2>5 DEF WriteTac, Signal, Level
    <3>2. Edge!Reroute(Signal')
      BY <2>5, <3>1
         DEF WriteTac, CheckTimaTrigger, Signal, Edge!Reroute, Edge!Count, Edge!Wraps
    <3>3. QED
      BY <2>a, <3>2 DEF Edge!Next
  <2>6. CASE Acknowledge
    <3>1. Signal' = Signal
      BY <2>6 DEF Acknowledge, Signal, Level
    <3>2. QED
      BY <2>6, <3>1 DEF Acknowledge, Edge!Acknowledge, Edge!Next
  <2>7. CASE UNCHANGED vars
    <3>1. Signal' = Signal
      BY <2>7 DEF vars, Signal, Level
    <3>2. QED
      BY <2>7, <3>1 DEF vars, Edge!vars
  <2>8. QED
    BY <2>1, <2>2, <2>3, <2>4, <2>5, <2>6, <2>7 DEF Next
<1>3. QED
  BY TypeCorrect, <1>1, <1>2, PTL DEF Spec, CountsFallingEdges, Edge!Spec
=============================================================================
