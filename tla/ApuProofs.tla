-------------------------------- MODULE ApuProofs --------------------------------
(***************************************************************************)
(* Type correctness of the APU's control, the truth of NR52, and the one   *)
(* way a channel that is on falls mute, for every length, frequency range   *)
(* and set of sweep settings.  The argument is by channel: Fit is what      *)
(* every operation of a channel keeps, and Keeps relates its NR52 bit        *)
(* before and after.                                                        *)
(***************************************************************************)
EXTENDS Apu, TLAPS

\* An on channel has length left, so it can run out.
Fit(c, ch) == ch \in Channel /\ ch.timer <= Base[c] /\ (ch.on => ch.timer > 0)

\* The bit follows the channel, or neither has moved.
Keeps(a, b) == (b.bit <=> b.on) \/ (b.bit = a.bit /\ b.on = a.on)

Step(c, a, b) == Fit(c, b) /\ Keeps(a, b)

LEMMA BaseType ==
  ASSUME NEW c \in Channels  PROVE Base[c] \in Nat /\ Base[c] > 1
BY ApuAssumption

LEMMA StepTransitive ==
  ASSUME NEW c, NEW a, NEW b, NEW d, Step(c, a, b), Step(c, b, d)
  PROVE  Step(c, a, d)
BY DEF Step, Keeps

LEMMA DisableStep ==
  ASSUME NEW c \in Channels, NEW ch, Fit(c, ch)
  PROVE  Step(c, ch, Disable(ch)) /\ ~Disable(ch).on /\ ~Disable(ch).bit
BY BaseType DEF Step, Fit, Keeps, Disable, Channel

LEMMA LengthTickStep ==
  ASSUME NEW c \in Channels, NEW ch, Fit(c, ch)
  PROVE  Step(c, ch, LengthTick(ch))
<1> DEFINE last == [Disable(ch) EXCEPT !.timer = 0, !.play = FALSE]
           less == [ch EXCEPT !.timer = @ - 1]
<1>1. ch \in Channel /\ ch.timer \in Nat /\ ch.en \in BOOLEAN
  BY DEF Fit, Channel
<1>2. CASE ch.timer = 0 \/ ~ch.en
  <2>1. LengthTick(ch) = ch
    BY <1>1, <1>2 DEF LengthTick
  <2> QED
    BY <2>1 DEF Step, Keeps
<1>3. CASE ch.en /\ ch.timer = 1
  <2>1. LengthTick(ch) = last
    BY <1>1, <1>3 DEF LengthTick
  <2>2. Fit(c, last) /\ ~last.bit /\ ~last.on
    <3>1. Disable(ch) \in Channel /\ ~Disable(ch).bit /\ ~Disable(ch).on
      BY DisableStep DEF Step, Fit
    <3>2. last \in Channel /\ last.timer = 0 /\ ~last.bit /\ ~last.on
      BY <3>1 DEF Channel
    <3> QED
      BY <3>2, BaseType DEF Fit
  <2> QED
    BY <2>1, <2>2 DEF Step, Keeps
<1>4. CASE ch.en /\ ch.timer > 1
  <2>1. LengthTick(ch) = less
    BY <1>1, <1>4 DEF LengthTick
  <2>2. Fit(c, less) /\ less.bit = ch.bit /\ less.on = ch.on
    BY <1>1, <1>4, BaseType DEF Fit, Channel
  <2> QED
    BY <2>1, <2>2 DEF Step, Keeps
<1> QED
  BY <1>1, <1>2, <1>3, <1>4

LEMMA LengthEnableStep ==
  ASSUME NEW c \in Channels, NEW ch, Fit(c, ch), NEW e \in BOOLEAN, NEW late \in BOOLEAN
  PROVE  Step(c, ch, LengthEnable(ch, e, late))
<1> DEFINE started == [ch EXCEPT !.en = e, !.play = TRUE]
<1>1. Step(c, ch, started)
  BY DEF Step, Fit, Keeps, Channel
<1>2. Step(c, started, LengthTick(started))
  BY <1>1, LengthTickStep DEF Step
<1> QED
  BY <1>1, <1>2, StepTransitive DEF LengthEnable

\* A triggered channel is fit whether or not its counter had run out.
LEMMA TriggerStep ==
  ASSUME NEW c \in Channels, NEW ch \in Channel, ch.timer <= Base[c], NEW late \in BOOLEAN
  PROVE  Step(c, ch, LengthTrigger(c, EnableChannel(ch), late))
<1> DEFINE d == EnableChannel(ch)
           full == [d EXCEPT !.timer = Base[c]]
<1>1. d \in Channel /\ d.timer = ch.timer /\ d.bit /\ d.on
  BY DEF EnableChannel, Channel
<1>2. CASE ch.timer # 0
  BY <1>1, <1>2 DEF LengthTrigger, Step, Fit, Keeps, Channel
<1>3. CASE ch.timer = 0
  <2>1. Fit(c, full) /\ (full.bit <=> full.on)
    BY <1>1, BaseType DEF Fit, Channel
  <2>2. Step(c, full, LengthTick(full))
    BY <2>1, LengthTickStep
  <2>3. LengthTrigger(c, d, late) = (IF late THEN LengthTick(full) ELSE full)
    BY <1>1, <1>3 DEF LengthTrigger
  <2> QED
    BY <2>1, <2>2, <2>3 DEF Step, Keeps
<1> QED
  BY <1>2, <1>3

LEMMA ControlStep ==
  ASSUME NEW c \in Channels, NEW ch, Fit(c, ch),
         NEW e \in BOOLEAN, NEW trigger \in BOOLEAN, NEW late \in BOOLEAN
  PROVE  Step(c, ch, Control(c, ch, e, trigger, late))
<1> DEFINE set == LengthEnable(ch, e, late)
<1>1. Step(c, ch, set)
  BY LengthEnableStep
<1>2. Step(c, set, LengthTrigger(c, EnableChannel(set), late))
  BY <1>1, TriggerStep DEF Step, Fit
<1> QED
  BY <1>1, <1>2, StepTransitive DEF Control

LEMMA PowerDacStep ==
  ASSUME NEW c \in Channels, NEW ch, Fit(c, ch), NEW p \in BOOLEAN
  PROVE  Step(c, ch, PowerDac(c, ch, p)) /\ PowerDac(c, ch, p).dac = p
BY BaseType DEF PowerDac, Disable, Step, Fit, Keeps, Channel

LEMMA SweptStep ==
  ASSUME NEW c \in Channels, NEW ch, Fit(c, ch), NEW result
  PROVE  Step(c, ch, Swept(ch, result))
BY DisableStep DEF Swept, Step, Keeps

LEMMA SameStep ==
  ASSUME NEW c \in Channels, NEW ch, Fit(c, ch)  PROVE Step(c, ch, ch)
BY DEF Step, Keeps

-----------------------------------------------------------------------------
(* The sweep *)

LEMMA SettingsType ==
  ASSUME NEW set \in SweepSettings \cup {NoSweep}
  PROVE  set \in Settings /\ set.pace \in 0 .. 7 /\ set.shift \in 0 .. 7 /\ set.negate \in BOOLEAN
<1>1. NoSweep \in Settings
  BY DEF NoSweep, Settings
<1> QED
  BY <1>1, ApuAssumption DEF Settings

LEMMA NewFrequencyType ==
  ASSUME NEW sw \in Sweep
  PROVE  /\ NewFrequency(sw) \in Nat
         /\ ~Overflows(sw, NewFrequency(sw)) => NewFrequency(sw) \in Frequencies
<1> DEFINE x == sw.shadow
           k == PowersOfTwo[sw.set.shift + 1]
           delta == x \div k
<1>1. sw.set.shift \in 0 .. 7 /\ sw.set.negate \in BOOLEAN
  BY SettingsType DEF Sweep
<1>2. x \in Nat /\ x <= MaxFrequency /\ MaxFrequency \in Nat
  BY ApuAssumption DEF Sweep, Frequencies, MaxFrequency
<1>3. k \in {1, 2, 4, 8, 16, 32, 64, 128}
  BY <1>1 DEF PowersOfTwo
<1> HIDE DEF x, k
<1>4. delta \in Nat /\ delta <= x
  <2>1. CASE k = 1 BY <1>2, <2>1
  <2>2. CASE k = 2 BY <1>2, <2>2
  <2>3. CASE k = 4 BY <1>2, <2>3
  <2>4. CASE k = 8 BY <1>2, <2>4
  <2>5. CASE k = 16 BY <1>2, <2>5
  <2>6. CASE k = 32 BY <1>2, <2>6
  <2>7. CASE k = 64 BY <1>2, <2>7
  <2>8. CASE k = 128 BY <1>2, <2>8
  <2> QED BY <1>3, <2>1, <2>2, <2>3, <2>4, <2>5, <2>6, <2>7, <2>8
<1>5. NewFrequency(sw) = (IF sw.set.negate THEN x - delta ELSE x + delta)
  BY DEF NewFrequency, x, k
<1> HIDE DEF delta
<1> QED
  BY <1>2, <1>4, <1>5 DEF Overflows, Frequencies

LEMMA CheckedType ==
  ASSUME NEW sw \in Sweep
  PROVE  Checked(sw).sweep \in Sweep /\ Checked(sw).over \in BOOLEAN
BY DEF Checked, Stopped, Running, Sweep

LEMMA ConfigureType ==
  ASSUME NEW sw \in Sweep, NEW set \in SweepSettings \cup {NoSweep}
  PROVE  Configure(sw, set).sweep \in Sweep
BY DEF Configure, Sweep

LEMMA PaceType ==
  ASSUME NEW set \in SweepSettings \cup {NoSweep}
  PROVE  Pace(set) \in 0 .. 7 + SweepReload
BY SettingsType, ApuAssumption DEF Pace

LEMMA SweepTriggerType ==
  ASSUME NEW sw \in Sweep  PROVE SweepTrigger(sw).sweep \in Sweep
<1> DEFINE set == sw.set
           started == [sw EXCEPT !.shadow = sw.frequency, !.timer = Pace(set), !.on = set.pace > 0 \/ set.shift > 0]
<1>1. started \in Sweep
  BY PaceType DEF Sweep
<1> QED
  BY <1>1, CheckedType DEF SweepTrigger, Running

LEMMA SweepTickType ==
  ASSUME NEW sw \in Sweep  PROVE SweepTick(sw).sweep \in Sweep
<1> DEFINE set == sw.set
           left == IF sw.timer > 0 THEN sw.timer - 1 ELSE 0
           due == [sw EXCEPT !.timer = Pace(set)]
           moved == [due EXCEPT !.shadow = NewFrequency(sw), !.frequency = NewFrequency(sw)]
<1>1. due \in Sweep
  BY PaceType DEF Sweep
<1>2. [sw EXCEPT !.timer = left] \in Sweep
  BY ApuAssumption DEF Sweep
<1>3. ~Overflows(sw, NewFrequency(sw)) => moved \in Sweep
  BY <1>1, NewFrequencyType DEF Sweep
<1>4. left \in Nat /\ set.pace \in Nat /\ sw.on \in BOOLEAN
  BY SettingsType, ApuAssumption DEF Sweep
<1>5. \/ SweepTick(sw) = Running(sw)
      \/ SweepTick(sw) = Running([sw EXCEPT !.timer = left])
      \/ SweepTick(sw) = Running(due)
      \/ SweepTick(sw) = Checked(due)
      \/ ~Overflows(sw, NewFrequency(sw)) /\ SweepTick(sw) = Checked(moved)
  BY <1>4 DEF SweepTick
<1> QED
  BY <1>1, <1>2, <1>3, <1>5, CheckedType DEF Running

-----------------------------------------------------------------------------
(* The inductive invariant: besides TypeOK, every channel is fit; its bit is   *)
(* true, unless the master has just gone off and the cycle that turns the      *)
(* channel off, for want of a DAC, is still due; no bit is set without master.  *)

Honest(c) == chan[c].bit <=> (chan[c].on \/ (c = 1 /\ stale))
Dark(c) == open = {} /\ chan[c].on /\ ~chan[c].bit /\ ~chan[c].dac

Silent == ~master => \A c \in Channels : ~chan[c].bit

IInv ==
  /\ TypeOK
  /\ \A c \in Channels : Fit(c, chan[c])
  /\ \A c \in Channels : Honest(c) \/ Dark(c)
  /\ stale => chan[1].bit /\ ~chan[1].on
  /\ Silent

LEMMA RegistersOpen ==
  /\ Registers # {} /\ ChannelRegisters \subseteq Registers
  /\ ChannelRegisters \cap {NR52 - 1, NR52 + 1} = {}
<1>1. NR52 \in Registers /\ ChannelRegisters \subseteq Registers
  BY DEF Registers
<1>2. ChannelRegisters \cap {NR52 - 1, NR52 + 1} = {}
  BY DEF ChannelRegisters, NR52
<1> QED
  BY <1>1, <1>2

\* A register write comes while some register is open, and leaves a set of them.
LEMMA WritesOpen ==
  ASSUME NEW r, Writes(r)
  PROVE  /\ open # {} /\ open' \subseteq Registers /\ UNCHANGED <<step, voice, quiet>>
         /\ r = NR52 => open' = {}
<1>1. /\ r \in open /\ UNCHANGED <<step, voice, quiet>>
      /\ open' = IF open = Registers THEN ChannelRegisters \cap {r - 1, r + 1} ELSE {}
  BY DEF Writes
<1> QED
  BY <1>1, RegistersOpen

LEMMA InitInvariant == Init => IInv
<1> SUFFICES ASSUME Init PROVE IInv
  OBVIOUS
<1>1. Fresh \in Channel /\ [Fresh EXCEPT !.bit = TRUE] \in Channel
  BY DEF Fresh, Channel
<1>2. chan \in [Channels -> Channel] /\ \A c \in Channels : Fit(c, chan[c]) /\ (chan[c].bit <=> c = 1) /\ ~chan[c].on
  BY <1>1, BaseType DEF Init, Fit, Fresh
<1>3. sweep \in Sweep
  BY ApuAssumption DEF Init, FreshSweep, Sweep, Frequencies, MaxFrequency
<1>4. BootPower \in [Channels -> BOOLEAN]
  BY Zenon DEF BootPower
<1>5. TypeOK
  <2>1. master \in BOOLEAN /\ open \subseteq Registers /\ stale \in BOOLEAN /\ quiet \in BOOLEAN
    BY DEF Init
  <2>2. step \in 0 .. 7 /\ voice \in Channels
    BY DEF Init
  <2>3. power \in [Channels -> BOOLEAN]
    BY <1>4 DEF Init
  <2> QED
    BY <1>2, <1>3, <2>1, <2>2, <2>3 DEF TypeOK, Fit
<1> QED
  BY <1>2, <1>5 DEF Init, IInv, Honest, Silent, Channels

\* What every step must show of the channels when no write is pending before it.
LEMMA ChannelsKeep ==
  ASSUME IInv, open # {},
         chan' \in [Channels -> Channel], \A c \in Channels : Step(c, chan[c], chan'[c]),
         StillStale \in BOOLEAN, stale' = StillStale
  PROVE  /\ \A c \in Channels : Fit(c, chan'[c]) /\ chan'[c].timer <= Base[c]
         /\ \A c \in Channels : Honest(c)'
         /\ stale' => chan'[1].bit /\ ~chan'[1].on
         /\ stale' \in BOOLEAN
<1>1. \A c \in Channels : Fit(c, chan'[c]) /\ chan'[c].timer <= Base[c]
  BY DEF Step, Fit
<1>2. stale' => chan'[1].bit /\ ~chan'[1].on
  BY DEF StillStale
<1>3. ASSUME NEW c \in Channels PROVE Honest(c)'
  <2>1. Honest(c) /\ Keeps(chan[c], chan'[c])
    BY DEF IInv, Dark, Step
  <2>2. CASE c = 1
    BY <2>1, <2>2 DEF Honest, Keeps, StillStale, IInv
  <2>3. CASE c # 1
    BY <2>1, <2>3 DEF Honest, Keeps
  <2> QED
    BY <2>2, <2>3
<1> QED
  BY <1>1, <1>2, <1>3

\* A write to one channel.
LEMMA UpdateKeeps ==
  ASSUME IInv, open # {}, NEW c \in Channels, NEW ch, Step(c, chan[c], ch), Update(c, ch)
  PROVE  /\ chan' \in [Channels -> Channel]
         /\ \A d \in Channels : Fit(d, chan'[d]) /\ chan'[d].timer <= Base[d]
         /\ \A d \in Channels : Honest(d)'
         /\ stale' => chan'[1].bit /\ ~chan'[1].on
         /\ stale' \in BOOLEAN
<1>1. chan' = [chan EXCEPT ![c] = ch] /\ stale' = StillStale /\ ch \in Channel /\ chan \in [Channels -> Channel]
  BY DEF Update, Step, Fit, IInv, TypeOK
<1>2. chan' \in [Channels -> Channel]
  BY <1>1
<1>3. \A d \in Channels : Step(d, chan[d], chan'[d])
  BY <1>1, SameStep DEF IInv
<1>4. StillStale \in BOOLEAN
  BY <1>2 DEF StillStale, IInv, TypeOK, Channels, Channel
<1> QED
  BY <1>1, <1>2, <1>3, <1>4, ChannelsKeep

-----------------------------------------------------------------------------
LEMMA WriteSweepKeeps == IInv /\ WriteSweep => IInv'
<1> SUFFICES ASSUME IInv, WriteSweep PROVE IInv'
  OBVIOUS
<1>0. Silent'
  BY DEF WriteSweep, Silent
<1>1. PICK set \in SweepSettings :
        /\ Writes(0) /\ sweep' = Configure(sweep, set).sweep
        /\ Update(1, Swept(chan[1], Configure(sweep, set)))
        /\ UNCHANGED <<master, power>>
  BY DEF WriteSweep
<1>2. 1 \in Channels /\ Step(1, chan[1], Swept(chan[1], Configure(sweep, set)))
  BY SweptStep DEF IInv, Channels
<1>3. sweep' \in Sweep
  BY <1>1, ConfigureType DEF IInv, TypeOK
<1> QED
  BY <1>0, <1>1, <1>2, <1>3, WritesOpen, UpdateKeeps DEF IInv, TypeOK

LEMMA WriteLengthKeeps == IInv /\ WriteLength => IInv'
<1> SUFFICES ASSUME IInv, WriteLength PROVE IInv'
  OBVIOUS
<1>1. PICK length \in 0 .. Base[voice] - 1 :
        /\ Writes(1) /\ Update(voice, [chan[voice] EXCEPT !.timer = Base[voice] - length])
        /\ UNCHANGED <<master, power, sweep>>
  BY DEF WriteLength
<1>2. voice \in Channels /\ Fit(voice, chan[voice])
  BY DEF IInv, TypeOK
<1>3. Base[voice] - length \in Nat /\ Base[voice] - length > 0 /\ Base[voice] - length <= Base[voice]
  BY <1>2, BaseType
<1>4. Step(voice, chan[voice], [chan[voice] EXCEPT !.timer = Base[voice] - length])
  BY <1>2, <1>3 DEF Step, Fit, Keeps, Channel
<1>5. Silent'
  BY <1>1, <1>2 DEF Update, Silent, IInv, TypeOK, Channel
<1> QED
  BY <1>5, <1>1, <1>2, <1>4, WritesOpen, UpdateKeeps DEF IInv, TypeOK

LEMMA WritePowerKeeps == IInv /\ WritePower => IInv'
<1> SUFFICES ASSUME IInv, WritePower PROVE IInv'
  OBVIOUS
<1>0. Silent'
  BY DEF WritePower, Silent
<1>1. PICK p \in BOOLEAN :
        /\ Writes(IF voice = 3 THEN 0 ELSE 2) /\ power' = [power EXCEPT ![voice] = p]
        /\ Update(voice, PowerDac(voice, chan[voice], p))
        /\ UNCHANGED <<master, sweep>>
  BY DEF WritePower
<1>2. voice \in Channels /\ Step(voice, chan[voice], PowerDac(voice, chan[voice], p))
  BY PowerDacStep DEF IInv, TypeOK
<1>3. power' \in [Channels -> BOOLEAN]
  BY <1>1 DEF IInv, TypeOK
<1> QED
  BY <1>0, <1>1, <1>2, <1>3, WritesOpen, UpdateKeeps DEF IInv, TypeOK

LEMMA TunedType ==
  ASSUME NEW high \in Nat, high < HighRange, NEW low \in Nat, low < LowRange
  PROVE  (LowRange * high) + low \in Frequencies
<1>1. LowRange \in Nat \ {0} /\ HighRange \in Nat \ {0}
  BY ApuAssumption
<1>2. LowRange * (high + 1) <= LowRange * HighRange
  BY <1>1, SMT
<1>3. LowRange * (high + 1) = (LowRange * high) + LowRange
  BY <1>1, SMT
<1>4. LowRange * high \in Nat /\ LowRange * HighRange \in Nat
  BY <1>1, SMT
<1> DEFINE a == LowRange * high
           b == LowRange * HighRange
<1>5. a + LowRange <= b /\ a \in Nat /\ b \in Nat
  BY <1>2, <1>3, <1>4
<1> HIDE DEF a, b
<1>6. a + low \in 0 .. b - 1
  BY <1>1, <1>5
<1> QED
  BY <1>6 DEF a, b, Frequencies, MaxFrequency

\* A frequency is its high bits and its low register.
LEMMA FrequencyParts ==
  ASSUME NEW x \in Frequencies
  PROVE  /\ x \div LowRange \in Nat /\ x \div LowRange < HighRange
         /\ x % LowRange \in Nat /\ x % LowRange < LowRange
<1>1. LowRange \in Nat \ {0} /\ HighRange \in Nat \ {0}
  BY ApuAssumption
<1>2. x \in Nat /\ x < LowRange * HighRange
  BY <1>1 DEF Frequencies, MaxFrequency
<1> DEFINE q == x \div LowRange
           r == x % LowRange
<1>3. q \in Int /\ r \in Nat /\ r < LowRange /\ x = (LowRange * q) + r
  BY <1>1, <1>2, SMT
<1> HIDE DEF q, r
<1>4. q >= 0
  <2> SUFFICES ASSUME q <= -1 PROVE FALSE
    BY <1>3
  <2>1. LowRange * q <= -LowRange
    BY <1>1, <1>3, SMT
  <2> QED
    BY <1>1, <1>2, <1>3, <2>1
<1>5. q < HighRange
  <2> SUFFICES ASSUME q >= HighRange PROVE FALSE
    BY <1>1, <1>3
  <2>1. LowRange * q >= LowRange * HighRange
    BY <1>1, <1>3, SMT
  <2> QED
    BY <1>1, <1>2, <1>3, <2>1
<1> QED
  BY <1>3, <1>4, <1>5 DEF q, r

LEMMA WriteFrequencyKeeps == IInv /\ WriteFrequency => IInv'
<1> SUFFICES ASSUME IInv, WriteFrequency PROVE IInv'
  OBVIOUS
<1>0. Silent'
  BY DEF WriteFrequency, Silent
<1>1. PICK low \in 0 .. LowRange - 1 :
        /\ Writes(3)
        /\ sweep' = [sweep EXCEPT !.frequency = (LowRange * (sweep.frequency \div LowRange)) + low]
        /\ UNCHANGED <<master, chan, power, stale>>
  BY DEF WriteFrequency
<1>2. sweep \in Sweep /\ sweep.frequency \in Frequencies /\ low \in Nat /\ low < LowRange
  BY ApuAssumption DEF IInv, TypeOK, Sweep
<1>3. (LowRange * (sweep.frequency \div LowRange)) + low \in Frequencies
  BY <1>2, FrequencyParts, TunedType
<1>4. sweep' \in Sweep
  BY <1>1, <1>2, <1>3 DEF Sweep
<1>5. \A c \in Channels : Honest(c)'
  BY <1>1, WritesOpen DEF IInv, Honest, Dark
<1> QED
  BY <1>0, <1>1, <1>4, <1>5, WritesOpen DEF IInv, TypeOK

LEMMA WriteNoiseKeeps == IInv /\ WriteNoise => IInv'
<1> SUFFICES ASSUME IInv, WriteNoise PROVE IInv'
  OBVIOUS
<1>0. Silent'
  BY DEF WriteNoise, Silent
<1>1. PICK tooSlow \in BOOLEAN :
        /\ Writes(3) /\ Update(4, IF tooSlow THEN Disable(chan[4]) ELSE chan[4])
        /\ UNCHANGED <<master, power, sweep>>
  BY DEF WriteNoise
<1>2. 4 \in Channels /\ Step(4, chan[4], IF tooSlow THEN Disable(chan[4]) ELSE chan[4])
  BY DisableStep, SameStep DEF IInv, Channels
<1> QED
  BY <1>0, <1>1, <1>2, WritesOpen, UpdateKeeps DEF IInv, TypeOK

LEMMA WriteControlKeeps == IInv /\ WriteControl => IInv'
<1> SUFFICES ASSUME IInv, WriteControl PROVE IInv'
  OBVIOUS
<1>0. Silent'
  BY DEF WriteControl, Silent
<1>1. PICK e \in BOOLEAN, trigger \in BOOLEAN, high \in 0 .. HighRange - 1 :
        LET tuned == [sweep EXCEPT !.frequency = (LowRange * high) + (sweep.frequency % LowRange)]
            result == IF trigger THEN SweepTrigger(tuned) ELSE Running(tuned)
            ch == Control(voice, chan[voice], e, trigger, Late)
        IN  /\ Writes(4)
            /\ IF voice = 1 THEN sweep' = result.sweep /\ Update(1, Swept(ch, result))
                            ELSE Update(voice, ch) /\ UNCHANGED sweep
            /\ UNCHANGED <<master, power>>
  BY DEF WriteControl
<1> DEFINE tuned == [sweep EXCEPT !.frequency = (LowRange * high) + (sweep.frequency % LowRange)]
           result == IF trigger THEN SweepTrigger(tuned) ELSE Running(tuned)
           ch == Control(voice, chan[voice], e, trigger, Late)
<1>2. voice \in Channels /\ Fit(voice, chan[voice]) /\ Late \in BOOLEAN
  BY DEF IInv, TypeOK, Late
<1>3. Step(voice, chan[voice], ch)
  BY <1>2, ControlStep
<1>4. Step(voice, chan[voice], Swept(ch, result))
  BY <1>2, <1>3, SweptStep, StepTransitive DEF Step
<1>5. sweep \in Sweep /\ sweep.frequency \in Frequencies /\ high \in Nat /\ high < HighRange
  BY ApuAssumption DEF IInv, TypeOK, Sweep
<1>6. tuned \in Sweep
  <2>1. (LowRange * high) + (sweep.frequency % LowRange) \in Frequencies
    BY <1>5, FrequencyParts, TunedType
  <2> QED
    BY <1>5, <2>1 DEF Sweep
<1>7. result.sweep \in Sweep
  BY <1>6, SweepTriggerType DEF Running
<1> HIDE DEF result, ch
<1>8. CASE voice = 1
  BY <1>1, <1>2, <1>4, <1>7, <1>8, <1>0, WritesOpen, UpdateKeeps DEF IInv, TypeOK, result, ch
<1>9. CASE voice # 1
  BY <1>1, <1>2, <1>3, <1>9, <1>0, WritesOpen, UpdateKeeps DEF IInv, TypeOK, result, ch
<1> QED
  BY <1>8, <1>9

LEMMA ResetFit ==
  ASSUME NEW c \in Channels, NEW ch, Fit(c, ch)
  PROVE  /\ Fit(c, Reset(c, ch)) /\ ~Reset(c, ch).bit
         /\ ~Reset(c, ch).dac /\ Reset(c, ch).play
<1> DEFINE off == PowerDac(c, ch, FALSE)
           dark == [off EXCEPT !.en = FALSE, !.play = TRUE]
<1>1. off \in Channel /\ off.dac = FALSE
  BY PowerDacStep DEF Step, Fit
<1>2. Base[c] - (Base[c] - 1) = 1 /\ 1 <= Base[c]
  BY BaseType
<1>3. dark \in Channel /\ dark.dac = FALSE /\ dark.play = TRUE
  BY <1>1 DEF Channel
<1> HIDE DEF dark
<1>4. [dark EXCEPT !.bit = FALSE, !.timer = 1] \in Channel
  BY <1>3 DEF Channel
<1>5. Reset(c, ch) = [dark EXCEPT !.bit = FALSE, !.timer = 1]
  BY <1>2 DEF Reset, dark
<1> QED
  BY <1>2, <1>3, <1>4, <1>5 DEF Fit, Channel

LEMMA PowerOffKeeps == IInv /\ PowerOff => IInv'
<1> SUFFICES ASSUME IInv, PowerOff PROVE IInv'
  OBVIOUS
<1> DEFINE result == Configure(sweep, NoSweep)
           before(c) == IF c = 1 THEN Swept(chan[1], result) ELSE chan[c]
<1>1. \A c \in Channels : Fit(c, before(c))
  BY SweptStep DEF IInv, Channels, Step
<1>2. chan' = [c \in Channels |-> Reset(c, before(c))]
  BY DEF PowerOff
<1> HIDE DEF before
<1>3. \A c \in Channels : Fit(c, chan'[c]) /\ ~chan'[c].bit /\ ~chan'[c].dac
  BY <1>1, <1>2, ResetFit
<1>4. chan' \in [Channels -> Channel]
  BY <1>2, <1>3 DEF Fit
<1>5. stale' = FALSE
  <2>1. 1 \in Channels
    BY DEF Channels
  <2>2. ~chan'[1].bit
    BY <1>3, <2>1
  <2>3. stale' = StillStale
    BY DEF PowerOff
  <2> QED
    BY <2>2, <2>3 DEF StillStale
<1>6. result.sweep \in Sweep
  BY ConfigureType DEF IInv, TypeOK
<1> HIDE DEF result
<1>7. 0 \in Frequencies
  BY ApuAssumption DEF Frequencies, MaxFrequency
<1>8. sweep' = [result.sweep EXCEPT !.frequency = 0]
  BY DEF PowerOff, result
<1>9. sweep' \in Sweep
  BY <1>6, <1>7, <1>8 DEF Sweep
<1>10. master' = FALSE /\ open' = {} /\ UNCHANGED <<step, voice, quiet>>
  BY WritesOpen DEF PowerOff
<1>11. power' \in [Channels -> BOOLEAN]
  BY DEF PowerOff
<1>12. \A c \in Channels : Honest(c)' \/ Dark(c)'
  BY <1>3, <1>5, <1>10 DEF Honest, Dark
<1>13. Silent'
  BY <1>3 DEF Silent
<1> QED
  BY <1>13, <1>3, <1>4, <1>5, <1>9, <1>10, <1>11, <1>12 DEF IInv, TypeOK, Fit

LEMMA PowerOnKeeps == IInv /\ PowerOn => IInv'
<1> SUFFICES ASSUME IInv, PowerOn PROVE IInv'
  OBVIOUS
<1>1. \A c \in Channels : Honest(c)'
  BY RegistersOpen DEF IInv, Honest, Dark, PowerOn
<1>2. Silent'
  BY DEF PowerOn, Silent
<1> QED
  BY <1>1, <1>2 DEF IInv, TypeOK, PowerOn

LEMMA StopKeeps == IInv /\ Stop => IInv'
BY DEF IInv, TypeOK, Stop, Honest, Dark, Silent

LEMMA ChannelTickStep ==
  ASSUME NEW c \in Channels, NEW ch, Fit(c, ch)
  PROVE  /\ Step(c, ch, ChannelTick(ch))
         /\ ch.on /\ ~ch.dac => ~ChannelTick(ch).on /\ ~ChannelTick(ch).bit
         /\ ~ch.bit => ~ChannelTick(ch).bit
BY DisableStep, SameStep DEF ChannelTick

\* After a cycle nothing is pending: a dark channel goes off, the others keep.
LEMMA CycleKeeps ==
  ASSUME IInv, open' = Registers, stale' = StillStale,
         chan' \in [Channels -> Channel],
         \A c \in Channels : /\ Step(c, chan[c], chan'[c])
                             /\ chan[c].on /\ ~chan[c].dac => ~chan'[c].on /\ ~chan'[c].bit
  PROVE  /\ \A c \in Channels : Fit(c, chan'[c]) /\ chan'[c].timer <= Base[c]
         /\ \A c \in Channels : Honest(c)'
         /\ stale' => chan'[1].bit /\ ~chan'[1].on
         /\ stale' \in BOOLEAN
<1>1. \A c \in Channels : Fit(c, chan'[c]) /\ chan'[c].timer <= Base[c]
  BY DEF Step, Fit
<1>2. stale' => chan'[1].bit /\ ~chan'[1].on
  BY DEF StillStale
<1>3. ASSUME NEW c \in Channels PROVE Honest(c)'
  <2>1. Keeps(chan[c], chan'[c])
    BY DEF Step
  <2>2. CASE Dark(c)
    <3>1. ~chan'[c].on /\ ~chan'[c].bit
      BY <2>2 DEF Dark
    <3>2. c = 1 => ~stale
      BY <2>2 DEF IInv, Dark
    <3> QED
      BY <3>1, <3>2 DEF Honest, StillStale
  <2>3. CASE Honest(c) /\ c = 1
    BY <2>1, <2>3 DEF Honest, Keeps, StillStale, IInv
  <2>4. CASE Honest(c) /\ c # 1
    BY <2>1, <2>4 DEF Honest, Keeps
  <2> QED
    BY <2>2, <2>3, <2>4 DEF IInv
<1>4. stale' \in BOOLEAN
  BY DEF StillStale, IInv, TypeOK, Channels, Channel
<1> QED
  BY <1>1, <1>2, <1>3, <1>4

LEMMA TickKeeps == IInv /\ Tick => IInv'
<1> SUFFICES ASSUME IInv, Tick PROVE IInv'
  OBVIOUS
<1>1. chan' = [c \in Channels |-> ChannelTick(chan[c])] /\ open' = Registers
      /\ UNCHANGED <<master, step, power, sweep, stale, voice, quiet>>
  BY DEF Tick
<1>2. \A c \in Channels : /\ Step(c, chan[c], chan'[c])
                          /\ chan[c].on /\ ~chan[c].dac => ~chan'[c].on /\ ~chan'[c].bit
  BY <1>1, ChannelTickStep DEF IInv
<1>3. chan' \in [Channels -> Channel]
  BY <1>1, <1>2 DEF Step, Fit
<1>4. stale' = StillStale
  <2>1. CASE stale
    <3>1. ~chan[1].on /\ chan[1].bit
      BY <2>1 DEF IInv
    <3>2. chan'[1] = chan[1]
      BY <1>1, <3>1 DEF ChannelTick, Channels
    <3> QED
      BY <1>1, <2>1, <3>1, <3>2 DEF StillStale, IInv, TypeOK
  <2>2. CASE ~stale
    BY <1>1, <2>2 DEF StillStale, IInv, TypeOK
  <2> QED
    BY <2>1, <2>2
<1>5. Silent'
  BY <1>1, ChannelTickStep DEF Silent, IInv
<1> QED
  BY <1>5, <1>1, <1>2, <1>3, <1>4, CycleKeeps DEF IInv, TypeOK

LEMMA SequencerTickKeeps == IInv /\ SequencerTick => IInv'
<1> SUFFICES ASSUME IInv, SequencerTick PROVE IInv'
  OBVIOUS
<1> DEFINE counted(c) == IF step % 2 = 0 THEN LengthTick(chan[c]) ELSE chan[c]
           result == IF step \in {2, 6} THEN SweepTick(sweep) ELSE Running(sweep)
           clocked(c) == IF c = 1 THEN Swept(counted(1), result) ELSE counted(c)
<1>1. /\ chan' = [c \in Channels |-> ChannelTick(clocked(c))] /\ open' = Registers
      /\ sweep' = result.sweep /\ step' = (step + 1) % 8 /\ stale' = StillStale
      /\ UNCHANGED <<master, power, voice, quiet>>
  BY DEF SequencerTick
<1>2. result.sweep \in Sweep
  BY SweepTickType DEF Running, IInv, TypeOK
<1>3. ASSUME NEW c \in Channels
      PROVE  /\ Step(c, chan[c], counted(c)) /\ (counted(c).on => counted(c).dac = chan[c].dac)
             /\ ~chan[c].bit => ~counted(c).bit
  <2>1. Fit(c, chan[c]) /\ chan[c] \in Channel
    BY DEF IInv, Fit
  <2>2. Step(c, chan[c], counted(c))
    BY <2>1, LengthTickStep, SameStep
  <2>3. counted(c).on => counted(c).dac = chan[c].dac
    BY <2>1 DEF LengthTick, Disable, Channel
  <2>4. ~chan[c].bit => ~counted(c).bit
    BY <2>1 DEF LengthTick, Disable, Channel
  <2> QED
    BY <2>2, <2>3, <2>4
<1> HIDE DEF counted, result
<1>4. ASSUME NEW c \in Channels
      PROVE  /\ Step(c, chan[c], clocked(c)) /\ (clocked(c).on => clocked(c).dac = chan[c].dac)
             /\ ~chan[c].bit => ~clocked(c).bit
  <2>1. CASE c = 1
    <3>1. Fit(1, counted(1)) /\ 1 \in Channels
      BY <1>3, <2>1 DEF Step
    <3>2. Step(1, counted(1), Swept(counted(1), result))
      BY <3>1, SweptStep
    <3>3. Step(1, chan[1], Swept(counted(1), result))
      BY <1>3, <2>1, <3>2, StepTransitive
    <3>4. Swept(counted(1), result).on => Swept(counted(1), result) = counted(1)
      BY <3>1, DisableStep DEF Swept
    <3>5. ~counted(1).bit => ~Swept(counted(1), result).bit
      BY <3>1, DisableStep DEF Swept
    <3> QED
      BY <1>3, <2>1, <3>3, <3>4, <3>5
  <2>2. CASE c # 1
    BY <1>3, <2>2
  <2> QED
    BY <2>1, <2>2
<1> HIDE DEF clocked
<1>5. ASSUME NEW c \in Channels
      PROVE  /\ Step(c, chan[c], chan'[c])
             /\ chan[c].on /\ ~chan[c].dac => ~chan'[c].on /\ ~chan'[c].bit
  <2>1. Fit(c, clocked(c)) /\ chan'[c] = ChannelTick(clocked(c))
    BY <1>1, <1>4 DEF Step
  <2>2. Step(c, chan[c], chan'[c])
    BY <1>4, <2>1, ChannelTickStep, StepTransitive
  <2>3. chan[c].on /\ ~chan[c].dac => ~chan'[c].on /\ ~chan'[c].bit
    <3> SUFFICES ASSUME chan[c].on, ~chan[c].dac PROVE ~chan'[c].on /\ ~chan'[c].bit
      OBVIOUS
    <3>1. CASE clocked(c).on
      BY <1>4, <2>1, <3>1, ChannelTickStep
    <3>2. CASE ~clocked(c).on
      <4>1. ~clocked(c).bit
        BY <1>4, <3>2 DEF Step, Keeps
      <4> QED
        BY <2>1, <3>2, <4>1 DEF ChannelTick
    <3> QED
      BY <3>1, <3>2
  <2> QED
    BY <2>2, <2>3
<1>6. chan' \in [Channels -> Channel]
  BY <1>1, <1>5 DEF Step, Fit
<1>7. step' \in 0 .. 7
  BY <1>1 DEF IInv, TypeOK
<1>8. ASSUME NEW c \in Channels, ~chan[c].bit PROVE ~chan'[c].bit
  BY <1>1, <1>4, <1>8, ChannelTickStep DEF Step
<1>9. Silent'
  BY <1>1, <1>8 DEF Silent, IInv
<1> QED
  BY <1>9, <1>1, <1>2, <1>5, <1>6, <1>7, CycleKeeps DEF IInv, TypeOK

\* A load leaves a channel fit, and on with its bit set if the master is on.
LEMMA RestoredFit ==
  ASSUME IInv, NEW c \in Channels
  PROVE  /\ Fit(c, Restored(c)) /\ Restored(c).play \in BOOLEAN
         /\ master => Restored(c).on /\ Restored(c).bit /\ Restored(c).play
         /\ ~master => ~Restored(c).on /\ Restored(c).bit = chan[c].bit
<1> DEFINE heard == [Fresh EXCEPT !.bit = chan[c].bit, !.timer = Base[c] - (Base[c] - 1)]
           powered == PowerDac(c, heard, power[c])
           set == LengthEnable(powered, chan[c].en, FALSE)
           started == LengthTrigger(c, EnableChannel(set), FALSE)
<1>1. chan[c].bit \in BOOLEAN /\ chan[c].en \in BOOLEAN /\ power[c] \in BOOLEAN
  BY DEF IInv, TypeOK, Channel
<1>2. Base[c] - (Base[c] - 1) = 1 /\ 1 <= Base[c]
  BY BaseType
<1>3. heard \in Channel /\ heard.timer = 1 /\ ~heard.on /\ heard.bit = chan[c].bit
  <2>1. heard = [on |-> FALSE, bit |-> chan[c].bit, dac |-> FALSE, timer |-> 1, en |-> FALSE, play |-> FALSE]
    <3>1. heard = [Fresh EXCEPT !.bit = chan[c].bit, !.timer = 1]
      BY <1>2
    <3> HIDE DEF heard
    <3> QED
      BY <3>1 DEF Fresh
  <2> HIDE DEF heard
  <2> QED
    BY <1>1, <2>1 DEF Channel
<1>4. Fit(c, heard)
  BY <1>2, <1>3 DEF Fit
<1> HIDE DEF heard
<1>5. powered \in Channel /\ powered.timer = 1
  BY <1>1, <1>3 DEF PowerDac, Disable, Channel
<1> HIDE DEF powered
<1>6. set = [powered EXCEPT !.en = chan[c].en, !.play = TRUE]
  BY DEF LengthEnable
<1>7. set \in Channel /\ set.timer = 1 /\ set.play
  BY <1>1, <1>5, <1>6 DEF Channel
<1> HIDE DEF set
<1>8. started = [set EXCEPT !.on = TRUE, !.bit = TRUE]
  <2>1. EnableChannel(set).timer = 1
    BY <1>7 DEF EnableChannel, Channel
  <2>2. started = EnableChannel(set)
    BY <2>1 DEF LengthTrigger
  <2> QED
    BY <2>2 DEF EnableChannel
<1> HIDE DEF started
<1>9. Fit(c, started) /\ started.on /\ started.bit /\ started.play
  <2>1. started \in Channel /\ started.timer = 1 /\ started.on /\ started.bit /\ started.play
    BY <1>7, <1>8 DEF Channel
  <2> QED
    BY <1>2, <2>1 DEF Fit
<1>10. Restored(c) = IF master THEN started ELSE heard
  BY DEF Restored, Control, started, set, powered, heard
<1> QED
  BY <1>3, <1>4, <1>9, <1>10 DEF Fit, Channel

LEMMA ReloadKeeps == IInv /\ Reload => IInv'
<1> SUFFICES ASSUME IInv, Reload PROVE IInv'
  OBVIOUS
<1> DEFINE tuned == [FreshSweep EXCEPT !.set = sweep.set, !.frequency = MaxFrequency]
           result == SweepTrigger(tuned)
           left(c) == IF c = 1 /\ master THEN Swept(Restored(1), result) ELSE Restored(c)
<1>1. /\ open = Registers /\ step' = 0 /\ open' = {} /\ stale' = StillStale
      /\ chan' = [c \in Channels |-> left(c)]
      /\ sweep' = (IF master THEN result.sweep ELSE FreshSweep)
      /\ UNCHANGED <<master, power, voice, quiet>>
  BY DEF Reload
<1>2. MaxFrequency \in Frequencies /\ 0 \in Frequencies
  BY ApuAssumption DEF Frequencies, MaxFrequency
<1>3. FreshSweep \in Sweep /\ tuned \in Sweep
  <2>1. FreshSweep \in Sweep
    BY <1>2, ApuAssumption DEF FreshSweep, Sweep
  <2>2. sweep.set \in SweepSettings \cup {NoSweep}
    BY DEF IInv, TypeOK, Sweep
  <2> QED
    BY <1>2, <2>1, <2>2 DEF Sweep
<1>4. sweep' \in Sweep
  BY <1>1, <1>3, SweepTriggerType
<1> HIDE DEF tuned, result
<1>5. ASSUME NEW c \in Channels
      PROVE  /\ Fit(c, left(c))
             /\ master => (left(c).bit <=> left(c).on)
             /\ ~master => ~left(c).on /\ left(c).bit = chan[c].bit
  <2>1. CASE c = 1 /\ master
    <3>1. Swept(Restored(1), result) = Restored(1) \/ Swept(Restored(1), result) = Disable(Restored(1))
      BY DEF Swept
    <3>2. Fit(1, Restored(1)) /\ Restored(1).on /\ Restored(1).bit
      BY <2>1, RestoredFit
    <3>3. Fit(1, Disable(Restored(1))) /\ ~Disable(Restored(1)).on /\ ~Disable(Restored(1)).bit
      BY <2>1, <3>2, DisableStep DEF Step
    <3> QED
      BY <2>1, <3>1, <3>2, <3>3
  <2>2. CASE ~(c = 1 /\ master)
    BY <2>2, RestoredFit
  <2> QED
    BY <2>1, <2>2
<1> HIDE DEF left
<1>6. \A c \in Channels : chan'[c] = left(c) /\ Fit(c, chan'[c])
  BY <1>1, <1>5
<1>7. chan' \in [Channels -> Channel]
  BY <1>1, <1>5 DEF Fit
<1>8. Silent'
  BY <1>1, <1>5, <1>6 DEF Silent, IInv
<1>9. stale' \in BOOLEAN /\ (stale' => stale /\ chan'[1].bit /\ ~chan'[1].on)
  BY <1>1, <1>7 DEF StillStale, IInv, TypeOK, Channels, Channel
<1>10. ASSUME NEW c \in Channels PROVE Honest(c)'
  <2>1. CASE master
    <3>1. chan'[c].bit <=> chan'[c].on
      BY <2>1, <1>5, <1>6
    <3>2. c = 1 => ~stale'
      BY <3>1, <1>9
    <3> QED
      BY <3>1, <3>2 DEF Honest
  <2>2. CASE ~master
    <3>1. ~chan[c].bit /\ ~chan'[c].bit /\ ~chan'[c].on
      BY <2>2, <1>5, <1>6 DEF Silent, IInv
    <3>2. c = 1 => ~stale'
      BY <3>1, <1>9
    <3> QED
      BY <3>1, <3>2 DEF Honest
  <2> QED
    BY <2>1, <2>2
<1> QED
  BY <1>1, <1>4, <1>6, <1>7, <1>8, <1>9, <1>10 DEF IInv, TypeOK, Fit

LEMMA NextKeeps == IInv /\ [Next]_vars => IInv'
<1> SUFFICES ASSUME IInv, [Next]_vars PROVE IInv'
  OBVIOUS
<1>1. CASE UNCHANGED vars
  BY <1>1 DEF vars, IInv, TypeOK, Honest, Dark, Silent
<1>2. CASE Next
  BY <1>2, WriteSweepKeeps, WriteLengthKeeps, WritePowerKeeps, WriteFrequencyKeeps, WriteNoiseKeeps,
     WriteControlKeeps, PowerOffKeeps, PowerOnKeeps, StopKeeps, TickKeeps, SequencerTickKeeps,
     ReloadKeeps DEF Next
<1> QED
  BY <1>1, <1>2

LEMMA Inductive == Spec => []IInv
<1>1. Init => IInv
  BY InitInvariant
<1>2. IInv /\ [Next]_vars => IInv'
  BY NextKeeps
<1> QED
  BY <1>1, <1>2, PTL DEF Spec

\* Every counter stays within its channel's length and every sweep frequency
\* within the registers' bits, whatever the program writes and however often a
\* state is loaded.
THEOREM TypeCorrect == Spec => []TypeOK
<1>1. IInv => TypeOK
  BY DEF IInv
<1> QED
  BY <1>1, Inductive, PTL

\* NR52 tells the truth between cycles, for every length and sweep.
THEOREM StatusIsTrueAlways == Spec => []StatusIsTrue
<1>1. IInv => StatusIsTrue
  BY RegistersOpen DEF IInv, Dark, Honest, StatusIsTrue
<1> QED
  BY <1>1, Inductive, PTL

-----------------------------------------------------------------------------
(* Only the write that uses up a counter's last tick mutes a channel. *)

Muted(ch) == ch.on /\ ~ch.play

LEMMA DisableMute ==
  ASSUME NEW ch \in Channel  PROVE ~Muted(Disable(ch))
BY DEF Muted, Disable, Channel

\* What a clock leaves alone.
LEMMA LengthTickLeaves ==
  ASSUME NEW ch \in Channel
  PROVE  /\ LengthTick(ch).en = ch.en
         /\ ch.timer # 1 => LengthTick(ch).play = ch.play
         /\ LengthTick(ch).on => ch.on /\ LengthTick(ch).play = ch.play
<1> DEFINE last == [Disable(ch) EXCEPT !.timer = 0, !.play = FALSE]
           less == [ch EXCEPT !.timer = @ - 1]
<1>0. ch.timer \in Nat /\ ch.en \in BOOLEAN
  BY DEF Channel
<1>1. CASE ch.timer = 0 \/ ~ch.en
  <2>1. LengthTick(ch) = ch
    BY <1>0, <1>1 DEF LengthTick
  <2> QED
    BY <2>1
<1>2. CASE ch.en /\ ch.timer = 1
  <2>1. LengthTick(ch) = last
    BY <1>0, <1>2 DEF LengthTick
  <2>2. Disable(ch) \in Channel /\ ~Disable(ch).on /\ Disable(ch).en = ch.en
    BY DEF Disable, Channel
  <2>3. ~last.on /\ last.en = ch.en
    BY <2>2 DEF Channel
  <2> QED
    BY <1>2, <2>1, <2>3
<1>3. CASE ch.en /\ ch.timer > 1
  <2>1. LengthTick(ch) = less
    BY <1>0, <1>3 DEF LengthTick
  <2>2. less.en = ch.en /\ less.play = ch.play /\ less.on = ch.on
    BY DEF Channel
  <2> QED
    BY <2>1, <2>2
<1> QED
  BY <1>0, <1>1, <1>2, <1>3

LEMMA LengthTickMute ==
  ASSUME NEW ch \in Channel  PROVE Muted(LengthTick(ch)) => Muted(ch)
BY LengthTickLeaves DEF Muted

LEMMA SweptMute ==
  ASSUME NEW ch \in Channel, NEW result  PROVE Muted(Swept(ch, result)) => Muted(ch)
BY DisableMute DEF Swept

LEMMA ChannelTickMute ==
  ASSUME NEW ch \in Channel  PROVE Muted(ChannelTick(ch)) => Muted(ch)
BY DisableMute DEF ChannelTick

LEMMA PowerDacMute ==
  ASSUME NEW c, NEW ch \in Channel, NEW p \in BOOLEAN  PROVE Muted(PowerDac(c, ch, p)) => Muted(ch)
BY DEF PowerDac, Muted, Disable, Channel

\* A control write mutes only by the clock it gives a counter at 1.
LEMMA ControlMute ==
  ASSUME NEW c \in Channels, NEW ch, Fit(c, ch),
         NEW e \in BOOLEAN, NEW trigger \in BOOLEAN, NEW late \in BOOLEAN,
         Muted(Control(c, ch, e, trigger, late))
  PROVE  late /\ e /\ ~ch.en /\ ch.timer = 1 /\ Control(c, ch, e, trigger, late).en
<1> DEFINE started == [ch EXCEPT !.en = e, !.play = TRUE]
           set == LengthEnable(ch, e, late)
           begun == EnableChannel(set)
           full == [begun EXCEPT !.timer = Base[c]]
<1>1. started \in Channel /\ started.play /\ started.en = e /\ started.timer = ch.timer
  BY DEF Fit, Channel
<1> HIDE DEF started
<1>2. set = (IF e /\ ~ch.en /\ late THEN LengthTick(started) ELSE started)
  BY DEF LengthEnable, started
<1>3. set \in Channel
  BY LengthEnableStep DEF Step, Fit
<1>4. set.en = e /\ (~set.play => late /\ e /\ ~ch.en /\ ch.timer = 1)
  <2>1. CASE e /\ ~ch.en /\ late
    BY <1>1, <1>2, <2>1, LengthTickLeaves
  <2>2. CASE ~(e /\ ~ch.en /\ late)
    BY <1>1, <1>2, <2>2
  <2> QED
    BY <2>1, <2>2
<1> HIDE DEF set
<1>5. begun \in Channel /\ begun.play = set.play /\ begun.en = e /\ begun.timer = set.timer
  BY <1>3, <1>4 DEF EnableChannel, Channel
<1> HIDE DEF begun
<1>6. full \in Channel /\ full.play = set.play /\ full.en = e /\ full.timer = Base[c]
  BY <1>5, BaseType DEF Channel
<1> HIDE DEF full
<1>7. LengthTick(full).play = set.play /\ LengthTick(full).en = e
  BY <1>6, BaseType, LengthTickLeaves
<1>8. LengthTrigger(c, begun, late) \in {begun, full, LengthTick(full)}
  BY <1>5 DEF LengthTrigger, full, Channel
<1>9. Control(c, ch, e, trigger, late) = (IF trigger THEN LengthTrigger(c, begun, late) ELSE set)
  BY DEF Control, begun, set
<1> HIDE DEF Control, LengthTrigger
<1>10. Control(c, ch, e, trigger, late).play = set.play /\ Control(c, ch, e, trigger, late).en = e
  BY <1>4, <1>5, <1>6, <1>7, <1>8, <1>9
<1>11. ~set.play
  BY <1>10 DEF Muted
<1> QED
  BY <1>4, <1>10, <1>11

ByLastTick(c) == step % 2 = 1 /\ chan[c].timer = 1 /\ ~chan[c].en /\ chan'[c].en

LEMMA UpdateMutes ==
  ASSUME IInv, NEW c \in Channels, NEW ch, Update(c, ch),
         Muted(ch) /\ ~Muted(chan[c]) => step % 2 = 1 /\ chan[c].timer = 1 /\ ~chan[c].en /\ ch.en
  PROVE  \A d \in Channels : Muted(chan'[d]) /\ ~Muted(chan[d]) => ByLastTick(d)
BY DEF Update, ByLastTick, IInv, TypeOK

LEMMA ControlMutes ==
  ASSUME IInv, WriteControl
  PROVE  \A c \in Channels : Muted(chan'[c]) /\ ~Muted(chan[c]) => ByLastTick(c)
<1>1. PICK e \in BOOLEAN, trigger \in BOOLEAN, high \in 0 .. HighRange - 1 :
        LET tuned == [sweep EXCEPT !.frequency = (LowRange * high) + (sweep.frequency % LowRange)]
            result == IF trigger THEN SweepTrigger(tuned) ELSE Running(tuned)
            ch == Control(voice, chan[voice], e, trigger, Late)
        IN  IF voice = 1 THEN Update(1, Swept(ch, result)) ELSE Update(voice, ch)
  BY DEF WriteControl
<1> DEFINE tuned == [sweep EXCEPT !.frequency = (LowRange * high) + (sweep.frequency % LowRange)]
           result == IF trigger THEN SweepTrigger(tuned) ELSE Running(tuned)
           ch == Control(voice, chan[voice], e, trigger, Late)
<1>2. voice \in Channels /\ Fit(voice, chan[voice]) /\ Late \in BOOLEAN
  BY DEF IInv, TypeOK, Late
<1>3. ch \in Channel
  BY <1>2, ControlStep DEF Step, Fit
<1>4. Muted(ch) => step % 2 = 1 /\ chan[voice].timer = 1 /\ ~chan[voice].en /\ ch.en
  BY <1>2, ControlMute DEF Late
<1> HIDE DEF ch, result
<1>5. CASE voice = 1
  <2>1. Update(1, Swept(ch, result))
    BY <1>1, <1>5 DEF ch, result
  <2>2. Muted(Swept(ch, result)) => Muted(ch) /\ Swept(ch, result) = ch
    BY <1>3, SweptMute, DisableMute DEF Swept
  <2> QED
    BY <1>2, <1>4, <1>5, <2>1, <2>2, UpdateMutes
<1>6. CASE voice # 1
  <2>1. Update(voice, ch)
    BY <1>1, <1>6 DEF ch, result
  <2> QED
    BY <1>2, <1>4, <2>1, UpdateMutes
<1> QED
  BY <1>5, <1>6

\* Writes other than control writes do not mute.
LEMMA WritesMute ==
  ASSUME IInv, WriteSweep \/ WriteLength \/ WritePower \/ WriteFrequency \/ WriteNoise
  PROVE  \A c \in Channels : Muted(chan'[c]) => Muted(chan[c])
<1>1. chan \in [Channels -> Channel] /\ voice \in Channels /\ 1 \in Channels /\ 4 \in Channels
  BY DEF IInv, TypeOK, Channels
<1>2. CASE WriteSweep
  <2>1. PICK set \in SweepSettings : chan' = [chan EXCEPT ![1] = Swept(chan[1], Configure(sweep, set))]
    BY <1>2 DEF WriteSweep, Update
  <2> QED
    BY <1>1, <2>1, SweptMute
<1>3. CASE WriteLength
  <2>1. PICK length \in 0 .. Base[voice] - 1 :
          chan' = [chan EXCEPT ![voice] = [chan[voice] EXCEPT !.timer = Base[voice] - length]]
    BY <1>3 DEF WriteLength, Update
  <2> QED
    BY <1>1, <2>1 DEF Muted, Channel
<1>4. CASE WritePower
  <2>1. PICK p \in BOOLEAN : chan' = [chan EXCEPT ![voice] = PowerDac(voice, chan[voice], p)]
    BY <1>4 DEF WritePower, Update
  <2> QED
    BY <1>1, <2>1, PowerDacMute
<1>5. CASE WriteFrequency
  BY <1>5 DEF WriteFrequency
<1>6. CASE WriteNoise
  <2>1. PICK tooSlow \in BOOLEAN : chan' = [chan EXCEPT ![4] = IF tooSlow THEN Disable(chan[4]) ELSE chan[4]]
    BY <1>6 DEF WriteNoise, Update
  <2> QED
    BY <1>1, <2>1, DisableMute
<1> QED
  BY <1>2, <1>3, <1>4, <1>5, <1>6

\* Neither do the master switch, the clocks or a load.
LEMMA OthersMute ==
  ASSUME IInv, PowerOff \/ PowerOn \/ Stop \/ Tick \/ SequencerTick \/ Reload
  PROVE  \A c \in Channels : Muted(chan'[c]) => Muted(chan[c])
<1>1. \A c \in Channels : Fit(c, chan[c]) /\ chan[c] \in Channel
  BY DEF IInv, TypeOK
<1>2. CASE PowerOff
  <2> DEFINE before(c) == IF c = 1 THEN Swept(chan[1], Configure(sweep, NoSweep)) ELSE chan[c]
  <2>1. \A c \in Channels : Fit(c, before(c))
    BY <1>1, SweptStep DEF Channels, Step
  <2>2. chan' = [c \in Channels |-> Reset(c, before(c))]
    BY <1>2 DEF PowerOff
  <2> HIDE DEF before
  <2> QED
    BY <2>1, <2>2, ResetFit DEF Muted
<1>3. CASE PowerOn \/ Stop
  BY <1>3 DEF PowerOn, Stop
<1>4. CASE Tick
  BY <1>1, <1>4, ChannelTickMute DEF Tick
<1>5. CASE SequencerTick
  <2> DEFINE counted(c) == IF step % 2 = 0 THEN LengthTick(chan[c]) ELSE chan[c]
             result == IF step \in {2, 6} THEN SweepTick(sweep) ELSE Running(sweep)
             clocked(c) == IF c = 1 THEN Swept(counted(1), result) ELSE counted(c)
  <2>1. chan' = [c \in Channels |-> ChannelTick(clocked(c))]
    BY <1>5 DEF SequencerTick
  <2>2. \A c \in Channels : Fit(c, counted(c)) /\ counted(c) \in Channel /\ (Muted(counted(c)) => Muted(chan[c]))
    BY <1>1, LengthTickStep, LengthTickMute DEF Step, Fit
  <2> HIDE DEF counted, result
  <2>3. \A c \in Channels : clocked(c) \in Channel /\ (Muted(clocked(c)) => Muted(chan[c]))
    <3>1. 1 \in Channels
      BY DEF Channels
    <3>2. Swept(counted(1), result) \in Channel
      BY <2>2, <3>1, SweptStep DEF Step, Fit
    <3> QED
      BY <2>2, <3>1, <3>2, SweptMute
  <2> HIDE DEF clocked
  <2> QED
    BY <2>1, <2>3, ChannelTickMute
<1>6. CASE Reload
  <2> DEFINE result == SweepTrigger([FreshSweep EXCEPT !.set = sweep.set, !.frequency = MaxFrequency])
             left(c) == IF c = 1 /\ master THEN Swept(Restored(1), result) ELSE Restored(c)
  <2>1. chan' = [c \in Channels |-> left(c)]
    BY <1>6 DEF Reload
  <2> HIDE DEF result
  <2>2. \A c \in Channels : Restored(c) \in Channel /\ ~Muted(Restored(c))
    BY RestoredFit DEF Fit, Muted, IInv, TypeOK
  <2>3. \A c \in Channels : ~Muted(left(c))
    BY <2>2, SweptMute DEF Channels
  <2> HIDE DEF left
  <2> QED
    BY <2>1, <2>3
<1> QED
  BY <1>2, <1>3, <1>4, <1>5, <1>6

\* should_play_ mutes a channel that is on only by the write that enabled its
\* length counter, used up its last tick and triggered the channel.
THEOREM MutedOnlyByLastTickAlways == Spec => MutedOnlyByLastTick
<1> DEFINE A == \A c \in Channels :
                  (chan'[c].on /\ ~chan'[c].play /\ ~(chan[c].on /\ ~chan[c].play)) =>
                    step % 2 = 1 /\ chan[c].timer = 1 /\ ~chan[c].en /\ chan'[c].en
<1>1. IInv /\ [Next]_vars => [A]_vars
  <2> SUFFICES ASSUME IInv, Next PROVE A
    BY DEF vars
  <2>1. \A c \in Channels : Muted(chan'[c]) /\ ~Muted(chan[c]) => ByLastTick(c)
    <3>1. CASE WriteControl
      BY <3>1, ControlMutes
    <3>2. CASE WriteSweep \/ WriteLength \/ WritePower \/ WriteFrequency \/ WriteNoise
      BY <3>2, WritesMute
    <3>3. CASE PowerOff \/ PowerOn \/ Stop \/ Tick \/ SequencerTick \/ Reload
      BY <3>3, OthersMute
    <3> QED
      BY <3>1, <3>2, <3>3 DEF Next
  <2> QED
    BY <2>1 DEF Muted, ByLastTick
<1> QED
  BY <1>1, Inductive, PTL DEF Spec, MutedOnlyByLastTick
=============================================================================
