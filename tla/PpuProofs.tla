------------------------------- MODULE PpuProofs -------------------------------
(***************************************************************************)
(* Ppu for every timing that satisfies PpuAssumption: the STAT line caches *)
(* are coherent, no postponed interrupt leaves its HBlank, mode and line   *)
(* agree, and the beam moves like Raster's.  Then OamDma, the PPU memory's *)
(* transfers, for every length, number and spacing of them that satisfies  *)
(* OamDmaAssumption.                                                       *)
(***************************************************************************)
EXTENDS Ppu, OamDma, SequenceTheorems, TLAPS

-----------------------------------------------------------------------------
\* What the STAT operators do to the record, one lemma per function of ppu.cpp.
Coherent(s) == s.high = ShouldFire(s) /\ s.same = (s.ly = s.lyc)

\* The registers, everything but the interrupt outputs.
SameRegisters(s, t) ==
  /\ s.bits = t.bits /\ s.same = t.same /\ s.ints = t.ints
  /\ s.ly = t.ly /\ s.lyc = t.lyc

LEMMA ShouldFireBoolean ==
  ASSUME NEW v \in IO
  PROVE  ShouldFire(v) \in BOOLEAN
BY DEF ShouldFire

LEMMA FireFacts ==
  ASSUME NEW s \in IO, NEW was \in BOOLEAN, NEW now \in BOOLEAN, NEW m, NEW asleep \in BOOLEAN
  PROVE  LET t == Fire(s, was, now, m, asleep)
         IN  /\ t \in IO
             /\ SameRegisters(s, t) /\ t.high = s.high
             /\ t.late => s.late \/ (~was /\ m = "HBlank" /\ "HBlank" \in s.ints)
             /\ s.request => t.request
             /\ ~was /\ now => t.request \/ t.late
             /\ s.late => t.late
<1>1. CASE was \/ ~now
  BY <1>1 DEF Fire, SameRegisters
<1>2. CASE ~was /\ now /\ asleep /\ m = "HBlank" /\ "HBlank" \in s.ints
  <2>1. Fire(s, was, now, m, asleep) = [s EXCEPT !.late = TRUE]
    BY <1>2 DEF Fire
  <2>2. QED
    BY <1>2, <2>1 DEF IO, SameRegisters
<1>3. CASE ~was /\ now /\ ~(asleep /\ m = "HBlank" /\ "HBlank" \in s.ints)
  <2>1. Fire(s, was, now, m, asleep) = [s EXCEPT !.request = TRUE]
    BY <1>3 DEF Fire
  <2>2. QED
    BY <1>3, <2>1 DEF IO, SameRegisters
<1>4. QED
  BY <1>1, <1>2, <1>3

LEMMA DriveFacts ==
  ASSUME NEW s \in IO, NEW v \in IO, NEW m, NEW asleep \in BOOLEAN
  PROVE  LET t == Drive(s, v, m, asleep)
         IN  /\ t \in IO
             /\ SameRegisters(s, t) /\ t.high = ShouldFire(v)
             /\ t.late => s.late \/ (~s.high /\ m = "HBlank" /\ "HBlank" \in s.ints)
             /\ s.request => t.request
             /\ ~s.high /\ t.high => t.request \/ t.late
             /\ s.late => t.late
<1>1. DEFINE u == [s EXCEPT !.high = ShouldFire(v)]
<1>2. u \in IO /\ SameRegisters(s, u) /\ u.high = ShouldFire(v)
      /\ u.late = s.late /\ u.request = s.request
  BY ShouldFireBoolean DEF IO, SameRegisters
<1>3. s.high \in BOOLEAN /\ ShouldFire(v) \in BOOLEAN
  BY ShouldFireBoolean DEF IO
<1>4. Drive(s, v, m, asleep) = Fire(u, s.high, ShouldFire(v), m, asleep)
  BY DEF Drive
<1> HIDE DEF u
<1>5. QED
  BY <1>2, <1>3, <1>4, FireFacts DEF SameRegisters

LEMMA CompareFacts ==
  ASSUME NEW s \in IO, NEW ly \in LyValues, NEW lyc \in LyValues, NEW m, NEW asleep \in BOOLEAN
  PROVE  LET t == Compare(s, ly, lyc, m, asleep)
         IN  /\ t \in IO /\ Coherent(t)
             /\ t.bits = s.bits /\ t.ints = s.ints /\ t.ly = ly /\ t.lyc = lyc
             /\ t.late => s.late \/ (~s.high /\ m = "HBlank" /\ "HBlank" \in s.ints)
             /\ s.request => t.request
             /\ ~s.high /\ t.high => t.request \/ t.late
             /\ s.late => t.late
<1>1. DEFINE u == [s EXCEPT !.same = (ly = lyc)]
             w == Drive(u, u, m, asleep)
<1>2. /\ u \in IO /\ u.bits = s.bits /\ u.ints = s.ints /\ u.same = (ly = lyc)
      /\ u.high = s.high /\ u.late = s.late /\ u.request = s.request
  BY DEF IO
<1>3. Compare(s, ly, lyc, m, asleep) = [w EXCEPT !.ly = ly, !.lyc = lyc]
  BY DEF Compare
<1> HIDE DEF u
<1>4. /\ w \in IO /\ SameRegisters(u, w) /\ w.high = ShouldFire(u)
      /\ w.late => u.late \/ (~u.high /\ m = "HBlank" /\ "HBlank" \in u.ints)
      /\ u.request => w.request
      /\ ~u.high /\ w.high => w.request \/ w.late
      /\ u.late => w.late
  BY <1>2, DriveFacts
<1> HIDE DEF w
<1>5. DEFINE t == [w EXCEPT !.ly = ly, !.lyc = lyc]
<1>6. /\ t \in IO /\ t.bits = w.bits /\ t.same = w.same /\ t.ints = w.ints
      /\ t.ly = ly /\ t.lyc = lyc
      /\ t.high = w.high /\ t.late = w.late /\ t.request = w.request
  BY <1>4 DEF IO
<1>7. ShouldFire(t) = ShouldFire(u)
  BY <1>4, <1>6 DEF ShouldFire, SameRegisters
<1> HIDE DEF t
<1>8. Coherent(t)
  BY <1>2, <1>4, <1>6, <1>7 DEF Coherent, SameRegisters
<1>9. QED
  BY <1>2, <1>3, <1>4, <1>6, <1>8 DEF t, SameRegisters

LEMMA SetModeFacts ==
  ASSUME NEW s \in IO, NEW n \in Modes, NEW asleep \in BOOLEAN
  PROVE  LET t == SetMode(s, n, asleep)
         IN  /\ t \in IO /\ t.high = ShouldFire(t)
             /\ s.same = (s.ly = s.lyc) => Coherent(t)
             /\ t.bits = n /\ t.ints = s.ints /\ t.ly = s.ly /\ t.lyc = s.lyc
             /\ t.late => s.late \/ (n = "HBlank" /\ "HBlank" \in s.ints)
             /\ s.request => t.request
             /\ ~s.high /\ t.high => t.request \/ t.late
             /\ s.late => t.late
<1>1. DEFINE v == [s EXCEPT !.bits = n]
             w == Drive(s, v, n, asleep)
<1>2. v \in IO /\ v.bits = n /\ v.same = s.same /\ v.ints = s.ints
  BY DEF IO
<1>3. SetMode(s, n, asleep) = [w EXCEPT !.bits = n]
  BY DEF SetMode
<1> HIDE DEF v
<1>4. /\ w \in IO /\ SameRegisters(s, w) /\ w.high = ShouldFire(v)
      /\ w.late => s.late \/ (~s.high /\ n = "HBlank" /\ "HBlank" \in s.ints)
      /\ s.request => w.request
      /\ ~s.high /\ w.high => w.request \/ w.late
      /\ s.late => w.late
  BY <1>2, DriveFacts
<1> HIDE DEF w
<1>5. DEFINE t == [w EXCEPT !.bits = n]
<1>6. /\ t \in IO /\ t.bits = n /\ t.same = w.same /\ t.ints = w.ints
      /\ t.ly = w.ly /\ t.lyc = w.lyc
      /\ t.high = w.high /\ t.late = w.late /\ t.request = w.request
  BY <1>4 DEF IO
<1>7. ShouldFire(t) = ShouldFire(v)
  BY <1>2, <1>4, <1>6 DEF ShouldFire, SameRegisters
<1> HIDE DEF t
<1>8. QED
  BY <1>3, <1>4, <1>6, <1>7 DEF t, SameRegisters, Coherent

LEMMA SetLYFacts ==
  ASSUME NEW s \in IO, Coherent(s), NEW n \in LyValues, NEW m, NEW asleep \in BOOLEAN
  PROVE  LET t == SetLY(s, n, m, asleep)
         IN  /\ t \in IO /\ Coherent(t)
             /\ t.bits = s.bits /\ t.ints = s.ints /\ t.ly = n /\ t.lyc = s.lyc
             /\ t.late => s.late \/ (~s.high /\ m = "HBlank" /\ "HBlank" \in s.ints)
             /\ s.request => t.request
             /\ ~s.high /\ t.high => t.request \/ t.late
             /\ s.late => t.late
<1>1. CASE n = s.ly
  BY <1>1 DEF SetLY
<1>2. CASE n # s.ly
  <2>1. SetLY(s, n, m, asleep) = Compare(s, n, s.lyc, m, asleep) /\ s.lyc \in LyValues
    BY <1>2 DEF SetLY, IO
  <2>2. QED
    BY <2>1, CompareFacts
<1>3. QED
  BY <1>1, <1>2

LEMMA DeliveredFacts ==
  ASSUME io \in IO
  PROVE  /\ Delivered \in IO /\ SameRegisters(io, Delivered)
         /\ Delivered.high = io.high /\ ~Delivered.late
         /\ io.late \/ io.request => Delivered.request
BY DEF Delivered, IO, SameRegisters

-----------------------------------------------------------------------------
(***************************************************************************)
(* The beam only moves evenly because no mode outlives its deadline, except*)
(* the head start of a fresh LCD; because a penalty is shorter than HBlank;*)
(* and because a fresh LCD draws line 0.                                   *)
(***************************************************************************)
FreshStart == justEnabled /\ elapsed = EnableOffset /\ mode \in {"HBlank", "OAMSearch"}

Phase ==
  /\ mode \in {"OAMSearch", "VBlank"} => penalty = 0
  /\ enabled => elapsed < Deadline \/ FreshStart
  /\ justEnabled => line = 0 /\ mode # "VBlank"
  /\ ~enabled => mode \in {"HBlank", "OAMSearch"}

\* STAT shows the mode from the first HBlank on; only with that is the line high
\* for all of an HBlank whose interrupt is enabled.
HBlankShown == mode = "HBlank" => io.bits = "HBlank"

Clockwork == Phase /\ ModeMatchesLine
StatInv == StatLineCoherent /\ PostponedOnlyInHBlank /\ HBlankShown
IInv == TypeOK /\ Clockwork /\ StatInv

LEMMA DeadlineValues ==
  /\ mode = "OAMSearch" => Deadline = SearchCycles
  /\ mode = "PixelTransfer" => Deadline = TransferCycles + penalty
  /\ mode = "HBlank" => Deadline = HBlankCycles - penalty
  /\ mode = "VBlank" => Deadline = LineCycles
BY DEF Deadline

LEMMA PenaltyFits ==
  ASSUME TypeOK
  PROVE  /\ penalty \in Nat
         /\ penalty + CyclesPerTick <= HBlankCycles
         /\ EnableOffset + CyclesPerTick + penalty < TransferCycles + HBlankCycles
<1>1. CASE penalty = 0
  BY <1>1, PpuAssumption
<1>2. CASE MaxPenalty(penalty)
  <2>1. PICK q \in Penalties : penalty <= q + WindowPenalty
    BY <1>2 DEF MaxPenalty
  <2>2. /\ q \in Nat /\ WindowPenalty \in Nat /\ CyclesPerTick \in Nat /\ penalty \in Nat
        /\ HBlankCycles \in Nat /\ EnableOffset \in Nat /\ TransferCycles \in Nat
        /\ q + WindowPenalty + CyclesPerTick <= HBlankCycles
        /\ EnableOffset + CyclesPerTick + q + WindowPenalty < TransferCycles + HBlankCycles
    BY PpuAssumption DEF TypeOK
  <2>3. QED
    BY <2>1, <2>2
<1>3. QED
  BY <1>1, <1>2 DEF TypeOK

\* The constants the arithmetic below needs.
LEMMA Timing ==
  /\ CyclesPerTick \in Nat /\ CyclesPerTick > 0
  /\ SearchCycles \in Nat /\ TransferCycles \in Nat /\ HBlankCycles \in Nat
  /\ EnableOffset \in Nat /\ WindowPenalty \in Nat
  /\ LineCycles = SearchCycles + TransferCycles + HBlankCycles
  /\ CyclesPerTick <= SearchCycles /\ CyclesPerTick <= TransferCycles
  /\ CyclesPerTick <= HBlankCycles /\ EnableOffset < HBlankCycles
  /\ EnableOffset + CyclesPerTick < SearchCycles + TransferCycles
  /\ VBlankStart \in Nat /\ VBlankStart > 0 /\ VBlankEnd \in Nat /\ VBlankStart < VBlankEnd
BY PpuAssumption DEF LineCycles

LEMMA LinesAreLyValues ==
  ASSUME NEW n \in 0 .. VBlankEnd
  PROVE  n \in LyValues
BY PpuAssumption

\* Drawing leaves a penalty within bounds.
LEMMA DrawFacts ==
  ASSUME TypeOK, Draw(0)
  PROVE  /\ mode' = "PixelTransfer" /\ penalty' \in Nat /\ MaxPenalty(penalty')
         /\ window' \in 0 .. WindowSize - 1
<1>1. PICK q \in Penalties, drawn \in BOOLEAN :
        /\ penalty' = 0 + q + (IF drawn THEN WindowPenalty ELSE 0)
        /\ window' = IF drawn THEN (window + 1) % WindowSize ELSE window
  BY DEF Draw
<1>2. q \in Nat /\ WindowPenalty \in Nat
  BY PpuAssumption
<1>3. penalty' \in Nat /\ penalty' <= q + WindowPenalty
  BY <1>1, <1>2
<1>4. window \in Nat /\ window < WindowSize /\ WindowSize \in Nat /\ WindowSize > 0
  BY PpuAssumption DEF TypeOK
<1>5. window' \in 0 .. WindowSize - 1
  <2>1. CASE drawn
    BY <1>1, <1>4, <2>1
  <2>2. CASE ~drawn
    BY <1>1, <1>4, <2>2
  <2>3. QED
    BY <2>1, <2>2
<1>6. QED
  BY <1>3, <1>5 DEF Draw, MaxPenalty

-----------------------------------------------------------------------------
LEMMA InitIInv == Init => IInv
<1> SUFFICES ASSUME Init
             PROVE  IInv
  OBVIOUS
<1>1. 0 \in LyValues /\ 0 \in 0 .. VBlankEnd - 1 /\ 0 \in 0 .. WindowSize - 1
  BY PpuAssumption
<1>2. PICK boot \in BOOLEAN :
        /\ enabled = ~boot
        /\ io = [ bits |-> IF boot THEN "HBlank" ELSE "VBlank", same |-> ~boot,
                  ints |-> {}, ly |-> 0, lyc |-> 0,
                  high |-> FALSE, late |-> FALSE, request |-> FALSE ]
  BY DEF Init
<1>3. /\ io \in IO /\ io.ints = {} /\ io.same = ~boot /\ ~io.high /\ ~io.late
      /\ io.ly = 0 /\ io.lyc = 0
  BY <1>1, <1>2 DEF IO, Modes, Ints
<1>4. enabled \in BOOLEAN
  BY <1>2
<1>5. /\ mode = "OAMSearch" /\ elapsed = 0 /\ line = 0 /\ penalty = 0 /\ window = 0
      /\ justEnabled = FALSE /\ frameDone = FALSE
  BY DEF Init
<1>6. TypeOK
  BY <1>1, <1>3, <1>4, <1>5 DEF TypeOK, Modes
<1>7. elapsed < Deadline
  BY <1>5, DeadlineValues, Timing
<1>8. line < VBlankStart
  BY <1>5, Timing
<1>9. Clockwork
  <2>1. ~(line >= VBlankStart)
    BY <1>5, Timing
  <2>2. QED
    BY <1>5, <1>7, <2>1 DEF Clockwork, Phase, ModeMatchesLine
<1>10. StatInv
  BY <1>2, <1>3, <1>5
     DEF StatInv, StatLineCoherent, PostponedOnlyInHBlank, HBlankShown, ShouldFire
<1>11. QED
  BY <1>6, <1>9, <1>10 DEF IInv

-----------------------------------------------------------------------------
(***************************************************************************)
(* The STAT half of the invariant.                                         *)
(***************************************************************************)
LEMMA DeliveredCoherent ==
  ASSUME IInv, enabled
  PROVE  /\ Delivered \in IO /\ Coherent(Delivered) /\ ~Delivered.late
         /\ Delivered.bits = io.bits /\ Delivered.ints = io.ints
         /\ Delivered.high = io.high
<1>1. io \in IO /\ Coherent(io)
  BY DEF IInv, TypeOK, StatInv, StatLineCoherent, Coherent
<1>2. ShouldFire(Delivered) = ShouldFire(io)
  BY <1>1, DeliveredFacts DEF ShouldFire, SameRegisters
<1>3. QED
  BY <1>1, <1>2, DeliveredFacts DEF Coherent, SameRegisters

\* In an HBlank of a running LCD a STAT line that is about to rise is not the
\* HBlank interrupt's: with that enabled, the line is high already.
LEMMA HBlankHigh ==
  ASSUME IInv, enabled, mode = "HBlank"
  PROVE  ~Delivered.high => "HBlank" \notin Delivered.ints
<1>1. io \in IO /\ io.high = ShouldFire(io) /\ io.bits = "HBlank"
  BY DEF IInv, TypeOK, StatInv, StatLineCoherent, HBlankShown
<1>2. "HBlank" \in io.ints => io.high
  BY <1>1 DEF ShouldFire
<1>3. QED
  BY <1>2, DeliveredCoherent

\* Every tick delivers a postponed interrupt, keeps the caches coherent and
\* postpones only on entering HBlank.
LEMMA TickStat ==
  ASSUME IInv, Tick
  PROVE  io' \in IO /\ StatInv'
<1>a. io \in IO /\ line \in 0 .. VBlankEnd - 1
  BY DEF IInv, TypeOK
<1>b. /\ SearchCycles \in Nat /\ VBlankEnd \in Nat /\ line \in Nat
      /\ line + 1 \in 0 .. VBlankEnd
  BY <1>a, Timing
<1>c. line + 1 \in LyValues /\ VBlankEnd \in LyValues /\ 0 \in LyValues
  BY <1>b, LinesAreLyValues
<1> DEFINE GoodIo(m) ==
      /\ io' \in IO /\ Coherent(io') /\ (io'.late => m = "HBlank")
      /\ (m = "HBlank" => io'.bits = "HBlank")
<1>d. ASSUME NEW m, GoodIo(m), mode' = m
      PROVE  io' \in IO /\ StatInv'
  BY <1>d DEF StatInv, StatLineCoherent, PostponedOnlyInHBlank, HBlankShown, Coherent
<1>e. enabled
  BY DEF Tick, Stay, EndSearch, EndTransfer, EndFirstHBlank, NextLine, EnterVBlank,
         VBlankLine, EndVBlank, Ends
<1>f. ASSUME NEW t \in IO, Coherent(t), ~t.late, NEW m \in Modes, NEW asleep \in BOOLEAN,
             io' = SetMode(t, m, asleep)
      PROVE  GoodIo(m)
  BY <1>f, SetModeFacts DEF Coherent
<1>g. /\ Delivered \in IO /\ Coherent(Delivered) /\ ~Delivered.late
      /\ Delivered.bits = io.bits /\ Delivered.ints = io.ints
  BY <1>e, DeliveredCoherent
<1>h. "OAMSearch" \in Modes /\ "PixelTransfer" \in Modes /\ "HBlank" \in Modes /\ "VBlank" \in Modes
  BY DEF Modes
<1>1. CASE Stay
  <2>1. io' = Delivered /\ mode' = mode
    BY <1>1 DEF Stay
  <2>2. mode = "HBlank" => io.bits = "HBlank"
    BY <1>e DEF IInv, StatInv, HBlankShown
  <2>3. GoodIo(mode)
    BY <1>g, <2>1, <2>2
  <2>4. QED
    BY <1>d, <2>1, <2>3
<1>2. CASE EndSearch
  <2>1. PICK asleep \in BOOLEAN : io' = SetMode(Delivered, "PixelTransfer", asleep)
    BY <1>2 DEF EndSearch
  <2>2. mode' = "PixelTransfer"
    BY <1>2 DEF EndSearch, Draw
  <2>3. QED
    BY <1>d, <1>f, <1>g, <1>h, <2>1, <2>2
<1>3. CASE EndTransfer
  <2>1. PICK asleep \in BOOLEAN : io' = SetMode(Delivered, "HBlank", asleep)
    BY <1>3 DEF EndTransfer
  <2>2. mode' = "HBlank"
    BY <1>3 DEF EndTransfer
  <2>3. QED
    BY <1>d, <1>f, <1>g, <1>h, <2>1, <2>2
<1>4. CASE EndFirstHBlank
  <2>1. PICK asleep \in BOOLEAN : io' = SetMode(Delivered, "PixelTransfer", asleep)
    BY <1>4 DEF EndFirstHBlank
  <2>2. mode' = "PixelTransfer"
    BY <1>4 DEF EndFirstHBlank, Draw
  <2>3. QED
    BY <1>d, <1>f, <1>g, <1>h, <2>1, <2>2
<1>5. CASE NextLine
  <2>1. PICK asleep \in BOOLEAN :
          io' = SetMode(SetLY(Delivered, line + 1, "HBlank", asleep), "OAMSearch", asleep)
    BY <1>5 DEF NextLine
  <2>2. mode' = "OAMSearch" /\ mode = "HBlank"
    BY <1>5 DEF NextLine, Ends
  <2>3. DEFINE t == SetLY(Delivered, line + 1, "HBlank", asleep)
  <2>4. t \in IO /\ Coherent(t) /\ ~t.late
    BY <1>c, <1>e, <1>g, <2>2, HBlankHigh, SetLYFacts
  <2> HIDE DEF t
  <2>5. GoodIo("OAMSearch")
    BY <1>f, <1>h, <2>1, <2>4 DEF t
  <2>6. QED
    BY <1>d, <2>2, <2>5
<1>6. CASE EnterVBlank
  <2>1. PICK asleep \in BOOLEAN :
          LET s == SetLY(Delivered, line + 1, "HBlank", asleep)
              t == IF "OAMSearch" \in s.ints THEN Fire(s, s.high, TRUE, "HBlank", asleep) ELSE s
          IN  io' = SetMode(t, "VBlank", asleep)
    BY <1>6 DEF EnterVBlank
  <2>2. mode' = "VBlank" /\ mode = "HBlank"
    BY <1>6 DEF EnterVBlank, Ends
  <2>3. DEFINE s == SetLY(Delivered, line + 1, "HBlank", asleep)
  <2>4. s \in IO /\ Coherent(s) /\ ~s.late /\ s.bits = io.bits /\ s.ints = io.ints
    BY <1>c, <1>e, <1>g, <2>2, HBlankHigh, SetLYFacts
  <2>5. io.bits = "HBlank"
    BY <1>e, <2>2 DEF IInv, StatInv, HBlankShown
  <2> HIDE DEF s
  <2>6. s.high \in BOOLEAN /\ ("HBlank" \in s.ints => s.high)
    BY <2>4, <2>5 DEF Coherent, ShouldFire, IO
  <2>7. DEFINE t == IF "OAMSearch" \in s.ints THEN Fire(s, s.high, TRUE, "HBlank", asleep) ELSE s
  <2>8. t \in IO /\ SameRegisters(s, t) /\ t.high = s.high /\ ~t.late
    <3>1. CASE "OAMSearch" \in s.ints
      <4>1. PICK yes \in BOOLEAN : yes = TRUE
        OBVIOUS
      <4>2. t = Fire(s, s.high, yes, "HBlank", asleep)
        BY <3>1, <4>1
      <4> HIDE DEF t
      <4>3. t \in IO /\ SameRegisters(s, t) /\ t.high = s.high
        BY <2>4, <2>6, <4>2, FireFacts
      <4>4. t.late => s.late \/ (~s.high /\ "HBlank" \in s.ints)
        BY <2>4, <2>6, <4>2, FireFacts
      <4>5. QED
        BY <2>4, <2>6, <4>3, <4>4
    <3>2. CASE "OAMSearch" \notin s.ints
      BY <2>4, <3>2 DEF SameRegisters
    <3>3. QED
      BY <3>1, <3>2
  <2>9. io' = SetMode(t, "VBlank", asleep)
    BY <2>1 DEF s
  <2> HIDE DEF t
  <2>10. Coherent(t)
    BY <2>4, <2>8 DEF Coherent, ShouldFire, SameRegisters
  <2>11. GoodIo("VBlank")
    BY <1>f, <1>h, <2>8, <2>9, <2>10
  <2>12. QED
    BY <1>d, <2>2, <2>11
<1>7. CASE VBlankLine
  <2>1. io' = SetLY(Delivered, line + 1, "VBlank", FALSE) /\ mode' = mode /\ mode = "VBlank"
    BY <1>7 DEF VBlankLine, Ends
  <2>2. PICK no \in BOOLEAN : no = FALSE
    OBVIOUS
  <2>3. io' \in IO /\ Coherent(io') /\ ~io'.late
    <3>1. io' = SetLY(Delivered, line + 1, "VBlank", no)
      BY <2>1, <2>2
    <3>2. QED
      BY <1>c, <1>g, <3>1, SetLYFacts
  <2>4. GoodIo("VBlank")
    BY <2>3
  <2>5. QED
    BY <1>d, <2>1, <2>4
<1>8. CASE EndVBlank
  <2>1. /\ LET s == SetMode(SetLY(Delivered, VBlankEnd, "VBlank", FALSE), "OAMSearch", FALSE)
           IN  io' = SetLY(s, 0, "OAMSearch", FALSE)
        /\ mode' = "OAMSearch"
    BY <1>8 DEF EndVBlank
  <2>a. PICK no \in BOOLEAN : no = FALSE
    OBVIOUS
  <2>2. DEFINE r == SetLY(Delivered, VBlankEnd, "VBlank", no)
               s == SetMode(r, "OAMSearch", no)
  <2>3. io' = SetLY(s, 0, "OAMSearch", no)
    BY <2>1, <2>a
  <2>4. r \in IO /\ Coherent(r) /\ ~r.late
    BY <1>c, <1>g, SetLYFacts
  <2> HIDE DEF r
  <2>5. s \in IO /\ Coherent(s) /\ ~s.late
    BY <1>h, <2>4, SetModeFacts DEF Coherent
  <2> HIDE DEF s
  <2>6. io' \in IO /\ Coherent(io') /\ ~io'.late
    BY <1>c, <2>3, <2>5, SetLYFacts
  <2>7. GoodIo("OAMSearch")
    BY <2>6
  <2>8. QED
    BY <1>d, <2>1, <2>7
<1>9. QED
  BY <1>1, <1>2, <1>3, <1>4, <1>5, <1>6, <1>7, <1>8 DEF Tick

\* The writes of the program and the switching of the LCD.
LEMMA WriteStat_Stat ==
  ASSUME IInv, NEW ints \in IntsWrites, WriteStat(ints)
  PROVE  io' \in IO /\ StatInv'
<1>a. io \in IO /\ ints \in SUBSET Ints
  BY PpuAssumption DEF IInv, TypeOK
<1>b. UNCHANGED <<mode, enabled, justEnabled>>
  BY DEF WriteStat
<1>1. CASE Live
  <2>1. PICK no \in BOOLEAN : no = FALSE
    OBVIOUS
  <2>2. DEFINE t == [io EXCEPT !.same = (io.ly = io.lyc)]
               v == [io EXCEPT !.ints = ints]
               w == Drive(t, v, mode, no)
  <2>3. io' = [w EXCEPT !.ints = ints]
    BY <1>1, <2>1 DEF WriteStat
  <2>4. /\ t \in IO /\ t.same = (io.ly = io.lyc) /\ t.high = io.high /\ t.late = io.late
        /\ t.ly = io.ly /\ t.lyc = io.lyc /\ t.bits = io.bits
    BY <1>a DEF IO
  <2>5. v \in IO /\ v.ints = ints /\ v.bits = io.bits /\ v.same = io.same
    BY <1>a DEF IO
  <2> HIDE DEF t, v
  <2>6. /\ w \in IO /\ SameRegisters(t, w) /\ w.high = ShouldFire(v)
        /\ w.late => io.late \/ mode = "HBlank"
    BY <2>4, <2>5, DriveFacts
  <2> HIDE DEF w
  <2>7. /\ io' \in IO /\ io'.ints = ints /\ io'.bits = io.bits /\ io'.same = (io.ly = io.lyc)
        /\ io'.ly = io.ly /\ io'.lyc = io.lyc /\ io'.high = w.high /\ io'.late = w.late
    BY <1>a, <2>3, <2>4, <2>6 DEF IO, SameRegisters
  <2>8. ASSUME enabled
        PROVE  io'.high = ShouldFire(io') /\ io'.same = (io'.ly = io'.lyc)
    <3>1. io.same = (io.ly = io.lyc)
      BY <2>8 DEF IInv, StatInv, StatLineCoherent
    <3>2. ShouldFire(v) = ShouldFire(io')
      BY <2>5, <2>7, <3>1 DEF ShouldFire
    <3>3. QED
      BY <2>6, <2>7, <3>2
  <2>9. io'.late => mode = "HBlank"
    BY <2>6, <2>7 DEF IInv, StatInv, PostponedOnlyInHBlank
  <2>10. QED
    BY <1>b, <2>7, <2>8, <2>9
       DEF IInv, StatInv, StatLineCoherent, PostponedOnlyInHBlank, HBlankShown
<1>2. CASE ~Live
  <2>1. io' = [io EXCEPT !.ints = ints] /\ ~enabled
    BY <1>2 DEF WriteStat, Live
  <2>2. io' \in IO /\ io'.late = io.late /\ io'.bits = io.bits
    BY <1>a, <2>1 DEF IO
  <2>3. QED
    BY <1>b, <2>1, <2>2
       DEF IInv, StatInv, StatLineCoherent, PostponedOnlyInHBlank, HBlankShown
<1>3. QED
  BY <1>1, <1>2

LEMMA WriteLines_Stat ==
  ASSUME IInv, NEW ly \in LyValues, NEW lyc \in LyValues, WriteLines(ly, lyc)
  PROVE  io' \in IO /\ StatInv'
<1>a. io \in IO
  BY DEF IInv, TypeOK
<1>b. UNCHANGED <<mode, enabled, justEnabled>>
  BY DEF WriteLines
<1>1. CASE Live
  <2>1. PICK no \in BOOLEAN : no = FALSE
    OBVIOUS
  <2>2. io' = Compare(io, ly, lyc, mode, no)
    BY <1>1, <2>1 DEF WriteLines
  <2>3. /\ io' \in IO /\ Coherent(io') /\ io'.bits = io.bits
        /\ io'.late => io.late \/ mode = "HBlank"
    BY <1>a, <2>2, CompareFacts
  <2>4. QED
    BY <1>b, <2>3
       DEF IInv, StatInv, StatLineCoherent, PostponedOnlyInHBlank, HBlankShown, Coherent
<1>2. CASE ~Live
  <2>1. io' = [io EXCEPT !.ly = ly, !.lyc = lyc] /\ ~enabled
    BY <1>2 DEF WriteLines, Live
  <2>2. io' \in IO /\ io'.late = io.late /\ io'.bits = io.bits
    BY <1>a, <2>1 DEF IO
  <2>3. QED
    BY <1>b, <2>1, <2>2
       DEF IInv, StatInv, StatLineCoherent, PostponedOnlyInHBlank, HBlankShown
<1>3. QED
  BY <1>1, <1>2

LEMMA Switch_Stat ==
  ASSUME IInv, LcdOn \/ LcdOff
  PROVE  io' \in IO /\ StatInv'
<1>a. io \in IO /\ io.lyc \in LyValues /\ "HBlank" \in Modes
  BY DEF IInv, TypeOK, IO, Modes
<1>b. 0 \in LyValues
  BY PpuAssumption
<1>c. PICK no \in BOOLEAN : no = FALSE
  OBVIOUS
<1>1. CASE LcdOn
  <2>1. /\ io' = Compare(io, 0, io.lyc, mode, no) /\ mode' = mode /\ ~enabled
        /\ mode \in {"HBlank", "OAMSearch"}
    BY <1>1, <1>c DEF LcdOn, IInv, Clockwork, Phase
  <2>2. /\ io' \in IO /\ Coherent(io') /\ io'.bits = io.bits
        /\ io'.late => io.late \/ mode = "HBlank"
    BY <1>a, <1>b, <2>1, CompareFacts
  <2>3. mode = "HBlank" => io.bits = "HBlank"
    BY <2>1 DEF IInv, StatInv, HBlankShown
  <2>4. QED
    BY <2>1, <2>2, <2>3
       DEF IInv, StatInv, StatLineCoherent, PostponedOnlyInHBlank, HBlankShown, Coherent
<1>2. CASE LcdOff
  <2>1. io' = SetMode(io, "HBlank", no) /\ mode' = "HBlank" /\ ~enabled'
    BY <1>2, <1>c DEF LcdOff
  <2>2. io' \in IO /\ io'.bits = "HBlank"
    BY <1>a, <2>1, SetModeFacts
  <2>3. QED
    BY <2>1, <2>2 DEF StatInv, StatLineCoherent, PostponedOnlyInHBlank, HBlankShown
<1>3. QED
  BY <1>1, <1>2

-----------------------------------------------------------------------------
(***************************************************************************)
(* The timing half of the invariant, and where the beam goes.              *)
(***************************************************************************)
\* The ranges of everything but the STAT record.
ClockType ==
  /\ mode \in Modes /\ elapsed \in Nat /\ line \in 0 .. VBlankEnd - 1
  /\ penalty \in Nat /\ (penalty = 0 \/ MaxPenalty(penalty))
  /\ window \in 0 .. WindowSize - 1
  /\ enabled \in BOOLEAN /\ justEnabled \in BOOLEAN
  /\ frameDone \in BOOLEAN

\* The dot that Raster sees.
Dot == IF Running THEN Position ELSE 0

\* A step of the beam: even, or out of the special first line.
BeamMoves ==
  \/ /\ Running /\ Running'
     /\ Dot + CyclesPerTick < LineCycles
     /\ Dot' = Dot + CyclesPerTick /\ line' = line
  \/ /\ Running /\ Running'
     /\ ~(Dot + CyclesPerTick < LineCycles)
     /\ Dot' = Dot + CyclesPerTick - LineCycles
     /\ line' = IF line + 1 = VBlankEnd THEN 0 ELSE line + 1
  \/ /\ enabled /\ justEnabled /\ Running'
     /\ Dot' \in SearchCycles .. LineCycles - 1 /\ line' = line
  \/ /\ enabled /\ justEnabled /\ enabled' /\ justEnabled'
     /\ Dot' = Dot /\ line' = line

LEMMA DotValues ==
  /\ ~Running => Dot = 0
  /\ Running /\ mode = "OAMSearch" => Dot = elapsed
  /\ Running /\ mode = "VBlank" => Dot = elapsed
  /\ Running /\ mode = "PixelTransfer" => Dot = SearchCycles + elapsed
  /\ Running /\ mode = "HBlank" => Dot = SearchCycles + TransferCycles + penalty + elapsed
BY DEF Dot, Position

LEMMA DotValuesNext ==
  /\ ~Running' => Dot' = 0
  /\ Running' /\ mode' = "OAMSearch" => Dot' = elapsed'
  /\ Running' /\ mode' = "VBlank" => Dot' = elapsed'
  /\ Running' /\ mode' = "PixelTransfer" => Dot' = SearchCycles + elapsed'
  /\ Running' /\ mode' = "HBlank" => Dot' = SearchCycles + TransferCycles + penalty' + elapsed'
BY DEF Dot, Position

LEMMA DeadlineValuesNext ==
  /\ mode' = "OAMSearch" => Deadline' = SearchCycles
  /\ mode' = "PixelTransfer" => Deadline' = TransferCycles + penalty'
  /\ mode' = "HBlank" => Deadline' = HBlankCycles - penalty'
  /\ mode' = "VBlank" => Deadline' = LineCycles
BY DEF Deadline

\* The ranges of the timing variables, and the bounds on the penalty.
LEMMA ClockFacts ==
  ASSUME IInv
  PROVE  /\ elapsed \in Nat /\ line \in Nat /\ line < VBlankEnd /\ penalty \in Nat
         /\ penalty + CyclesPerTick <= HBlankCycles
         /\ EnableOffset + CyclesPerTick + penalty < TransferCycles + HBlankCycles
         /\ ClockType
<1>1. TypeOK /\ VBlankEnd \in Nat
  BY Timing DEF IInv
<1>2. line \in Nat /\ line < VBlankEnd
  BY <1>1 DEF TypeOK
<1>3. elapsed \in Nat /\ ClockType
  BY <1>1 DEF TypeOK, ClockType
<1>4. QED
  BY <1>1, <1>2, <1>3, PenaltyFits

\* Nothing ends.
LEMMA StayClock ==
  ASSUME IInv, Stay
  PROVE  ClockType' /\ Clockwork' /\ BeamMoves
<1>1. /\ enabled /\ elapsed + CyclesPerTick < Deadline /\ elapsed' = elapsed + CyclesPerTick
      /\ UNCHANGED <<mode, line, penalty, window, enabled, justEnabled, frameDone>>
  BY DEF Stay
<1>2. /\ elapsed \in Nat /\ line \in Nat /\ penalty \in Nat
      /\ penalty + CyclesPerTick <= HBlankCycles /\ ClockType
  BY ClockFacts
<1>3. elapsed' \in Nat
  BY <1>1, <1>2, Timing
<1>4. ClockType'
  BY <1>1, <1>2, <1>3 DEF ClockType, MaxPenalty
<1>5. Deadline' = Deadline
  BY <1>1 DEF Deadline
<1>6. elapsed' < Deadline'
  BY <1>1, <1>5
<1>7. Phase'
  BY <1>1, <1>6 DEF IInv, Clockwork, Phase
<1>8. ModeMatchesLine'
  BY <1>1 DEF IInv, Clockwork, ModeMatchesLine
<1>9. BeamMoves
  <2>1. CASE Running
    <3>1. Running'
      BY <1>1, <2>1 DEF Running
    <3>2. mode \in Modes
      BY <1>2 DEF ClockType
    <3>3. Dot' = Dot + CyclesPerTick /\ Dot + CyclesPerTick < LineCycles
      <4>1. CASE mode = "OAMSearch"
        <5>1. Dot = elapsed /\ Dot' = elapsed'
          BY <1>1, <2>1, <3>1, <4>1, DotValues, DotValuesNext
        <5>2. elapsed + CyclesPerTick < SearchCycles
          BY <1>1, <4>1, DeadlineValues
        <5>3. QED
          BY <1>1, <1>2, <5>1, <5>2, Timing
      <4>2. CASE mode = "PixelTransfer"
        <5>1. Dot = SearchCycles + elapsed /\ Dot' = SearchCycles + elapsed'
          BY <1>1, <2>1, <3>1, <4>2, DotValues, DotValuesNext
        <5>2. elapsed + CyclesPerTick < TransferCycles + penalty
          BY <1>1, <4>2, DeadlineValues
        <5>3. QED
          BY <1>1, <1>2, <5>1, <5>2, Timing
      <4>3. CASE mode = "HBlank"
        <5>1. /\ Dot = SearchCycles + TransferCycles + penalty + elapsed
              /\ Dot' = SearchCycles + TransferCycles + penalty + elapsed'
          BY <1>1, <2>1, <3>1, <4>3, DotValues, DotValuesNext
        <5>2. elapsed + CyclesPerTick < HBlankCycles - penalty
          BY <1>1, <4>3, DeadlineValues
        <5>3. QED
          BY <1>1, <1>2, <5>1, <5>2, Timing
      <4>4. CASE mode = "VBlank"
        <5>1. Dot = elapsed /\ Dot' = elapsed'
          BY <1>1, <2>1, <3>1, <4>4, DotValues, DotValuesNext
        <5>2. elapsed + CyclesPerTick < LineCycles
          BY <1>1, <4>4, DeadlineValues
        <5>3. QED
          BY <1>1, <1>2, <5>1, <5>2, Timing
      <4>5. QED
        BY <3>2, <4>1, <4>2, <4>3, <4>4 DEF Modes
    <3>4. QED
      BY <1>1, <2>1, <3>1, <3>3 DEF BeamMoves
  <2>2. CASE ~Running
    <3>1. ~Running' /\ justEnabled
      BY <1>1, <2>2 DEF Running
    <3>2. Dot' = Dot
      BY <2>2, <3>1, DotValues, DotValuesNext
    <3>3. QED
      BY <1>1, <3>1, <3>2 DEF BeamMoves
  <2>3. QED
    BY <2>1, <2>2
<1>10. QED
  BY <1>4, <1>7, <1>8, <1>9 DEF Clockwork

\* What a mode that ends carries over is less than a tick, but for a fresh LCD.
LEMMA CarryFacts ==
  ASSUME IInv, NEW m \in Modes, Ends(m)
  PROVE  /\ enabled /\ mode = m /\ elapsed' \in Nat
         /\ elapsed' = elapsed + CyclesPerTick - Deadline
         /\ elapsed' < CyclesPerTick \/ FreshStart
<1>1. enabled /\ mode = m /\ elapsed + CyclesPerTick >= Deadline
      /\ elapsed' = elapsed + CyclesPerTick - Deadline
  BY DEF Ends
<1>2. elapsed \in Nat /\ penalty \in Nat /\ penalty + CyclesPerTick <= HBlankCycles
  BY ClockFacts
<1>3. Deadline \in Nat
  <2>1. mode \in Modes
    BY <1>1
  <2>2. QED
    BY <1>2, <2>1, DeadlineValues, Timing DEF Modes
<1>4. elapsed < Deadline \/ FreshStart
  BY <1>1 DEF IInv, Clockwork, Phase
<1>5. elapsed' \in Nat /\ (elapsed < Deadline => elapsed' < CyclesPerTick)
  BY <1>1, <1>2, <1>3, Timing
<1>6. QED
  BY <1>1, <1>4, <1>5

LEMMA EndSearchClock ==
  ASSUME IInv, EndSearch
  PROVE  ClockType' /\ Clockwork' /\ BeamMoves
<1>1. /\ Ends("OAMSearch") /\ Draw(penalty)
      /\ UNCHANGED <<line, enabled, justEnabled, frameDone>>
  BY DEF EndSearch
<1>2. /\ enabled /\ mode = "OAMSearch" /\ elapsed' \in Nat
      /\ elapsed' = elapsed + CyclesPerTick - SearchCycles
      /\ elapsed' < CyclesPerTick \/ FreshStart
  BY <1>1, CarryFacts, DeadlineValues DEF Modes
<1>3. penalty = 0 /\ TypeOK
  BY <1>2 DEF IInv, Clockwork, Phase
<1>4. /\ mode' = "PixelTransfer" /\ penalty' \in Nat /\ MaxPenalty(penalty')
      /\ window' \in 0 .. WindowSize - 1
  BY <1>1, <1>3, DrawFacts
<1>5. elapsed \in Nat /\ line \in Nat /\ ClockType
  BY ClockFacts
<1>6. elapsed' < TransferCycles
  <2>1. CASE elapsed' < CyclesPerTick
    BY <1>2, <2>1, Timing
  <2>2. CASE FreshStart
    <3>1. elapsed = EnableOffset
      BY <2>2 DEF FreshStart
    <3>2. QED
      BY <1>2, <1>5, <3>1, Timing
  <2>3. QED
    BY <1>2, <2>1, <2>2
<1>7. ClockType'
  BY <1>1, <1>2, <1>4, <1>5 DEF ClockType, MaxPenalty, Modes
<1>8. elapsed' < Deadline'
  BY <1>2, <1>4, <1>6, DeadlineValuesNext, Timing
<1>9. Phase'
  <2>1. justEnabled => line = 0
    BY DEF IInv, Clockwork, Phase
  <2>2. QED
    BY <1>1, <1>2, <1>4, <1>8, <2>1 DEF Phase
<1>10. ModeMatchesLine'
  BY <1>1, <1>2, <1>4 DEF IInv, Clockwork, ModeMatchesLine
<1>11. BeamMoves
  <2>1. CASE Running
    <3>1. Running'
      BY <1>1, <2>1 DEF Running
    <3>2. Dot = elapsed /\ Dot' = SearchCycles + elapsed'
      BY <1>2, <1>4, <2>1, <3>1, DotValues, DotValuesNext
    <3>3. elapsed < SearchCycles
      <4>1. ~FreshStart
        BY <2>1 DEF Running, FreshStart
      <4>2. QED
        BY <1>2, <4>1, DeadlineValues DEF IInv, Clockwork, Phase
    <3>4. Dot' = Dot + CyclesPerTick /\ Dot + CyclesPerTick < LineCycles
      BY <1>2, <1>5, <3>2, <3>3, Timing
    <3>5. QED
      BY <1>1, <2>1, <3>1, <3>4 DEF BeamMoves
  <2>2. CASE ~Running
    <3>1. ~Running' /\ justEnabled
      BY <1>1, <1>2, <2>2 DEF Running
    <3>2. Dot' = Dot
      BY <2>2, <3>1, DotValues, DotValuesNext
    <3>3. QED
      BY <1>1, <1>2, <3>1, <3>2 DEF BeamMoves
  <2>3. QED
    BY <2>1, <2>2
<1>12. QED
  BY <1>7, <1>9, <1>10, <1>11 DEF Clockwork

LEMMA EndTransferClock ==
  ASSUME IInv, EndTransfer
  PROVE  ClockType' /\ Clockwork' /\ BeamMoves
<1>1. /\ Ends("PixelTransfer") /\ mode' = "HBlank"
      /\ UNCHANGED <<line, penalty, window, enabled, justEnabled, frameDone>>
  BY DEF EndTransfer
<1>2. /\ enabled /\ mode = "PixelTransfer" /\ elapsed' \in Nat
      /\ elapsed' = elapsed + CyclesPerTick - (TransferCycles + penalty)
      /\ elapsed' < CyclesPerTick
  <2>1. ~FreshStart
    BY <1>1 DEF Ends, FreshStart
  <2>2. QED
    BY <1>1, <2>1, CarryFacts, DeadlineValues DEF Modes
<1>3. /\ elapsed \in Nat /\ line \in Nat /\ penalty \in Nat
      /\ penalty + CyclesPerTick <= HBlankCycles /\ ClockType
  BY ClockFacts
<1>4. ClockType'
  BY <1>1, <1>2, <1>3 DEF ClockType, MaxPenalty, Modes
<1>5. elapsed' < Deadline'
  <2>1. Deadline' = HBlankCycles - penalty
    BY <1>1, DeadlineValuesNext
  <2>2. QED
    BY <1>2, <1>3, <2>1, Timing
<1>6. Phase'
  <2>1. justEnabled => line = 0
    BY DEF IInv, Clockwork, Phase
  <2>2. QED
    BY <1>1, <1>2, <1>5, <2>1 DEF Phase
<1>7. ModeMatchesLine'
  BY <1>1, <1>2 DEF IInv, Clockwork, ModeMatchesLine
<1>8. BeamMoves
  <2>1. CASE Running
    <3>1. Running'
      BY <1>1, <2>1 DEF Running
    <3>2. /\ Dot = SearchCycles + elapsed
          /\ Dot' = SearchCycles + TransferCycles + penalty + elapsed'
      BY <1>1, <1>2, <2>1, <3>1, DotValues, DotValuesNext
    <3>3. Dot' = Dot + CyclesPerTick /\ Dot + CyclesPerTick < LineCycles
      BY <1>2, <1>3, <3>2, Timing
    <3>4. QED
      BY <1>1, <2>1, <3>1, <3>3 DEF BeamMoves
  <2>2. CASE ~Running
    <3>1. ~Running' /\ justEnabled
      BY <1>1, <1>2, <2>2 DEF Running
    <3>2. Dot' = Dot
      BY <2>2, <3>1, DotValues, DotValuesNext
    <3>3. QED
      BY <1>1, <1>2, <3>1, <3>2 DEF BeamMoves
  <2>3. QED
    BY <2>1, <2>2
<1>9. QED
  BY <1>4, <1>6, <1>7, <1>8 DEF Clockwork

\* A stale penalty and the head start shorten the first HBlank; what they leave
\* over still ends inside the drawing that follows.
LEMMA EndFirstHBlankClock ==
  ASSUME IInv, EndFirstHBlank
  PROVE  ClockType' /\ Clockwork' /\ BeamMoves
<1>1. /\ Ends("HBlank") /\ justEnabled /\ ~justEnabled' /\ Draw(0)
      /\ justEnabled' \in BOOLEAN
      /\ UNCHANGED <<line, enabled, frameDone>>
  BY DEF EndFirstHBlank
<1>2. /\ enabled /\ mode = "HBlank" /\ elapsed' \in Nat
      /\ elapsed' = elapsed + CyclesPerTick - (HBlankCycles - penalty)
      /\ elapsed' < CyclesPerTick \/ FreshStart
  BY <1>1, CarryFacts, DeadlineValues DEF Modes
<1>3. /\ elapsed \in Nat /\ line \in Nat /\ penalty \in Nat
      /\ EnableOffset + CyclesPerTick + penalty < TransferCycles + HBlankCycles
      /\ ClockType /\ TypeOK
  BY ClockFacts DEF IInv
<1>4. /\ mode' = "PixelTransfer" /\ penalty' \in Nat /\ MaxPenalty(penalty')
      /\ window' \in 0 .. WindowSize - 1
  BY <1>1, <1>3, DrawFacts
<1>5. elapsed' < TransferCycles
  <2>1. CASE elapsed' < CyclesPerTick
    BY <1>2, <2>1, Timing
  <2>2. CASE FreshStart
    <3>1. elapsed = EnableOffset
      BY <2>2 DEF FreshStart
    <3>2. QED
      BY <1>2, <1>3, <3>1, Timing
  <2>3. QED
    BY <1>2, <2>1, <2>2
<1>6. ClockType'
  BY <1>1, <1>2, <1>3, <1>4 DEF ClockType, MaxPenalty, Modes
<1>7. elapsed' < Deadline'
  BY <1>2, <1>4, <1>5, DeadlineValuesNext, Timing
<1>8. Phase'
  BY <1>1, <1>2, <1>4, <1>7 DEF Phase
<1>9. ModeMatchesLine'
  BY <1>1, <1>2, <1>4 DEF IInv, Clockwork, ModeMatchesLine
<1>10. BeamMoves
  <2>1. Running'
    BY <1>1, <1>2 DEF Running
  <2>2. Dot' = SearchCycles + elapsed'
    BY <1>4, <2>1, DotValuesNext
  <2>3. Dot' \in SearchCycles .. LineCycles - 1
    BY <1>2, <1>5, <2>2, Timing
  <2>4. QED
    BY <1>1, <1>2, <2>1, <2>3 DEF BeamMoves
<1>11. QED
  BY <1>6, <1>8, <1>9, <1>10 DEF Clockwork

\* The four actions that begin a line.  Each is an even move of the beam.
LEMMA LineEnds ==
  ASSUME IInv, NEW m \in {"HBlank", "VBlank"}, Ends(m), ~justEnabled,
         mode' \in {"OAMSearch", "VBlank"}, UNCHANGED <<enabled, justEnabled>>,
         line' = IF line + 1 = VBlankEnd THEN 0 ELSE line + 1
  PROVE  /\ BeamMoves /\ Running /\ Running'
         /\ elapsed' \in Nat /\ elapsed' < SearchCycles /\ elapsed' < LineCycles
<1>1. m \in Modes
  BY DEF Modes
<1>2. /\ enabled /\ mode = m /\ elapsed' \in Nat
      /\ elapsed' = elapsed + CyclesPerTick - Deadline
      /\ elapsed' < CyclesPerTick
  BY <1>1, CarryFacts DEF FreshStart
<1>3. Running /\ Running'
  BY <1>2 DEF Running
<1>4. elapsed' < SearchCycles /\ elapsed' < LineCycles
  BY <1>2, Timing
<1>5. elapsed \in Nat /\ penalty \in Nat
  BY ClockFacts
<1>6. Dot' = elapsed'
  BY <1>3, DotValuesNext
<1>7. Dot' = Dot + CyclesPerTick - LineCycles /\ ~(Dot + CyclesPerTick < LineCycles)
  <2>1. CASE m = "HBlank"
    <3>1. /\ Dot = SearchCycles + TransferCycles + penalty + elapsed
          /\ Deadline = HBlankCycles - penalty
      BY <1>2, <1>3, <2>1, DotValues, DeadlineValues
    <3>2. QED
      BY <1>2, <1>5, <1>6, <3>1, Timing
  <2>2. CASE m = "VBlank"
    <3>1. Dot = elapsed /\ Deadline = LineCycles
      BY <1>2, <1>3, <2>2, DotValues, DeadlineValues
    <3>2. QED
      BY <1>2, <1>5, <1>6, <3>1, Timing
  <2>3. QED
    BY <2>1, <2>2
<1>8. QED
  BY <1>2, <1>3, <1>4, <1>7 DEF BeamMoves

\* An HBlank of a running LCD is on a line of the screen.
LEMMA HBlankOnScreen ==
  ASSUME IInv, enabled, mode = "HBlank"
  PROVE  line \in Nat /\ line < VBlankStart /\ line + 1 # VBlankEnd
<1>1. line \in Nat
  BY ClockFacts
<1>2. ~(line >= VBlankStart)
  BY DEF IInv, Clockwork, ModeMatchesLine
<1>3. QED
  BY <1>1, <1>2, Timing

LEMMA NextLineClock ==
  ASSUME IInv, NextLine
  PROVE  ClockType' /\ Clockwork' /\ BeamMoves
<1>1. /\ Ends("HBlank") /\ ~justEnabled /\ line + 1 # VBlankStart
      /\ line' = line + 1 /\ penalty' = 0 /\ mode' = "OAMSearch"
      /\ UNCHANGED <<window, enabled, justEnabled, frameDone>>
  BY DEF NextLine
<1>2. enabled /\ mode = "HBlank"
  BY <1>1 DEF Ends
<1>3. line \in Nat /\ line < VBlankStart /\ line + 1 # VBlankEnd
  BY <1>2, HBlankOnScreen
<1>4. BeamMoves /\ elapsed' \in Nat /\ elapsed' < SearchCycles
  BY <1>1, <1>3, LineEnds
<1>5. line' \in 0 .. VBlankEnd - 1 /\ ~(line' >= VBlankStart)
  BY <1>1, <1>3, Timing
<1>6. ClockType'
  BY <1>1, <1>4, <1>5, ClockFacts DEF ClockType, MaxPenalty, Modes
<1>7. elapsed' < Deadline'
  BY <1>1, <1>4, DeadlineValuesNext
<1>8. Phase' /\ ModeMatchesLine'
  BY <1>1, <1>2, <1>5, <1>7 DEF Phase, ModeMatchesLine
<1>9. QED
  BY <1>4, <1>6, <1>8 DEF Clockwork

LEMMA EnterVBlankClock ==
  ASSUME IInv, EnterVBlank
  PROVE  ClockType' /\ Clockwork' /\ BeamMoves
<1>1. /\ Ends("HBlank") /\ ~justEnabled /\ line + 1 = VBlankStart
      /\ line' = line + 1 /\ penalty' = 0 /\ mode' = "VBlank" /\ window' = 0
      /\ frameDone' = TRUE
      /\ UNCHANGED <<enabled, justEnabled>>
  BY DEF EnterVBlank
<1>2. enabled /\ mode = "HBlank"
  BY <1>1 DEF Ends
<1>3. line \in Nat /\ line < VBlankStart /\ line + 1 # VBlankEnd
  BY <1>2, HBlankOnScreen
<1>4. BeamMoves /\ elapsed' \in Nat /\ elapsed' < LineCycles
  BY <1>1, <1>3, LineEnds
<1>5. line' \in 0 .. VBlankEnd - 1 /\ line' >= VBlankStart
  BY <1>1, <1>3, Timing
<1>a. 0 \in 0 .. WindowSize - 1 /\ frameDone' \in BOOLEAN
  BY <1>1, PpuAssumption
<1>6. ClockType'
  BY <1>1, <1>a, <1>4, <1>5, ClockFacts DEF ClockType, MaxPenalty, Modes
<1>7. elapsed' < Deadline'
  BY <1>1, <1>4, DeadlineValuesNext
<1>8. Phase' /\ ModeMatchesLine'
  BY <1>1, <1>2, <1>5, <1>7 DEF Phase, ModeMatchesLine
<1>9. QED
  BY <1>4, <1>6, <1>8 DEF Clockwork

LEMMA VBlankClock ==
  ASSUME IInv, VBlankLine \/ EndVBlank
  PROVE  ClockType' /\ Clockwork' /\ BeamMoves
<1>1. /\ Ends("VBlank") /\ UNCHANGED <<penalty, window, enabled, justEnabled, frameDone>>
      /\ mode' = IF line + 1 = VBlankEnd THEN "OAMSearch" ELSE mode
      /\ line' = IF line + 1 = VBlankEnd THEN 0 ELSE line + 1
  BY DEF VBlankLine, EndVBlank
<1>2. enabled /\ mode = "VBlank"
  BY <1>1 DEF Ends
<1>3. ~justEnabled /\ penalty = 0 /\ line >= VBlankStart
  BY <1>2 DEF IInv, Clockwork, Phase, ModeMatchesLine
<1>4. line \in Nat /\ line < VBlankEnd /\ ClockType
  BY ClockFacts
<1>5. mode' \in {"OAMSearch", "VBlank"}
  BY <1>1, <1>2
<1>6. BeamMoves /\ elapsed' \in Nat /\ elapsed' < SearchCycles /\ elapsed' < LineCycles
  BY <1>1, <1>3, <1>5, LineEnds
<1>7. line' \in 0 .. VBlankEnd - 1 /\ (mode' = "VBlank" <=> line' >= VBlankStart)
  <2>1. CASE line + 1 = VBlankEnd
    BY <1>1, <1>2, <2>1, Timing
  <2>2. CASE line + 1 # VBlankEnd
    BY <1>1, <1>2, <1>3, <1>4, <2>2, Timing
  <2>3. QED
    BY <2>1, <2>2
<1>8. ClockType'
  BY <1>1, <1>4, <1>5, <1>6, <1>7 DEF ClockType, MaxPenalty, Modes
<1>9. elapsed' < Deadline'
  BY <1>5, <1>6, DeadlineValuesNext
<1>10. Phase' /\ ModeMatchesLine'
  BY <1>1, <1>2, <1>3, <1>5, <1>7, <1>9 DEF Phase, ModeMatchesLine
<1>11. QED
  BY <1>6, <1>8, <1>10 DEF Clockwork

LEMMA TickClock ==
  ASSUME IInv, Tick
  PROVE  ClockType' /\ Clockwork' /\ BeamMoves
BY StayClock, EndSearchClock, EndTransferClock, EndFirstHBlankClock, NextLineClock,
   EnterVBlankClock, VBlankClock DEF Tick

\* What does not move the beam.
LEMMA PauseClock ==
  ASSUME IInv, UNCHANGED <<mode, timing, enabled, justEnabled>>, frameDone' \in BOOLEAN
  PROVE  ClockType' /\ Clockwork' /\ Dot' = Dot
<1>1. UNCHANGED <<mode, elapsed, line, penalty, window, enabled, justEnabled>>
  BY DEF timing
<1>2. ClockType'
  BY <1>1, ClockFacts DEF ClockType, MaxPenalty
<1>3. Deadline' = Deadline /\ Running' = Running
  BY <1>1 DEF Deadline, Running
<1>4. FreshStart' = FreshStart
  BY <1>1 DEF FreshStart
<1>5. elapsed' < Deadline' <=> elapsed < Deadline
  BY <1>1, <1>3
<1>6. Phase' /\ ModeMatchesLine'
  BY <1>1, <1>4, <1>5 DEF IInv, Clockwork, Phase, ModeMatchesLine
<1>7. Dot' = Dot
  BY <1>1, <1>3 DEF Dot, Position
<1>8. QED
  BY <1>2, <1>6, <1>7 DEF Clockwork

LEMMA LcdOnClock ==
  ASSUME IInv, LcdOn
  PROVE  /\ ClockType' /\ Clockwork'
         /\ ~enabled /\ enabled' /\ justEnabled' /\ line' = 0 /\ Dot' = 0 /\ Dot = 0
<1>1. /\ ~enabled /\ enabled' = TRUE /\ line' = 0 /\ elapsed' = EnableOffset
      /\ justEnabled' = TRUE /\ UNCHANGED <<mode, penalty, window, frameDone>>
  BY DEF LcdOn
<1>2. mode \in {"HBlank", "OAMSearch"} /\ (mode = "OAMSearch" => penalty = 0)
  BY <1>1 DEF IInv, Clockwork, Phase
<1>3. FreshStart'
  BY <1>1, <1>2 DEF FreshStart
<1>4. ~Running /\ ~Running'
  BY <1>1 DEF Running
<1>5. line' \in 0 .. VBlankEnd - 1 /\ ~(line' >= VBlankStart) /\ elapsed' \in Nat
  BY <1>1, Timing
<1>6. enabled' \in BOOLEAN /\ justEnabled' \in BOOLEAN
  BY <1>1
<1>7. ClockType'
  BY <1>1, <1>5, <1>6, ClockFacts DEF ClockType, MaxPenalty
<1>8. Phase' /\ ModeMatchesLine'
  BY <1>1, <1>2, <1>3, <1>5 DEF Phase, ModeMatchesLine
<1>9. QED
  BY <1>1, <1>4, <1>7, <1>8, DotValues, DotValuesNext DEF Clockwork

LEMMA LcdOffClock ==
  ASSUME IInv, LcdOff
  PROVE  /\ ClockType' /\ Clockwork'
         /\ enabled /\ ~enabled' /\ line' = line /\ Dot' = 0
<1>1. /\ enabled /\ enabled' = FALSE /\ mode' = "HBlank"
      /\ UNCHANGED <<elapsed, line, penalty, window, justEnabled, frameDone>>
  BY DEF LcdOff, timing
<1>2. ~Running' /\ enabled' \in BOOLEAN
  BY <1>1 DEF Running
<1>3. ClockType'
  BY <1>1, <1>2, ClockFacts DEF ClockType, MaxPenalty, Modes
<1>4. Phase' /\ ModeMatchesLine'
  BY <1>1 DEF IInv, Clockwork, Phase, ModeMatchesLine
<1>5. QED
  BY <1>1, <1>2, <1>3, <1>4, DotValuesNext DEF Clockwork

-----------------------------------------------------------------------------
LEMMA TypeParts ==
  ASSUME ClockType', io' \in IO
  PROVE  TypeOK'
BY DEF ClockType, TypeOK, MaxPenalty

\* Every step keeps the invariant.
LEMMA NextIInv == IInv /\ [Next]_vars => IInv'
<1> SUFFICES ASSUME IInv, [Next]_vars
             PROVE  IInv'
  OBVIOUS
<1>a. frameDone \in BOOLEAN /\ io \in IO
  BY DEF IInv, TypeOK
<1>1. CASE Tick
  BY <1>1, TickClock, TickStat, TypeParts DEF IInv
<1>2. ASSUME NEW ints \in IntsWrites, WriteStat(ints)
      PROVE  IInv'
  <2>1. UNCHANGED <<mode, timing, enabled, justEnabled, frameDone>>
    BY <1>2 DEF WriteStat
  <2>2. QED
    BY <1>a, <1>2, <2>1, PauseClock, WriteStat_Stat, TypeParts DEF IInv
<1>3. ASSUME NEW v \in LyWrites, WriteLy(v) \/ WriteLyc(v)
      PROVE  IInv'
  <2>1. v \in LyValues /\ io.ly \in LyValues /\ io.lyc \in LyValues
    BY <1>a, PpuAssumption DEF IO
  <2>2. PICK ly \in LyValues, lyc \in LyValues : WriteLines(ly, lyc)
    BY <1>3, <2>1 DEF WriteLy, WriteLyc
  <2>3. UNCHANGED <<mode, timing, enabled, justEnabled, frameDone>>
    BY <2>2 DEF WriteLines
  <2>4. QED
    BY <1>a, <2>2, <2>3, PauseClock, WriteLines_Stat, TypeParts DEF IInv
<1>4. CASE LcdOn
  BY <1>4, LcdOnClock, Switch_Stat, TypeParts DEF IInv
<1>5. CASE LcdOff
  BY <1>5, LcdOffClock, Switch_Stat, TypeParts DEF IInv
<1>6. CASE Acknowledge
  <2>1. /\ io' = [io EXCEPT !.request = FALSE]
        /\ UNCHANGED <<mode, timing, enabled, justEnabled, frameDone>>
    BY <1>6 DEF Acknowledge
  <2>2. /\ io' \in IO /\ io'.bits = io.bits /\ io'.same = io.same /\ io'.ints = io.ints
        /\ io'.ly = io.ly /\ io'.lyc = io.lyc /\ io'.high = io.high /\ io'.late = io.late
    BY <1>a, <2>1 DEF IO
  <2>3. StatInv'
    BY <2>1, <2>2 DEF IInv, StatInv, StatLineCoherent, PostponedOnlyInHBlank, HBlankShown,
                      ShouldFire
  <2>4. QED
    BY <1>a, <2>1, <2>2, <2>3, PauseClock, TypeParts DEF IInv
<1>7. CASE TakeFrame \/ UNCHANGED vars
  <2>1. frameDone' \in BOOLEAN /\ UNCHANGED <<mode, timing, enabled, justEnabled, io>>
    BY <1>a, <1>7 DEF TakeFrame, vars
  <2>2. StatInv' /\ io' \in IO
    BY <1>a, <2>1 DEF IInv, StatInv, StatLineCoherent, PostponedOnlyInHBlank, HBlankShown,
                      ShouldFire
  <2>3. QED
    BY <2>1, <2>2, PauseClock, TypeParts DEF IInv
<1>8. QED
  BY <1>1, <1>2, <1>3, <1>4, <1>5, <1>6, <1>7 DEF Next

-----------------------------------------------------------------------------
LEMMA Invariance == Spec => []IInv
BY InitIInv, NextIInv, PTL DEF Spec

\* The PPU's variables are well typed, the penalty bounded, in every state.
THEOREM TypeCorrect == Spec => []TypeOK
<1>1. IInv => TypeOK
  BY DEF IInv
<1>2. QED
  BY Invariance, <1>1, PTL

\* stat_write, set_mode, set_LY and the LCDC write keep the STAT line and the LYC
\* flag equal to what STAT, LY and LYC say, for every timing and every program.
THEOREM StatLineCoherentAlways == Spec => []StatLineCoherent
<1>1. IInv => StatLineCoherent
  BY DEF IInv, StatInv
<1>2. QED
  BY Invariance, <1>1, PTL

\* fire_hblank_next_tick_ never survives its HBlank, so no saved state lacks it.
THEOREM PostponedOnlyInHBlankAlways == Spec => []PostponedOnlyInHBlank
<1>1. IInv => PostponedOnlyInHBlank
  BY DEF IInv, StatInv
<1>2. QED
  BY Invariance, <1>1, PTL

\* check_mode_change is in VBlank on exactly the lines behind the screen.
THEOREM ModeMatchesLineAlways == Spec => []ModeMatchesLine
<1>1. IInv => ModeMatchesLine
  BY DEF IInv, Clockwork
<1>2. QED
  BY Invariance, <1>1, PTL

\* check_mode_change moves the beam evenly, whatever mode 3 costs.
THEOREM ImplementsRaster == Spec => RunsLikeRaster
<1>1. Init => Beam!Init
  <2>1. ASSUME Init
        PROVE  Beam!Init
    <3>1. enabled \in BOOLEAN /\ justEnabled = FALSE /\ line = 0
      BY <2>1 DEF Init
    <3>2. (enabled /\ justEnabled) = FALSE
      BY <3>1
    <3>3. (IF Running THEN Position ELSE 0) = 0
      BY <2>1 DEF Init, Position
    <3>4. QED
      BY <3>1, <3>2, <3>3 DEF Beam!Init
  <2>2. QED
    BY <2>1
<1>2. IInv /\ [Next]_vars => [Beam!Next]_(Beam!vars)
  <2> SUFFICES ASSUME IInv, [Next]_vars
               PROVE  Beam!Next \/ UNCHANGED Beam!vars
    OBVIOUS
  <2>a. enabled \in BOOLEAN /\ justEnabled \in BOOLEAN
        /\ enabled' \in BOOLEAN /\ justEnabled' \in BOOLEAN
    BY NextIInv DEF IInv, TypeOK
  <2>1. CASE BeamMoves
    <3>1. CASE Running /\ Running' /\ Dot + CyclesPerTick < LineCycles
               /\ Dot' = Dot + CyclesPerTick /\ line' = line
      BY <2>a, <3>1 DEF Beam!Next, Beam!Move, Running, Dot
    <3>2. CASE /\ Running /\ Running' /\ ~(Dot + CyclesPerTick < LineCycles)
               /\ Dot' = Dot + CyclesPerTick - LineCycles
               /\ line' = IF line + 1 = VBlankEnd THEN 0 ELSE line + 1
      BY <2>a, <3>2 DEF Beam!Next, Beam!Move, Running, Dot
    <3>3. CASE /\ enabled /\ justEnabled /\ Running'
               /\ Dot' \in SearchCycles .. LineCycles - 1 /\ line' = line
      BY <2>a, <3>3 DEF Beam!Next, Beam!Settle, Running, Dot
    <3>4. CASE /\ enabled /\ justEnabled /\ enabled' /\ justEnabled'
               /\ Dot' = Dot /\ line' = line
      BY <2>a, <3>4 DEF Beam!vars, Running, Dot
    <3>5. QED
      BY <2>1, <3>1, <3>2, <3>3, <3>4 DEF BeamMoves
  <2>2. CASE LcdOn
    BY <2>2, <2>a, LcdOnClock DEF Beam!Next, Beam!TurnOn, Dot
  <2>3. CASE LcdOff
    BY <2>3, <2>a, LcdOffClock DEF Beam!Next, Beam!TurnOff, Dot
  <2>4. CASE UNCHANGED <<mode, timing, enabled, justEnabled>> /\ frameDone' \in BOOLEAN
    <3>1. Dot' = Dot /\ line' = line
      BY <2>4, PauseClock DEF timing
    <3>2. QED
      BY <2>4, <3>1 DEF Beam!vars, Dot
  <2>5. QED
    <3>1. frameDone \in BOOLEAN
      BY DEF IInv, TypeOK
    <3>2. CASE Tick
      BY <2>1, <3>2, TickClock
    <3>3. CASE ~Tick /\ ~LcdOn /\ ~LcdOff
      BY <2>4, <3>1, <3>3 DEF Next, WriteStat, WriteLy, WriteLyc, WriteLines, Acknowledge,
                              TakeFrame, vars
    <3>4. QED
      BY <2>2, <2>3, <3>2, <3>3
<1>3. QED
  BY Invariance, <1>1, <1>2, PTL DEF Spec, RunsLikeRaster, Beam!Spec

-----------------------------------------------------------------------------
(***************************************************************************)
(* No edge of the STAT line is lost.  A handler calls several of the       *)
(* functions above one after the other; each answers the rises it makes    *)
(* and takes no answer back, so the handler as a whole does too.           *)
(***************************************************************************)
Answered(s) == s.request \/ s.late
Follows(s, t) ==
  /\ t.high /\ ~s.high => Answered(t)
  /\ Answered(s) => Answered(t)

LEMMA FollowsTransitive ==
  ASSUME NEW s, NEW t, NEW u, Follows(s, t), Follows(t, u)
  PROVE  Follows(s, u)
BY DEF Follows

LEMMA CompareFollows ==
  ASSUME NEW s \in IO, NEW ly \in LyValues, NEW lyc \in LyValues, NEW m, NEW asleep \in BOOLEAN
  PROVE  Follows(s, Compare(s, ly, lyc, m, asleep))
BY CompareFacts DEF Follows, Answered

LEMMA SetModeFollows ==
  ASSUME NEW s \in IO, NEW n \in Modes, NEW asleep \in BOOLEAN
  PROVE  Follows(s, SetMode(s, n, asleep))
BY SetModeFacts DEF Follows, Answered

LEMMA SetLYFollows ==
  ASSUME NEW s \in IO, Coherent(s), NEW n \in LyValues, NEW m, NEW asleep \in BOOLEAN
  PROVE  Follows(s, SetLY(s, n, m, asleep))
BY SetLYFacts DEF Follows, Answered

\* A rise the line does not need to make: an enabled OAM interrupt at line 144.
LEMMA FireFollows ==
  ASSUME NEW s \in IO, NEW was \in BOOLEAN, NEW now \in BOOLEAN, NEW m, NEW asleep \in BOOLEAN
  PROVE  Follows(s, Fire(s, was, now, m, asleep))
BY FireFacts DEF Follows, Answered, IO

\* Every tick answers the rises of its handler; the postponed interrupt it
\* delivers first is an answer to an earlier one.
LEMMA TickFollows ==
  ASSUME IInv, Tick
  PROVE  Follows(io, io')
<1>a. io \in IO /\ enabled /\ line + 1 \in LyValues /\ VBlankEnd \in LyValues /\ 0 \in LyValues
  <2>1. io \in IO /\ line \in 0 .. VBlankEnd - 1 /\ VBlankEnd \in Nat
    BY Timing DEF IInv, TypeOK
  <2>2. enabled
    BY DEF Tick, Stay, EndSearch, EndTransfer, EndFirstHBlank, NextLine, EnterVBlank,
           VBlankLine, EndVBlank, Ends
  <2>3. line + 1 \in 0 .. VBlankEnd /\ VBlankEnd \in 0 .. VBlankEnd /\ 0 \in 0 .. VBlankEnd
    BY <2>1
  <2> QED
    BY <2>1, <2>2, <2>3, LinesAreLyValues
<1>b. Delivered \in IO /\ Coherent(Delivered) /\ Follows(io, Delivered)
  BY <1>a, DeliveredCoherent, DeliveredFacts DEF Follows, Answered
<1>c. ASSUME NEW t \in IO, Follows(io, t), NEW m \in Modes, NEW asleep \in BOOLEAN,
             io' = SetMode(t, m, asleep)
      PROVE  Follows(io, io')
  BY <1>c, SetModeFollows, FollowsTransitive
<1>d. ASSUME NEW n \in LyValues, NEW m, NEW asleep \in BOOLEAN
      PROVE  LET t == SetLY(Delivered, n, m, asleep)
             IN  t \in IO /\ Coherent(t) /\ Follows(io, t)
  BY <1>b, SetLYFacts, SetLYFollows, FollowsTransitive
<1>e. "OAMSearch" \in Modes /\ "PixelTransfer" \in Modes /\ "HBlank" \in Modes /\ "VBlank" \in Modes
  BY DEF Modes
<1>f. PICK no \in BOOLEAN : no = FALSE
  OBVIOUS
<1>1. CASE Stay
  BY <1>1, <1>b DEF Stay
<1>2. CASE EndSearch \/ EndFirstHBlank
  BY <1>2, <1>b, <1>c, <1>e DEF EndSearch, EndFirstHBlank
<1>3. CASE EndTransfer
  BY <1>3, <1>b, <1>c, <1>e DEF EndTransfer
<1>4. CASE NextLine
  BY <1>4, <1>a, <1>c, <1>d, <1>e DEF NextLine
<1>5. CASE EnterVBlank
  <2>1. PICK asleep \in BOOLEAN :
          LET s == SetLY(Delivered, line + 1, "HBlank", asleep)
              t == IF "OAMSearch" \in s.ints THEN Fire(s, s.high, TRUE, "HBlank", asleep) ELSE s
          IN  io' = SetMode(t, "VBlank", asleep)
    BY <1>5 DEF EnterVBlank
  <2> DEFINE s == SetLY(Delivered, line + 1, "HBlank", asleep)
             t == IF "OAMSearch" \in s.ints THEN Fire(s, s.high, TRUE, "HBlank", asleep) ELSE s
  <2>2. io' = SetMode(t, "VBlank", asleep)
    BY <2>1
  <2>3. s \in IO /\ Follows(io, s) /\ s.high \in BOOLEAN
    BY <1>a, <1>d DEF IO
  <2> HIDE DEF s
  <2>4. PICK yes \in BOOLEAN : yes = TRUE
    OBVIOUS
  <2>5. t = s \/ t = Fire(s, s.high, yes, "HBlank", asleep)
    BY <2>4
  <2> HIDE DEF t
  <2>6. t \in IO /\ Follows(s, t)
    <3>1. CASE t = s
      BY <2>3, <3>1 DEF Follows
    <3>2. CASE t = Fire(s, s.high, yes, "HBlank", asleep)
      BY <2>3, <3>2, FireFacts, FireFollows
    <3> QED
      BY <2>5, <3>1, <3>2
  <2> QED
    BY <1>c, <1>e, <2>2, <2>3, <2>6, FollowsTransitive
<1>6. CASE VBlankLine
  BY <1>6, <1>a, <1>d, <1>f DEF VBlankLine
<1>7. CASE EndVBlank
  <2> DEFINE r == SetLY(Delivered, VBlankEnd, "VBlank", no)
             s == SetMode(r, "OAMSearch", no)
  <2>1. io' = SetLY(s, 0, "OAMSearch", no)
    BY <1>7, <1>f DEF EndVBlank
  <2>2. r \in IO /\ Coherent(r) /\ Follows(io, r)
    BY <1>a, <1>d
  <2> HIDE DEF r
  <2>3. s \in IO /\ Coherent(s) /\ Follows(r, s)
    BY <1>e, <2>2, SetModeFacts, SetModeFollows DEF Coherent
  <2> HIDE DEF s
  <2> QED
    BY <1>a, <2>1, <2>2, <2>3, SetLYFollows, FollowsTransitive
<1> QED
  BY <1>1, <1>2, <1>3, <1>4, <1>5, <1>6, <1>7 DEF Tick

\* The writes of the program and the switching of the LCD answer theirs; on a
\* dead LCD they leave the line alone.
LEMMA WritesFollow ==
  ASSUME IInv,
         \/ \E ints \in IntsWrites : WriteStat(ints)
         \/ \E v \in LyWrites : WriteLy(v) \/ WriteLyc(v)
         \/ LcdOn \/ LcdOff
  PROVE  Follows(io, io')
<1>a. io \in IO /\ io.ly \in LyValues /\ io.lyc \in LyValues /\ 0 \in LyValues
      /\ LyWrites \subseteq LyValues
  BY PpuAssumption DEF IInv, TypeOK, IO
<1>b. PICK no \in BOOLEAN : no = FALSE
  OBVIOUS
<1>1. ASSUME NEW ints \in IntsWrites, WriteStat(ints)
      PROVE  Follows(io, io')
  <2>a. ints \in SUBSET Ints
    BY PpuAssumption
  <2> DEFINE t == [io EXCEPT !.same = (io.ly = io.lyc)]
             v == [io EXCEPT !.ints = ints]
             w == Drive(t, v, mode, no)
  <2>1. CASE Live
    <3>1. io' = [w EXCEPT !.ints = ints]
      BY <1>1, <1>b, <2>1 DEF WriteStat
    <3>2. t \in IO /\ v \in IO /\ t.high = io.high /\ t.late = io.late /\ t.request = io.request
      BY <1>a, <2>a DEF IO
    <3> HIDE DEF t, v
    <3>3. w \in IO /\ (t.request => w.request) /\ (t.late => w.late)
          /\ (~t.high /\ w.high => w.request \/ w.late)
      BY <3>2, DriveFacts
    <3> HIDE DEF w
    <3>4. io'.high = w.high /\ io'.late = w.late /\ io'.request = w.request
      BY <3>1, <3>3 DEF IO
    <3> QED
      BY <3>2, <3>3, <3>4 DEF Follows, Answered
  <2>2. CASE ~Live
    BY <1>1, <1>a, <2>2 DEF WriteStat, Follows, Answered, IO
  <2> QED
    BY <2>1, <2>2
<1>2. ASSUME NEW ly \in LyValues, NEW lyc \in LyValues, WriteLines(ly, lyc)
      PROVE  Follows(io, io')
  <2>1. CASE Live
    BY <1>2, <1>a, <1>b, <2>1, CompareFollows DEF WriteLines
  <2>2. CASE ~Live
    BY <1>2, <1>a, <2>2 DEF WriteLines, Follows, Answered, IO
  <2> QED
    BY <2>1, <2>2
<1>3. CASE LcdOn
  BY <1>3, <1>a, <1>b, CompareFollows DEF LcdOn
<1>4. CASE LcdOff
  BY <1>4, <1>a, <1>b, SetModeFollows DEF LcdOff, Modes
<1> QED
  BY <1>1, <1>2, <1>3, <1>4, <1>a DEF WriteLy, WriteLyc

\* A rise of the STAT interrupt line is never lost, whatever handler makes it, in
\* whichever order it updates LY, the LYC flag and the mode: that step requests
\* the interrupt or postpones it (fire_stat_interrupt).
THEOREM RisingLineRequestsAlways == Spec => RisingLineRequests
<1>1. ASSUME IInv, [Next]_vars
      PROVE  io'.high /\ ~io.high => io'.request \/ io'.late
  <2>1. CASE Follows(io, io')
    BY <2>1 DEF Follows, Answered
  <2>2. CASE Acknowledge
    BY <2>2 DEF Acknowledge, IInv, TypeOK, IO
  <2>3. CASE io' = io
    BY <2>3
  <2> QED
    BY <1>1, <2>1, <2>2, <2>3, TickFollows, WritesFollow DEF Next, TakeFrame, vars
<1> QED
  BY Invariance, <1>1, PTL DEF Spec, RisingLineRequests

-----------------------------------------------------------------------------
(***************************************************************************)
(* OAM DMA.  A transfer's progress counts its ticks, waits included.       *)
(* Transfers are equally long and start in different cycles, so the order  *)
(* of the vector is the order of their progress: only the oldest can end,  *)
(* it copies whenever any of them does, and every other one is ahead of    *)
(* the youngest's bytes.                                                   *)
(***************************************************************************)
Progress(d) == d.index + (WaitCycles - d.wait)

DmaOrder ==
  /\ \A k \in DOMAIN dmas : dmas[k].wait > 0 => dmas[k].index = 0
  /\ \A j, k \in DOMAIN dmas : j < k => Progress(dmas[j]) > Progress(dmas[k])
  /\ dmas # <<>> => dmas[Len(dmas)].src = page /\ Progress(dmas[Len(dmas)]) >= gap

\* A program that spaces its starts has one transfer less to show for each gap.
DmaSpacing ==
  spaced /\ ~exited =>
    \A k \in DOMAIN dmas : Progress(dmas[k]) >= (Len(dmas) - k) * SafeGap + gap

DmaInv == DmaTypeOK /\ DmaOrder /\ DmaSpacing /\ LatestCopyIntact /\ ExitNeedsBurst

LEMMA DmaConstants ==
  /\ Size \in Nat /\ Size > 0 /\ WaitCycles \in Nat /\ MaxCount \in Nat /\ MaxCount > 0
  /\ StartGap \in Nat /\ StartGap > 0 /\ SafeGap \in Nat
  /\ LongGap \in Nat /\ SafeGap <= LongGap
BY OamDmaAssumption DEF LongGap

\* A function on 1 .. n is a sequence of length n.
LEMMA FunctionIsSeq ==
  ASSUME NEW n \in Nat, NEW T, NEW s \in [1 .. n -> T]
  PROVE  s \in Seq(T) /\ Len(s) = n
<1>1. s \in Seq(T)
  BY SeqDef
<1>2. 1 .. Len(s) = 1 .. n /\ Len(s) \in Nat
  BY <1>1, LenProperties
<1> QED
  BY <1>1, <1>2

LEMMA DmaVector ==
  ASSUME DmaTypeOK
  PROVE  /\ Len(dmas) \in Nat /\ DOMAIN dmas = 1 .. Len(dmas)
         /\ \A k \in 1 .. Len(dmas) : dmas[k] \in Transfer
         /\ dmas # <<>> <=> Len(dmas) > 0
         /\ dmas # <<>> => Head(dmas) = dmas[1]
BY LenProperties, ElementOfSeq, EmptySeq DEF DmaTypeOK

\* A tick of one transfer: one step of progress, the last of which ends it.
LEMMA StepFacts ==
  ASSUME NEW d \in Transfer, ~Done(d), d.wait > 0 => d.index = 0
  PROVE  /\ Step(d) \in Transfer /\ Step(d).src = d.src
         /\ Progress(Step(d)) = Progress(d) + 1
         /\ Step(d).wait > 0 => Step(d).index = 0
         /\ Done(Step(d)) <=> Progress(d) + 1 = WaitCycles + Size
         /\ Progress(d) \in 0 .. WaitCycles + Size - 1
         /\ Step(d).index = IF Copies(d) THEN d.index + 1 ELSE 0
<1>1. /\ d.src \in Pages /\ d.index \in 0 .. Size - 1 /\ d.wait \in 0 .. WaitCycles
      /\ d = [src |-> d.src, index |-> d.index, wait |-> d.wait]
  BY DmaConstants DEF Transfer, Done
<1>2. CASE d.wait = 0
  <2>1. Step(d) = [d EXCEPT !.index = d.index + 1]
    BY <1>2 DEF Step, Copies
  <2>2. Step(d).src = d.src /\ Step(d).index = d.index + 1 /\ Step(d).wait = 0
        /\ Step(d) \in Transfer
    BY <1>1, <1>2, <2>1, DmaConstants DEF Transfer
  <2> QED
    BY <1>1, <1>2, <2>2, DmaConstants DEF Progress, Done, Copies
<1>3. CASE d.wait # 0
  <2>1. Step(d) = [d EXCEPT !.wait = d.wait - 1]
    BY <1>3 DEF Step, Copies
  <2>2. Step(d).src = d.src /\ Step(d).index = 0 /\ Step(d).wait = d.wait - 1
        /\ d.index = 0 /\ Step(d) \in Transfer
    BY <1>1, <1>3, <2>1, DmaConstants DEF Transfer
  <2> QED
    BY <1>1, <1>3, <2>2, DmaConstants DEF Progress, Done, Copies
<1> QED
  BY <1>2, <1>3

\* What is left of the vector behind a tick: every transfer a step further, and
\* the oldest gone if that was its last.
LEMMA TickShape ==
  ASSUME DmaInv, DmaTick
  PROVE  \E o \in {0, 1} :
           /\ dmas' \in Seq(Transfer) /\ Len(dmas') = Len(dmas) - o /\ Len(dmas') >= 0
           /\ \A k \in 1 .. Len(dmas') :
                k + o \in 1 .. Len(dmas) /\ dmas'[k] = Step(dmas[k + o]) /\ ~Done(dmas'[k])
<1> DEFINE n == Len(dmas)
           stepped == [k \in DOMAIN dmas |-> Step(dmas[k])]
           finished == {k \in DOMAIN dmas : Done(stepped[k])}
<1>1. /\ n \in Nat /\ DOMAIN dmas = 1 .. n /\ \A k \in 1 .. n : dmas[k] \in Transfer
      /\ \A k \in 1 .. n : ~Done(dmas[k]) /\ (dmas[k].wait > 0 => dmas[k].index = 0)
      /\ \A j, k \in 1 .. n : j < k => Progress(dmas[j]) > Progress(dmas[k])
  BY DmaVector DEF DmaInv, DmaTypeOK, DmaOrder
<1>2. dmas' = IF finished = {} THEN stepped
              ELSE Erase(stepped, CHOOSE k \in finished : TRUE)
  BY DEF DmaTick
<1>3. \A k \in 1 .. n : stepped[k] = Step(dmas[k]) /\ stepped[k] \in Transfer
  BY <1>1, StepFacts
<1>4. finished \subseteq {1}
  <2> SUFFICES ASSUME NEW k \in 1 .. n, Done(stepped[k])
               PROVE  k = 1
    BY <1>1
  <2>1. Progress(dmas[k]) + 1 = WaitCycles + Size /\ Progress(dmas[k]) \in Int
    BY <1>1, <1>3, StepFacts
  <2>2. 1 \in 1 .. n /\ Progress(dmas[1]) \in 0 .. WaitCycles + Size - 1
    BY <1>1, StepFacts
  <2>3. 1 < k => Progress(dmas[1]) > Progress(dmas[k])
    BY <1>1, <2>2
  <2>4. k \in Int /\ k >= 1
    BY <1>1
  <2> HIDE DEF stepped, n
  <2> QED
    BY <2>1, <2>2, <2>3, <2>4, DmaConstants
<1>5. stepped \in [1 .. n -> Transfer]
  BY <1>1, <1>3
<1>6. stepped \in Seq(Transfer) /\ Len(stepped) = n
  <2> HIDE DEF stepped, n
  <2> QED
    BY <1>1, <1>5, FunctionIsSeq
<1>7. CASE finished = {}
  <2>1. dmas' = stepped
    BY <1>2, <1>7
  <2>2. \A k \in 1 .. n : ~Done(stepped[k])
    BY <1>1, <1>7
  <2>3. \A k \in 1 .. n : stepped[k] = Step(dmas[k])
    BY <1>3
  <2> HIDE DEF stepped, finished
  <2>4. /\ dmas' \in Seq(Transfer) /\ Len(dmas') = n - 0 /\ Len(dmas') >= 0
        /\ \A k \in 1 .. Len(dmas') :
             k + 0 \in 1 .. n /\ dmas'[k] = Step(dmas[k + 0]) /\ ~Done(dmas'[k])
    BY <1>1, <1>6, <2>1, <2>2, <2>3
  <2> QED
    BY <2>4
<1>8. CASE finished # {}
  <2>1. finished = {1} /\ (CHOOSE k \in finished : TRUE) = 1 /\ 1 \in 1 .. n
    <3>1. finished = {1}
      BY <1>4, <1>8
    <3> QED
      BY <1>1, <3>1
  <2> HIDE DEF finished
  <2> DEFINE moved == [k \in 1 .. n - 1 |-> stepped[k + 1]]
  <2>2. dmas' = moved
    <3>1. dmas' = Erase(stepped, 1)
      BY <1>2, <1>8, <2>1
    <3>2. Erase(stepped, 1) = [k \in 1 .. n - 1 |-> IF k < 1 THEN stepped[k] ELSE stepped[k + 1]]
      <4> HIDE DEF stepped, n
      <4> QED
        BY <1>6 DEF Erase
    <3>3. \A k \in 1 .. n - 1 : ~(k < 1)
      BY <1>1
    <3> HIDE DEF stepped, n
    <3> QED
      BY <3>1, <3>2, <3>3
  <2>3. n - 1 \in Nat /\ \A k \in 1 .. n - 1 : k + 1 \in 1 .. n /\ k + 1 # 1
    BY <1>1, <2>1
  <2>4. \A k \in 1 .. n : k # 1 => ~Done(stepped[k])
    BY <1>1, <2>1 DEF finished
  <2>5. moved \in [1 .. n - 1 -> Transfer]
    <3> HIDE DEF stepped, n
    <3> QED
      BY <1>3, <2>3
  <2>6. moved \in Seq(Transfer) /\ Len(moved) = n - 1
    <3> HIDE DEF moved, n
    <3> QED
      BY <2>3, <2>5, FunctionIsSeq
  <2>7. \A k \in 1 .. n - 1 :
          k + 1 \in 1 .. n /\ moved[k] = Step(dmas[k + 1]) /\ ~Done(moved[k])
    <3> HIDE DEF stepped, n
    <3> QED
      BY <1>3, <2>3, <2>4
  <2> HIDE DEF moved
  <2> QED
    BY <2>2, <2>3, <2>6, <2>7
<1> QED
  BY <1>7, <1>8

\* A transfer copies from the cycle its wait is over, so an older one copies if a
\* younger one does.
LEMMA CopiesByProgress ==
  ASSUME NEW d \in Transfer, d.wait > 0 => d.index = 0
  PROVE  /\ Copies(d) <=> Progress(d) >= WaitCycles
         /\ Copies(d) => Progress(d) = d.index + WaitCycles
         /\ Progress(d) \in Int /\ d.index \in 0 .. Size /\ d.src \in Pages
BY DmaConstants DEF Copies, Progress, Transfer

LEMMA OldestCopies ==
  ASSUME DmaTypeOK, DmaOrder
  PROVE  (\E k \in DOMAIN dmas : Copies(dmas[k])) => DmaRunning
<1> SUFFICES ASSUME NEW k \in DOMAIN dmas, Copies(dmas[k])
             PROVE  DmaRunning
  OBVIOUS
<1>1. k \in 1 .. Len(dmas) /\ 1 \in 1 .. Len(dmas) /\ dmas # <<>> /\ Head(dmas) = dmas[1]
      /\ dmas[k] \in Transfer /\ dmas[1] \in Transfer /\ DOMAIN dmas = 1 .. Len(dmas)
  BY DmaVector
<1>2. Progress(dmas[k]) >= WaitCycles /\ Progress(dmas[k]) \in Int /\ Progress(dmas[1]) \in Int
  BY <1>1, CopiesByProgress DEF DmaOrder
<1>3. 1 < k => Progress(dmas[1]) > Progress(dmas[k])
  BY <1>1 DEF DmaOrder
<1>4. Progress(dmas[1]) >= WaitCycles
  BY <1>1, <1>2, <1>3, DmaConstants
<1>5. Copies(dmas[1])
  BY <1>1, <1>4, CopiesByProgress DEF DmaOrder
<1> QED
  BY <1>1, <1>5 DEF DmaRunning

\* No two transfers copy the same byte in the same tick.
LEMMA OneWriter ==
  ASSUME DmaTypeOK, DmaOrder, NEW i, NEW S,
         S = {k \in DOMAIN dmas : Copies(dmas[k]) /\ dmas[k].index = i},
         NEW k \in S
  PROVE  S = {k} /\ Youngest(S) = k
<1>1. S \subseteq 1 .. Len(dmas) /\ Len(dmas) \in Nat
      /\ \A j \in S : Progress(dmas[j]) = i + WaitCycles /\ Progress(dmas[j]) \in Int
  BY DmaVector, CopiesByProgress DEF DmaOrder
<1>2. \A j \in S : j = k
  <2> SUFFICES ASSUME NEW j \in S PROVE j = k
    OBVIOUS
  <2>1. j \in DOMAIN dmas /\ k \in DOMAIN dmas /\ j \in Int /\ k \in Int
    BY <1>1, DmaVector
  <2>2. /\ j < k => Progress(dmas[j]) > Progress(dmas[k])
        /\ k < j => Progress(dmas[k]) > Progress(dmas[j])
    BY <2>1 DEF DmaOrder
  <2> QED
    BY <1>1, <2>1, <2>2
<1>3. S = {k}
  BY <1>2
<1>4. k <= k
  BY <1>1
<1> QED
  BY <1>3, <1>4 DEF Youngest

\* What a tick of the memory leaves in OAM.
LEMMA TickWrites ==
  ASSUME DmaTypeOK, DmaOrder, DmaTick, NEW i \in Index
  PROVE  /\ oam'[i] \in Pages \union {Cpu}
         /\ \/ \E k \in DOMAIN dmas : Copies(dmas[k]) /\ dmas[k].index = i /\ oam'[i] = dmas[k].src
            \/ oam'[i] = oam[i] /\ \A k \in DOMAIN dmas : ~(Copies(dmas[k]) /\ dmas[k].index = i)
<1> DEFINE S == {k \in DOMAIN dmas : Copies(dmas[k]) /\ dmas[k].index = i}
<1>1. oam'[i] = IF S = {} THEN oam[i] ELSE dmas[Youngest(S)].src
  BY DEF DmaTick
<1>2. CASE S = {}
  BY <1>1, <1>2 DEF DmaTypeOK
<1>3. ASSUME NEW k \in S
      PROVE  oam'[i] = dmas[k].src /\ dmas[k].src \in Pages
  <2>1. Youngest(S) = k
    BY <1>3, OneWriter
  <2>2. dmas[k] \in Transfer
    BY DmaVector
  <2> HIDE DEF S
  <2> QED
    BY <1>1, <1>3, <2>1, <2>2 DEF Transfer
<1> QED
  BY <1>2, <1>3

LEMMA TickKeeps ==
  ASSUME DmaInv, DmaTick
  PROVE  DmaInv'
<1> DEFINE n == Len(dmas)
           m == Len(dmas')
<1>1. PICK o \in {0, 1} :
           /\ dmas' \in Seq(Transfer) /\ m = n - o /\ m >= 0
           /\ \A k \in 1 .. m : k + o \in 1 .. n /\ dmas'[k] = Step(dmas[k + o]) /\ ~Done(dmas'[k])
  BY TickShape
<1>2. /\ DmaTypeOK /\ DmaOrder /\ DmaSpacing /\ LatestCopyIntact /\ ExitNeedsBurst
      /\ n \in Nat /\ m \in Nat /\ DOMAIN dmas = 1 .. n /\ DOMAIN dmas' = 1 .. m /\ m + o = n
      /\ \A k \in 1 .. n : dmas[k] \in Transfer /\ ~Done(dmas[k])
                             /\ (dmas[k].wait > 0 => dmas[k].index = 0)
      /\ dmas # <<>> <=> n > 0
      /\ dmas' # <<>> <=> m > 0
  <2>1. m \in Nat /\ DOMAIN dmas' = 1 .. m /\ (dmas' # <<>> <=> m > 0)
    BY <1>1, LenProperties, EmptySeq
  <2> QED
    BY <1>1, <2>1, DmaVector DEF DmaInv, DmaTypeOK, DmaOrder
<1>3. \A k \in 1 .. m :
        /\ k + o \in 1 .. n
        /\ Progress(dmas'[k]) = Progress(dmas[k + o]) + 1 /\ Progress(dmas[k + o]) \in Int
        /\ dmas'[k].src = dmas[k + o].src
        /\ dmas'[k].wait > 0 => dmas'[k].index = 0
        /\ dmas'[k].index = IF Copies(dmas[k + o]) THEN dmas[k + o].index + 1 ELSE 0
  <2> SUFFICES ASSUME NEW k \in 1 .. m
               PROVE  /\ k + o \in 1 .. n
                      /\ Progress(dmas'[k]) = Progress(dmas[k + o]) + 1
                      /\ Progress(dmas[k + o]) \in Int
                      /\ dmas'[k].src = dmas[k + o].src
                      /\ dmas'[k].wait > 0 => dmas'[k].index = 0
                      /\ dmas'[k].index = IF Copies(dmas[k + o]) THEN dmas[k + o].index + 1 ELSE 0
    OBVIOUS
  <2> HIDE DEF n, m
  <2>1. k + o \in 1 .. n /\ dmas'[k] = Step(dmas[k + o])
    BY <1>1
  <2>2. dmas[k + o] \in Transfer /\ ~Done(dmas[k + o])
        /\ (dmas[k + o].wait > 0 => dmas[k + o].index = 0)
    BY <1>2, <2>1
  <2>3. Progress(dmas[k + o]) \in Int
    BY <2>2, StepFacts
  <2> QED
    BY <2>1, <2>2, <2>3, StepFacts
<1>4. /\ page' = page /\ exited' = exited /\ spaced' = spaced /\ ~exited
      /\ gap \in Nat /\ gap' \in 0 .. LongGap /\ (gap' = gap + 1 \/ gap' = gap)
  <2>1. /\ page' = page /\ exited' = exited /\ spaced' = spaced /\ ~exited
        /\ gap' = IF gap < LongGap THEN gap + 1 ELSE gap
    BY DEF DmaTick
  <2>2. gap \in 0 .. LongGap
    BY <1>2 DEF DmaTypeOK
  <2> QED
    BY <2>1, <2>2, DmaConstants
<1>10. /\ \A j, k \in 1 .. n : j < k => Progress(dmas[j]) > Progress(dmas[k])
       /\ n > 0 => dmas[n].src = page /\ Progress(dmas[n]) >= gap
  BY <1>2 DEF DmaOrder
<1> HIDE DEF n, m
<1>5. DmaTypeOK'
  <2>1. oam' \in [Index -> Pages \union {Cpu}]
    <3>1. \A i \in Index : oam'[i] \in Pages \union {Cpu}
      BY <1>2, TickWrites
    <3>2. oam' = [i \in Index |-> oam'[i]]
      BY DEF DmaTick
    <3> QED
      BY <3>1, <3>2
  <2>2. m <= MaxCount
    BY <1>1, <1>2, DmaConstants DEF DmaTypeOK, n
  <2> QED
    BY <1>1, <1>2, <1>4, <2>1, <2>2 DEF DmaTypeOK, m
<1>6. DmaOrder'
  <2>1. \A j, k \in 1 .. m : j < k => Progress(dmas'[j]) > Progress(dmas'[k])
    <3> SUFFICES ASSUME NEW j \in 1 .. m, NEW k \in 1 .. m, j < k
                 PROVE  Progress(dmas'[j]) > Progress(dmas'[k])
      OBVIOUS
    <3>1. j + o \in 1 .. n /\ k + o \in 1 .. n /\ j + o < k + o
      BY <1>3
    <3>2. Progress(dmas[j + o]) > Progress(dmas[k + o])
      BY <1>10, <3>1
    <3> QED
      BY <1>3, <3>2
  <2>2. m > 0 => dmas'[m].src = page' /\ Progress(dmas'[m]) >= gap'
    <3> SUFFICES ASSUME m > 0
                 PROVE  dmas'[m].src = page' /\ Progress(dmas'[m]) >= gap'
      OBVIOUS
    <3>1. m \in 1 .. m /\ m + o = n /\ n > 0
      BY <1>2
    <3>2. dmas[n].src = page /\ Progress(dmas[n]) >= gap
      BY <1>10, <3>1
    <3> QED
      BY <1>3, <1>4, <3>1, <3>2
  <2> QED
    BY <1>2, <1>3, <2>1, <2>2 DEF DmaOrder, m
<1>7. DmaSpacing'
  <2> SUFFICES ASSUME spaced, NEW k \in 1 .. m
               PROVE  Progress(dmas'[k]) >= (m - k) * SafeGap + gap'
    BY <1>2, <1>4 DEF DmaSpacing, m
  <2>1. Progress(dmas[k + o]) >= (n - (k + o)) * SafeGap + gap
    BY <1>2, <1>3, <1>4 DEF DmaSpacing, n
  <2>2. n - (k + o) = m - k /\ m - k \in Int
    BY <1>2
  <2>3. (m - k) * SafeGap \in Int
    BY <2>2, DmaConstants
  <2> QED
    BY <1>3, <1>4, <2>1, <2>2, <2>3
<1>8. LatestCopyIntact'
  <2>1. (\E k \in DOMAIN dmas' : Copies(dmas'[k])) => DmaRunning'
    <3>1. DmaTypeOK' /\ DmaOrder' => ((\E k \in DOMAIN dmas : Copies(dmas[k])) => DmaRunning)'
      BY OldestCopies, PTL
    <3> QED
      BY <1>5, <1>6, <3>1
  <2>2. ASSUME m > 0, NEW i \in 0 .. dmas'[m].index - 1
        PROVE  oam'[i] = page
    <3>1. m \in 1 .. m /\ m + o = n /\ n \in 1 .. n /\ dmas[n].src = page
      BY <1>2, <1>10, <2>2
    <3>2. /\ dmas[n] \in Transfer /\ (dmas[n].wait > 0 => dmas[n].index = 0) /\ ~Done(dmas[n])
          /\ dmas'[m].index = IF Copies(dmas[n]) THEN dmas[n].index + 1 ELSE 0
      BY <1>2, <1>3, <3>1
    <3>3. /\ dmas[n].index \in 0 .. Size - 1
          /\ Copies(dmas[n]) /\ i \in 0 .. dmas[n].index /\ i \in Index
          /\ Progress(dmas[n]) = dmas[n].index + WaitCycles
      BY <2>2, <3>2, CopiesByProgress, DmaConstants DEF Index, Done, Transfer
    <3>4. \A k \in DOMAIN dmas : Copies(dmas[k]) /\ dmas[k].index = i => i = dmas[n].index /\ k = n
      <4> SUFFICES ASSUME NEW k \in 1 .. n, Copies(dmas[k]), dmas[k].index = i
                   PROVE  i = dmas[n].index /\ k = n
        BY <1>2
      <4>1. Progress(dmas[k]) = i + WaitCycles
        BY <1>2, CopiesByProgress
      <4>2. k < n => Progress(dmas[k]) > Progress(dmas[n])
        BY <1>10, <3>1
      <4> QED
        BY <1>2, <3>3, <4>1, <4>2, DmaConstants
    <3>5. CASE i = dmas[n].index
      <4>1. \E k \in DOMAIN dmas : Copies(dmas[k]) /\ dmas[k].index = i /\ oam'[i] = dmas[k].src
        BY <1>2, <3>1, <3>3, <3>5, TickWrites
      <4> QED
        BY <3>1, <3>4, <4>1
    <3>6. CASE i # dmas[n].index
      <4>1. oam'[i] = oam[i]
        BY <1>2, <3>3, <3>4, <3>6, TickWrites
      <4>2. oam[i] = page
        BY <1>2, <3>1, <3>3, <3>6 DEF LatestCopyIntact, n
      <4> QED
        BY <4>1, <4>2
    <3> QED
      BY <3>5, <3>6
  <2> QED
    BY <1>2, <1>4, <2>1, <2>2 DEF LatestCopyIntact, m
<1>9. ExitNeedsBurst'
  BY <1>4 DEF ExitNeedsBurst
<1> QED
  BY <1>5, <1>6, <1>7, <1>8, <1>9 DEF DmaInv

\* A transfer that has just started.
LEMMA FirstStep ==
  ASSUME NEW p \in Pages, NEW d, d = [src |-> p, index |-> 0, wait |-> WaitCycles]
  PROVE  d \in Transfer /\ ~Done(d) /\ Progress(d) = 0 /\ d.src = p /\ d.index = 0
BY DmaConstants DEF Transfer, Done, Progress

LEMMA GapsAddUp ==
  ASSUME NEW n \in Int
  PROVE  /\ n * SafeGap \in Int
         /\ (n + 1) * SafeGap = n * SafeGap + SafeGap
         /\ 0 * SafeGap = 0
BY DmaConstants

LEMMA StartKeeps ==
  ASSUME DmaInv, NEW p \in Pages, Start(p)
  PROVE  DmaInv'
<1> DEFINE n == Len(dmas)
           new == [src |-> p, index |-> 0, wait |-> WaitCycles]
<1>1. /\ DmaTypeOK /\ DmaOrder /\ DmaSpacing /\ LatestCopyIntact
      /\ n \in Nat /\ DOMAIN dmas = 1 .. n /\ n <= MaxCount
      /\ \A k \in 1 .. n : dmas[k] \in Transfer /\ ~Done(dmas[k])
                             /\ (dmas[k].wait > 0 => dmas[k].index = 0)
      /\ dmas # <<>> <=> n > 0
      /\ gap \in Nat /\ 0 \in 0 .. LongGap
  BY DmaVector, DmaConstants DEF DmaInv, DmaTypeOK, DmaOrder
<1>2. /\ \A j, k \in 1 .. n : j < k => Progress(dmas[j]) > Progress(dmas[k])
      /\ n > 0 => dmas[n].src = page /\ Progress(dmas[n]) >= gap
  BY <1>1 DEF DmaOrder
<1>3. \A k \in 1 .. n : Progress(dmas[k]) \in 0 .. WaitCycles + Size - 1
  BY <1>1, StepFacts
<1>4. spaced => \A k \in 1 .. n : Progress(dmas[k]) >= (n - k) * SafeGap + gap
  BY <1>1 DEF DmaSpacing, Start, Begin
<1>5. /\ ~exited /\ gap >= StartGap /\ gap' = 0 /\ spaced' = (spaced /\ gap >= SafeGap)
      /\ oam' = oam
      /\ exited' = ~(n < MaxCount)
      /\ page' = IF n < MaxCount THEN p ELSE page
      /\ dmas' = IF n < MaxCount THEN Append(dmas, new) ELSE dmas
  BY DEF Start, Begin
<1>6. new \in Transfer /\ ~Done(new) /\ Progress(new) = 0 /\ new.src = p /\ new.index = 0
  BY FirstStep
<1>7. CASE n < MaxCount
  <2>1. dmas' = Append(dmas, new) /\ page' = p /\ exited' = FALSE
    BY <1>5, <1>7
  <2> HIDE DEF new
  <2>2. /\ dmas' \in Seq(Transfer) /\ Len(dmas') = n + 1
        /\ \A k \in 1 .. n : dmas'[k] = dmas[k]
        /\ dmas'[n + 1] = new
        /\ DOMAIN dmas' = 1 .. n + 1 /\ dmas' # <<>>
    <3>1. dmas \in Seq(Transfer)
      BY <1>1 DEF DmaTypeOK
    <3>2. dmas' \in Seq(Transfer) /\ Len(dmas') = n + 1
      BY <1>6, <2>1, <3>1, AppendProperties
    <3> QED
      BY <1>1, <1>6, <2>1, <3>1, <3>2, AppendProperties, LenProperties, EmptySeq
  <2> HIDE DEF n
  <2>3. \A k \in 1 .. n + 1 : k \in 1 .. n \/ k = n + 1
    BY <1>1
  <2>4. DmaTypeOK'
    <3>1. n + 1 <= MaxCount
      BY <1>1, <1>7, DmaConstants
    <3>2. \A k \in 1 .. n + 1 : ~Done(dmas'[k])
      BY <1>1, <1>6, <2>2, <2>3
    <3> QED
      BY <1>1, <1>5, <2>1, <2>2, <3>1, <3>2 DEF DmaTypeOK
  <2>5. DmaOrder'
    <3>1. \A k \in 1 .. n : Progress(dmas[k]) > 0
      <4> SUFFICES ASSUME NEW k \in 1 .. n PROVE Progress(dmas[k]) > 0
        OBVIOUS
      <4>1. n \in 1 .. n /\ Progress(dmas[n]) >= gap /\ gap > 0
        BY <1>1, <1>2, <1>5, DmaConstants
      <4>2. k < n => Progress(dmas[k]) > Progress(dmas[n])
        BY <1>2, <4>1
      <4> QED
        BY <1>1, <1>3, <4>1, <4>2
    <3>2. \A j, k \in 1 .. n + 1 : j < k => Progress(dmas'[j]) > Progress(dmas'[k])
      <4> SUFFICES ASSUME NEW j \in 1 .. n + 1, NEW k \in 1 .. n + 1, j < k
                   PROVE  Progress(dmas'[j]) > Progress(dmas'[k])
        OBVIOUS
      <4>1. j \in 1 .. n /\ dmas'[j] = dmas[j]
        BY <1>1, <2>2
      <4>2. CASE k \in 1 .. n
        BY <1>2, <2>2, <4>1, <4>2
      <4>3. CASE k = n + 1
        BY <1>6, <2>2, <3>1, <4>1, <4>3
      <4> QED
        BY <2>3, <4>2, <4>3
    <3>3. \A k \in 1 .. n + 1 : dmas'[k].wait > 0 => dmas'[k].index = 0
      BY <1>1, <1>6, <2>2, <2>3
    <3> QED
      BY <1>5, <1>6, <2>1, <2>2, <3>2, <3>3 DEF DmaOrder
  <2>6. DmaSpacing'
    <3>1. ASSUME spaced, gap >= SafeGap, NEW k \in 1 .. n + 1
          PROVE  Progress(dmas'[k]) >= (n + 1 - k) * SafeGap + 0
      <4>1. CASE k \in 1 .. n
        <5>1. Progress(dmas[k]) >= (n - k) * SafeGap + gap
          BY <1>4, <3>1, <4>1
        <5>2. n - k \in Int /\ n + 1 - k = (n - k) + 1
          BY <1>1, <4>1
        <5>3. (n + 1 - k) * SafeGap = (n - k) * SafeGap + SafeGap /\ (n - k) * SafeGap \in Int
          BY <5>2, GapsAddUp
        <5>4. Progress(dmas[k]) \in Int
          BY <1>3, <4>1
        <5> QED
          BY <1>1, <2>2, <3>1, <4>1, <5>1, <5>3, <5>4, DmaConstants
      <4>2. CASE k = n + 1
        <5>1. n + 1 - k = 0
          BY <1>1, <4>2
        <5> QED
          BY <1>6, <2>2, <4>2, <5>1, GapsAddUp
      <4> QED
        BY <2>3, <3>1, <4>1, <4>2
    <3>2. spaced' => spaced /\ gap >= SafeGap
      BY <1>5
    <3>3. gap' = 0 /\ Len(dmas') = n + 1 /\ DOMAIN dmas' = 1 .. n + 1
      BY <1>5, <2>2
    <3>4. ASSUME spaced', NEW k \in DOMAIN dmas'
          PROVE  Progress(dmas'[k]) >= (Len(dmas') - k) * SafeGap + gap'
      <4>1. k \in 1 .. n + 1
        BY <3>3, <3>4
      <4>2. Progress(dmas'[k]) >= (n + 1 - k) * SafeGap + 0
        BY <3>1, <3>2, <3>4, <4>1
      <4>3. Len(dmas') - k = n + 1 - k /\ gap' = 0
        BY ONLY <1>1, <3>3, <4>1
      <4>4. (Len(dmas') - k) * SafeGap + gap' = (n + 1 - k) * SafeGap + 0
        BY ONLY <4>3, Zenon
      <4> QED
        BY ONLY <4>2, <4>4, Zenon
    <3> QED
      BY <3>4 DEF DmaSpacing
  <2>7. LatestCopyIntact'
    <3>1. ((\E k \in DOMAIN dmas : Copies(dmas[k])) => DmaRunning)'
      <4>1. DmaTypeOK' /\ DmaOrder' => ((\E k \in DOMAIN dmas : Copies(dmas[k])) => DmaRunning)'
        BY OldestCopies, PTL
      <4> QED
        BY <2>4, <2>5, <4>1
    <3>2. dmas'[Len(dmas')].index = 0
      BY <1>6, <2>2
    <3> QED
      BY <3>1, <3>2 DEF LatestCopyIntact
  <2>8. ExitNeedsBurst'
    BY <2>1 DEF ExitNeedsBurst
  <2> QED
    BY <2>4, <2>5, <2>6, <2>7, <2>8 DEF DmaInv
<1>8. CASE ~(n < MaxCount)
  <2>1. dmas' = dmas /\ page' = page /\ exited' = TRUE /\ oam' = oam /\ gap' = 0
    BY <1>5, <1>8
  <2>2. DmaTypeOK'
    BY <1>1, <1>5, <2>1 DEF DmaTypeOK
  <2>3. DmaOrder'
    <3>1. n > 0 => n \in 1 .. n
      BY <1>1
    <3> QED
      BY <1>1, <1>2, <1>3, <2>1, <3>1 DEF DmaOrder
  <2>4. DmaSpacing' /\ LatestCopyIntact'
    BY <1>1, <2>1 DEF DmaSpacing, LatestCopyIntact, DmaRunning
  <2>5. ~(spaced /\ gap >= SafeGap)
    <3> SUFFICES ASSUME spaced, gap >= SafeGap PROVE FALSE
      OBVIOUS
    <3>1. n = MaxCount /\ 1 \in 1 .. n
      <4> HIDE DEF n, new
      <4>1. n \in Nat /\ n <= MaxCount
        BY <1>1
      <4> QED
        BY <1>8, <4>1, DmaConstants
    <3>2. Progress(dmas[1]) >= (n - 1) * SafeGap + gap
      BY <1>4, <3>1
    <3> HIDE DEF n
    <3>3. n * SafeGap = (n - 1) * SafeGap + SafeGap /\ (n - 1) * SafeGap \in Int
      <4>1. n - 1 \in Int /\ n = (n - 1) + 1
        BY <1>1
      <4> QED
        BY <4>1, GapsAddUp
    <3>4. n * SafeGap >= WaitCycles + Size
      BY <3>1, OamDmaAssumption
    <3>5. Progress(dmas[1]) \in 0 .. WaitCycles + Size - 1
      BY <1>3, <3>1
    <3> DEFINE x == (n - 1) * SafeGap
    <3>6. x \in Int /\ Progress(dmas[1]) >= x + gap /\ x + SafeGap >= WaitCycles + Size
      BY <3>2, <3>3, <3>4
    <3> HIDE DEF x
    <3> QED
      BY <1>1, <3>5, <3>6, DmaConstants
  <2>6. ExitNeedsBurst'
    BY <1>5, <2>5 DEF ExitNeedsBurst
  <2> QED
    BY <2>2, <2>3, <2>4, <2>6 DEF DmaInv
<1> QED
  BY <1>7, <1>8

\* The program reaches OAM only while no transfer has copied a byte.
LEMMA WriteOamKeeps ==
  ASSUME DmaInv, NEW b \in Index, WriteOam(b)
  PROVE  DmaInv'
<1>1. /\ DmaTypeOK /\ DmaOrder /\ DmaSpacing /\ LatestCopyIntact /\ ExitNeedsBurst
      /\ dmas' = dmas /\ page' = page /\ exited' = exited /\ gap' = gap /\ spaced' = spaced
      /\ ~DmaRunning
      /\ oam' = [oam EXCEPT ![b] = Cpu]
  BY DEF DmaInv, WriteOam
<1>2. DmaTypeOK'
  BY <1>1 DEF DmaTypeOK
<1>3. DmaOrder' /\ DmaSpacing' /\ ExitNeedsBurst'
  BY <1>1 DEF DmaOrder, DmaSpacing, ExitNeedsBurst
<1>4. dmas # <<>> => dmas[Len(dmas)].index = 0
  <2> SUFFICES ASSUME dmas # <<>> PROVE dmas[Len(dmas)].index = 0
    OBVIOUS
  <2>1. Len(dmas) \in DOMAIN dmas /\ dmas[Len(dmas)] \in Transfer
    BY <1>1, DmaVector
  <2>2. ~Copies(dmas[Len(dmas)])
    BY <1>1, <2>1 DEF LatestCopyIntact
  <2>3. dmas[Len(dmas)].wait > 0
    BY <2>1, <2>2, DmaConstants DEF Copies, Transfer
  <2> QED
    BY <1>1, <2>1, <2>3 DEF DmaOrder
<1>5. LatestCopyIntact'
  BY <1>1, <1>4 DEF LatestCopyIntact, DmaRunning
<1> QED
  BY <1>2, <1>3, <1>5 DEF DmaInv

LEMMA DmaStarts == DmaInit => DmaInv
<1> SUFFICES ASSUME DmaInit PROVE DmaInv
  OBVIOUS
<1>1. dmas = <<>> /\ Len(dmas) = 0 /\ DOMAIN dmas = {} /\ dmas \in Seq(Transfer)
  BY DEF DmaInit
<1>2. DmaTypeOK
  <2>1. oam \in [Index -> Pages \union {Cpu}] /\ page \in Pages \union {Cpu}
    BY DEF DmaInit
  <2>2. exited \in BOOLEAN /\ spaced \in BOOLEAN
    BY DEF DmaInit
  <2>3. gap \in 0 .. LongGap /\ Len(dmas) <= MaxCount
    BY <1>1, DmaConstants DEF DmaInit
  <2> QED
    BY <1>1, <2>1, <2>2, <2>3 DEF DmaTypeOK
<1> QED
  BY <1>1, <1>2 DEF DmaInit, DmaInv, DmaOrder, DmaSpacing, LatestCopyIntact, ExitNeedsBurst

LEMMA DmaInvariant == DmaSpec => []DmaInv
<1>1. DmaInv /\ [DmaNext]_dmaVars => DmaInv'
  <2> SUFFICES ASSUME DmaInv, [DmaNext]_dmaVars PROVE DmaInv'
    OBVIOUS
  <2>1. CASE DmaTick
    BY <2>1, TickKeeps
  <2>2. CASE \E p \in Pages : Start(p)
    BY <2>2, StartKeeps
  <2>3. CASE \E i \in Index : WriteOam(i)
    BY <2>3, WriteOamKeeps
  <2>4. CASE UNCHANGED dmaVars
    BY <2>4 DEF dmaVars, DmaInv, DmaTypeOK, DmaOrder, DmaSpacing, LatestCopyIntact,
                ExitNeedsBurst, DmaRunning
  <2> QED
    BY <2>1, <2>2, <2>3, <2>4 DEF DmaNext
<1> QED
  BY <1>1, DmaStarts, PTL DEF DmaSpec

\* The vector never holds more than OAM_DMA_MAX_COUNT transfers, and never a
\* finished one, however the program spaces its FF46 writes.
THEOREM DmaTypeCorrect == DmaSpec => []DmaTypeOK
<1>1. DmaInv => DmaTypeOK
  BY DEF DmaInv
<1> QED
  BY <1>1, DmaInvariant, PTL

\* Overlapping transfers of any length and number never disturb the youngest one,
\* and OAM is hidden from the program while any of them copies.
THEOREM LatestCopyIntactAlways == DmaSpec => []LatestCopyIntact
<1>1. DmaInv => LatestCopyIntact
  BY DEF DmaInv
<1> QED
  BY <1>1, DmaInvariant, PTL

\* A program that leaves a quarter of a transfer between its starts never ends
\* the process.
THEOREM ExitNeedsBurstAlways == DmaSpec => []ExitNeedsBurst
<1>1. DmaInv => ExitNeedsBurst
  BY DEF DmaInv
<1> QED
  BY <1>1, DmaInvariant, PTL
=============================================================================
