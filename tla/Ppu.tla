---------------------------------- MODULE Ppu ----------------------------------
(***************************************************************************)
(* The PPU's state machine (ppu/ppu.cpp): the four modes of a line, LY,    *)
(* the combined STAT interrupt line, the delayed HBlank interrupt of a     *)
(* halted CPU, the window line counter, and switching the LCD.             *)
(*                                                                         *)
(* Pixels are left out: drawing a line is the mode 3 penalty it adds and   *)
(* whether it advanced the window.  The VBlank request is the step         *)
(* EnterVBlank.  A tick with the LCD off changes nothing here.  CPU writes *)
(* may follow one another without a tick in between, more often than the   *)
(* instructions allow.                                                     *)
(***************************************************************************)
EXTENDS Integers

CONSTANTS
  CyclesPerTick,    \* T_CYCLES_PER_TICK (4)
  SearchCycles,     \* OAM_SEARCH_CYCLES (80)
  TransferCycles,   \* PIXEL_TRANSFER_BASE_CYCLES (172)
  HBlankCycles,     \* HBLANK_BASE_CYCLES (204)
  EnableOffset,     \* PPU_ENABLE_OFFSET_CYCLES (128)
  VBlankStart,      \* VBLANK_START_LINE (144)
  VBlankEnd,        \* VBLANK_END_LINE (154)
  Penalties,        \* what SCX and the objects of a line add to mode 3
  WindowPenalty,    \* MODE_3_WINDOW_SWITCH_PENALTY (6)
  WindowSize,       \* values of window_scanline_ (2^16)
  LyValues,         \* values of LY and LYC (0 .. 255)
  LyWrites,         \* those the program writes
  IntsWrites        \* the interrupt enables it writes to STAT

\* STAT's interrupt enable bits, named after the mode they watch.
Ints == {"LYC", "HBlank", "VBlank", "OAMSearch"}

\* SCANLINE_CYCLES.
LineCycles == SearchCycles + TransferCycles + HBlankCycles

\* A tick never crosses two mode changes, nor does the first line's head start.
ASSUME PpuAssumption ==
  /\ CyclesPerTick \in Nat \ {0} /\ SearchCycles \in Nat /\ TransferCycles \in Nat
  /\ HBlankCycles \in Nat /\ EnableOffset \in Nat /\ WindowPenalty \in Nat
  /\ WindowSize \in Nat \ {0}
  /\ VBlankStart \in Nat \ {0} /\ VBlankEnd \in Nat /\ VBlankStart < VBlankEnd
  /\ 0 .. VBlankEnd \subseteq LyValues /\ LyWrites \subseteq LyValues
  /\ IntsWrites \subseteq SUBSET Ints
  /\ Penalties \subseteq Nat
  /\ CyclesPerTick <= SearchCycles /\ CyclesPerTick <= TransferCycles
  /\ CyclesPerTick <= HBlankCycles
  /\ EnableOffset + CyclesPerTick < SearchCycles + TransferCycles
  /\ EnableOffset < HBlankCycles
  /\ \A p \in Penalties :
       /\ p + WindowPenalty + CyclesPerTick <= HBlankCycles
       /\ EnableOffset + CyclesPerTick + p + WindowPenalty < TransferCycles + HBlankCycles

Modes == {"HBlank", "VBlank", "OAMSearch", "PixelTransfer"}

VARIABLES
  mode,             \* current_mode_
  elapsed,          \* elapsed_t_cycles_
  line,             \* scanline_
  penalty,          \* mode_3_penalty_
  window,           \* window_scanline_
  enabled,          \* enabled_
  justEnabled,      \* just_enabled_
  frameDone,        \* frame_just_completed_
  io                \* STAT, LY, LYC and the STAT interrupt: see IO

timing == <<elapsed, line, penalty, window>>
vars == <<mode, timing, enabled, justEnabled, frameDone, io>>

IO ==
  [ bits : Modes, same : BOOLEAN, ints : SUBSET Ints,     \* STAT
    ly : LyValues, lyc : LyValues,
    high : BOOLEAN,           \* stat_interrupt_line_
    late : BOOLEAN,           \* fire_hblank_next_tick_
    request : BOOLEAN ]       \* the LCD STAT bit of IF

-----------------------------------------------------------------------------
\* stat_should_fire of a STAT value v.
ShouldFire(v) == (v.same /\ "LYC" \in v.ints) \/ v.bits \in v.ints

\* Mutant of Fire: a halted CPU gets no interrupt at all.
FireAwake(s, was, now, m, asleep) ==
  IF was \/ ~now \/ asleep THEN s ELSE [s EXCEPT !.request = TRUE]

\* fire_stat_interrupt: a rising line requests, one tick later if the CPU is
\* halted in an HBlank whose interrupt is enabled.
Fire(s, was, now, m, asleep) ==
  LET postpone == asleep /\ m = "HBlank" /\ "HBlank" \in s.ints
  IN  IF was \/ ~now THEN s
      ELSE IF postpone THEN [s EXCEPT !.late = TRUE]
      ELSE [s EXCEPT !.request = TRUE]

\* stat_write's second half: the line follows the STAT value v.
Drive(s, v, m, asleep) ==
  Fire([s EXCEPT !.high = ShouldFire(v)], s.high, ShouldFire(v), m, asleep)

\* stat_write for LY or LYC, and the register write behind it.
Compare(s, ly, lyc, m, asleep) ==
  LET t == [s EXCEPT !.same = (ly = lyc)]
  IN  [Drive(t, t, m, asleep) EXCEPT !.ly = ly, !.lyc = lyc]

\* set_mode's STAT part; it puts back the LYC flag that stat_write refreshed.
SetMode(s, m, asleep) ==
  [Drive(s, [s EXCEPT !.bits = m], m, asleep) EXCEPT !.bits = m]

\* set_LY without force.
SetLY(s, n, m, asleep) == IF n = s.ly THEN s ELSE Compare(s, n, s.lyc, m, asleep)

\* Mutant of Delivered: the flag is not reset.
DeliveredAgain == [io EXCEPT !.request = @ \/ io.late]

\* The interrupt PPU::tick postponed in the tick before.
Delivered == [io EXCEPT !.request = @ \/ io.late, !.late = FALSE]

Init ==
  /\ mode = "OAMSearch"
  /\ elapsed = 0 /\ line = 0 /\ penalty = 0 /\ window = 0
  /\ justEnabled = FALSE /\ frameDone = FALSE
  /\ \E boot \in BOOLEAN :            \* boot_rom_active
       /\ enabled = ~boot
       /\ io = [ bits |-> IF boot THEN "HBlank" ELSE "VBlank", same |-> ~boot,
                 ints |-> {}, ly |-> 0, lyc |-> 0,
                 high |-> FALSE, late |-> FALSE, request |-> FALSE ]

-----------------------------------------------------------------------------
\* When the current mode ends, in T-cycles since it began.
Deadline ==
  CASE mode = "OAMSearch" -> SearchCycles
    [] mode = "PixelTransfer" -> TransferCycles + penalty
    [] mode = "HBlank" -> HBlankCycles - penalty
    [] OTHER -> LineCycles

Stay ==
  /\ enabled
  /\ elapsed + CyclesPerTick < Deadline
  /\ elapsed' = elapsed + CyclesPerTick
  /\ io' = Delivered
  /\ UNCHANGED <<mode, line, penalty, window, enabled, justEnabled, frameDone>>

\* Mutant of Ends: the rest of the cycles is dropped.
EndsAtZero(m) ==
  /\ enabled /\ mode = m
  /\ elapsed + CyclesPerTick >= Deadline
  /\ elapsed' = 0

\* The rest of the cycles counts for the next mode.
Ends(m) ==
  /\ enabled /\ mode = m
  /\ elapsed + CyclesPerTick >= Deadline
  /\ elapsed' = elapsed + CyclesPerTick - Deadline

\* set_mode(PixelTransfer) and render_scanline, from penalty p.
Draw(p) ==
  /\ mode' = "PixelTransfer"
  /\ \E q \in Penalties, drawn \in BOOLEAN :
       /\ penalty' = p + q + (IF drawn THEN WindowPenalty ELSE 0)
       /\ window' = IF drawn THEN (window + 1) % WindowSize ELSE window

EndSearch ==
  /\ Ends("OAMSearch")
  /\ Draw(penalty)
  /\ \E asleep \in BOOLEAN : io' = SetMode(Delivered, "PixelTransfer", asleep)
  /\ UNCHANGED <<line, enabled, justEnabled, frameDone>>

EndTransfer ==
  /\ Ends("PixelTransfer")
  /\ mode' = "HBlank"
  /\ \E asleep \in BOOLEAN : io' = SetMode(Delivered, "HBlank", asleep)
  /\ UNCHANGED <<line, penalty, window, enabled, justEnabled, frameDone>>

\* Mutant of EndFirstHBlank: just_enabled_ stays set.
EndFirstHBlankAgain ==
  /\ Ends("HBlank") /\ justEnabled
  /\ Draw(0)
  /\ \E asleep \in BOOLEAN : io' = SetMode(Delivered, "PixelTransfer", asleep)
  /\ UNCHANGED <<line, enabled, justEnabled, frameDone>>

\* The HBlank a fresh LCD begins with leads straight to drawing line 0.
EndFirstHBlank ==
  /\ Ends("HBlank") /\ justEnabled
  /\ justEnabled' = FALSE
  /\ Draw(0)
  /\ \E asleep \in BOOLEAN : io' = SetMode(Delivered, "PixelTransfer", asleep)
  /\ UNCHANGED <<line, enabled, frameDone>>

NextLine ==
  /\ Ends("HBlank") /\ ~justEnabled
  /\ line + 1 # VBlankStart
  /\ line' = line + 1 /\ penalty' = 0
  /\ mode' = "OAMSearch"
  /\ \E asleep \in BOOLEAN :
       io' = SetMode(SetLY(Delivered, line + 1, "HBlank", asleep), "OAMSearch", asleep)
  /\ UNCHANGED <<window, enabled, justEnabled, frameDone>>

\* Line 144: an enabled OAM interrupt fires here too, if the line is low.
EnterVBlank ==
  /\ Ends("HBlank") /\ ~justEnabled
  /\ line + 1 = VBlankStart
  /\ line' = line + 1 /\ penalty' = 0
  /\ mode' = "VBlank" /\ window' = 0
  /\ frameDone' = TRUE
  /\ \E asleep \in BOOLEAN :
       LET s == SetLY(Delivered, line + 1, "HBlank", asleep)
           t == IF "OAMSearch" \in s.ints THEN Fire(s, s.high, TRUE, "HBlank", asleep) ELSE s
       IN  io' = SetMode(t, "VBlank", asleep)
  /\ UNCHANGED <<enabled, justEnabled>>

\* Mutant of VBlankLine: it does not stop at the last line.
VBlankLineOn ==
  /\ Ends("VBlank")
  /\ line' = line + 1
  /\ io' = SetLY(Delivered, line + 1, "VBlank", FALSE)
  /\ UNCHANGED <<mode, penalty, window, enabled, justEnabled, frameDone>>

VBlankLine ==
  /\ Ends("VBlank")
  /\ line + 1 # VBlankEnd
  /\ line' = line + 1
  /\ io' = SetLY(Delivered, line + 1, "VBlank", FALSE)
  /\ UNCHANGED <<mode, penalty, window, enabled, justEnabled, frameDone>>

\* LY passes through 154 before it is 0 again.
EndVBlank ==
  /\ Ends("VBlank")
  /\ line + 1 = VBlankEnd
  /\ line' = 0
  /\ mode' = "OAMSearch"
  /\ LET s == SetMode(SetLY(Delivered, VBlankEnd, "VBlank", FALSE), "OAMSearch", FALSE)
     IN  io' = SetLY(s, 0, "OAMSearch", FALSE)
  /\ UNCHANGED <<penalty, window, enabled, justEnabled, frameDone>>

Tick ==
  \/ Stay \/ EndSearch \/ EndTransfer \/ EndFirstHBlank
  \/ NextLine \/ EnterVBlank \/ VBlankLine \/ EndVBlank

-----------------------------------------------------------------------------
\* CPU writes: STAT, LY and LYC reach the interrupt line only on a live LCD.
Live == enabled \/ justEnabled

WriteStat(ints) ==
  /\ io' = IF Live
           THEN LET t == [io EXCEPT !.same = (io.ly = io.lyc)]
                IN  [Drive(t, [io EXCEPT !.ints = ints], mode, FALSE) EXCEPT !.ints = ints]
           ELSE [io EXCEPT !.ints = ints]
  /\ UNCHANGED <<mode, timing, enabled, justEnabled, frameDone>>

\* Mutant of WriteLines: the store skips stat_write.
WriteLinesOnly(ly, lyc) ==
  /\ io' = [io EXCEPT !.ly = ly, !.lyc = lyc]
  /\ UNCHANGED <<mode, timing, enabled, justEnabled, frameDone>>

WriteLines(ly, lyc) ==
  /\ io' = IF Live THEN Compare(io, ly, lyc, mode, FALSE)
                   ELSE [io EXCEPT !.ly = ly, !.lyc = lyc]
  /\ UNCHANGED <<mode, timing, enabled, justEnabled, frameDone>>

WriteLy(v) == WriteLines(v, io.lyc)
WriteLyc(v) == WriteLines(io.ly, v)

\* LCDC bit 7 rises.
LcdOn ==
  /\ ~enabled /\ enabled' = TRUE
  /\ line' = 0 /\ elapsed' = EnableOffset
  /\ justEnabled' = TRUE
  /\ io' = Compare(io, 0, io.lyc, mode, FALSE)         \* set_LY(true)
  /\ UNCHANGED <<mode, penalty, window, frameDone>>

\* Mutant of LcdOff: the mode stays.
LcdOffAsIs ==
  /\ enabled /\ enabled' = FALSE
  /\ UNCHANGED <<mode, timing, justEnabled, frameDone, io>>

\* LCDC bit 7 falls: HBlank, entered while still enabled.
LcdOff ==
  /\ enabled /\ enabled' = FALSE
  /\ mode' = "HBlank"
  /\ io' = SetMode(io, "HBlank", FALSE)
  /\ UNCHANGED <<timing, justEnabled, frameDone>>

\* The interrupt controller serves, or the program clears, the request.
Acknowledge ==
  /\ io' = [io EXCEPT !.request = FALSE]
  /\ UNCHANGED <<mode, timing, enabled, justEnabled, frameDone>>

\* MainLoop::run asks frame_completed after an instruction.
TakeFrame ==
  /\ frameDone /\ frameDone' = FALSE
  /\ UNCHANGED <<mode, timing, enabled, justEnabled, io>>

Next ==
  \/ Tick
  \/ \E ints \in IntsWrites : WriteStat(ints)
  \/ \E v \in LyWrites : WriteLy(v) \/ WriteLyc(v)
  \/ LcdOn \/ LcdOff
  \/ Acknowledge \/ TakeFrame

Spec == Init /\ [][Next]_vars

\* CPU::tick ticks the PPU without end.
FairSpec == Spec /\ WF_vars(Tick)
-----------------------------------------------------------------------------
\* Every variable keeps its range; the penalties never reach HBlank's length.
MaxPenalty(p) == \E q \in Penalties : p <= q + WindowPenalty
TypeOK ==
  /\ mode \in Modes /\ elapsed \in Nat /\ line \in 0 .. VBlankEnd - 1
  /\ penalty \in Nat /\ (penalty = 0 \/ MaxPenalty(penalty))
  /\ window \in 0 .. WindowSize - 1
  /\ enabled \in BOOLEAN /\ justEnabled \in BOOLEAN
  /\ frameDone \in BOOLEAN /\ io \in IO

\* stat_interrupt_line_ and the LYC flag are caches of STAT, LY and LYC that many
\* handlers refresh.  While the LCD is on they agree with what they are computed
\* from after every handler, so no edge is missed and none is invented.
StatLineCoherent ==
  enabled => io.high = ShouldFire(io) /\ io.same = (io.ly = io.lyc)

\* A rise of the STAT line is never lost: the step that makes it requests the
\* interrupt, or postpones it to the next tick (fire_stat_interrupt).
RisingLineRequests == [][io'.high /\ ~io.high => io'.request \/ io'.late]_vars

\* An interrupt that is still postponed belongs to an HBlank, so none is at the
\* end of a frame, where the state is saved without fire_hblank_next_tick_.
PostponedOnlyInHBlank == io.late => mode = "HBlank"

\* Mode and line agree while the LCD is on: VBlank exactly on the lines behind
\* the screen, whatever is written and whenever the LCD is switched.
ModeMatchesLine == enabled => (mode = "VBlank" <=> line >= VBlankStart)

\* Where the beam is: the cycles since the line began.
Position ==
  CASE mode = "OAMSearch" -> elapsed
    [] mode = "PixelTransfer" -> SearchCycles + elapsed
    [] mode = "HBlank" -> SearchCycles + TransferCycles + penalty + elapsed
    [] OTHER -> elapsed

Running == enabled /\ ~justEnabled

\* The four modes with their penalties and carried-over cycles amount to lines
\* of constant length, in order, in frames of VBlankEnd lines.
Beam == INSTANCE Raster
          WITH Lines <- VBlankEnd, on <- enabled, starting <- enabled /\ justEnabled,
               dot <- IF Running THEN Position ELSE 0
RunsLikeRaster == Beam!Spec

\* As long as the LCD stays on, frames go on being completed; the main loop
\* polls the window, and saves, only then.
FramesKeepComing == <>[]enabled => []<><<EnterVBlank>>_vars

\* "Reset window line counter for next frame" (ppu.cpp:337): whenever line 0 is
\* drawn, the window counts from 0.
FrameStartsWindowAtZero ==
  [][mode # "PixelTransfer" /\ mode' = "PixelTransfer" /\ line = 0 => window' <= 1]_vars
=============================================================================
