-------------------------------- MODULE Raster --------------------------------
(***************************************************************************)
(* What the PPU's timing promises, with the modes hidden: while the LCD is *)
(* on, a beam moves over the lines of a frame at a fixed speed, every line *)
(* LineCycles long, whatever each line spends on drawing.  Only the line   *)
(* that follows switching the LCD on is special.  Module Ppu implements it.*)
(***************************************************************************)
EXTENDS Integers

CONSTANTS
  CyclesPerTick,    \* T_CYCLES_PER_TICK (4)
  LineCycles,       \* SCANLINE_CYCLES (456)
  Lines,            \* lines of a frame (VBLANK_END_LINE, 154)
  SearchCycles      \* OAM_SEARCH_CYCLES (80), skipped by the special line

VARIABLES on, starting, dot, line

vars == <<on, starting, dot, line>>

Init == on \in BOOLEAN /\ starting = FALSE /\ dot = 0 /\ line = 0

\* The beam advances, and wraps to the next line.
Move ==
  /\ on /\ ~starting
  /\ IF dot + CyclesPerTick < LineCycles
     THEN dot' = dot + CyclesPerTick /\ line' = line
     ELSE /\ dot' = dot + CyclesPerTick - LineCycles
          /\ line' = IF line + 1 = Lines THEN 0 ELSE line + 1
  /\ UNCHANGED <<on, starting>>

\* The special line settles somewhere behind the search.
Settle ==
  /\ on /\ starting
  /\ starting' = FALSE
  /\ dot' \in SearchCycles .. LineCycles - 1
  /\ UNCHANGED <<on, line>>

TurnOn == ~on /\ on' = TRUE /\ starting' = TRUE /\ dot' = 0 /\ line' = 0

TurnOff == on /\ on' = FALSE /\ starting' = FALSE /\ dot' = 0 /\ line' = line

Next == Move \/ Settle \/ TurnOn \/ TurnOff

Spec == Init /\ [][Next]_vars
=============================================================================
