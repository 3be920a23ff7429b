-------------------------------- MODULE MCPpu ---------------------------------
(* Ppu with lines of 10 cycles, two of them on the screen and two in VBlank,  *)
(* ticks of 2 cycles and a window penalty that is not a multiple of a tick.  *)
EXTENDS Ppu

MCPenalties == {0, 2}
MCLyValues == 0 .. 4
MCLyWrites == {0, 1, 4}
MCIntsWrites ==
  {{}, {"LYC"}, {"HBlank"}, {"LYC", "HBlank"}, {"OAMSearch", "VBlank"}, Ints}
=============================================================================
