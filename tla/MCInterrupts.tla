----------------------------- MODULE MCInterrupts ------------------------------
(* Interrupts with three sources and ordinary instructions of up to 3 cycles. *)
EXTENDS Interrupts

CONSTANTS VBlank, LcdStat, Timer

MCSources == {VBlank, LcdStat, Timer}
MCRank == [s \in MCSources |-> CASE s = VBlank -> 0 [] s = LcdStat -> 1 [] s = Timer -> 2]
MCInitialFlags == {VBlank}
=============================================================================
