--------------------------------- MODULE MCApu ---------------------------------
(* Lengths of 2 to 4 ticks, 2-bit frequencies, and sweeps off, up and down. *)
EXTENDS Apu

MCBase == <<2, 3, 4, 3>>
Set(pace, negate, shift) == [pace |-> pace, negate |-> negate, shift |-> shift]
MCSweepSettings == {NoSweep, Set(1, FALSE, 1), Set(1, TRUE, 1)}
=============================================================================
