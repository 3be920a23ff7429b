------------------------------- MODULE MCTimer -------------------------------
(* Timer with a 5-bit clock and 2-bit TIMA and TMA; the frequencies keep the code's *)
(* order (slowest, fastest, between) and its least weight, 2; the sequencer's *)
(* bit is the clock's top bit.                                                *)
EXTENDS Timer

MCFreqs == 0 .. 2
MCTacWeight == [f \in MCFreqs |-> CASE f = 0 -> 8 [] f = 1 -> 2 [] f = 2 -> 4]
=============================================================================
