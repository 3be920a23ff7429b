------------------------------- MODULE MCOamDma -------------------------------
(* OAM of 5 bytes: a transfer takes 7 ticks, starts may be 2 ticks apart, so a  *)
(* fourth transfer can meet the three that the vector holds.                    *)
EXTENDS OamDma

CONSTANTS A, B
MCPages == {A, B}
=============================================================================
