------------------------------- MODULE MCSession -------------------------------
(* Three ROMs, two of them with one name, and one state file of the user's. *)
EXTENDS Session

CONSTANTS A, B, C, NameA, NameB, S

MCRoms == {A, B, C}
MCNames == {NameA, NameB}
MCNameOf == [r \in MCRoms |-> IF r = A THEN NameA ELSE NameB]
MCSaves == {S}
=============================================================================
