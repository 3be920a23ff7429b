------------------------------ MODULE MCCartridge ------------------------------
(* Three batteries: MBC1 with more ROM than one bank register selects, MBC5    *)
(* with more than a byte-wide mask does, and MBC2, whose battery type the code *)
(* does not take for one.  Bytes have 3 bits, a RAM bank holds A or B.         *)
EXTENDS Cartridge

CONSTANTS A, B

MCCarts ==
  { [code |-> 3, rom |-> 8, ram |-> 2], [code |-> 27, rom |-> 16, ram |-> 2],
    [code |-> 6, rom |-> 2, ram |-> 0] }
MCLowSize == [t \in RomTypes |-> IF t = "MBC5" THEN 8 ELSE 4]
MCHighSize == [t \in RomTypes |-> IF t = "MBC2" THEN 1 ELSE 2]
MCContents == {A, B}
MCSnapshots ==
  { [cart |-> c, ram |-> [b \in Slots |-> A], ticks |-> 1,
     reg |-> [PowerOn EXCEPT !.bank2 = 1, !.mode = (c.code = 3), !.enabled = TRUE]] :
      c \in {d \in MCCarts : d.code # 6} }
=============================================================================
