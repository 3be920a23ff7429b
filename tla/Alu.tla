--------------------------------- MODULE Alu ---------------------------------
(***************************************************************************)
(* The arithmetic of cpu/instructions: flag_ops.h and the operator structs *)
(* that compute a byte or a word and its flags.  Everything here is a      *)
(* constant operator on bytes (0 .. 255) and words (0 .. 65535), with the  *)
(* code's widths; an operation returns the value it computes and the flags *)
(* it sets.  Instructions applies these to the registers and memory.       *)
(***************************************************************************)
EXTENDS Integers

Byte == 0 .. 255
WordMax == 65535
Word == 0 .. WordMax
Signed == -128 .. 127       \* int8_t

\* Registers F's four flags: zero, subtraction, half carry, carry.
FlagSet == [z : BOOLEAN, n : BOOLEAN, h : BOOLEAN, c : BOOLEAN]
Flags(z, n, h, c) == [z |-> z, n |-> n, h |-> h, c |-> c]
One(flag) == IF flag THEN 1 ELSE 0

\* F as the byte PUSH AF writes and POP AF reads (whose low nibble is dropped).
FlagByte(f) == 128 * One(f.z) + 64 * One(f.n) + 32 * One(f.h) + 16 * One(f.c)
ByteFlags(b) == Flags(b >= 128, (b \div 64) % 2 = 1, (b \div 32) % 2 = 1, (b \div 16) % 2 = 1)

AsSigned(b) == IF b < 128 THEN b ELSE b - 256

\* A bit of a byte, and the byte made of the bits in a set.
Mask(k) == <<1, 2, 4, 8, 16, 32, 64, 128>>[k + 1]
Bit(v, k) == (v \div Mask(k)) % 2 = 1
OfBits(S) ==
  LET At(k) == IF k \in S THEN Mask(k) ELSE 0
  IN  At(0) + At(1) + At(2) + At(3) + At(4) + At(5) + At(6) + At(7)

-----------------------------------------------------------------------------
(* flag_ops.h *)

HalfCarryAdd8(a, b, carry) == (a % 16) + (b % 16) + carry > 15
CarryAdd8(a, b, carry) == a + b + carry > 255
HalfCarrySub(a, b) == a % 16 < b % 16
CarrySub(a, b) == a < b
HalfCarryAdd16(a, b) == (a % 4096) + (b % 4096) > 4095
CarryAdd16(a, b) == a + b > 65535

\* For a negative offset the code compares the low part of the sum with that
\* of the stack pointer, and takes "not above" for a carry.
CarryAddSp(sp, e) ==
  IF e >= 0 THEN (sp % 256) + e > 255 ELSE (sp + e) % 256 <= sp % 256
HalfCarryAddSp(sp, e) ==
  IF e >= 0 THEN (sp % 16) + (e % 16) > 15 ELSE (sp + e) % 16 <= sp % 16

-----------------------------------------------------------------------------
(* The operators: ADD and ADC (ADD adds no carry), SUB, SBC and CP likewise. *)

Add(a, b, carry) ==
  LET r == (a + b + carry) % 256
  IN  [r |-> r, f |-> Flags(r = 0, FALSE, HalfCarryAdd8(a, b, carry), CarryAdd8(a, b, carry))]

\* The borrow of the carry is looked for in the already reduced difference.
Sub(a, b, carry) ==
  LET d == (a - b) % 256
      r == (d - carry) % 256
  IN  [r |-> r, f |-> Flags(r = 0, TRUE, HalfCarrySub(a, b) \/ HalfCarrySub(d, carry),
                                         CarrySub(a, b) \/ CarrySub(d, carry))]

\* The three logical operators differ in the half-carry flag they leave.
Logic(r, half) == [r |-> r, f |-> Flags(r = 0, FALSE, half, FALSE)]
And(a, b) == Logic(OfBits({k \in 0 .. 7 : Bit(a, k) /\ Bit(b, k)}), TRUE)
Xor(a, b) == Logic(OfBits({k \in 0 .. 7 : Bit(a, k) # Bit(b, k)}), FALSE)
Or(a, b) == Logic(OfBits({k \in 0 .. 7 : Bit(a, k) \/ Bit(b, k)}), FALSE)

\* INC and DEC of a byte keep the carry flag.
Inc(v, f) ==
  [r |-> (v + 1) % 256, f |-> Flags(v = 255, FALSE, v % 16 = 15, f.c)]
Dec(v, f) ==
  [r |-> (v - 1) % 256, f |-> Flags(v = 1, TRUE, v % 16 = 0, f.c)]

AddHL(hl, v, f) ==
  [r |-> (hl + v) % 65536, f |-> Flags(f.z, FALSE, HalfCarryAdd16(hl, v), CarryAdd16(hl, v))]
AddSp(sp, e) ==
  [r |-> (sp + e) % 65536, f |-> Flags(FALSE, FALSE, HalfCarryAddSp(sp, e), CarryAddSp(sp, e))]

\* Mutant of Daa: the half carry of an addition is not looked at.
DaaIgnoresHalf(a, f) ==
  LET low == IF a % 16 > 9 THEN a + 6 ELSE a
      high == IF f.c \/ low > 159 THEN low + 96 ELSE low
      less == IF f.c THEN a - 96 ELSE a
      s == IF f.n THEN less ELSE high
  IN  [r |-> s % 256, f |-> Flags(s % 256 = 0, f.n, FALSE, f.c \/ (s \div 256) % 2 = 1)]

\* DAA: the sum grows in a uint16_t, so bit 8 is the decimal carry; a
\* difference is reduced to a byte after its lower digit.
Daa(a, f) ==
  LET low == IF f.h \/ a % 16 > 9 THEN a + 6 ELSE a
      high == IF f.c \/ low > 159 THEN low + 96 ELSE low
      lower == IF f.h THEN (a - 6) % 256 ELSE a
      less == IF f.c THEN lower - 96 ELSE lower
      s == IF f.n THEN less ELSE high
  IN  [r |-> s % 256, f |-> Flags(s % 256 = 0, f.n, FALSE, f.c \/ (s \div 256) % 2 = 1)]

\* The shifts, by the CB table's row; each returns the byte and the bit it drops.
RLC(v) == [r |-> ((2 * v) % 256) + (v \div 128), c |-> v >= 128]
RRC(v) == [r |-> (v \div 2) + 128 * (v % 2), c |-> v % 2 = 1]
RL(v, carry) == [r |-> ((2 * v) % 256) + carry, c |-> v >= 128]
RR(v, carry) == [r |-> (v \div 2) + 128 * carry, c |-> v % 2 = 1]
SLA(v) == [r |-> (2 * v) % 256, c |-> v >= 128]
SRA(v) == [r |-> (v \div 2) + 128 * (v \div 128), c |-> v % 2 = 1]
SWAP(v) == [r |-> 16 * (v % 16) + (v \div 16), c |-> FALSE]
SRL(v) == [r |-> v \div 2, c |-> v % 2 = 1]

-----------------------------------------------------------------------------
(* Binary-coded decimals: two digits, one in each half of the byte. *)

BCD == {b \in Byte : b \div 16 < 10 /\ b % 16 < 10}
Decimal(b) == 10 * (b \div 16) + (b % 16)
=============================================================================
