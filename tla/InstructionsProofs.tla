--------------------------- MODULE InstructionsProofs ---------------------------
(***************************************************************************)
(* Facts about the arithmetic for every byte and word; then, for every      *)
(* memory, program and start, the instruction set's types, its bus, its     *)
(* stack, and decimal arithmetic through two instructions; at the end, the  *)
(* lists of the memory bridge, at every address.                            *)
(***************************************************************************)
EXTENDS Instructions, MemoryBridge, SequenceTheorems, TLAPS

\* A uint8_t holds a sum of two bytes and a carry up to one wrap, and a
\* difference up to one borrow.
LEMMA ByteLow ==
  ASSUME NEW x \in Int, 0 <= x, x < 256  PROVE x % 256 = x
BY SMT

LEMMA ByteWrap ==
  ASSUME NEW x \in Int, 256 <= x, x < 512  PROVE x % 256 = x - 256
BY SMT

LEMMA ByteBorrow ==
  ASSUME NEW x \in Int, -256 <= x, x < 0  PROVE x % 256 = x + 256
BY SMT

LEMMA NibbleOf ==
  ASSUME NEW x \in Int
  PROVE  /\ x % 16 \in 0 .. 15 /\ x \div 16 \in Int
         /\ x = 16 * (x \div 16) + (x % 16)
BY SMT

LEMMA WordMembers ==
  \A v : v \in Word <=> v \in Int /\ 0 <= v /\ v <= 65535
<1>1. WordMax \in Int
  BY SMT DEF WordMax
<1>2. \A v : v \in Word <=> v \in Int /\ 0 <= v /\ v <= WordMax
  BY <1>1, SMT DEF Word
<1> QED
  BY <1>2, SMT DEF WordMax

LEMMA OneIsBit ==
  \A flag : One(flag) \in {0, 1}
BY DEF One

\* ADD and ADC: the result and the carry flag together are the whole sum, and
\* the half carry is the fifth bit of the nibbles' sum.
THEOREM AddIsExact ==
  ASSUME NEW a \in Byte, NEW b \in Byte, NEW carry \in {0, 1}
  PROVE  /\ Add(a, b, carry).r \in Byte
         /\ Add(a, b, carry).r + 256 * One(Add(a, b, carry).f.c) = a + b + carry
         /\ Add(a, b, carry).f.h <=> (a % 16) + (b % 16) + carry > 15
<1> DEFINE s == a + b + carry
           r == s % 256
<1>1. Add(a, b, carry).r = r /\ Add(a, b, carry).f.c = (s > 255)
      /\ Add(a, b, carry).f.h = ((a % 16) + (b % 16) + carry > 15)
  BY DEF Add, Flags, HalfCarryAdd8, CarryAdd8
<1>2. s \in Int /\ 0 <= s /\ s < 512
  BY SMT DEF Byte
<1>3. r \in Byte /\ r + 256 * One(s > 255) = s
  <2>1. CASE s > 255
    <3>1. r = s - 256
      BY <1>2, <2>1, ByteWrap
    <3> HIDE DEF r, s
    <3> QED
      BY <1>2, <2>1, <3>1, SMT DEF Byte, One
  <2>2. CASE ~(s > 255)
    <3>1. r = s
      BY <1>2, <2>2, ByteLow
    <3> HIDE DEF r, s
    <3> QED
      BY <1>2, <2>2, <3>1, SMT DEF Byte, One
  <2> QED
    BY <2>1, <2>2
<1> QED
  BY <1>1, <1>3, ZenonT(30)

\* SUB, SBC and CP: the result and the carry flag are the whole difference,
\* although the code looks for the borrow in two steps.
THEOREM SubIsExact ==
  ASSUME NEW a \in Byte, NEW b \in Byte, NEW carry \in {0, 1}
  PROVE  /\ Sub(a, b, carry).r \in Byte
         /\ Sub(a, b, carry).r - 256 * One(Sub(a, b, carry).f.c) = a - b - carry
<1> DEFINE d == (a - b) % 256
           r == (d - carry) % 256
<1>1. Sub(a, b, carry).r = r /\ Sub(a, b, carry).f.c = (a < b \/ d < carry)
  BY DEF Sub, Flags, HalfCarrySub, CarrySub
<1>2. d \in Byte /\ d = (IF a < b THEN a - b + 256 ELSE a - b)
  <2>1. CASE a < b
    BY <2>1, ByteBorrow, SMT DEF Byte
  <2>2. CASE ~(a < b)
    BY <2>2, ByteLow, SMT DEF Byte
  <2> QED
    BY <2>1, <2>2
<1>3. r \in Byte /\ r = (IF d < carry THEN d - carry + 256 ELSE d - carry)
  <2> HIDE DEF d
  <2>1. CASE d < carry
    BY <1>2, <2>1, ByteBorrow, SMT DEF Byte
  <2>2. CASE ~(d < carry)
    BY <1>2, <2>2, ByteLow, SMT DEF Byte
  <2> QED
    BY <2>1, <2>2
<1>4. r - 256 * One(a < b \/ d < carry) = a - b - carry
  <2> HIDE DEF d, r
  <2> QED
    BY <1>2, <1>3, SMT DEF Byte, One
<1> QED
  BY <1>1, <1>3, <1>4

LEMMA SameResidue256 ==
  ASSUME NEW x \in Int, NEW y \in Int
  PROVE  /\ 0 <= (x % 256) + y /\ (x % 256) + y < 256 => (x + y) % 256 = (x % 256) + y
         /\ -256 <= (x % 256) + y /\ (x % 256) + y < 0 => (x + y) % 256 = (x % 256) + y + 256
BY SMT

LEMMA SameResidue16 ==
  ASSUME NEW x \in Int, NEW y \in Int
  PROVE  /\ (x % 16) + (y % 16) < 16 => (x + y) % 16 = (x % 16) + (y % 16)
         /\ (x % 16) + (y % 16) >= 16 => (x + y) % 16 = (x % 16) + (y % 16) - 16
         /\ x % 16 \in 0 .. 15 /\ y % 16 \in 0 .. 15
BY SMT

\* ADD SP,e and LD HL,SP+e: the carry flag is always the carry of adding the
\* offset's byte to the low byte of SP.  The half carry is that of the nibbles
\* unless the offset is a negative multiple of 16: there it is set although no
\* nibble carries, because an unchanged nibble counts as a carry (flag_ops.h:78).
THEOREM AddSpFlags ==
  ASSUME NEW sp0 \in Word, NEW e \in Signed
  PROVE  /\ CarryAddSp(sp0, e) <=> (sp0 % 256) + (e % 256) > 255
         /\ ~(e < 0 /\ e % 16 = 0) =>
              (HalfCarryAddSp(sp0, e) <=> (sp0 % 16) + (e % 16) > 15)
         /\ e < 0 /\ e % 16 = 0 =>
              HalfCarryAddSp(sp0, e) /\ ~((sp0 % 16) + (e % 16) > 15)
<1>1. sp0 \in Int /\ e \in Int /\ -128 <= e /\ e < 128 /\ sp0 % 256 \in 0 .. 255
  BY WordMembers, SMT DEF Signed
<1>2. e % 256 = (IF e < 0 THEN e + 256 ELSE e)
  BY <1>1, ByteLow, ByteBorrow
<1>3. CASE e >= 0
  BY <1>1, <1>2, <1>3, SMT DEF CarryAddSp, HalfCarryAddSp
<1>4. CASE e < 0
  <2>1. (sp0 + e) % 256 = (IF (sp0 % 256) + e < 0 THEN (sp0 % 256) + e + 256 ELSE (sp0 % 256) + e)
    BY <1>1, <1>4, SameResidue256
  <2>2. CarryAddSp(sp0, e) <=> (sp0 + e) % 256 <= sp0 % 256
    BY <1>4, <1>1 DEF CarryAddSp
  <2>3. HalfCarryAddSp(sp0, e) <=> (sp0 + e) % 16 <= sp0 % 16
    BY <1>4, <1>1 DEF HalfCarryAddSp
  <2>4. (sp0 + e) % 16 = (IF (sp0 % 16) + (e % 16) < 16 THEN (sp0 % 16) + (e % 16)
                                                       ELSE (sp0 % 16) + (e % 16) - 16)
        /\ sp0 % 16 \in 0 .. 15 /\ e % 16 \in 0 .. 15
    BY <1>1, SameResidue16
  <2>5. (sp0 + e) % 256 <= sp0 % 256 <=> (sp0 % 256) + (e % 256) > 255
    BY <1>1, <1>2, <1>4, <2>1
  <2>6. (sp0 + e) % 16 <= sp0 % 16 <=> (sp0 % 16) + (e % 16) > 15 \/ e % 16 = 0
    BY <2>4
  <2>7. e % 16 = 0 => ~((sp0 % 16) + (e % 16) > 15)
    BY <2>4
  <2> QED
    BY <1>4, <2>2, <2>3, <2>5, <2>6, <2>7
<1> QED
  BY <1>1, <1>3, <1>4

LEMMA ByteSplit ==
  ASSUME NEW h \in Int, NEW l \in 0 .. 15
  PROVE  (16 * h + l) % 16 = l /\ (16 * h + l) \div 16 = h
BY SMT

DaaLow(r, g) == IF g.h \/ r % 16 > 9 THEN r + 6 ELSE r
DaaHigh(r, g) == IF g.c \/ DaaLow(r, g) > 159 THEN DaaLow(r, g) + 96 ELSE DaaLow(r, g)

\* Daa's two ways, digit by digit.
DaaLower(r, g) == IF g.h THEN (r - 6) % 256 ELSE r
DaaLess(r, g) == IF g.c THEN DaaLower(r, g) - 96 ELSE DaaLower(r, g)

LEMMA DaaAfterAddition ==
  ASSUME NEW r, NEW g, ~g.n
  PROVE  /\ Daa(r, g).r = DaaHigh(r, g) % 256
         /\ Daa(r, g).f.c <=> g.c \/ (DaaHigh(r, g) \div 256) % 2 = 1
BY DEF Daa, Flags, DaaLow, DaaHigh

\* ADD or ADC of two decimal bytes and then DAA: the decimal sum, with its carry.
THEOREM DecimalSum ==
  ASSUME NEW a \in BCD, NEW b \in BCD, NEW carry \in {0, 1},
         NEW sum, sum = Add(a, b, carry), NEW d, d = Daa(sum.r, sum.f)
  PROVE  /\ d.r \in BCD
         /\ Decimal(d.r) + 100 * One(d.f.c) = Decimal(a) + Decimal(b) + carry
<1> DEFINE l == (a % 16) + (b % 16) + carry
           h == (a \div 16) + (b \div 16)
           s == a + b + carry
           r == s % 256
           half == l > 15
           low == IF half \/ r % 16 > 9 THEN r + 6 ELSE r
           high == IF s > 255 \/ low > 159 THEN low + 96 ELSE low
           D == 10 * h + l         \* the decimal sum
<1>1. /\ a \in 0 .. 255 /\ b \in 0 .. 255
      /\ a % 16 \in 0 .. 9 /\ b % 16 \in 0 .. 9 /\ a \div 16 \in 0 .. 9 /\ b \div 16 \in 0 .. 9
      /\ a = 16 * (a \div 16) + (a % 16) /\ b = 16 * (b \div 16) + (b % 16)
  BY SMT DEF BCD, Byte
<1>2. l \in 0 .. 19 /\ h \in 0 .. 18 /\ s = 16 * h + l /\ s \in 0 .. 511
      /\ Decimal(a) + Decimal(b) + carry = D
  BY <1>1, SMT DEF Decimal
<1>3. d.r = high % 256 /\ (d.f.c <=> s > 255 \/ (high \div 256) % 2 = 1)
  <2>1. sum.r = r /\ ~sum.f.n /\ sum.f.h = half /\ sum.f.c = (s > 255)
    BY DEF Add, Flags, HalfCarryAdd8, CarryAdd8
  <2>2. DaaHigh(sum.r, sum.f) = high
    <3> HIDE DEF r, half, s
    <3> QED
      BY <2>1, ZenonT(30) DEF DaaLow, DaaHigh
  <2> HIDE DEF high
  <2>3. /\ d.r = DaaHigh(sum.r, sum.f) % 256
        /\ d.f.c <=> sum.f.c \/ (DaaHigh(sum.r, sum.f) \div 256) % 2 = 1
    BY <2>1, DaaAfterAddition
  <2> QED
    BY <2>1, <2>2, <2>3
<1> HIDE DEF l, h, s
<1>4. r = (IF s > 255 THEN s - 256 ELSE s)
  BY <1>2, ByteLow, ByteWrap
<1>5. r % 16 = (IF half THEN l - 16 ELSE l)
  <2> DEFINE q == IF s > 255 THEN (IF half THEN h - 15 ELSE h - 16)
                             ELSE (IF half THEN h + 1 ELSE h)
             n == IF half THEN l - 16 ELSE l
  <2>1. q \in Int /\ n \in 0 .. 15 /\ r = 16 * q + n
    BY <1>2, <1>4
  <2> HIDE DEF q, n
  <2>2. (16 * q + n) % 16 = n
    BY <2>1, ByteSplit, SMTT(30)
  <2> QED
    BY <2>1, <2>2 DEF n
<1>6. low = (IF l > 9 THEN r + 6 ELSE r)
  BY <1>2, <1>5
<1> HIDE DEF r
\* a whole decimal: the carry of the units moves to the tens
<1> DEFINE u == IF l > 9 THEN l - 10 ELSE l
           t == IF l > 9 THEN h + 1 ELSE h
<1>7. u \in 0 .. 9 /\ t \in 0 .. 19 /\ D = 10 * t + u
      /\ low = 16 * t + u - (IF s > 255 THEN 256 ELSE 0)
  BY <1>2, <1>4, <1>6
<1>8. high = (IF t > 9 THEN 16 * t + u + 96 - (IF s > 255 THEN 256 ELSE 0) ELSE 16 * t + u)
  BY <1>2, <1>7
<1> HIDE DEF u, t, high, low
<1>9. /\ high % 256 = 16 * (IF t > 9 THEN t - 10 ELSE t) + u
      /\ (s > 255 \/ (high \div 256) % 2 = 1) <=> t > 9
  BY <1>2, <1>7, <1>8, SMT
<1> DEFINE v == IF t > 9 THEN t - 10 ELSE t
<1>10. v \in 0 .. 9 /\ d.r = 16 * v + u
  BY <1>3, <1>7, <1>9
<1>11. d.r % 16 = u /\ d.r \div 16 = v /\ d.r \in 0 .. 255
  BY <1>7, <1>10, ByteSplit, SMTT(30)
<1>12. d.r \in BCD /\ Decimal(d.r) = 10 * v + u
  BY <1>7, <1>10, <1>11 DEF BCD, Byte, Decimal
<1>13. 10 * v + u + 100 * One(d.f.c) = 10 * t + u
  <2>1. CASE t > 9
    <3>1. One(d.f.c) = 1 /\ v = t - 10
      BY <1>3, <1>9, <2>1 DEF One
    <3> QED
      BY <1>7, <2>1, <3>1
  <2>2. CASE ~(t > 9)
    <3>1. One(d.f.c) = 0 /\ v = t
      BY <1>3, <1>9, <2>2 DEF One
    <3> QED
      BY <1>7, <2>2, <3>1
  <2> QED
    BY <2>1, <2>2
<1> QED
  BY <1>2, <1>7, <1>12, <1>13

LEMMA DaaAfterSubtraction ==
  ASSUME NEW r, NEW g, g.n
  PROVE  /\ Daa(r, g).r = DaaLess(r, g) % 256
         /\ Daa(r, g).f.c <=> g.c \/ (DaaLess(r, g) \div 256) % 2 = 1
BY DEF Daa, Flags, DaaLower, DaaLess

\* SUB or SBC of two decimal bytes and then DAA: the decimal difference, with
\* its borrow, although DAA corrects each digit on its own.
THEOREM DecimalDifference ==
  ASSUME NEW a \in BCD, NEW b \in BCD, NEW carry \in {0, 1},
         NEW diff, diff = Sub(a, b, carry), NEW d, d = Daa(diff.r, diff.f)
  PROVE  /\ d.r \in BCD
         /\ Decimal(d.r) - 100 * One(d.f.c) = Decimal(a) - Decimal(b) - carry
<1> DEFINE al == a % 16
           ah == a \div 16
           bl == b % 16
           bh == b \div 16
           l == al - bl - carry
           h == ah - bh
           s == 16 * h + l
           d0 == (a - b) % 256
           r == diff.r
           u == IF l < 0 THEN l + 10 ELSE l
           t == IF l < 0 THEN h - 1 ELSE h
           v == IF t < 0 THEN t + 10 ELSE t
<1>1. /\ a \in Byte /\ b \in Byte
      /\ al \in 0 .. 9 /\ bl \in 0 .. 9 /\ ah \in 0 .. 9 /\ bh \in 0 .. 9
      /\ a = 16 * ah + al /\ b = 16 * bh + bl
      /\ Decimal(a) = 10 * ah + al /\ Decimal(b) = 10 * bh + bl
  BY SMT DEF BCD, Byte, Decimal
<1>2. /\ l \in -10 .. 9 /\ h \in -9 .. 9 /\ s = a - b - carry
      /\ Decimal(a) - Decimal(b) - carry = 10 * h + l
  <2> HIDE DEF al, ah, bl, bh
  <2> QED
    BY <1>1
<1>3. /\ diff.f.n /\ diff.f.c \in BOOLEAN /\ diff.f.h \in BOOLEAN
      /\ diff.f.h <=> al < bl \/ d0 % 16 < carry % 16
  BY DEF Sub, Flags, HalfCarrySub, CarrySub
<1> HIDE DEF al, ah, bl, bh
<1>4. r \in Byte /\ r = (IF diff.f.c THEN s + 256 ELSE s)
  <2>1. r \in Byte /\ r - 256 * One(diff.f.c) = s
    BY <1>1, <1>2, SubIsExact
  <2> HIDE DEF r, s
  <2>2. CASE diff.f.c
    BY <2>1, <2>2 DEF One, Byte
  <2>3. CASE ~diff.f.c
    BY <2>1, <2>3 DEF One, Byte
  <2> QED
    BY <2>2, <2>3, <1>3
<1>5. diff.f.h <=> l < 0
  <2>1. CASE al < bl
    BY <1>1, <1>3, <2>1
  <2>2. CASE ~(al < bl)
    <3>1. d0 = (IF a < b THEN a - b + 256 ELSE a - b)
      BY <1>1, ByteLow, ByteBorrow DEF Byte
    <3> DEFINE q == IF a < b THEN h + 16 ELSE h
               m == al - bl
    <3>2. q \in Int /\ m \in 0 .. 15 /\ d0 = 16 * q + m
      BY <1>1, <2>2, <3>1
    <3> HIDE DEF q, m, d0
    <3>3. d0 % 16 = m /\ carry % 16 = carry
      BY <3>2, ByteSplit, SMT
    <3> QED
      BY <1>1, <1>3, <2>2, <3>3 DEF m
  <2> QED
    BY <2>1, <2>2
<1> HIDE DEF r, d0
<1>6. /\ u \in 0 .. 9 /\ t \in -10 .. 9 /\ v \in 0 .. 9 /\ 10 * h + l = 10 * t + u
      /\ s < 0 <=> t < 0
      /\ (IF l < 0 THEN s - 6 ELSE s) = 16 * t + u
  BY <1>2
<1>7. diff.f.c <=> t < 0
  BY <1>2, <1>3, <1>4, <1>6 DEF Byte
<1> HIDE DEF u, t, s, h
<1>8. DaaLower(r, diff.f) = (IF t < 0 THEN 16 * t + u + 256 ELSE 16 * t + u)
  <2>1. CASE l < 0
    <3> DEFINE x == r - 6
    <3>1. x = (IF t < 0 THEN 16 * t + u + 256 ELSE 16 * t + u)
      BY <1>2, <1>4, <1>6, <1>7, <2>1 DEF Byte
    <3>2. x \in Int /\ 0 <= x /\ x < 256
      BY <1>4, <1>6, <3>1 DEF Byte
    <3> HIDE DEF x
    <3>3. x % 256 = x
      BY <3>2, ByteLow
    <3> QED
      BY <1>5, <2>1, <3>1, <3>3 DEF DaaLower, x
  <2>2. CASE ~(l < 0)
    BY <1>2, <1>4, <1>5, <1>6, <1>7, <2>2 DEF DaaLower
  <2> QED
    BY <2>1, <2>2
<1>9. DaaLess(r, diff.f) = 16 * v + u
  BY <1>6, <1>7, <1>8 DEF DaaLess
<1> HIDE DEF v
<1>10. (16 * v + u) % 256 = 16 * v + u /\ (16 * v + u) \div 256 = 0 /\ 16 * v + u \in 0 .. 255
  BY <1>6, SMT
<1>11. d.r = 16 * v + u /\ (d.f.c <=> t < 0)
  <2>1. /\ d.r = DaaLess(r, diff.f) % 256
        /\ d.f.c <=> diff.f.c \/ (DaaLess(r, diff.f) \div 256) % 2 = 1
    BY <1>3, DaaAfterSubtraction DEF r
  <2> QED
    BY <1>7, <1>9, <1>10, <2>1
<1>12. d.r % 16 = u /\ d.r \div 16 = v
  BY <1>6, <1>11, ByteSplit
<1>13. d.r \in BCD /\ Decimal(d.r) = 10 * v + u
  BY <1>6, <1>10, <1>11, <1>12 DEF BCD, Byte, Decimal
<1>14. 10 * v + u - 100 * One(d.f.c) = 10 * t + u
  <2>1. CASE t < 0
    <3>1. One(d.f.c) = 1 /\ v = t + 10
      BY <1>11, <2>1 DEF One, v
    <3> QED
      BY <1>6, <3>1
  <2>2. CASE ~(t < 0)
    <3>1. One(d.f.c) = 0 /\ v = t
      BY <1>11, <2>2 DEF One, v
    <3> QED
      BY <1>6, <3>1
  <2> QED
    BY <2>1, <2>2
<1>15. One(d.f.c) \in Int
  BY OneIsBit
<1> QED
  BY <1>1, <1>2, <1>6, <1>13, <1>14, <1>15

-----------------------------------------------------------------------------
\* The byte HL points to costs one tick and is one access.
LEMMA HLMEMIsOneAccess ==
  ASSUME NEW i  PROVE HLMEM(i) = One(i = 6)
BY DEF HLMEM, One

LEMMA RetireKeepsBus ==
  ASSUME NEW target, NEW t \in Int, NEW n \in Int, n <= t, Retire(target, t, n)
  PROVE  OneAccessPerCycle'
BY DEF Retire, OneAccessPerCycle

LEMMA RunsKeepsBus ==
  ASSUME NEW length, NEW t \in Int, NEW n \in Int, n <= t, Runs(length, t, n)
  PROVE  OneAccessPerCycle'
BY RetireKeepsBus DEF Runs

\* An instruction never makes more memory accesses than it ticks, for every
\* program: execute's tick pays for the opcode, an operand for its own byte, and
\* the operators for the bytes they push and pop.
THEOREM BusThm == Spec => []OneAccessPerCycle
<1>1. Init => OneAccessPerCycle
  BY DEF Init, OneAccessPerCycle
<1>2. OneAccessPerCycle /\ [Next]_vars => OneAccessPerCycle'
  <2> SUFFICES ASSUME OneAccessPerCycle, [Next]_vars PROVE OneAccessPerCycle'
    OBVIOUS
  <2>1. CASE Control
    BY <2>1, RunsKeepsBus DEF Control
  <2>2. CASE LoadR8R8
    <3>1. PICK y, z : Runs(1, 1 + HLMEM(y) + HLMEM(z), 1 + One(y = 6) + One(z = 6))
      BY <2>2 DEF LoadR8R8
    <3> QED
      BY <3>1, HLMEMIsOneAccess, OneIsBit, RunsKeepsBus
  <2>3. CASE LoadR8Imm8
    <3>1. PICK y : Runs(2, 2 + HLMEM(y), 2 + One(y = 6))
      BY <2>3 DEF LoadR8Imm8
    <3> QED
      BY <3>1, HLMEMIsOneAccess, OneIsBit, RunsKeepsBus
  <2>4. CASE LoadIndirect
    BY <2>4, RunsKeepsBus DEF LoadIndirect
  <2>5. CASE LoadAbsolute
    <3>1. PICK bytes \in {1, 2, 3} : Runs(bytes, bytes + 1, bytes + 1)
      BY <2>5 DEF LoadAbsolute
    <3> QED
      BY <3>1, RunsKeepsBus
  <2>6. CASE LoadR16Imm16
    BY <2>6, RunsKeepsBus DEF LoadR16Imm16
  <2>7. CASE StoreSP
    BY <2>7, RunsKeepsBus DEF StoreSP
  <2>8. CASE LoadSPHL
    BY <2>8, RunsKeepsBus DEF LoadSPHL
  <2>9. CASE OffsetSP
    <3>1. PICK t \in {3, 4} : Runs(2, t, 2)
      BY <2>9 DEF OffsetSP
    <3> QED
      BY <3>1, RunsKeepsBus
  <2>10. CASE Arithmetic
    <3> DEFINE immediate == X(Opcode) = 3
               cost == IF immediate THEN 1 ELSE HLMEM(Z(Opcode))
    <3>1. Runs(IF immediate THEN 2 ELSE 1, 1 + cost, 1 + One(immediate \/ Z(Opcode) = 6))
      BY <2>10 DEF Arithmetic
    <3>2. cost = One(immediate \/ Z(Opcode) = 6)
      BY HLMEMIsOneAccess DEF One
    <3> QED
      BY <3>1, <3>2, OneIsBit, RunsKeepsBus
  <2>11. CASE StepR8
    <3>1. PICK y : Runs(1, 1 + 2 * HLMEM(y), 1 + 2 * One(y = 6))
      BY <2>11 DEF StepR8
    <3> QED
      BY <3>1, HLMEMIsOneAccess, OneIsBit, RunsKeepsBus
  <2>12. CASE StepR16
    BY <2>12, RunsKeepsBus DEF StepR16
  <2>13. CASE AddHLR16
    BY <2>13, RunsKeepsBus DEF AddHLR16
  <2>14. CASE Accumulator
    BY <2>14, RunsKeepsBus DEF Accumulator
  <2>15. CASE ShiftOrBit
    <3>1. PICK z : \/ Runs(2, 2 + HLMEM(z), 2 + One(z = 6))
                   \/ Runs(2, 2 + 2 * HLMEM(z), 2 + 2 * One(z = 6))
      BY <2>15 DEF ShiftOrBit
    <3> QED
      BY <3>1, HLMEMIsOneAccess, OneIsBit, RunsKeepsBus
  <2>16. CASE PushR16
    BY <2>16, RunsKeepsBus DEF PushR16
  <2>17. CASE PopR16
    BY <2>17, RunsKeepsBus DEF PopR16
  <2>18. CASE Jump
    <3> DEFINE relative == X(Opcode) = 0
               conditional == Opcode \notin {24, 195, 233}
               taken == ~conditional \/ Condition(Opcode)
               length == CASE Opcode = 233 -> 1 [] relative -> 2 [] OTHER -> 3
               target == CASE Opcode = 233 -> HL
                           [] relative -> W(pc + 2 + AsSigned(Imm8))
                           [] OTHER -> Imm16
    <3>1. Retire(IF taken THEN target ELSE W(pc + length),
                 length + One(taken /\ Opcode # 233), length)
      BY ONLY <2>18, Zenon DEF Jump
    <3>2. length \in {1, 2, 3}
      OBVIOUS
    <3> QED
      BY <3>1, <3>2, OneIsBit, RetireKeepsBus
  <2>19. CASE Call
    <3>1. PICK target, taken : Retire(target, 3 + 3 * One(taken), 3 + 2 * One(taken))
      BY <2>19, Zenon DEF Call
    <3> QED
      BY <3>1, OneIsBit, RetireKeepsBus
  <2>20. CASE Return
    <3>1. PICK target, conditional, taken :
            Retire(target, 1 + One(conditional) + 3 * One(taken), 1 + 2 * One(taken))
      BY <2>20 DEF Return
    <3> QED
      BY <3>1, OneIsBit, RetireKeepsBus
  <2>21. CASE NoHandler
    BY <2>21 DEF NoHandler, OneAccessPerCycle
  <2>22. CASE UNCHANGED vars
    BY <2>22 DEF vars, OneAccessPerCycle
  <2>23. CASE Restart
    <3>1. PICK target : Retire(target, 4, 3)
      BY <2>23, Zenon DEF Restart
    <3> QED
      BY <3>1, RetireKeepsBus
  <2> QED
    BY <2>1, <2>2, <2>3, <2>4, <2>5, <2>6, <2>7, <2>8, <2>9, <2>10, <2>11, <2>12, <2>13, <2>14,
       <2>15, <2>16, <2>17, <2>18, <2>19, <2>20, <2>21, <2>22, <2>23 DEF Next
<1> QED
  BY <1>1, <1>2, PTL DEF Spec

-----------------------------------------------------------------------------
(***************************************************************************)
(* Types.  Lemmas about the operators first: they return bytes, words and  *)
(* flags whatever the operands are.                                        *)
(***************************************************************************)
LEMMA ByteRange ==
  \A x \in Int : x % 256 \in Byte
BY SMT DEF Byte

LEMMA WordRange ==
  \A x \in Int : W(x) \in Word
BY WordMembers, SMT DEF W

LEMMA Compared ==
  \A x, y : (x > y) \in BOOLEAN /\ (x <= y) \in BOOLEAN /\ (x < y) \in BOOLEAN
OBVIOUS

LEMMA CarriesType ==
  \A x, y, carry :
    /\ HalfCarryAdd8(x, y, carry) \in BOOLEAN /\ CarryAdd8(x, y, carry) \in BOOLEAN
    /\ HalfCarrySub(x, y) \in BOOLEAN /\ CarrySub(x, y) \in BOOLEAN
    /\ HalfCarryAdd16(x, y) \in BOOLEAN /\ CarryAdd16(x, y) \in BOOLEAN
<1>1. \A x, y, carry :
        HalfCarryAdd8(x, y, carry) \in BOOLEAN /\ CarryAdd8(x, y, carry) \in BOOLEAN
  BY Compared, ZenonT(60) DEF HalfCarryAdd8, CarryAdd8
<1>2. \A x, y : HalfCarrySub(x, y) \in BOOLEAN /\ CarrySub(x, y) \in BOOLEAN
  BY Compared, Zenon DEF HalfCarrySub, CarrySub
<1>3. ASSUME NEW x, NEW y
      PROVE  HalfCarryAdd16(x, y) \in BOOLEAN /\ CarryAdd16(x, y) \in BOOLEAN
  <2> DEFINE low == (x % 4096) + (y % 4096)
  <2>1. HalfCarryAdd16(x, y) = (low > 4095) /\ CarryAdd16(x, y) = (x + y > 65535)
    BY DEF HalfCarryAdd16, CarryAdd16
  <2>2. (low > 4095) \in BOOLEAN /\ (x + y > 65535) \in BOOLEAN
    BY Compared
  <2> HIDE DEF low
  <2> QED
    BY <2>1, <2>2
<1> QED
  BY <1>1, <1>2, <1>3

LEMMA SpCarriesType ==
  ASSUME NEW a, NEW b
  PROVE  HalfCarryAddSp(a, b) \in BOOLEAN /\ CarryAddSp(a, b) \in BOOLEAN
<1>1. CASE b >= 0
  <2>1. /\ HalfCarryAddSp(a, b) = ((a % 16) + (b % 16) > 15)
        /\ CarryAddSp(a, b) = ((a % 256) + b > 255)
    BY <1>1, Zenon DEF HalfCarryAddSp, CarryAddSp
  <2>2. ((a % 16) + (b % 16) > 15) \in BOOLEAN /\ ((a % 256) + b > 255) \in BOOLEAN
    BY Compared
  <2> QED
    BY <2>1, <2>2, ZenonT(60)
<1>2. CASE ~(b >= 0)
  <2>1. /\ HalfCarryAddSp(a, b) = ((a + b) % 16 <= a % 16)
        /\ CarryAddSp(a, b) = ((a + b) % 256 <= a % 256)
    BY <1>2, Zenon DEF HalfCarryAddSp, CarryAddSp
  <2>2. ((a + b) % 16 <= a % 16) \in BOOLEAN /\ ((a + b) % 256 <= a % 256) \in BOOLEAN
    BY Compared
  <2> QED
    BY <2>1, <2>2, ZenonT(60)
<1> QED
  BY <1>1, <1>2

LEMMA Division ==
  ASSUME NEW v \in Int
  PROVE  /\ v = 256 * (v \div 256) + (v % 256)
         /\ v \div 256 \in Int /\ v % 256 \in 0 .. 255
BY SMT

LEMMA Halves ==
  ASSUME NEW v \in Word
  PROVE  v \div 256 \in Byte /\ v % 256 \in Byte
<1> DEFINE q == v \div 256
           r == v % 256
<1>1. v \in Int /\ 0 <= v /\ v <= 65535
  BY WordMembers, SMT
<1>2. v = 256 * q + r /\ q \in Int /\ r \in 0 .. 255
  BY <1>1, Division
<1> HIDE DEF q, r
<1>3. q \in Byte /\ r \in Byte
  BY <1>1, <1>2 DEF Byte
<1> QED
  BY <1>3 DEF q, r

LEMMA Joined ==
  ASSUME NEW l \in Byte, NEW h \in Byte
  PROVE  /\ l + 256 * h \in Word /\ 256 * h + l \in Word
         /\ (l + 256 * h) \div 256 = h /\ (l + 256 * h) % 256 = l
<1> DEFINE v == l + 256 * h
           q == v \div 256
           r == v % 256
<1>0. l \in 0 .. 255 /\ h \in 0 .. 255
  BY DEF Byte
<1>1. v \in Int /\ v \in Word /\ 256 * h + l = v
  <2>1. v \in Int /\ 0 <= v
    BY <1>0
  <2>2. v <= 65535
    BY <1>0
  <2>3. 256 * h + l = v
    BY <1>0
  <2> HIDE DEF v
  <2> QED
    BY <2>1, <2>2, <2>3, WordMembers, SMT
<1>2. v = 256 * q + r /\ q \in Int /\ r \in 0 .. 255
  BY <1>1, Division
<1>3. v = l + 256 * h
  OBVIOUS
<1> HIDE DEF q, r, v
<1>4. q = h /\ r = l
  BY <1>0, <1>1, <1>2, <1>3
<1> QED
  BY <1>1, <1>4 DEF q, r, v

LEMMA FlagsType ==
  ASSUME NEW z \in BOOLEAN, NEW n \in BOOLEAN, NEW h \in BOOLEAN, NEW c \in BOOLEAN
  PROVE  Flags(z, n, h, c) \in FlagSet
BY DEF Flags, FlagSet

Answer == [r : Byte, f : FlagSet]

LEMMA AnswerType ==
  ASSUME NEW r \in Byte, NEW n \in BOOLEAN, NEW h \in BOOLEAN, NEW c \in BOOLEAN
  PROVE  [r |-> r, f |-> Flags(r = 0, n, h, c)] \in Answer
BY FlagsType DEF Answer

LEMMA AddType ==
  ASSUME NEW a \in Byte, NEW b \in Byte, NEW carry \in {0, 1}
  PROVE  Add(a, b, carry) \in Answer /\ Sub(a, b, carry) \in Answer
<1> DEFINE s == (a + b + carry) % 256
           d == (a - b) % 256
           r == (d - carry) % 256
           h == HalfCarrySub(a, b) \/ HalfCarrySub(d, carry)
           c == CarrySub(a, b) \/ CarrySub(d, carry)
<1>1. s \in Byte /\ d \in Byte
  <2>1. a + b + carry \in Int /\ a - b \in Int
    BY DEF Byte
  <2> QED
    BY <2>1, ByteRange
<1>2. r \in Byte
  <2> HIDE DEF d
  <2>1. d - carry \in Int
    BY <1>1 DEF Byte
  <2> QED
    BY <2>1, ByteRange
<1>3. h \in BOOLEAN /\ c \in BOOLEAN
  BY CarriesType
<1>4. /\ Add(a, b, carry) =
           [r |-> s, f |-> Flags(s = 0, FALSE, HalfCarryAdd8(a, b, carry), CarryAdd8(a, b, carry))]
      /\ Sub(a, b, carry) = [r |-> r, f |-> Flags(r = 0, TRUE, h, c)]
  BY DEF Add, Sub
<1> HIDE DEF s, d, r, h, c
<1>5. HalfCarryAdd8(a, b, carry) \in BOOLEAN /\ CarryAdd8(a, b, carry) \in BOOLEAN
  BY CarriesType
<1>6. /\ [r |-> s, f |-> Flags(s = 0, FALSE, HalfCarryAdd8(a, b, carry), CarryAdd8(a, b, carry))]
           \in Answer
      /\ [r |-> r, f |-> Flags(r = 0, TRUE, h, c)] \in Answer
  BY <1>1, <1>2, <1>3, <1>5, AnswerType, Zenon
<1> QED
  BY <1>4, <1>6, Zenon

LEMMA OfBitsType ==
  ASSUME NEW S
  PROVE  OfBits(S) \in Byte
<1> DEFINE At(k) == IF k \in S THEN Mask(k) ELSE 0
<1>1. /\ At(0) \in {0, 1} /\ At(1) \in {0, 2} /\ At(2) \in {0, 4} /\ At(3) \in {0, 8}
      /\ At(4) \in {0, 16} /\ At(5) \in {0, 32} /\ At(6) \in {0, 64} /\ At(7) \in {0, 128}
  BY DEF Mask
<1>2. OfBits(S) = At(0) + At(1) + At(2) + At(3) + At(4) + At(5) + At(6) + At(7)
  BY DEF OfBits
<1> HIDE DEF At
<1> QED
  BY <1>1, <1>2 DEF Byte

LEMMA LogicType ==
  ASSUME NEW a, NEW b
  PROVE  And(a, b) \in Answer /\ Xor(a, b) \in Answer /\ Or(a, b) \in Answer
<1>1. ASSUME NEW r \in Byte, NEW half \in BOOLEAN
      PROVE  Logic(r, half) \in Answer
  BY <1>1, FlagsType DEF Logic, Answer
<1> QED
  BY <1>1, OfBitsType DEF And, Xor, Or

LEMMA StepType ==
  ASSUME NEW v \in Byte, NEW g \in FlagSet
  PROVE  Inc(v, g) \in Answer /\ Dec(v, g) \in Answer
<1>1. (v + 1) % 256 \in Byte /\ (v - 1) % 256 \in Byte
  <2>1. v + 1 \in Int /\ v - 1 \in Int
    BY DEF Byte
  <2> QED
    BY <2>1, ByteRange
<1>2. Flags(v = 255, FALSE, v % 16 = 15, g.c) \in FlagSet
      /\ Flags(v = 1, TRUE, v % 16 = 0, g.c) \in FlagSet
  <2>1. g.c \in BOOLEAN
    BY SMT DEF FlagSet
  <2>2. /\ (v = 255) \in BOOLEAN /\ (v % 16 = 15) \in BOOLEAN
        /\ (v = 1) \in BOOLEAN /\ (v % 16 = 0) \in BOOLEAN
    OBVIOUS
  <2> QED
    BY <2>1, <2>2, FlagsType
<1> QED
  BY <1>1, <1>2 DEF Inc, Dec, Answer

LEMMA DaaType ==
  ASSUME NEW v \in Byte, NEW g \in FlagSet
  PROVE  Daa(v, g) \in Answer
<1> DEFINE low == IF g.h \/ v % 16 > 9 THEN v + 6 ELSE v
           high == IF g.c \/ low > 159 THEN low + 96 ELSE low
           lower == IF g.h THEN (v - 6) % 256 ELSE v
           less == IF g.c THEN lower - 96 ELSE lower
           s == IF g.n THEN less ELSE high
           r == s % 256
           c == g.c \/ (s \div 256) % 2 = 1
<1>1. low \in Int /\ v \in Int
  BY DEF Byte
<1>2. lower \in Int
  <2>1. v - 6 \in Int
    BY <1>1
  <2>2. (v - 6) % 256 \in Int
    BY <2>1, ByteRange DEF Byte
  <2> QED
    BY <1>1, <2>2
<1> HIDE DEF low, lower
<1>3. s \in Int
  BY <1>1, <1>2
<1> HIDE DEF s
<1>4. r \in Byte /\ c \in BOOLEAN /\ g.n \in BOOLEAN
  BY <1>3, ByteRange DEF FlagSet
<1>5. Daa(v, g) = [r |-> r, f |-> Flags(r = 0, g.n, FALSE, c)]
  BY DEF Daa, s, low, lower
<1> HIDE DEF r, c
<1>6. [r |-> r, f |-> Flags(r = 0, g.n, FALSE, c)] \in Answer
  BY <1>4, AnswerType, Zenon
<1> QED
  BY <1>5, <1>6, Zenon

LEMMA WordType ==
  ASSUME NEW a \in Word, NEW b \in Int, NEW g \in FlagSet
  PROVE  /\ AddHL(a, b, g).r \in Word /\ AddHL(a, b, g).f \in FlagSet
         /\ AddSp(a, b).r \in Word /\ AddSp(a, b).f \in FlagSet
<1>1. (a + b) % 65536 \in Word
  <2>1. a + b \in Int
    BY WordMembers, SMT
  <2>2. W(a + b) = (a + b) % 65536
    BY DEF W
  <2> QED
    BY <2>1, <2>2, WordRange
<1>2. g.z \in BOOLEAN
  BY DEF FlagSet
<1>3. /\ HalfCarryAdd16(a, b) \in BOOLEAN /\ CarryAdd16(a, b) \in BOOLEAN
      /\ HalfCarryAddSp(a, b) \in BOOLEAN /\ CarryAddSp(a, b) \in BOOLEAN
  BY CarriesType, SpCarriesType
<1>4. /\ Flags(g.z, FALSE, HalfCarryAdd16(a, b), CarryAdd16(a, b)) \in FlagSet
      /\ Flags(FALSE, FALSE, HalfCarryAddSp(a, b), CarryAddSp(a, b)) \in FlagSet
  BY <1>2, <1>3, FlagsType
<1> DEFINE x == (a + b) % 65536
<1>5. /\ AddHL(a, b, g).r = x /\ AddSp(a, b).r = x
      /\ AddHL(a, b, g).f = Flags(g.z, FALSE, HalfCarryAdd16(a, b), CarryAdd16(a, b))
      /\ AddSp(a, b).f = Flags(FALSE, FALSE, HalfCarryAddSp(a, b), CarryAddSp(a, b))
  BY DEF AddHL, AddSp
<1>6. x \in Word
  BY <1>1
<1> HIDE DEF x
<1> QED
  BY <1>4, <1>5, <1>6

Dropped == [r : Byte, c : BOOLEAN]

LEMMA ShiftType ==
  ASSUME NEW v \in Byte, NEW carry \in {0, 1}
  PROVE  /\ RLC(v) \in Dropped /\ RRC(v) \in Dropped
         /\ RL(v, carry) \in Dropped /\ RR(v, carry) \in Dropped
         /\ SLA(v) \in Dropped /\ SRA(v) \in Dropped /\ SWAP(v) \in Dropped /\ SRL(v) \in Dropped
<1>1. /\ ((2 * v) % 256) + (v \div 128) \in Byte /\ ((2 * v) % 256) + carry \in Byte
      /\ (2 * v) % 256 \in Byte
  <2>1. CASE v < 128
    <3>1. (2 * v) % 256 = 2 * v /\ v \div 128 = 0
      BY <2>1, SMT DEF Byte
    <3> QED
      BY <2>1, <3>1, SMT DEF Byte
  <2>2. CASE v >= 128
    <3>1. (2 * v) % 256 = 2 * v - 256 /\ v \div 128 = 1
      BY <2>2, SMT DEF Byte
    <3> QED
      BY <2>2, <3>1, SMT DEF Byte
  <2> QED
    BY <2>1, <2>2 DEF Byte
<1>2. /\ (v \div 2) + 128 * (v % 2) \in Byte /\ (v \div 2) + 128 * carry \in Byte
      /\ (v \div 2) + 128 * (v \div 128) \in Byte /\ v \div 2 \in Byte
      /\ 16 * (v % 16) + (v \div 16) \in Byte
  BY SMT DEF Byte
<1> QED
  BY <1>1, <1>2 DEF RLC, RRC, RL, RR, SLA, SRA, SWAP, SRL, Dropped

\* RES and SET stay within the byte: the bit is there, or it is not.
LEMMA BitFits ==
  ASSUME NEW v \in Byte, NEW k \in 0 .. 7
  PROVE  /\ Bit(v, k) => v - Mask(k) \in Byte
         /\ ~Bit(v, k) => v + Mask(k) \in Byte
         /\ Bit(v, k) \in BOOLEAN
<1>1. k \in {0, 1, 2, 3, 4, 5, 6, 7}
  BY SMT
<1>2. /\ Mask(0) = 1 /\ Mask(1) = 2 /\ Mask(2) = 4 /\ Mask(3) = 8
      /\ Mask(4) = 16 /\ Mask(5) = 32 /\ Mask(6) = 64 /\ Mask(7) = 128
  BY DEF Mask
<1>3. ASSUME NEW m \in {1, 2, 4, 8, 16, 32, 64, 128}
      PROVE  /\ (v \div m) % 2 = 1 => v - m \in Byte
             /\ ~((v \div m) % 2 = 1) => v + m \in Byte
  BY <1>3, SMT DEF Byte
<1>4. Mask(k) \in {1, 2, 4, 8, 16, 32, 64, 128}
  BY <1>1, <1>2
<1> QED
  BY <1>3, <1>4 DEF Bit

\* The opcode's octal digits.
LEMMA DigitTypes ==
  ASSUME NEW op \in Byte
  PROVE  X(op) \in 0 .. 3 /\ Y(op) \in 0 .. 7 /\ Z(op) \in 0 .. 7 /\ P(op) \in 0 .. 3
<1>1. X(op) \in 0 .. 3
  BY SMT DEF X, Byte
<1>2. Y(op) \in 0 .. 7
  BY SMT DEF Y, Byte
<1>3. Z(op) \in 0 .. 7
  BY SMT DEF Z, Byte
<1>4. P(op) \in 0 .. 3
  BY SMT DEF P, Byte
<1> QED
  BY <1>1, <1>2, <1>3, <1>4

LEMMA WordIsInt ==
  \A v \in Word : v \in Int
BY WordMembers, SMT

LEMMA ReadType ==
  ASSUME TypeOK, NEW a
  PROVE  Read(a) \in Byte
BY DEF TypeOK, Read, Byte

LEMMA RegisterTypes ==
  ASSUME TypeOK
  PROVE  /\ \A n \in Names : regs[n] \in Byte
         /\ regs.A \in Byte /\ regs.B \in Byte /\ regs.C \in Byte /\ regs.D \in Byte
         /\ regs.E \in Byte /\ regs.H \in Byte /\ regs.L \in Byte
BY DEF TypeOK, Names

LEMMA OperandTypes ==
  ASSUME TypeOK
  PROVE  /\ Opcode \in Byte /\ Imm8 \in Byte /\ Imm16 \in Word /\ HL \in Word
         /\ \A p \in 0 .. 3 : Pair(p) \in Word
         /\ \A i \in 0 .. 7 : Get8(i) \in Byte
         /\ Popped \in Word /\ sp \in Word /\ pc \in Word
<1>1. Opcode \in Byte /\ Imm8 \in Byte
  BY ReadType DEF Opcode, Imm8
<1>2. Imm16 \in Word
  <2>1. Read(W(pc + 2)) \in Byte
    BY ReadType
  <2> QED
    BY <1>1, <2>1, Joined DEF Imm16
<1>3. Popped \in Word
  <2>1. Read(sp) \in Byte /\ Read(W(sp + 1)) \in Byte
    BY ReadType
  <2> QED
    BY <2>1, Joined DEF Popped
<1>4. HL \in Word /\ 256 * regs.B + regs.C \in Word /\ 256 * regs.D + regs.E \in Word
  BY RegisterTypes, Joined DEF HL
<1>5. sp \in Word /\ pc \in Word
  BY DEF TypeOK
<1>6. ASSUME NEW p \in 0 .. 3 PROVE Pair(p) \in Word
  <2>1. p = 0 \/ p = 1 \/ p = 2 \/ p = 3
    BY <1>6
  <2>2. /\ Pair(0) = 256 * regs.B + regs.C /\ Pair(1) = 256 * regs.D + regs.E
        /\ Pair(2) = HL /\ Pair(3) = sp
    BY DEF Pair
  <2> QED
    BY <1>4, <1>5, <2>1, <2>2
<1>7. ASSUME NEW i \in 0 .. 7 PROVE Get8(i) \in Byte
  <2>1. CASE i = 6
    BY <2>1, ReadType DEF Get8
  <2>2. CASE i # 6
    <3>1. i \in {0, 1, 2, 3, 4, 5, 7}
      BY <1>7, <2>2
    <3>2. R8(i) \in Names
      BY <3>1 DEF R8, Names
    <3> QED
      BY <2>2, <3>2, RegisterTypes DEF Get8
  <2> QED
    BY <2>1, <2>2
<1> QED
  BY <1>1, <1>2, <1>3, <1>4, <1>5, <1>6, <1>7

LEMMA WriteTypes ==
  ASSUME TypeOK, NEW a, NEW v \in Byte, Write(a, v)
  PROVE  mem' \in [Ram -> Byte] /\ pushed' \in Seq(Word)
<1>1. mem \in [Ram -> Byte] /\ pushed \in Seq(Word) /\ <<>> \in Seq(Word)
  BY EmptySeq DEF TypeOK
<1>2. mem' \in [Ram -> Byte]
  BY <1>1 DEF Write, Stored
<1>3. pushed' = <<>> \/ pushed' = pushed
  BY DEF Write
<1> QED
  BY <1>1, <1>2, <1>3

LEMMA PutTypes ==
  ASSUME TypeOK, NEW i \in 0 .. 7, NEW v \in Byte, Put8(i, v)
  PROVE  regs' \in [Names -> Byte] /\ mem' \in [Ram -> Byte] /\ pushed' \in Seq(Word)
<1>1. CASE i = 6
  <2>1. Write(HL, v) /\ regs' = regs
    BY <1>1 DEF Put8
  <2> QED
    BY <2>1, WriteTypes DEF TypeOK
<1>2. CASE i # 6
  <2>1. regs' = [regs EXCEPT ![R8(i)] = v] /\ mem' = mem /\ pushed' = pushed
    BY <1>2 DEF Put8
  <2> QED
    BY <2>1 DEF TypeOK
<1> QED
  BY <1>1, <1>2

LEMMA WithPairType ==
  ASSUME TypeOK, NEW p \in 0 .. 2, NEW v \in Word
  PROVE  WithPair(p, v) \in [Names -> Byte]
<1> DEFINE h == v \div 256
           l == v % 256
<1>1. h \in Byte /\ l \in Byte
  BY Halves
<1>2. p = 0 \/ p = 1 \/ p = 2
  OBVIOUS
<1>3. /\ WithPair(0, v) = [regs EXCEPT !.B = h, !.C = l]
      /\ WithPair(1, v) = [regs EXCEPT !.D = h, !.E = l]
      /\ WithPair(2, v) = [regs EXCEPT !.H = h, !.L = l]
  BY DEF WithPair
<1> HIDE DEF h, l
<1>4. regs \in [Names -> Byte]
  BY DEF TypeOK
<1>5. CASE p = 0
  BY <1>1, <1>3, <1>4, <1>5
<1>6. CASE p = 1
  BY <1>1, <1>3, <1>4, <1>6
<1>7. CASE p = 2
  BY <1>1, <1>3, <1>4, <1>7
<1> QED
  BY <1>2, <1>5, <1>6, <1>7

LEMMA OnePlus ==
  \A p, q : One(p) \in {0, 1} /\ HLMEM(q) \in {0, 1}
BY DEF One, HLMEM

LEMMA WOfW ==
  ASSUME NEW a \in Int, NEW b \in Int
  PROVE  W(W(a) + b) = W(a + b)
BY SMT DEF W

LEMMA AroundOnce ==
  ASSUME NEW x \in Int
  PROVE  /\ 0 <= x /\ x < 65536 => W(x) = x
         /\ 65536 <= x /\ x < 131072 => W(x) = x - 65536
BY SMT DEF W

LEMMA WordBounds ==
  ASSUME NEW w \in Word
  PROVE  w \in Int /\ 0 <= w /\ w < 65536
BY WordMembers, SMT

LEMMA WordFrom ==
  ASSUME NEW w \in Int, 0 <= w, w < 65536
  PROVE  w \in Word
<1>1. W(w) = w
  BY AroundOnce, SMT
<1> QED
  BY <1>1, WordRange, SMT

LEMMA WIs ==
  ASSUME NEW a \in Word, NEW i \in Word
  PROVE  W(a + i) = IF a + i < 65536 THEN a + i ELSE a + i - 65536
<1>1. a \in Int /\ i \in Int /\ 0 <= a /\ a < 65536 /\ 0 <= i /\ i < 65536
  BY WordBounds, SMT
<1>2. a + i \in Int /\ 0 <= a + i /\ a + i < 131072
  BY <1>1, SMT
<1> DEFINE x == a + i
<1>3. x \in Int /\ 0 <= x /\ x < 131072
  BY <1>2, SMT
<1> HIDE DEF x
<1>4. W(x) = IF x < 65536 THEN x ELSE x - 65536
  BY <1>3, AroundOnce, SMT
<1> QED
  BY <1>1, <1>4, SMT DEF x

\* Offsets below 65536 from one address are different addresses.
LEMMA OffsetsDiffer ==
  ASSUME NEW a \in Word, NEW i \in Word, NEW j \in Word
  PROVE  W(a + i) = W(a + j) => i = j
<1> DEFINE x == W(a + i)
           y == W(a + j)
<1>1. x = IF a + i < 65536 THEN a + i ELSE a + i - 65536
  BY WIs, SMT
<1>2. y = IF a + j < 65536 THEN a + j ELSE a + j - 65536
  BY WIs, SMT
<1>3. /\ a \in Int /\ 0 <= a /\ a < 65536
      /\ i \in Int /\ 0 <= i /\ i < 65536
      /\ j \in Int /\ 0 <= j /\ j < 65536
  BY WordBounds, SMT
<1> HIDE DEF x, y
<1>4. x = y => i = j
  BY <1>1, <1>2, <1>3, SMT
<1> QED
  BY <1>4, SMT DEF x, y

LEMMA FlagByteType ==
  ASSUME NEW g \in FlagSet, NEW b \in Byte
  PROVE  FlagByte(g) \in Byte /\ ByteFlags(b) \in FlagSet
<1>1. FlagByte(g) \in Byte
  <2> DEFINE z == One(g.z)
             n == One(g.n)
             h == One(g.h)
             c == One(g.c)
  <2>1. z \in {0, 1} /\ n \in {0, 1} /\ h \in {0, 1} /\ c \in {0, 1}
    BY OnePlus
  <2>2. FlagByte(g) = 128 * z + 64 * n + 32 * h + 16 * c
    BY DEF FlagByte
  <2> HIDE DEF z, n, h, c
  <2> QED
    BY <2>1, <2>2 DEF Byte
<1>2. ByteFlags(b) \in FlagSet
  <2> DEFINE z == b >= 128
             n == (b \div 64) % 2 = 1
             h == (b \div 32) % 2 = 1
             c == (b \div 16) % 2 = 1
  <2>2. z \in BOOLEAN /\ n \in BOOLEAN /\ h \in BOOLEAN /\ c \in BOOLEAN
    <3>1. \A x, y : (x >= y) \in BOOLEAN /\ (x = y) \in BOOLEAN
      OBVIOUS
    <3> QED
      BY <3>1, Zenon
  <2>3. ByteFlags(b) = Flags(z, n, h, c)
    BY Zenon DEF ByteFlags
  <2> HIDE DEF z, n, h, c
  <2> QED
    BY <2>2, <2>3, FlagsType
<1> QED
  BY <1>1, <1>2

\* What a push of v does, however the code does it.
PushesWord(v) ==
  LET s == W(sp - 2)
  IN  /\ sp' = s
      /\ mem' = [a \in Ram |-> CASE a = W(s + 1) -> v \div 256 [] a = s -> v % 256 [] OTHER -> mem[a]]
      /\ pushed' = IF {s, W(s + 1)} \subseteq Ram THEN <<v>> \o pushed ELSE <<>>

\* The two ways the code pushes a word agree, at every stack pointer and whatever
\* of the stack is memory: two push_8, high byte first (PUSH and RST,
\* operator.inc:87 and :701), and push_16 (CALL, stack.inc:9), which moves the
\* pointer once and counts up from it.
THEOREM PushesAgree ==
  ASSUME TypeOK, NEW v \in Word
  PROVE  PushBytes(v \div 256, v % 256) <=> Push16(v)
<1> DEFINE h == v \div 256
           l == v % 256
           s == W(sp - 2)
<1>1. sp \in Int
  BY OperandTypes, WordIsInt
<1>2. W(s + 1) = W(sp - 1)
  <2>1. W(W(sp - 2) + 1) = W((sp - 2) + 1) /\ (sp - 2) + 1 = sp - 1
    BY <1>1, WOfW
  <2> QED
    BY <2>1
<1>3. W(W(sp - 1) - 1) = s
  <2>1. W(W(sp - 1) + (-1)) = W((sp - 1) + (-1)) /\ (sp - 1) + (-1) = sp - 2
    BY <1>1, WOfW
  <2>2. W(sp - 1) \in Int
    <3>1. sp - 1 \in Int
      BY <1>1
    <3> QED
      BY <3>1, WordRange, WordIsInt
  <2>3. W(sp - 1) + (-1) = W(sp - 1) - 1
    BY <2>2
  <2> QED
    BY <2>1, <2>3
<1>4. PushBytes(h, l) <=> /\ sp' = W(W(sp - 1) - 1)
                          /\ mem' = Stored(Stored(mem, W(sp - 1), h), W(W(sp - 1) - 1), l)
  BY DEF PushBytes, Push8
<1>5. Push16(v) <=> sp' = s /\ mem' = Stored(Stored(mem, W(s + 1), h), s, l)
  BY DEF Push16
<1> HIDE DEF h, l, s
<1>6. PushBytes(h, l) <=> Push16(v)
  BY <1>2, <1>3, <1>4, <1>5
<1> QED
  BY <1>6 DEF h, l

LEMMA StoredByte ==
  ASSUME NEW m, m = [a \in Ram |-> m[a]], NEW at, NEW b
  PROVE  Stored(m, at, b) = [a \in Ram |-> IF a = at THEN b ELSE m[a]]
<1>1. CASE at \in Ram
  BY <1>1 DEF Stored
<1>2. CASE at \notin Ram
  <2>1. [a \in Ram |-> IF a = at THEN b ELSE m[a]] = [a \in Ram |-> m[a]]
    BY <1>2
  <2> QED
    BY <1>2, <2>1 DEF Stored
<1> QED
  BY <1>1, <1>2

LEMMA Push16PushesWord ==
  ASSUME TypeOK, NEW v \in Word, Push16(v), Remember(v)
  PROVE  PushesWord(v)
<1> DEFINE h == v \div 256
           l == v % 256
           s == W(sp - 2)
           high == W(s + 1)
<1>1. sp' = s /\ mem' = Stored(Stored(mem, high, h), s, l)
  BY DEF Push16
<1>2. pushed' = IF {s, high} \subseteq Ram THEN <<v>> \o pushed ELSE <<>>
  <2>1. W(sp' + 1) = high
    BY <1>1
  <2>2. pushed' = IF {sp', W(sp' + 1)} \subseteq Ram THEN <<v>> \o pushed ELSE <<>>
    BY DEF Remember
  <2> HIDE DEF high, s
  <2> QED
    BY <1>1, <2>1, <2>2
<1>3. s # high
  <2>1. s \in Word /\ s \in Int
    <3>1. sp - 2 \in Int
      BY OperandTypes, WordIsInt
    <3> QED
      BY <3>1, WordRange, WordIsInt
  <2> HIDE DEF s
  <2>2. W(s + 0) = s
    BY <2>1, AroundOnce, WordBounds, SMT
  <2>3. 0 \in Word /\ 1 \in Word /\ 0 # 1
    BY WordFrom, SMT
  <2> QED
    BY <2>1, <2>2, <2>3, OffsetsDiffer
<1>4. mem = [a \in Ram |-> mem[a]]
  BY DEF TypeOK
<1> HIDE DEF h, l, s, high
<1>5. mem' = [a \in Ram |-> CASE a = high -> h [] a = s -> l [] OTHER -> mem[a]]
  <2> DEFINE m == [a \in Ram |-> IF a = high THEN h ELSE mem[a]]
  <2>1. Stored(mem, high, h) = m
    BY <1>4, StoredByte
  <2>2. m = [a \in Ram |-> m[a]] /\ \A a \in Ram : m[a] = IF a = high THEN h ELSE mem[a]
    OBVIOUS
  <2> HIDE DEF m
  <2>3. mem' = [a \in Ram |-> IF a = s THEN l ELSE m[a]]
    BY <1>1, <2>1, <2>2, StoredByte
  <2> QED
    BY <1>3, <2>2, <2>3
<1> QED
  BY <1>1, <1>2, <1>5 DEF PushesWord, h, l, s, high

LEMMA PushBytesPushesWord ==
  ASSUME TypeOK, NEW v \in Word, PushBytes(v \div 256, v % 256), Remember(v)
  PROVE  PushesWord(v)
BY PushesAgree, Push16PushesWord

LEMMA StackedType ==
  ASSUME TypeOK
  PROVE  Stacked(P(Opcode)) \in Word
<1>1. P(Opcode) \in 0 .. 3 /\ f \in FlagSet /\ \A p \in 0 .. 3 : Pair(p) \in Word
  BY OperandTypes, DigitTypes DEF TypeOK
<1>2. 0 \in Byte
  BY DEF Byte
<1>3. FlagByte(f) \in Byte /\ regs.A \in Byte
  BY <1>1, <1>2, FlagByteType, RegisterTypes
<1>4. 256 * regs.A + FlagByte(f) \in Word
  BY <1>3, Joined
<1> QED
  BY <1>1, <1>4 DEF Stacked

LEMMA SetPairTypes ==
  ASSUME TypeOK, NEW p \in 0 .. 3, NEW v \in Word, SetPair(p, v)
  PROVE  regs' \in [Names -> Byte] /\ sp' \in Word /\ pushed' \in Seq(Word)
<1>1. CASE p = 3
  <2>1. sp' = v /\ pushed' = <<>> /\ regs' = regs
    BY <1>1 DEF SetPair
  <2> QED
    BY <2>1, EmptySeq DEF TypeOK
<1>2. CASE p # 3
  <2>1. regs' = WithPair(p, v) /\ sp' = sp /\ pushed' = pushed
    BY <1>2 DEF SetPair
  <2>2. p \in 0 .. 2
    BY <1>2
  <2> QED
    BY <2>1, <2>2, WithPairType DEF TypeOK
<1> QED
  BY <1>1, <1>2

LEMMA PushTypes ==
  ASSUME TypeOK, NEW v \in Word, PushesWord(v)
  PROVE  sp' \in Word /\ mem' \in [Ram -> Byte] /\ pushed' \in Seq(Word)
<1> DEFINE s == W(sp - 2)
           h == v \div 256
           l == v % 256
<1>1. s \in Word
  <2>1. sp - 2 \in Int
    BY OperandTypes, WordIsInt
  <2> QED
    BY <2>1, WordRange
<1>2. h \in Byte /\ l \in Byte
  BY Halves
<1>3. /\ sp' = s
      /\ mem' = [a \in Ram |-> CASE a = W(s + 1) -> h [] a = s -> l [] OTHER -> mem[a]]
      /\ pushed' = IF {s, W(s + 1)} \subseteq Ram THEN <<v>> \o pushed ELSE <<>>
  BY Zenon DEF PushesWord
<1> HIDE DEF s, h, l
<1>4. mem' \in [Ram -> Byte]
  BY <1>2, <1>3 DEF TypeOK
<1>5. pushed' \in Seq(Word)
  <2>1. <<v>> \in Seq(Word) /\ pushed \in Seq(Word) /\ <<>> \in Seq(Word)
    BY EmptySeq DEF TypeOK
  <2>2. <<v>> \o pushed \in Seq(Word)
    BY <2>1, ConcatProperties
  <2> QED
    BY <1>3, <2>1, <2>2
<1> QED
  BY <1>1, <1>3, <1>4, <1>5

LEMMA PopTypes ==
  ASSUME TypeOK, Pop
  PROVE  sp' \in Word /\ pushed' \in Seq(Word)
<1>1. sp' \in Word
  <2>1. sp + 2 \in Int
    BY OperandTypes, WordIsInt
  <2> QED
    BY <2>1, WordRange DEF Pop
<1>2. pushed \in Seq(Word) /\ <<>> \in Seq(Word)
  BY EmptySeq DEF TypeOK
<1>3. pushed # <<>> => Tail(pushed) \in Seq(Word)
  BY <1>2, HeadTailProperties
<1> QED
  BY <1>1, <1>2, <1>3 DEF Pop

LEMMA RetireTypes ==
  ASSUME TypeOK, Ready, NEW target \in Word, NEW t \in 0 .. 6, NEW n \in 0 .. 5,
         Retire(target, t, n)
  PROVE  /\ pc' \in Word /\ last' \in [ticks : 0 .. 6, accesses : 0 .. 5]
         /\ left' \in 0 .. MaxInstructions /\ crashed' \in BOOLEAN
<1>1. left' \in 0 .. MaxInstructions
  BY InstructionsAssumption DEF TypeOK, Ready, Retire
<1> QED
  BY <1>1 DEF TypeOK, Retire

LEMMA RunsTypes ==
  ASSUME TypeOK, NEW length \in Int, NEW t \in 0 .. 6, NEW n \in 0 .. 5, Runs(length, t, n)
  PROVE  /\ pc' \in Word /\ last' \in [ticks : 0 .. 6, accesses : 0 .. 5]
         /\ left' \in 0 .. MaxInstructions /\ crashed' \in BOOLEAN
<1>1. pc + length \in Int
  BY OperandTypes, WordIsInt
<1>2. W(pc + length) \in Word
  BY <1>1, WordRange
<1> QED
  BY <1>2, RetireTypes DEF Runs

LEMMA ResultType ==
  ASSUME TypeOK, NEW op \in Byte, NEW v \in Byte
  PROVE  Operation(op, v) \in Answer /\ Shift(op, v) \in Dropped
<1> DEFINE carry == IF Y(op) \in {1, 3} THEN One(f.c) ELSE 0
           c == One(f.c)
<1>1. Y(op) \in 0 .. 7 /\ regs.A \in Byte /\ carry \in {0, 1} /\ c \in {0, 1}
  BY DigitTypes, RegisterTypes, OnePlus
<1>2. Operation(op, v) =
        (CASE Y(op) \in {0, 1} -> Add(regs.A, v, carry)
           [] Y(op) \in {2, 3, 7} -> Sub(regs.A, v, carry)
           [] Y(op) = 4 -> And(regs.A, v)
           [] Y(op) = 5 -> Xor(regs.A, v)
           [] Y(op) = 6 -> Or(regs.A, v))
  BY DEF Operation
<1>3. /\ Add(regs.A, v, carry) \in Answer /\ Sub(regs.A, v, carry) \in Answer
      /\ And(regs.A, v) \in Answer /\ Xor(regs.A, v) \in Answer /\ Or(regs.A, v) \in Answer
  BY <1>1, AddType, LogicType
<1> HIDE DEF carry
<1>4. Operation(op, v) \in Answer
  BY <1>1, <1>2, <1>3
<1>5. /\ RLC(v) \in Dropped /\ RRC(v) \in Dropped /\ RL(v, c) \in Dropped /\ RR(v, c) \in Dropped
      /\ SLA(v) \in Dropped /\ SRA(v) \in Dropped /\ SWAP(v) \in Dropped /\ SRL(v) \in Dropped
  BY <1>1, ShiftType
<1>6. Shift(op, v) =
        <<RLC(v), RRC(v), RL(v, c), RR(v, c), SLA(v), SRA(v), SWAP(v), SRL(v)>>[Y(op) + 1]
  BY DEF Shift
<1> HIDE DEF c
<1>7. Shift(op, v) \in Dropped
  BY <1>1, <1>5, <1>6
<1> QED
  BY <1>4, <1>7

\* The registers after an instruction that leaves memory and the stack alone.
LEMMA LoadsKeepTypes ==
  ASSUME TypeOK, Control \/ LoadR8R8 \/ LoadR8Imm8
  PROVE  TypeOK'
<1>1. /\ Y(Opcode) \in 0 .. 7 /\ Z(Opcode) \in 0 .. 7 /\ Imm8 \in Byte
      /\ Get8(Z(Opcode)) \in Byte
  BY OperandTypes, DigitTypes
<1>2. CASE Control
  <2>1. /\ Runs(1, 1, 1)
        /\ regs' = regs /\ f' = f /\ sp' = sp /\ mem' = mem /\ pushed' = pushed
    BY <1>2 DEF Control
  <2>2. request' \in {"none", "halt", "stop", "di", "ei"}
    BY <1>2 DEF Control, TypeOK
  <2> QED
    BY <2>1, <2>2, RunsTypes DEF TypeOK
<1>3. CASE LoadR8R8
  <2> DEFINE t == 1 + HLMEM(Y(Opcode)) + HLMEM(Z(Opcode))
             n == 1 + One(Y(Opcode) = 6) + One(Z(Opcode) = 6)
  <2>1. /\ Runs(1, t, n) /\ Put8(Y(Opcode), Get8(Z(Opcode)))
        /\ f' = f /\ sp' = sp /\ request' = request
    BY <1>3 DEF LoadR8R8
  <2>2. t \in 0 .. 6 /\ n \in 0 .. 5
    BY OnePlus
  <2> HIDE DEF t, n
  <2> QED
    BY <1>1, <2>1, <2>2, RunsTypes, PutTypes DEF TypeOK
<1>4. CASE LoadR8Imm8
  <2> DEFINE t == 2 + HLMEM(Y(Opcode))
             n == 2 + One(Y(Opcode) = 6)
  <2>1. /\ Runs(2, t, n) /\ Put8(Y(Opcode), Imm8)
        /\ f' = f /\ sp' = sp /\ request' = request
    BY <1>4 DEF LoadR8Imm8
  <2>2. t \in 0 .. 6 /\ n \in 0 .. 5
    BY OnePlus
  <2> HIDE DEF t, n
  <2> QED
    BY <1>1, <2>1, <2>2, RunsTypes, PutTypes DEF TypeOK
<1> QED
  BY <1>2, <1>3, <1>4

LEMMA IndirectKeepsTypes ==
  ASSUME TypeOK, LoadIndirect
  PROVE  TypeOK'
<1> DEFINE p == P(Opcode)
           address == Pair(IF p = 3 THEN 2 ELSE p)
           moved == CASE p < 2 -> regs
                      [] p = 2 -> WithPair(2, W(HL + 1))
                      [] p = 3 -> WithPair(2, W(HL - 1))
<1>1. /\ Runs(1, 2, 2)
      /\ IF Odd(Opcode) THEN regs' = [moved EXCEPT !.A = Read(address)] /\ UNCHANGED <<mem, pushed>>
                        ELSE regs' = moved /\ Write(address, regs.A)
      /\ f' = f /\ sp' = sp /\ request' = request
  BY Zenon DEF LoadIndirect
<1>2. moved \in [Names -> Byte]
  <2>1. p \in 0 .. 3
    BY OperandTypes, DigitTypes
  <2>2. HL + 1 \in Int /\ HL - 1 \in Int
    BY OperandTypes, WordIsInt
  <2>3. WithPair(2, W(HL + 1)) \in [Names -> Byte] /\ WithPair(2, W(HL - 1)) \in [Names -> Byte]
    BY <2>2, WordRange, WithPairType
  <2>4. regs \in [Names -> Byte]
    BY DEF TypeOK
  <2> HIDE DEF p
  <2> QED
    BY <2>1, <2>3, <2>4
<1> HIDE DEF moved, address
<1>3. regs' \in [Names -> Byte] /\ mem' \in [Ram -> Byte] /\ pushed' \in Seq(Word)
  <2>1. CASE Odd(Opcode)
    <3>1. regs' = [moved EXCEPT !.A = Read(address)] /\ mem' = mem /\ pushed' = pushed
      BY <1>1, <2>1
    <3> QED
      BY <1>2, <3>1, ReadType DEF TypeOK
  <2>2. CASE ~Odd(Opcode)
    <3>1. regs' = moved /\ Write(address, regs.A) /\ regs.A \in Byte
      BY <1>1, <2>2, RegisterTypes
    <3> QED
      BY <1>2, <3>1, WriteTypes
  <2> QED
    BY <2>1, <2>2
<1> QED
  BY <1>1, <1>3, RunsTypes DEF TypeOK

LEMMA AbsoluteKeepsTypes ==
  ASSUME TypeOK, LoadAbsolute
  PROVE  TypeOK'
<1>1. PICK bytes \in {1, 2, 3} : Runs(bytes, bytes + 1, bytes + 1)
  BY DEF LoadAbsolute
<1> DEFINE wide == Odd(Opcode)
           address == CASE Z(Opcode) = 0 -> 65280 + Imm8
                        [] Z(Opcode) = 2 /\ ~wide -> 65280 + regs.C
                        [] OTHER -> Imm16
<1>2. IF Opcode < 240 THEN Write(address, regs.A) /\ UNCHANGED regs
      ELSE regs' = [regs EXCEPT !.A = Read(address)] /\ UNCHANGED <<mem, pushed>>
  BY DEF LoadAbsolute
<1> HIDE DEF address
<1>3. f' = f /\ sp' = sp /\ request' = request
  BY DEF LoadAbsolute
<1>4. regs' \in [Names -> Byte] /\ mem' \in [Ram -> Byte] /\ pushed' \in Seq(Word)
  <2>1. CASE Opcode < 240
    <3>1. regs' = regs /\ Write(address, regs.A) /\ regs.A \in Byte
      BY <1>2, <2>1, RegisterTypes
    <3> QED
      BY <3>1, WriteTypes DEF TypeOK
  <2>2. CASE ~(Opcode < 240)
    <3>1. regs' = [regs EXCEPT !.A = Read(address)] /\ mem' = mem /\ pushed' = pushed
      BY <1>2, <2>2
    <3> QED
      BY <3>1, ReadType DEF TypeOK
  <2> QED
    BY <2>1, <2>2
<1>5. bytes + 1 \in 0 .. 6 /\ bytes + 1 \in 0 .. 5 /\ bytes \in Int
  OBVIOUS
<1> QED
  BY <1>1, <1>3, <1>4, <1>5, RunsTypes DEF TypeOK

LEMMA WordsKeepTypes ==
  ASSUME TypeOK, LoadR16Imm16 \/ LoadSPHL \/ OffsetSP \/ StepR16 \/ AddHLR16
  PROVE  TypeOK'
<1>1. P(Opcode) \in 0 .. 3 /\ Imm16 \in Word /\ HL \in Word /\ Pair(P(Opcode)) \in Word
      /\ f \in FlagSet /\ 3 \in 0 .. 3 /\ 2 \in 0 .. 3
  BY OperandTypes, DigitTypes DEF TypeOK
<1>2. ASSUME NEW p \in 0 .. 3, NEW v \in Word, SetPair(p, v),
             NEW length \in {1, 2, 3}, NEW t \in 1 .. 4, NEW n \in 1 .. 3, Runs(length, t, n),
             f' \in FlagSet, mem' = mem, request' = request
      PROVE  TypeOK'
  <2>1. length \in Int /\ t \in 0 .. 6 /\ n \in 0 .. 5
    OBVIOUS
  <2> QED
    BY <1>2, <2>1, SetPairTypes, RunsTypes DEF TypeOK
<1>3. CASE LoadR16Imm16
  <2>1. Runs(3, 3, 3) /\ SetPair(P(Opcode), Imm16) /\ f' = f /\ mem' = mem /\ request' = request
    BY <1>3 DEF LoadR16Imm16
  <2> QED
    BY <1>1, <1>2, <2>1
<1>4. CASE LoadSPHL
  <2>1. Runs(1, 2, 1) /\ SetPair(3, HL) /\ f' = f /\ mem' = mem /\ request' = request
    BY <1>4 DEF LoadSPHL
  <2> QED
    BY <1>1, <1>2, <2>1
<1>5. CASE OffsetSP
  <2> DEFINE e == AsSigned(Imm8)
             sum == AddSp(sp, e)
             t == IF Opcode = 248 THEN 3 ELSE 4
             p == IF Opcode = 248 THEN 2 ELSE 3
  <2>1. Runs(2, t, 2) /\ SetPair(p, sum.r) /\ f' = sum.f /\ mem' = mem /\ request' = request
    BY <1>5, Zenon DEF OffsetSP
  <2>2. e \in Int /\ sp \in Word
    BY OperandTypes DEF AsSigned, Byte
  <2> HIDE DEF e
  <2>3. sum.r \in Word /\ sum.f \in FlagSet
    BY <1>1, <2>2, WordType
  <2>4. t \in 1 .. 4 /\ p \in 0 .. 3
    OBVIOUS
  <2> HIDE DEF sum, t, p
  <2> QED
    BY <1>2, <2>1, <2>3, <2>4
<1>6. CASE StepR16
  <2> DEFINE v == W(Pair(P(Opcode)) + (IF Odd(Opcode) THEN -1 ELSE 1))
  <2>1. Runs(1, 2, 1) /\ SetPair(P(Opcode), v) /\ f' = f /\ mem' = mem /\ request' = request
    BY <1>6 DEF StepR16
  <2>2. v \in Word
    <3>1. Pair(P(Opcode)) + (IF Odd(Opcode) THEN -1 ELSE 1) \in Int
      BY <1>1, WordIsInt
    <3> QED
      BY <3>1, WordRange
  <2> HIDE DEF v
  <2> QED
    BY <1>1, <1>2, <2>1, <2>2
<1>7. CASE AddHLR16
  <2> DEFINE result == AddHL(HL, Pair(P(Opcode)), f)
  <2>1. Runs(1, 2, 1) /\ SetPair(2, result.r) /\ f' = result.f /\ mem' = mem /\ request' = request
    BY <1>7 DEF AddHLR16
  <2>2. result.r \in Word /\ result.f \in FlagSet
    BY <1>1, WordType, WordIsInt
  <2> HIDE DEF result
  <2> QED
    BY <1>1, <1>2, <2>1, <2>2
<1> QED
  BY <1>3, <1>4, <1>5, <1>6, <1>7

LEMMA StoreSPKeepsTypes ==
  ASSUME TypeOK, StoreSP
  PROVE  TypeOK'
<1> DEFINE h == sp \div 256
           l == sp % 256
<1>1. h \in Byte /\ l \in Byte
  BY OperandTypes, Halves
<1>2. mem' = [a \in Ram |-> CASE a = W(Imm16 + 1) -> h [] a = Imm16 -> l [] OTHER -> mem[a]]
  BY Zenon DEF StoreSP
<1>3. /\ Runs(3, 5, 5) /\ (pushed' = <<>> \/ pushed' = pushed)
      /\ regs' = regs /\ f' = f /\ sp' = sp /\ request' = request
  BY DEF StoreSP
<1> HIDE DEF h, l
<1>4. mem' \in [Ram -> Byte]
  BY <1>1, <1>2 DEF TypeOK
<1>5. pushed' \in Seq(Word)
  BY <1>3, EmptySeq DEF TypeOK
<1> QED
  BY <1>3, <1>4, <1>5, RunsTypes DEF TypeOK

LEMMA ArithmeticKeepsTypes ==
  ASSUME TypeOK, Arithmetic \/ StepR8
  PROVE  TypeOK'
<1>1. /\ Opcode \in Byte /\ Y(Opcode) \in 0 .. 7 /\ Z(Opcode) \in 0 .. 7 /\ Imm8 \in Byte
      /\ Get8(Y(Opcode)) \in Byte /\ Get8(Z(Opcode)) \in Byte /\ f \in FlagSet
  BY OperandTypes, DigitTypes DEF TypeOK
<1>2. CASE Arithmetic
  <2> DEFINE immediate == X(Opcode) = 3
             cost == IF immediate THEN 1 ELSE HLMEM(Z(Opcode))
             v == IF immediate THEN Imm8 ELSE Get8(Z(Opcode))
             result == Operation(Opcode, v)
             length == IF immediate THEN 2 ELSE 1
             t == 1 + cost
             n == 1 + One(immediate \/ Z(Opcode) = 6)
  <2>1. /\ Runs(length, t, n)
        /\ regs' = IF Y(Opcode) = 7 THEN regs ELSE [regs EXCEPT !.A = result.r]
        /\ f' = result.f
        /\ sp' = sp /\ mem' = mem /\ pushed' = pushed /\ request' = request
    BY <1>2 DEF Arithmetic
  <2>2. length \in Int /\ t \in 0 .. 6 /\ n \in 0 .. 5
    BY OnePlus
  <2>3. v \in Byte
    BY <1>1
  <2> HIDE DEF length, t, n, v
  <2>4. result \in Answer
    BY <1>1, <2>3, ResultType
  <2> HIDE DEF result
  <2>5. regs' \in [Names -> Byte] /\ f' \in FlagSet
    BY <2>1, <2>4 DEF TypeOK, Answer
  <2> QED
    BY <2>1, <2>2, <2>5, RunsTypes DEF TypeOK
<1>3. CASE StepR8
  <2> DEFINE result == IF Z(Opcode) = 4 THEN Inc(Get8(Y(Opcode)), f) ELSE Dec(Get8(Y(Opcode)), f)
             t == 1 + 2 * HLMEM(Y(Opcode))
             n == 1 + 2 * One(Y(Opcode) = 6)
  <2>1. /\ Runs(1, t, n) /\ Put8(Y(Opcode), result.r) /\ f' = result.f
        /\ sp' = sp /\ request' = request
    BY <1>3 DEF StepR8
  <2>2. t \in 0 .. 6 /\ n \in 0 .. 5
    BY OnePlus
  <2>3. result \in Answer
    BY <1>1, StepType
  <2> HIDE DEF result, t, n
  <2>4. result.r \in Byte /\ result.f \in FlagSet
    BY <2>3 DEF Answer
  <2> QED
    BY <1>1, <2>1, <2>2, <2>4, PutTypes, RunsTypes DEF TypeOK
<1> QED
  BY <1>2, <1>3

LEMMA AccumulatorKeepsTypes ==
  ASSUME TypeOK, Accumulator
  PROVE  TypeOK'
<1> DEFINE a == regs.A
           c == One(f.c)
           turned == <<RLC(a), RRC(a), RL(a, c), RR(a, c)>>
           adjusted == Daa(a, f)
           y == Y(Opcode)
<1>1. /\ a \in Byte /\ y \in 0 .. 7 /\ f \in FlagSet /\ c \in {0, 1}
      /\ f.z \in BOOLEAN /\ f.c \in BOOLEAN
  BY OperandTypes, RegisterTypes, DigitTypes, OnePlus DEF TypeOK, FlagSet
<1>2. /\ Runs(1, 1, 1)
      /\ sp' = sp /\ mem' = mem /\ pushed' = pushed /\ request' = request
      /\ regs' = [regs EXCEPT !.A = CASE y < 4 -> turned[y + 1].r
                                      [] y = 4 -> adjusted.r
                                      [] y = 5 -> 255 - a
                                      [] y > 5 -> a]
      /\ f' = CASE y < 4 -> Flags(FALSE, FALSE, FALSE, turned[y + 1].c)
                [] y = 4 -> adjusted.f
                [] y = 5 -> Flags(f.z, TRUE, TRUE, f.c)
                [] y > 5 -> Flags(f.z, FALSE, FALSE, y = 6 \/ ~f.c)
  BY DEF Accumulator
<1>3. adjusted \in Answer /\ adjusted.r \in Byte /\ adjusted.f \in FlagSet
  BY <1>1, DaaType DEF Answer
<1>4. y < 4 => turned[y + 1] \in Dropped
  <2>1. RLC(a) \in Dropped /\ RRC(a) \in Dropped /\ RL(a, c) \in Dropped /\ RR(a, c) \in Dropped
    BY <1>1, ShiftType
  <2> HIDE DEF a, c, y
  <2> QED
    BY <1>1, <2>1
<1>5. 255 - a \in Byte
  BY <1>1 DEF Byte
<1>6. /\ Flags(f.z, TRUE, TRUE, f.c) \in FlagSet
      /\ Flags(f.z, FALSE, FALSE, y = 6 \/ ~f.c) \in FlagSet
  BY <1>1, FlagsType
<1>7. y < 4 => turned[y + 1].r \in Byte /\ Flags(FALSE, FALSE, FALSE, turned[y + 1].c) \in FlagSet
  BY <1>4, FlagsType DEF Dropped
<1> HIDE DEF a, c, turned, adjusted, y
<1>8. ASSUME NEW r \in Byte, regs' = [regs EXCEPT !.A = r], f' \in FlagSet
      PROVE  TypeOK'
  <2>1. Runs(1, 1, 1) /\ sp' = sp /\ mem' = mem /\ pushed' = pushed /\ request' = request
    BY <1>2
  <2>2. regs' \in [Names -> Byte]
    BY <1>8 DEF TypeOK
  <2>3. 1 \in Int /\ 1 \in 0 .. 6 /\ 1 \in 0 .. 5
    OBVIOUS
  <2> QED
    BY <1>8, <2>1, <2>2, <2>3, RunsTypes DEF TypeOK
<1>9. CASE y < 4
  <2>1. /\ regs' = [regs EXCEPT !.A = turned[y + 1].r]
        /\ f' = Flags(FALSE, FALSE, FALSE, turned[y + 1].c)
    <3>1. ~(y = 4) /\ ~(y = 5) /\ ~(y > 5)
      BY <1>1, <1>9
    <3> QED
      BY <1>2, <1>9, <3>1
  <2> QED
    BY <1>7, <1>8, <1>9, <2>1
<1>10. CASE y = 4
  <2>1. regs' = [regs EXCEPT !.A = adjusted.r] /\ f' = adjusted.f
    BY <1>2, <1>10
  <2> QED
    BY <1>3, <1>8, <2>1
<1>11. CASE y = 5
  <2>1. regs' = [regs EXCEPT !.A = 255 - a] /\ f' = Flags(f.z, TRUE, TRUE, f.c)
    BY <1>2, <1>11
  <2> QED
    BY <1>5, <1>6, <1>8, <2>1
<1>12. CASE y > 5
  <2>1. regs' = [regs EXCEPT !.A = a] /\ f' = Flags(f.z, FALSE, FALSE, y = 6 \/ ~f.c)
    BY <1>1, <1>2, <1>12
  <2> QED
    BY <1>1, <1>6, <1>8, <2>1
<1> QED
  BY <1>1, <1>9, <1>10, <1>11, <1>12

LEMMA ShiftOrBitKeepsTypes ==
  ASSUME TypeOK, ShiftOrBit
  PROVE  TypeOK'
<1> DEFINE op == Imm8
           v == Get8(Z(op))
           mask == Mask(Y(op))
           result == CASE X(op) = 0 -> Shift(op, v).r
                       [] X(op) = 2 -> IF Bit(v, Y(op)) THEN v - mask ELSE v
                       [] X(op) = 3 -> IF Bit(v, Y(op)) THEN v ELSE v + mask
           t == 2 + HLMEM(Z(op))
           n == 2 + One(Z(op) = 6)
           tt == 2 + 2 * HLMEM(Z(op))
           nn == 2 + 2 * One(Z(op) = 6)
<1>1. /\ X(op) \in 0 .. 3 /\ Y(op) \in 0 .. 7 /\ Z(op) \in 0 .. 7 /\ v \in Byte /\ op \in Byte
      /\ f \in FlagSet /\ f.c \in BOOLEAN
  BY OperandTypes, DigitTypes DEF TypeOK, FlagSet
<1>2. /\ sp' = sp /\ request' = request
      /\ IF X(op) = 1 THEN Runs(2, t, n) /\ UNCHANGED <<regs, mem, pushed>>
                      ELSE Runs(2, tt, nn) /\ Put8(Z(op), result)
      /\ f' = CASE X(op) = 0 -> Flags(result = 0, FALSE, FALSE, Shift(op, v).c)
                [] X(op) = 1 -> Flags(~Bit(v, Y(op)), FALSE, TRUE, f.c)
                [] X(op) > 1 -> f
  BY DEF ShiftOrBit
<1>3. t \in 0 .. 6 /\ n \in 0 .. 5 /\ tt \in 0 .. 6 /\ nn \in 0 .. 5
  BY OnePlus
<1>4. Shift(op, v).r \in Byte /\ Shift(op, v).c \in BOOLEAN
  BY <1>1, ResultType DEF Dropped
<1>5. /\ Bit(v, Y(op)) => v - mask \in Byte
      /\ ~Bit(v, Y(op)) => v + mask \in Byte
      /\ Bit(v, Y(op)) \in BOOLEAN
  BY <1>1, BitFits
<1> HIDE DEF op, v, mask, t, n, tt, nn
<1>6. X(op) # 1 => result \in Byte
  BY <1>1, <1>4, <1>5
<1> HIDE DEF result
<1>7. /\ Flags(result = 0, FALSE, FALSE, Shift(op, v).c) \in FlagSet
      /\ Flags(~Bit(v, Y(op)), FALSE, TRUE, f.c) \in FlagSet
  BY <1>1, <1>4, <1>5, FlagsType
<1>8. f' \in FlagSet
  <2> DEFINE shifted == Flags(result = 0, FALSE, FALSE, Shift(op, v).c)
             tested == Flags(~Bit(v, Y(op)), FALSE, TRUE, f.c)
  <2> HIDE DEF shifted, tested
  <2>1. f' = CASE X(op) = 0 -> shifted [] X(op) = 1 -> tested [] X(op) > 1 -> f
    BY <1>2 DEF shifted, tested
  <2>2. shifted \in FlagSet /\ tested \in FlagSet
    BY <1>7 DEF shifted, tested
  <2>3. X(op) = 0 \/ X(op) = 1 \/ X(op) > 1
    BY <1>1
  <2> QED
    BY <1>1, <2>1, <2>2, <2>3
<1>9. /\ Runs(2, t, n) \/ Runs(2, tt, nn)
      /\ regs' \in [Names -> Byte] /\ mem' \in [Ram -> Byte] /\ pushed' \in Seq(Word)
  <2>1. CASE X(op) = 1
    <3>1. Runs(2, t, n) /\ regs' = regs /\ mem' = mem /\ pushed' = pushed
      BY <1>2, <2>1
    <3> QED
      BY <3>1 DEF TypeOK
  <2>2. CASE X(op) # 1
    <3>1. Runs(2, tt, nn) /\ Put8(Z(op), result) /\ result \in Byte
      BY <1>2, <1>6, <2>2
    <3> QED
      BY <1>1, <3>1, PutTypes
  <2> QED
    BY <2>1, <2>2
<1>10. sp' \in Word /\ request' \in {"none", "halt", "stop", "di", "ei"}
  BY <1>2 DEF TypeOK
<1> QED
  BY <1>3, <1>8, <1>9, <1>10, RunsTypes DEF TypeOK

LEMMA PushR16Pushes ==
  ASSUME TypeOK, PushR16
  PROVE  PushesWord(Stacked(P(Opcode)))
<1> DEFINE v == Stacked(P(Opcode))
<1>1. PushBytes(v \div 256, v % 256) /\ Remember(v)
  BY DEF PushR16
<1>2. v \in Word
  BY StackedType
<1> HIDE DEF v
<1>3. PushesWord(v)
  BY <1>1, <1>2, PushBytesPushesWord
<1> QED
  BY <1>3 DEF v

LEMMA StackKeepsTypes ==
  ASSUME TypeOK, PushR16 \/ PopR16
  PROVE  TypeOK'
<1>1. P(Opcode) \in 0 .. 3 /\ f \in FlagSet /\ \A p \in 0 .. 3 : Pair(p) \in Word
  BY OperandTypes, DigitTypes DEF TypeOK
<1>2. 1 \in Int /\ 3 \in 0 .. 5 /\ 4 \in 0 .. 6 /\ 3 \in 0 .. 6
  OBVIOUS
<1>3. CASE PushR16
  <2>1. /\ Runs(1, 4, 3) /\ regs' = regs /\ f' = f /\ request' = request
        /\ PushesWord(Stacked(P(Opcode)))
    BY <1>3, PushR16Pushes DEF PushR16
  <2> QED
    BY <1>2, <2>1, StackedType, PushTypes, RunsTypes DEF TypeOK
<1>4. CASE PopR16
  <2>1. Runs(1, 3, 3) /\ Pop /\ mem' = mem /\ request' = request
    BY <1>4 DEF PopR16
  <2>2. regs' \in [Names -> Byte] /\ f' \in FlagSet
    <3>1. Popped \in Word /\ Popped \div 256 \in Byte /\ Popped % 256 \in Byte
      BY OperandTypes, Halves
    <3>2. CASE P(Opcode) = 3
      <4>1. regs' = [regs EXCEPT !.A = Popped \div 256] /\ f' = ByteFlags(Popped % 256)
        BY <1>4, <3>2 DEF PopR16
      <4> QED
        BY <1>1, <3>1, <4>1, FlagByteType DEF TypeOK
    <3>3. CASE P(Opcode) # 3
      <4>1. regs' = WithPair(P(Opcode), Popped) /\ f' = f
        BY <1>4, <3>3 DEF PopR16
      <4>2. P(Opcode) \in 0 .. 2
        BY <1>1, <3>3
      <4> QED
        BY <1>1, <3>1, <4>1, <4>2, WithPairType
    <3> QED
      BY <3>2, <3>3
  <2> QED
    BY <1>2, <2>1, <2>2, PopTypes, RunsTypes DEF TypeOK
<1> QED
  BY <1>3, <1>4

LEMMA AfterType ==
  ASSUME TypeOK, NEW length \in {1, 2, 3}
  PROVE  W(pc + length) \in Word
<1>1. pc + length \in Int
  BY OperandTypes, WordIsInt
<1> QED
  BY <1>1, WordRange

LEMMA JumpKeepsTypes ==
  ASSUME TypeOK, Jump
  PROVE  TypeOK'
<1> DEFINE relative == X(Opcode) = 0
           conditional == Opcode \notin {24, 195, 233}
           taken == ~conditional \/ Condition(Opcode)
           length == CASE Opcode = 233 -> 1 [] relative -> 2 [] OTHER -> 3
           target == CASE Opcode = 233 -> HL
                       [] relative -> W(pc + 2 + AsSigned(Imm8))
                       [] OTHER -> Imm16
           t == length + One(taken /\ Opcode # 233)
           to == IF taken THEN target ELSE W(pc + length)
<1>1. /\ Ready /\ Retire(to, t, length)
      /\ regs' = regs /\ f' = f /\ sp' = sp /\ mem' = mem /\ pushed' = pushed /\ request' = request
  BY Zenon DEF Jump
<1>2. length \in {1, 2, 3}
  OBVIOUS
<1>3. target \in Word
  <2>1. W(pc + 2 + AsSigned(Imm8)) \in Word
    <3>1. AsSigned(Imm8) \in Int
      BY OperandTypes DEF AsSigned, Byte
    <3>2. pc + 2 + AsSigned(Imm8) \in Int
      BY <3>1, OperandTypes, WordIsInt
    <3> QED
      BY <3>2, WordRange
  <2> QED
    BY <2>1, OperandTypes
<1> HIDE DEF length, target, taken
<1>4. W(pc + length) \in Word
  BY <1>2, AfterType
<1>5. to \in Word /\ t \in 0 .. 6 /\ length \in 0 .. 5
  BY <1>2, <1>3, <1>4, OnePlus
<1> HIDE DEF to, t
<1> QED
  BY <1>1, <1>5, RetireTypes DEF TypeOK

LEMMA CallPushes ==
  ASSUME TypeOK, Call
  PROVE  PushesWord(W(pc + 3)) \/ UNCHANGED <<sp, mem, pushed>>
<1> DEFINE taken == Opcode = 205 \/ Condition(Opcode)
           next == W(pc + 3)
<1>1. IF taken THEN Push16(next) /\ Remember(next) ELSE UNCHANGED <<sp, mem, pushed>>
  BY Zenon DEF Call
<1>2. next \in Word
  BY AfterType
<1> HIDE DEF taken, next
<1>3. PushesWord(next) \/ UNCHANGED <<sp, mem, pushed>>
  BY <1>1, <1>2, Push16PushesWord, Zenon
<1> QED
  BY <1>3, Zenon DEF next

LEMMA RestartPushes ==
  ASSUME TypeOK, Restart
  PROVE  PushesWord(W(pc + 1))
<1> DEFINE next == W(pc + 1)
<1>1. PushBytes(next \div 256, next % 256) /\ Remember(next)
  BY Zenon DEF Restart
<1>2. next \in Word
  BY AfterType
<1> HIDE DEF next
<1>3. PushesWord(next)
  BY <1>1, <1>2, PushBytesPushesWord
<1> QED
  BY <1>3 DEF next

LEMMA CallKeepsTypes ==
  ASSUME TypeOK, Call
  PROVE  TypeOK'
<1> DEFINE taken == Opcode = 205 \/ Condition(Opcode)
           to == IF taken THEN Imm16 ELSE W(pc + 3)
           t == 3 + 3 * One(taken)
           n == 3 + 2 * One(taken)
<1>1. Ready /\ Retire(to, t, n) /\ regs' = regs /\ f' = f /\ request' = request
  BY Zenon DEF Call
<1>2. t \in 0 .. 6 /\ n \in 0 .. 5
  <2> HIDE DEF taken
  <2> QED
    BY OnePlus
<1>3. to \in Word
  BY OperandTypes, AfterType
<1>4. sp' \in Word /\ mem' \in [Ram -> Byte] /\ pushed' \in Seq(Word)
  <2>1. CASE PushesWord(W(pc + 3))
    BY <2>1, AfterType, PushTypes
  <2>2. CASE UNCHANGED <<sp, mem, pushed>>
    BY <2>2 DEF TypeOK
  <2> QED
    BY <2>1, <2>2, CallPushes
<1> HIDE DEF to, t, n, taken
<1> QED
  BY <1>1, <1>2, <1>3, <1>4, RetireTypes DEF TypeOK

LEMMA RestartKeepsTypes ==
  ASSUME TypeOK, Restart
  PROVE  TypeOK'
<1> DEFINE to == 8 * Y(Opcode)
<1>1. Ready /\ Retire(to, 4, 3) /\ regs' = regs /\ f' = f /\ request' = request
  BY Zenon DEF Restart
<1>2. to \in Word
  <2>1. Y(Opcode) \in 0 .. 7
    BY OperandTypes, DigitTypes
  <2>2. \A y \in 0 .. 7 : 8 * y \in Word
    BY WordMembers, SMT
  <2> QED
    BY <2>1, <2>2, Zenon
<1>3. sp' \in Word /\ mem' \in [Ram -> Byte] /\ pushed' \in Seq(Word)
  BY RestartPushes, AfterType, PushTypes
<1>4. 4 \in 0 .. 6 /\ 3 \in 0 .. 5
  OBVIOUS
<1> HIDE DEF to
<1> QED
  BY <1>1, <1>2, <1>3, <1>4, RetireTypes DEF TypeOK

LEMMA ReturnKeepsTypes ==
  ASSUME TypeOK, Return
  PROVE  TypeOK'
<1> DEFINE conditional == Opcode \notin {201, 217}
           taken == ~conditional \/ Condition(Opcode)
           to == IF taken THEN Popped ELSE W(pc + 1)
           t == 1 + One(conditional) + 3 * One(taken)
           n == 1 + 2 * One(taken)
<1>1. /\ Ready /\ Retire(to, t, n)
      /\ IF taken THEN Pop ELSE UNCHANGED <<sp, pushed>>
      /\ request' = IF Opcode = 217 THEN "ei" ELSE request
      /\ regs' = regs /\ f' = f /\ mem' = mem
  BY Zenon DEF Return
<1>2. t \in 0 .. 6 /\ n \in 0 .. 5
  <2> HIDE DEF taken, conditional
  <2> QED
    BY OnePlus
<1>3. to \in Word
  BY OperandTypes, AfterType
<1>4. sp' \in Word /\ pushed' \in Seq(Word)
  BY <1>1, PopTypes DEF TypeOK
<1>5. request' \in {"none", "halt", "stop", "di", "ei"}
  BY <1>1 DEF TypeOK
<1> HIDE DEF to, t, n, taken
<1> QED
  BY <1>1, <1>2, <1>3, <1>4, <1>5, RetireTypes DEF TypeOK

LEMMA InitTypes ==
  ASSUME Init
  PROVE  TypeOK
<1>1. /\ regs \in [Names -> Byte] /\ f \in FlagSet
      /\ sp \in Word /\ pc \in Word /\ mem \in [Ram -> Byte]
  BY InstructionsAssumption DEF Init
<1>2. /\ last \in [ticks : 0 .. 6, accesses : 0 .. 5] /\ pushed \in Seq(Word)
      /\ left \in 0 .. MaxInstructions
  BY InstructionsAssumption, EmptySeq DEF Init
<1> QED
  BY <1>1, <1>2 DEF Init, TypeOK

LEMMA StepKeepsTypes ==
  ASSUME TypeOK, [Next]_vars
  PROVE  TypeOK'
<1>1. CASE NoHandler
  BY <1>1, InstructionsAssumption DEF NoHandler, Ready, TypeOK
<1>2. CASE UNCHANGED vars
  BY <1>2 DEF vars, TypeOK
<1> QED
  BY <1>1, <1>2, LoadsKeepTypes, IndirectKeepsTypes, AbsoluteKeepsTypes, WordsKeepTypes,
     StoreSPKeepsTypes, ArithmeticKeepsTypes, AccumulatorKeepsTypes, ShiftOrBitKeepsTypes,
     StackKeepsTypes, JumpKeepsTypes, CallKeepsTypes, RestartKeepsTypes, ReturnKeepsTypes
     DEF Next

\* Registers, flags and memory bytes keep their widths through every instruction
\* (register.cpp and uint8_t / uint16_t operands), and no instruction takes more
\* than six cycles.
THEOREM InstructionsTypeCorrect == Spec => []TypeOK
<1>1. Init => TypeOK
  BY InitTypes
<1>2. TypeOK /\ [Next]_vars => TypeOK'
  BY StepKeepsTypes
<1> QED
  BY <1>1, <1>2, PTL DEF Spec

-----------------------------------------------------------------------------
(***************************************************************************)
(* The stack.  Each word in "pushed" owns two bytes of Ram from SP on.     *)
(* Not every address is in Ram, so these bytes never go around the address *)
(* space and two words never share one: that is what makes the invariant   *)
(* inductive.                                                              *)
(***************************************************************************)
StackHoldsPushes ==
  \A i \in 1 .. Len(pushed) : pushed[i] = Read(W(sp + 2 * i - 2)) + 256 * Read(W(sp + 2 * i - 1))

StackInv == PushedBytes \subseteq Ram /\ StackHoldsPushes

LEMMA EveryAddressFollows ==
  ASSUME NEW a \in Word, NEW w \in Word
  PROVE  \E i \in Word : W(a + i) = w
<1> DEFINE i == IF w >= a THEN w - a ELSE w - a + 65536
<1>1. /\ a \in Int /\ 0 <= a /\ a < 65536
      /\ w \in Int /\ 0 <= w /\ w < 65536
  BY WordBounds, SMT
<1>2. /\ i \in Int /\ 0 <= i /\ i < 65536
      /\ (IF a + i < 65536 THEN a + i ELSE a + i - 65536) = w
  BY <1>1, SMT
<1> HIDE DEF i
<1>3. i \in Word
  BY <1>2, WordFrom, SMT
<1>4. W(a + i) = w
  BY <1>2, <1>3, WIs, SMT
<1> QED
  BY <1>3, <1>4, SMT

\* A stack of "count" words from "bottom" on that fits in Ram leaves a byte free.
LEMMA StackFits ==
  ASSUME NEW bottom \in Word, NEW count \in Nat,
         \A i \in 0 .. 2 * count - 1 : W(bottom + i) \in Ram
  PROVE  2 * count <= 65535
<1> SUFFICES ASSUME 2 * count > 65535
             PROVE  FALSE
  BY SMT
<1>1. ASSUME NEW i \in Word
      PROVE  W(bottom + i) \in Ram
  <2>1. i \in Int /\ 0 <= i /\ i < 65536
    BY WordBounds, SMT
  <2>2. i \in 0 .. 2 * count - 1
    BY <2>1, SMT
  <2> QED
    BY <2>2
<1>2. Word \subseteq Ram
  BY <1>1, EveryAddressFollows
<1> QED
  BY <1>2, InstructionsAssumption

LEMMA WordsBytes ==
  ASSUME TypeOK
  PROVE  \A i \in 1 .. Len(pushed) :
           W(sp + 2 * i - 2) \in PushedBytes /\ W(sp + 2 * i - 1) \in PushedBytes
<1>1. sp \in Int /\ Len(pushed) \in Nat
  BY OperandTypes, WordIsInt, LenProperties DEF TypeOK
<1> TAKE i \in 1 .. Len(pushed)
<1>2. /\ 2 * i - 2 \in 0 .. 2 * Len(pushed) - 1 /\ 2 * i - 1 \in 0 .. 2 * Len(pushed) - 1
      /\ sp + 2 * i - 2 = sp + (2 * i - 2) /\ sp + 2 * i - 1 = sp + (2 * i - 1)
  BY <1>1
<1> QED
  BY <1>2 DEF PushedBytes

LEMMA EmptiedStack ==
  ASSUME pushed' = <<>>
  PROVE  StackInv'
<1>1. Len(pushed') = 0 /\ 1 .. 0 = {} /\ 0 .. 2 * 0 - 1 = {}
  BY EmptySeq
<1>2. PushedBytes' = {}
  BY <1>1 DEF PushedBytes
<1>3. StackHoldsPushes'
  BY <1>1 DEF StackHoldsPushes
<1> QED
  BY <1>2, <1>3 DEF StackInv

LEMMA UntouchedStack ==
  ASSUME TypeOK, StackInv, sp' = sp, pushed' = pushed, \A b \in PushedBytes : mem'[b] = mem[b]
  PROVE  StackInv'
<1>1. PushedBytes' = PushedBytes
  BY DEF PushedBytes
<1>2. \A b \in PushedBytes : Read(b)' = Read(b)
  BY DEF StackInv, Read
<1>3. ASSUME NEW i \in 1 .. Len(pushed)
      PROVE  pushed[i] = Read(W(sp + 2 * i - 2))' + 256 * Read(W(sp + 2 * i - 1))'
  <2>1. /\ Read(W(sp + 2 * i - 2))' = Read(W(sp + 2 * i - 2))
        /\ Read(W(sp + 2 * i - 1))' = Read(W(sp + 2 * i - 1))
    BY <1>2, WordsBytes DEF Read, W
  <2> QED
    BY <2>1, ZenonT(60) DEF StackInv, StackHoldsPushes
<1>4. StackHoldsPushes'
  BY <1>3 DEF StackHoldsPushes
<1> QED
  BY <1>1, <1>4 DEF StackInv

LEMMA WriteKeepsStack ==
  ASSUME TypeOK, StackInv, NEW a, NEW v, Write(a, v), sp' = sp
  PROVE  StackInv'
<1>1. CASE a \in PushedBytes
  BY <1>1, EmptiedStack DEF Write
<1>2. CASE a \notin PushedBytes
  <2>1. \A b \in PushedBytes : mem'[b] = mem[b]
    BY <1>2 DEF Write, Stored, TypeOK, StackInv
  <2> QED
    BY <1>2, <2>1, UntouchedStack DEF Write
<1> QED
  BY <1>1, <1>2

LEMMA PutKeepsStack ==
  ASSUME TypeOK, StackInv, NEW i, NEW v, Put8(i, v), sp' = sp
  PROVE  StackInv'
<1>1. CASE i = 6
  BY <1>1, WriteKeepsStack DEF Put8
<1>2. CASE i # 6
  BY <1>2, UntouchedStack DEF Put8
<1> QED
  BY <1>1, <1>2

LEMMA SetPairKeepsStack ==
  ASSUME TypeOK, StackInv, NEW p, NEW v, SetPair(p, v), mem' = mem
  PROVE  StackInv'
<1>1. CASE p = 3
  BY <1>1, EmptiedStack DEF SetPair
<1>2. CASE p # 3
  BY <1>2, UntouchedStack DEF SetPair
<1> QED
  BY <1>1, <1>2

LEMMA StoreSPKeepsStack ==
  ASSUME TypeOK, StackInv, StoreSP
  PROVE  StackInv'
<1> DEFINE h == sp \div 256
           l == sp % 256
           low == Imm16
           high == W(Imm16 + 1)
<1>1. /\ mem' = [a \in Ram |-> CASE a = high -> h [] a = low -> l [] OTHER -> mem[a]]
      /\ pushed' = IF {low, high} \cap PushedBytes # {} THEN <<>> ELSE pushed
      /\ sp' = sp
  BY Zenon DEF StoreSP
<1> HIDE DEF h, l, low, high
<1>2. CASE {low, high} \cap PushedBytes # {}
  BY <1>1, <1>2, EmptiedStack
<1>3. CASE {low, high} \cap PushedBytes = {}
  <2>1. pushed' = pushed
    BY <1>1, <1>3
  <2>2. ASSUME NEW b \in PushedBytes
        PROVE  mem'[b] = mem[b]
    <3>1. b # low /\ b # high
      BY <1>3
    <3>2. b \in Ram
      BY DEF StackInv
    <3> QED
      BY <1>1, <3>1, <3>2
  <2> QED
    BY <1>1, <2>1, <2>2, UntouchedStack
<1> QED
  BY <1>2, <1>3

LEMMA PushKeepsStack ==
  ASSUME TypeOK, StackInv, NEW v \in Word, PushesWord(v)
  PROVE  StackInv'
<1> DEFINE s == W(sp - 2)
           h == v \div 256
           l == v % 256
           n == Len(pushed)
           Later(a) == IF a \in Ram THEN mem'[a] ELSE 255
<1>1. /\ sp' = s
      /\ mem' = [a \in Ram |-> CASE a = W(s + 1) -> h [] a = s -> l [] OTHER -> mem[a]]
      /\ pushed' = IF {s, W(s + 1)} \subseteq Ram THEN <<v>> \o pushed ELSE <<>>
  BY Zenon DEF PushesWord
<1>2. sp \in Int /\ s \in Word /\ s \in Int /\ n \in Nat /\ pushed \in Seq(Word)
  <2>1. sp \in Int /\ sp - 2 \in Int
    BY OperandTypes, WordIsInt
  <2>2. s \in Word
    BY <2>1, WordRange
  <2> QED
    BY <2>1, <2>2, WordIsInt, LenProperties DEF TypeOK
<1>3. v = 256 * h + l /\ h \in Int /\ l \in Int
  <2>1. v \in Int
    BY WordIsInt
  <2> QED
    BY <2>1, Division
<1>4. \A k \in Int : W(s + k) = W(sp + (k - 2))
  <2> TAKE k \in Int
  <2>1. W(s + k) = W((sp - 2) + k)
    BY <1>2, WOfW
  <2>2. (sp - 2) + k = sp + (k - 2)
    BY <1>2
  <2> QED
    BY <2>1, <2>2
<1>5. CASE ~({s, W(s + 1)} \subseteq Ram)
  <2>1. pushed' = <<>>
    BY <1>1, <1>5
  <2> QED
    BY <2>1, EmptiedStack
<1>6. CASE {s, W(s + 1)} \subseteq Ram
  <2>1. pushed' = <<v>> \o pushed
    BY <1>1, <1>6
  <2>2. /\ Len(pushed') = n + 1 /\ pushed'[1] = v
        /\ \A i \in 2 .. n + 1 : pushed'[i] = pushed[i - 1]
    <3>1. <<v>> \in Seq(Word) /\ Len(<<v>>) = 1 /\ <<v>>[1] = v
      OBVIOUS
    <3> QED
      BY <1>2, <2>1, <3>1, ConcatProperties
  <2> HIDE DEF s, h, l, n
  <2>3. W(s) = s /\ W(s + 0) = s
    BY <1>2, AroundOnce, WordBounds, SMT
  <2>4. ASSUME NEW i \in 0 .. 2 * (n + 1) - 1
        PROVE  W(s + i) \in Ram
    <3>1. CASE i = 0 \/ i = 1
      BY <1>6, <2>3, <3>1
    <3>2. CASE i > 1
      <4>1. i - 2 \in 0 .. 2 * n - 1 /\ i \in Int
        BY <1>2, <3>2
      <4>2. W(sp + (i - 2)) \in PushedBytes
        BY <4>1 DEF PushedBytes, n
      <4> QED
        BY <1>4, <4>1, <4>2 DEF StackInv
    <3>3. i = 0 \/ i = 1 \/ i > 1
      BY <1>2
    <3> QED
      BY <3>1, <3>2, <3>3
  <2>5. PushedBytes' \subseteq Ram
    BY <1>1, <2>2, <2>4 DEF PushedBytes, W
  <2>6. 2 * (n + 1) <= 65535
    <3> DEFINE count == n + 1
    <3>1. count \in Nat /\ \A i \in 0 .. 2 * count - 1 : W(s + i) \in Ram
      BY <1>2, <2>4, SMT
    <3> HIDE DEF count
    <3>2. s \in Word
      BY <1>2
    <3>3. 2 * count <= 65535
      BY <3>1, <3>2, StackFits, SMT
    <3> QED
      BY <3>3, SMT DEF count
  \* The bytes of the older words are not the two just written.
  <2>7. ASSUME NEW k \in 2 .. 2 * n + 1
        PROVE  Later(W(sp + (k - 2))) = Read(W(sp + (k - 2))) /\ W(s + k) = W(sp + (k - 2))
    <3>1. k \in Word /\ k \in Int /\ k # 0 /\ k # 1 /\ k - 2 \in 0 .. 2 * n - 1
      <4>1. k \in Int /\ 0 <= k /\ k < 65536 /\ k # 0 /\ k # 1 /\ k - 2 \in 0 .. 2 * n - 1
        BY <1>2, <2>6, SMT
      <4> QED
        BY <4>1, WordFrom, SMT
    <3>2. W(s + k) = W(sp + (k - 2))
      BY <1>4, <3>1
    <3>3. W(s + k) # W(s + 0) /\ W(s + k) # W(s + 1)
      <4>1. 0 \in Word /\ 1 \in Word
        BY WordFrom, SMT
      <4> QED
        BY <1>2, <3>1, <4>1, OffsetsDiffer
    <3>4. W(s + k) \in Ram
      <4>1. W(sp + (k - 2)) \in PushedBytes
        BY <3>1 DEF PushedBytes, n
      <4> QED
        BY <3>2, <4>1 DEF StackInv
    <3>5. mem'[W(s + k)] = mem[W(s + k)]
      BY <1>1, <2>3, <3>3, <3>4
    <3> QED
      BY <3>2, <3>4, <3>5 DEF Read
  <2>8. ASSUME NEW i \in 1 .. n + 1
        PROVE  pushed'[i] = Later(W(s + 2 * i - 2)) + 256 * Later(W(s + 2 * i - 1))
    <3>1. CASE i = 1
      <4>1. s + 2 * i - 2 = s /\ s + 2 * i - 1 = s + 1
        BY <1>2, <3>1
      <4>2. s # W(s + 1)
        <5>1. 0 \in Word /\ 1 \in Word /\ 0 # 1
          BY WordFrom, SMT
        <5> QED
          BY <1>2, <2>3, <5>1, OffsetsDiffer
      <4>3. mem'[s] = l /\ mem'[W(s + 1)] = h
        BY <1>1, <1>6, <4>2
      <4>4. Later(W(s)) = l /\ Later(W(s + 1)) = h
        BY <1>6, <2>3, <4>3 DEF Read
      <4> QED
        BY <1>3, <2>2, <3>1, <4>1, <4>4
    <3>2. CASE i # 1
      <4>1. /\ i \in 2 .. n + 1 /\ i - 1 \in 1 .. n
            /\ 2 * i - 2 \in 2 .. 2 * n + 1 /\ 2 * i - 1 \in 2 .. 2 * n + 1
            /\ s + 2 * i - 2 = s + (2 * i - 2) /\ s + 2 * i - 1 = s + (2 * i - 1)
            /\ sp + 2 * (i - 1) - 2 = sp + ((2 * i - 2) - 2)
            /\ sp + 2 * (i - 1) - 1 = sp + ((2 * i - 1) - 2)
        BY <1>2, <3>2
      <4>2. pushed'[i] = Read(W(sp + 2 * (i - 1) - 2)) + 256 * Read(W(sp + 2 * (i - 1) - 1))
        BY <2>2, <4>1 DEF StackInv, StackHoldsPushes, n
      <4>3. /\ Later(W(sp + ((2 * i - 2) - 2))) = Read(W(sp + ((2 * i - 2) - 2)))
            /\ W(s + (2 * i - 2)) = W(sp + ((2 * i - 2) - 2))
        BY <2>7, <4>1
      <4>4. /\ Later(W(sp + ((2 * i - 1) - 2))) = Read(W(sp + ((2 * i - 1) - 2)))
            /\ W(s + (2 * i - 1)) = W(sp + ((2 * i - 1) - 2))
        BY <2>7, <4>1
      <4> QED
        BY <4>1, <4>2, <4>3, <4>4
    <3> QED
      BY <3>1, <3>2
  <2>9. StackHoldsPushes'
    <3>1. (\A i \in 1 .. Len(pushed') :
             pushed'[i] = Later(W(sp' + 2 * i - 2)) + 256 * Later(W(sp' + 2 * i - 1)))
            => StackHoldsPushes'
      BY SMT DEF StackHoldsPushes, Read, W
    <3> QED
      BY <1>1, <2>2, <2>8, <3>1, SMT
  <2> QED
    BY <2>5, <2>9 DEF StackInv
<1> QED
  BY <1>5, <1>6

LEMMA PopKeepsStack ==
  ASSUME TypeOK, StackInv, Pop, mem' = mem
  PROVE  StackInv'
<1>1. sp \in Int /\ pushed \in Seq(Word) /\ sp' = W(sp + 2)
  BY OperandTypes, WordIsInt DEF TypeOK, Pop
<1>2. CASE pushed = <<>>
  <2>1. pushed' = <<>>
    BY <1>2 DEF Pop
  <2> QED
    BY <2>1, EmptiedStack
<1>3. CASE pushed # <<>>
  <2> DEFINE n == Len(pushed)
  <2>1. n \in Nat /\ n >= 1 /\ pushed' = Tail(pushed)
    BY <1>1, <1>3, LenProperties, EmptySeq DEF Pop
  <2>2. Len(pushed') = n - 1 /\ \A i \in 1 .. n - 1 : pushed'[i] = pushed[i + 1]
    BY <1>1, <1>3, <2>1, HeadTailProperties
  <2> HIDE DEF n
  <2>3. ASSUME NEW k \in Int
        PROVE  W(sp' + k) = W(sp + (k + 2))
    <3>1. W(sp' + k) = W((sp + 2) + k)
      BY <1>1, WOfW
    <3>2. (sp + 2) + k = sp + (k + 2)
      BY <1>1, SMT
    <3> QED
      BY <3>1, <3>2
  <2>4. ASSUME NEW i \in 0 .. 2 * (n - 1) - 1
        PROVE  W(sp' + i) \in Ram
    <3>1. i \in Int /\ i + 2 \in 0 .. 2 * n - 1
      BY <2>1, SMT
    <3>2. W(sp + (i + 2)) \in PushedBytes
      BY <3>1 DEF PushedBytes, n
    <3> QED
      BY <2>3, <3>1, <3>2 DEF StackInv
  <2>5. PushedBytes' \subseteq Ram
    BY <2>2, <2>4, SMT DEF PushedBytes, W
  <2>6. ASSUME NEW i \in 1 .. n - 1
        PROVE  pushed'[i] = Read(W(sp' + 2 * i - 2)) + 256 * Read(W(sp' + 2 * i - 1))
    <3>1. sp' \in Int
      <4>1. sp + 2 \in Int
        BY <1>1, SMT
      <4> QED
        BY <1>1, <4>1, WordRange, WordIsInt
    <3>2. /\ i + 1 \in 1 .. n /\ 2 * i - 2 \in Int /\ 2 * i - 1 \in Int
          /\ sp' + 2 * i - 2 = sp' + (2 * i - 2) /\ sp' + 2 * i - 1 = sp' + (2 * i - 1)
          /\ sp + 2 * (i + 1) - 2 = sp + ((2 * i - 2) + 2)
          /\ sp + 2 * (i + 1) - 1 = sp + ((2 * i - 1) + 2)
      BY <1>1, <2>1, <3>1, SMT
    <3>3. pushed'[i] = Read(W(sp + 2 * (i + 1) - 2)) + 256 * Read(W(sp + 2 * (i + 1) - 1))
      BY <2>2, <3>2, SMT DEF StackInv, StackHoldsPushes, n
    <3>4. /\ W(sp' + (2 * i - 2)) = W(sp + ((2 * i - 2) + 2))
          /\ W(sp' + (2 * i - 1)) = W(sp + ((2 * i - 1) + 2))
      BY <2>3, <3>2
    <3> QED
      BY <3>2, <3>3, <3>4
  <2>7. StackHoldsPushes'
    <3>1. (\A i \in 1 .. Len(pushed') :
             pushed'[i] = Read(W(sp' + 2 * i - 2)) + 256 * Read(W(sp' + 2 * i - 1)))
            => StackHoldsPushes'
      BY SMT DEF StackHoldsPushes, Read, W
    <3> QED
      BY <2>2, <2>6, <3>1, SMT
  <2> QED
    BY <2>5, <2>7 DEF StackInv
<1> QED
  BY <1>2, <1>3

LEMMA CallKeepsStack ==
  ASSUME TypeOK, StackInv, Call \/ Restart
  PROVE  StackInv'
<1>1. CASE PushesWord(W(pc + 3)) \/ PushesWord(W(pc + 1))
  BY <1>1, AfterType, PushKeepsStack
<1>2. CASE UNCHANGED <<sp, mem, pushed>>
  BY <1>2, UntouchedStack
<1> QED
  BY <1>1, <1>2, CallPushes, RestartPushes

LEMMA ReturnKeepsStack ==
  ASSUME TypeOK, StackInv, Return
  PROVE  StackInv'
<1> DEFINE conditional == Opcode \notin {201, 217}
           taken == ~conditional \/ Condition(Opcode)
<1>1. mem' = mem /\ IF taken THEN Pop ELSE UNCHANGED <<sp, pushed>>
  BY Zenon DEF Return
<1>2. CASE taken
  BY <1>1, <1>2, PopKeepsStack
<1>3. CASE ~taken
  <2>1. sp' = sp /\ pushed' = pushed
    BY <1>1, <1>3
  <2> QED
    BY <1>1, <2>1, UntouchedStack
<1> QED
  BY <1>2, <1>3

LEMMA PushR16KeepsStack ==
  ASSUME TypeOK, StackInv, PushR16
  PROVE  StackInv'
BY PushR16Pushes, StackedType, PushKeepsStack

LEMMA LoadsKeepStack ==
  ASSUME TypeOK, StackInv, LoadIndirect \/ LoadAbsolute
  PROVE  StackInv'
<1>1. sp' = sp
  BY DEF LoadIndirect, LoadAbsolute
<1>2. (\E a, v : Write(a, v)) \/ UNCHANGED <<mem, pushed>>
  <2>1. CASE LoadIndirect
    BY <2>1, Zenon DEF LoadIndirect
  <2>2. CASE LoadAbsolute
    <3> DEFINE wide == Odd(Opcode)
               address == CASE Z(Opcode) = 0 -> 65280 + Imm8
                            [] Z(Opcode) = 2 /\ ~wide -> 65280 + regs.C
                            [] OTHER -> Imm16
    <3>1. IF Opcode < 240 THEN Write(address, regs.A) /\ UNCHANGED regs
          ELSE regs' = [regs EXCEPT !.A = Read(address)] /\ UNCHANGED <<mem, pushed>>
      BY <2>2, SMT DEF LoadAbsolute
    <3> HIDE DEF address
    <3> QED
      BY <3>1
  <2> QED
    BY <2>1, <2>2
<1> QED
  BY <1>1, <1>2, WriteKeepsStack, UntouchedStack

LEMMA PutsKeepStack ==
  ASSUME TypeOK, StackInv, LoadR8R8 \/ LoadR8Imm8 \/ StepR8 \/ ShiftOrBit
  PROVE  StackInv'
<1>1. sp' = sp
  BY DEF LoadR8R8, LoadR8Imm8, StepR8, ShiftOrBit
<1>2. (\E i, v : Put8(i, v)) \/ UNCHANGED <<mem, pushed>>
  <2>1. CASE LoadR8R8
    BY <2>1, ZenonT(30) DEF LoadR8R8
  <2>2. CASE LoadR8Imm8
    BY <2>2, ZenonT(30) DEF LoadR8Imm8
  <2>3. CASE StepR8
    BY <2>3, ZenonT(30) DEF StepR8
  <2>4. CASE ShiftOrBit
    BY <2>4, ZenonT(30) DEF ShiftOrBit
  <2> QED
    BY <2>1, <2>2, <2>3, <2>4
<1> QED
  BY <1>1, <1>2, PutKeepsStack, UntouchedStack

LEMMA PairsKeepStack ==
  ASSUME TypeOK, StackInv, LoadR16Imm16 \/ LoadSPHL \/ OffsetSP \/ StepR16 \/ AddHLR16
  PROVE  StackInv'
<1>1. mem' = mem
  BY DEF LoadR16Imm16, LoadSPHL, OffsetSP, StepR16, AddHLR16
<1>2. \E p, v : SetPair(p, v)
  <2>1. CASE LoadR16Imm16
    BY <2>1, Zenon DEF LoadR16Imm16
  <2>2. CASE LoadSPHL
    BY <2>2, Zenon DEF LoadSPHL
  <2>3. CASE OffsetSP
    <3> DEFINE p == IF Opcode = 248 THEN 2 ELSE 3
               r == AddSp(sp, AsSigned(Imm8)).r
    <3>1. SetPair(p, r)
      BY <2>3, Zenon DEF OffsetSP
    <3> HIDE DEF p, r
    <3> QED
      BY <3>1
  <2>4. CASE StepR16
    BY <2>4, Zenon DEF StepR16
  <2>5. CASE AddHLR16
    BY <2>5, Zenon DEF AddHLR16
  <2> QED
    BY <2>1, <2>2, <2>3, <2>4, <2>5
<1> QED
  BY <1>1, <1>2, SetPairKeepsStack

LEMMA StepKeepsStack ==
  ASSUME TypeOK, StackInv, [Next]_vars
  PROVE  StackInv'
<1>1. ASSUME Control \/ Arithmetic \/ Accumulator \/ Jump \/ NoHandler \/ UNCHANGED vars
      PROVE  StackInv'
  <2>1. sp' = sp /\ mem' = mem /\ pushed' = pushed
    BY <1>1, Zenon DEF Control, Arithmetic, Accumulator, Jump, NoHandler, vars
  <2> QED
    BY <2>1, UntouchedStack
<1>2. ASSUME PopR16
      PROVE  StackInv'
  BY <1>2, PopKeepsStack DEF PopR16
<1> QED
  BY <1>1, <1>2, LoadsKeepStack, PutsKeepStack, PairsKeepStack, StoreSPKeepsStack,
     PushR16KeepsStack, CallKeepsStack, ReturnKeepsStack, Zenon DEF Next

LEMMA StackStarts ==
  ASSUME Init
  PROVE  TypeOK /\ StackInv
<1>1. Len(pushed) = 0 /\ 1 .. 0 = {} /\ 0 .. 2 * 0 - 1 = {}
  BY EmptySeq DEF Init
<1>2. PushedBytes = {} /\ StackHoldsPushes
  BY <1>1 DEF PushedBytes, StackHoldsPushes
<1> QED
  BY <1>2, InitTypes DEF StackInv

\* Whatever has been pushed and not yet popped lies at SP, low byte first, for
\* every memory and program (memory/stack.inc: push_16, and the pairs of
\* push_8 and pop_8 that the operators make).
THEOREM StackHoldsPushesAlways == Spec => []StackHoldsPushes
<1>1. TypeOK /\ StackInv /\ [Next]_vars => (TypeOK /\ StackInv)'
  BY StepKeepsTypes, StepKeepsStack
<1>2. StackInv => StackHoldsPushes
  BY DEF StackInv
<1> QED
  BY StackStarts, <1>1, <1>2, PTL DEF Spec

LEMMA HeadIsPopped ==
  ASSUME TypeOK, StackInv, pushed # <<>>
  PROVE  Head(pushed) = Popped
<1>1. pushed \in Seq(Word) /\ sp \in Word /\ sp \in Int
  BY OperandTypes, WordIsInt DEF TypeOK
<1>2. Head(pushed) = pushed[1] /\ 1 \in 1 .. Len(pushed)
  BY <1>1, LenProperties, EmptySeq
<1>3. pushed[1] = Read(W(sp + 2 * 1 - 2)) + 256 * Read(W(sp + 2 * 1 - 1))
  BY <1>2 DEF StackInv, StackHoldsPushes
<1>4. sp + 2 * 1 - 2 = sp /\ sp + 2 * 1 - 1 = sp + 1
  BY <1>1
<1>5. W(sp) = sp
  BY <1>1, AroundOnce, WordBounds, SMT
<1> QED
  BY <1>2, <1>3, <1>4, <1>5 DEF Popped

LEMMA PairIsWhatWasPut ==
  ASSUME TypeOK, NEW p \in 0 .. 2, NEW v \in Word, regs' = WithPair(p, v)
  PROVE  Stacked(p)' = v
<1> DEFINE h == v \div 256
           l == v % 256
<1>1. v = 256 * h + l
  <2>1. v \in Int
    BY WordIsInt
  <2> QED
    BY <2>1, Division
<1>2. regs \in [Names -> Byte]
  BY DEF TypeOK
<1>3. p = 0 \/ p = 1 \/ p = 2
  OBVIOUS
<1>4. /\ WithPair(0, v) = [regs EXCEPT !.B = h, !.C = l]
      /\ WithPair(1, v) = [regs EXCEPT !.D = h, !.E = l]
      /\ WithPair(2, v) = [regs EXCEPT !.H = h, !.L = l]
  BY DEF WithPair
<1>5. /\ Stacked(0)' = 256 * regs'.B + regs'.C
      /\ Stacked(1)' = 256 * regs'.D + regs'.E
      /\ Stacked(2)' = 256 * regs'.H + regs'.L
  BY DEF Stacked, Pair, HL
<1> HIDE DEF h, l
<1>6. CASE p = 0
  <2>1. regs' = [regs EXCEPT !.B = h, !.C = l]
    BY <1>4, <1>6
  <2>2. regs'.B = h /\ regs'.C = l
    BY <1>2, <2>1 DEF Names
  <2>3. Stacked(0)' = v
    BY <1>1, <1>5, <2>2
  <2> QED
    BY <1>6, <2>3
<1>7. CASE p = 1
  <2>1. regs' = [regs EXCEPT !.D = h, !.E = l]
    BY <1>4, <1>7
  <2>2. regs'.D = h /\ regs'.E = l
    BY <1>2, <2>1 DEF Names
  <2>3. Stacked(1)' = v
    BY <1>1, <1>5, <2>2
  <2> QED
    BY <1>7, <2>3
<1>8. CASE p = 2
  <2>1. regs' = [regs EXCEPT !.H = h, !.L = l]
    BY <1>4, <1>8
  <2>2. regs'.H = h /\ regs'.L = l
    BY <1>2, <2>1 DEF Names
  <2>3. Stacked(2)' = v
    BY <1>1, <1>5, <2>2
  <2> QED
    BY <1>8, <2>3
<1> QED
  BY <1>3, <1>6, <1>7, <1>8

\* F has no lower nibble.
LEMMA FlagsOfByte ==
  ASSUME NEW b \in Byte
  PROVE  FlagByte(ByteFlags(b)) = b - (b % 16)
<1>1. /\ b \in Int /\ 0 <= b /\ b < 256
  BY SMT DEF Byte
<1> DEFINE q == b \div 16
<1>2. q \in 0 .. 15 /\ b = 16 * q + (b % 16)
  BY <1>1, SMT
<1>3. /\ b >= 128 <=> q >= 8
      /\ b \div 64 = q \div 4 /\ b \div 32 = q \div 2
  BY <1>1, SMT
<1> HIDE DEF q
<1>4. q = 8 * One(q >= 8) + 4 * One((q \div 4) % 2 = 1) + 2 * One((q \div 2) % 2 = 1) + One(q % 2 = 1)
  BY <1>2, SMT DEF One
<1>5. FlagByte(ByteFlags(b)) = 128 * One(q >= 8) + 64 * One((q \div 4) % 2 = 1)
                               + 32 * One((q \div 2) % 2 = 1) + 16 * One(q % 2 = 1)
  BY <1>3, SMT DEF FlagByte, ByteFlags, Flags, q
<1>6. 128 * One(q >= 8) + 64 * One((q \div 4) % 2 = 1)
        + 32 * One((q \div 2) % 2 = 1) + 16 * One(q % 2 = 1) = 16 * q
  <2>1. \A g : One(g) \in Int
    BY OneIsBit
  <2> QED
    BY <1>2, <1>4, <2>1, SMT
<1> QED
  BY <1>1, <1>2, <1>5, <1>6, SMT

LEMMA AFIsWhatWasPopped ==
  ASSUME TypeOK, NEW v \in Word,
         regs' = [regs EXCEPT !.A = v \div 256], f' = ByteFlags(v % 256)
  PROVE  Stacked(3)' = v - (v % 16)
<1> DEFINE h == v \div 256
           l == v % 256
<1>1. v = 256 * h + l /\ h \in Byte /\ l \in Byte /\ v \in Int
  <2>1. v \in Int
    BY WordIsInt
  <2> QED
    BY <2>1, Division, Halves
<1>2. l % 16 = v % 16
  BY <1>1, SMT
<1>3. Stacked(3)' = 256 * regs'.A + FlagByte(f')
  BY DEF Stacked, FlagByte
<1>4. regs'.A = h
  BY DEF TypeOK, Names
<1>5. FlagByte(f') = l - (l % 16)
  BY <1>1, FlagsOfByte
<1> HIDE DEF h, l
<1>6. h \in Int /\ l \in Int
  BY <1>1 DEF Byte
<1> QED
  BY <1>1, <1>2, <1>3, <1>4, <1>5, <1>6, SMT

\* What POP and the returns take is what was pushed last and not yet popped, for
\* every memory, program, stack pointer and nesting; it rests on
\* StackHoldsPushesAlways, which puts the word at SP, and on PushesAgree.
THEOREM PopsReturnPushesAlways == Spec => PopsReturnPushes
<1> DEFINE Returned ==
      pushed # <<>> =>
        /\ \A p \in 0 .. 3 : PopR16 /\ P(Opcode) = p =>
             Stacked(p)' = Head(pushed) - (IF p = 3 THEN Head(pushed) % 16 ELSE 0)
        /\ Return /\ sp' # sp => pc' = Head(pushed)
<1>1. TypeOK /\ StackInv /\ [Next]_vars => (TypeOK /\ StackInv)'
  BY StepKeepsTypes, StepKeepsStack
<1>2. TypeOK /\ StackInv => Returned
  <2> SUFFICES ASSUME TypeOK, StackInv, pushed # <<>>
               PROVE  /\ \A p \in 0 .. 3 : PopR16 /\ P(Opcode) = p =>
                           Stacked(p)' = Head(pushed) - (IF p = 3 THEN Head(pushed) % 16 ELSE 0)
                      /\ Return /\ sp' # sp => pc' = Head(pushed)
    OBVIOUS
  <2>1. Head(pushed) = Popped /\ Popped \in Word /\ Popped \in Int
    BY HeadIsPopped, OperandTypes, WordIsInt
  <2>2. ASSUME NEW p \in 0 .. 3, PopR16, P(Opcode) = p
        PROVE  Stacked(p)' = Head(pushed) - (IF p = 3 THEN Head(pushed) % 16 ELSE 0)
    <3>1. CASE p = 3
      <4>1. regs' = [regs EXCEPT !.A = Popped \div 256] /\ f' = ByteFlags(Popped % 256)
        BY <2>2, <3>1 DEF PopR16
      <4>2. Stacked(3)' = Popped - (Popped % 16)
        BY <2>1, <4>1, AFIsWhatWasPopped
      <4> QED
        BY <2>1, <3>1, <4>2
    <3>2. CASE p # 3
      <4>1. regs' = WithPair(p, Popped) /\ p \in 0 .. 2
        BY <2>2, <3>2 DEF PopR16
      <4>2. Stacked(p)' = Popped
        BY <2>1, <4>1, PairIsWhatWasPut
      <4> QED
        BY <2>1, <3>2, <4>2
    <3> QED
      BY <3>1, <3>2
  <2>3. ASSUME Return, sp' # sp
        PROVE  pc' = Head(pushed)
    <3> DEFINE conditional == Opcode \notin {201, 217}
               taken == ~conditional \/ Condition(Opcode)
               t == 1 + One(conditional) + 3 * One(taken)
               n == 1 + 2 * One(taken)
    <3>1. /\ Retire(IF taken THEN Popped ELSE W(pc + 1), t, n)
          /\ IF taken THEN Pop ELSE UNCHANGED <<sp, pushed>>
      BY <2>3, Zenon DEF Return
    <3> HIDE DEF taken, t, n
    <3>2. taken
      BY <2>3, <3>1
    <3> QED
      BY <2>1, <3>1, <3>2 DEF Retire
  <2> QED
    BY <2>2, <2>3
<1> QED
  BY StackStarts, <1>1, <1>2, PTL DEF Spec, PopsReturnPushes

-----------------------------------------------------------------------------
(***************************************************************************)
(* Decimal arithmetic through the fetch, decode and run cycle: the run's    *)
(* first instruction can only be the operation, its second only DAA.        *)
(***************************************************************************)
DecimalOp == start.mem[start.pc]
DecimalCarry == IF Y(DecimalOp) \in {1, 3} THEN One(start.f.c) ELSE 0
Binary ==
  IF Y(DecimalOp) < 2 THEN Add(start.regs.A, start.regs.B, DecimalCarry)
                      ELSE Sub(start.regs.A, start.regs.B, DecimalCarry)

DecimalProgram ==
  /\ {start.pc, W(start.pc + 1)} \subseteq Ram
  /\ DecimalOp \in {128, 136, 144, 152} /\ start.mem[W(start.pc + 1)] = 39
  /\ start.regs.A \in BCD /\ start.regs.B \in BCD

\* Nothing has run; the operation has; DAA has.
AtOperation == regs = start.regs /\ f = start.f /\ pc = start.pc /\ mem = start.mem
AtDaa ==
  /\ regs = [start.regs EXCEPT !.A = Binary.r] /\ f = Binary.f
  /\ pc = W(start.pc + 1) /\ mem = start.mem
AfterDaa == regs.A = Daa(Binary.r, Binary.f).r /\ f = Daa(Binary.r, Binary.f).f

DecimalInv ==
  /\ start \in Cases
  /\ DecimalProgram =>
       /\ left = MaxInstructions => AtOperation
       /\ left = MaxInstructions - 1 => AtDaa
       /\ left = MaxInstructions - 2 => AfterDaa

LEMMA StepCounts ==
  ASSUME Next
  PROVE  left' = left - 1 /\ start' = start
<1>1. ASSUME NEW length, NEW t, NEW n, Runs(length, t, n)
      PROVE  left' = left - 1 /\ start' = start
  BY <1>1, Zenon DEF Runs, Retire
<1>2. ASSUME NEW target, NEW t, NEW n, Retire(target, t, n)
      PROVE  left' = left - 1 /\ start' = start
  BY <1>2, Zenon DEF Retire
<1>3. CASE Control \/ LoadR8R8 \/ LoadR8Imm8
  <2>1. \E length, t, n : Runs(length, t, n)
    <3>1. CASE Control
      BY <3>1 DEF Control
    <3>2. CASE LoadR8R8
      BY <3>2, ZenonT(60) DEF LoadR8R8
    <3>3. CASE LoadR8Imm8
      BY <3>3, ZenonT(60) DEF LoadR8Imm8
    <3> QED
      BY <1>3, <3>1, <3>2, <3>3
  <2> QED
    BY <1>1, <2>1
<1>4. CASE LoadAbsolute
  <2>1. PICK bytes : Runs(bytes, bytes + 1, bytes + 1)
    BY <1>4, SMT DEF LoadAbsolute
  <2> QED
    BY <1>1, <2>1
<1>5. CASE LoadIndirect \/ LoadR16Imm16 \/ StoreSP \/ LoadSPHL \/ OffsetSP
  <2>1. \E length, t, n : Runs(length, t, n)
    <3>1. CASE LoadIndirect
      BY <3>1 DEF LoadIndirect
    <3>2. CASE LoadR16Imm16
      BY <3>2 DEF LoadR16Imm16
    <3>3. CASE StoreSP
      BY <3>3 DEF StoreSP
    <3>4. CASE LoadSPHL
      BY <3>4 DEF LoadSPHL
    <3>5. CASE OffsetSP
      <4> DEFINE t == IF Opcode = 248 THEN 3 ELSE 4
      <4>1. Runs(2, t, 2)
        BY <3>5, SMT DEF OffsetSP
      <4> HIDE DEF t
      <4> QED
        BY <4>1
    <3> QED
      BY <1>5, <3>1, <3>2, <3>3, <3>4, <3>5
  <2> QED
    BY <1>1, <2>1
<1>6. CASE Arithmetic \/ StepR8 \/ StepR16 \/ AddHLR16
  BY <1>1, <1>6, Zenon DEF Arithmetic, StepR8, StepR16, AddHLR16
<1>7. CASE Accumulator \/ PushR16 \/ PopR16
  BY <1>1, <1>7, Zenon DEF Accumulator, PushR16, PopR16
<1>8. CASE ShiftOrBit
  <2> DEFINE t == 2 + HLMEM(Z(Imm8))
             n == 2 + One(Z(Imm8) = 6)
             tt == 2 + 2 * HLMEM(Z(Imm8))
             nn == 2 + 2 * One(Z(Imm8) = 6)
  <2>1. Runs(2, t, n) \/ Runs(2, tt, nn)
    BY <1>8, SMT DEF ShiftOrBit
  <2> HIDE DEF t, n, tt, nn
  <2> QED
    BY <1>1, <2>1
<1>9. CASE Jump \/ Call \/ Restart \/ Return
  <2>1. CASE Jump
    <3> DEFINE relative == X(Opcode) = 0
               conditional == Opcode \notin {24, 195, 233}
               taken == ~conditional \/ Condition(Opcode)
               length == CASE Opcode = 233 -> 1 [] relative -> 2 [] OTHER -> 3
               target == CASE Opcode = 233 -> HL
                           [] relative -> W(pc + 2 + AsSigned(Imm8))
                           [] OTHER -> Imm16
    <3>1. Retire(IF taken THEN target ELSE W(pc + length),
                 length + One(taken /\ Opcode # 233), length)
      BY ONLY <2>1, Zenon DEF Jump
    <3> HIDE DEF taken, target, length
    <3> QED
      BY <1>2, <3>1
  <2>2. CASE Call
    <3> DEFINE taken == Opcode = 205 \/ Condition(Opcode)
               target == IF taken THEN Imm16 ELSE W(pc + 3)
    <3>1. Retire(target, 3 + 3 * One(taken), 3 + 2 * One(taken))
      BY ONLY <2>2, Zenon DEF Call
    <3> HIDE DEF taken, target
    <3> QED
      BY <1>2, <3>1
  <2>3. CASE Return
    <3>1. PICK target, t, n : Retire(target, t, n)
      BY <2>3, ZenonT(60) DEF Return
    <3> QED
      BY <1>2, <3>1
  <2>4. CASE Restart
    <3>1. PICK target, t, n : Retire(target, t, n)
      BY <2>4, Zenon DEF Restart
    <3> QED
      BY <1>2, <3>1
  <2> QED
    BY <1>9, <2>1, <2>2, <2>3, <2>4
<1>10. CASE NoHandler
  BY <1>10, Zenon DEF NoHandler
<1> QED
  BY <1>3, <1>4, <1>5, <1>6, <1>7, <1>8, <1>9, <1>10, Zenon DEF Next

LEMMA OperationDigits ==
  ASSUME NEW op \in {128, 136, 144, 152}
  PROVE  /\ X(op) = 2 /\ Z(op) = 0
         /\ op = 128 => Y(op) = 0
         /\ op = 136 => Y(op) = 1
         /\ op = 144 => Y(op) = 2
         /\ op = 152 => Y(op) = 3
BY SMT DEF X, Y, Z

LEMMA DaaDigits ==
  X(39) = 0 /\ Y(39) = 4 /\ Z(39) = 7
BY SMT DEF X, Y, Z

LEMMA OnlyArithmetic ==
  ASSUME Next, Opcode \in {128, 136, 144, 152}
  PROVE  Arithmetic
<1>1. X(Opcode) = 2
  BY OperationDigits
<1>2. ~Control /\ ~LoadR8R8 /\ ~LoadR8Imm8 /\ ~LoadIndirect /\ ~LoadR16Imm16
  BY <1>1, SMT DEF Control, LoadR8R8, LoadR8Imm8, LoadIndirect, LoadR16Imm16
<1>3. ~LoadAbsolute /\ ~StoreSP /\ ~LoadSPHL /\ ~OffsetSP /\ ~ShiftOrBit /\ ~NoHandler
  <2>1. /\ Opcode \notin {224, 226, 234, 240, 242, 250} /\ Opcode # 8 /\ Opcode # 249
        /\ Opcode \notin {232, 248} /\ Opcode # 203
        /\ Opcode \notin {211, 219, 221, 227, 228, 235, 236, 237, 244, 252, 253}
    BY SMT
  <2>2. ~LoadAbsolute /\ ~NoHandler
    BY <2>1, SMT DEF LoadAbsolute, NoHandler
  <2> QED
    BY <2>1, <2>2, ZenonT(60) DEF StoreSP, LoadSPHL, OffsetSP, ShiftOrBit
<1>4. ~StepR8 /\ ~StepR16 /\ ~AddHLR16 /\ ~Accumulator /\ ~PushR16 /\ ~PopR16
  BY <1>1, SMT DEF StepR8, StepR16, AddHLR16, Accumulator, PushR16, PopR16
<1>5. ~Jump /\ ~Call /\ ~Restart /\ ~Return
  BY <1>1, SMT DEF Jump, Call, Restart, Return
<1> QED
  BY <1>2, <1>3, <1>4, <1>5, Zenon DEF Next

LEMMA OnlyAccumulator ==
  ASSUME Next, Opcode = 39
  PROVE  Accumulator
<1>1. X(Opcode) = 0 /\ Z(Opcode) = 7
  BY DaaDigits
<1>2. ~Control /\ ~LoadR8R8 /\ ~LoadR8Imm8 /\ ~LoadIndirect /\ ~LoadR16Imm16
  BY <1>1, SMT DEF Control, LoadR8R8, LoadR8Imm8, LoadIndirect, LoadR16Imm16
<1>3. ~LoadAbsolute /\ ~StoreSP /\ ~LoadSPHL /\ ~OffsetSP /\ ~ShiftOrBit /\ ~NoHandler
  BY SMT DEF LoadAbsolute, StoreSP, LoadSPHL, OffsetSP, ShiftOrBit, NoHandler
<1>4. ~StepR8 /\ ~StepR16 /\ ~AddHLR16 /\ ~Arithmetic /\ ~PushR16 /\ ~PopR16
  BY <1>1, SMT DEF StepR8, StepR16, AddHLR16, Arithmetic, PushR16, PopR16
<1>5. ~Jump /\ ~Call /\ ~Restart /\ ~Return
  BY <1>1, SMT DEF Jump, Call, Restart, Return
<1> QED
  BY <1>2, <1>3, <1>4, <1>5, Zenon DEF Next

LEMMA OperationRuns ==
  ASSUME TypeOK, DecimalProgram, AtOperation, Next
  PROVE  AtDaa'
<1> DEFINE op == Opcode
           carry == IF Y(op) \in {1, 3} THEN One(f.c) ELSE 0
           result == Operation(op, Get8(Z(op)))
<1>1. op = DecimalOp /\ op \in {128, 136, 144, 152}
  BY DEF DecimalProgram, AtOperation, DecimalOp, Opcode, Read
<1>2. X(op) = 2 /\ Z(op) = 0 /\ Y(op) \in 0 .. 3
  BY <1>1, OperationDigits
<1>3. Get8(Z(op)) = regs.B
  BY <1>2 DEF Get8, R8
<1>4. result = IF Y(op) < 2 THEN Add(regs.A, regs.B, carry) ELSE Sub(regs.A, regs.B, carry)
  <2> DEFINE v == Get8(Z(op))
  <2>1. result = CASE Y(op) \in {0, 1} -> Add(regs.A, v, carry)
                   [] Y(op) \in {2, 3, 7} -> Sub(regs.A, v, carry)
                   [] Y(op) = 4 -> And(regs.A, v)
                   [] Y(op) = 5 -> Xor(regs.A, v)
                   [] Y(op) = 6 -> Or(regs.A, v)
    BY DEF Operation
  <2> HIDE DEF v, op, carry, result
  <2>2. CASE Y(op) < 2
    <3>1. Y(op) \in {0, 1}
      BY <1>2, <2>2
    <3>2. result = Add(regs.A, v, carry)
      BY <2>1, <3>1
    <3> QED
      BY <1>3, <2>2, <3>2 DEF v
  <2>3. CASE ~(Y(op) < 2)
    <3>1. Y(op) \in {2, 3, 7} /\ Y(op) \notin {0, 1} /\ Y(op) # 4 /\ Y(op) # 5 /\ Y(op) # 6
      BY <1>2, <2>3
    <3>2. result = Sub(regs.A, v, carry)
      BY <2>1, <3>1
    <3> QED
      BY <1>3, <2>3, <3>2 DEF v
  <2> QED
    BY <2>2, <2>3
<1>5. result = Binary
  BY <1>1, <1>4 DEF AtOperation, Binary, DecimalCarry
<1>6. Arithmetic /\ start' = start
  BY <1>1, OnlyArithmetic, StepCounts
<1>7. /\ regs' = IF Y(op) = 7 THEN regs ELSE [regs EXCEPT !.A = result.r]
      /\ f' = result.f /\ mem' = mem
      /\ pc' = W(pc + 1)
  BY <1>2, <1>6 DEF Arithmetic, Runs, Retire
<1>8. regs' = [regs EXCEPT !.A = result.r]
  BY <1>2, <1>7
<1>9. Binary' = Binary
  BY <1>6, Zenon DEF Binary, DecimalCarry, DecimalOp
<1>10. W(start.pc + 1)' = W(start.pc + 1)
  BY <1>6, SMT DEF W
<1> HIDE DEF op, result
<1> QED
  BY <1>5, <1>6, <1>7, <1>8, <1>9, <1>10, Zenon DEF AtOperation, AtDaa

LEMMA DaaRuns ==
  ASSUME TypeOK, DecimalProgram, AtDaa, Next
  PROVE  AfterDaa'
<1>1. Opcode = 39
  BY DEF DecimalProgram, AtDaa, Opcode, Read
<1>2. Accumulator /\ start' = start
  BY <1>1, OnlyAccumulator, StepCounts
<1> DEFINE a == regs.A
           turned == <<RLC(a), RRC(a), RL(a, One(f.c)), RR(a, One(f.c))>>
           adjusted == Daa(a, f)
           y == Y(Opcode)
<1>3. /\ regs' = [regs EXCEPT !.A = CASE y < 4 -> turned[y + 1].r
                                      [] y = 4 -> adjusted.r
                                      [] y = 5 -> 255 - a
                                      [] y > 5 -> a]
      /\ f' = CASE y < 4 -> Flags(FALSE, FALSE, FALSE, turned[y + 1].c)
                [] y = 4 -> adjusted.f
                [] y = 5 -> Flags(f.z, TRUE, TRUE, f.c)
                [] y > 5 -> Flags(f.z, FALSE, FALSE, y = 6 \/ ~f.c)
  BY <1>2 DEF Accumulator
<1>4. y = 4
  BY <1>1, DaaDigits
<1> HIDE DEF turned, adjusted, y, a
<1>5. regs' = [regs EXCEPT !.A = adjusted.r] /\ f' = adjusted.f
  BY <1>3, <1>4
<1>6. regs'.A = adjusted.r
  BY <1>5 DEF TypeOK, Names
<1>7. adjusted = Daa(Binary.r, Binary.f)
  <2>1. "A" \in DOMAIN start.regs
    BY DEF AtDaa, TypeOK, Names
  <2> QED
    BY <2>1 DEF AtDaa, adjusted, a
<1>8. Binary' = Binary
  BY <1>2, Zenon DEF Binary, DecimalCarry, DecimalOp
<1> QED
  BY <1>5, <1>6, <1>7, <1>8 DEF AfterDaa

LEMMA DecimalRange ==
  ASSUME NEW d \in BCD
  PROVE  Decimal(d) \in 0 .. 99 /\ (d = 0 <=> Decimal(d) = 0) /\ d \in Byte
<1> DEFINE h == d \div 16
           l == d % 16
<1>1. d \in Int /\ 0 <= d /\ d <= 255 /\ h < 10 /\ l < 10
  BY SMT DEF BCD, Byte
<1>2. l \in 0 .. 15 /\ h \in Int /\ d = 16 * h + l
  BY <1>1, NibbleOf
<1> HIDE DEF h, l
<1>3. 10 * h + l \in 0 .. 99 /\ (d = 0 <=> 10 * h + l = 0)
  BY <1>1, <1>2, SMT
<1> QED
  BY <1>3 DEF Decimal, h, l, BCD

\* A decimal and a multiple of 100 together are the value they were taken from.
LEMMA DecimalResult ==
  ASSUME NEW r \in BCD, NEW c \in BOOLEAN, NEW result \in Int
  PROVE  /\ Decimal(r) + 100 * One(c) = result =>
              Decimal(r) = result % 100 /\ (c <=> result \notin 0 .. 99)
         /\ Decimal(r) - 100 * One(c) = result =>
              Decimal(r) = result % 100 /\ (c <=> result \notin 0 .. 99)
<1> DEFINE d == Decimal(r)
<1>1. d \in 0 .. 99
  BY DecimalRange
<1> HIDE DEF d
<1>2. CASE c
  <2>1. One(c) = 1
    BY <1>2 DEF One
  <2>2. d = result - 100 \/ d = result + 100 => result % 100 = d /\ result \notin 0 .. 99
    BY <1>1, SMT
  <2>3. d + 100 * One(c) = result \/ d - 100 * One(c) = result =>
          d = result % 100 /\ result \notin 0 .. 99
    BY <1>1, <2>1, <2>2, SMT
  <2> QED
    BY <1>2, <2>3, Zenon DEF d
<1>3. CASE ~c
  <2>1. One(c) = 0
    BY <1>3 DEF One
  <2>2. d = result => result % 100 = d /\ result \in 0 .. 99
    BY <1>1, SMT
  <2> QED
    BY <1>1, <1>3, <2>1, <2>2, SMT DEF d
<1> QED
  BY <1>2, <1>3

LEMMA AfterDaaIsDecimal ==
  ASSUME start \in Cases, DecimalProgram, AfterDaa
  PROVE  LET a == Decimal(start.regs.A)
             b == Decimal(start.regs.B)
             result == IF Y(DecimalOp) < 2 THEN a + b + DecimalCarry ELSE a - b - DecimalCarry
         IN  /\ regs.A \in BCD /\ Decimal(regs.A) = result % 100
             /\ f.c = (result \notin 0 .. 99) /\ f.z = (result % 100 = 0)
<1> DEFINE a == start.regs.A
           b == start.regs.B
           carry == DecimalCarry
           sum == Add(a, b, carry)
           diff == Sub(a, b, carry)
           d == Daa(Binary.r, Binary.f)
           result == IF Y(DecimalOp) < 2 THEN Decimal(a) + Decimal(b) + carry
                                         ELSE Decimal(a) - Decimal(b) - carry
<1>1. a \in BCD /\ b \in BCD /\ carry \in {0, 1} /\ a \in Byte /\ b \in Byte
  BY OnePlus, DecimalRange DEF DecimalProgram, DecimalCarry
<1>2. Decimal(a) \in 0 .. 99 /\ Decimal(b) \in 0 .. 99
  BY <1>1, DecimalRange
<1>3. result \in Int
  <2> DEFINE x == Decimal(a)
             y == Decimal(b)
             added == x + y + carry
             taken == x - y - carry
  <2>1. x \in Int /\ y \in Int /\ carry \in Int
    BY <1>1, <1>2
  <2> HIDE DEF x, y, carry
  <2>2. added \in Int /\ taken \in Int
    BY <2>1
  <2>3. result = IF Y(DecimalOp) < 2 THEN added ELSE taken
    BY DEF x, y
  <2> HIDE DEF added, taken, result
  <2> QED
    BY <2>2, <2>3
<1>4. /\ d.r \in BCD
      /\ \/ Decimal(d.r) + 100 * One(d.f.c) = result
         \/ Decimal(d.r) - 100 * One(d.f.c) = result
  <2>1. CASE Y(DecimalOp) < 2
    <3>1. d = Daa(sum.r, sum.f)
      BY <2>1 DEF Binary
    <3>2. d.r \in BCD /\ Decimal(d.r) + 100 * One(d.f.c) = Decimal(a) + Decimal(b) + carry
      <4> HIDE DEF a, b, carry, sum, d
      <4> QED
        BY <1>1, <3>1, DecimalSum DEF sum
    <3> QED
      BY <2>1, <3>2
  <2>2. CASE ~(Y(DecimalOp) < 2)
    <3>1. d = Daa(diff.r, diff.f)
      BY <2>2 DEF Binary
    <3>2. d.r \in BCD /\ Decimal(d.r) - 100 * One(d.f.c) = Decimal(a) - Decimal(b) - carry
      <4> HIDE DEF a, b, carry, diff, d
      <4> QED
        BY <1>1, <3>1, DecimalDifference DEF diff
    <3> QED
      BY <2>2, <3>2
  <2> QED
    BY <2>1, <2>2
<1>5. d \in Answer /\ d.f.z = (d.r = 0)
  <2>1. Binary.r \in Byte /\ Binary.f \in FlagSet
    <3>1. Binary = sum \/ Binary = diff
      BY DEF Binary
    <3>2. sum \in Answer /\ diff \in Answer
      BY <1>1, AddType
    <3> QED
      BY <3>1, <3>2 DEF Answer
  <2>2. d \in Answer
    BY <2>1, DaaType
  <2>3. \A v, g : Daa(v, g).f.z = (Daa(v, g).r = 0)
    BY DEF Daa, Flags
  <2> HIDE DEF d
  <2> QED
    BY <2>2, <2>3 DEF d
<1> HIDE DEF a, b, carry, sum, diff, d, result
<1>6. d.f.c \in BOOLEAN /\ d.f.z \in BOOLEAN /\ d.f \in FlagSet
  BY <1>5 DEF Answer, FlagSet
<1>7. Decimal(d.r) = result % 100 /\ (d.f.c <=> result \notin 0 .. 99)
  BY <1>3, <1>4, <1>6, DecimalResult
<1>8. d.f.z = (result % 100 = 0)
  BY <1>4, <1>5, <1>7, DecimalRange
<1>9. regs.A = d.r /\ f = d.f
  BY DEF AfterDaa, d
<1>10. /\ regs.A \in BCD /\ Decimal(regs.A) = result % 100
       /\ f.c = (result \notin 0 .. 99) /\ f.z = (result % 100 = 0)
  BY <1>4, <1>6, <1>7, <1>8, <1>9
<1> QED
  BY <1>10, Zenon DEF result, a, b, carry

LEMMA DecimalInvSays ==
  ASSUME DecimalInv
  PROVE  DecimalArithmetic
<1>1. CASE DecimalProgram /\ left = MaxInstructions - 2
  BY <1>1, AfterDaaIsDecimal, Zenon DEF DecimalInv, DecimalArithmetic, DecimalOp, DecimalCarry
<1>2. CASE ~(DecimalProgram /\ left = MaxInstructions - 2)
  BY <1>2, Zenon DEF DecimalArithmetic, DecimalProgram, DecimalOp
<1> QED
  BY <1>1, <1>2

LEMMA StepKeepsDecimal ==
  ASSUME TypeOK, DecimalInv, [Next]_vars
  PROVE  DecimalInv'
<1>1. CASE UNCHANGED vars
  <2>1. DecimalProgram' = DecimalProgram /\ AtOperation' = AtOperation /\ AtDaa' = AtDaa
        /\ AfterDaa' = AfterDaa /\ start' = start /\ left' = left
    BY <1>1, SMT DEF vars, DecimalProgram, AtOperation, AtDaa, AfterDaa, Binary, DecimalCarry,
                DecimalOp, W
  <2> QED
    BY <2>1, Zenon DEF DecimalInv
<1>2. CASE Next
  <2>1. left' = left - 1 /\ start' = start
    BY <1>2, StepCounts
  <2>2. left \in Int /\ left <= MaxInstructions /\ MaxInstructions \in Int
    BY InstructionsAssumption DEF TypeOK
  <2>3. DecimalProgram' = DecimalProgram
    BY <2>1, SMT DEF DecimalProgram, DecimalOp, W
  <2>4. left' # MaxInstructions
    BY <2>1, <2>2
  <2>5. ASSUME DecimalProgram, left' = MaxInstructions - 1
        PROVE  AtDaa'
    <3>1. left = MaxInstructions
      BY <2>1, <2>2, <2>5
    <3> QED
      BY <1>2, <2>5, <3>1, OperationRuns DEF DecimalInv
  <2>6. ASSUME DecimalProgram, left' = MaxInstructions - 2
        PROVE  AfterDaa'
    <3>1. left = MaxInstructions - 1
      BY <2>1, <2>2, <2>6
    <3> QED
      BY <1>2, <2>6, <3>1, DaaRuns DEF DecimalInv
  <2> QED
    BY <2>1, <2>3, <2>4, <2>5, <2>6, Zenon DEF DecimalInv
<1> QED
  BY <1>1, <1>2

\* ADD, ADC, SUB or SBC of two decimal bytes and then DAA, run as two
\* instructions, leave the decimal sum or difference in A and its carry in F, for
\* every two bytes and wherever the program lies (operator.inc, flag_ops.h).
THEOREM DecimalArithmeticAlways == Spec => []DecimalArithmetic
<1>1. Init => TypeOK /\ DecimalInv
  <2> SUFFICES ASSUME Init
               PROVE  DecimalInv
    BY InitTypes
  <2>1. start \in Cases /\ AtOperation /\ left = MaxInstructions
    BY DEF Init, AtOperation
  <2>2. left # MaxInstructions - 1 /\ left # MaxInstructions - 2
    BY <2>1, InstructionsAssumption
  <2> QED
    BY <2>1, <2>2, Zenon DEF DecimalInv
<1>2. TypeOK /\ DecimalInv /\ [Next]_vars => (TypeOK /\ DecimalInv)'
  BY StepKeepsTypes, StepKeepsDecimal
<1>3. DecimalInv => DecimalArithmetic
  BY DecimalInvSays
<1> QED
  BY <1>1, <1>2, <1>3, PTL DEF Spec

-----------------------------------------------------------------------------
(***************************************************************************)
(* The memory bridge: which rows of its lists match an address.            *)
(***************************************************************************)
LEMMA AddressMembers ==
  \A a : a \in Address <=> a \in Int /\ 0 <= a /\ a <= 65535
<1>1. LastAddress \in Int
  BY SMT DEF LastAddress
<1>2. \A a : a \in Address <=> a \in Int /\ 0 <= a /\ a <= LastAddress
  BY <1>1, SMT DEF Address
<1> QED
  BY <1>2, SMT DEF LastAddress

LEMMA FirstRowsAre ==
  ASSUME NEW a \in Address
  PROVE  /\ FirstRows(a) \subseteq 1 .. 7
         /\ 1 \in FirstRows(a) <=> a <= 16383
         /\ 2 \in FirstRows(a) <=> 16384 <= a /\ a <= 32767
         /\ 3 \in FirstRows(a) <=> 32768 <= a /\ a <= 40959
         /\ 4 \in FirstRows(a) <=> 40960 <= a /\ a <= 49151
         /\ 5 \in FirstRows(a) <=> 49152 <= a /\ a <= 57343
         /\ 6 \in FirstRows(a) <=> 57344 <= a /\ a <= 65023
         /\ 7 \in FirstRows(a) <=> 65024 <= a
<1>1. a \in Int /\ 0 <= a /\ a <= 65535
  BY AddressMembers, SMT
<1>2. Len(FirstLevel) = 7
  BY SMT DEF FirstLevel
<1> DEFINE k == a \div 512
<1>3. /\ FirstMatches(FirstLevel[1], k) <=> k >= 0 /\ k <= 31
      /\ FirstMatches(FirstLevel[2], k) <=> k >= 32 /\ k <= 63
      /\ FirstMatches(FirstLevel[3], k) <=> k >= 64 /\ k <= 79
      /\ FirstMatches(FirstLevel[4], k) <=> k >= 80 /\ k <= 95
      /\ FirstMatches(FirstLevel[5], k) <=> k >= 96 /\ k <= 111
      /\ FirstMatches(FirstLevel[6], k) <=> k >= 112 /\ k <= 126
      /\ FirstMatches(FirstLevel[7], k) <=> k >= 127 /\ k <= 127
  <2> HIDE DEF k
  <2> QED
    BY SMT DEF FirstMatches, FirstLevel, Row
<1>4. \A i : i \in FirstRows(a) <=> i \in 1 .. 7 /\ FirstMatches(FirstLevel[i], k)
  BY <1>2, SMT DEF FirstRows
<1>5. /\ k >= 0 /\ k <= 127
      /\ (k <= 31 <=> a <= 16383) /\ (k >= 32 <=> 16384 <= a)
      /\ (k <= 63 <=> a <= 32767) /\ (k >= 64 <=> 32768 <= a)
      /\ (k <= 79 <=> a <= 40959) /\ (k >= 80 <=> 40960 <= a)
      /\ (k <= 95 <=> a <= 49151) /\ (k >= 96 <=> 49152 <= a)
      /\ (k <= 111 <=> a <= 57343) /\ (k >= 112 <=> 57344 <= a)
      /\ (k <= 126 <=> a <= 65023) /\ (k >= 127 <=> 65024 <= a)
  BY <1>1, SMT
<1> HIDE DEF k
<1> QED
  BY <1>3, <1>4, <1>5, SMT

LEMMA FirstHandlers ==
  /\ FirstLevel[1].handler = "ROM0" /\ FirstLevel[2].handler = "ROM1"
  /\ FirstLevel[3].handler = "VRAM" /\ FirstLevel[4].handler = "RAM"
  /\ FirstLevel[5].handler = "WRAM" /\ FirstLevel[6].handler = "ECHO"
  /\ FirstLevel[7].handler = "SecondLevel"
BY SMT DEF FirstLevel, Row

LEMMA ReadRowsAre ==
  ASSUME NEW a \in Address
  PROVE  /\ ReadRows(a) \subseteq 1 .. 9
         /\ 1 \in ReadRows(a) <=> 65024 <= a /\ a <= 65183
         /\ 2 \in ReadRows(a) <=> 65408 <= a /\ a <= 65534
         /\ 3 \in ReadRows(a) <=> a = 65284
         /\ 4 \in ReadRows(a) <=> 65296 <= a /\ a <= 65343
         /\ 5 \in ReadRows(a) <=> a = 65535
         /\ 6 \in ReadRows(a) <=> 65280 <= a /\ a <= 65283
         /\ 7 \in ReadRows(a) <=> 65285 <= a /\ a <= 65295
         /\ 8 \in ReadRows(a) <=> 65344 <= a /\ a <= 65388
         /\ 9 \in ReadRows(a) <=> 65389 <= a /\ a <= 65407
<1>1. a \in Int
  BY AddressMembers, SMT
<1>2. Len(SecondLevelReads) = 9
  BY SMT DEF SecondLevelReads
<1>3. \A i : i \in ReadRows(a) <=> i \in 1 .. 9 /\ SecondMatches(SecondLevelReads[i], a - 65024)
  BY <1>2, SMT DEF ReadRows
<1>4. \A h : \A low, high \in Int : SecondMatches(Row(low, high, h), a - 65024) <=> low <= a /\ a <= high
  BY <1>1, SMT DEF SecondMatches, Row
<1>5. /\ SecondLevelReads[1] = Row(65024, 65183, "OAM")
      /\ SecondLevelReads[2] = Row(65408, 65534, "HRAM")
      /\ SecondLevelReads[3] = Row(65284, 65284, "DIV")
      /\ SecondLevelReads[4] = Row(65296, 65343, "Audio")
      /\ SecondLevelReads[5] = Row(65535, 65535, "IE")
      /\ SecondLevelReads[6] = Row(65280, 65283, "HardwareRegister")
      /\ SecondLevelReads[7] = Row(65285, 65295, "HardwareRegister")
      /\ SecondLevelReads[8] = Row(65344, 65388, "PPURegister")
      /\ SecondLevelReads[9] = Row(65389, 65407, "HardwareRegister")
  BY SMT DEF SecondLevelReads
<1> QED
  BY <1>1, <1>3, <1>4, <1>5, SMT

LEMMA WriteRowsAre ==
  ASSUME NEW a \in Address
  PROVE  /\ WriteRows(a) \subseteq 1 .. 16
         /\ 1 \in WriteRows(a) <=> 65024 <= a /\ a <= 65183
         /\ 2 \in WriteRows(a) <=> 65408 <= a /\ a <= 65534
         /\ 3 \in WriteRows(a) <=> a = 65535
         /\ 4 \in WriteRows(a) <=> a = 65280
         /\ 5 \in WriteRows(a) <=> a = 65280
         /\ 6 \in WriteRows(a) <=> 65281 <= a /\ a <= 65283
         /\ 7 \in WriteRows(a) <=> a = 65282
         /\ 8 \in WriteRows(a) <=> a = 65284
         /\ 9 \in WriteRows(a) <=> a = 65285
         /\ 10 \in WriteRows(a) <=> a = 65286
         /\ 11 \in WriteRows(a) <=> a = 65287
         /\ 12 \in WriteRows(a) <=> 65288 <= a /\ a <= 65295
         /\ 13 \in WriteRows(a) <=> 65296 <= a /\ a <= 65343
         /\ 14 \in WriteRows(a) <=> 65344 <= a /\ a <= 65388
         /\ 15 \in WriteRows(a) <=> 65389 <= a /\ a <= 65407
         /\ 16 \in WriteRows(a) <=> a = 65360
<1>1. a \in Int
  BY AddressMembers, SMT
<1>2. Len(SecondLevelWrites) = 16
  BY SMT DEF SecondLevelWrites
<1>3. \A i : i \in WriteRows(a) <=> i \in 1 .. 16 /\ SecondMatches(SecondLevelWrites[i], a - 65024)
  BY <1>2, SMT DEF WriteRows
<1>4. \A h : \A low, high \in Int : SecondMatches(Row(low, high, h), a - 65024) <=> low <= a /\ a <= high
  BY <1>1, SMT DEF SecondMatches, Row
<1>5. /\ SecondLevelWrites[1] = Row(65024, 65183, "OAM")
      /\ SecondLevelWrites[2] = Row(65408, 65534, "HRAM")
      /\ SecondLevelWrites[3] = Row(65535, 65535, "IE")
      /\ SecondLevelWrites[4] = Row(65280, 65280, "HardwareRegister")
      /\ SecondLevelWrites[5] = Row(65280, 65280, "JoypadNotify")
      /\ SecondLevelWrites[6] = Row(65281, 65283, "HardwareRegister")
      /\ SecondLevelWrites[7] = Row(65282, 65282, "NotifyWrite")
      /\ SecondLevelWrites[8] = Row(65284, 65284, "DIV")
  BY SMT DEF SecondLevelWrites
<1>6. /\ SecondLevelWrites[9] = Row(65285, 65285, "TimaWrite")
      /\ SecondLevelWrites[10] = Row(65286, 65286, "TmaWrite")
      /\ SecondLevelWrites[11] = Row(65287, 65287, "TacWrite")
      /\ SecondLevelWrites[12] = Row(65288, 65295, "HardwareRegister")
      /\ SecondLevelWrites[13] = Row(65296, 65343, "Audio")
      /\ SecondLevelWrites[14] = Row(65344, 65388, "PPURegister")
      /\ SecondLevelWrites[15] = Row(65389, 65407, "HardwareRegister")
      /\ SecondLevelWrites[16] = Row(65360, 65360, "BootROM")
  BY SMT DEF SecondLevelWrites
<1>7. /\ \A i \in 1 .. 8 : i \in WriteRows(a) <=> SecondMatches(SecondLevelWrites[i], a - 65024)
      /\ \A i \in 9 .. 16 : i \in WriteRows(a) <=> SecondMatches(SecondLevelWrites[i], a - 65024)
      /\ WriteRows(a) \subseteq 1 .. 16
  BY <1>3, SMT
<1>8. /\ 1 \in WriteRows(a) <=> 65024 <= a /\ a <= 65183
      /\ 2 \in WriteRows(a) <=> 65408 <= a /\ a <= 65534
      /\ 3 \in WriteRows(a) <=> a = 65535
      /\ 4 \in WriteRows(a) <=> a = 65280
      /\ 5 \in WriteRows(a) <=> a = 65280
      /\ 6 \in WriteRows(a) <=> 65281 <= a /\ a <= 65283
      /\ 7 \in WriteRows(a) <=> a = 65282
      /\ 8 \in WriteRows(a) <=> a = 65284
  BY <1>1, <1>4, <1>5, <1>7, SMT
<1>9. /\ 9 \in WriteRows(a) <=> a = 65285
      /\ 10 \in WriteRows(a) <=> a = 65286
      /\ 11 \in WriteRows(a) <=> a = 65287
      /\ 12 \in WriteRows(a) <=> 65288 <= a /\ a <= 65295
      /\ 13 \in WriteRows(a) <=> 65296 <= a /\ a <= 65343
      /\ 14 \in WriteRows(a) <=> 65344 <= a /\ a <= 65388
      /\ 15 \in WriteRows(a) <=> 65389 <= a /\ a <= 65407
      /\ 16 \in WriteRows(a) <=> a = 65360
  BY <1>1, <1>4, <1>6, <1>7, SMT
<1> QED
  BY <1>7, <1>8, <1>9, SMT

LEMMA WriteHandlers ==
  /\ SecondLevelWrites[1].handler = "OAM" /\ SecondLevelWrites[2].handler = "HRAM"
  /\ SecondLevelWrites[3].handler = "IE" /\ SecondLevelWrites[4].handler = "HardwareRegister"
  /\ SecondLevelWrites[5].handler = "JoypadNotify" /\ SecondLevelWrites[6].handler = "HardwareRegister"
  /\ SecondLevelWrites[7].handler = "NotifyWrite" /\ SecondLevelWrites[8].handler = "DIV"
  /\ SecondLevelWrites[9].handler = "TimaWrite" /\ SecondLevelWrites[10].handler = "TmaWrite"
  /\ SecondLevelWrites[11].handler = "TacWrite" /\ SecondLevelWrites[12].handler = "HardwareRegister"
  /\ SecondLevelWrites[13].handler = "Audio" /\ SecondLevelWrites[14].handler = "PPURegister"
  /\ SecondLevelWrites[15].handler = "HardwareRegister" /\ SecondLevelWrites[16].handler = "BootROM"
BY SMT DEF SecondLevelWrites, Row

LEMMA ReadHandlers ==
  \A i \in 1 .. 9 : /\ SecondLevelReads[i].handler \in {"OAM", "HRAM", "DIV", "Audio", "IE",
                                                        "HardwareRegister", "PPURegister"}
                    /\ SecondLevelReads[i].handler \notin {"nullptr", "ECHO", "SecondLevel", "WRAM"}
<1> TAKE i \in 1 .. 9
<1>1. i \in {1, 2, 3, 4, 5, 6, 7, 8, 9}
  BY SMT
<1> QED
  BY <1>1, SMT DEF SecondLevelReads, Row

\* Every read has one row of the first list, and at most one of the second.
THEOREM OneReaderThm == OneReader
<1> SUFFICES ASSUME NEW a \in Address
             PROVE  /\ \E i \in FirstRows(a) : FirstRows(a) = {i}
                    /\ \A i, j \in ReadRows(a) : i = j
  BY DEF OneReader
<1>1. a \in Int /\ 0 <= a /\ a <= 65535
  BY AddressMembers, SMT
<1>2. PICK i \in 1 .. 7 : i \in FirstRows(a) /\ \A j \in 1 .. 7 : j \in FirstRows(a) => j = i
  <2>1. \A j \in 1 .. 7 : j \in {1, 2, 3, 4, 5, 6, 7}
    BY SMT
  <2>2. \E i \in {1, 2, 3, 4, 5, 6, 7} :
          i \in FirstRows(a) /\ \A j \in {1, 2, 3, 4, 5, 6, 7} : j \in FirstRows(a) => j = i
    BY <1>1, FirstRowsAre, SMT
  <2> QED
    BY <2>1, <2>2, SMT
<1>3. FirstRows(a) = {i}
  BY <1>2, FirstRowsAre
<1>4. ASSUME NEW m \in ReadRows(a), NEW n \in ReadRows(a)
      PROVE  m = n
  <2>1. m \in 1 .. 9 /\ n \in 1 .. 9
    BY ReadRowsAre
  <2>2. m \in {1, 2, 3, 4, 5, 6, 7, 8, 9} /\ n \in {1, 2, 3, 4, 5, 6, 7, 8, 9}
    BY <2>1, SMT
  <2> QED
    BY <1>1, <2>2, ReadRowsAre, SMT
<1> QED
  BY <1>2, <1>3, <1>4

LEMMA AnswersOfOne ==
  ASSUME NEW list, NEW i \in Int
  PROVE  Answers(list, {i}) = list[i].handler
<1>1. (CHOOSE k \in {i} : \A j \in {i} : k <= j) = i
  OBVIOUS
<1> QED
  BY <1>1 DEF Answers

LEMMA FirstAnswer ==
  ASSUME NEW a \in Address, NEW i \in FirstRows(a)
  PROVE  /\ Answers(FirstLevel, FirstRows(a)) = FirstLevel[i].handler
         /\ {FirstLevel[k].handler : k \in FirstRows(a)} = {FirstLevel[i].handler}
<1>1. FirstRows(a) = {i}
  BY OneReaderThm DEF OneReader
<1>2. i \in Int
  BY FirstRowsAre
<1> QED
  BY <1>1, <1>2, AnswersOfOne

LEMMA SecondAnswer ==
  ASSUME NEW a \in Address, NEW i \in ReadRows(a)
  PROVE  Answers(SecondLevelReads, ReadRows(a)) = SecondLevelReads[i].handler
<1>1. ReadRows(a) = {i}
  BY OneReaderThm DEF OneReader
<1>2. i \in Int
  BY ReadRowsAre
<1> QED
  BY <1>1, <1>2, AnswersOfOne

\* Below FE00 the first table alone decides; behind it, the second.
LEMMA FirstTable ==
  ASSUME NEW a \in Address
  PROVE  /\ a <= 16383 => Reader(a) = "ROM0" /\ Writers(a) = {"ROM0"}
         /\ 16384 <= a /\ a <= 32767 => Reader(a) = "ROM1" /\ Writers(a) = {"ROM1"}
         /\ 32768 <= a /\ a <= 40959 => Reader(a) = "VRAM" /\ Writers(a) = {"VRAM"}
         /\ 40960 <= a /\ a <= 49151 => Reader(a) = "RAM" /\ Writers(a) = {"RAM"}
         /\ 49152 <= a /\ a <= 57343 => Reader(a) = "WRAM" /\ Writers(a) = {"WRAM"}
         /\ 57344 <= a /\ a <= 65023 => Reader(a) = "ECHO" /\ Writers(a) = {"ECHO"}
         /\ 65024 <= a => /\ Reader(a) = Answers(SecondLevelReads, ReadRows(a))
                          /\ Writers(a) = {SecondLevelWrites[i].handler : i \in WriteRows(a)}
<1>1. ASSUME NEW i \in FirstRows(a), FirstLevel[i].handler # "SecondLevel"
      PROVE  Reader(a) = FirstLevel[i].handler /\ Writers(a) = {FirstLevel[i].handler}
  BY <1>1, FirstAnswer DEF Reader, Writers
<1>2. ASSUME NEW i \in FirstRows(a), FirstLevel[i].handler = "SecondLevel"
      PROVE  /\ Reader(a) = Answers(SecondLevelReads, ReadRows(a))
             /\ Writers(a) = {SecondLevelWrites[k].handler : k \in WriteRows(a)}
  BY <1>2, FirstAnswer DEF Reader, Writers
<1>3. ASSUME a <= 16383 PROVE Reader(a) = "ROM0" /\ Writers(a) = {"ROM0"}
  <2>1. 1 \in FirstRows(a)
    BY <1>3, FirstRowsAre, SMT
  <2> QED
    BY <1>1, <2>1, FirstHandlers
<1>4. ASSUME 16384 <= a, a <= 32767 PROVE Reader(a) = "ROM1" /\ Writers(a) = {"ROM1"}
  <2>1. 2 \in FirstRows(a)
    BY <1>4, FirstRowsAre, SMT
  <2> QED
    BY <1>1, <2>1, FirstHandlers
<1>5. ASSUME 32768 <= a, a <= 40959 PROVE Reader(a) = "VRAM" /\ Writers(a) = {"VRAM"}
  <2>1. 3 \in FirstRows(a)
    BY <1>5, FirstRowsAre, SMT
  <2> QED
    BY <1>1, <2>1, FirstHandlers
<1>6. ASSUME 40960 <= a, a <= 49151 PROVE Reader(a) = "RAM" /\ Writers(a) = {"RAM"}
  <2>1. 4 \in FirstRows(a)
    BY <1>6, FirstRowsAre, SMT
  <2> QED
    BY <1>1, <2>1, FirstHandlers
<1>7. ASSUME 49152 <= a, a <= 57343 PROVE Reader(a) = "WRAM" /\ Writers(a) = {"WRAM"}
  <2>1. 5 \in FirstRows(a)
    BY <1>7, FirstRowsAre, SMT
  <2> QED
    BY <1>1, <2>1, FirstHandlers
<1>8. ASSUME 57344 <= a, a <= 65023 PROVE Reader(a) = "ECHO" /\ Writers(a) = {"ECHO"}
  <2>1. 6 \in FirstRows(a)
    BY <1>8, FirstRowsAre, SMT
  <2> QED
    BY <1>1, <2>1, FirstHandlers
<1>9. ASSUME 65024 <= a
      PROVE  /\ Reader(a) = Answers(SecondLevelReads, ReadRows(a))
             /\ Writers(a) = {SecondLevelWrites[i].handler : i \in WriteRows(a)}
  <2>1. 7 \in FirstRows(a)
    BY <1>9, FirstRowsAre, SMT
  <2> QED
    BY <1>2, <2>1, FirstHandlers
<1> QED
  BY <1>3, <1>4, <1>5, <1>6, <1>7, <1>8, <1>9, SMT

\* Exactly the second table's addresses behind FE9F and before FF00 have no row.
LEMMA SecondTable ==
  ASSUME NEW a \in Address, 65024 <= a
  PROVE  /\ Reader(a) = "nullptr" <=> 65184 <= a /\ a <= 65279
         /\ Writers(a) = {} <=> 65184 <= a /\ a <= 65279
         /\ Reader(a) # "ECHO" /\ Reader(a) # "WRAM"
<1>1. a \in Int /\ a <= 65535
  BY AddressMembers, SMT
<1>2. ReadRows(a) = {} <=> 65184 <= a /\ a <= 65279
  <2>1. ASSUME 65184 <= a, a <= 65279, NEW i \in ReadRows(a)
        PROVE  FALSE
    <3>1. i \in 1 .. 9
      BY ReadRowsAre
    <3>2. i \in {1, 2, 3, 4, 5, 6, 7, 8, 9}
      BY <3>1, SMT
    <3> QED
      BY <1>1, <2>1, <3>2, ReadRowsAre, SMT
  <2>2. ASSUME ~(65184 <= a /\ a <= 65279)
        PROVE  \E i \in {1, 2, 3, 4, 5, 6, 7, 8, 9} : i \in ReadRows(a)
    BY <1>1, <2>2, ReadRowsAre, SMT
  <2> QED
    BY <2>1, <2>2
<1>3. WriteRows(a) = {} <=> 65184 <= a /\ a <= 65279
  <2>1. ASSUME 65184 <= a, a <= 65279, NEW i \in WriteRows(a)
        PROVE  FALSE
    <3>1. i \in 1 .. 16
      BY WriteRowsAre
    <3>2. i \in {1, 2, 3, 4, 5, 6, 7, 8, 9, 10, 11, 12, 13, 14, 15, 16}
      BY <3>1, SMT
    <3> QED
      BY <1>1, <2>1, <3>2, WriteRowsAre, SMT
  <2>2. ASSUME ~(65184 <= a /\ a <= 65279)
        PROVE  \E i \in {1, 2, 3, 4, 5, 6, 7, 8, 9, 10, 11, 12, 13, 14, 15, 16} : i \in WriteRows(a)
    BY <1>1, <2>2, WriteRowsAre, SMT
  <2> QED
    BY <2>1, <2>2
<1>4. ASSUME NEW i \in ReadRows(a)
      PROVE  Reader(a) \notin {"nullptr", "ECHO", "WRAM"}
  <2>1. i \in 1 .. 9
    BY ReadRowsAre, SMT
  <2>2. Reader(a) = Answers(SecondLevelReads, ReadRows(a))
    BY FirstTable, SMT
  <2>3. Reader(a) = SecondLevelReads[i].handler
    BY <2>2, SecondAnswer, SMT
  <2> QED
    BY <2>1, <2>3, ReadHandlers, SMT
<1>5. ReadRows(a) = {} => Reader(a) = "nullptr"
  BY FirstTable, SMT DEF Answers
<1>6. Writers(a) = {} <=> WriteRows(a) = {}
  BY FirstTable, SMT
<1> QED
  BY <1>2, <1>3, <1>4, <1>5, <1>6, SMT

\* Every address the bridge answers can be written, and the rest is FEA0 - FEFF.
THEOREM SameHolesThm == SameHoles
<1> SUFFICES ASSUME NEW a \in Address
             PROVE  /\ Reader(a) = "nullptr" <=> a \in Unused
                    /\ Writers(a) = {} <=> Reader(a) = "nullptr"
  BY DEF SameHoles
<1>1. a \in Int /\ 0 <= a /\ a <= 65535
  BY AddressMembers, SMT
<1>2. ASSUME a <= 65023
      PROVE  Reader(a) # "nullptr" /\ Writers(a) # {}
  BY <1>1, <1>2, FirstTable, SMT
<1>3. ASSUME 65024 <= a
      PROVE  /\ Reader(a) = "nullptr" <=> 65184 <= a /\ a <= 65279
             /\ Writers(a) = {} <=> 65184 <= a /\ a <= 65279
  BY <1>3, SecondTable, SMT
<1>4. a \in Unused <=> 65184 <= a /\ a <= 65279
  BY <1>1, SMT DEF Unused
<1>5. Reader(a) = "nullptr" <=> 65184 <= a /\ a <= 65279
  BY <1>1, <1>2, <1>3, SMT
<1>6. Writers(a) = {} <=> 65184 <= a /\ a <= 65279
  BY <1>1, <1>2, <1>3, SMT
<1> QED
  BY <1>4, <1>5, <1>6

\* The second list has no row that enters the bridge again.
LEMMA NoEchoBehind ==
  ASSUME NEW a \in Address, 65024 <= a
  PROVE  "ECHO" \notin Writers(a)
<1>1. Writers(a) = {SecondLevelWrites[i].handler : i \in WriteRows(a)}
  BY FirstTable, SMT
<1>2. ASSUME NEW i \in WriteRows(a) PROVE SecondLevelWrites[i].handler # "ECHO"
  <2>1. i \in 1 .. 16
    BY WriteRowsAre, SMT
  <2>2. i \in {1, 2, 3, 4, 5, 6, 7, 8, 9, 10, 11, 12, 13, 14, 15, 16}
    BY <2>1, SMT
  <2> QED
    BY <2>2, WriteHandlers, SMT
<1> QED
  BY <1>1, <1>2, SMT

\* An access to the echo of work RAM reaches work RAM in one more call.
THEOREM EchoIsWorkRamThm == EchoIsWorkRam
<1> SUFFICES ASSUME NEW a \in Address, Reader(a) = "ECHO" \/ "ECHO" \in Writers(a)
             PROVE  a - EchoDistance \in Address /\ Reader(a - EchoDistance) = "WRAM" /\ Writers(a - EchoDistance) = {"WRAM"}
  BY DEF EchoIsWorkRam
<1>1. a \in Int /\ 0 <= a /\ a <= 65535
  BY AddressMembers, SMT
<1>2. 57344 <= a /\ a <= 65023
  <2>1. a <= 65023
    BY <1>1, SecondTable, NoEchoBehind, SMT
  <2> QED
    BY <1>1, <2>1, FirstTable, SMT
<1>3. a - EchoDistance \in Address /\ 49152 <= a - EchoDistance /\ a - EchoDistance <= 57343
  BY <1>1, <1>2, AddressMembers, SMT DEF EchoDistance
<1> QED
  BY <1>3, FirstTable, SMT

\* The joypad, the memory controller and the boot ROM's latch are told of a write
\* when the register is stored already, and of no other.
THEOREM StoredBeforeNotifiedThm == StoredBeforeNotified
<1> SUFFICES ASSUME NEW a \in Address, NEW j \in WriteRows(a)
             PROVE  /\ SecondLevelWrites[j].handler \in Notified <=> \E i \in WriteRows(a) : i < j
                    /\ \A i \in WriteRows(a) : i < j => SecondLevelWrites[i].handler \notin Notified
  BY SMT DEF StoredBeforeNotified
<1>1. a \in Int
  BY AddressMembers, SMT
<1>2. \A i \in WriteRows(a) : i \in {1, 2, 3, 4, 5, 6, 7, 8, 9, 10, 11, 12, 13, 14, 15, 16}
  <2>1. \A i \in 1 .. 16 : i \in {1, 2, 3, 4, 5, 6, 7, 8, 9, 10, 11, 12, 13, 14, 15, 16}
    BY SMT
  <2> QED
    BY <2>1, WriteRowsAre
<1>3. \A i \in WriteRows(a) : SecondLevelWrites[i].handler \in Notified <=> i \in {5, 7, 16}
  BY <1>2, WriteHandlers, SMT DEF Notified
<1>4. \A i \in WriteRows(a) : i < j => j \in {5, 7, 16}
  BY <1>1, <1>2, WriteRowsAre, SMT
<1>5. j \in {5, 7, 16} => \E i \in {4, 6, 14} : i \in WriteRows(a) /\ i < j
  BY <1>1, WriteRowsAre, SMT
<1>6. \A i \in WriteRows(a) : i < j => i \notin {5, 7, 16}
  BY <1>1, <1>2, WriteRowsAre, SMT
<1> QED
  BY <1>3, <1>4, <1>5, <1>6, SMT

\* HardwareRegisters is never asked to store a register of the APU, and a write to a
\* cartridge's ROM reaches its bank registers alone.
THEOREM OwnersAreAskedThm == OwnersAreAsked
<1> SUFFICES ASSUME NEW a \in Address
             PROVE  /\ "HardwareRegister" \in Writers(a) => ~Fatal(a)
                    /\ a \in AudioRegisters => {Component(h) : h \in Writers(a)} = {"apu"}
                    /\ a <= LastRom => Writers(a) \subseteq {"ROM0", "ROM1"}
  BY DEF OwnersAreAsked
<1>1. a \in Int /\ 0 <= a /\ a <= 65535
  BY AddressMembers, SMT
<1>2. ASSUME a <= LastRom PROVE Writers(a) \subseteq {"ROM0", "ROM1"}
  <2>1. a <= 32767
    BY <1>2, SMT DEF LastRom
  <2> QED
    BY <1>1, <2>1, FirstTable, SMT
<1>3. ASSUME 65296 <= a, a <= 65343 PROVE Writers(a) = {"Audio"}
  <2>1. 13 \in WriteRows(a)
    BY <1>3, WriteRowsAre, SMT
  <2>2. ASSUME NEW i \in WriteRows(a) PROVE i = 13
    <3>1. i \in 1 .. 16
      BY WriteRowsAre, SMT
    <3>2. i \in {1, 2, 3, 4, 5, 6, 7, 8, 9, 10, 11, 12, 13, 14, 15, 16}
      BY <3>1, SMT
    <3> QED
      BY <1>1, <1>3, <3>2, WriteRowsAre, SMT
  <2>3. Writers(a) = {SecondLevelWrites[i].handler : i \in WriteRows(a)}
    BY <1>1, <1>3, FirstTable, SMT
  <2> QED
    BY <2>1, <2>2, <2>3, WriteHandlers, SMT
<1>4. a \in AudioRegisters => 65296 <= a /\ a <= 65343
  BY <1>1, SMT DEF AudioRegisters
<1>5. Component("Audio") = "apu"
  BY SMT DEF Component
<1>6. Fatal(a) => a \in AudioRegisters
  BY SMT DEF Fatal
<1>7. a \in AudioRegisters => Writers(a) = {"Audio"}
  BY <1>3, <1>4
<1>8. a \in AudioRegisters => {Component(h) : h \in Writers(a)} = {"apu"}
  BY <1>5, <1>7, SMT
<1> QED
  BY <1>2, <1>6, <1>7, <1>8, SMT
=============================================================================
