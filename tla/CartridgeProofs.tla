---------------------------- MODULE CartridgeProofs ----------------------------
(***************************************************************************)
(* Cartridge for every set of cartridges and every width of the counters:  *)
(* the bank pointers, and the promise that battery RAM is at most Interval *)
(* ticks younger than its file.                                            *)
(***************************************************************************)
EXTENDS Cartridge, TLAPS

-----------------------------------------------------------------------------
\* A multiple of m that is not negative is at least m.
LEMMA AtLeastOnce ==
  ASSUME NEW m \in Nat \ {0}, NEW d \in Int, d >= 1
  PROVE  m * d >= m
OBVIOUS

\* Division with remainder has one remainder.
LEMMA RemainderIsUnique ==
  ASSUME NEW m \in Nat \ {0}, NEW q \in Int, NEW r \in 0 .. m - 1
  PROVE  (m * q + r) % m = r
<1> DEFINE n == m * q + r
           p == n \div m
           s == n % m
<1>1. n \in Int
  OBVIOUS
<1>2. p \in Int /\ s \in 0 .. m - 1 /\ n = m * p + s
  BY <1>1
<1> HIDE DEF p, s
<1>3. m * q + r = m * p + s
  BY <1>2
<1>4. m * (p - q) = r - s /\ m * (q - p) = s - r
  <2>1. m * (p - q) = m * p - m * q /\ m * (q - p) = m * q - m * p
    BY <1>2
  <2>2. QED
    BY <1>2, <1>3, <2>1
<1>5. ~(p - q >= 1)
  BY <1>2, <1>4, AtLeastOnce
<1>6. ~(q - p >= 1)
  BY <1>2, <1>4, AtLeastOnce
<1>7. p = q
  BY <1>2, <1>5, <1>6
<1>8. s = r
  BY <1>2, <1>3, <1>7
<1>9. QED
  BY <1>8 DEF s

\* A remainder counts up with its number, and starts again at m.
LEMMA NextRemainder ==
  ASSUME NEW n \in Nat, NEW m \in Nat \ {0}
  PROVE  (n + 1) % m = IF n % m = m - 1 THEN 0 ELSE (n % m) + 1
<1> DEFINE q == n \div m
           r == n % m
<1>1. q \in Int /\ r \in 0 .. m - 1 /\ n = m * q + r
  OBVIOUS
<1> HIDE DEF q, r
<1>2. CASE r = m - 1
  <2>1. n + 1 = m * (q + 1) + 0
    BY <1>1, <1>2
  <2>2. q + 1 \in Int /\ 0 \in 0 .. m - 1
    BY <1>1
  <2>3. (m * (q + 1) + 0) % m = 0
    BY <2>2, RemainderIsUnique
  <2>4. (n + 1) % m = 0
    BY <2>1, <2>3
  <2>5. QED
    BY <1>2, <2>4 DEF r
<1>3. CASE r # m - 1
  <2>1. n + 1 = m * q + (r + 1) /\ r + 1 \in 0 .. m - 1
    BY <1>1, <1>3
  <2>2. (m * q + (r + 1)) % m = r + 1
    BY <1>1, <2>1, RemainderIsUnique
  <2>3. (n + 1) % m = r + 1
    BY <2>1, <2>2
  <2>4. QED
    BY <1>3, <2>3 DEF r
<1>4. QED
  BY <1>2, <1>3

\* A remainder is no greater than its number.
LEMMA RemainderIsLess ==
  ASSUME NEW n \in Nat, NEW m \in Nat \ {0}
  PROVE  n % m <= n
OBVIOUS

-----------------------------------------------------------------------------
\* The ticks that an unsaved bank may have waited: those since the count that
\* last allowed a save.
Window == IF ticks % Interval = 0 THEN Interval ELSE ticks % Interval

\* Unless RAM came from elsewhere, the file exists and lacks only recent writes.
SavedSoon ==
  HasBattery(cart) /\ ~behind =>
    /\ file # None
    /\ \A b \in Kept(cart) : file[b] = ram[b] \/ (dirty /\ since[b] < Window)

IInv == TypeOK /\ MapIsCurrent /\ SavedSoon

\* What a cartridge's bank counts are.
LEMMA CartFacts ==
  ASSUME NEW c \in Carts
  PROVE  /\ c.rom \in Nat /\ c.rom >= 2 /\ c.ram \in Nat /\ c.ram <= RamSlots
         /\ RomType(c) \in RomTypes
         /\ RomType(c) = "MBC5" => c.ram > 0
         /\ HighSize[RomType(c)] <= RamSlots
BY CartridgeAssumption DEF Cart, PowersOfTwo, RomType, RomTypes

LEMMA ConstantFacts ==
  /\ ByteSize \in Nat /\ ByteSize >= 2
  /\ RamSlots \in Nat \ {0} /\ RamSelectSize \in Nat \ {0}
  /\ Interval \in Nat \ {0} /\ TickSize \in Nat \ {0}
  /\ \A t \in RomTypes : LowSize[t] \in Nat /\ LowSize[t] >= 2 /\ HighSize[t] \in Nat \ {0}
BY CartridgeAssumption DEF PowersOfTwo

\* A masked value stays below the count, if there is one, and below itself.
LEMMA MaskedFacts ==
  ASSUME NEW x \in Nat, NEW count \in Nat
  PROVE  /\ Masked(x, count) \in Nat /\ Masked(x, count) <= x
         /\ count > 0 => Masked(x, count) < count
<1> DEFINE w == IF count \in 1 .. ByteSize THEN count ELSE ByteSize
<1>1. w \in Nat \ {0} /\ (count > 0 => w <= count)
  BY ConstantFacts
<1> HIDE DEF w
<1>2. x % w \in 0 .. w - 1 /\ x % w <= x
  BY <1>1, RemainderIsLess
<1>3. Masked(x, count) = x % w
  BY DEF Masked, w
<1>4. QED
  BY <1>1, <1>2, <1>3

LEMMA ProductIsNatural ==
  ASSUME NEW a \in Nat, NEW b \in Nat
  PROVE  a * b \in Nat
OBVIOUS

\* Every value the registers can have selects banks that exist.
LEMMA MappedFacts ==
  ASSUME NEW c \in Carts, NEW r \in Registers(RomType(c))
  PROVE  /\ Mapped(c, r).rom0 \in Nat /\ Mapped(c, r).rom0 < c.rom
         /\ Mapped(c, r).rom1 \in Nat /\ Mapped(c, r).rom1 < c.rom
         /\ Mapped(c, r).ram \in Slots
<1>1. /\ RomType(c) \in RomTypes /\ c.rom \in Nat /\ c.rom >= 2 /\ c.ram \in Nat /\ c.ram <= RamSlots
      /\ RomType(c) = "MBC5" => c.ram > 0
      /\ HighSize[RomType(c)] <= RamSlots
  BY CartFacts
<1>2. /\ LowSize["MBC1"] \in Nat /\ LowSize["MBC5"] \in Nat /\ LowSize[RomType(c)] \in Nat
      /\ HighSize[RomType(c)] \in Nat /\ RamSelectSize \in Nat /\ RamSlots \in Nat
  BY <1>1, ConstantFacts DEF RomTypes
<1>3. /\ r.bank1 \in Nat /\ r.bank2 \in Nat /\ r.bank2 < HighSize[RomType(c)] /\ r.bankRAM \in Nat
  BY <1>2 DEF Registers
<1>4. Rom0(c, r) \in Nat /\ Rom0(c, r) < c.rom
  <2> DEFINE x == r.bank2 * LowSize["MBC1"]
             m == Masked(x, c.rom)
  <2>1. x \in Nat
    BY <1>2, <1>3, ProductIsNatural
  <2>3. Rom0(c, r) = m \/ Rom0(c, r) = 0
    BY DEF Rom0
  <2> HIDE DEF x
  <2>2. c.rom \in Nat /\ c.rom > 0
    BY <1>1
  <2>4. m \in Nat /\ m < c.rom
    BY <2>1, <2>2, MaskedFacts
  <2> HIDE DEF m
  <2>5. QED
    BY <2>2, <2>3, <2>4
<1>5. Rom1(c, r) \in Nat /\ Rom1(c, r) < c.rom
  <2> DEFINE low == LowSize[IF RomType(c) = "MBC5" THEN "MBC5" ELSE "MBC1"]
  <2>1. low \in Nat
    BY <1>2
  <2> HIDE DEF low
  <2>2. r.bank2 * low \in Nat
    BY <1>3, <2>1, ProductIsNatural
  <2>3. r.bank2 * low + r.bank1 \in Nat
    BY <1>3, <2>2
  <2>4. Rom1(c, r) = Masked(r.bank2 * low + r.bank1, c.rom)
    BY DEF Rom1, low
  <2>5. c.rom \in Nat /\ c.rom > 0
    BY <1>1
  <2>6. QED
    BY <2>3, <2>4, <2>5, MaskedFacts
<1>6. Ram0(c, r) \in Slots
  <2>1. CASE RomType(c) = "MBC5"
    <3> DEFINE m == Masked(r.bankRAM, c.ram)
    <3>1. m \in Nat /\ m < c.ram
      <4>1. c.ram > 0 /\ c.ram \in Nat /\ r.bankRAM \in Nat
        BY <1>1, <1>3, <2>1
      <4>2. Masked(r.bankRAM, c.ram) \in Nat /\ Masked(r.bankRAM, c.ram) < c.ram
        BY <4>1, MaskedFacts
      <4>3. QED
        BY <4>2
    <3>2. Ram0(c, r) = m
      BY <2>1 DEF Ram0
    <3> HIDE DEF m
    <3>3. QED
      BY <1>1, <1>2, <3>1, <3>2 DEF Slots
  <2>2. CASE RomType(c) # "MBC5"
    <3> DEFINE m == Masked(r.bank2, c.ram)
    <3>1. m \in Nat /\ m <= r.bank2
      BY <1>1, <1>3, MaskedFacts
    <3>2. Ram0(c, r) = m \/ Ram0(c, r) = 0
      BY <2>2 DEF Ram0
    <3> HIDE DEF m
    <3>3. QED
      BY <1>1, <1>2, <1>3, <3>1, <3>2 DEF Slots
  <2>3. QED
    BY <2>1, <2>2
<1>7. QED
  BY <1>4, <1>5, <1>6 DEF Mapped

\* The registers a new controller has select the banks its pointers start with.
LEMMA PowerOnFacts ==
  ASSUME NEW c \in Carts
  PROVE  /\ PowerOn \in Registers(RomType(c))
         /\ Mapped(c, PowerOn) = [rom0 |-> 0, rom1 |-> 1, ram |-> 0]
<1>1. c.rom \in Nat /\ c.rom >= 2 /\ c.ram \in Nat /\ RomType(c) \in RomTypes
  BY CartFacts
<1>2. PowerOn \in Registers(RomType(c))
  BY <1>1, ConstantFacts DEF PowerOn, Registers
<1>3. Rom0(c, PowerOn) = 0
  BY DEF Rom0, PowerOn
<1>4. Rom1(c, PowerOn) = 1
  <2> DEFINE low == LowSize[IF RomType(c) = "MBC5" THEN "MBC5" ELSE "MBC1"]
             w == IF c.rom \in 1 .. ByteSize THEN c.rom ELSE ByteSize
  <2>1. low \in Nat
    BY ConstantFacts DEF RomTypes
  <2>2. w \in Nat \ {0} /\ w >= 2
    BY <1>1, ConstantFacts
  <2> HIDE DEF low, w
  <2>3. 0 * low + 1 = 1 /\ w * 0 + 1 = 1
    BY <2>1, <2>2
  <2>4. (w * 0 + 1) % w = 1
    BY <2>2, RemainderIsUnique
  <2>5. Rom1(c, PowerOn) = (0 * low + 1) % w
    BY DEF Rom1, PowerOn, Masked, low, w
  <2>6. QED
    BY <2>3, <2>4, <2>5
<1>5. Ram0(c, PowerOn) = 0
  <2>1. Masked(0, c.ram) = 0
    BY <1>1, MaskedFacts
  <2>2. QED
    BY <2>1 DEF Ram0, PowerOn
<1>6. QED
  BY <1>2, <1>3, <1>4, <1>5 DEF Mapped

\* Loaded gives RAM, and the file's banks where there is a file to give them.
LEMMA LoadedFacts ==
  ASSUME NEW c \in Carts, NEW f, NEW r \in Loaded(c, f)
  PROVE  /\ r \in Ram
         /\ HasBattery(c) /\ f # None => \A b \in Kept(c) : f[b] = r[b]
BY DEF Loaded

-----------------------------------------------------------------------------
\* A fresh controller satisfies the invariant with whatever file it finds.
LEMMA FreshIsFine ==
  ASSUME NEW c \in Carts, NEW f \in Files(c), NEW r \in Loaded(c, f),
         NEW b, b = [rom0 |-> 0, rom1 |-> 1, ram |-> 0]
  PROVE  /\ b = Mapped(c, PowerOn)
         /\ b.rom0 \in Nat /\ b.rom1 \in Nat /\ b.ram \in Slots
         /\ b.rom0 < c.rom /\ b.rom1 < c.rom
         /\ PowerOn \in Registers(RomType(c)) /\ r \in Ram
         /\ HasBattery(c) /\ f # None => \A k \in Kept(c) : f[k] = r[k]
BY PowerOnFacts, MappedFacts, LoadedFacts

LEMMA InitIInv == Init => IInv
<1> SUFFICES ASSUME Init PROVE IInv
  OBVIOUS
<1>1. /\ cart \in Carts /\ file \in Files(cart) /\ ram \in Loaded(cart, file)
      /\ reg = PowerOn /\ bank = [rom0 |-> 0, rom1 |-> 1, ram |-> 0]
      /\ dirty = FALSE /\ ticks = 0 /\ since = [b \in Slots |-> Interval]
      /\ behind = (file = None)
  BY DEF Init
<1>2. /\ bank = Mapped(cart, reg)
      /\ bank.rom0 \in Nat /\ bank.rom1 \in Nat /\ bank.ram \in Slots
      /\ bank.rom0 < cart.rom /\ bank.rom1 < cart.rom
      /\ reg \in Registers(RomType(cart)) /\ ram \in Ram
      /\ HasBattery(cart) /\ file # None => \A k \in Kept(cart) : file[k] = ram[k]
  BY <1>1, FreshIsFine
<1>3. TypeOK
  <2>1. 0 \in 0 .. TickSize - 1 /\ Interval \in 0 .. Interval
    BY ConstantFacts
  <2>2. since \in [Slots -> 0 .. Interval]
    BY <1>1, <2>1
  <2>3. dirty \in BOOLEAN /\ behind \in BOOLEAN
    BY <1>1
  <2>4. QED
    BY <1>1, <1>2, <2>1, <2>2, <2>3 DEF TypeOK
<1>4. MapIsCurrent
  BY <1>2 DEF MapIsCurrent
<1>5. SavedSoon
  BY <1>1, <1>2 DEF SavedSoon
<1>6. QED
  BY <1>3, <1>4, <1>5 DEF IInv

\* Opening the game again, whatever the file has become.
LEMMA BootKeeps ==
  ASSUME IInv, NEW f \in Files(cart), Boot(f)
  PROVE  IInv'
<1>1. /\ cart \in Carts /\ cart' = cart /\ file' = f /\ ram' \in Loaded(cart, f)
      /\ reg' = PowerOn /\ bank' = [rom0 |-> 0, rom1 |-> 1, ram |-> 0]
      /\ dirty' = FALSE /\ ticks' = 0 /\ since' = [b \in Slots |-> Interval]
      /\ behind' = (f = None)
  BY DEF Boot, IInv, TypeOK
<1>2. /\ bank' = Mapped(cart, reg')
      /\ bank'.rom0 \in Nat /\ bank'.rom1 \in Nat /\ bank'.ram \in Slots
      /\ bank'.rom0 < cart.rom /\ bank'.rom1 < cart.rom
      /\ reg' \in Registers(RomType(cart)) /\ ram' \in Ram
      /\ HasBattery(cart) /\ f # None => \A k \in Kept(cart) : f[k] = ram'[k]
  BY <1>1, FreshIsFine
<1>3. TypeOK'
  <2>1. 0 \in 0 .. TickSize - 1 /\ Interval \in 0 .. Interval
    BY ConstantFacts
  <2>2. since' \in [Slots -> 0 .. Interval]
    BY <1>1, <2>1
  <2>3. dirty' \in BOOLEAN /\ behind' \in BOOLEAN
    BY <1>1
  <2>4. QED
    BY <1>1, <1>2, <2>1, <2>2, <2>3 DEF TypeOK
<1>4. MapIsCurrent'
  BY <1>1, <1>2 DEF MapIsCurrent
<1>5. SavedSoon'
  BY <1>1, <1>2 DEF SavedSoon
<1>6. QED
  BY <1>3, <1>4, <1>5 DEF IInv

\* Every write to a bank register ends with the pointers refreshed.
LEMMA SetRegistersKeeps ==
  ASSUME IInv, NEW r \in Registers(RomType(cart)), SetRegisters(r)
  PROVE  IInv'
<1>1. /\ reg' = r /\ bank' = Mapped(cart, r)
      /\ UNCHANGED <<cart, ram, dirty, ticks, file, since, behind>>
  BY DEF SetRegisters
<1>2. cart \in Carts
  BY DEF IInv, TypeOK
<1>3. /\ bank'.rom0 \in Nat /\ bank'.rom1 \in Nat /\ bank'.ram \in Slots
      /\ bank'.rom0 < cart.rom /\ bank'.rom1 < cart.rom
  BY <1>1, <1>2, MappedFacts
<1>4. TypeOK'
  BY <1>1, <1>3 DEF IInv, TypeOK
<1>5. MapIsCurrent'
  BY <1>1, <1>3 DEF MapIsCurrent
<1>6. SavedSoon'
  BY <1>1 DEF IInv, SavedSoon, Window
<1>7. QED
  BY <1>4, <1>5, <1>6 DEF IInv

\* The five registers stay within their masks.
LEMMA RegisterWritesFit ==
  ASSUME TypeOK, NEW v \in 0 .. ByteSize - 1, NEW on \in BOOLEAN
  PROVE  LET t == RomType(cart)
             low == v % LowSize[t]
         IN  /\ [reg EXCEPT !.enabled = on] \in Registers(t)
             /\ [reg EXCEPT !.mode = on] \in Registers(t)
             /\ [reg EXCEPT !.bank1 = IF t # "MBC5" /\ low = 0 THEN 1 ELSE low] \in Registers(t)
             /\ [reg EXCEPT !.bank2 = v % HighSize[t]] \in Registers(t)
             /\ [reg EXCEPT !.bankRAM = v % RamSelectSize] \in Registers(t)
<1> DEFINE t == RomType(cart)
           low == v % LowSize[t]
           one == IF t # "MBC5" /\ low = 0 THEN 1 ELSE low
<1>1. cart \in Carts /\ reg \in Registers(t)
  BY DEF TypeOK
<1>2. t \in RomTypes
  BY <1>1, CartFacts
<1>3. v \in Nat
  BY ConstantFacts
<1>4. /\ LowSize[t] \in Nat /\ LowSize[t] >= 2 /\ HighSize[t] \in Nat \ {0}
      /\ RamSelectSize \in Nat \ {0}
  BY <1>2, ConstantFacts
<1>5. low \in 0 .. LowSize[t] - 1
  BY <1>3, <1>4
<1>6. one \in 0 .. LowSize[t] - 1
  BY <1>4, <1>5
<1>7. v % HighSize[t] \in 0 .. HighSize[t] - 1
  BY <1>3, <1>4
<1>8. v % RamSelectSize \in 0 .. RamSelectSize - 1
  BY <1>3, <1>4
<1> HIDE DEF t, low, one
<1>9. [reg EXCEPT !.bank1 = one] \in Registers(t)
  BY <1>1, <1>6 DEF Registers
<1>10. [reg EXCEPT !.bank2 = v % HighSize[t]] \in Registers(t)
  BY <1>1, <1>7 DEF Registers
<1>11. [reg EXCEPT !.bankRAM = v % RamSelectSize] \in Registers(t)
  BY <1>1, <1>8 DEF Registers
<1>12. [reg EXCEPT !.enabled = on] \in Registers(t) /\ [reg EXCEPT !.mode = on] \in Registers(t)
  BY <1>1 DEF Registers
<1>13. QED
  BY <1>9, <1>10, <1>11, <1>12 DEF t, low, one

-----------------------------------------------------------------------------
\* A write lands in a bank that exists and makes the RAM dirty.
LEMMA WriteRamKeeps ==
  ASSUME IInv, NEW v \in Contents, WriteRam(v)
  PROVE  IInv'
<1>1. /\ ram' = [ram EXCEPT ![bank.ram] = v] /\ dirty' = TRUE
      /\ since' = [since EXCEPT ![bank.ram] = 0]
      /\ UNCHANGED <<cart, reg, bank, ticks, file, behind>>
  BY DEF WriteRam
<1>2. Interval \in Nat \ {0} /\ 0 \in 0 .. Interval
  BY ConstantFacts
<1>3. TypeOK'
  BY <1>1, <1>2 DEF IInv, TypeOK, Ram
<1>4. MapIsCurrent'
  BY <1>1 DEF IInv, MapIsCurrent
<1>5. SavedSoon'
  <2> SUFFICES ASSUME HasBattery(cart), ~behind
               PROVE  /\ file # None
                      /\ \A b \in Kept(cart) :
                           file[b] = ram'[b] \/ since'[b] < Window
    BY <1>1 DEF SavedSoon, Window
  <2>1. ticks \in Nat
    BY ConstantFacts DEF IInv, TypeOK
  <2>2. Window \in Nat /\ Window > 0
    <3>1. ticks % Interval \in Nat
      BY <1>2, <2>1
    <3>2. QED
      BY <1>2, <3>1 DEF Window
  <2>3. Kept(cart) \subseteq Slots
    <3>1. cart.ram \in Nat /\ cart.ram <= RamSlots /\ RamSlots \in Nat
      BY CartFacts, ConstantFacts DEF IInv, TypeOK
    <3>2. QED
      BY <3>1 DEF Kept, Slots
  <2>4. file # None /\ \A b \in Kept(cart) : file[b] = ram[b] \/ since[b] < Window
    BY DEF IInv, SavedSoon
  <2>5. ASSUME NEW b \in Kept(cart) PROVE file[b] = ram'[b] \/ since'[b] < Window
    <3>1. b \in Slots /\ ram \in [Slots -> Contents] /\ since \in [Slots -> 0 .. Interval]
      BY <2>3 DEF IInv, TypeOK, Ram
    <3>2. CASE b = bank.ram
      BY <1>1, <2>2, <3>1, <3>2
    <3>3. CASE b # bank.ram
      BY <1>1, <2>4, <3>1, <3>3
    <3>4. QED
      BY <3>2, <3>3
  <2>6. QED
    BY <2>4, <2>5
<1>6. QED
  BY <1>3, <1>4, <1>5 DEF IInv

\* Time passes, the RAM counts as saved or not: types and pointers are kept.
LEMMA AgedKeeps ==
  ASSUME IInv, Aged, dirty' \in BOOLEAN, behind' \in BOOLEAN, file' \in Files(cart)
  PROVE  TypeOK' /\ MapIsCurrent'
<1>1. /\ ticks' = IF dirty THEN (ticks + 1) % TickSize ELSE ticks
      /\ since' = [b \in Slots |-> IF since[b] < Interval THEN since[b] + 1 ELSE Interval]
      /\ UNCHANGED <<cart, reg, bank, ram>>
  BY DEF Aged
<1>2. Interval \in Nat \ {0} /\ TickSize \in Nat \ {0}
  BY ConstantFacts
<1>3. ticks \in 0 .. TickSize - 1 /\ since \in [Slots -> 0 .. Interval]
  BY DEF IInv, TypeOK
<1>4. ticks' \in 0 .. TickSize - 1
  <2>1. (ticks + 1) % TickSize \in 0 .. TickSize - 1
    BY <1>2, <1>3
  <2>2. QED
    BY <1>1, <1>3, <2>1
<1>5. since' \in [Slots -> 0 .. Interval]
  BY <1>1, <1>2, <1>3
<1>6. QED
  BY <1>1, <1>4, <1>5 DEF IInv, TypeOK, MapIsCurrent

\* While a save is not due, an unsaved bank ages no faster than the window grows;
\* when the count reaches the next multiple, or wraps, the window is at its widest.
LEMMA WindowGrows ==
  ASSUME IInv, Aged, dirty, ticks % Interval # 0,
         NEW b \in Slots, since[b] < Window
  PROVE  since'[b] < Window'
<1>1. Interval \in Nat \ {0} /\ TickSize \in Nat \ {0}
  BY ConstantFacts
<1>2. ticks \in Nat /\ ticks < TickSize /\ since[b] \in Nat
  BY <1>1 DEF IInv, TypeOK
<1> DEFINE d == ticks % Interval
<1>3. d \in 1 .. Interval - 1
  BY <1>1, <1>2
<1>4. Window = d
  BY DEF Window
<1> HIDE DEF d
<1>5. since'[b] = since[b] + 1 /\ since[b] + 1 <= d
  BY <1>1, <1>2, <1>3, <1>4 DEF Aged
<1>6. ticks' = (ticks + 1) % TickSize
  BY DEF Aged
<1>7. CASE ticks + 1 = TickSize
  <2>1. ticks % TickSize = TickSize - 1
    <3>1. ticks = TickSize * 0 + ticks /\ ticks \in 0 .. TickSize - 1
      BY <1>1, <1>2
    <3>2. (TickSize * 0 + ticks) % TickSize = ticks
      BY <1>1, <3>1, RemainderIsUnique
    <3>3. QED
      BY <1>1, <1>2, <1>7, <3>1, <3>2
  <2>2. ticks' = 0
    BY <1>1, <1>2, <1>6, <2>1, NextRemainder
  <2>3. 0 % Interval = 0
    BY <1>1
  <2>4. Window' = Interval
    BY <2>2, <2>3 DEF Window
  <2>5. QED
    BY <1>1, <1>2, <1>3, <1>5, <2>4
<1>8. CASE ticks + 1 < TickSize
  <2>1. ticks' = ticks + 1
    <3>1. ticks + 1 = TickSize * 0 + (ticks + 1) /\ ticks + 1 \in 0 .. TickSize - 1
      BY <1>1, <1>2, <1>8
    <3>2. (TickSize * 0 + (ticks + 1)) % TickSize = ticks + 1
      BY <1>1, <3>1, RemainderIsUnique
    <3>3. QED
      BY <1>6, <3>1, <3>2
  <2>2. ticks' % Interval = IF d = Interval - 1 THEN 0 ELSE d + 1
    BY <1>1, <1>2, <2>1, NextRemainder DEF d
  <2>3. Window' = d + 1
    BY <1>1, <1>3, <2>2 DEF Window
  <2>4. QED
    BY <1>2, <1>3, <1>5, <2>3
<1>9. QED
  BY <1>1, <1>2, <1>7, <1>8

LEMMA TickKeeps == IInv /\ Tick => IInv'
<1> SUFFICES ASSUME IInv, Tick PROVE IInv'
  OBVIOUS
<1>1. Kept(cart) \subseteq Slots
  <2>1. cart.ram \in Nat /\ cart.ram <= RamSlots /\ RamSlots \in Nat
    BY CartFacts, ConstantFacts DEF IInv, TypeOK
  <2>2. QED
    BY <2>1 DEF Kept, Slots
<1>2. CASE TickOnly
  <2>1. Aged /\ ~Due /\ UNCHANGED <<dirty, file, behind>> /\ UNCHANGED <<cart, ram>>
    BY <1>2 DEF TickOnly, Aged
  <2>2. TypeOK' /\ MapIsCurrent'
    BY <2>1, AgedKeeps DEF IInv, TypeOK
  <2>3. ASSUME HasBattery(cart), ~behind
        PROVE  /\ file # None
               /\ \A b \in Kept(cart) : file[b] = ram[b] \/ (dirty /\ since'[b] < Window')
    <3>1. /\ file # None
          /\ \A b \in Kept(cart) : file[b] = ram[b] \/ (dirty /\ since[b] < Window)
      BY <2>3 DEF IInv, SavedSoon
    <3>2. dirty => ticks % Interval # 0
      BY <2>1, <2>3 DEF Due
    <3>3. ASSUME NEW b \in Kept(cart), dirty, since[b] < Window
          PROVE  since'[b] < Window'
      BY <1>1, <2>1, <3>2, <3>3, WindowGrows
    <3>4. QED
      BY <3>1, <3>3
  <2>4. SavedSoon'
    BY <2>1, <2>3 DEF SavedSoon
  <2>5. QED
    BY <2>2, <2>4 DEF IInv
<1>3. CASE TickSave
  <2>1. /\ Aged /\ file' = [b \in Kept(cart) |-> ram[b]] /\ dirty' = FALSE /\ behind' = FALSE
        /\ UNCHANGED <<cart, ram>>
    BY <1>3 DEF TickSave, Aged
  <2>2. file' \in [Kept(cart) -> Contents]
    BY <1>1, <2>1 DEF IInv, TypeOK, Ram
  <2>3. file' # None
    BY <2>2, CartridgeAssumption DEF IInv, TypeOK
  <2>4. TypeOK' /\ MapIsCurrent'
    BY <2>1, <2>2, AgedKeeps DEF Files
  <2>5. SavedSoon'
    BY <2>1, <2>3 DEF SavedSoon
  <2>6. QED
    BY <2>4, <2>5 DEF IInv
<1>4. CASE TickSaveFails
  <2>1. Aged /\ file' \in {file, None} /\ dirty' = FALSE /\ behind' = TRUE
    BY <1>4 DEF TickSaveFails
  <2>2. file' \in Files(cart)
    BY <2>1 DEF IInv, TypeOK, Files
  <2>3. TypeOK' /\ MapIsCurrent'
    BY <2>1, <2>2, AgedKeeps
  <2>4. SavedSoon'
    BY <2>1 DEF SavedSoon
  <2>5. QED
    BY <2>3, <2>4 DEF IInv
<1>5. QED
  BY <1>2, <1>3, <1>4 DEF Tick

\* A loaded state brings its own RAM, of which nothing is promised.
LEMMA LoadStateKeeps ==
  ASSUME IInv, NEW s \in Snapshots, LoadState(s)
  PROVE  IInv'
<1>1. /\ s.cart = cart /\ reg' = s.reg /\ ram' = s.ram /\ ticks' = s.ticks
      /\ bank' = Mapped(cart, s.reg) /\ dirty' = FALSE /\ behind' = TRUE
      /\ since' = [b \in Slots |-> Interval]
      /\ UNCHANGED <<cart, file>>
  BY DEF LoadState
<1>2. /\ s.reg \in Registers(RomType(cart)) /\ s.ram \in Ram
      /\ s.ticks \in 0 .. TickSize - 1 /\ cart \in Carts
  BY <1>1, CartridgeAssumption
<1>3. /\ bank'.rom0 \in Nat /\ bank'.rom1 \in Nat /\ bank'.ram \in Slots
      /\ bank'.rom0 < cart.rom /\ bank'.rom1 < cart.rom
  BY <1>1, <1>2, MappedFacts
<1>4. since' \in [Slots -> 0 .. Interval]
  BY <1>1, ConstantFacts
<1>5. TypeOK'
  BY <1>1, <1>2, <1>3, <1>4 DEF IInv, TypeOK
<1>6. MapIsCurrent'
  BY <1>1, <1>3 DEF MapIsCurrent
<1>7. SavedSoon'
  BY <1>1 DEF SavedSoon
<1>8. QED
  BY <1>5, <1>6, <1>7 DEF IInv

LEMMA NextIInv == IInv /\ [Next]_vars => IInv'
<1> SUFFICES ASSUME IInv, [Next]_vars PROVE IInv'
  OBVIOUS
<1>1. TypeOK
  BY DEF IInv
<1>2. ASSUME NEW on \in BOOLEAN, EnableRam(on) PROVE IInv'
  <2>1. 0 \in 0 .. ByteSize - 1
    BY ConstantFacts
  <2>2. QED
    BY <1>1, <1>2, <2>1, RegisterWritesFit, SetRegistersKeeps DEF EnableRam
<1>3. ASSUME NEW on \in BOOLEAN, SetMode(on) PROVE IInv'
  <2>1. 0 \in 0 .. ByteSize - 1
    BY ConstantFacts
  <2>2. QED
    BY <1>1, <1>3, <2>1, RegisterWritesFit, SetRegistersKeeps DEF SetMode
<1>4. ASSUME NEW v \in 0 .. ByteSize - 1, SelectLow(v) PROVE IInv'
  BY <1>1, <1>4, RegisterWritesFit, SetRegistersKeeps DEF SelectLow
<1>5. ASSUME NEW v \in 0 .. ByteSize - 1, SelectHigh(v) PROVE IInv'
  BY <1>1, <1>5, RegisterWritesFit, SetRegistersKeeps DEF SelectHigh
<1>6. ASSUME NEW v \in 0 .. ByteSize - 1, SelectRam(v) PROVE IInv'
  BY <1>1, <1>6, RegisterWritesFit, SetRegistersKeeps DEF SelectRam
<1>7. CASE Open
  BY <1>1, <1>7, BootKeeps DEF Open, TypeOK
<1>8. CASE KilledInSave
  BY <1>8, BootKeeps DEF KilledInSave, Files
<1>9. CASE UNCHANGED vars
  <2>1. TypeOK' /\ MapIsCurrent'
    BY <1>9 DEF vars, IInv, TypeOK, MapIsCurrent
  <2>2. SavedSoon'
    BY <1>9 DEF vars, IInv, SavedSoon, Window
  <2>3. QED
    BY <2>1, <2>2 DEF IInv
<1>10. QED
  BY <1>2, <1>3, <1>4, <1>5, <1>6, <1>7, <1>8, <1>9, WriteRamKeeps, TickKeeps,
     LoadStateKeeps DEF Next

LEMMA Invariance == Spec => []IInv
BY InitIInv, NextIInv, PTL DEF Spec

-----------------------------------------------------------------------------
\* Every variable of the cartridge keeps its range (BankRegisters::write masks
\* what is written, whatever the bank counts are).
THEOREM TypeCorrect == Spec => []TypeOK
<1>1. IInv => TypeOK
  BY DEF IInv
<1>2. QED
  BY <1>1, Invariance, PTL

\* The cached bank pointers are current and point to banks the cartridge has
\* (refresh_bank_map, BankRegisters::get_rom0, get_rom1 and get_ram0).
THEOREM MapIsCurrentAlways == Spec => []MapIsCurrent
<1>1. IInv => MapIsCurrent
  BY DEF IInv
<1>2. QED
  BY <1>1, Invariance, PTL

\* What stood in battery RAM for Interval ticks comes back when the game is opened
\* again (MemoryController::tick, load_rom).
THEOREM SurvivesRestartAlways == Spec => SurvivesRestart
<1> DEFINE Survives ==
      Open /\ HasBattery(cart) /\ ~behind =>
        \A b \in Kept(cart) : since[b] = Interval => ram'[b] = ram[b]
<1>1. IInv => Survives
  <2> SUFFICES ASSUME IInv, Open, HasBattery(cart), ~behind,
                      NEW b \in Kept(cart), since[b] = Interval
               PROVE  ram'[b] = ram[b]
    OBVIOUS
  <2>1. file # None /\ (file[b] = ram[b] \/ (dirty /\ since[b] < Window))
    BY DEF IInv, SavedSoon
  <2>2. Window \in Nat /\ Window <= Interval
    <3>1. ticks \in Nat /\ Interval \in Nat \ {0}
      BY ConstantFacts DEF IInv, TypeOK
    <3>2. ticks % Interval \in 0 .. Interval - 1
      BY <3>1
    <3>3. QED
      BY <3>1, <3>2 DEF Window
  <2>3. file[b] = ram[b]
    BY <2>1, <2>2, ConstantFacts
  <2>4. file[b] = ram'[b]
    BY <2>1, LoadedFacts DEF Open, Boot, IInv, TypeOK
  <2>5. QED
    BY <2>3, <2>4
<1>2. QED
  BY <1>1, Invariance, PTL DEF SurvivesRestart
=============================================================================
