------------------------------- MODULE Cartridge -------------------------------
(***************************************************************************)
(* The cartridge: its bank registers (memory/bank_registers.cpp), the bank *)
(* pointers that cache them, and RAM kept in a file                        *)
(* (memory/memory_controller.{h,cpp}, rom/rom_loader.cpp).                 *)
(*                                                                         *)
(* A RAM bank is one value.  Opening covers a restart from the menu and a  *)
(* new process; between the two the old controller is simply dropped.      *)
(***************************************************************************)
EXTENDS Integers

CONSTANTS
  Carts,            \* cartridges: header bytes and bank counts
  ByteSize,         \* 2^8, the width of the bank masks
  LowSize,          \* values of bank1_ by ROMType: 2^5, 2^4, 2^8
  HighSize,         \* values of bank2_ by ROMType: 2^2, -, 2^1
  RamSelectSize,    \* values of bankRAM_: 2^4
  RamSlots,         \* banks in ramBanks_ (4)
  Contents,         \* contents of a RAM bank
  None,             \* no RAM file of the right size
  Interval,         \* RAM_SAVE_INTERVAL (20000)
  TickSize,         \* values of tickCount_ (2^32)
  Snapshots         \* save states of these cartridges that may be loaded

\* rom_type(): how the header's cartridge type selects the bank registers.
MBC1 == {0, 1, 2, 3}
MBC2 == {5, 6}
MBC5 == 25 .. 30
RomType(c) == IF c.code \in MBC1 THEN "MBC1" ELSE IF c.code \in MBC2 THEN "MBC2" ELSE "MBC5"
RomTypes == {"MBC1", "MBC2", "MBC5"}

\* has_battery().
HasBattery(c) == c.code \in {3, 9, 27, 30}

PowersOfTwo == {1, 2, 4, 8, 16, 32, 64, 128, 256, 512}
Cart == [code : MBC1 \union MBC2 \union MBC5, rom : PowersOfTwo \ {1}, ram : {0} \union PowersOfTwo]

\* The values of a register seen through a bank mask, count - 1 cut to a byte.
Masked(x, count) == x % (IF count \in 1 .. ByteSize THEN count ELSE ByteSize)

Slots == 0 .. RamSlots - 1
Kept(c) == 0 .. c.ram - 1                 \* the RAM banks the file holds
Ram == [Slots -> Contents]
Registers(t) ==
  [ bank1 : 0 .. LowSize[t] - 1, bank2 : 0 .. HighSize[t] - 1,
    bankRAM : 0 .. RamSelectSize - 1, mode : BOOLEAN, enabled : BOOLEAN ]

ASSUME CartridgeAssumption ==
  /\ Carts \subseteq Cart
  /\ ByteSize \in PowersOfTwo \ {1} /\ RamSlots \in Nat \ {0}
  /\ LowSize \in [RomTypes -> PowersOfTwo \ {1}] /\ HighSize \in [RomTypes -> PowersOfTwo]
  /\ RamSelectSize \in PowersOfTwo
  /\ \A c \in Carts : LET t == RomType(c)
                      IN  c.ram <= RamSlots /\ (t = "MBC5" => c.ram > 0) /\ HighSize[t] <= RamSlots
  /\ \A c \in Carts : None \notin [Kept(c) -> Contents]
  /\ Contents # {}
  /\ Interval \in Nat \ {0} /\ TickSize \in Nat \ {0}
  /\ \A s \in Snapshots : /\ s.cart \in Carts /\ s.reg \in Registers(RomType(s.cart))
                          /\ s.ram \in Ram /\ s.ticks \in 0 .. TickSize - 1

VARIABLES
  cart,             \* the cartridge, fixed
  reg,              \* BankRegisters
  bank,             \* the pointers ROMbank00_, ROMbankNN_ and RAMbank_
  ram,              \* ramBanks_
  dirty,            \* ramDirty_
  ticks,            \* tickCount_
  file,             \* the RAM file, or None
  since,            \* history: ticks since each RAM bank was written, up to Interval
  behind            \* history: RAM came from elsewhere, or a save failed

vars == <<cart, reg, bank, ram, dirty, ticks, file, since, behind>>

PowerOn == [bank1 |-> 1, bank2 |-> 0, bankRAM |-> 0, mode |-> FALSE, enabled |-> FALSE]

-----------------------------------------------------------------------------
Rom0(c, r) == IF r.mode THEN Masked(r.bank2 * LowSize["MBC1"], c.rom) ELSE 0
Rom1(c, r) ==
  Masked(r.bank2 * LowSize[IF RomType(c) = "MBC5" THEN "MBC5" ELSE "MBC1"] + r.bank1, c.rom)
Ram0(c, r) ==
  IF RomType(c) = "MBC5" THEN Masked(r.bankRAM, c.ram)
  ELSE IF r.mode THEN Masked(r.bank2, c.ram) ELSE 0

\* refresh_bank_map.
Mapped(c, r) == [rom0 |-> Rom0(c, r), rom1 |-> Rom1(c, r), ram |-> Ram0(c, r)]

\* What RAM may hold after load_rom: the file's banks if it has the right size;
\* the rest, and all without such a file, is memory that nothing initialises.
Loaded(c, f) ==
  IF HasBattery(c) /\ f # None
  THEN {r \in Ram : \A b \in Kept(c) : r[b] = f[b]}
  ELSE Ram

Files(c) == [Kept(c) -> Contents] \union {None}

Init ==
  /\ cart \in Carts
  /\ reg = PowerOn
  /\ bank = [rom0 |-> 0, rom1 |-> 1, ram |-> 0]
  /\ file \in Files(cart)
  /\ ram \in Loaded(cart, file)
  /\ dirty = FALSE /\ ticks = 0
  /\ since = [b \in Slots |-> Interval]
  /\ behind = (file = None)

-----------------------------------------------------------------------------
\* BankRegisters::write and the refresh behind it.
SetRegisters(r) ==
  /\ reg' = r
  /\ bank' = Mapped(cart, r)
  /\ UNCHANGED <<cart, ram, dirty, ticks, file, since, behind>>

EnableRam(on) == SetRegisters([reg EXCEPT !.enabled = on])

SelectLow(v) ==
  LET t == RomType(cart)
      low == v % LowSize[t]
  IN  SetRegisters([reg EXCEPT !.bank1 = IF t # "MBC5" /\ low = 0 THEN 1 ELSE low])

\* Mutant of SelectHigh: the value is not masked.
SelectHighUnmasked(v) ==
  /\ RomType(cart) # "MBC2"
  /\ SetRegisters([reg EXCEPT !.bank2 = v])

SelectHigh(v) ==
  /\ RomType(cart) # "MBC2"
  /\ SetRegisters([reg EXCEPT !.bank2 = v % HighSize[RomType(cart)]])

SelectRam(v) ==
  /\ RomType(cart) = "MBC5"
  /\ SetRegisters([reg EXCEPT !.bankRAM = v % RamSelectSize])

SetMode(on) ==
  /\ RomType(cart) = "MBC1"
  /\ SetRegisters([reg EXCEPT !.mode = on])

\* Mutant of WriteRam: the RAM does not become dirty.
WriteRamClean(v) ==
  /\ reg.enabled
  /\ ram' = [ram EXCEPT ![bank.ram] = v]
  /\ since' = [since EXCEPT ![bank.ram] = 0]
  /\ UNCHANGED <<cart, reg, bank, dirty, ticks, file, behind>>

WriteRam(v) ==
  /\ reg.enabled
  /\ ram' = [ram EXCEPT ![bank.ram] = v]
  /\ dirty' = TRUE
  /\ since' = [since EXCEPT ![bank.ram] = 0]
  /\ UNCHANGED <<cart, reg, bank, ticks, file, behind>>

-----------------------------------------------------------------------------
\* MemoryController::tick, every machine cycle; only dirty ticks are counted.
Due == dirty /\ ticks % Interval = 0 /\ HasBattery(cart)

Aged ==
  /\ ticks' = IF dirty THEN (ticks + 1) % TickSize ELSE ticks
  /\ since' = [b \in Slots |-> IF since[b] < Interval THEN since[b] + 1 ELSE Interval]
  /\ UNCHANGED <<cart, reg, bank, ram>>

TickOnly ==
  /\ ~Due
  /\ Aged
  /\ UNCHANGED <<dirty, file, behind>>

TickSave ==
  /\ Due
  /\ Aged
  /\ file' = [b \in Kept(cart) |-> ram[b]]
  /\ dirty' = FALSE /\ behind' = FALSE

\* The file cannot be opened, or is cut short: the RAM counts as saved anyway.
TickSaveFails ==
  /\ Due
  /\ Aged
  /\ file' \in {file, None}
  /\ dirty' = FALSE /\ behind' = TRUE

Tick == TickOnly \/ TickSave \/ TickSaveFails

\* A new MemoryController built from the ROM and RAM file f.
Boot(f) ==
  /\ reg' = PowerOn
  /\ bank' = [rom0 |-> 0, rom1 |-> 1, ram |-> 0]
  /\ file' = f
  /\ ram' \in Loaded(cart, f)
  /\ dirty' = FALSE /\ ticks' = 0
  /\ since' = [b \in Slots |-> Interval]
  /\ behind' = (f = None)
  /\ UNCHANGED cart

\* The ROM is opened again, after an exit at any point between two ticks, or a
\* FATAL (an MBC5 program's store to 6000 .. 7FFF).
Open == Boot(file)

\* The process dies in the save, behind the truncation of the file.
KilledInSave == Due /\ Boot(None)

\* Mutant of LoadState: the pointers stay.
LoadStateUnmapped(s) ==
  /\ s.cart = cart
  /\ reg' = s.reg /\ ram' = s.ram /\ ticks' = s.ticks
  /\ dirty' = FALSE
  /\ since' = [b \in Slots |-> Interval] /\ behind' = TRUE
  /\ UNCHANGED <<cart, bank, file>>

\* A new MemoryController, then deserialize: ramDirty_ is not in the state.
LoadState(s) ==
  /\ s.cart = cart
  /\ reg' = s.reg /\ ram' = s.ram /\ ticks' = s.ticks
  /\ bank' = Mapped(cart, s.reg)
  /\ dirty' = FALSE
  /\ since' = [b \in Slots |-> Interval] /\ behind' = TRUE
  /\ UNCHANGED <<cart, file>>

Next ==
  \/ \E on \in BOOLEAN : EnableRam(on) \/ SetMode(on)
  \/ \E v \in 0 .. ByteSize - 1 : SelectLow(v) \/ SelectHigh(v) \/ SelectRam(v)
  \/ \E v \in Contents : WriteRam(v)
  \/ Tick
  \/ Open \/ KilledInSave
  \/ \E s \in Snapshots : LoadState(s)

Spec == Init /\ [][Next]_vars

\* CPU::tick ticks the memory controller without end.
FairSpec == Spec /\ WF_vars(Tick)

-----------------------------------------------------------------------------
\* Every variable keeps its range.
TypeOK ==
  /\ cart \in Carts /\ reg \in Registers(RomType(cart))
  /\ bank.rom0 \in Nat /\ bank.rom1 \in Nat /\ bank.ram \in Slots
  /\ ram \in Ram /\ file \in Files(cart)
  /\ dirty \in BOOLEAN /\ behind \in BOOLEAN
  /\ ticks \in 0 .. TickSize - 1
  /\ since \in [Slots -> 0 .. Interval]

\* The cached pointers (refresh_bank_map) are those of the registers, also behind
\* a restart or a loaded state, and point to banks the cartridge has, whatever
\* the program writes and however narrow the masks are.
MapIsCurrent ==
  /\ bank = Mapped(cart, reg)
  /\ bank.rom0 < cart.rom /\ bank.rom1 < cart.rom

\* What stood in battery RAM for Interval ticks survives closing and opening the
\* game at any moment, unless a save failed or RAM came from a save state since.
SurvivesRestart ==
  [][Open /\ HasBattery(cart) /\ ~behind =>
       \A b \in Kept(cart) : since[b] = Interval => ram'[b] = ram[b]]_vars

\* "RAM saving" (README.md:10): a write to the RAM of a cartridge whose type says
\* battery, CART_TYPE_MBC2_BATTERY (rom_loader.cpp:23) included, gets saved.
BatteryRamIsSaved == cart.code \in {3, 6, 27, 30} /\ dirty ~> ~dirty
=============================================================================
