---------------------------- MODULE MemoryBridge ----------------------------
(***************************************************************************)
(* The memory bridge: two tables of functions, generated at compile time   *)
(* from lists of address ranges, through which every access of the CPU, of *)
(* the stack and of OAM DMA reaches the component that owns the address.   *)
(*                                                                         *)
(* The first table has a function for each 512 bytes of the address space, *)
(* the second one for each of its last 512 bytes.  A read is answered by   *)
(* the first range of its list that matches; a write is handed to all that *)
(* match, in the list's order.  The module has no state: the tables are    *)
(* constant operators of the address.                                      *)
(***************************************************************************)
EXTENDS Integers, Sequences

LastAddress == 65535
Address == 0 .. LastAddress
EchoDistance == 8192   \* from an address of the echo down to work RAM

Row(first, last, handler) == [first |-> first, last |-> last, handler |-> handler]

-----------------------------------------------------------------------------
(* The lists.  A range with two callbacks is two rows, in their order. *)

FirstLevel ==
  << Row(0, 16383, "ROM0"),          \* 0000 - 3FFF
     Row(16384, 32767, "ROM1"),      \* 4000 - 7FFF
     Row(32768, 40959, "VRAM"),      \* 8000 - 9FFF
     Row(40960, 49151, "RAM"),       \* A000 - BFFF
     Row(49152, 57343, "WRAM"),      \* C000 - DFFF
     Row(57344, 65023, "ECHO"),      \* E000 - FDFF
     Row(65024, 65535, "SecondLevel") >>

SecondLevelReads ==
  << Row(65024, 65183, "OAM"),                \* FE00 - FE9F
     Row(65408, 65534, "HRAM"),               \* FF80 - FFFE
     Row(65284, 65284, "DIV"),                \* FF04
     Row(65296, 65343, "Audio"),              \* FF10 - FF3F
     Row(65535, 65535, "IE"),                 \* FFFF
     Row(65280, 65283, "HardwareRegister"),   \* FF00 - FF03
     Row(65285, 65295, "HardwareRegister"),   \* FF05 - FF0F
     Row(65344, 65388, "PPURegister"),        \* FF40 - FF6C
     Row(65389, 65407, "HardwareRegister") >> \* FF6D - FF7F

SecondLevelWrites ==
  << Row(65024, 65183, "OAM"),
     Row(65408, 65534, "HRAM"),
     Row(65535, 65535, "IE"),
     Row(65280, 65280, "HardwareRegister"),   \* FF00
     Row(65280, 65280, "JoypadNotify"),
     Row(65281, 65283, "HardwareRegister"),   \* FF01 - FF03
     Row(65282, 65282, "NotifyWrite"),        \* FF02
     Row(65284, 65284, "DIV"),
     Row(65285, 65285, "TimaWrite"),          \* FF05
     Row(65286, 65286, "TmaWrite"),           \* FF06
     Row(65287, 65287, "TacWrite"),           \* FF07
     Row(65288, 65295, "HardwareRegister"),   \* FF08 - FF0F
     Row(65296, 65343, "Audio"),
     Row(65344, 65388, "PPURegister"),
     Row(65389, 65407, "HardwareRegister"),
     Row(65360, 65360, "BootROM") >>          \* FF50

\* The component a handler calls.  The bridge itself is called again by the echo
\* of work RAM, EchoDistance below, and to enter the second table.
Component(handler) ==
  CASE handler \in {"ROM0", "ROM1", "RAM", "WRAM", "HRAM", "NotifyWrite", "BootROM"} -> "memory_controller"
    [] handler \in {"VRAM", "OAM", "PPURegister"} -> "ppu"
    [] handler \in {"DIV", "TimaWrite", "TmaWrite", "TacWrite"} -> "timer"
    [] handler = "Audio" -> "apu"
    [] handler \in {"IE", "HardwareRegister"} -> "hw_registers"
    [] handler = "JoypadNotify" -> "joypad"
    [] OTHER -> "bridge"

\* Handlers that are told of a write another handler has stored.
Notified == {"JoypadNotify", "NotifyWrite", "BootROM"}

-----------------------------------------------------------------------------
(* The tables *)

\* Entry k of the first table stands for 512 addresses, of the second for one.
FirstMatches(row, k) == k >= row.first \div 512 /\ k <= row.last \div 512
SecondMatches(row, k) == k >= row.first - 65024 /\ k <= row.last - 65024

FirstRows(a) == {i \in 1 .. Len(FirstLevel) : FirstMatches(FirstLevel[i], a \div 512)}
ReadRows(a) == {i \in 1 .. Len(SecondLevelReads) : SecondMatches(SecondLevelReads[i], a - 65024)}
WriteRows(a) == {i \in 1 .. Len(SecondLevelWrites) : SecondMatches(SecondLevelWrites[i], a - 65024)}

\* The read collector returns the first match's answer, or a null pointer.
Answers(list, rows) ==
  IF rows = {} THEN "nullptr"
               ELSE list[CHOOSE i \in rows : \A j \in rows : i <= j].handler

Reader(a) ==
  LET first == Answers(FirstLevel, FirstRows(a))
  IN  IF first = "SecondLevel" THEN Answers(SecondLevelReads, ReadRows(a)) ELSE first

\* The write collector calls the handlers of all the rows that match.
Writers(a) ==
  LET first == {FirstLevel[i].handler : i \in FirstRows(a)}
  IN  IF "SecondLevel" \in first THEN {SecondLevelWrites[i].handler : i \in WriteRows(a)} ELSE first

\* Addresses whose registers must not be stored in HardwareRegisters: they belong
\* to the APU, and write_register stops the emulator on them.
AudioRegisters == 65296 .. 65343
Fatal(a) == a \in AudioRegisters \ (65319 .. 65327)
-----------------------------------------------------------------------------
LastRom == 32767
Unused == 65184 .. 65279     \* FEA0 - FEFF, behind OAM

(* What the lists must say.  They are written by hand, twice, and the compiler *)
(* only checks that the first level's ranges are multiples of 512.             *)

\* No access finds two readers: the order of the lists does not matter to reads.
OneReader ==
  \A a \in Address :
    /\ \E i \in FirstRows(a) : FirstRows(a) = {i}
    /\ \A i, j \in ReadRows(a) : i = j

\* Reads and writes agree on which addresses there are: all but FEA0 - FEFF, where
\* a write is dropped and a read gets a null pointer.
SameHoles ==
  \A a \in Address : /\ Reader(a) = "nullptr" <=> a \in Unused
                     /\ Writers(a) = {} <=> Reader(a) = "nullptr"

\* A write two handlers hear of is stored before the other is told, which reads
\* the register (Joypad::joypad_write) or the value; nobody is told otherwise.
StoredBeforeNotified ==
  \A a \in Address : \A j \in WriteRows(a) :
    LET earlier == {i \in WriteRows(a) : i < j}
    IN  /\ SecondLevelWrites[j].handler \in Notified <=> earlier # {}
        /\ \A i \in earlier : SecondLevelWrites[i].handler \notin Notified

\* The echo of work RAM enters the bridge once more, not twice.
EchoIsWorkRam ==
  \A a \in Address :
    /\ Reader(a) = "ECHO" => a - EchoDistance \in Address /\ Reader(a - EchoDistance) = "WRAM"
    /\ "ECHO" \in Writers(a) => a - EchoDistance \in Address /\ Writers(a - EchoDistance) = {"WRAM"}

\* What a component keeps to itself is not stored behind its back: no address of
\* the APU is written to HardwareRegisters (hardware_registers.h:165), and no write
\* to a cartridge's ROM reaches anything but its bank registers.
OwnersAreAsked ==
  \A a \in Address :
    /\ "HardwareRegister" \in Writers(a) => ~Fatal(a)
    /\ a \in AudioRegisters => {Component(h) : h \in Writers(a)} = {"apu"}
    /\ a <= LastRom => Writers(a) \subseteq {"ROM0", "ROM1"}
=============================================================================
