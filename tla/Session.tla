-------------------------------- MODULE Session --------------------------------
(***************************************************************************)
(* What the emulator window does to the machine it runs (GBEmulator.inc):  *)
(* opening a ROM, restarting, choosing a boot ROM, saving and loading      *)
(* states.  All of it happens in window_.handleEvents, between two         *)
(* instructions of the machine.                                            *)
(*                                                                         *)
(* A machine is the ROM it plays.  A ROM's name is its path without the    *)
(* extension, and names its quick save file.  A save state is one file,    *)
(* whole or cut short by a full disk or a dying process.                   *)
(***************************************************************************)
EXTENDS Integers

CONSTANTS
  Roms,             \* ROM files
  Names,            \* their names, which are also their quick save files
  NameOf,           \* get_rom_name_without_extension
  Saves,            \* state files the user chooses, no quick save among them
  None              \* an empty string, an empty optional, a missing file

ASSUME SessionAssumption ==
  /\ NameOf \in [Roms -> Names]
  /\ Names \intersect Saves = {}
  /\ None \notin Roms \union Names \union Saves

VARIABLES
  path,             \* current_rom_path_
  name,             \* current_rom_name_
  boot,             \* boot_rom_path_: none, or whether it is a good boot ROM
  loader,           \* loader_: the ROM whose header it holds
  loop,             \* loop_: the ROM that runs
  files,            \* the save states on disk
  hurt              \* history: a damaged state was loaded

vars == <<path, name, boot, loader, loop, files, hurt>>

Optional == Roms \union {None}
Boots == {"none", "good", "bad"}
State == [header : Roms, name : Names, machine : Roms, whole : BOOLEAN]
Files == [Names \union Saves -> State \union {None}]

\* A new process; the files of earlier ones may be there.
Start ==
  /\ path' = None /\ name' = None /\ boot' = "none"
  /\ loader' = None /\ loop' = None

Init ==
  /\ path = None /\ name = None /\ boot = "none"
  /\ loader = None /\ loop = None
  /\ files = [f \in Names \union Saves |-> None]
  /\ hurt = FALSE

-----------------------------------------------------------------------------
\* Mutant of Opened: a failed open keeps the loader.
OpenedKeepsLoader(r, good) ==
  /\ path' = r /\ name' = NameOf[r]
  /\ loader' = IF good THEN r ELSE loader
  /\ loop' = IF good THEN r ELSE loop

\* Mutant of Opened: the name keeps the extension.
OpenedUnnamed(r, good) ==
  /\ path' = r /\ name' = r
  /\ loader' = IF good THEN r ELSE None
  /\ loop' = IF good THEN r ELSE loop

\* open_rom of a file that is no save state.
Opened(r, good) ==
  /\ path' = r /\ name' = NameOf[r]
  /\ loader' = IF good THEN r ELSE None
  /\ loop' = IF good THEN r ELSE loop

\* The ROM may be missing or too small; a bad boot ROM fails every open.
OpenRom(r) ==
  /\ \E good \in BOOLEAN : (good => boot # "bad") /\ Opened(r, good)
  /\ UNCHANGED <<boot, files, hurt>>

Restart == path # None /\ OpenRom(path)

SetBootRom(b) ==
  /\ boot' = b
  /\ IF path = None THEN UNCHANGED <<path, name, loader, loop>>
     ELSE \E good \in BOOLEAN : (good => b # "bad") /\ Opened(path, good)
  /\ UNCHANGED <<files, hurt>>

\* save: the stream's errors are not looked at, so the file may be cut short.
Save(f) ==
  /\ loop # None /\ loader # None
  /\ \E whole \in BOOLEAN :
       files' = [files EXCEPT ![f] = [header |-> loader, name |-> name,
                                      machine |-> loop, whole |-> whole]]
  /\ UNCHANGED <<path, name, boot, loader, loop, hurt>>

QuickSave == name # None /\ Save(name)

-----------------------------------------------------------------------------
\* load of a whole state: everything but current_rom_path_ comes from it.
LoadWhole(f) ==
  /\ files[f] # None /\ files[f].whole
  /\ loader' = files[f].header
  /\ name' = files[f].name
  /\ loop' = files[f].machine
  /\ UNCHANGED <<path, boot, files, hurt>>

\* load of a state cut short: refused for its version, or abandoned at the name's
\* length, which is then uninitialised, or taken for a whole one.  (Or it ends the
\* process, which is Quit.)
LoadDamaged(f) ==
  /\ files[f] # None /\ ~files[f].whole
  /\ \/ UNCHANGED <<name, loader, loop, hurt>>
     \/ /\ loader' = files[f].header
        /\ hurt' = TRUE
        /\ UNCHANGED <<name, loop>>
     \/ /\ loader' = files[f].header /\ name' = files[f].name
        /\ loop' = files[f].machine
        /\ hurt' = TRUE
  /\ UNCHANGED <<path, boot, files>>

Load(f) == LoadWhole(f) \/ LoadDamaged(f)

QuickLoad == name # None /\ Load(name)

\* The process ends: the window is closed, or a FATAL (an unsupported cartridge).
Quit == Start /\ UNCHANGED <<files, hurt>>

Next ==
  \/ \E r \in Roms : OpenRom(r)
  \/ Restart
  \/ \E b \in {"good", "bad"} : SetBootRom(b)
  \/ \E f \in Saves : Save(f)
  \/ \E f \in Names \union Saves : Load(f)
  \/ QuickSave \/ QuickLoad
  \/ Quit

Spec == Init /\ [][Next]_vars

-----------------------------------------------------------------------------
\* Every variable keeps its range; no ROM is open without a path or a state.
TypeOK ==
  /\ path \in Optional /\ name \in Names \union {None}
  /\ boot \in Boots
  /\ loader \in Optional /\ loop \in Optional
  /\ files \in Files
  /\ hurt \in BOOLEAN

\* However opens that fail, restarts, states loaded and quick saves follow each
\* other, no state is saved with another ROM's header or name, and a quick save file
\* only ever holds a ROM of that name.  (save in GBEmulator.inc relies on open_rom's
\* reset of loader_ for it.)
SavesAreTrue ==
  ~hurt => \A f \in Names \union Saves :
    files[f] # None =>
      /\ files[f].header = files[f].machine
      /\ files[f].name = NameOf[files[f].machine]
      /\ f \in Names => files[f].name = f

\* "Restart the current ROM if one is loaded" (GBEmulator.inc:230): choosing another
\* boot ROM while a game is loaded starts that game again, if it can be opened.
BootRomRestartsCurrent ==
  [][boot' \notin {boot, "none"} /\ loop # None /\ loader # None /\ ~hurt
       => loop' = loop]_vars
=============================================================================
