----------------------------- MODULE SessionProofs -----------------------------
(***************************************************************************)
(* Session: saved states are true to their games, for any number of ROMs   *)
(* and state files.  A file is only as good as loader_, loop_ and the name *)
(* at the moment of the save, so the invariant says that the three agree   *)
(* whenever loader_ is set, which is when save goes ahead.                 *)
(***************************************************************************)
EXTENDS Session, TLAPS

\* Until damage is loaded, a loader means that one game is loaded, named and run.
Agreed ==
  /\ ~hurt /\ loader # None => loop = loader /\ name = NameOf[loader]
  /\ loop # None => name # None

IInv == TypeOK /\ Agreed /\ SavesAreTrue

-----------------------------------------------------------------------------
\* At the start nothing is loaded or saved.
LEMMA InitIInv == Init => IInv
<1> SUFFICES ASSUME Init PROVE IInv
  OBVIOUS
<1>1. TypeOK
  BY DEF Init, TypeOK, Optional, Boots, Files
<1>2. Agreed
  BY DEF Init, Agreed
<1>3. SavesAreTrue
  BY DEF Init, SavesAreTrue
<1>4. QED
  BY <1>1, <1>2, <1>3 DEF IInv

\* Opening a ROM leaves either one ROM or no loader at all, and no file changes.
LEMMA OpenedKeeps ==
  ASSUME IInv, NEW r \in Roms, NEW good \in BOOLEAN, Opened(r, good),
         boot' \in Boots, UNCHANGED <<files, hurt>>
  PROVE  IInv'
<1> USE SessionAssumption DEF IInv
<1>1. TypeOK'
  BY DEF TypeOK, Opened, Optional, Files
<1>2. Agreed'
  BY DEF Agreed, Opened
<1>3. SavesAreTrue'
  BY DEF SavesAreTrue
<1>4. QED
  BY <1>1, <1>2, <1>3

\* A save writes what is loaded; a quick save writes it to its own file.
LEMMA SaveKeeps ==
  ASSUME IInv, NEW f \in Names \union Saves, Save(f), f \in Names => f = name
  PROVE  IInv'
<1> USE SessionAssumption DEF IInv
<1>1. PICK w \in BOOLEAN :
        files' = [files EXCEPT ![f] = [header |-> loader, name |-> name,
                                       machine |-> loop, whole |-> w]]
  BY DEF Save
<1>2. ~hurt => loop = loader /\ name = NameOf[loader]
  BY DEF Save, Agreed
<1>3. loader \in Roms /\ loop \in Roms /\ name \in Names
  BY DEF Save, TypeOK, Optional, Agreed
<1>4. UNCHANGED <<path, name, boot, loader, loop, hurt>>
  BY DEF Save
<1>5. TypeOK'
  <2>1. [header |-> loader, name |-> name, machine |-> loop, whole |-> w] \in State
    BY <1>3 DEF State
  <2>2. files' \in Files
    BY <1>1, <2>1 DEF TypeOK, Files
  <2>3. QED
    BY <1>4, <2>2 DEF TypeOK
<1>6. Agreed'
  BY <1>4 DEF Agreed
<1>7. SavesAreTrue'
  BY <1>1, <1>2, <1>3, <1>4 DEF SavesAreTrue, TypeOK, Files
<1>8. QED
  BY <1>5, <1>6, <1>7

\* A whole state brings in one game, as every file written so far holds one.
LEMMA LoadKeeps ==
  ASSUME IInv, NEW f \in Names \union Saves, Load(f)
  PROVE  IInv'
<1> USE SessionAssumption DEF IInv
<1>1. files[f] # None
  BY DEF Load, LoadWhole, LoadDamaged
<1>2. files[f] \in State
  BY <1>1 DEF TypeOK, Files
<1>3. files[f].header \in Roms /\ files[f].name \in Names /\ files[f].machine \in Roms
  BY <1>2 DEF State
<1>4. CASE LoadWhole(f)
  <2>1. TypeOK'
    BY <1>3, <1>4 DEF TypeOK, LoadWhole, Optional
  <2>2. Agreed'
    BY <1>1, <1>3, <1>4 DEF Agreed, LoadWhole, SavesAreTrue
  <2>3. SavesAreTrue'
    BY <1>4 DEF LoadWhole, SavesAreTrue
  <2>4. QED
    BY <2>1, <2>2, <2>3
<1>5. CASE LoadDamaged(f)
  <2>1. TypeOK'
    BY <1>3, <1>5 DEF TypeOK, LoadDamaged, Optional
  <2>2. Agreed'
    BY <1>3, <1>5 DEF Agreed, LoadDamaged
  <2>3. SavesAreTrue'
    BY <1>5 DEF LoadDamaged, SavesAreTrue
  <2>4. QED
    BY <2>1, <2>2, <2>3
<1>6. QED
  BY <1>4, <1>5 DEF Load

\* A new process starts with nothing loaded and the files of the old one.
LEMMA QuitKeeps == IInv /\ Quit => IInv'
<1> SUFFICES ASSUME IInv, Quit PROVE IInv'
  OBVIOUS
<1> USE DEF IInv
<1>1. TypeOK'
  BY DEF TypeOK, Quit, Start, Optional, Boots
<1>2. Agreed'
  BY DEF Agreed, Quit, Start
<1>3. SavesAreTrue'
  BY DEF SavesAreTrue, Quit
<1>4. QED
  BY <1>1, <1>2, <1>3

\* Choosing a boot ROM reopens the ROM opened last, if there is one.
LEMMA SetBootRomKeeps ==
  ASSUME IInv, NEW b \in {"good", "bad"}, SetBootRom(b)
  PROVE  IInv'
<1>1. boot' \in Boots /\ UNCHANGED <<files, hurt>>
  BY DEF SetBootRom, Boots
<1>2. CASE path = None
  <2>1. UNCHANGED <<path, name, loader, loop>>
    BY <1>2 DEF SetBootRom
  <2>2. QED
    BY <1>1, <2>1 DEF IInv, TypeOK, Agreed, SavesAreTrue, Optional, Files
<1>3. CASE path # None
  <2>1. path \in Roms
    BY <1>3 DEF IInv, TypeOK, Optional
  <2>2. PICK good \in BOOLEAN : Opened(path, good)
    BY <1>3 DEF SetBootRom
  <2>3. QED
    BY <1>1, <2>1, <2>2, OpenedKeeps
<1>4. QED
  BY <1>2, <1>3

LEMMA NextIInv == IInv /\ [Next]_vars => IInv'
<1> SUFFICES ASSUME IInv, [Next]_vars PROVE IInv'
  OBVIOUS
<1>1. ASSUME NEW r \in Roms, OpenRom(r) PROVE IInv'
  <2>1. PICK good \in BOOLEAN : Opened(r, good)
    BY <1>1 DEF OpenRom
  <2>2. boot' \in Boots /\ UNCHANGED <<files, hurt>>
    BY <1>1 DEF OpenRom, IInv, TypeOK
  <2>3. QED
    BY <2>1, <2>2, OpenedKeeps
<1>2. CASE Restart
  <2>1. path \in Roms /\ OpenRom(path)
    BY <1>2 DEF Restart, IInv, TypeOK, Optional
  <2>2. QED
    BY <1>1, <2>1
<1>3. ASSUME NEW f \in Saves, Save(f) PROVE IInv'
  BY <1>3, SaveKeeps, SessionAssumption
<1>4. ASSUME NEW f \in Names \union Saves, Load(f) PROVE IInv'
  BY <1>4, LoadKeeps
<1>5. name # None => name \in Names
  BY DEF IInv, TypeOK, Optional
<1>6. CASE QuickSave
  BY <1>5, <1>6, SaveKeeps DEF QuickSave
<1>7. CASE QuickLoad
  BY <1>5, <1>7, LoadKeeps DEF QuickLoad
<1>8. CASE UNCHANGED vars
  BY <1>8 DEF vars, IInv, TypeOK, Agreed, SavesAreTrue, Optional, Files
<1>9. QED
  BY <1>1, <1>2, <1>3, <1>4, <1>6, <1>7, <1>8, SetBootRomKeeps, QuitKeeps DEF Next

-----------------------------------------------------------------------------
\* Every variable of the session keeps its range, whatever is opened, saved,
\* loaded or cut short (GBEmulator.inc).
THEOREM TypeCorrect == Spec => []TypeOK
<1>1. IInv => TypeOK
  BY DEF IInv
<1>2. QED
  BY <1>1, InitIInv, NextIInv, PTL DEF Spec

\* No state is saved under another game's header or name, and no quick save file
\* holds another game (open_rom's reset of loader_, the guard of save).
THEOREM SavesAreTrueAlways == Spec => []SavesAreTrue
<1>1. IInv => SavesAreTrue
  BY DEF IInv
<1>2. QED
  BY <1>1, InitIInv, NextIInv, PTL DEF Spec
=============================================================================
