------------------------------ MODULE JoypadProofs ------------------------------
(***************************************************************************)
(* The joypad for every set of lines, buttons, axes and controllers.  The   *)
(* argument: the latches are exactly the presses JOYP has not shown, and    *)
(* whatever JOYP shows has been shown, so a write or an update requests an  *)
(* interrupt exactly when it shows something new.                            *)
(***************************************************************************)
EXTENDS Joypad, TLAPS

\* Besides the run's invariants: what JOYP shows counts as seen.
IInv ==
  /\ TypeOK
  /\ NothingStuck
  /\ Visible \subseteq seen
  /\ phase = "execute" => state = published /\ low = Shown(state, selected)

LEMMA InitInvariant == Init => IInv
BY JoypadAssumption DEF Init, IInv, TypeOK, NothingStuck, Visible, Centred, Rows

\* A refresh of JOYP: the latches of the rows it shows are spent.
LEMMA RefreshKeeps ==
  ASSUME NEW held \in SUBSET Buttons, NEW latch, NEW rows \in SUBSET Rows,
         state' = held, selected' = rows, seen \subseteq state,
         latch = held \ seen, requested \in BOOLEAN,
         JoypadWrite(held, latch, rows)
  PROVE  /\ low' = Shown(held, rows) /\ low' \in SUBSET Lines
         /\ requested' \in BOOLEAN
         /\ seen' \subseteq state' /\ latched' = state' \ seen' /\ Visible' \subseteq seen'
         /\ requested' <=> (requested \/ Visible' \ seen # {})
<1>1. low' = Shown(held, rows) /\ latched' = latch \ Of(rows)
      /\ requested' = (requested \/ latch \cap Of(rows) # {})
      /\ seen' = (seen \cup Of(rows)) \cap held
  BY DEF JoypadWrite
<1>2. low' \in SUBSET Lines
  BY <1>1 DEF Shown
<1>3. Visible' = held \cap Of(rows)
  BY DEF Visible, Of, Read
<1>4. latch \cap Of(rows) = Visible' \ seen
  BY <1>3
<1>5. requested' \in BOOLEAN /\ (requested' <=> (requested \/ Visible' \ seen # {}))
  BY <1>1, <1>4
<1> QED
  BY <1>1, <1>2, <1>3, <1>5

\* What a write or an update does to the invariant and to the requests.
LEMMA UpdateKeeps ==
  ASSUME IInv, Update
  PROVE  IInv' /\ (requested' <=> (requested \/ Visible' \ seen # {}))
<1>1. /\ phase' = "execute" /\ state' = published /\ UNCHANGED <<window, published, selected>>
      /\ JoypadWrite(published, Latch(published), selected)
  BY DEF Update
<1>2. Latch(published) = published \ seen
  BY DEF Latch, IInv, TypeOK
<1>3. /\ low' = Shown(published, selected) /\ low' \in SUBSET Lines
      /\ requested' \in BOOLEAN
      /\ seen' \subseteq state' /\ latched' = state' \ seen' /\ Visible' \subseteq seen'
      /\ requested' <=> (requested \/ Visible' \ seen # {})
  BY <1>1, <1>2, RefreshKeeps DEF IInv, TypeOK
<1>4. TypeOK' /\ NothingStuck'
  BY <1>1, <1>3 DEF IInv, TypeOK, NothingStuck, window, Centred
<1> QED
  BY <1>1, <1>3, <1>4 DEF IInv, Shown, Read

LEMMA WriteJoypKeeps ==
  ASSUME IInv, WriteJoyp
  PROVE  IInv' /\ (requested' <=> (requested \/ Visible' \ seen # {}))
<1>1. PICK rows \in SUBSET Rows : Executes /\ selected' = rows /\ JoypadWrite(state, latched, rows)
  BY DEF WriteJoyp
<1>2. phase' \in {"update", "events"} /\ UNCHANGED <<window, published, state>>
  BY <1>1 DEF Executes
<1>3. latched = state \ seen
  BY DEF IInv, TypeOK
<1>4. /\ low' \in SUBSET Lines
      /\ requested' \in BOOLEAN
      /\ seen' \subseteq state' /\ latched' = state' \ seen' /\ Visible' \subseteq seen'
      /\ requested' <=> (requested \/ Visible' \ seen # {})
  BY <1>1, <1>2, <1>3, RefreshKeeps DEF IInv, TypeOK
<1>5. TypeOK' /\ NothingStuck'
  BY <1>1, <1>2, <1>4 DEF IInv, TypeOK, NothingStuck, window, Centred
<1> QED
  BY <1>2, <1>4, <1>5 DEF IInv

LEMMA ProgramKeeps ==
  ASSUME IInv, WriteIF \/ Other \/ Dispatch
  PROVE  IInv' /\ Visible' = Visible /\ selected' = selected
<1>1. /\ phase' \in {"update", "events"} \/ phase' = phase
      /\ requested' \in BOOLEAN
      /\ UNCHANGED <<window, published, state, latched, selected, low, seen>>
  BY DEF WriteIF, Other, Dispatch, Executes, IInv, TypeOK
<1>2. TypeOK' /\ NothingStuck' /\ Visible' = Visible
  BY <1>1 DEF IInv, TypeOK, NothingStuck, window, Centred, Visible, Of, Read
<1> QED
  BY <1>1, <1>2 DEF IInv, Shown, Read

\* The window's handlers leave the joypad alone.
LEMMA EventsKeep ==
  ASSUME IInv, KeyDown \/ KeyUp \/ ControllerAdded \/ ControllerRemoved \/ ControllerButton \/ ControllerAxis
  PROVE  IInv' /\ Visible' = Visible
<1>1. Handles /\ phase = "events" /\ phase' = phase /\ UNCHANGED <<published, joypad>>
  BY DEF Handles, KeyDown, KeyUp, ControllerAdded, ControllerRemoved, ControllerButton, ControllerAxis
<1>2. Visible' = Visible
  BY <1>1 DEF joypad, Visible, Of, Read
<1>3. Centred \in [Axes -> SUBSET Buttons]
  BY DEF Centred
<1> DEFINE WindowOK ==
             /\ keys \subseteq Buttons /\ pad \subseteq Buttons /\ stick \in [Axes -> SUBSET Buttons]
             /\ attached \subseteq Controllers /\ opened \in attached \cup {NoController}
             /\ NothingStuck
<1>4. WindowOK'
  <2>0. WindowOK
    BY DEF IInv, TypeOK
  <2>1. CASE KeyDown
    BY <2>0, <2>1, JoypadAssumption DEF KeyDown, NothingStuck, Centred
  <2>2. CASE KeyUp
    BY <2>0, <2>2 DEF KeyUp, NothingStuck, Centred
  <2>3. CASE ControllerAdded
    BY <2>0, <2>3, JoypadAssumption DEF ControllerAdded, NothingStuck, Centred
  <2>4. CASE ControllerRemoved
    BY <2>0, <2>4, <1>3 DEF ControllerRemoved, NothingStuck, Centred
  <2>5. CASE ControllerButton
    BY <2>0, <2>5, JoypadAssumption DEF ControllerButton, NothingStuck
  <2>6. CASE ControllerAxis
    <3>1. PICK a \in Axes : \E lean \in {{}} \cup {{b} : b \in a} :
            /\ opened # NoController /\ stick' = [stick EXCEPT ![a] = lean]
            /\ UNCHANGED <<keys, pad, attached, opened>>
      BY <2>6 DEF ControllerAxis
    <3>2. PICK lean \in {{}} \cup {{b} : b \in a} :
            /\ opened # NoController /\ stick' = [stick EXCEPT ![a] = lean]
            /\ UNCHANGED <<keys, pad, attached, opened>>
      BY <3>1
    <3>3. a \subseteq Buttons
      BY JoypadAssumption DEF Buttons, Rows
    <3>4. lean \in SUBSET Buttons
      BY <3>2, <3>3
    <3> QED
      BY <2>0, <3>2, <3>4 DEF NothingStuck
  <2> QED
    BY <2>1, <2>2, <2>3, <2>4, <2>5, <2>6
<1>5. TypeOK'
  BY <1>1, <1>4 DEF IInv, TypeOK, joypad
<1> QED
  BY <1>1, <1>2, <1>4, <1>5 DEF IInv, joypad

\* A new Joypad shows nothing, whatever JOYP holds.
LEMMA PowerKeeps ==
  ASSUME IInv, OpenRom \/ QuickLoad
  PROVE  IInv' /\ Visible' = {}
<1>1. PICK rows \in SUBSET Rows, lines \in SUBSET Lines, flag \in BOOLEAN : Power(rows, lines, flag)
  BY Zenon DEF OpenRom, QuickLoad
<1>2. Visible' = {}
  BY <1>1 DEF Power, Visible
<1>3. TypeOK' /\ NothingStuck'
  BY <1>1 DEF IInv, TypeOK, NothingStuck, Power, window, Centred
<1> QED
  BY <1>1, <1>2, <1>3 DEF IInv, Power

LEMMA EndKeeps ==
  ASSUME IInv, EventsEnd \/ Quit
  PROVE  IInv' /\ Visible' = Visible
<1>1. Held \subseteq Buttons
  BY DEF Held, IInv, TypeOK
<1>2. TypeOK' /\ NothingStuck' /\ Visible' = Visible
  BY <1>1 DEF EventsEnd, Quit, IInv, TypeOK, NothingStuck, window, joypad, Centred, Visible, Of, Read
<1> QED
  BY <1>2 DEF EventsEnd, Quit, IInv, joypad

LEMMA NextKeeps == IInv /\ [Next]_vars => IInv'
<1> SUFFICES ASSUME IInv, [Next]_vars PROVE IInv'
  OBVIOUS
<1>1. CASE UNCHANGED vars
  BY <1>1 DEF vars, window, joypad, IInv, TypeOK, NothingStuck, Centred, Visible, Of, Read, Shown
<1>2. CASE Next
  BY <1>2, UpdateKeeps, WriteJoypKeeps, ProgramKeeps, EventsKeep, PowerKeeps, EndKeeps DEF Next
<1> QED
  BY <1>1, <1>2

LEMMA Inductive == Spec => []IInv
<1>1. Init => IInv
  BY InitInvariant
<1>2. IInv /\ [Next]_vars => IInv'
  BY NextKeeps
<1> QED
  BY <1>1, <1>2, PTL DEF Spec

\* The latches are the presses that JOYP has not shown, always.
THEOREM TypeCorrect == Spec => []TypeOK
<1>1. IInv => TypeOK
  BY DEF IInv
<1> QED
  BY <1>1, Inductive, PTL

\* No instruction reads a JOYP older than the last poll.
THEOREM JoypIsCurrentAlways == Spec => []JoypIsCurrent
<1>1. IInv => JoypIsCurrent
  BY DEF IInv, JoypIsCurrent
<1> QED
  BY <1>1, Inductive, PTL

\* A controller that is gone presses nothing.
THEOREM NothingStuckAlways == Spec => []NothingStuck
<1>1. IInv => NothingStuck
  BY DEF IInv
<1> QED
  BY <1>1, Inductive, PTL

\* The joypad requests one interrupt per press that JOYP comes to show.
THEOREM InterruptPerPressAlways == Spec => InterruptPerPress
<1> DEFINE A == /\ Visible' \ seen # {} => requested'
                /\ /\ phase = "update" \/ (phase = "execute" /\ selected' # selected)
                   /\ ~requested /\ requested'
                   => Visible' \ seen # {}
<1>1. IInv /\ [Next]_vars => [A]_vars
  <2> SUFFICES ASSUME IInv, Next PROVE A
    BY DEF vars
  <2>1. CASE Update \/ WriteJoyp
    BY <2>1, UpdateKeeps, WriteJoypKeeps
  <2>2. CASE WriteIF \/ Other \/ Dispatch
    <3>1. phase = "execute" /\ Visible' \subseteq seen /\ selected' = selected
      BY <2>2, ProgramKeeps DEF IInv, WriteIF, Other, Dispatch, Executes
    <3> QED
      BY <3>1
  <2>3. CASE ~(Update \/ WriteJoyp \/ WriteIF \/ Other \/ Dispatch)
    <3>1. phase = "events"
      BY <2>3 DEF Next, KeyDown, KeyUp, ControllerAdded, ControllerRemoved, ControllerButton,
         ControllerAxis, OpenRom, QuickLoad, EventsEnd, Quit, Handles, Power
    <3>2. Visible' \subseteq Visible
      BY <2>3, EventsKeep, PowerKeeps, EndKeeps DEF Next
    <3> QED
      BY <3>1, <3>2 DEF IInv
  <2> QED
    BY <2>1, <2>2, <2>3
<1> QED
  BY <1>1, Inductive, PTL DEF Spec, InterruptPerPress
=============================================================================
