--------------------------------- MODULE Joypad ---------------------------------
(***************************************************************************)
(* From the player's hands to JOYP and the joypad interrupt.                *)
(*                                                                         *)
(* SDLWindow::handleEvents, once per frame, turns the queued events into   *)
(* the keyboard's, the controller's and the stick's state and publishes     *)
(* their union; Joypad::update_state takes it before every instruction,     *)
(* latches the presses and refreshes JOYP's low nibble, as does a write to  *)
(* JOYP.  A button is a row and a line of the matrix.  Opening a ROM or     *)
(* loading a state, from inside handleEvents, makes a new Joypad, which has *)
(* seen nothing; the window, and so what it publishes, stays.               *)
(***************************************************************************)
EXTENDS Naturals

CONSTANTS
  Lines,            \* lines of a row (0 .. 3)
  Keyboard,         \* bound: buttons the player presses on the keyboard
  Controls,         \* bound: and on the controller
  Axes,             \* the stick's axes, each the d-pad buttons it stands for
  Controllers,
  NoController

Rows == {"ssba", "dpad"}
Buttons == Rows \X Lines

ASSUME JoypadAssumption ==
  /\ Keyboard \subseteq Buttons /\ Controls \subseteq Buttons
  /\ Axes \subseteq SUBSET ({"dpad"} \X Lines)
  /\ NoController \notin Controllers

VARIABLES
  phase,            \* what run() does next: "update", "execute", "events"; "over"
  keys,             \* keyboard_state_
  pad,              \* controller_button_state_
  stick,            \* each axis: the button it leans on past the dead zone
  attached,         \* the controllers plugged in
  opened,           \* controller_
  published,        \* run()'s joypad_state
  state,            \* Joypad::joypad_state_
  latched,          \* Joypad::joypad_interrupts_
  selected,         \* rows whose bit of JOYP is 0
  low,              \* lines whose bit of JOYP is 0
  requested,        \* the joypad's bit of IF
  seen              \* history: held buttons that JOYP has shown since their press

window == <<keys, pad, stick, attached, opened>>
joypad == <<state, latched, selected, low, requested, seen>>
vars == <<phase, window, published, joypad>>

-----------------------------------------------------------------------------
(* The joypad *)

\* joypad_write looks at the d-pad only if the other row is not selected.
Read(rows) == IF "ssba" \in rows THEN {"ssba"} ELSE rows \cap {"dpad"}
Of(rows) == Read(rows) \X Lines
Shown(held, rows) == {line \in Lines : \E row \in Read(rows) : <<row, line>> \in held}

\* Mutants: a release does not clear the latch; a request does not clear the
\* latches of its row.
LatchHolds(held) == latched \cup (held \ state)
JoypadWriteKeeps(held, latch, rows) ==
  /\ low' = Shown(held, rows)
  /\ latched' = latch
  /\ requested' = (requested \/ latch \cap Of(rows) # {})
  /\ seen' = (seen \cup Of(rows)) \cap held
\* update_interrupts: a press is latched, a release clears it.
Latch(held) == {b \in held : b \in latched \/ b \notin state}

\* joypad_write: refresh the nibble, request for the row's latches, clear them.
JoypadWrite(held, latch, rows) ==
  /\ low' = Shown(held, rows)
  /\ latched' = latch \ Of(rows)
  /\ requested' = (requested \/ latch \cap Of(rows) # {})
  /\ seen' = (seen \cup Of(rows)) \cap held

\* Mutant of Update: nothing is refreshed while no button changes.
UpdateOnChange ==
  /\ phase = "update" /\ phase' = "execute"
  /\ state' = published
  /\ IF published = state THEN UNCHANGED <<latched, low, requested, seen>>
                          ELSE JoypadWrite(published, Latch(published), selected)
  /\ UNCHANGED <<window, published, selected>>

\* update_state.
Update ==
  /\ phase = "update" /\ phase' = "execute"
  /\ state' = published
  /\ JoypadWrite(published, Latch(published), selected)
  /\ UNCHANGED <<window, published, selected>>

\* The instruction may complete a frame.
Executes == phase = "execute" /\ phase' \in {"update", "events"} /\ UNCHANGED <<window, published, state>>

\* An instruction that writes JOYP, whose handler then tells the joypad.
WriteJoyp ==
  \E rows \in SUBSET Rows :
    /\ Executes
    /\ selected' = rows
    /\ JoypadWrite(state, latched, rows)

\* One that writes IF.
WriteIF ==
  \E flag \in BOOLEAN :
    /\ Executes
    /\ requested' = flag
    /\ UNCHANGED <<latched, selected, low, seen>>

Other == Executes /\ UNCHANGED <<latched, selected, low, requested, seen>>

\* Before its instruction the CPU may dispatch the interrupt.
Dispatch ==
  /\ phase = "execute" /\ requested /\ requested' = FALSE
  /\ UNCHANGED <<phase, window, published, state, latched, selected, low, seen>>

-----------------------------------------------------------------------------
(* handleEvents *)

Handles == phase = "events" /\ UNCHANGED <<phase, published, joypad>>

\* A key held with Ctrl is a shortcut and presses nothing.
KeyDown == \E b \in Keyboard : Handles /\ keys' = keys \cup {b} /\ UNCHANGED <<pad, stick, attached, opened>>
KeyUp == \E b \in keys : Handles /\ keys' = keys \ {b} /\ UNCHANGED <<pad, stick, attached, opened>>

Centred == [a \in Axes |-> {}]

ControllerAdded ==
  \E c \in Controllers \ attached :
    /\ Handles
    /\ attached' = attached \cup {c}
    /\ opened' = IF opened = NoController THEN c ELSE opened
    /\ UNCHANGED <<keys, pad, stick>>

\* Mutant of ControllerRemoved: the stick keeps leaning.
ControllerRemovedLeaning ==
  \E c \in attached :
    /\ Handles
    /\ attached' = attached \ {c}
    /\ IF c = opened THEN opened' = NoController /\ pad' = {} /\ UNCHANGED stick
                     ELSE UNCHANGED <<opened, pad, stick>>
    /\ UNCHANGED keys

\* The controller in use presses nothing once it is gone; another one that is
\* attached is not opened in its place.
ControllerRemoved ==
  \E c \in attached :
    /\ Handles
    /\ attached' = attached \ {c}
    /\ IF c = opened THEN opened' = NoController /\ pad' = {} /\ stick' = Centred
                     ELSE UNCHANGED <<opened, pad, stick>>
    /\ UNCHANGED keys

\* SDL reports the buttons and axes of open controllers only.
ControllerButton ==
  \E b \in Controls :
    /\ Handles /\ opened # NoController
    /\ pad' \in {pad \cup {b}, pad \ {b}}
    /\ UNCHANGED <<keys, stick, attached, opened>>

ControllerAxis ==
  \E a \in Axes : \E lean \in {{}} \cup {{b} : b \in a} :
    /\ Handles /\ opened # NoController
    /\ stick' = [stick EXCEPT ![a] = lean]
    /\ UNCHANGED <<keys, pad, attached, opened>>

\* A shortcut opens a ROM or loads a state: a new Joypad, and JOYP and IF as at
\* power-on or as saved.
Power(rows, lines, flag) ==
  /\ phase = "events"
  /\ state' = {} /\ latched' = {} /\ seen' = {}
  /\ selected' = rows /\ low' = lines /\ requested' = flag
  /\ UNCHANGED <<phase, window, published>>

OpenRom == Power(Rows, {}, FALSE)

QuickLoad ==
  \E rows \in SUBSET Rows, lines \in SUBSET Lines, flag \in BOOLEAN :
    /\ rows = {} => lines = {}
    /\ Power(rows, lines, flag)

Held == keys \cup pad \cup UNION {stick[a] : a \in Axes}

\* The queue is empty: the union is published and run() goes on.
EventsEnd ==
  /\ phase = "events" /\ phase' = "update"
  /\ published' = Held
  /\ UNCHANGED <<window, joypad>>

Quit == phase = "events" /\ phase' = "over" /\ UNCHANGED <<window, published, joypad>>

Init ==
  /\ phase = "update"
  /\ keys = {} /\ pad = {} /\ stick = Centred /\ published = {}
  /\ attached \in SUBSET Controllers
  /\ IF attached = {} THEN opened = NoController ELSE opened \in attached
  /\ state = {} /\ latched = {} /\ seen = {}
  /\ selected = Rows /\ low = {} /\ requested = FALSE

Next ==
  \/ Update \/ WriteJoyp \/ WriteIF \/ Other \/ Dispatch
  \/ KeyDown \/ KeyUp
  \/ ControllerAdded \/ ControllerRemoved \/ ControllerButton \/ ControllerAxis
  \/ OpenRom \/ QuickLoad \/ EventsEnd \/ Quit

Spec == Init /\ [][Next]_vars

-----------------------------------------------------------------------------
\* The held buttons that JOYP shows.
Visible == state \cap Of(selected)

\* A press is remembered while the button is held and JOYP has not shown it,
\* and no longer; the joypad knows what the window last published.
TypeOK ==
  /\ phase \in {"update", "execute", "events", "over"}
  /\ keys \subseteq Buttons /\ pad \subseteq Buttons
  /\ stick \in [Axes -> SUBSET Buttons]
  /\ attached \subseteq Controllers /\ opened \in attached \cup {NoController}
  /\ published \subseteq Buttons /\ state \subseteq Buttons
  /\ selected \subseteq Rows /\ low \subseteq Lines /\ requested \in BOOLEAN
  /\ seen \subseteq state /\ latched = state \ seen

\* What a program reads from JOYP is never stale: whenever an instruction runs,
\* each line is low exactly if its button of the selected row was held at the
\* last poll, whatever was loaded, opened, selected or released in between.
JoypIsCurrent == phase = "execute" => low = Shown(published, selected)

\* One interrupt per press: the joypad requests one exactly when JOYP shows a
\* button for the first time since it was pressed, however often the rows are
\* selected while it is held; a press that is released unseen requests none.
InterruptPerPress ==
  [][/\ Visible' \ seen # {} => requested'
     /\ /\ phase = "update" \/ (phase = "execute" /\ selected' # selected)
        /\ ~requested /\ requested'
        => Visible' \ seen # {}]_vars

\* Without a controller in use nothing is pressed on it: removing one leaves no
\* button or direction stuck (the promise of SDLWindow.cpp:263).
NothingStuck == opened = NoController => pad = {} /\ stick = Centred
=============================================================================
