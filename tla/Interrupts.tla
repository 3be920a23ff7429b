------------------------------ MODULE Interrupts ------------------------------
(***************************************************************************)
(* The interrupt controller and the instruction loop around it             *)
(* (cpu/interrupt_controller.{h,inc}, cpu/cpu.inc): delayed enabling,      *)
(* dispatch, HALT and the HALT bug.                                        *)
(*                                                                         *)
(* An instruction is some machine cycles ("before"), one effect on the     *)
(* controller, and the remaining cycles ("after").  In every cycle the     *)
(* devices (timer, PPU, joypad) may request interrupts.                    *)
(***************************************************************************)
EXTENDS Integers

CONSTANTS
  InitialFlags,   \* IF_DEFAULT
  Sources,        \* interrupt sources: the five bits of IF and IE
  Rank,           \* their order in service_interrupts, least first
  None,           \* no source: address 0 instead of a vector
  MaxBefore       \* bound on the cycles an ordinary instruction spends first

ASSUME InterruptsAssumption ==
  /\ InitialFlags \subseteq Sources
  /\ Rank \in [Sources -> Nat]
  /\ \A s, t \in Sources : Rank[s] = Rank[t] => s = t
  /\ None \notin Sources
  /\ MaxBefore \in Nat

VARIABLES
  iflag, ienable,         \* registers IF and IE, as sets of sources
  ime,            \* interrupt_master_enabled_
  delay,          \* interrupt_enable_called_
  halt,           \* halt_state_
  before, effect, after,    \* what is left of run_single_instruction
  vector,         \* the source whose handler was entered last
  entry,          \* a dispatch happened and no opcode was fetched since
  armed,          \* history: enabling as the instruction set counts it
  shadowHalt      \* history: HALT ran right behind the EI that enables

cpu == <<before, effect, after>>
vars == <<iflag, ienable, ime, delay, halt, cpu, vector, entry, armed, shadowHalt>>

EnableDelay == 2                            \* INTERRUPT_ENABLE_DELAY
DispatchCycles == 5
HaltStates == {"NO_HALT", "HALT", "HALT_BUG"}
Effects == {"none", "step", "enable", "disable", "halt", "write"}
Program(b, e, a) == before' = b /\ effect' = e /\ after' = a

\* The effect of each instruction class and the cycles on either side of it.
Instructions ==
  [before : {0}, effect : {"enable", "disable", "halt"}, after : {1}]  \* EI DI HALT
    \union [before : {2}, effect : {"enable"}, after : {2}]            \* RETI
    \union [before : 0 .. MaxBefore, effect : {"none", "write"}, after : {1}]

Boundary == before = 0 /\ effect = "none" /\ after = 0
Pending == iflag \intersect ienable # {}            \* is_pending

Init ==
  /\ iflag = InitialFlags /\ ienable = {}
  /\ ime = FALSE /\ delay = 0
  /\ halt = "NO_HALT"
  /\ before = 0 /\ effect = "none" /\ after = 0
  /\ vector = None /\ entry = FALSE
  /\ armed = "off" /\ shadowHalt = FALSE

-----------------------------------------------------------------------------
\* CPU::tick: the devices may request, then check_for_enable counts down.
Cycle ==
  /\ \E raised \in SUBSET Sources : iflag' = iflag \union raised
  /\ delay' = IF delay > 0 THEN delay - 1 ELSE 0
  /\ ime' = (ime \/ delay = 1)
  /\ UNCHANGED <<ienable, halt, vector, entry, armed, shadowHalt>>

TickBefore ==
  /\ before > 0
  /\ Program(before - 1, effect, after)
  /\ Cycle

TickAfter ==
  /\ before = 0 /\ effect = "none" /\ after > 0
  /\ Program(0, "none", after - 1)
  /\ Cycle

\* Mutants of CheckOnly: HALT ends only with interrupts enabled; only a halted
\* CPU is sure to dispatch.
CheckOnlyEnabled ==
  /\ Boundary
  /\ ~(Pending /\ ime)
  /\ halt' = IF Pending /\ ime /\ halt = "HALT" THEN "NO_HALT" ELSE halt
  /\ Program(0, "step", 0)
  /\ UNCHANGED <<iflag, ienable, ime, delay, vector, entry, armed, shadowHalt>>
CheckOnlyAwake ==
  /\ Boundary
  /\ ~(Pending /\ ime /\ halt = "HALT")
  /\ halt' = IF Pending /\ halt = "HALT" THEN "NO_HALT" ELSE halt
  /\ Program(0, "step", 0)
  /\ UNCHANGED <<iflag, ienable, ime, delay, vector, entry, armed, shadowHalt>>

\* service_interrupts without a dispatch: a pending request only ends HALT.
CheckOnly ==
  /\ Boundary
  /\ ~(Pending /\ ime)
  /\ halt' = IF Pending /\ halt = "HALT" THEN "NO_HALT" ELSE halt
  /\ Program(0, "step", 0)
  /\ UNCHANGED <<iflag, ienable, ime, delay, vector, entry, armed, shadowHalt>>

\* The two pushed bytes of PC go to memory, or one of them lands in IE or IF.
\* IF and IE are read as f and e between the two pushes, so a high byte there
\* decides the handler.  A low byte in IF leaves no trace: the acknowledgement
\* stores the IF read before it.
Push(f, e) ==
  \/ f = iflag /\ e = ienable /\ ienable' = ienable
  \/ f = iflag /\ e = ienable /\ ienable' \in SUBSET Sources        \* low byte into IE
  \/ f = iflag /\ e \in SUBSET Sources /\ ienable' = e         \* high byte into IE
  \/ f \in SUBSET Sources /\ e = ienable /\ ienable' = ienable        \* high byte into IF

First(S) == CHOOSE s \in S : \A t \in S : Rank[s] <= Rank[t]

\* Mutant of Serve: the request is not acknowledged.
ServeUnacknowledged(f, e) ==
  /\ iflag' = f
  /\ vector' = IF f \intersect e = {} THEN None ELSE First(f \intersect e)

Serve(f, e) ==
  IF f \intersect e = {}
  THEN vector' = None /\ iflag' = f
  ELSE LET s == First(f \intersect e)
       IN  vector' = s /\ iflag' = f \ {s}

Dispatch ==
  /\ Boundary
  /\ Pending /\ ime
  /\ halt' = IF halt = "HALT" THEN "NO_HALT" ELSE halt
  /\ ime' = FALSE /\ delay' = 0                        \* disable_interrupts
  /\ \E f, e \in SUBSET Sources : Push(f, e) /\ Serve(f, e)
  /\ entry' = TRUE
  /\ armed' = "off"
  /\ Program(DispatchCycles, "step", 0)
  /\ UNCHANGED shadowHalt

\* Mutant of Fetch: the HALT bug is not spent.
FetchKeepsBug ==
  /\ before = 0 /\ effect = "step" /\ halt # "HALT"
  /\ \E i \in Instructions : Program(i.before, i.effect, i.after)
  /\ entry' = FALSE
  /\ armed' = IF armed = "shadow" THEN "on" ELSE armed
  /\ UNCHANGED <<iflag, ienable, ime, delay, halt, vector, shadowHalt>>

\* run_next_instruction: the HALT bug is spent on this fetch.
Fetch ==
  /\ before = 0 /\ effect = "step" /\ halt # "HALT"
  /\ halt' = "NO_HALT"
  /\ \E i \in Instructions : Program(i.before, i.effect, i.after)
  /\ entry' = FALSE
  /\ armed' = IF armed = "shadow" THEN "on" ELSE armed
  /\ UNCHANGED <<iflag, ienable, ime, delay, vector, shadowHalt>>

\* run_single_instruction while halted: one cycle and nothing else.
HaltedTick ==
  /\ before = 0 /\ effect = "step" /\ halt = "HALT"
  /\ Program(0, "none", 0)
  /\ Cycle

Reached(e) == before = 0 /\ effect = e /\ Program(0, "none", after)

\* Mutants of Enable: every EI restarts the countdown; one cycle too many.
EnableRestarts ==
  /\ Reached("enable")
  /\ delay' = EnableDelay
  /\ armed' = CASE after = 2 -> "on"
                [] after # 2 /\ armed = "off" -> "shadow"
                [] OTHER -> armed
  /\ UNCHANGED <<iflag, ienable, ime, halt, vector, entry, shadowHalt>>
EnableLong ==
  /\ Reached("enable")
  /\ delay' = IF delay > 0 THEN delay ELSE EnableDelay + 1
  /\ armed' = CASE after = 2 -> "on"
                [] after # 2 /\ armed = "off" -> "shadow"
                [] OTHER -> armed
  /\ UNCHANGED <<iflag, ienable, ime, halt, vector, entry, shadowHalt>>

\* EI, and RETI two cycles before its end: enable_interrupts.
Enable ==
  /\ Reached("enable")
  /\ delay' = IF delay > 0 THEN delay ELSE EnableDelay
  /\ armed' = CASE after = 2 -> "on"
                [] after # 2 /\ armed = "off" -> "shadow"
                [] OTHER -> armed
  /\ UNCHANGED <<iflag, ienable, ime, halt, vector, entry, shadowHalt>>

Disable ==
  /\ Reached("disable")
  /\ ime' = FALSE /\ delay' = 0
  /\ armed' = "off"
  /\ UNCHANGED <<iflag, ienable, halt, vector, entry, shadowHalt>>

\* HALT sleeps, unless interrupts are off and one is pending already.
Halt ==
  /\ Reached("halt")
  /\ halt' = IF ~ime /\ Pending THEN "HALT_BUG" ELSE "HALT"
  /\ shadowHalt' = (~ime /\ armed = "on")
  /\ UNCHANGED <<iflag, ienable, ime, delay, vector, entry, armed>>

\* The program stores to IF or IE.
Write ==
  /\ Reached("write")
  /\ \/ iflag' \in SUBSET Sources /\ UNCHANGED ienable
     \/ ienable' \in SUBSET Sources /\ UNCHANGED iflag
  /\ UNCHANGED <<ime, delay, halt, vector, entry, armed, shadowHalt>>

Next ==
  \/ TickBefore \/ TickAfter \/ HaltedTick
  \/ CheckOnly \/ Dispatch \/ Fetch
  \/ Enable \/ Disable \/ Halt \/ Write

Spec == Init /\ [][Next]_vars

\* The main loop executes instructions without end.
FairSpec == Spec /\ WF_vars(Next)

-----------------------------------------------------------------------------
\* Every variable keeps its range; delay never exceeds INTERRUPT_ENABLE_DELAY.
TypeOK ==
  /\ iflag \in SUBSET Sources /\ ienable \in SUBSET Sources
  /\ ime \in BOOLEAN /\ delay \in 0 .. EnableDelay
  /\ halt \in HaltStates
  /\ before \in Nat /\ effect \in Effects /\ after \in Nat
  /\ vector \in Sources \union {None} /\ entry \in BOOLEAN
  /\ armed \in {"off", "shadow", "on"} /\ shadowHalt \in BOOLEAN

\* The countdown of check_for_enable runs in machine cycles, the delay of EI is
\* one instruction: whenever service_interrupts looks, the two agree, whatever
\* the lengths of the instructions and however EI, RETI, DI and HALT follow one
\* another.
DelayIsOneInstruction == Boundary => (ime <=> armed = "on")

\* The HALT bug is for the opcode behind HALT.  It hits a handler's first opcode
\* instead only if that HALT stood right behind an EI: its last cycle enables
\* interrupts, and service_interrupts dispatches without clearing HALT_BUG.
HaltBugLeaksOnlyBehindEI == halt = "HALT_BUG" /\ entry => shadowHalt

\* A dispatch acknowledges the source it serves and leaves no better-ranked one
\* waiting; it goes to address 0 only if pushing PC overwrote IE or IF.
DispatchServesBest ==
  [][entry' /\ ~entry =>
       IF vector' = None
       THEN <<iflag, ienable>>' # <<iflag, ienable>>
       ELSE /\ vector' \notin iflag'
            /\ ienable' = ienable =>
                 \A s \in iflag' \intersect ienable : Rank[vector'] < Rank[s]]_vars

\* A halted CPU wakes once an enabled request waits.
HaltEnds == halt = "HALT" /\ Pending ~> halt # "HALT"

\* With interrupts enabled a waiting request is dispatched, unless the program
\* disables interrupts or withdraws it.
EnabledRequestIsServed == ime /\ Pending ~> entry \/ ~ime \/ ~Pending
=============================================================================
