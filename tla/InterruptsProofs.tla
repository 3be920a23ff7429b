--------------------------- MODULE InterruptsProofs ---------------------------
(***************************************************************************)
(* Interrupts for every set of sources and every instruction length: EI's  *)
(* delay is one instruction, and the HALT bug reaches a handler only when  *)
(* HALT stands right behind an EI.                                         *)
(***************************************************************************)
EXTENDS Interrupts, WellFoundedInduction, TLAPS

-----------------------------------------------------------------------------
(***************************************************************************)
(* DelayIsOneInstruction speaks of boundaries only.  In between, the cycle *)
(* countdown must be short enough for what is left of the instruction, so  *)
(* that it ends before the next check (armed = "on"), and just too long    *)
(* while EI itself runs (armed = "shadow").                                *)
(***************************************************************************)
Shape ==
  /\ effect = "step" => after = 0
  /\ effect = "enable" => after \in {1, 2}
  /\ effect \notin {"none", "step"} => halt = "NO_HALT" /\ ~entry

Countdown ==
  /\ armed = "off" => ~ime /\ delay = 0
  /\ armed = "shadow" => /\ ~ime /\ delay = 1 + after
                         /\ before = 0 /\ effect \in {"none", "step"}
                         /\ halt = "NO_HALT"
  /\ armed = "on" => ime \/ (delay > 0 /\ delay <= before + after)

\* A HALT bug met with interrupts off for good is spent before a dispatch.
BugOwner ==
  /\ halt = "HALT_BUG" => shadowHalt \/ armed = "off"
  /\ HaltBugLeaksOnlyBehindEI

IInv == TypeOK /\ Shape /\ Countdown /\ BugOwner

\* The instruction classes, one by one: EI, DI and HALT, then RETI, then
\* everything else.
LEMMA InstructionShape ==
  ASSUME NEW i \in Instructions
  PROVE  /\ i.before \in Nat /\ i.effect \in Effects \ {"step"} /\ i.after \in {1, 2}
BY InterruptsAssumption DEF Instructions, Effects

\* service_interrupts' chain of tests finds a source in every non-empty set.
LEMMA FirstIsMember ==
  ASSUME NEW S \in SUBSET Sources, S # {}
  PROVE  First(S) \in S /\ \A t \in S : Rank[First(S)] <= Rank[t]
<1>1. DEFINE ranks == {Rank[s] : s \in S}
<1>2. ranks \subseteq Nat /\ ranks # {}
  BY InterruptsAssumption
<1>3. PICK x \in ranks : \A y \in ranks : ~(<<y, x>> \in OpToRel(<, Nat))
  <2> HIDE DEF ranks
  <2>1. QED
    BY <1>2, NatLessThanWellFounded, WFMin
<1>4. \A y \in ranks : x <= y
  <2>1. \A y \in Nat : x \in Nat /\ ~(<<y, x>> \in OpToRel(<, Nat)) => x <= y
    BY DEF OpToRel
  <2> HIDE DEF ranks
  <2>2. QED
    BY <1>2, <1>3, <2>1
<1>5. PICK s \in S : Rank[s] = x
  BY <1>3
<1>6. \A t \in S : Rank[s] <= Rank[t]
  BY <1>4, <1>5
<1>7. QED
  BY <1>6 DEF First

\* One machine cycle: what it may change, and how the countdown moves.
LEMMA CycleKeeps ==
  ASSUME TypeOK, Cycle
  PROVE  /\ iflag' \in SUBSET Sources
         /\ ime' \in BOOLEAN
         /\ delay' \in 0 .. EnableDelay
         /\ UNCHANGED <<ienable, halt, vector, entry, armed, shadowHalt>>
         /\ delay = 0 => delay' = 0 /\ ime' = ime
         /\ delay = 1 => delay' = 0 /\ ime'
         /\ delay = 2 => delay' = 1 /\ ime' = ime
<1>1. delay' = IF delay > 0 THEN delay - 1 ELSE 0
  BY DEF Cycle
<1>2. delay \in {0, 1, 2}
  BY DEF TypeOK, EnableDelay
<1>3. /\ delay' \in 0 .. EnableDelay
      /\ delay = 0 => delay' = 0
      /\ delay = 1 => delay' = 0
      /\ delay = 2 => delay' = 1
  BY <1>1, <1>2 DEF EnableDelay
<1>4. ime' \in BOOLEAN
  BY DEF Cycle
<1>5. ime \in BOOLEAN /\ (delay = 1 => ime')
  BY DEF Cycle, TypeOK
<1>6. delay # 1 => ime' = ime
  BY <1>5 DEF Cycle
<1>7. iflag' \in SUBSET Sources
  BY DEF Cycle, TypeOK
<1>8. QED
  BY <1>2, <1>3, <1>4, <1>5, <1>6, <1>7 DEF Cycle

-----------------------------------------------------------------------------
\* The constructor's state satisfies the invariant.
LEMMA InitIInv == Init => IInv
<1> SUFFICES ASSUME Init
             PROVE  IInv
  OBVIOUS
<1>1. delay \in 0 .. EnableDelay
  BY DEF Init, EnableDelay
<1>2. TypeOK
  BY <1>1, InterruptsAssumption DEF Init, TypeOK, HaltStates, Effects
<1>3. Shape /\ Countdown /\ BugOwner
  BY DEF Init, Shape, Countdown, BugOwner, HaltBugLeaksOnlyBehindEI
<1>4. QED
  BY <1>2, <1>3 DEF IInv

\* What each step does to the ranges.
LEMMA NextTypeOK == TypeOK /\ [Next]_vars => TypeOK'
<1> SUFFICES ASSUME TypeOK, [Next]_vars
             PROVE  TypeOK'
  OBVIOUS
<1>1. CASE TickBefore
  BY <1>1, CycleKeeps DEF TickBefore, Program, TypeOK
<1>2. CASE TickAfter
  BY <1>2, CycleKeeps DEF TickAfter, Program, TypeOK, Effects
<1>3. CASE HaltedTick
  BY <1>3, CycleKeeps DEF HaltedTick, Program, TypeOK, Effects
<1>4. CASE CheckOnly
  BY <1>4 DEF CheckOnly, Program, TypeOK, Effects, HaltStates
<1>5. CASE Dispatch
  <2>1. PICK f \in SUBSET Sources, e \in SUBSET Sources : Push(f, e) /\ Serve(f, e)
    BY <1>5 DEF Dispatch
  <2>2. ienable' \in SUBSET Sources
    BY <2>1 DEF Push, TypeOK
  <2>3. iflag' \in SUBSET Sources /\ vector' \in Sources \union {None}
    <3>1. CASE f \intersect e = {}
      BY <2>1, <3>1 DEF Serve
    <3>2. CASE f \intersect e # {}
      <4>1. vector' = First(f \intersect e) /\ iflag' = f \ {First(f \intersect e)}
        BY <2>1, <3>2 DEF Serve
      <4>2. First(f \intersect e) \in f \intersect e
        BY <3>2, FirstIsMember
      <4>3. QED
        BY <4>1, <4>2
    <3>3. QED
      BY <3>1, <3>2
  <2>4. ime' \in BOOLEAN /\ entry' \in BOOLEAN /\ shadowHalt' \in BOOLEAN
    BY <1>5 DEF Dispatch, TypeOK
  <2>5. delay' \in 0 .. EnableDelay /\ before' \in Nat /\ after' \in Nat
    BY <1>5 DEF Dispatch, Program, EnableDelay, DispatchCycles
  <2>6. halt' \in HaltStates /\ effect' \in Effects /\ armed' \in {"off", "shadow", "on"}
    BY <1>5 DEF Dispatch, Program, TypeOK, Effects, HaltStates
  <2>7. QED
    BY <2>2, <2>3, <2>4, <2>5, <2>6 DEF TypeOK
<1>6. CASE Fetch
  <2>1. PICK i \in Instructions : Program(i.before, i.effect, i.after)
    BY <1>6 DEF Fetch
  <2>2. before' \in Nat /\ effect' \in Effects /\ after' \in Nat
    BY <2>1, InstructionShape DEF Program
  <2>3. armed' \in {"off", "shadow", "on"} /\ halt' \in HaltStates
    BY <1>6 DEF Fetch, TypeOK, HaltStates
  <2>4. entry' \in BOOLEAN
    BY <1>6 DEF Fetch
  <2>5. QED
    BY <1>6, <2>2, <2>3, <2>4 DEF Fetch, TypeOK
<1>7. CASE Enable
  BY <1>7 DEF Enable, Reached, Program, TypeOK, Effects, EnableDelay
<1>8. CASE Disable
  <2>1. delay' \in 0 .. EnableDelay
    BY <1>8 DEF Disable, EnableDelay
  <2>2. ime' \in BOOLEAN
    BY <1>8 DEF Disable
  <2>3. QED
    BY <1>8, <2>1, <2>2 DEF Disable, Reached, Program, TypeOK, Effects
<1>9. CASE Halt
  BY <1>9 DEF Halt, Reached, Program, TypeOK, Effects, HaltStates
<1>10. CASE Write
  BY <1>10 DEF Write, Reached, Program, TypeOK, Effects
<1>11. CASE UNCHANGED vars
  BY <1>11 DEF vars, cpu, TypeOK
<1>12. QED
  BY <1>1, <1>2, <1>3, <1>4, <1>5, <1>6, <1>7, <1>8, <1>9, <1>10, <1>11 DEF Next

-----------------------------------------------------------------------------
\* Arithmetic on what is left of an instruction.
LEMMA FetchedTakesTime ==
  \A b \in Nat, a \in {1, 2} : 1 <= b + a
  OBVIOUS

LEMMA OneCycleLess ==
  \A b, a, bb, aa \in Nat : bb + aa = b + a - 1 /\ 2 <= b + a => 1 <= bb + aa
  OBVIOUS

\* A cycle inside or after an instruction brings the countdown one closer.
LEMMA TickCountdown ==
  ASSUME TypeOK, Shape, Countdown, Cycle,
         before' \in Nat, after' \in Nat,
         before' + after' = before + after - 1,
         effect' = effect,
         armed = "shadow" => after' = after - 1 /\ before' = 0
  PROVE  Countdown'
<1> USE DEF Countdown
<1>1. armed' = armed /\ halt' = halt
  BY CycleKeeps
<1>2. CASE armed = "off"
  BY <1>1, <1>2, CycleKeeps
<1>3. CASE armed = "shadow"
  <2>1. delay = 2 /\ after = 1
    BY <1>3 DEF TypeOK, EnableDelay
  <2>2. QED
    BY <1>1, <1>3, <2>1, CycleKeeps
<1>4. CASE armed = "on"
  <2>1. CASE ime
    <3>1. ime'
      BY <2>1 DEF Cycle
    <3>2. QED
      BY <1>1, <1>4, <3>1
  <2>2. CASE ~ime /\ delay = 1
    BY <1>1, <1>4, <2>2, CycleKeeps
  <2>3. CASE ~ime /\ delay = 2
    <3>1. delay' = 1
      BY <2>3, CycleKeeps
    <3>2. delay <= before + after
      BY <1>4, <2>3
    <3>3. before \in Nat /\ after \in Nat /\ 2 <= before + after
      BY <2>3, <3>2 DEF TypeOK
    <3>4. before' \in Nat /\ after' \in Nat /\ before' + after' = before + after - 1
      OBVIOUS
    <3>5. 1 <= before' + after'
      <4> HIDE DEF Countdown
      <4>1. QED
        BY <3>3, <3>4, OneCycleLess
    <3>6. delay' > 0 /\ delay' <= before' + after'
      <4> HIDE DEF Countdown
      <4>1. delay' > 0
        BY <3>1
      <4>2. delay' <= before' + after'
        BY <3>1, <3>5
      <4>3. QED
        BY <4>1, <4>2
    <3>7. QED
      BY <1>1, <1>4, <3>6
  <2>4. QED
    BY <1>4, <2>1, <2>2, <2>3 DEF TypeOK, EnableDelay
<1>5. QED
  BY <1>2, <1>3, <1>4 DEF TypeOK

\* Every step keeps the invariant.
LEMMA NextIInv == IInv /\ [Next]_vars => IInv'
<1> SUFFICES ASSUME IInv, [Next]_vars
             PROVE  IInv'
  OBVIOUS
<1>a. TypeOK'
  BY NextTypeOK DEF IInv
<1> USE DEF IInv, BugOwner, HaltBugLeaksOnlyBehindEI
<1>1. CASE TickBefore
  <2>1. before > 0 /\ before' = before - 1 /\ effect' = effect /\ after' = after /\ Cycle
    BY <1>1 DEF TickBefore, Program
  <2>2. armed # "shadow"
    BY <2>1 DEF Countdown
  <2>3. before' \in Nat /\ after' \in Nat /\ before' + after' = before + after - 1
    BY <2>1 DEF TypeOK
  <2>4. Countdown'
    BY <2>1, <2>2, <2>3, TickCountdown
  <2>5. Shape' /\ BugOwner'
    BY <2>1, CycleKeeps DEF Shape
  <2>6. QED
    BY <1>a, <2>4, <2>5
<1>2. CASE TickAfter
  <2>1. /\ before = 0 /\ effect = "none" /\ after > 0
        /\ before' = 0 /\ effect' = "none" /\ after' = after - 1 /\ Cycle
    BY <1>2 DEF TickAfter, Program
  <2>2. before' \in Nat /\ after' \in Nat /\ before' + after' = before + after - 1
    BY <2>1 DEF TypeOK
  <2>3. Countdown'
    BY <2>1, <2>2, TickCountdown
  <2>4. Shape' /\ BugOwner'
    BY <2>1, CycleKeeps DEF Shape
  <2>5. QED
    BY <1>a, <2>3, <2>4
<1>3. CASE HaltedTick
  <2>1. /\ before = 0 /\ effect = "step" /\ halt = "HALT" /\ after = 0
        /\ before' = 0 /\ effect' = "none" /\ after' = 0 /\ Cycle
    BY <1>3 DEF HaltedTick, Program, Shape
  <2>2. armed # "shadow"
    BY <2>1 DEF Countdown
  <2>3. Countdown'
    <3>1. CASE armed = "off"
      BY <2>1, <3>1, CycleKeeps DEF Countdown
    <3>2. CASE armed = "on"
      <4>1. ime
        BY <2>1, <3>2 DEF Countdown, TypeOK
      <4>2. ime'
        BY <2>1, <4>1 DEF Cycle
      <4>3. QED
        BY <2>1, <3>2, <4>2, CycleKeeps DEF Countdown
    <3>3. QED
      BY <2>2, <3>1, <3>2 DEF TypeOK
  <2>4. Shape' /\ BugOwner'
    BY <2>1, CycleKeeps DEF Shape
  <2>5. QED
    BY <1>a, <2>3, <2>4
<1>4. CASE CheckOnly
  <2>1. /\ before = 0 /\ effect = "none" /\ after = 0
        /\ before' = 0 /\ effect' = "step" /\ after' = 0
        /\ UNCHANGED <<ime, delay, entry, armed, shadowHalt>>
        /\ halt' = halt \/ halt' = "NO_HALT"
    BY <1>4 DEF CheckOnly, Boundary, Program
  <2>2. Countdown'
    BY <2>1 DEF Countdown
  <2>3. Shape' /\ BugOwner'
    BY <2>1 DEF Shape
  <2>4. QED
    BY <1>a, <2>2, <2>3
<1>5. CASE Dispatch
  <2>1. /\ before = 0 /\ after = 0 /\ ime
        /\ effect' = "step" /\ after' = 0
        /\ ~ime' /\ delay' = 0 /\ armed' = "off"
        /\ shadowHalt' = shadowHalt
        /\ halt' = halt \/ halt' = "NO_HALT"
    BY <1>5 DEF Dispatch, Boundary, Program
  <2>2. armed # "off"
    BY <2>1 DEF Countdown
  <2>3. halt' = "HALT_BUG" => shadowHalt'
    BY <2>1, <2>2
  <2>4. Countdown' /\ Shape'
    BY <2>1 DEF Countdown, Shape
  <2>5. QED
    BY <1>a, <2>3, <2>4
<1>6. CASE Fetch
  <2>1. PICK i \in Instructions : Program(i.before, i.effect, i.after)
    BY <1>6 DEF Fetch
  <2>2. before' \in Nat /\ effect' # "step" /\ after' \in {1, 2}
    BY <2>1, InstructionShape DEF Program
  <2>3. /\ before = 0 /\ effect = "step" /\ after = 0
        /\ halt' = "NO_HALT" /\ ~entry'
        /\ UNCHANGED <<ime, delay, shadowHalt>>
        /\ armed' = IF armed = "shadow" THEN "on" ELSE armed
    BY <1>6 DEF Fetch, Shape
  <2>4. 1 <= before' + after'
    BY <2>2, FetchedTakesTime
  <2>5. Countdown'
    <3>1. CASE armed = "off"
      BY <2>3, <3>1 DEF Countdown
    <3>2. CASE armed = "shadow"
      <4>1. delay = 1
        BY <2>3, <3>2 DEF Countdown
      <4>2. QED
        BY <2>3, <2>4, <3>2, <4>1 DEF Countdown
    <3>3. CASE armed = "on"
      <4>1. ime
        BY <2>3, <3>3 DEF Countdown, TypeOK
      <4>2. QED
        BY <2>3, <3>3, <4>1 DEF Countdown
    <3>4. QED
      BY <3>1, <3>2, <3>3 DEF TypeOK
  <2>6. Shape' /\ BugOwner'
    BY <2>2, <2>3 DEF Shape
  <2>7. QED
    BY <1>a, <2>5, <2>6
<1>7. CASE Enable
  <2>1. /\ before = 0 /\ effect = "enable" /\ after \in {1, 2}
        /\ before' = 0 /\ effect' = "none" /\ after' = after
        /\ UNCHANGED <<ime, halt, entry, shadowHalt>>
        /\ halt = "NO_HALT" /\ armed # "shadow"
    BY <1>7 DEF Enable, Reached, Program, Shape, Countdown
  <2>2. delay' = IF delay > 0 THEN delay ELSE 2
    BY <1>7 DEF Enable, EnableDelay
  <2>3. CASE after = 2
    <3>1. armed' = "on"
      BY <1>7, <2>3 DEF Enable
    <3>2. delay' > 0 /\ delay' <= before' + after'
      BY <2>1, <2>2, <2>3 DEF TypeOK, EnableDelay
    <3>3. QED
      BY <1>a, <2>1, <3>1, <3>2 DEF Shape, Countdown
  <2>4. CASE after = 1 /\ armed = "off"
    <3>1. armed' = "shadow"
      BY <1>7, <2>4 DEF Enable
    <3>2. ~ime' /\ delay' = 1 + after'
      BY <2>1, <2>2, <2>4 DEF Countdown
    <3>3. QED
      BY <1>a, <2>1, <3>1, <3>2 DEF Shape, Countdown
  <2>5. CASE after = 1 /\ armed = "on"
    <3>1. armed' = "on"
      BY <1>7, <2>5 DEF Enable
    <3>2. ime' \/ (delay' > 0 /\ delay' <= before' + after')
      BY <2>1, <2>2, <2>5 DEF Countdown
    <3>3. QED
      BY <1>a, <2>1, <3>1, <3>2 DEF Shape, Countdown
  <2>6. QED
    BY <2>1, <2>3, <2>4, <2>5 DEF TypeOK
<1>8. CASE Disable
  <2>1. /\ effect = "disable" /\ effect' = "none"
        /\ ~ime' /\ delay' = 0 /\ armed' = "off"
        /\ UNCHANGED <<halt, entry, shadowHalt>>
    BY <1>8 DEF Disable, Reached, Program
  <2>2. QED
    BY <1>a, <2>1 DEF Shape, Countdown
<1>9. CASE Halt
  <2>1. /\ before = 0 /\ effect = "halt" /\ effect' = "none"
        /\ before' = 0 /\ after' = after
        /\ UNCHANGED <<ime, delay, entry, armed>>
        /\ ~entry /\ armed # "shadow"
    BY <1>9 DEF Halt, Reached, Program, Shape, Countdown
  <2>2. halt' = "HALT_BUG" => shadowHalt' \/ armed = "off"
    BY <1>9, <2>1 DEF Halt, TypeOK
  <2>3. Countdown'
    BY <2>1 DEF Countdown
  <2>4. QED
    BY <1>a, <2>1, <2>2, <2>3 DEF Shape
<1>10. CASE Write
  <2>1. /\ before = 0 /\ effect = "write" /\ effect' = "none"
        /\ before' = 0 /\ after' = after
        /\ UNCHANGED <<ime, delay, halt, entry, armed, shadowHalt>>
    BY <1>10 DEF Write, Reached, Program
  <2>2. QED
    BY <1>a, <2>1 DEF Shape, Countdown
<1>11. CASE UNCHANGED vars
  BY <1>a, <1>11 DEF vars, cpu, Shape, Countdown
<1>12. QED
  BY <1>1, <1>2, <1>3, <1>4, <1>5, <1>6, <1>7, <1>8, <1>9, <1>10, <1>11 DEF Next

-----------------------------------------------------------------------------
\* The variables of Interrupts are well typed in every reachable state.
THEOREM TypeCorrect == Spec => []TypeOK
<1>1. IInv => TypeOK
  BY DEF IInv
<1>2. QED
  BY InitIInv, NextIInv, <1>1, PTL DEF Spec

\* At every check the cycle countdown agrees with the one-instruction delay of
\* EI (InterruptController::check_for_enable, service_interrupts).
THEOREM DelayIsOneInstructionAlways == Spec => []DelayIsOneInstruction
<1>1. IInv => DelayIsOneInstruction
  BY DEF IInv, TypeOK, Countdown, DelayIsOneInstruction, Boundary
<1>2. QED
  BY InitIInv, NextIInv, <1>1, PTL DEF Spec

\* A handler's first opcode meets the HALT bug only if HALT stood right behind
\* an EI (InterruptController::halt, clear_halt_bug).
THEOREM HaltBugLeaksOnlyBehindEIAlways == Spec => []HaltBugLeaksOnlyBehindEI
<1>1. IInv => HaltBugLeaksOnlyBehindEI
  BY DEF IInv, BugOwner
<1>2. QED
  BY InitIInv, NextIInv, <1>1, PTL DEF Spec

\* A dispatch acknowledges what it serves and serves the best of what waits; it
\* jumps to address 0 only when a byte of PC lands in IE or IF between the two
\* pushes (service_interrupts), for every set of sources and every ranking.
THEOREM DispatchServesBestAlways == Spec => DispatchServesBest
<1> DEFINE ServesBest ==
      IF vector' = None
      THEN <<iflag, ienable>>' # <<iflag, ienable>>
      ELSE /\ vector' \notin iflag'
           /\ ienable' = ienable =>
                \A s \in iflag' \intersect ienable : Rank[vector'] < Rank[s]
<1>1. ASSUME TypeOK, Dispatch
      PROVE  ServesBest
  <2>1. PICK flags \in SUBSET Sources, enables \in SUBSET Sources :
          Push(flags, enables) /\ Serve(flags, enables)
    BY <1>1 DEF Dispatch
  <2>2. iflag \intersect ienable # {} /\ iflag \in SUBSET Sources /\ ienable \in SUBSET Sources
    BY <1>1 DEF Dispatch, Pending, TypeOK
  <2>3. CASE flags \intersect enables = {}
    <3>1. vector' = None /\ iflag' = flags
      BY <2>1, <2>3 DEF Serve
    <3>2. ~(flags = iflag /\ enables = ienable)
      BY <2>2, <2>3
    <3>3. ienable' = enables \/ (enables = ienable /\ ienable' = ienable)
      BY <2>1, <3>2 DEF Push
    <3>4. <<iflag, ienable>>' # <<iflag, ienable>>
      BY <3>1, <3>2, <3>3
    <3> QED
      BY <3>1, <3>4
  <2>4. CASE flags \intersect enables # {}
    <3> DEFINE best == First(flags \intersect enables)
    <3>1. vector' = best /\ iflag' = flags \ {best}
      BY <2>1, <2>4 DEF Serve
    <3>2. /\ best \in flags \intersect enables
          /\ \A t \in flags \intersect enables : Rank[best] <= Rank[t]
      <4>1. flags \intersect enables \in SUBSET Sources
        BY <2>1
      <4> QED
        BY <2>4, <4>1, FirstIsMember
    <3> HIDE DEF best
    <3>3. best # None
      BY <2>1, <3>2, InterruptsAssumption
    <3>4. ASSUME ienable' = ienable
          PROVE  enables = ienable
      BY <2>1, <3>4 DEF Push
    <3>5. ASSUME enables = ienable, NEW s \in iflag' \intersect ienable
          PROVE  Rank[vector'] < Rank[s]
      <4>1. s \in flags \intersect enables /\ s # best
        BY <3>1, <3>5
      <4>2. Rank[best] <= Rank[s] /\ Rank[best] # Rank[s]
            /\ Rank[best] \in Nat /\ Rank[s] \in Nat
        BY <2>1, <3>2, <4>1, InterruptsAssumption
      <4> QED
        BY <3>1, <4>2
    <3> QED
      BY <3>1, <3>3, <3>4, <3>5
  <2> QED
    BY <2>3, <2>4
<1>2. ASSUME TypeOK, [Next]_vars, entry', ~entry
      PROVE  Dispatch
  BY <1>2 DEF Next, TickBefore, TickAfter, HaltedTick, CheckOnly, Fetch, Enable, Disable, Halt,
              Write, Cycle, vars
<1>3. TypeOK /\ [Next]_vars => (entry' /\ ~entry => ServesBest)
  BY <1>1, <1>2
<1> QED
  BY TypeCorrect, <1>3, PTL DEF Spec, DispatchServesBest
=============================================================================
