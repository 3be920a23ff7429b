------------------------------ MODULE EdgeTimer ------------------------------
(***************************************************************************)
(* What the timer promises, with the clock hidden: TIMA counts the falling *)
(* edges of one multiplexed signal (enable bit AND selected clock bit).    *)
(* A count that wraps is answered one machine cycle later by an interrupt  *)
(* request and a reload from TMA, unless TIMA is written in between.       *)
(* cpu/clock.cpp spreads this rule over tick, write_div and write_tac;     *)
(* module Timer is shown to implement it.                                  *)
(***************************************************************************)
EXTENDS Integers

CONSTANT ByteSize          \* number of values of TIMA and TMA (256)

VARIABLES
  signal,                  \* the multiplexed signal
  tima, tma,               \* the counter and its reload value
  reload,                  \* a wrapped count waits for its reload
  loaded,                  \* the reload happened in this machine cycle
  intr                     \* the timer bit of IF

vars == <<signal, tima, tma, reload, loaded, intr>>

Byte == 0 .. ByteSize - 1

Init == /\ signal \in BOOLEAN
        /\ tima = 0 /\ tma = 0
        /\ reload = FALSE /\ loaded = FALSE /\ intr \in BOOLEAN

\* The signal takes level s while the counter holds base: a falling edge counts.
Count(base, s) ==
  /\ signal' = s
  /\ tima' = IF signal /\ ~s THEN (base + 1) % ByteSize ELSE base

Wraps(base, s) == signal /\ ~s /\ base = ByteSize - 1

\* One machine cycle: a waiting reload first, then the clock moves the signal.
Cycle(s) ==
  LET base == IF reload THEN tma ELSE tima
  IN  /\ Count(base, s)
      /\ intr' = (intr \/ reload)
      /\ loaded' = reload
      /\ reload' = Wraps(base, s)
      /\ UNCHANGED tma

\* Between cycles a write to DIV or TAC may move the signal, and may count.
Reroute(s) ==
  /\ Count(tima, s)
  /\ reload' = (reload \/ Wraps(tima, s))
  /\ UNCHANGED <<tma, loaded, intr>>

\* A TIMA write cancels a waiting reload and is lost in the reload's own cycle.
WriteTima(v) ==
  /\ tima' = IF loaded /\ ~reload THEN tima ELSE v
  /\ reload' = FALSE
  /\ UNCHANGED <<signal, tma, loaded, intr>>

\* A TMA write in the reload's own cycle reaches TIMA too.
WriteTma(v) ==
  /\ tma' = v
  /\ tima' = IF loaded THEN v ELSE tima
  /\ UNCHANGED <<signal, reload, loaded, intr>>

Acknowledge == intr' = FALSE /\ UNCHANGED <<signal, tima, tma, reload, loaded>>

Next == \/ \E s \in BOOLEAN : Cycle(s) \/ Reroute(s)
        \/ \E v \in Byte : WriteTima(v) \/ WriteTma(v)
        \/ Acknowledge

Spec == Init /\ [][Next]_vars
=============================================================================
