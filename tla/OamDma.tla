-------------------------------- MODULE OamDma --------------------------------
(***************************************************************************)
(* OAM DMA (ppu/oamdma.h, ppu/ppu_memory.cpp).  Every write to FF46 starts *)
(* one more transfer; the transfers run side by side in one vector, oldest *)
(* first, and the fifth at a time ends the process.  A byte of OAM is the  *)
(* page it was copied from, or Cpu if the program stored it.               *)
(***************************************************************************)
EXTENDS Integers, Sequences

CONSTANTS
  Size,             \* OAM_SIZE (160)
  WaitCycles,       \* OAMDMA_WAIT_CYCLES (2)
  MaxCount,         \* OAM_DMA_MAX_COUNT (4)
  Pages,            \* source pages
  Cpu,              \* a byte the program stored
  StartGap,         \* machine cycles between two FF46 writes, at least
  SafeGap           \* a spacing of FF46 writes that is meant to be safe

ASSUME OamDmaAssumption ==
  /\ Size \in Nat \ {0} /\ WaitCycles \in Nat /\ MaxCount \in Nat \ {0}
  /\ Cpu \notin Pages
  /\ StartGap \in Nat \ {0} /\ SafeGap \in Nat
  /\ MaxCount * SafeGap >= WaitCycles + Size

VARIABLES
  oam,              \* oam_
  dmas,             \* oam_dmas_
  page,             \* history: the source of the transfer started last
  exited,           \* StackVector called FATAL
  gap,              \* history: cycles since the last FF46 write, up to SafeGap
  spaced            \* history: all FF46 writes were SafeGap apart

dmaVars == <<oam, dmas, page, exited, gap, spaced>>

Index == 0 .. Size - 1
Transfer == [src : Pages, index : 0 .. Size, wait : 0 .. WaitCycles]
LongGap == IF SafeGap > StartGap THEN SafeGap ELSE StartGap

DmaInit ==
  /\ oam = [i \in Index |-> Cpu]
  /\ dmas = <<>>
  /\ page = Cpu
  /\ exited = FALSE /\ gap = LongGap /\ spaced = TRUE

\* OAMDMA::running of a transfer; is_oam_dma_running asks the oldest.
Copies(d) == d.wait = 0
DmaRunning == dmas # <<>> /\ Copies(Head(dmas))

\* Mutant of Step: the wait is not counted down.
StepStuck(d) == IF Copies(d) THEN [d EXCEPT !.index = @ + 1] ELSE d

\* OAMDMA::tick.
Step(d) == IF Copies(d) THEN [d EXCEPT !.index = @ + 1] ELSE [d EXCEPT !.wait = @ - 1]
Done(d) == d.index = Size

\* Mutant of Erase: the elements behind the erased one are not moved up.
EraseLast(s, i) == [k \in 1 .. Len(s) - 1 |-> s[k]]

\* StackVector::erase moves everything behind element i up by one.
Erase(s, i) == [k \in 1 .. Len(s) - 1 |-> IF k < i THEN s[k] ELSE s[k + 1]]

\* Of the transfers at the same byte of OAM the youngest writes last.
Youngest(S) == CHOOSE k \in S : \A j \in S : j <= k

\* PPUMemory::tick, from the oldest to the youngest.  Two transfers never end in
\* the same tick (a second one would stay in the vector, against DmaTypeOK).
DmaTick ==
  /\ ~exited
  /\ LET writers(i) == {k \in DOMAIN dmas : Copies(dmas[k]) /\ dmas[k].index = i}
     IN  oam' = [i \in Index |-> IF writers(i) = {} THEN oam[i]
                                 ELSE dmas[Youngest(writers(i))].src]
  /\ LET stepped == [k \in DOMAIN dmas |-> Step(dmas[k])]
         finished == {k \in DOMAIN dmas : Done(stepped[k])}
     IN  dmas' = IF finished = {} THEN stepped
                 ELSE Erase(stepped, CHOOSE k \in finished : TRUE)
  /\ gap' = IF gap < LongGap THEN gap + 1 ELSE gap
  /\ UNCHANGED <<page, exited, spaced>>

\* A store to FF46 starts a transfer if it fits; a full vector is FATAL.
Begin(p, fits) ==
  /\ ~exited /\ gap >= StartGap
  /\ gap' = 0
  /\ spaced' = (spaced /\ gap >= SafeGap)
  /\ page' = IF fits THEN p ELSE page
  /\ dmas' = IF fits THEN Append(dmas, [src |-> p, index |-> 0, wait |-> WaitCycles])
             ELSE dmas
  /\ exited' = ~fits
  /\ UNCHANGED oam

\* Mutant of Start: one transfer too few is let in.
StartOneFewer(p) == Begin(p, Len(dmas) + 1 < MaxCount)

Start(p) == Begin(p, Len(dmas) < MaxCount)

\* Mutant of WriteOam: a running transfer does not lock OAM.
WriteOamUnlocked(i) ==
  /\ ~exited
  /\ oam' = [oam EXCEPT ![i] = Cpu]
  /\ UNCHANGED <<dmas, page, exited, gap, spaced>>

\* A store to OAM, outside the PPU modes that lock it.
WriteOam(i) ==
  /\ ~exited
  /\ ~DmaRunning
  /\ oam' = [oam EXCEPT ![i] = Cpu]
  /\ UNCHANGED <<dmas, page, exited, gap, spaced>>

DmaNext ==
  \/ DmaTick
  \/ \E p \in Pages : Start(p)
  \/ \E i \in Index : WriteOam(i)

DmaSpec == DmaInit /\ [][DmaNext]_dmaVars

\* CPU::tick ticks the PPU, and PPU::tick its memory, without end.
DmaFairSpec == DmaSpec /\ WF_dmaVars(DmaTick)

-----------------------------------------------------------------------------
\* Every variable keeps its range; a finished transfer never stays in the vector.
DmaTypeOK ==
  /\ oam \in [Index -> Pages \union {Cpu}]
  /\ dmas \in Seq(Transfer) /\ Len(dmas) <= MaxCount
  /\ \A k \in DOMAIN dmas : ~Done(dmas[k])
  /\ page \in Pages \union {Cpu}
  /\ exited \in BOOLEAN /\ spaced \in BOOLEAN /\ gap \in 0 .. LongGap

\* Transfers that overlap do not disturb each other: while any of them copies,
\* OAM is hidden from the program, though only the oldest is asked; and what
\* the youngest has copied is overwritten neither by an older one that still
\* runs nor by the program.  So the transfer started last decides OAM.
LatestCopyIntact ==
  /\ (\E k \in DOMAIN dmas : Copies(dmas[k])) => DmaRunning
  /\ dmas # <<>> => \A i \in 0 .. dmas[Len(dmas)].index - 1 : oam[i] = page

\* The process ends only on a program that starts its transfers in a burst.
ExitNeedsBurst == exited => ~spaced

\* Once the program stops starting transfers, the vector drains for good
\* (PPUMemory::tick).
TransfersEnd ==
  <>[][\A p \in Pages : ~Start(p)]_dmaVars => <>[](dmas = <<>> \/ exited)
=============================================================================
