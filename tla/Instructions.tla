----------------------------- MODULE Instructions -----------------------------
(***************************************************************************)
(* The instruction set: InstructionHandler's two tables, the operand and   *)
(* operator structs they combine, the registers and the stack.             *)
(*                                                                         *)
(* A step fetches, decodes and runs one instruction.  The tables follow    *)
(* the opcode's octal digits X, Y and Z, as the operands do when they pick *)
(* a register out of the opcode.  "last" counts what the instruction did:  *)
(* its CPU::tick calls and its memory accesses.  Memory is a plain array:  *)
(* the memory bridge behind it is not modelled here, and the interrupt     *)
(* controller only receives "request" (see Interrupts).  "pushed" remembers *)
(* the words pushed and not yet popped while the program leaves SP and     *)
(* their bytes alone; "start" and "left" are the run's input and its bound.*)
(***************************************************************************)
EXTENDS Alu, Sequences

CONSTANTS
  Ram,               \* addresses that hold a byte; the others read FF
  Cases,             \* the states a run starts in: registers and memory
  MaxInstructions    \* bound: instructions a run executes

Names == {"A", "B", "C", "D", "E", "H", "L"}

\* Not every address holds a byte the program can store: the bridge sends stores
\* below 8000 to the cartridge's registers.
ASSUME InstructionsAssumption ==
  /\ Ram \subseteq Word /\ Ram # Word /\ MaxInstructions \in Nat
  /\ \A c \in Cases : /\ c.regs \in [Names -> Byte] /\ c.f \in FlagSet
                      /\ c.sp \in Word /\ c.pc \in Word /\ c.mem \in [Ram -> Byte]

VARIABLES regs, f, sp, pc, mem, request, crashed, last, pushed, left, start

vars == <<regs, f, sp, pc, mem, request, crashed, last, pushed, left, start>>

\* Mutant of W: SP and PC are not reduced to 16 bits.
WUnbounded(v) == v

\* A value as register16 and uint16_t keep it.
W(v) == v % 65536

Init ==
  /\ start \in Cases
  /\ regs = start.regs /\ f = start.f /\ sp = start.sp /\ pc = start.pc /\ mem = start.mem
  /\ request = "none" /\ crashed = FALSE
  /\ last = [ticks |-> 0, accesses |-> 0]
  /\ pushed = <<>> /\ left = MaxInstructions

-----------------------------------------------------------------------------
(* Memory, registers and operands *)

Read(a) == IF a \in Ram THEN mem[a] ELSE 255
Stored(m, a, v) == IF a \in Ram THEN [m EXCEPT ![a] = v] ELSE m
PushedBytes == {W(sp + i) : i \in 0 .. 2 * Len(pushed) - 1}

Write(a, v) ==
  /\ mem' = Stored(mem, a, v)
  /\ pushed' = IF a \in PushedBytes THEN <<>> ELSE pushed

Opcode == Read(pc)
X(op) == op \div 64
Y(op) == (op \div 8) % 8
Z(op) == op % 8
P(op) == (op \div 16) % 4
Odd(op) == Y(op) % 2 = 1
Imm8 == Read(W(pc + 1))
Imm16 == Imm8 + 256 * Read(W(pc + 2))

HL == 256 * regs.H + regs.L
Pair(p) == <<256 * regs.B + regs.C, 256 * regs.D + regs.E, HL, sp>>[p + 1]
WithPair(p, v) ==
  CASE p = 0 -> [regs EXCEPT !.B = v \div 256, !.C = v % 256]
    [] p = 1 -> [regs EXCEPT !.D = v \div 256, !.E = v % 256]
    [] p = 2 -> [regs EXCEPT !.H = v \div 256, !.L = v % 256]

SetPair(p, v) ==
  IF p = 3 THEN sp' = v /\ pushed' = <<>> /\ UNCHANGED regs
           ELSE regs' = WithPair(p, v) /\ UNCHANGED <<sp, pushed>>

\* R8: register i of the opcode; 6 stands for the byte HL points to, whose
\* operand (HLMEM) costs a tick.
R8(i) == <<"B", "C", "D", "E", "H", "L", "HL", "A">>[i + 1]

\* Mutant of HLMEM: the operand does not tick.
HLMEMFree(i) == 0

HLMEM(i) == IF i = 6 THEN 1 ELSE 0
Get8(i) == IF i = 6 THEN Read(HL) ELSE regs[R8(i)]
Put8(i, v) ==
  IF i = 6 THEN Write(HL, v) /\ UNCHANGED regs
           ELSE regs' = [regs EXCEPT ![R8(i)] = v] /\ UNCHANGED <<mem, pushed>>

Condition(op) == <<~f.z, f.z, ~f.c, f.c>>[(Y(op) % 4) + 1]

\* Every instruction ends here: its ticks, its accesses, where it leaves PC.
Retire(target, ticks, accesses) ==
  /\ pc' = target
  /\ last' = [ticks |-> ticks, accesses |-> accesses]
  /\ left' = left - 1
  /\ UNCHANGED <<crashed, start>>

\* An instruction starts unless the CPU is halted: stop() does nothing.  How a
\* halted CPU goes on is in Interrupts.
Ready == left > 0 /\ ~crashed /\ request # "halt"
Runs(length, ticks, accesses) == Ready /\ Retire(W(pc + length), ticks, accesses)

-----------------------------------------------------------------------------
(* Control and loads *)

\* NOP, STOP, HALT, DI and EI.
Control ==
  LET Requests == [op \in {16, 118, 243, 251} |->
                     CASE op = 16 -> "stop" [] op = 118 -> "halt" [] op = 243 -> "di" [] op = 251 -> "ei"]
  IN  /\ Opcode \in {0} \cup DOMAIN Requests
      /\ Runs(1, 1, 1)
      /\ request' = IF Opcode = 0 THEN request ELSE Requests[Opcode]
      /\ UNCHANGED <<regs, f, sp, mem, pushed>>

LoadR8R8 ==
  /\ X(Opcode) = 1 /\ Opcode # 118
  /\ Runs(1, 1 + HLMEM(Y(Opcode)) + HLMEM(Z(Opcode)), 1 + One(Y(Opcode) = 6) + One(Z(Opcode) = 6))
  /\ Put8(Y(Opcode), Get8(Z(Opcode)))
  /\ UNCHANGED <<f, sp, request>>

LoadR8Imm8 ==
  /\ X(Opcode) = 0 /\ Z(Opcode) = 6
  /\ Runs(2, 2 + HLMEM(Y(Opcode)), 2 + One(Y(Opcode) = 6))
  /\ Put8(Y(Opcode), Imm8)
  /\ UNCHANGED <<f, sp, request>>

\* A to or from (BC), (DE), (HL+), (HL-); HL moves before A is transferred.
LoadIndirect ==
  LET p == P(Opcode)
      address == Pair(IF p = 3 THEN 2 ELSE p)
      moved == CASE p < 2 -> regs
                 [] p = 2 -> WithPair(2, W(HL + 1))
                 [] p = 3 -> WithPair(2, W(HL - 1))
  IN  /\ X(Opcode) = 0 /\ Z(Opcode) = 2
      /\ Runs(1, 2, 2)
      /\ IF Odd(Opcode) THEN regs' = [moved EXCEPT !.A = Read(address)] /\ UNCHANGED <<mem, pushed>>
                        ELSE regs' = moved /\ Write(address, regs.A)
      /\ UNCHANGED <<f, sp, request>>

\* A to or from FF00 + n (E0, F0), FF00 + C (E2, F2) and nn (EA, FA).
LoadAbsolute ==
  LET wide == Odd(Opcode)
      address == CASE Z(Opcode) = 0 -> 65280 + Imm8
                   [] Z(Opcode) = 2 /\ ~wide -> 65280 + regs.C
                   [] OTHER -> Imm16
      bytes == CASE Z(Opcode) = 0 -> 2 [] Z(Opcode) = 2 /\ ~wide -> 1 [] OTHER -> 3
  IN  /\ Opcode \in {224, 226, 234, 240, 242, 250}
      /\ Runs(bytes, bytes + 1, bytes + 1)
      /\ IF Opcode < 240 THEN Write(address, regs.A) /\ UNCHANGED regs
                         ELSE regs' = [regs EXCEPT !.A = Read(address)] /\ UNCHANGED <<mem, pushed>>
      /\ UNCHANGED <<f, sp, request>>

LoadR16Imm16 ==
  /\ X(Opcode) = 0 /\ Z(Opcode) = 1 /\ ~Odd(Opcode)
  /\ Runs(3, 3, 3)
  /\ SetPair(P(Opcode), Imm16)
  /\ UNCHANGED <<f, mem, request>>

\* LD (nn),SP: the low byte first, both in the last cycle.
StoreSP ==
  /\ Opcode = 8
  /\ Runs(3, 5, 5)
  /\ mem' = [a \in Ram |-> CASE a = W(Imm16 + 1) -> sp \div 256 [] a = Imm16 -> sp % 256 [] OTHER -> mem[a]]
  /\ pushed' = IF {Imm16, W(Imm16 + 1)} \cap PushedBytes # {} THEN <<>> ELSE pushed
  /\ UNCHANGED <<regs, f, sp, request>>

LoadSPHL ==
  /\ Opcode = 249
  /\ Runs(1, 2, 1)
  /\ SetPair(3, HL)
  /\ UNCHANGED <<f, mem, request>>

\* LD HL,SP+e (F8) and ADD SP,e (E8).
OffsetSP ==
  LET sum == AddSp(sp, AsSigned(Imm8))
  IN  /\ Opcode \in {232, 248}
      /\ Runs(2, IF Opcode = 248 THEN 3 ELSE 4, 2)
      /\ SetPair(IF Opcode = 248 THEN 2 ELSE 3, sum.r)
      /\ f' = sum.f
      /\ UNCHANGED <<mem, request>>

-----------------------------------------------------------------------------
(* Arithmetic *)

\* ADD, ADC, SUB, SBC, AND, XOR, OR, CP on A and a register, (HL) or a byte.
Operation(op, v) ==
  LET carry == IF Y(op) \in {1, 3} THEN One(f.c) ELSE 0
  IN  CASE Y(op) \in {0, 1} -> Add(regs.A, v, carry)
        [] Y(op) \in {2, 3, 7} -> Sub(regs.A, v, carry)
        [] Y(op) = 4 -> And(regs.A, v)
        [] Y(op) = 5 -> Xor(regs.A, v)
        [] Y(op) = 6 -> Or(regs.A, v)

Arithmetic ==
  LET immediate == X(Opcode) = 3
      cost == IF immediate THEN 1 ELSE HLMEM(Z(Opcode))
      result == Operation(Opcode, IF immediate THEN Imm8 ELSE Get8(Z(Opcode)))
  IN  /\ X(Opcode) = 2 \/ (immediate /\ Z(Opcode) = 6)
      /\ Runs(IF immediate THEN 2 ELSE 1, 1 + cost, 1 + One(immediate \/ Z(Opcode) = 6))
      /\ regs' = IF Y(Opcode) = 7 THEN regs ELSE [regs EXCEPT !.A = result.r]
      /\ f' = result.f
      /\ UNCHANGED <<sp, mem, pushed, request>>

\* INC and DEC of a register or (HL); the operand is taken twice.
StepR8 ==
  LET result == IF Z(Opcode) = 4 THEN Inc(Get8(Y(Opcode)), f) ELSE Dec(Get8(Y(Opcode)), f)
  IN  /\ X(Opcode) = 0 /\ Z(Opcode) \in {4, 5}
      /\ Runs(1, 1 + 2 * HLMEM(Y(Opcode)), 1 + 2 * One(Y(Opcode) = 6))
      /\ Put8(Y(Opcode), result.r)
      /\ f' = result.f
      /\ UNCHANGED <<sp, request>>

StepR16 ==
  /\ X(Opcode) = 0 /\ Z(Opcode) = 3
  /\ Runs(1, 2, 1)
  /\ SetPair(P(Opcode), W(Pair(P(Opcode)) + (IF Odd(Opcode) THEN -1 ELSE 1)))
  /\ UNCHANGED <<f, mem, request>>

AddHLR16 ==
  LET result == AddHL(HL, Pair(P(Opcode)), f)
  IN  /\ X(Opcode) = 0 /\ Z(Opcode) = 1 /\ Odd(Opcode)
      /\ Runs(1, 2, 1)
      /\ SetPair(2, result.r)
      /\ f' = result.f
      /\ UNCHANGED <<mem, request>>

\* RLCA, RRCA, RLA and RRA clear the zero flag; then DAA, CPL, SCF and CCF.
Accumulator ==
  LET a == regs.A
      turned == <<RLC(a), RRC(a), RL(a, One(f.c)), RR(a, One(f.c))>>
      adjusted == Daa(a, f)
      y == Y(Opcode)
  IN  /\ X(Opcode) = 0 /\ Z(Opcode) = 7
      /\ Runs(1, 1, 1)
      /\ regs' = [regs EXCEPT !.A = CASE y < 4 -> turned[y + 1].r
                                      [] y = 4 -> adjusted.r
                                      [] y = 5 -> 255 - a
                                      [] y > 5 -> a]
      /\ f' = CASE y < 4 -> Flags(FALSE, FALSE, FALSE, turned[y + 1].c)
                [] y = 4 -> adjusted.f
                [] y = 5 -> Flags(f.z, TRUE, TRUE, f.c)
                [] y > 5 -> Flags(f.z, FALSE, FALSE, y = 6 \/ ~f.c)
      /\ UNCHANGED <<sp, mem, pushed, request>>

\* The CB table: the shifts, then BIT, RES and SET of bit Y.
Shift(op, v) ==
  <<RLC(v), RRC(v), RL(v, One(f.c)), RR(v, One(f.c)), SLA(v), SRA(v), SWAP(v), SRL(v)>>[Y(op) + 1]

ShiftOrBit ==
  LET op == Imm8
      v == Get8(Z(op))
      mask == Mask(Y(op))
      result == CASE X(op) = 0 -> Shift(op, v).r
                  [] X(op) = 2 -> IF Bit(v, Y(op)) THEN v - mask ELSE v
                  [] X(op) = 3 -> IF Bit(v, Y(op)) THEN v ELSE v + mask
  IN  /\ Opcode = 203
      /\ IF X(op) = 1 THEN Runs(2, 2 + HLMEM(Z(op)), 2 + One(Z(op) = 6)) /\ UNCHANGED <<regs, mem, pushed>>
                      ELSE Runs(2, 2 + 2 * HLMEM(Z(op)), 2 + 2 * One(Z(op) = 6)) /\ Put8(Z(op), result)
      /\ f' = CASE X(op) = 0 -> Flags(result = 0, FALSE, FALSE, Shift(op, v).c)
                [] X(op) = 1 -> Flags(~Bit(v, Y(op)), FALSE, TRUE, f.c)
                [] X(op) > 1 -> f
      /\ UNCHANGED <<sp, request>>

-----------------------------------------------------------------------------
(* The stack, jumps and calls *)

\* push_8 of b, where the stack pointer is s and memory is m.
Push8(s, m, b) == [sp |-> W(s - 1), mem |-> Stored(m, W(s - 1), b)]

\* The two push_8 of PUSH and of RST.
PushBytes(first, second) ==
  LET one == Push8(sp, mem, first)
      two == Push8(one.sp, one.mem, second)
  IN  sp' = two.sp /\ mem' = two.mem

\* Mutant of Push16: the two bytes the wrong way round.
Push16Swapped(v) ==
  LET s == W(sp - 2)
  IN  sp' = s /\ mem' = Stored(Stored(mem, W(s + 1), v % 256), s, v \div 256)

\* push_16, which CALL uses: the pointer moves once.
Push16(v) ==
  LET s == W(sp - 2)
  IN  sp' = s /\ mem' = Stored(Stored(mem, W(s + 1), v \div 256), s, v % 256)

\* History: v has been pushed, where there is memory for it.
Remember(v) == pushed' = IF {sp', W(sp' + 1)} \subseteq Ram THEN <<v>> \o pushed ELSE <<>>

\* The two pop_8 of POP and the returns, and the word they make of them.
Popped == Read(sp) + 256 * Read(W(sp + 1))
Pop == sp' = W(sp + 2) /\ pushed' = (IF pushed = <<>> THEN <<>> ELSE Tail(pushed))

\* R16STK: AF takes SP's place; POP AF keeps F's flags only.
Stacked(p) == IF p = 3 THEN 256 * regs.A + FlagByte(f) ELSE Pair(p)

PushR16 ==
  LET v == Stacked(P(Opcode))
  IN  /\ X(Opcode) = 3 /\ Z(Opcode) = 5 /\ ~Odd(Opcode)
      /\ Runs(1, 4, 3)
      /\ PushBytes(v \div 256, v % 256) /\ Remember(v)
      /\ UNCHANGED <<regs, f, request>>

PopR16 ==
  /\ X(Opcode) = 3 /\ Z(Opcode) = 1 /\ ~Odd(Opcode)
  /\ Runs(1, 3, 3)
  /\ Pop
  /\ IF P(Opcode) = 3
       THEN regs' = [regs EXCEPT !.A = Popped \div 256] /\ f' = ByteFlags(Popped % 256)
       ELSE regs' = WithPair(P(Opcode), Popped) /\ UNCHANGED f
  /\ UNCHANGED <<mem, request>>

\* JP, JP cc, JP HL, JR and JR cc.
Jump ==
  LET relative == X(Opcode) = 0
      conditional == Opcode \notin {24, 195, 233}
      taken == ~conditional \/ Condition(Opcode)
      length == CASE Opcode = 233 -> 1 [] relative -> 2 [] OTHER -> 3
      target == CASE Opcode = 233 -> HL
                  [] relative -> W(pc + 2 + AsSigned(Imm8))
                  [] OTHER -> Imm16
  IN  /\ \/ Opcode \in {24, 195, 233}
         \/ relative /\ Z(Opcode) = 0 /\ Y(Opcode) >= 4
         \/ X(Opcode) = 3 /\ Z(Opcode) = 2 /\ Y(Opcode) < 4
      /\ Ready
      /\ Retire(IF taken THEN target ELSE W(pc + length),
                length + One(taken /\ Opcode # 233), length)
      /\ UNCHANGED <<regs, f, sp, mem, pushed, request>>

\* CALL and CALL cc.
Call ==
  LET taken == Opcode = 205 \/ Condition(Opcode)
      next == W(pc + 3)
  IN  /\ Opcode = 205 \/ (X(Opcode) = 3 /\ Z(Opcode) = 4 /\ Y(Opcode) < 4)
      /\ Ready
      /\ Retire(IF taken THEN Imm16 ELSE next, 3 + 3 * One(taken), 3 + 2 * One(taken))
      /\ IF taken THEN Push16(next) /\ Remember(next) ELSE UNCHANGED <<sp, mem, pushed>>
      /\ UNCHANGED <<regs, f, request>>

\* RST, whose target is the opcode's own.
Restart ==
  LET next == W(pc + 1)
  IN  /\ X(Opcode) = 3 /\ Z(Opcode) = 7
      /\ Ready
      /\ Retire(8 * Y(Opcode), 4, 3)
      /\ PushBytes(next \div 256, next % 256) /\ Remember(next)
      /\ UNCHANGED <<regs, f, request>>

\* RET, RETI and RET cc.
Return ==
  LET conditional == Opcode \notin {201, 217}
      taken == ~conditional \/ Condition(Opcode)
  IN  /\ Opcode \in {201, 217} \/ (X(Opcode) = 3 /\ Z(Opcode) = 0 /\ Y(Opcode) < 4)
      /\ Ready
      /\ Retire(IF taken THEN Popped ELSE W(pc + 1),
                1 + One(conditional) + 3 * One(taken), 1 + 2 * One(taken))
      /\ IF taken THEN Pop ELSE UNCHANGED <<sp, pushed>>
      /\ request' = IF Opcode = 217 THEN "ei" ELSE request
      /\ UNCHANGED <<regs, f, mem>>

\* The table's eleven null entries: the emulator itself stops.
NoHandler ==
  /\ Opcode \in {211, 219, 221, 227, 228, 235, 236, 237, 244, 252, 253}
  /\ Ready
  /\ crashed' = TRUE /\ left' = left - 1
  /\ UNCHANGED <<regs, f, sp, pc, mem, request, last, pushed, start>>

Next ==
  \/ Control \/ LoadR8R8 \/ LoadR8Imm8 \/ LoadIndirect \/ LoadAbsolute
  \/ LoadR16Imm16 \/ StoreSP \/ LoadSPHL \/ OffsetSP
  \/ Arithmetic \/ StepR8 \/ StepR16 \/ AddHLR16 \/ Accumulator \/ ShiftOrBit
  \/ PushR16 \/ PopR16 \/ Jump \/ Call \/ Restart \/ Return \/ NoHandler

Spec == Init /\ [][Next]_vars

-----------------------------------------------------------------------------
\* Registers are bytes, SP and PC words, memory bytes.
TypeOK ==
  /\ regs \in [Names -> Byte] /\ f \in FlagSet
  /\ sp \in Word /\ pc \in Word /\ mem \in [Ram -> Byte]
  /\ request \in {"none", "halt", "stop", "di", "ei"} /\ crashed \in BOOLEAN
  /\ last \in [ticks : 0 .. 6, accesses : 0 .. 5]
  /\ pushed \in Seq(Word) /\ left \in 0 .. MaxInstructions

\* The memory bus carries one byte a cycle: an instruction never makes more
\* accesses than it ticks, though ticks are spread over the operand getters,
\* the operators, the CB prefix and execute (instruction_decoder.inc:30).
OneAccessPerCycle == last.accesses <= last.ticks

\* What a POP or a return takes is what the PUSH, CALL or RST it belongs to left,
\* whichever of push_16 and push_8 stored it, through any nesting and wherever
\* SP wraps around; only AF loses its lowest digit.
PopsReturnPushes ==
  [][pushed # <<>> =>
       /\ \A p \in 0 .. 3 : PopR16 /\ P(Opcode) = p =>
            Stacked(p)' = Head(pushed) - (IF p = 3 THEN Head(pushed) % 16 ELSE 0)
       /\ Return /\ sp' # sp => pc' = Head(pushed)]_vars

\* Two instructions together: ADD, ADC, SUB or SBC of two decimal bytes, then
\* DAA (39), leave the decimal sum or difference in A and its carry in F.
DecimalArithmetic ==
  LET op == start.mem[start.pc]
      next == W(start.pc + 1)
      a == Decimal(start.regs.A)
      b == Decimal(start.regs.B)
      carry == IF Y(op) \in {1, 3} THEN One(start.f.c) ELSE 0
      result == IF Y(op) < 2 THEN a + b + carry ELSE a - b - carry
  IN  (/\ {start.pc, next} \subseteq Ram
       /\ op \in {128, 136, 144, 152} /\ start.mem[next] = 39
       /\ start.regs.A \in BCD /\ start.regs.B \in BCD
       /\ left = MaxInstructions - 2) =>
        /\ regs.A \in BCD /\ Decimal(regs.A) = result % 100
        /\ f.c = (result \notin 0 .. 99) /\ f.z = (result % 100 = 0)
=============================================================================
