---------------------------- MODULE MCInstructions ----------------------------
(* Three kinds of run: every opcode and every CB opcode on a few data; ADD, ADC, *)
(* SUB and SBC of decimal bytes followed by DAA; and calls, pushes, pops and      *)
(* returns nested in each other, with the stack in the middle of memory and        *)
(* around its ends.  The bridge every access goes through has no state: its        *)
(* properties are evaluated over the whole address space when the run starts.      *)
EXTENDS Instructions, MemoryBridge, FiniteSets

Origin == 49152                     \* C000: the program
Cell == 49184                       \* C020: what HL points to
MCRam == (Origin .. Origin + 11) \cup {Cell, Cell + 1, 40, 65408, 65535, 0, 1} \cup (65528 .. 65534)
MCMaxInstructions == 7

Case(code, a, b, carry, stack, cell) ==
  [regs |-> [A |-> a, B |-> b, C |-> 128, D |-> 0, E |-> 15, H |-> Cell \div 256, L |-> Cell % 256],
   f |-> Flags(FALSE, FALSE, FALSE, carry), sp |-> stack, pc |-> Origin,
   mem |-> [m \in MCRam |-> CASE m - Origin \in 0 .. Len(code) - 1 -> code[m - Origin + 1]
                              [] m = Cell -> cell
                              [] m = 40 -> 201      \* RST 28 finds a RET
                              [] OTHER -> 0]]

Bytes == {0, 15, 255}
EachOpcode ==
  {Case(<<op, lo, hi>>, a, b, c, 65534, 240) :
     op \in Byte \ {203}, lo \in {6, 240}, hi \in {192}, a \in Bytes, b \in {0, 144}, c \in BOOLEAN}
EachShift ==
  {Case(<<203, op>>, a, 129, c, 65534, 240) : op \in Byte, a \in {0, 143}, c \in BOOLEAN}

SomeDecimals == {16 * h + l : h \in {0, 5, 9}, l \in {0, 5, 9}}
DecimalCases ==
  {Case(<<op, 39>>, a, b, c, 65534, 0) :
     op \in {128, 136, 144, 152}, a \in BCD, b \in SomeDecimals, c \in BOOLEAN}

\* CALL C006; ..; C006: PUSH AF; PUSH BC; two POPs, of HL and DE or of AF and HL;
\* a return; and a RST 28.
Nested ==
  {Case(<<call, 6, 192, 239, 0, 0, 245, 197>> \o pops \o <<return, 0>>, a, 66, c, stack, 0) :
     call \in {196, 205, 212, 220}, return \in {192, 201, 208, 216, 217},
     pops \in {<<225, 209>>, <<241, 225>>},
     a \in {0, 255}, c \in BOOLEAN, stack \in {65534, 2, 1}}

MCCases == EachOpcode \cup EachShift \cup DecimalCases \cup Nested

\* The lists of the memory bridge say what they must at each of 65536 addresses.
ASSUME BridgeChecked == OneReader /\ SameHoles /\ StoredBeforeNotified /\ EchoIsWorkRam /\ OwnersAreAsked
=============================================================================
