-------------------------------- MODULE MCCpu --------------------------------
(***************************************************************************)
(* Model checking of the CPU.  Four families of cases:                     *)
(*   data: one instruction without memory operand, for bytes on both sides *)
(*         of every boundary of the arithmetic;                            *)
(*   address: one instruction in every addressing mode, for index and      *)
(*         operand bytes that cross a page, wrap in the zero page and wrap *)
(*         at the end of memory, or do not;                                *)
(*   stack: sequences of calls, returns, pushes, pulls and interrupts,     *)
(*         with sp at both ends of its page;                               *)
(*   deep: interrupts within interrupts, until the page of the stack is    *)
(*         full and the oldest are overwritten.                            *)
(***************************************************************************)
EXTENDS Cpu

Samples == {0, 1, 2, 15, 16, 127, 128, 129, 254, 255}
Edges == {0, 2, 127, 255}

OpcodesIn(modes) == LET table == opcodes IN {op \in Byte : table[op].mode \in modes}

Registers(a, x, y, sp, flags, pc) ==
    [a |-> a, x |-> x, y |-> y, sp |-> sp, flags |-> flags \cup {"U"}, pc |-> pc]

DataCases ==
    {[state |-> Registers(a, 255 - a, (a + 1) % 256, 253, flags, pc),
      opcodes |-> OpcodesIn({"imm", "impl", "none"}),
      bytes |-> Samples, length |-> 1, nmis |-> 0] :
        a \in Samples, flags \in {{}, {"C", "D"}, {"Z", "N", "V"}}, pc \in {33008}}
    \cup
    {[state |-> Registers(85, 0, 0, 253, flags, pc), opcodes |-> OpcodesIn({"imm", "bitrel"}),
      bytes |-> Edges, length |-> 1, nmis |-> 0] :
        flags \in SUBSET {"C", "Z", "N", "V"}, pc \in {32772, 33008, 65533}}

AddressCases ==
    {[state |-> Registers(85, x, y, 253, flags, 33008),
      opcodes |-> OpcodesIn({"zp", "zpx", "zpy", "abs", "abx", "aby", "izx", "izy", "izp",
                             "ind", "abxW", "abyW", "izyW", "bus"}),
      bytes |-> Edges, length |-> 1, nmis |-> 0] :
        x \in {0, 129}, y \in {1, 255}, flags \in {{"C"}}}

StackCases ==
    {[state |-> Registers(1, 2, 3, sp, flags, 33008),
      opcodes |-> {0, 8, 32, 40, 64, 88, 96, 104},
      bytes |-> {3}, length |-> 4, nmis |-> 2] :
        sp \in {1, 253}, flags \in {{"I", "B"}}}

DeepCases ==
    {[state |-> Registers(1, 2, 3, 253, {}, 33008), opcodes |-> {0}, bytes |-> {3},
      length |-> 90, nmis |-> 0]}

MCCases == DataCases \cup AddressCases \cup StackCases \cup DeepCases
=============================================================================
