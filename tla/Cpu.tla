--------------------------------- MODULE Cpu ---------------------------------
(***************************************************************************)
(* The CPU, one instruction after the other: cpu6502::run with the         *)
(* addressing modes and the handlers of the NES's flavour of the 6502      *)
(* (no decimal mode).  An instruction is fetched, its addressing mode      *)
(* forms the effective address, its handler does the work, and the pending *)
(* interrupt is looked at.  An NMI may be raised between any two of these; *)
(* nothing in the console raises an IRQ.                                   *)
(*                                                                         *)
(* What an instruction does on the bus is kept in trace: accesses, and a   *)
(* mark for every call of cycle(), at which the coroutine yields.          *)
(*                                                                         *)
(* The stack page is remembered.  Everything else a read may reach is      *)
(* ROM, RAM or a device whose content is open: it returns any of the bytes *)
(* of the case at hand (see Cases).                                        *)
(***************************************************************************)
EXTENDS Opcodes, Sequences, FiniteSets

CONSTANT
    Cases      (* starting points: registers, the opcodes and the bytes that *)
               (* memory may hold, how many instructions and NMIs to run     *)

Byte == 0..255
Address == 0..65535
FlagNames == {"C", "Z", "I", "D", "B", "U", "V", "N"}    \* U: the unused bit 5

ASSUME CaseAssumption ==
    \A c \in Cases :
        /\ c.state \in [a : Byte, x : Byte, y : Byte, sp : Byte,
                        flags : SUBSET FlagNames, pc : Address]
        /\ "U" \in c.state.flags
        /\ c.opcodes \subseteq Byte
        /\ c.bytes \subseteq Byte
        /\ c.length \in Nat /\ c.nmis \in Nat

VARIABLES
    state,           (* cpu6502::state                                       *)
    m_int_delay, m_nmi_pending,
    page1,           (* the bytes of the stack page written so far           *)
    phase,           (* fetch, address, execute or poll                      *)
    opcode, addr,    (* of the instruction being executed                    *)
    trace,           (* its accesses and cycles so far                       *)
    case,            (* the case at hand                                     *)
    length, nmis,    (* instructions executed and NMIs raised                *)
    frames           (* history: the returns that are due, innermost first   *)

budget == <<case, length, nmis>>
vars == <<state, m_int_delay, m_nmi_pending, page1, phase, opcode, addr, trace,
          budget, frames>>

Read(a, v) == <<"read", a, v>>
Write(a, v) == <<"write", a, v>>
Cycle == <<"cycle">>
Ignored == 0                          \* the value of a dummy read is not used

handler == opcodes[opcode].handler
mode == opcodes[opcode].mode
Bytes == case.bytes

-----------------------------------------------------------------------------
(***************************************************************************)
(* Bytes, words and flags.                                                 *)
(***************************************************************************)
Word(low, high) == low + 256 * high
Wrapped(w) == w % 65536               \* what a uint16_t keeps
Low(w) == w % 256
High(w) == w \div 256
Signed(v) == IF v < 128 THEN v ELSE v - 256

Bit(v, i) == (v \div 2^i) % 2
FromBits(b) == b[0] + 2 * b[1] + 4 * b[2] + 8 * b[3]
               + 16 * b[4] + 32 * b[5] + 64 * b[6] + 128 * b[7]
And(v, w) == FromBits([i \in 0..7 |-> Bit(v, i) * Bit(w, i)])
Or(v, w) == v + w - And(v, w)
Xor(v, w) == v + w - 2 * And(v, w)

FlagBit == [C |-> 1, Z |-> 2, I |-> 4, D |-> 8, B |-> 16, U |-> 32, V |-> 64, N |-> 128]

ByteOf(flags) ==
    LET on(f) == IF f \in flags THEN FlagBit[f] ELSE 0
    IN on("C") + on("Z") + on("I") + on("D") + on("B") + on("U") + on("V") + on("N")

FlagsOf(v) == {f \in FlagNames : (v \div FlagBit[f]) % 2 = 1}

SetFlag(flags, f, val) == IF val THEN flags \cup {f} ELSE flags \ {f}
Carry == IF "C" \in state.flags THEN 1 ELSE 0

(***************************************************************************)
(* test_zn                                                                 *)
(***************************************************************************)
TestZn(flags, v) == SetFlag(SetFlag(flags, "Z", v = 0), "N", v >= 128)

-----------------------------------------------------------------------------
Init ==
    /\ case \in Cases
    /\ state = case.state
    /\ m_int_delay = FALSE /\ m_nmi_pending = FALSE
    /\ page1 = <<>>
    /\ phase = "fetch"
    /\ opcode = 0 /\ addr = 0
    /\ trace = <<>>
    /\ length = 0 /\ nmis = 0
    /\ frames = <<>>

(***************************************************************************)
(* fetch_opcode and the lookup of the callback.                            *)
(***************************************************************************)
Fetch ==
    /\ phase = "fetch"
    /\ length < case.length
    /\ phase' = "address"
    /\ opcode' \in case.opcodes
    /\ state' = [state EXCEPT !.pc = Wrapped(@ + 1)]
    /\ trace' = <<Read(state.pc, opcode'), Cycle>>
    /\ m_int_delay' = FALSE
    /\ length' = length + 1
    /\ UNCHANGED <<m_nmi_pending, page1, addr, case, nmis, frames>>

(***************************************************************************)
(* pull_nmi_low on a falling edge, called by the PPU between two cycles.   *)
(***************************************************************************)
RaiseNmi ==
    /\ nmis < case.nmis
    /\ nmis' = nmis + 1
    /\ m_nmi_pending' = TRUE
    /\ UNCHANGED <<state, m_int_delay, page1, phase, opcode, addr, trace,
                   case, length, frames>>

-----------------------------------------------------------------------------
(***************************************************************************)
(* addr_mode_get: the effective address, the operand bytes used, and what  *)
(* is read on the way.                                                     *)
(***************************************************************************)
Addressed(address, operands, accesses) ==
    /\ phase = "address"
    /\ phase' = "execute"
    /\ addr' = address
    /\ state' = [state EXCEPT !.pc = Wrapped(@ + operands)]
    /\ trace' = trace \o accesses
    /\ UNCHANGED <<m_int_delay, m_nmi_pending, page1, opcode, budget, frames>>

Operand(i, v) == <<Read(Wrapped(state.pc + i), v), Cycle>>
Pointer(zero, v) == <<Read(zero, v), Cycle>>

(* The address an indexed mode touches before the carry into the page. *)
WrongPage(base, index) == Word((Low(base) + index) % 256, High(base))
Crosses(base, index) == Low(base) + index >= 256

(* A slip to be caught: the index is added with its carry before the dummy read. *)
DummyReadCarried(base, index) == <<Read(Wrapped(base + index), Ignored), Cycle>>

DummyRead(base, index) == <<Read(WrongPage(base, index), Ignored), Cycle>>

Indexed(base, index) == Wrapped(base + index)

NextZero(zero) == (zero + 1) % 256

Implied ==
    /\ mode \in {"impl", "none"}
    /\ Addressed(addr, 0, IF mode = "impl" THEN <<Cycle>> ELSE <<>>)

Immediate == mode = "imm" /\ Addressed(state.pc, 1, <<>>)

ZeroPage ==
    /\ mode = "zp"
    /\ \E zero \in Bytes : Addressed(zero, 1, Operand(0, zero))

ZeroPageIndexed ==
    /\ mode \in {"zpx", "zpy"}
    /\ LET index == IF mode = "zpx" THEN state.x ELSE state.y
       IN \E zero \in Bytes :
              Addressed((zero + index) % 256, 1,
                        Operand(0, zero) \o <<Read(zero, Ignored), Cycle>>)

Absolute ==
    /\ mode \in {"abs", "ind"}
    /\ \E low, high \in Bytes :
           Addressed(Word(low, high), 2, Operand(0, low) \o Operand(1, high))

AbsoluteIndexed ==
    /\ mode \in {"abx", "aby", "abxW", "abyW"}
    /\ LET index == IF mode \in {"abx", "abxW"} THEN state.x ELSE state.y
       IN \E low, high \in Bytes :
              LET base == Word(low, high)
              IN Addressed(Indexed(base, index), 2,
                     Operand(0, low) \o Operand(1, high)
                     \o IF Crosses(base, index) \/ mode \in {"abxW", "abyW"}
                        THEN DummyRead(base, index) ELSE <<>>)

IndZeroX ==
    /\ mode = "izx"
    /\ \E zero, low, high \in Bytes :
           LET at == (zero + state.x) % 256
           IN Addressed(Word(low, high), 1,
                  Operand(0, zero) \o <<Read(zero, Ignored), Cycle>>
                  \o Pointer(at, low) \o Pointer(NextZero(at), high))

IndZeroY ==
    /\ mode \in {"izy", "izyW"}
    /\ \E zero, low, high \in Bytes :
           LET base == Word(low, high)
           IN Addressed(Indexed(base, state.y), 1,
                  Operand(0, zero) \o Pointer(zero, low) \o Pointer(NextZero(zero), high)
                  \o IF Crosses(base, state.y) \/ mode = "izyW"
                     THEN DummyRead(base, state.y) ELSE <<>>)

IndirectZP ==
    /\ mode = "izp"
    /\ \E zero, low, high \in Bytes :
           Addressed(Word(low, high), 1,
               Operand(0, zero) \o Pointer(zero, low) \o Pointer(NextZero(zero), high))

(* SAY and XAS: the address without its index, whichever that is (X is looked at). *)
BusConflictInvalid ==
    /\ mode = "bus"
    /\ \E low, high \in Bytes :
           LET base == Word(low, high)
           IN Addressed(base, 2,
                  Operand(0, low) \o Operand(1, high)
                  \o IF Crosses(base, state.x) THEN DummyRead(base, state.x) ELSE <<>>)

(* generate_bit_rel_callback: both operands are fetched, the first is the address. *)
BitRelative ==
    /\ mode = "bitrel"
    /\ \E zero, disp \in Bytes : Addressed(zero, 2, Operand(0, zero) \o Operand(1, disp))

AddressMode ==
    \/ Implied \/ Immediate \/ ZeroPage \/ ZeroPageIndexed \/ Absolute
    \/ AbsoluteIndexed \/ IndZeroX \/ IndZeroY \/ IndirectZP
    \/ BusConflictInvalid \/ BitRelative

-----------------------------------------------------------------------------
(***************************************************************************)
(* The shapes of a handler: it reads the effective address, or stores to   *)
(* it, or reads it, stores the old value back and then the new one, or     *)
(* does not use the bus.                                                   *)
(***************************************************************************)
Answers(address) ==
    IF High(address) = 1 /\ Low(address) \in DOMAIN page1
    THEN {page1[Low(address)]} ELSE Bytes

Stored(address, v) ==
    IF High(address) # 1 THEN page1
    ELSE [i \in DOMAIN page1 \cup {Low(address)} |->
              IF i = Low(address) THEN v ELSE page1[i]]

FramesAfterStore(address) == IF High(address) = 1 THEN <<>> ELSE frames

Executed(accesses) ==
    /\ phase = "execute"
    /\ phase' = "poll"
    /\ trace' = trace \o accesses
    /\ UNCHANGED <<m_nmi_pending, opcode, addr, budget>>

Internal(name) ==
    /\ handler = name
    /\ Executed(<<>>)
    /\ UNCHANGED <<page1, frames>>

Reads(name, v) ==
    /\ handler = name
    /\ Executed(<<Read(addr, v), Cycle>>)
    /\ UNCHANGED <<m_int_delay, page1, frames>>

StoresAt(name, address, v) ==
    /\ handler = name
    /\ Executed(<<Write(address, v), Cycle>>)
    /\ page1' = Stored(address, v)
    /\ frames' = FramesAfterStore(address)
    /\ UNCHANGED m_int_delay

Modifying(name, v, new) ==
    /\ handler = name
    /\ Executed(<<Read(addr, v), Cycle, Write(addr, v), Cycle, Write(addr, new), Cycle>>)
    /\ page1' = Stored(addr, new)
    /\ frames' = FramesAfterStore(addr)
    /\ UNCHANGED m_int_delay

SetC(s, val) == [s EXCEPT !.flags = SetFlag(@, "C", val)]
Zn(s, v) == [s EXCEPT !.flags = TestZn(@, v)]
SetReg(s, r, v) == Zn([s EXCEPT ![r] = v], v)

-----------------------------------------------------------------------------
(***************************************************************************)
(* Arithmetic.  On the NES decimal() is false, whatever the flag.          *)
(***************************************************************************)
AddBinary(s, v) ==
    LET sum == s.a + v + (IF "C" \in s.flags THEN 1 ELSE 0)
        r == sum % 256
        overflow == Bit(s.a, 7) = Bit(v, 7) /\ Bit(s.a, 7) # Bit(r, 7)
    IN SetReg([SetC(s, sum > 255) EXCEPT !.flags = SetFlag(@, "V", overflow)], "a", r)

SubtractBinary(s, v) ==
    LET diff == s.a - v - (IF "C" \in s.flags THEN 0 ELSE 1)
        r == diff % 256
        overflow == Bit(s.a, 7) # Bit(v, 7) /\ Bit(s.a, 7) # Bit(r, 7)
    IN SetReg([SetC(s, diff >= 0) EXCEPT !.flags = SetFlag(@, "V", overflow)], "a", r)

Compared(s, r, v) == Zn(SetC(s, s[r] >= v), (s[r] - v) % 256)

Adc == \E v \in Answers(addr) : Reads("adc", v) /\ state' = AddBinary(state, v)
Sbc == \E v \in Answers(addr) : Reads("sbc", v) /\ state' = SubtractBinary(state, v)

AndA == \E v \in Answers(addr) : Reads("and_", v) /\ state' = SetReg(state, "a", And(state.a, v))

Logic ==
    \E v \in Answers(addr) :
        \/ Reads("eor", v) /\ state' = SetReg(state, "a", Xor(state.a, v))
        \/ Reads("ora", v) /\ state' = SetReg(state, "a", Or(state.a, v))

Compare ==
    \E v \in Answers(addr) :
        \/ Reads("cmp", v) /\ state' = Compared(state, "a", v)
        \/ Reads("cpx", v) /\ state' = Compared(state, "x", v)
        \/ Reads("cpy", v) /\ state' = Compared(state, "y", v)

BitTest ==
    \E v \in Answers(addr) :
        /\ Reads("bit", v)
        /\ state' = [Zn(state, And(state.a, v)) EXCEPT
                        !.flags = SetFlag(SetFlag(@, "V", Bit(v, 6) = 1), "N", Bit(v, 7) = 1)]

(***************************************************************************)
(* Shifts and rotations, of a byte with a bit coming in.                   *)
(***************************************************************************)
(* A slip to be caught: the bit shifted out stays. *)
LeftWide(v, in) == (2 * v) + in

LeftOf(v, in) == ((2 * v) % 256) + in

RightOf(v, in) == (v \div 2) + (128 * in)

InternalStep(name) == Internal(name) /\ UNCHANGED m_int_delay

Asl ==
    \/ \E v \in Answers(addr) : /\ Modifying("asl", v, LeftOf(v, 0))
                        /\ state' = Zn(SetC(state, Bit(v, 7) = 1), LeftOf(v, 0))
    \/ /\ InternalStep("asla")
       /\ state' = SetReg(SetC(state, Bit(state.a, 7) = 1), "a", LeftOf(state.a, 0))

Lsr ==
    \/ \E v \in Answers(addr) : /\ Modifying("lsr", v, RightOf(v, 0))
                        /\ state' = Zn(SetC(state, Bit(v, 0) = 1), RightOf(v, 0))
    \/ /\ InternalStep("lsra")
       /\ state' = SetReg(SetC(state, Bit(state.a, 0) = 1), "a", RightOf(state.a, 0))

Rol ==
    \/ \E v \in Answers(addr) : /\ Modifying("rol", v, LeftOf(v, Carry))
                        /\ state' = Zn(SetC(state, Bit(v, 7) = 1), LeftOf(v, Carry))
    \/ /\ InternalStep("rola")
       /\ state' = SetReg(SetC(state, Bit(state.a, 7) = 1), "a", LeftOf(state.a, Carry))

Ror ==
    \/ \E v \in Answers(addr) : /\ Modifying("ror", v, RightOf(v, Carry))
                        /\ state' = Zn(SetC(state, Bit(v, 0) = 1), RightOf(v, Carry))
    \/ /\ InternalStep("rora")
       /\ state' = SetReg(SetC(state, Bit(state.a, 0) = 1), "a", RightOf(state.a, Carry))

IncDec ==
    \/ \E v \in Answers(addr) :
           Modifying("inc", v, (v + 1) % 256) /\ state' = Zn(state, (v + 1) % 256)
    \/ \E v \in Answers(addr) :
           Modifying("dec", v, (v - 1) % 256) /\ state' = Zn(state, (v - 1) % 256)
    \/ InternalStep("inx") /\ state' = SetReg(state, "x", (state.x + 1) % 256)
    \/ InternalStep("iny") /\ state' = SetReg(state, "y", (state.y + 1) % 256)
    \/ InternalStep("dex") /\ state' = SetReg(state, "x", (state.x - 1) % 256)
    \/ InternalStep("dey") /\ state' = SetReg(state, "y", (state.y - 1) % 256)

-----------------------------------------------------------------------------
(***************************************************************************)
(* Loads, stores, transfers and flags.                                     *)
(***************************************************************************)
Load ==
    \E v \in Answers(addr) :
        \/ Reads("lda", v) /\ state' = SetReg(state, "a", v)
        \/ Reads("ldx", v) /\ state' = SetReg(state, "x", v)
        \/ Reads("ldy", v) /\ state' = SetReg(state, "y", v)

Store ==
    /\ \/ StoresAt("sta", addr, state.a)
       \/ StoresAt("stx", addr, state.x)
       \/ StoresAt("sty", addr, state.y)
    /\ UNCHANGED state

Transfer ==
    LET pair == [tax |-> <<"a", "x">>, txa |-> <<"x", "a">>, tay |-> <<"a", "y">>,
                 tya |-> <<"y", "a">>, tsx |-> <<"sp", "x">>]
    IN \E t \in DOMAIN pair :
           InternalStep(t) /\ state' = SetReg(state, pair[t][2], state[pair[t][1]])

Txs ==
    /\ handler = "txs"
    /\ Executed(<<>>)
    /\ state' = [state EXCEPT !.sp = state.x]
    /\ frames' = <<>>
    /\ UNCHANGED <<m_int_delay, page1>>

(* CLI and SEI postpone the next look at the interrupts by one instruction. *)
FlagInstruction ==
    \/ /\ \/ InternalStep("clc") /\ state' = SetC(state, FALSE)
          \/ InternalStep("sec") /\ state' = SetC(state, TRUE)
          \/ InternalStep("cld") /\ state' = [state EXCEPT !.flags = @ \ {"D"}]
          \/ InternalStep("sed") /\ state' = [state EXCEPT !.flags = @ \cup {"D"}]
          \/ InternalStep("clv") /\ state' = [state EXCEPT !.flags = @ \ {"V"}]
    \/ /\ \/ Internal("cli") /\ state' = [state EXCEPT !.flags = @ \ {"I"}]
          \/ Internal("sei") /\ state' = [state EXCEPT !.flags = @ \cup {"I"}]
       /\ m_int_delay' = TRUE

Nop == (InternalStep("nop") \/ InternalStep("nop2")) /\ UNCHANGED state

(* The opcode is read again for the message, and nothing yields. *)
InvalidOpcode ==
    /\ handler = "invalid_opcode"
    /\ Executed(<<Read(Wrapped(state.pc - 1), opcode)>>)
    /\ UNCHANGED <<state, m_int_delay, page1, frames>>

-----------------------------------------------------------------------------
(***************************************************************************)
(* Branches and jumps.                                                     *)
(***************************************************************************)
BranchOn(before, disp, cond) ==
    LET target == Wrapped(state.pc + Signed(disp))
    IN /\ Executed(before \o <<Cycle>>
                   \o (IF cond /\ High(target) # High(state.pc) THEN <<Cycle>> ELSE <<>>)
                   \o (IF cond THEN <<Cycle>> ELSE <<>>))
       /\ state' = IF cond THEN [state EXCEPT !.pc = target] ELSE state
       /\ UNCHANGED <<m_int_delay, page1, frames>>

Branch(conditions) ==
    /\ handler \in DOMAIN conditions
    /\ \E disp \in Answers(addr) :
           BranchOn(<<Read(addr, disp)>>, disp, conditions[handler])

BranchCarryZero ==
    Branch([bcc |-> "C" \notin state.flags, bcs |-> "C" \in state.flags,
            beq |-> "Z" \in state.flags])
BranchSignZero ==
    Branch([bmi |-> "N" \in state.flags, bpl |-> "N" \notin state.flags,
            bne |-> "Z" \notin state.flags])
BranchOverflow ==
    Branch([bvc |-> "V" \notin state.flags, bvs |-> "V" \in state.flags])

(* The target, not the displacement, is handed to branch_on. *)
Bbs ==
    /\ handler = "bbs"
    /\ LET disp == trace[Len(trace) - 1][3]
           target == Wrapped(state.pc + Signed(disp))
       IN \E v \in Answers(addr) :
              BranchOn(<<Read(addr, v)>>, Low(target), Bit(v, 1) = 1)

Jmp == InternalStep("jmp") /\ state' = [state EXCEPT !.pc = addr]

(* The high byte comes from the page the low byte is in. *)
IndJmp ==
    /\ handler = "ind_jmp"
    /\ \E low, high \in Bytes :
           /\ Executed(<<Read(addr, low), Cycle,
                         Read(Word((Low(addr) + 1) % 256, High(addr)), high), Cycle>>)
           /\ state' = [state EXCEPT !.pc = Word(low, high)]
    /\ UNCHANGED <<m_int_delay, page1, frames>>

-----------------------------------------------------------------------------
(***************************************************************************)
(* The stack.  push stores and then moves sp, pop moves sp and then reads; *)
(* sp wraps within page 1.                                                 *)
(***************************************************************************)
Cells(sp, n) == {(sp - k) % 256 : k \in 0..(n - 1)}

Pushed(sp, vs) ==
    [i \in DOMAIN page1 \cup Cells(sp, Len(vs)) |->
        IF i \in Cells(sp, Len(vs)) THEN vs[((sp - i) % 256) + 1] ELSE page1[i]]

PushAccesses(sp, vs) ==
    [i \in 1..(2 * Len(vs)) |->
        IF i % 2 = 0 THEN Cycle
        ELSE Write(256 + ((sp - (i \div 2)) % 256), vs[(i + 1) \div 2])]

Top(sp, k) == 256 + ((sp + k) % 256)

(* A slip to be caught: bytes after the first are popped in the same cycle. *)
PopAccessesAtOnce(sp, vs) ==
    [i \in 1..(Len(vs) + 1) |->
        IF i > Len(vs) THEN Cycle ELSE Read(Top(sp, i), vs[i])]

PopAccesses(sp, vs) ==
    [i \in 1..(2 * Len(vs)) |->
        IF i % 2 = 0 THEN Cycle
        ELSE Read(Top(sp, (i + 1) \div 2), vs[(i + 1) \div 2])]

(***************************************************************************)
(* History of the stack.  A frame is a return address (and flags) that a   *)
(* JSR, BRK or NMI left; over counts the bytes pushed on top of it since.  *)
(* Popping into a frame makes all of them meaningless; a push reaches the  *)
(* oldest ones when the page is full.                                      *)
(***************************************************************************)
Size(kind) == IF kind = "call" THEN 2 ELSE 3
Above(f) == (f.sp - state.sp) % 256

Reached(n) == {k \in 1..Len(frames) : Above(frames[k]) + Size(frames[k].kind) + n > 256}
Kept(n) ==
    IF Reached(n) = {} THEN frames
    ELSE SubSeq(frames, 1, (CHOOSE k \in Reached(n) : \A j \in Reached(n) : k <= j) - 1)

Enter(kind, s, sp) ==
    <<[kind |-> kind, pc |-> s.pc, flags |-> s.flags, sp |-> sp, over |-> 0]>>
    \o Kept(Size(kind))
Returning(kinds) ==
    frames # <<>> /\ frames[1].kind \in kinds /\ frames[1].over = 0
Covered(n) == IF Kept(n) = <<>> THEN <<>> ELSE [Kept(n) EXCEPT ![1].over = @ + n]
Uncovered(n) ==
    IF frames # <<>> /\ frames[1].over >= n THEN [frames EXCEPT ![1].over = @ - n] ELSE <<>>
Leave(kinds, n) == IF Returning(kinds) THEN Tail(frames) ELSE Uncovered(n)

Pha ==
    /\ handler = "pha"
    /\ Executed(PushAccesses(state.sp, <<state.a>>))
    /\ page1' = Pushed(state.sp, <<state.a>>)
    /\ state' = [state EXCEPT !.sp = (@ - 1) % 256]
    /\ frames' = Covered(1)
    /\ UNCHANGED m_int_delay

(* The pushed flags have B set, whatever the register. *)
Php ==
    LET v == ByteOf(state.flags \cup {"B"})
    IN /\ handler = "php"
       /\ Executed(PushAccesses(state.sp, <<v>>))
       /\ page1' = Pushed(state.sp, <<v>>)
       /\ state' = [state EXCEPT !.sp = (@ - 1) % 256]
       /\ frames' = Covered(1)
       /\ UNCHANGED m_int_delay

Pla ==
    /\ handler = "pla"
    /\ \E v \in Answers(Top(state.sp, 1)) :
           /\ Executed(<<Cycle>> \o PopAccesses(state.sp, <<v>>))
           /\ state' = [SetReg(state, "a", v) EXCEPT !.sp = (@ + 1) % 256]
    /\ frames' = Uncovered(1)
    /\ UNCHANGED <<m_int_delay, page1>>

Plp ==
    /\ handler = "plp"
    /\ \E v \in Answers(Top(state.sp, 1)) :
           /\ Executed(<<Cycle>> \o PopAccesses(state.sp, <<v>>))
           /\ state' = [state EXCEPT !.flags = FlagsOf(v) \cup {"U"}, !.sp = (@ + 1) % 256]
    /\ m_int_delay' = TRUE
    /\ frames' = Uncovered(1)
    /\ UNCHANGED page1

(* jsr pushes the address of its own last byte; rts adds one to what it pops. *)
Jsr ==
    LET ret == Wrapped(state.pc - 1)
        vs == <<High(ret), Low(ret)>>
    IN /\ handler = "jsr"
       /\ Executed(PushAccesses(state.sp, vs) \o <<Cycle>>)
       /\ page1' = Pushed(state.sp, vs)
       /\ state' = [state EXCEPT !.pc = addr, !.sp = (@ - 2) % 256]
       /\ frames' = Enter("call", state, state'.sp)
       /\ UNCHANGED m_int_delay

Rts ==
    /\ handler = "rts"
    /\ \E low \in Answers(Top(state.sp, 1)), high \in Answers(Top(state.sp, 2)) :
           /\ Executed(<<Cycle>> \o PopAccesses(state.sp, <<low, high>>) \o <<Cycle>>)
           /\ state' = [state EXCEPT !.pc = Wrapped(Word(low, high) + 1),
                                     !.sp = (@ + 2) % 256]
    /\ frames' = Leave({"call"}, 2)
    /\ UNCHANGED <<m_int_delay, page1>>

(* A slip to be caught: RTI leaves the pushed B in the register and bit 5 open. *)
RtiFlagsKept(v) == FlagsOf(v)

RtiFlags(v) == (FlagsOf(v) \ {"B"}) \cup {"U"}

Rti ==
    /\ handler = "rti"
    /\ \E v \in Answers(Top(state.sp, 1)), low \in Answers(Top(state.sp, 2)),
          high \in Answers(Top(state.sp, 3)) :
           /\ Executed(<<Cycle>> \o PopAccesses(state.sp, <<v, low, high>>))
           /\ state' = [state EXCEPT !.flags = RtiFlags(v), !.pc = Word(low, high),
                                     !.sp = (@ + 3) % 256]
    /\ frames' = Leave({"brk", "nmi"}, 3)
    /\ UNCHANGED <<m_int_delay, page1>>

(* A slip to be caught: an NMI pushes the flags as they are. *)
PushedFlagsAsTheyAre(brk, flags) == IF brk THEN flags \cup {"B"} ELSE flags

PushedFlags(brk, flags) == IF brk THEN flags \cup {"B"} ELSE flags \ {"B"}

NmiVector == \hFFFA
IrqVector == \hFFFE

VectorAccesses(vector, low, high) ==
    <<Read(vector, low), Cycle, Read(vector + 1, high), Cycle>>

(***************************************************************************)
(* switch_to_isr from the state s: three pushes, then the vector.          *)
(***************************************************************************)
SwitchToIsr(s, vector, kind) ==
    LET vs == <<High(s.pc), Low(s.pc), ByteOf(PushedFlags(kind = "brk", s.flags))>>
    IN \E low, high \in Bytes :
           /\ trace' = trace \o PushAccesses(s.sp, vs)
                         \o VectorAccesses(vector, low, high)
           /\ page1' = Pushed(s.sp, vs)
           /\ state' = [s EXCEPT !.sp = (@ - 3) % 256, !.flags = @ \cup {"I"},
                                 !.pc = Word(low, high)]
           /\ frames' = Enter(kind, s, state'.sp)

Brk ==
    /\ phase = "execute" /\ phase' = "poll"
    /\ handler = "brk"
    /\ SwitchToIsr([state EXCEPT !.pc = Wrapped(@ + 1)], IrqVector, "brk")
    /\ UNCHANGED <<m_int_delay, m_nmi_pending, opcode, addr, budget>>

-----------------------------------------------------------------------------
(***************************************************************************)
(* The undocumented instructions: two documented ones in one.              *)
(***************************************************************************)
Alr ==
    \E v \in Answers(addr) :
        LET r == And(state.a, v)
        IN Reads("alr", v) /\ state' = SetReg(SetC(state, Bit(r, 0) = 1), "a", RightOf(r, 0))

Anc ==
    \E v \in Answers(addr) :
        LET r == And(state.a, v)
        IN Reads("anc", v) /\ state' = SetC(SetReg(state, "a", r), Bit(r, 7) = 1)

(* C and V come from bits 6 and 5 of the result. *)
Arr ==
    \E v \in Answers(addr) :
        LET r == RightOf(And(state.a, v), Carry)
        IN /\ Reads("arr", v)
           /\ state' = [SetC(SetReg(state, "a", r), Bit(r, 6) = 1) EXCEPT
                           !.flags = SetFlag(@, "V", Bit(r, 6) # Bit(r, 5))]

Axs ==
    \E v \in Answers(addr) :
        LET diff == And(state.x, state.a) - v
        IN Reads("axs", v) /\ state' = SetReg(SetC(state, diff >= 0), "x", diff % 256)

Lax ==
    \E v \in Answers(addr) : Reads("lax", v) /\ state' = SetReg([state EXCEPT !.x = v], "a", v)

Sax == StoresAt("sax", addr, And(state.a, state.x)) /\ UNCHANGED state

Dcp ==
    \E v \in Answers(addr) :
        LET new == (v - 1) % 256
        IN Modifying("dcp", v, new) /\ state' = Compared(state, "a", new)

Isc ==
    \E v \in Answers(addr) :
        LET new == (v + 1) % 256
        IN Modifying("isc", v, new) /\ state' = SubtractBinary(state, new)

Rla ==
    \E v \in Answers(addr) :
        LET new == LeftOf(v, Carry)
        IN /\ Modifying("rla", v, new)
           /\ state' = SetReg(SetC(state, Bit(v, 7) = 1), "a", And(state.a, new))

(* A slip to be caught: the carry of the rotation does not reach the addition. *)
RraOldCarry ==
    \E v \in Answers(addr) :
        LET new == RightOf(v, Carry)
        IN Modifying("rra", v, new) /\ state' = AddBinary(state, new)

Rra ==
    \E v \in Answers(addr) :
        LET new == RightOf(v, Carry)
        IN Modifying("rra", v, new) /\ state' = AddBinary(SetC(state, Bit(v, 0) = 1), new)

Slo ==
    \E v \in Answers(addr) :
        LET new == LeftOf(v, 0)
        IN /\ Modifying("slo", v, new)
           /\ state' = SetReg(SetC(state, Bit(v, 7) = 1), "a", Or(state.a, new))

Sre ==
    \E v \in Answers(addr) :
        LET new == RightOf(v, 0)
        IN /\ Modifying("sre", v, new)
           /\ state' = SetReg(SetC(state, Bit(v, 0) = 1), "a", Xor(state.a, new))

Atx ==
    \E v \in Answers(addr) : Reads("atx", v) /\ state' = SetReg([state EXCEPT !.x = v], "a", v)

(***************************************************************************)
(* say and xas store one register masked by the high byte of the address   *)
(* plus one.  When the index crosses a page the high byte of the target is *)
(* computed in a uint8_t from a value whose low byte is zero: it is zero.  *)
(***************************************************************************)
MaskedStore(name, r, index) ==
    /\ StoresAt(name,
                IF Crosses(addr, index) THEN Low(addr + index) ELSE addr + index,
                And((High(addr) + 1) % 256, r))
    /\ UNCHANGED state

Say == MaskedStore("say", state.y, state.x)
Xas == MaskedStore("xas", state.x, state.y)

Undocumented ==
    \/ Alr \/ Anc \/ Arr \/ Axs \/ Lax \/ Sax \/ Dcp \/ Isc \/ Rla \/ Rra
    \/ Slo \/ Sre \/ Atx \/ Say \/ Xas \/ InvalidOpcode

Documented ==
    \/ Adc \/ Sbc \/ AndA \/ Logic \/ Compare \/ BitTest
    \/ Asl \/ Lsr \/ Rol \/ Ror \/ IncDec
    \/ Load \/ Store \/ Transfer \/ Txs \/ FlagInstruction \/ Nop
    \/ BranchCarryZero \/ BranchSignZero \/ BranchOverflow \/ Bbs \/ Jmp \/ IndJmp
    \/ Pha \/ Php \/ Pla \/ Plp \/ Jsr \/ Rts \/ Rti \/ Brk

-----------------------------------------------------------------------------
(***************************************************************************)
(* The end of an iteration of run(): a pending NMI is taken now, unless    *)
(* the instruction just executed postpones it.                             *)
(***************************************************************************)
TakeNmi ==
    /\ phase = "poll" /\ phase' = "fetch"
    /\ ~m_int_delay /\ m_nmi_pending
    /\ m_nmi_pending' = FALSE
    /\ SwitchToIsr(state, NmiVector, "nmi")
    /\ UNCHANGED <<m_int_delay, opcode, addr, budget>>

NoInterrupt ==
    /\ phase = "poll" /\ phase' = "fetch"
    /\ m_int_delay \/ ~m_nmi_pending
    /\ UNCHANGED <<state, m_int_delay, m_nmi_pending, page1, opcode, addr, trace,
                   budget, frames>>

(* The case is over; any other state without a step is an error. *)
Finished ==
    /\ phase = "fetch" /\ length = case.length /\ nmis = case.nmis
    /\ UNCHANGED vars

Next ==
    \/ Fetch \/ AddressMode \/ Documented \/ Undocumented
    \/ TakeNmi \/ NoInterrupt \/ RaiseNmi \/ Finished

Spec == Init /\ [][Next]_vars

-----------------------------------------------------------------------------
Accesses == ({"read", "write"} \X Address \X Byte) \cup {Cycle}

(* The variables hold values of their C++ types; bit 5 of the flags is set. *)
TypeOK ==
    /\ state \in [a : Byte, x : Byte, y : Byte, sp : Byte,
                  flags : SUBSET FlagNames, pc : Address]
    /\ m_int_delay \in BOOLEAN /\ m_nmi_pending \in BOOLEAN
    /\ DOMAIN page1 \subseteq Byte /\ \A i \in DOMAIN page1 : page1[i] \in Byte
    /\ phase \in {"fetch", "address", "execute", "poll"}
    /\ opcode \in Byte /\ addr \in Address
    /\ \A i \in 1..Len(trace) : trace[i] \in Accesses
    /\ "U" \in state.flags

(***************************************************************************)
(* Between two yields the CPU makes at most one access, whatever the       *)
(* instruction, its operands and the interrupt after it; the model of the  *)
(* scheduler and that of the vertical blank rest on it.  The exception is  *)
(* an invalid opcode, whose message reads the opcode once more in the slot *)
(* of the next fetch.                                                      *)
(***************************************************************************)
OneAccessPerCycle ==
    handler # "invalid_opcode" =>
        /\ \A i \in 1..(Len(trace) - 1) : Cycle \in {trace[i], trace[i + 1]}
        /\ phase = "poll" => trace[Len(trace)] = Cycle

(***************************************************************************)
(* The cycles of the documented instructions, as tests/cpu/timing_test.cpp *)
(* has them for a few operands, for all: a load pays for the page its      *)
(* index crosses, what stores pays in any case, a branch pays for being    *)
(* taken and for the page.                                                 *)
(***************************************************************************)
Loads == {"adc", "sbc", "and_", "eor", "ora", "cmp", "cpx", "cpy", "bit",
          "lda", "ldx", "ldy", "lax"}

CyclesOfLoad == [imm |-> 2, zp |-> 3, zpx |-> 4, zpy |-> 4, abs |-> 4,
                 abx |-> IF Low(addr) < state.x THEN 5 ELSE 4,
                 aby |-> IF Low(addr) < state.y THEN 5 ELSE 4,
                 izx |-> 6, izy |-> IF Low(addr) < state.y THEN 6 ELSE 5, izp |-> 5]
CyclesOfStore == [zp |-> 3, zpx |-> 4, zpy |-> 4, abs |-> 4, abxW |-> 5, abyW |-> 5,
                  izx |-> 6, izyW |-> 6, izp |-> 5]
CyclesOfModify == [zp |-> 5, zpx |-> 6, abs |-> 6, abxW |-> 7, abyW |-> 7,
                   izx |-> 8, izyW |-> 8]
CyclesOfOther == [brk |-> 7, rti |-> 6, rts |-> 6, jsr |-> 6, jmp |-> 3, ind_jmp |-> 5,
                  pha |-> 3, php |-> 3, pla |-> 4, plp |-> 4]
Branches == {"bcc", "bcs", "beq", "bne", "bmi", "bpl", "bvc", "bvs"}

Cycles == Cardinality({i \in 1..Len(trace) : trace[i] = Cycle})

TimingTable ==
    phase = "poll" =>
        /\ handler \in Loads => Cycles = CyclesOfLoad[mode]
        /\ handler \in Stores => mode \in DOMAIN CyclesOfStore /\ Cycles = CyclesOfStore[mode]
        /\ handler \in Modifies => mode \in DOMAIN CyclesOfModify /\ Cycles = CyclesOfModify[mode]
        /\ handler \in DOMAIN CyclesOfOther => Cycles = CyclesOfOther[handler]
        /\ mode = "impl" /\ handler \notin DOMAIN CyclesOfOther => Cycles = 2
        /\ handler \in Branches =>
              LET next == Wrapped(addr + 1)
              IN IF state.pc = next THEN Cycles \in {2, 3}
                 ELSE Cycles = IF High(state.pc) = High(next) THEN 3 ELSE 4

(***************************************************************************)
(* Which accesses a device at the effective address sees.  A load touches  *)
(* it once, its dummy read being in the wrong page (unless the address is  *)
(* in the zero page, where there is no device); a store writes it once; an *)
(* instruction that modifies writes back what it read and then the new     *)
(* value, and writes nowhere else.                                         *)
(***************************************************************************)
WritesSeen == {i \in 1..Len(trace) : trace[i][1] = "write"}
ReadsSeen == {i \in 1..Len(trace) : trace[i][1] = "read" /\ trace[i][2] = addr}
InInstruction == addr \in {Wrapped(state.pc - k) : k \in 1..3}

EffectiveAccesses ==
    phase = "poll" =>
        /\ handler \in Loads =>
              /\ WritesSeen = {}
              /\ High(addr) # 0 /\ ~InInstruction => Cardinality(ReadsSeen) = 1
        /\ handler \in Stores => \E i \in WritesSeen : WritesSeen = {i} /\ trace[i][2] = addr
        /\ handler \in Modifies =>
              \E read \in ReadsSeen, i, j \in WritesSeen :
                  /\ read < i /\ i < j /\ WritesSeen = {i, j}
                  /\ \A k \in ReadsSeen : k <= read
                  /\ trace[i] = Write(addr, trace[read][3]) /\ trace[j][2] = addr

(***************************************************************************)
(* The arithmetic, against integers.  used is the byte the handler worked  *)
(* with last: what it read, or what it stored after modifying it.          *)
(***************************************************************************)
Out == IF "C" \in state.flags THEN 1 ELSE 0
Sum(a, v, in, s) ==
    /\ s.a + 256 * (IF "C" \in s.flags THEN 1 ELSE 0) = a + v + in
    /\ "V" \in s.flags <=> Signed(a) + Signed(v) + in \notin -128..127
Difference(a, v, in, s) ==
    /\ s.a - 256 * (IF "C" \in s.flags THEN 0 ELSE 1) = a - v - (1 - in)
    /\ "V" \in s.flags <=> Signed(a) - Signed(v) - (1 - in) \notin -128..127
Comparison(reg, v, s) ==
    /\ "C" \in s.flags <=> reg >= v
    /\ "Z" \in s.flags <=> reg = v

Agrees ==
    LET used == trace'[Len(trace') - 1][3]
        read == trace'[Len(trace') - 5][3]         \* before it was modified
        out == Out'
    IN /\ handler = "adc" => Sum(state.a, used, Carry, state')
       /\ handler = "sbc" => Difference(state.a, used, Carry, state')
       /\ handler = "rra" => Sum(state.a, used, read % 2, state')
       /\ handler = "isc" => Difference(state.a, used, Carry, state')
       /\ handler \in {"cmp", "dcp"} => Comparison(state.a, used, state')
       /\ handler = "cpx" => Comparison(state.x, used, state')
       /\ handler = "cpy" => Comparison(state.y, used, state')
       /\ handler \in {"asl", "slo"} => used + 256 * out = 2 * read
       /\ handler \in {"rol", "rla"} => used + 256 * out = 2 * read + Carry
       /\ handler \in {"lsr", "sre"} => 2 * used + out = read
       /\ handler = "ror" => 2 * used + out = read + 256 * Carry
       /\ handler \in {"adc", "sbc", "rra", "isc"} =>
             /\ "Z" \in state'.flags <=> state'.a = 0
             /\ "N" \in state'.flags <=> Signed(state'.a) < 0

ArithmeticAgrees == [][phase = "execute" /\ phase' = "poll" => Agrees]_vars

(***************************************************************************)
(* However calls, BRKs and NMIs nest and whatever is pushed and pulled in  *)
(* between, a return resumes where its call or interrupt left, an RTI with *)
(* the flags of that moment, except B and bit 5, which do not exist.       *)
(***************************************************************************)
ReturnsResume ==
    [][phase = "execute" /\ phase' = "poll" =>
        /\ handler = "rts" /\ Returning({"call"}) => state'.pc = frames[1].pc
        /\ handler = "rti" /\ Returning({"brk", "nmi"}) =>
              /\ state'.pc = frames[1].pc
              /\ state'.flags = (frames[1].flags \ {"B"}) \cup {"U"}]_vars

(***************************************************************************)
(* A handler that looks at the flags on the stack can tell a BRK from an   *)
(* NMI, although PLP lets B into the register.                             *)
(***************************************************************************)
BreakBitTells ==
    \A k \in 1..Len(frames) :
        frames[k].kind # "call" =>
            ("B" \in FlagsOf(page1[(frames[k].sp + 1) % 256]) <=> frames[k].kind = "brk")
=============================================================================
