------------------------------ MODULE CpuProofs ------------------------------
(***************************************************************************)
(* Proofs about the CPU, for every table of opcodes the program may run,   *)
(* every register, operand and content of memory, any number of            *)
(* instructions and of NMIs between any two of their steps.                *)
(*                                                                         *)
(* The types and the pace of the bus are one invariant: an instruction     *)
(* appends to its trace pieces in which every access is followed by a      *)
(* cycle, and BBS takes its displacement out of that trace.  From it, the  *)
(* arithmetic of every handler agrees with the integers.                   *)
(*                                                                         *)
(* Then the trace itself: what the fetch and the addressing mode leave in  *)
(* it, with the modes the table gives each handler, and from that the      *)
(* cycles of every instruction and what a device sees of its accesses.     *)
(***************************************************************************)
EXTENDS Cpu, FiniteSetTheorems, TLAPS

(* The registers; bit 5 of the flags is set. *)
Regs == [a : Byte, x : Byte, y : Byte, sp : Byte, flags : SUBSET FlagNames, pc : Address]
StateOK(s) == s \in Regs /\ "U" \in s.flags

PageOK(page) == DOMAIN page \subseteq Byte /\ \A i \in DOMAIN page : page[i] \in Byte

(* Accesses with a cycle after each. *)
Steady(s) ==
    /\ s \in Seq(Accesses)
    /\ \A i \in 1..(Len(s) - 1) : Cycle \in {s[i], s[i + 1]}
    /\ s # <<>> => s[Len(s)] = Cycle

(* The displacement of BBS is the last byte its addressing mode has read. *)
DisplacementRead ==
    phase = "execute" /\ mode = "bitrel" =>
        Len(trace) > 1 /\ trace[Len(trace) - 1][3] \in Byte

TypeInv ==
    /\ case \in Cases
    /\ StateOK(state) /\ PageOK(page1)
    /\ m_int_delay \in BOOLEAN /\ m_nmi_pending \in BOOLEAN
    /\ phase \in {"fetch", "address", "execute", "poll"}
    /\ opcode \in Byte /\ addr \in Address
    /\ trace \in Seq(Accesses)

PaceInv ==
    /\ handler # "invalid_opcode" \/ phase \in {"address", "execute"} => Steady(trace)
    /\ phase \in {"address", "execute", "poll"} => trace # <<>>

Inv == TypeInv /\ PaceInv /\ DisplacementRead

-----------------------------------------------------------------------------
(***************************************************************************)
(* Bytes and addresses.                                                    *)
(***************************************************************************)
LEMMA AddressBounds == \A n \in Int : n \in Address <=> 0 <= n /\ n <= 65535
BY SMTT(90) DEF Address

LEMMA AddressIsInt == \A n \in Address : n \in Int /\ 0 <= n /\ n <= 65535
BY SMTT(90) DEF Address

LEMMA WordTyped ==
    ASSUME NEW low \in Byte, NEW high \in Byte
    PROVE  Word(low, high) \in Address
BY AddressBounds DEF Word, Byte

LEMMA HalvesTyped ==
    ASSUME NEW w \in Address
    PROVE  Low(w) \in Byte /\ High(w) \in Byte
BY AddressIsInt DEF Low, High, Byte

LEMMA WrapTyped == \A n \in Int : Wrapped(n) \in Address
BY AddressBounds DEF Wrapped

LEMMA ByteTyped == \A n \in Int : n % 256 \in Byte
BY DEF Byte

LEMMA ByteIsInt == \A v \in Byte : v \in Int /\ 0 <= v /\ v <= 255
BY DEF Byte

LEMMA ByteIsAddress == \A v \in Byte : v \in Address
BY AddressBounds DEF Byte

LEMMA SignedTyped == \A v \in Byte : Signed(v) \in Int
BY DEF Signed, Byte

(* The bits of a byte. *)
LEMMA Powers ==
    /\ 2^0 = 1 /\ 2^1 = 2 /\ 2^2 = 4 /\ 2^3 = 8
    /\ 2^4 = 16 /\ 2^5 = 32 /\ 2^6 = 64 /\ 2^7 = 128
OBVIOUS

LEMMA BitsOfByte ==
    ASSUME NEW v \in Byte
    PROVE  /\ Bit(v, 0) \in 0..1 /\ Bit(v, 1) \in 0..1 /\ Bit(v, 2) \in 0..1
           /\ Bit(v, 3) \in 0..1 /\ Bit(v, 4) \in 0..1 /\ Bit(v, 5) \in 0..1
           /\ Bit(v, 6) \in 0..1 /\ Bit(v, 7) \in 0..1
           /\ v = Bit(v, 0) + 2 * Bit(v, 1) + 4 * Bit(v, 2) + 8 * Bit(v, 3)
                  + 16 * Bit(v, 4) + 32 * Bit(v, 5) + 64 * Bit(v, 6) + 128 * Bit(v, 7)
BY Powers DEF Bit, Byte

LEMMA BitProduct == \A a, b \in 0..1 : a * b \in 0..1 /\ a + b - a * b \in 0..1 /\ a + b - 2 * (a * b) \in 0..1
OBVIOUS

(* A byte masked, merged or flipped by another is a byte. *)
LEMMA LogicTyped ==
    ASSUME NEW v \in Byte, NEW w \in Byte
    PROVE  And(v, w) \in Byte /\ Or(v, w) \in Byte /\ Xor(v, w) \in Byte
<1> DEFINE p(i) == Bit(v, i) * Bit(w, i)
           o(i) == Bit(v, i) + Bit(w, i) - p(i)
           x(i) == Bit(v, i) + Bit(w, i) - 2 * p(i)
<1>1. And(v, w) = p(0) + 2 * p(1) + 4 * p(2) + 8 * p(3)
                  + 16 * p(4) + 32 * p(5) + 64 * p(6) + 128 * p(7)
  BY DEF And, FromBits
<1>2. ASSUME NEW i \in 0..7, Bit(v, i) \in 0..1, Bit(w, i) \in 0..1
      PROVE  p(i) \in 0..1 /\ o(i) \in 0..1 /\ x(i) \in 0..1
  BY <1>2, BitProduct
<1>3. \A i \in 0..7 : Bit(v, i) \in 0..1 /\ Bit(w, i) \in 0..1
  BY BitsOfByte
<1>4. \A i \in 0..7 : p(i) \in 0..1 /\ o(i) \in 0..1 /\ x(i) \in 0..1
  BY <1>2, <1>3
<1>5. /\ v = Bit(v, 0) + 2 * Bit(v, 1) + 4 * Bit(v, 2) + 8 * Bit(v, 3)
             + 16 * Bit(v, 4) + 32 * Bit(v, 5) + 64 * Bit(v, 6) + 128 * Bit(v, 7)
      /\ w = Bit(w, 0) + 2 * Bit(w, 1) + 4 * Bit(w, 2) + 8 * Bit(w, 3)
             + 16 * Bit(w, 4) + 32 * Bit(w, 5) + 64 * Bit(w, 6) + 128 * Bit(w, 7)
  BY BitsOfByte
<1>6. /\ p(0) \in 0..1 /\ p(1) \in 0..1 /\ p(2) \in 0..1 /\ p(3) \in 0..1
      /\ p(4) \in 0..1 /\ p(5) \in 0..1 /\ p(6) \in 0..1 /\ p(7) \in 0..1
  BY <1>4
<1>7. /\ o(0) \in 0..1 /\ o(1) \in 0..1 /\ o(2) \in 0..1 /\ o(3) \in 0..1
      /\ o(4) \in 0..1 /\ o(5) \in 0..1 /\ o(6) \in 0..1 /\ o(7) \in 0..1
  BY <1>4
<1>8. /\ x(0) \in 0..1 /\ x(1) \in 0..1 /\ x(2) \in 0..1 /\ x(3) \in 0..1
      /\ x(4) \in 0..1 /\ x(5) \in 0..1 /\ x(6) \in 0..1 /\ x(7) \in 0..1
  BY <1>4
<1>9. /\ o(0) = Bit(v, 0) + Bit(w, 0) - p(0) /\ x(0) = Bit(v, 0) + Bit(w, 0) - 2 * p(0)
      /\ o(1) = Bit(v, 1) + Bit(w, 1) - p(1) /\ x(1) = Bit(v, 1) + Bit(w, 1) - 2 * p(1)
      /\ o(2) = Bit(v, 2) + Bit(w, 2) - p(2) /\ x(2) = Bit(v, 2) + Bit(w, 2) - 2 * p(2)
      /\ o(3) = Bit(v, 3) + Bit(w, 3) - p(3) /\ x(3) = Bit(v, 3) + Bit(w, 3) - 2 * p(3)
      /\ o(4) = Bit(v, 4) + Bit(w, 4) - p(4) /\ x(4) = Bit(v, 4) + Bit(w, 4) - 2 * p(4)
      /\ o(5) = Bit(v, 5) + Bit(w, 5) - p(5) /\ x(5) = Bit(v, 5) + Bit(w, 5) - 2 * p(5)
      /\ o(6) = Bit(v, 6) + Bit(w, 6) - p(6) /\ x(6) = Bit(v, 6) + Bit(w, 6) - 2 * p(6)
      /\ o(7) = Bit(v, 7) + Bit(w, 7) - p(7) /\ x(7) = Bit(v, 7) + Bit(w, 7) - 2 * p(7)
  OBVIOUS
<1>10. /\ Bit(v, 0) \in Int /\ Bit(w, 0) \in Int /\ p(0) \in Int
       /\ Bit(v, 1) \in Int /\ Bit(w, 1) \in Int /\ p(1) \in Int
       /\ Bit(v, 2) \in Int /\ Bit(w, 2) \in Int /\ p(2) \in Int
       /\ Bit(v, 3) \in Int /\ Bit(w, 3) \in Int /\ p(3) \in Int
       /\ Bit(v, 4) \in Int /\ Bit(w, 4) \in Int /\ p(4) \in Int
       /\ Bit(v, 5) \in Int /\ Bit(w, 5) \in Int /\ p(5) \in Int
       /\ Bit(v, 6) \in Int /\ Bit(w, 6) \in Int /\ p(6) \in Int
       /\ Bit(v, 7) \in Int /\ Bit(w, 7) \in Int /\ p(7) \in Int
  BY <1>3, <1>6
<1> HIDE DEF p, o, x
<1>11. v + w - And(v, w) = o(0) + 2 * o(1) + 4 * o(2) + 8 * o(3)
                           + 16 * o(4) + 32 * o(5) + 64 * o(6) + 128 * o(7)
  BY <1>1, <1>5, <1>9, <1>10
<1>12. v + w - 2 * And(v, w) = x(0) + 2 * x(1) + 4 * x(2) + 8 * x(3)
                               + 16 * x(4) + 32 * x(5) + 64 * x(6) + 128 * x(7)
  BY <1>1, <1>5, <1>9, <1>10
<1>13. And(v, w) \in Byte
  BY <1>1, <1>6 DEF Byte
<1>14. v + w - And(v, w) \in Byte
  BY <1>11, <1>7 DEF Byte
<1>15. v + w - 2 * And(v, w) \in Byte
  BY <1>12, <1>8 DEF Byte
<1> QED
  BY <1>13, <1>14, <1>15 DEF Or, Xor

(* Shifts of a byte with a bit coming in. *)
LEMMA ShiftsTyped ==
    ASSUME NEW v \in Byte, NEW in \in 0..1
    PROVE  LeftOf(v, in) \in Byte /\ RightOf(v, in) \in Byte
BY DEF LeftOf, RightOf, Byte

LEMMA CarryTyped == Carry \in 0..1 /\ 0 \in 0..1
BY DEF Carry

-----------------------------------------------------------------------------
(***************************************************************************)
(* Registers and flags.                                                    *)
(***************************************************************************)
LEMMA SetFlagTyped ==
    ASSUME NEW flags \in SUBSET FlagNames, "U" \in flags, NEW f \in FlagNames \ {"U"}, NEW val
    PROVE  SetFlag(flags, f, val) \in SUBSET FlagNames /\ "U" \in SetFlag(flags, f, val)
BY DEF SetFlag

LEMMA FlagsTyped ==
    ASSUME NEW s, StateOK(s), NEW flags \in SUBSET FlagNames, "U" \in flags
    PROVE  StateOK([s EXCEPT !.flags = flags])
BY DEF StateOK, Regs

LEMMA SetFlagOK ==
    ASSUME NEW s, StateOK(s), NEW f \in {"C", "Z", "V", "N"}, NEW val
    PROVE  StateOK([s EXCEPT !.flags = SetFlag(@, f, val)])
<1>1. s.flags \in SUBSET FlagNames /\ "U" \in s.flags
  BY DEF StateOK, Regs
<1>2. f \in FlagNames \ {"U"}
  BY DEF FlagNames
<1> DEFINE flags == SetFlag(s.flags, f, val)
<1>3. flags \in SUBSET FlagNames /\ "U" \in flags
  BY <1>1, <1>2, SetFlagTyped
<1> HIDE DEF flags
<1>4. StateOK([s EXCEPT !.flags = flags])
  BY <1>3, FlagsTyped
<1> QED
  BY <1>4 DEF flags

LEMMA SetCOK ==
    ASSUME NEW s, StateOK(s), NEW val
    PROVE  StateOK(SetC(s, val))
BY SetFlagOK DEF SetC

LEMMA ZnOK ==
    ASSUME NEW s, StateOK(s), NEW v
    PROVE  StateOK(Zn(s, v))
<1>1. s.flags \in SUBSET FlagNames /\ "U" \in s.flags
  BY DEF StateOK, Regs
<1>2. "Z" \in FlagNames \ {"U"} /\ "N" \in FlagNames \ {"U"}
  BY DEF FlagNames
<1>3. PICK flags \in SUBSET FlagNames : flags = SetFlag(s.flags, "Z", v = 0) /\ "U" \in flags
  BY <1>1, <1>2, SetFlagTyped
<1>4. PICK more \in SUBSET FlagNames : more = SetFlag(flags, "N", v >= 128) /\ "U" \in more
  BY <1>2, <1>3, SetFlagTyped
<1>5. StateOK([s EXCEPT !.flags = more])
  BY <1>4, FlagsTyped
<1> QED
  BY <1>3, <1>4, <1>5 DEF Zn, TestZn

LEMMA RegisterOK ==
    ASSUME NEW s, StateOK(s), NEW r \in {"a", "x", "y", "sp"}, NEW v \in Byte
    PROVE  StateOK([s EXCEPT ![r] = v])
BY DEF StateOK, Regs

LEMMA SetRegOK ==
    ASSUME NEW s, StateOK(s), NEW r \in {"a", "x", "y", "sp"}, NEW v \in Byte
    PROVE  StateOK(SetReg(s, r, v))
BY RegisterOK, ZnOK DEF SetReg

LEMMA PcOK ==
    ASSUME NEW s, StateOK(s), NEW n \in Address
    PROVE  StateOK([s EXCEPT !.pc = n])
BY DEF StateOK, Regs

LEMMA RegistersTyped ==
    ASSUME NEW s, StateOK(s)
    PROVE  /\ s.a \in Byte /\ s.x \in Byte /\ s.y \in Byte /\ s.sp \in Byte
           /\ s.pc \in Address /\ s.flags \in SUBSET FlagNames /\ "U" \in s.flags
BY DEF StateOK, Regs

LEMMA AddOK ==
    ASSUME NEW s, StateOK(s), NEW v \in Byte
    PROVE  StateOK(AddBinary(s, v)) /\ StateOK(SubtractBinary(s, v))
<1> DEFINE sum == s.a + v + (IF "C" \in s.flags THEN 1 ELSE 0)
           diff == s.a - v - (IF "C" \in s.flags THEN 0 ELSE 1)
           r == sum % 256
           d == diff % 256
           over == Bit(s.a, 7) = Bit(v, 7) /\ Bit(s.a, 7) # Bit(r, 7)
           under == Bit(s.a, 7) # Bit(v, 7) /\ Bit(s.a, 7) # Bit(d, 7)
           added == [SetC(s, sum > 255) EXCEPT !.flags = SetFlag(@, "V", over)]
           taken == [SetC(s, diff >= 0) EXCEPT !.flags = SetFlag(@, "V", under)]
<1>1. r \in Byte /\ d \in Byte
  BY RegistersTyped, ByteIsInt, ByteTyped
<1>2. AddBinary(s, v) = SetReg(added, "a", r) /\ SubtractBinary(s, v) = SetReg(taken, "a", d)
  BY DEF AddBinary, SubtractBinary
<1> HIDE DEF sum, diff, r, d, over, under
<1>3. StateOK(added) /\ StateOK(taken)
  BY SetCOK, SetFlagOK
<1> HIDE DEF added, taken
<1> QED
  BY <1>1, <1>2, <1>3, SetRegOK

LEMMA ComparedOK ==
    ASSUME NEW s, StateOK(s), NEW r, NEW v
    PROVE  StateOK(Compared(s, r, v))
BY SetCOK, ZnOK DEF Compared

-----------------------------------------------------------------------------
(***************************************************************************)
(* The pace of the bus.                                                    *)
(***************************************************************************)
LEMMA AccessTyped ==
    /\ Cycle \in Accesses
    /\ \A a \in Address, v \in Byte : Read(a, v) \in Accesses /\ Write(a, v) \in Accesses
    /\ Ignored \in Byte
<1>1. Cycle \in Accesses
  BY DEF Accesses
<1>2. ASSUME NEW a \in Address, NEW v \in Byte
      PROVE  Read(a, v) \in Accesses /\ Write(a, v) \in Accesses
  BY DEF Accesses, Read, Write
<1>3. Ignored \in Byte
  BY DEF Ignored, Byte
<1> QED
  BY <1>1, <1>2, <1>3

LEMMA SteadyPieces ==
    /\ Steady(<<>>) /\ Steady(<<Cycle>>)
    /\ \A a \in Accesses : Steady(<<a, Cycle>>)
<1>1. Steady(<<>>)
  BY DEF Steady
<1>2. Steady(<<Cycle>>)
  BY AccessTyped DEF Steady
<1>3. ASSUME NEW a \in Accesses PROVE Steady(<<a, Cycle>>)
  <2> DEFINE s == <<a, Cycle>>
  <2>1. s \in Seq(Accesses) /\ Len(s) = 2 /\ s[1] = a /\ s[2] = Cycle
    BY AccessTyped
  <2> HIDE DEF s
  <2>2. \A i \in 1..(Len(s) - 1) : Cycle \in {s[i], s[i + 1]}
    BY <2>1
  <2> QED
    BY <2>1, <2>2 DEF Steady, s
<1> QED
  BY <1>1, <1>2, <1>3

LEMMA Concatenation ==
    ASSUME NEW s \in Seq(Accesses), NEW t \in Seq(Accesses)
    PROVE  /\ s \o t \in Seq(Accesses) /\ Len(s \o t) = Len(s) + Len(t)
           /\ \A i \in 1..(Len(s) + Len(t)) :
                 (s \o t)[i] = IF i <= Len(s) THEN s[i] ELSE t[i - Len(s)]
OBVIOUS

(* A steady piece may follow anything, and two of them are one. *)
LEMMA SteadyJoins ==
    ASSUME NEW s, NEW t, Steady(s), Steady(t)
    PROVE  Steady(s \o t)
<1>1. /\ s \in Seq(Accesses) /\ t \in Seq(Accesses) /\ Len(s) \in Nat /\ Len(t) \in Nat
      /\ s = <<>> <=> Len(s) = 0
      /\ t = <<>> <=> Len(t) = 0
  BY DEF Steady
<1>2. /\ s \o t \in Seq(Accesses) /\ Len(s \o t) = Len(s) + Len(t)
      /\ \A i \in 1..(Len(s) + Len(t)) :
            (s \o t)[i] = IF i <= Len(s) THEN s[i] ELSE t[i - Len(s)]
  BY <1>1
<1> DEFINE u == s \o t
<1> HIDE DEF u
<1>3. \A i \in 1..(Len(u) - 1) : Cycle \in {u[i], u[i + 1]}
  <2>0. Len(u) = Len(s) + Len(t)
    BY <1>2 DEF u
  <2> SUFFICES ASSUME NEW i \in 1..(Len(s) + Len(t) - 1)
               PROVE  Cycle \in {u[i], u[i + 1]}
    BY <2>0
  <2>1. CASE i < Len(s)
    <3>1. u[i] = s[i] /\ u[i + 1] = s[i + 1] /\ i \in 1..(Len(s) - 1)
      BY <1>1, <1>2, <2>1 DEF u
    <3> QED
      BY <3>1 DEF Steady
  <2>2. CASE i = Len(s)
    <3>1. u[i] = s[Len(s)] /\ s # <<>>
      BY <1>1, <1>2, <2>2 DEF u
    <3> QED
      BY <3>1 DEF Steady
  <2>3. CASE i > Len(s)
    <3> DEFINE j == i - Len(s)
    <3>1. /\ i \in 1..(Len(s) + Len(t)) /\ i + 1 \in 1..(Len(s) + Len(t))
          /\ ~(i <= Len(s)) /\ ~(i + 1 <= Len(s))
          /\ j \in 1..(Len(t) - 1) /\ (i + 1) - Len(s) = j + 1
      BY <1>1, <2>3
    <3>2. u[i] = t[j] /\ u[i + 1] = t[j + 1]
      BY <1>2, <3>1 DEF u
    <3> HIDE DEF j
    <3> QED
      BY <3>1, <3>2 DEF Steady
  <2> QED
    BY <1>1, <2>1, <2>2, <2>3
<1>4. u # <<>> => u[Len(u)] = Cycle
  <2>1. CASE Len(t) = 0
    BY <1>1, <1>2, <2>1 DEF u, Steady
  <2>2. CASE Len(t) # 0
    <3>1. u[Len(u)] = t[Len(t)]
      BY <1>1, <1>2, <2>2 DEF u
    <3> QED
      BY <1>1, <2>2, <3>1 DEF Steady
  <2> QED
    BY <2>1, <2>2
<1> QED
  BY <1>2, <1>3, <1>4 DEF u, Steady

(* An access, then its cycle. *)
LEMMA SteadyThenCycle ==
    ASSUME NEW a \in Accesses
    PROVE  Steady(<<a>> \o <<Cycle>>)
<1> DEFINE s == <<a>>
           t == <<Cycle>>
           u == s \o t
<1>1. s \in Seq(Accesses) /\ t \in Seq(Accesses) /\ Len(s) = 1 /\ Len(t) = 1
  BY AccessTyped
<1>2. \A i \in 1..1 : t[i] = Cycle
  OBVIOUS
<1> HIDE DEF s, t
<1>3. /\ s \o t \in Seq(Accesses) /\ Len(s \o t) = Len(s) + Len(t)
      /\ \A i \in 1..(Len(s) + Len(t)) :
            (s \o t)[i] = IF i <= Len(s) THEN s[i] ELSE t[i - Len(s)]
  BY <1>1, Concatenation
<1> HIDE DEF u
<1>4. /\ u \in Seq(Accesses) /\ Len(u) = Len(s) + Len(t)
      /\ \A i \in 1..(Len(s) + Len(t)) :
            u[i] = IF i <= Len(s) THEN s[i] ELSE t[i - Len(s)]
  BY <1>3 DEF u
<1>5. \A i \in 1..2 : i > 1 => u[i] = Cycle
  <2> SUFFICES ASSUME NEW i \in 1..2, i > 1 PROVE u[i] = Cycle
    OBVIOUS
  <2> DEFINE j == i - Len(s)
  <2>1. i \in 1..(Len(s) + Len(t)) /\ i > Len(s) /\ j \in 1..1
    BY <1>1
  <2>2. u[i] = t[j]
    BY <1>4, <2>1
  <2> HIDE DEF j
  <2> QED
    BY <1>2, <2>1, <2>2
<1>6. Steady(u)
  BY <1>1, <1>4, <1>5 DEF Steady
<1> QED
  BY <1>6 DEF u, s, t

LEMMA SteadyTyped ==
    ASSUME NEW s, Steady(s), NEW t \in Seq(Accesses)
    PROVE  t \o s \in Seq(Accesses)
BY DEF Steady

LEMMA SteadyPairs ==
    ASSUME NEW a \in Accesses, NEW b \in Accesses, NEW c \in Accesses
    PROVE  /\ Steady(<<a, Cycle, b, Cycle>>)
           /\ Steady(<<a, Cycle, b, Cycle, c, Cycle>>)
<1>1. Steady(<<a, Cycle>>) /\ Steady(<<b, Cycle>>) /\ Steady(<<c, Cycle>>)
  BY SteadyPieces
<1>2. <<a, Cycle, b, Cycle>> = <<a, Cycle>> \o <<b, Cycle>>
  OBVIOUS
<1>3. Steady(<<a, Cycle, b, Cycle>>)
  BY <1>1, <1>2, SteadyJoins
<1>4. <<a, Cycle, b, Cycle, c, Cycle>> = <<a, Cycle, b, Cycle>> \o <<c, Cycle>>
  OBVIOUS
<1> QED
  BY <1>1, <1>3, <1>4, SteadyJoins

(* Pushes and pops are accesses to the stack page, a cycle after each. *)
LEMMA StackAddress == \A n \in Int : 256 + (n % 256) \in Address
BY AddressBounds

LEMMA SteadyPushes ==
    ASSUME NEW sp \in Byte, NEW vs \in Seq(Byte)
    PROVE  Steady(PushAccesses(sp, vs)) /\ Steady(PopAccesses(sp, vs))
<1> DEFINE n == Len(vs)
           push(i) == Write(256 + ((sp - (i \div 2)) % 256), vs[(i + 1) \div 2])
           pop(i) == Read(Top(sp, (i + 1) \div 2), vs[(i + 1) \div 2])
           p == [i \in 1..(2 * n) |-> IF i % 2 = 0 THEN Cycle ELSE push(i)]
           q == [i \in 1..(2 * n) |-> IF i % 2 = 0 THEN Cycle ELSE pop(i)]
<1>1. n \in Nat /\ 2 * n \in Nat /\ (2 * n) % 2 = 0
  OBVIOUS
<1>2. \A i \in 1..(2 * n) : i % 2 # 0 => push(i) \in Accesses /\ pop(i) \in Accesses
  <2> TAKE i \in 1..(2 * n)
  <2> HAVE i % 2 # 0
  <2>1. (i + 1) \div 2 \in 1..n
    BY <1>1
  <2>2. vs[(i + 1) \div 2] \in Byte
    BY <2>1
  <2>3. /\ 256 + ((sp - (i \div 2)) % 256) \in Address
        /\ Top(sp, (i + 1) \div 2) \in Address
    BY StackAddress, ByteIsInt DEF Top
  <2> QED
    BY <2>2, <2>3, AccessTyped
<1>3. ASSUME NEW f, \A i \in 1..(2 * n) : i % 2 # 0 => f[i] \in Accesses,
             f = [i \in 1..(2 * n) |-> IF i % 2 = 0 THEN Cycle ELSE f[i]]
      PROVE  Steady(f)
  <2> HIDE DEF n
  <2>1. f \in [1..(2 * n) -> Accesses]
    BY <1>3, AccessTyped
  <2>2. f \in Seq(Accesses) /\ Len(f) = 2 * n
    BY <1>1, <2>1
  <2>3. \A i \in 1..(2 * n) : i % 2 = 0 => f[i] = Cycle
    BY <1>3
  <2>4. \A i \in 1..(2 * n - 1) : Cycle \in {f[i], f[i + 1]}
    BY <1>1, <2>3
  <2>5. f # <<>> => f[2 * n] = Cycle
    BY <1>1, <2>2, <2>3
  <2> QED
    BY <2>2, <2>4, <2>5 DEF Steady
<1>4. Steady(p)
  BY ZenonT(40), <1>2, <1>3
<1>5. Steady(q)
  BY ZenonT(40), <1>2, <1>3
<1> QED
  BY <1>4, <1>5 DEF PushAccesses, PopAccesses

-----------------------------------------------------------------------------
(***************************************************************************)
(* The table, and the memory.                                              *)
(***************************************************************************)
LEMMA RowHandler == \A h, columns : \A r \in Row(h, columns) : r[2] = h
BY DEF Row

LEMMA BbsRows ==
    /\ \A r \in DocumentedRows : r[2] = "bbs" => r[3] = "bitrel"
    /\ \A r \in UndocumentedRows : r[2] = "bbs" => r[3] = "bitrel"
<1>1. \A r \in ImpliedRows \cup BranchRows : r[2] # "bbs"
  BY DEF ImpliedRows, BranchRows
<1>2. \A h, base : h # "bbs" =>
        /\ \A r \in AccumulatorRow(h, base) : r[2] # "bbs"
        /\ \A r \in ModifyRow(h, base) : r[2] # "bbs"
        /\ \A r \in UndocumentedModifyRow(h, base) : r[2] # "bbs"
  BY RowHandler DEF AccumulatorRow, ModifyRow, UndocumentedModifyRow
<1>3. \A h, columns : h # "bbs" => \A r \in Row(h, columns) : r[2] # "bbs"
  BY RowHandler
<1>4. \A r \in Row("bbs", [bitrel |-> \h9F]) : r[3] = "bitrel"
  BY DEF Row
<1>5. ASSUME NEW r \in DocumentedRows, r[2] = "bbs" PROVE r[3] = "bitrel"
  BY <1>1, <1>2, <1>3, <1>4, <1>5 DEF DocumentedRows
<1>6. ASSUME NEW r \in UndocumentedRows, r[2] = "bbs" PROVE r[3] = "bitrel"
  BY <1>2, <1>3, <1>6 DEF UndocumentedRows
<1> QED
  BY <1>5, <1>6

LEMMA TableOfRows ==
    ASSUME NEW rows, NEW op \in DOMAIN Table(rows)
    PROVE  \E r \in rows : Table(rows)[op] = Callback(r)
<1>1. \E r \in rows : r[1] = op
  BY DEF Table
<1>2. (CHOOSE r \in rows : r[1] = op) \in rows
  BY <1>1
<1> QED
  BY <1>2 DEF Table

(* Only BBS reads its displacement through the mode with two operands. *)
LEMMA BbsMode ==
    ASSUME NEW op \in Byte, opcodes[op].handler = "bbs"
    PROVE  opcodes[op].mode = "bitrel"
<1> DEFINE documented == Table(DocumentedRows)
           undocumented == Table(UndocumentedRows)
<1>1. ASSUME NEW r, r[2] = "bbs" => r[3] = "bitrel", Callback(r).handler = "bbs"
      PROVE  Callback(r).mode = "bitrel"
  BY <1>1 DEF Callback, Variant, Stores, Modifies
<1>2. ASSUME op \in DOMAIN documented, documented[op].handler = "bbs"
      PROVE  documented[op].mode = "bitrel"
  BY <1>1, <1>2, TableOfRows, BbsRows
<1>3. ASSUME op \in DOMAIN undocumented, undocumented[op].handler = "bbs"
      PROVE  undocumented[op].mode = "bitrel"
  BY <1>1, <1>3, TableOfRows, BbsRows
<1>4. Invalid.handler # "bbs" /\ BrkCallback.handler # "bbs"
  BY DEF Invalid, BrkCallback
<1>5. \/ opcodes[op] = BrkCallback
      \/ op \in DOMAIN undocumented /\ opcodes[op] = undocumented[op]
      \/ op \in DOMAIN documented /\ opcodes[op] = documented[op]
      \/ opcodes[op] = Invalid
  BY DEF opcodes, Byte
<1> QED
  BY <1>2, <1>3, <1>4, <1>5

(* What a read may return is a byte. *)
LEMMA AnswersTyped ==
    ASSUME TypeInv
    PROVE  Bytes \subseteq Byte /\ \A a : Answers(a) \subseteq Byte
<1>1. Bytes \subseteq Byte
  BY CaseAssumption DEF TypeInv, Bytes
<1> QED
  BY <1>1 DEF TypeInv, PageOK, Answers

LEMMA StoredOK ==
    ASSUME PageOK(page1), NEW a \in Address, NEW v \in Byte
    PROVE  PageOK(Stored(a, v))
BY HalvesTyped DEF PageOK, Stored

LEMMA PushedOK ==
    ASSUME PageOK(page1), NEW sp \in Byte, NEW vs \in Seq(Byte)
    PROVE  PageOK(Pushed(sp, vs))
<1>1. ASSUME NEW i \in Cells(sp, Len(vs))
      PROVE  i \in Byte /\ vs[((sp - i) % 256) + 1] \in Byte
  <2>1. PICK k \in 0..(Len(vs) - 1) : i = (sp - k) % 256
    BY DEF Cells
  <2>2. i \in Byte /\ sp \in Int
    BY <2>1, ByteTyped, ByteIsInt
  <2>3. (sp - i) % 256 \in 0..k
    BY <2>1, <2>2
  <2> QED
    BY <2>2, <2>3
<1> QED
  BY <1>1 DEF PageOK, Pushed

-----------------------------------------------------------------------------
(***************************************************************************)
(* The addressing modes.                                                   *)
(***************************************************************************)
LEMMA ReadSteady ==
    ASSUME NEW a \in Address, NEW v \in Byte
    PROVE  /\ Steady(<<Read(a, v), Cycle>>)
           /\ Steady(<<Write(a, v), Cycle>>)
BY AccessTyped, SteadyPieces

LEMMA PcMoves ==
    ASSUME NEW s, StateOK(s), NEW n \in Int
    PROVE  Wrapped(s.pc + n) \in Address /\ StateOK([s EXCEPT !.pc = Wrapped(@ + n)])
<1>1. s.pc \in Int
  BY RegistersTyped, AddressIsInt
<1>2. s.pc + n \in Int
  BY <1>1
<1>3. Wrapped(s.pc + n) \in Address
  BY <1>2, WrapTyped
<1> QED
  BY <1>3, PcOK

LEMMA OperandSteady ==
    ASSUME StateOK(state), NEW i \in Nat, NEW v \in Byte
    PROVE  Steady(Operand(i, v))
<1> DEFINE at == Wrapped(state.pc + i)
<1>1. state.pc \in Int
  BY RegistersTyped, AddressIsInt
<1>2. state.pc + i \in Int
  BY <1>1
<1>3. at \in Address
  BY <1>2, WrapTyped
<1> HIDE DEF at
<1>4. Steady(<<Read(at, v), Cycle>>)
  BY <1>3, ReadSteady
<1> QED
  BY <1>4 DEF Operand, at

LEMMA PointerSteady ==
    ASSUME NEW z \in Byte, NEW v \in Byte
    PROVE  Steady(Pointer(z, v)) /\ Steady(<<Read(z, Ignored), Cycle>>)
BY ByteIsAddress, ReadSteady, AccessTyped DEF Pointer

LEMMA DummySteady ==
    ASSUME NEW base \in Address, NEW index \in Byte
    PROVE  Steady(DummyRead(base, index)) /\ Steady(<<>>) /\ Indexed(base, index) \in Address
<1>1. WrongPage(base, index) \in Address
  <2>1. Low(base) \in Byte /\ High(base) \in Byte
    BY HalvesTyped
  <2>2. Low(base) + index \in Int
    BY <2>1, ByteIsInt
  <2>3. (Low(base) + index) % 256 \in Byte
    BY <2>2, ByteTyped
  <2> QED
    BY <2>1, <2>3, WordTyped DEF WrongPage
<1>2. Indexed(base, index) \in Address
  <2>1. base + index \in Int
    BY AddressIsInt, ByteIsInt
  <2> QED
    BY <2>1, WrapTyped DEF Indexed
<1> QED
  BY <1>1, <1>2, ReadSteady, AccessTyped, SteadyPieces DEF DummyRead

(* The addressing mode of an instruction keeps what the handler needs. *)
LEMMA AddressedKeeps ==
    ASSUME Inv, NEW a \in Address, NEW n \in Nat, NEW s, Steady(s), Addressed(a, n, s),
           mode = "bitrel" => Len(s) > 1 /\ s[Len(s) - 1][3] \in Byte
    PROVE  Inv'
<1> USE DEF Inv, Addressed
<1>1. /\ handler' = handler /\ mode' = mode /\ phase' = "execute"
      /\ UNCHANGED <<case, page1, m_int_delay, m_nmi_pending, opcode>>
  BY DEF handler, mode, budget
<1>2. StateOK(state')
  BY PcMoves DEF TypeInv
<1>3. trace' = trace \o s /\ Steady(trace) /\ trace # <<>> /\ s \in Seq(Accesses)
  BY DEF PaceInv, Steady
<1>4. Steady(trace') /\ trace' \in Seq(Accesses) /\ Len(trace') = Len(trace) + Len(s)
  <2>1. Steady(trace')
    BY <1>3, SteadyJoins
  <2>2. trace \in Seq(Accesses) /\ trace' \in Seq(Accesses)
    BY <1>3, <2>1 DEF Steady
  <2>3. Len(trace') = Len(trace) + Len(s)
    BY <1>3, <2>2
  <2> QED
    BY <2>1, <2>2, <2>3
<1>5. TypeInv'
  BY <1>1, <1>2, <1>4 DEF TypeInv
<1>6. trace' # <<>>
  BY <1>3, <1>4 DEF Steady
<1>7. PaceInv'
  BY <1>4, <1>6 DEF PaceInv
<1>8. DisplacementRead'
  <2> SUFFICES ASSUME mode = "bitrel"
               PROVE  Len(trace') > 1 /\ trace'[Len(trace') - 1][3] \in Byte
    BY <1>1 DEF DisplacementRead
  <2>1. /\ trace \in Seq(Accesses) /\ s \in Seq(Accesses)
        /\ Len(trace) \in Nat /\ Len(s) \in Nat /\ Len(s) > 1
    BY <1>3 DEF Steady
  <2>2. trace'[Len(trace') - 1] = s[Len(s) - 1]
    BY <1>3, <1>4, <2>1
  <2> QED
    BY <1>4, <2>1, <2>2
<1> QED
  BY <1>5, <1>7, <1>8

LEMMA AddressModeKeeps ==
    ASSUME Inv, AddressMode
    PROVE  Inv'
<1>1. /\ StateOK(state) /\ Bytes \subseteq Byte /\ addr \in Address
      /\ state.x \in Byte /\ state.y \in Byte /\ state.pc \in Address
  BY AnswersTyped, RegistersTyped DEF Inv, TypeInv
<1>2. 0 \in Nat /\ 1 \in Nat /\ 2 \in Nat
  OBVIOUS
<1>3. ASSUME NEW a \in Address, NEW n \in Nat, NEW s, Steady(s), Addressed(a, n, s),
             mode # "bitrel"
      PROVE  Inv'
  BY <1>3, AddressedKeeps
<1>4. ASSUME NEW v \in Byte, NEW w \in Byte
      PROVE  /\ Steady(Operand(0, v)) /\ Steady(Operand(1, w))
             /\ Steady(Operand(0, v) \o Operand(1, w))
             /\ v \in Address /\ Word(v, w) \in Address
  BY <1>1, <1>2, OperandSteady, SteadyJoins, ByteIsAddress, WordTyped
<1>5. ASSUME NEW b \in Address, NEW i \in Byte, NEW s, Steady(s), NEW yes
      PROVE  Steady(s \o IF yes THEN DummyRead(b, i) ELSE <<>>)
  BY <1>5, DummySteady, SteadyJoins
<1>6. ASSUME Implied PROVE Inv'
  <2>1. mode # "bitrel"
    BY <1>6 DEF Implied
  <2>2. Steady(IF mode = "impl" THEN <<Cycle>> ELSE <<>>)
    BY SteadyPieces
  <2> QED
    BY <1>1, <1>2, <1>3, <1>6, <2>1, <2>2 DEF Implied
<1>7. ASSUME Immediate PROVE Inv'
  <2>1. mode # "bitrel"
    BY <1>7 DEF Immediate
  <2> QED
    BY <1>1, <1>2, <1>3, <1>7, <2>1, SteadyPieces DEF Immediate
<1>8. ASSUME ZeroPage PROVE Inv'
  <2>1. PICK zero \in Byte : Addressed(zero, 1, Operand(0, zero)) /\ mode # "bitrel"
    BY <1>1, <1>8 DEF ZeroPage
  <2> QED
    BY <1>2, <1>3, <1>4, <2>1
<1>9. ASSUME ZeroPageIndexed PROVE Inv'
  <2> DEFINE index == IF mode = "zpx" THEN state.x ELSE state.y
             dummy(zero) == <<Read(zero, Ignored), Cycle>>
             at(zero) == (zero + index) % 256
  <2>1. index \in Byte
    BY <1>1
  <2>2. PICK zero \in Byte :
            Addressed(at(zero), 1, Operand(0, zero) \o dummy(zero)) /\ mode # "bitrel"
    BY <1>1, <1>9 DEF ZeroPageIndexed
  <2>3. at(zero) \in Address
    <3>1. zero + index \in Int
      BY <2>1, ByteIsInt
    <3> QED
      BY <3>1, ByteTyped, ByteIsAddress
  <2> HIDE DEF at, index
  <2>4. Steady(dummy(zero))
    BY PointerSteady
  <2> HIDE DEF dummy
  <2>5. Steady(Operand(0, zero) \o dummy(zero))
    BY <1>4, <2>4, SteadyJoins
  <2> QED
    BY <1>2, <1>3, <2>2, <2>3, <2>5
<1>10. ASSUME Absolute PROVE Inv'
  <2>1. PICK low \in Byte, high \in Byte :
            /\ Addressed(Word(low, high), 2, Operand(0, low) \o Operand(1, high))
            /\ mode # "bitrel"
    BY <1>1, <1>10 DEF Absolute
  <2> QED
    BY <1>2, <1>3, <1>4, <2>1
<1>11. ASSUME AbsoluteIndexed PROVE Inv'
  <2> DEFINE index == IF mode \in {"abx", "abxW"} THEN state.x ELSE state.y
             late(base) == Crosses(base, index) \/ mode \in {"abxW", "abyW"}
  <2>1. index \in Byte
    BY <1>1
  <2>2. PICK low \in Byte, high \in Byte :
            /\ Addressed(Indexed(Word(low, high), index), 2,
                   Operand(0, low) \o Operand(1, high)
                   \o IF late(Word(low, high)) THEN DummyRead(Word(low, high), index) ELSE <<>>)
            /\ mode # "bitrel"
    BY <1>1, <1>11 DEF AbsoluteIndexed
  <2> HIDE DEF index, late
  <2>3. PICK base \in Address : base = Word(low, high)
    BY <1>4
  <2>4. /\ Indexed(base, index) \in Address
        /\ Steady(Operand(0, low) \o Operand(1, high)
                  \o IF late(base) THEN DummyRead(base, index) ELSE <<>>)
    BY <1>4, <1>5, <2>1, DummySteady
  <2> QED
    BY <1>2, <1>3, <2>2, <2>3, <2>4
<1>12. ASSUME BusConflictInvalid PROVE Inv'
  <2>1. PICK low \in Byte, high \in Byte :
            /\ Addressed(Word(low, high), 2,
                   Operand(0, low) \o Operand(1, high)
                   \o IF Crosses(Word(low, high), state.x)
                      THEN DummyRead(Word(low, high), state.x) ELSE <<>>)
            /\ mode # "bitrel"
    BY <1>1, <1>12 DEF BusConflictInvalid
  <2>2. PICK base \in Address : base = Word(low, high)
    BY <1>4
  <2>3. Steady(Operand(0, low) \o Operand(1, high)
               \o IF Crosses(base, state.x) THEN DummyRead(base, state.x) ELSE <<>>)
    BY <1>1, <1>4, <1>5
  <2> QED
    BY <1>2, <1>3, <2>1, <2>2, <2>3
<1>13. ASSUME NEW zero \in Byte, NEW at \in Byte, NEW low \in Byte, NEW high \in Byte,
              NEW s, Steady(s)
       PROVE  Steady(s \o Pointer(at, low) \o Pointer(NextZero(at), high))
  <2>1. NextZero(at) \in Byte
    BY ByteIsInt, ByteTyped DEF NextZero
  <2> QED
    BY <1>13, <2>1, PointerSteady, SteadyJoins
<1>14. ASSUME IndZeroX PROVE Inv'
  <2> DEFINE at(zero) == (zero + state.x) % 256
             dummy(zero) == <<Read(zero, Ignored), Cycle>>
  <2>1. PICK zero \in Byte, low \in Byte, high \in Byte :
            /\ Addressed(Word(low, high), 1,
                   Operand(0, zero) \o dummy(zero)
                   \o Pointer(at(zero), low) \o Pointer(NextZero(at(zero)), high))
            /\ mode # "bitrel"
    BY <1>1, <1>14 DEF IndZeroX
  <2>2. at(zero) \in Byte
    <3>1. zero + state.x \in Int
      BY <1>1, ByteIsInt
    <3> QED
      BY <3>1, ByteTyped
  <2> HIDE DEF at
  <2>3. Steady(dummy(zero))
    BY PointerSteady
  <2> HIDE DEF dummy
  <2>4. Steady(Operand(0, zero) \o dummy(zero))
    BY <1>4, <2>3, SteadyJoins
  <2>5. Steady(Operand(0, zero) \o dummy(zero)
               \o Pointer(at(zero), low) \o Pointer(NextZero(at(zero)), high))
    BY <1>13, <2>2, <2>4
  <2> QED
    BY <1>2, <1>3, <1>4, <2>1, <2>5
<1>15. ASSUME IndZeroY PROVE Inv'
  <2> DEFINE late(base) == Crosses(base, state.y) \/ mode = "izyW"
  <2>1. PICK zero \in Byte, low \in Byte, high \in Byte :
            /\ Addressed(Indexed(Word(low, high), state.y), 1,
                   Operand(0, zero) \o Pointer(zero, low) \o Pointer(NextZero(zero), high)
                   \o IF late(Word(low, high)) THEN DummyRead(Word(low, high), state.y)
                      ELSE <<>>)
            /\ mode # "bitrel"
    BY <1>1, <1>15 DEF IndZeroY
  <2> HIDE DEF late
  <2>2. PICK base \in Address : base = Word(low, high)
    BY <1>4
  <2>3. Steady(Operand(0, zero) \o Pointer(zero, low) \o Pointer(NextZero(zero), high))
    BY <1>4, <1>13
  <2>4. /\ Indexed(base, state.y) \in Address
        /\ Steady(Operand(0, zero) \o Pointer(zero, low) \o Pointer(NextZero(zero), high)
                  \o IF late(base) THEN DummyRead(base, state.y) ELSE <<>>)
    BY <1>1, <1>5, <2>3, DummySteady
  <2> QED
    BY <1>2, <1>3, <2>1, <2>2, <2>4
<1>16. ASSUME IndirectZP PROVE Inv'
  <2>1. PICK zero \in Byte, low \in Byte, high \in Byte :
            /\ Addressed(Word(low, high), 1,
                   Operand(0, zero) \o Pointer(zero, low) \o Pointer(NextZero(zero), high))
            /\ mode # "bitrel"
    BY <1>1, <1>16 DEF IndirectZP
  <2>2. Steady(Operand(0, zero) \o Pointer(zero, low) \o Pointer(NextZero(zero), high))
    BY <1>4, <1>13
  <2> QED
    BY <1>2, <1>3, <1>4, <2>1, <2>2
<1>17. ASSUME BitRelative PROVE Inv'
  <2>1. PICK zero \in Byte, disp \in Byte :
            Addressed(zero, 2, Operand(0, zero) \o Operand(1, disp))
    BY <1>1, <1>17 DEF BitRelative
  <2> DEFINE s == Operand(0, zero) \o Operand(1, disp)
  <2>2. Len(s) = 4 /\ s[3] = Read(Wrapped(state.pc + 1), disp)
    BY DEF Operand
  <2>3. Len(s) > 1 /\ s[Len(s) - 1][3] \in Byte
    BY <2>2 DEF Read
  <2>4. Steady(s)
    BY <1>4
  <2> HIDE DEF s
  <2> QED
    BY <1>2, <1>4, <2>1, <2>3, <2>4, AddressedKeeps DEF s
<1> QED
  BY <1>6, <1>7, <1>8, <1>9, <1>10, <1>11, <1>12, <1>14, <1>15, <1>16, <1>17 DEF AddressMode

-----------------------------------------------------------------------------
(***************************************************************************)
(* The shapes of a handler.                                                *)
(***************************************************************************)

(* What every handler does but for the registers; only an invalid opcode *)
(* has an access without a cycle.                                        *)
Moved ==
    /\ phase' = "poll"
    /\ UNCHANGED <<case, opcode, addr, m_nmi_pending>>
    /\ m_int_delay' \in BOOLEAN
    /\ PageOK(page1')
    /\ \E s : Steady(s) /\ trace' = trace \o s

LEMMA MovedKeeps ==
    ASSUME Inv, phase = "execute", Moved, StateOK(state')
    PROVE  Inv'
<1>1. handler' = handler
  BY DEF Moved, handler
<1>2. Steady(trace) /\ trace # <<>>
  BY DEF Inv, PaceInv
<1>3. PICK s : Steady(s) /\ trace' = trace \o s
  BY DEF Moved
<1>4. Steady(trace')
  BY <1>2, <1>3, SteadyJoins
<1>5. trace' # <<>>
  <2>1. trace \in Seq(Accesses) /\ s \in Seq(Accesses)
    BY <1>2, <1>3 DEF Steady
  <2> QED
    BY <1>2, <1>3, <2>1
<1>6. trace' \in Seq(Accesses)
  BY <1>4 DEF Steady
<1>7. TypeInv'
  BY <1>6 DEF Inv, TypeInv, Moved
<1>8. PaceInv'
  BY <1>4, <1>5 DEF PaceInv
<1>9. DisplacementRead'
  BY DEF DisplacementRead, Moved
<1> QED
  BY <1>7, <1>8, <1>9 DEF Inv

LEMMA ExecutedMoves ==
    ASSUME TypeInv, NEW s, Steady(s), Executed(s), m_int_delay' \in BOOLEAN, PageOK(page1')
    PROVE  Moved
BY DEF Executed, Moved, budget

LEMMA InternalMoves ==
    ASSUME TypeInv, NEW name, Internal(name), m_int_delay' \in BOOLEAN
    PROVE  Moved
<1>1. PageOK(page1')
  BY DEF TypeInv, Internal
<1> QED
  BY <1>1, SteadyPieces, ExecutedMoves DEF Internal

LEMMA InternalStepMoves ==
    ASSUME TypeInv, NEW name, InternalStep(name)
    PROVE  Moved
BY InternalMoves DEF InternalStep, TypeInv

LEMMA ReadsMoves ==
    ASSUME TypeInv, NEW name, NEW v \in Byte, Reads(name, v)
    PROVE  Moved
<1>1. PageOK(page1') /\ m_int_delay' \in BOOLEAN
  BY DEF TypeInv, Reads
<1>2. Steady(<<Read(addr, v), Cycle>>)
  BY ReadSteady DEF TypeInv
<1> QED
  BY <1>1, <1>2, ExecutedMoves DEF Reads

LEMMA StoresMoves ==
    ASSUME TypeInv, NEW name, NEW a \in Address, NEW v \in Byte, StoresAt(name, a, v)
    PROVE  Moved
<1>1. m_int_delay' \in BOOLEAN
  BY DEF TypeInv, StoresAt
<1>2. PageOK(page1')
  BY StoredOK DEF TypeInv, StoresAt
<1>3. Steady(<<Write(a, v), Cycle>>)
  BY ReadSteady
<1> QED
  BY <1>1, <1>2, <1>3, ExecutedMoves DEF StoresAt

LEMMA ModifyingMoves ==
    ASSUME TypeInv, NEW name, NEW v \in Byte, NEW new \in Byte, Modifying(name, v, new)
    PROVE  Moved
<1>1. m_int_delay' \in BOOLEAN /\ addr \in Address
  BY DEF TypeInv, Modifying
<1>2. PageOK(page1')
  BY <1>1, StoredOK DEF TypeInv, Modifying
<1>3. Read(addr, v) \in Accesses /\ Write(addr, v) \in Accesses /\ Write(addr, new) \in Accesses
  BY <1>1, AccessTyped
<1>4. Steady(<<Read(addr, v), Cycle, Write(addr, v), Cycle, Write(addr, new), Cycle>>)
  BY <1>3, SteadyPairs
<1> QED
  BY <1>1, <1>2, <1>4, ExecutedMoves DEF Modifying

-----------------------------------------------------------------------------
(***************************************************************************)
(* The documented handlers.                                                *)
(***************************************************************************)
LEMMA Values ==
    ASSUME TypeInv
    PROVE  /\ StateOK(state) /\ addr \in Address
           /\ state.a \in Byte /\ state.x \in Byte /\ state.y \in Byte /\ state.sp \in Byte
           /\ state.pc \in Address /\ Carry \in 0..1
           /\ \A a : Answers(a) \subseteq Byte
BY RegistersTyped, AnswersTyped, CarryTyped DEF TypeInv

LEMMA StepsOfByte ==
    ASSUME NEW v \in Byte
    PROVE  (v + 1) % 256 \in Byte /\ (v - 1) % 256 \in Byte
BY ByteIsInt, ByteTyped

LEMMA ArithmeticMoves ==
    ASSUME TypeInv, Adc \/ Sbc \/ AndA \/ Logic \/ Compare \/ BitTest
    PROVE  Moved /\ StateOK(state')
<1>1. ASSUME Adc \/ Sbc PROVE Moved /\ StateOK(state')
  <2>1. PICK v \in Byte :
            \/ Reads("adc", v) /\ state' = AddBinary(state, v)
            \/ Reads("sbc", v) /\ state' = SubtractBinary(state, v)
    BY <1>1, Values DEF Adc, Sbc
  <2> QED
    BY <2>1, Values, ReadsMoves, AddOK
<1>2. ASSUME AndA \/ Logic PROVE Moved /\ StateOK(state')
  <2>1. PICK v \in Byte :
            \/ Reads("and_", v) /\ state' = SetReg(state, "a", And(state.a, v))
            \/ Reads("eor", v) /\ state' = SetReg(state, "a", Xor(state.a, v))
            \/ Reads("ora", v) /\ state' = SetReg(state, "a", Or(state.a, v))
    BY <1>2, Values DEF AndA, Logic
  <2>2. And(state.a, v) \in Byte /\ Or(state.a, v) \in Byte /\ Xor(state.a, v) \in Byte
    BY Values, LogicTyped
  <2> QED
    BY <2>1, <2>2, Values, ReadsMoves, SetRegOK
<1>3. ASSUME Compare PROVE Moved /\ StateOK(state')
  <2>1. PICK v \in Byte :
            \/ Reads("cmp", v) /\ state' = Compared(state, "a", v)
            \/ Reads("cpx", v) /\ state' = Compared(state, "x", v)
            \/ Reads("cpy", v) /\ state' = Compared(state, "y", v)
    BY <1>3, Values DEF Compare
  <2> QED
    BY <2>1, Values, ReadsMoves, ComparedOK
<1>4. ASSUME BitTest PROVE Moved /\ StateOK(state')
  <2> DEFINE s(v) == Zn(state, And(state.a, v))
             t(v) == [s(v) EXCEPT !.flags = SetFlag(@, "V", Bit(v, 6) = 1)]
  <2>1. PICK v \in Byte :
            /\ Reads("bit", v)
            /\ state' = [s(v) EXCEPT !.flags = SetFlag(SetFlag(@, "V", Bit(v, 6) = 1),
                                                      "N", Bit(v, 7) = 1)]
    BY <1>4, Values DEF BitTest
  <2>2. StateOK(s(v))
    BY Values, ZnOK
  <2> HIDE DEF s
  <2>3. StateOK(t(v))
    BY <2>2, SetFlagOK
  <2>4. s(v) \in Regs
    BY <2>2 DEF StateOK
  <2>5. state' = [t(v) EXCEPT !.flags = SetFlag(@, "N", Bit(v, 7) = 1)]
    BY <2>1, <2>4 DEF Regs
  <2> HIDE DEF t
  <2>6. StateOK(state')
    BY <2>3, <2>5, SetFlagOK
  <2> QED
    BY <2>1, <2>6, ReadsMoves
<1> QED
  BY <1>1, <1>2, <1>3, <1>4

LEMMA ShiftMoves ==
    ASSUME TypeInv, Asl \/ Lsr \/ Rol \/ Ror
    PROVE  Moved /\ StateOK(state')
<1>1. \A v \in Byte : /\ LeftOf(v, 0) \in Byte /\ RightOf(v, 0) \in Byte
                      /\ LeftOf(v, Carry) \in Byte /\ RightOf(v, Carry) \in Byte
  BY ShiftsTyped, CarryTyped
<1>2. ASSUME NEW name, NEW v \in Byte, NEW new \in Byte, NEW c,
             Modifying(name, v, new), state' = Zn(SetC(state, c), new)
      PROVE  Moved /\ StateOK(state')
  BY <1>2, Values, ModifyingMoves, SetCOK, ZnOK
<1>3. ASSUME NEW name, NEW new \in Byte, NEW c,
             InternalStep(name), state' = SetReg(SetC(state, c), "a", new)
      PROVE  Moved /\ StateOK(state')
  BY <1>3, Values, InternalStepMoves, SetCOK, SetRegOK
<1>4. Answers(addr) \subseteq Byte /\ state.a \in Byte
  BY Values
<1>5. ASSUME Asl PROVE Moved /\ StateOK(state')
  BY <1>1, <1>2, <1>3, <1>4, <1>5 DEF Asl
<1>6. ASSUME Lsr PROVE Moved /\ StateOK(state')
  BY <1>1, <1>2, <1>3, <1>4, <1>6 DEF Lsr
<1>7. ASSUME Rol PROVE Moved /\ StateOK(state')
  BY <1>1, <1>2, <1>3, <1>4, <1>7 DEF Rol
<1>8. ASSUME Ror PROVE Moved /\ StateOK(state')
  BY <1>1, <1>2, <1>3, <1>4, <1>8 DEF Ror
<1> QED
  BY <1>5, <1>6, <1>7, <1>8

LEMMA IncDecMoves ==
    ASSUME TypeInv, IncDec
    PROVE  Moved /\ StateOK(state')
<1>1. \/ \E v \in Byte :
             \/ Modifying("inc", v, (v + 1) % 256) /\ state' = Zn(state, (v + 1) % 256)
             \/ Modifying("dec", v, (v - 1) % 256) /\ state' = Zn(state, (v - 1) % 256)
      \/ InternalStep("inx") /\ state' = SetReg(state, "x", (state.x + 1) % 256)
      \/ InternalStep("iny") /\ state' = SetReg(state, "y", (state.y + 1) % 256)
      \/ InternalStep("dex") /\ state' = SetReg(state, "x", (state.x - 1) % 256)
      \/ InternalStep("dey") /\ state' = SetReg(state, "y", (state.y - 1) % 256)
  BY Values DEF IncDec
<1> DEFINE up(v) == (v + 1) % 256
           down(v) == (v - 1) % 256
<1>2. \A v \in Byte : up(v) \in Byte /\ down(v) \in Byte
  BY StepsOfByte
<1>3. \/ \E v \in Byte :
             \/ Modifying("inc", v, up(v)) /\ state' = Zn(state, up(v))
             \/ Modifying("dec", v, down(v)) /\ state' = Zn(state, down(v))
      \/ InternalStep("inx") /\ state' = SetReg(state, "x", up(state.x))
      \/ InternalStep("iny") /\ state' = SetReg(state, "y", up(state.y))
      \/ InternalStep("dex") /\ state' = SetReg(state, "x", down(state.x))
      \/ InternalStep("dey") /\ state' = SetReg(state, "y", down(state.y))
  BY <1>1
<1> HIDE DEF up, down
<1>4. Moved
  BY <1>2, <1>3, ModifyingMoves, InternalStepMoves
<1>5. StateOK(state')
  BY <1>2, <1>3, Values, ZnOK, SetRegOK
<1> QED
  BY <1>4, <1>5

LEMMA LoadStoreMoves ==
    ASSUME TypeInv, Load \/ Store \/ Transfer \/ Txs \/ Nop
    PROVE  Moved /\ StateOK(state')
<1>1. ASSUME Load PROVE Moved /\ StateOK(state')
  <2>1. PICK v \in Byte :
            \/ Reads("lda", v) /\ state' = SetReg(state, "a", v)
            \/ Reads("ldx", v) /\ state' = SetReg(state, "x", v)
            \/ Reads("ldy", v) /\ state' = SetReg(state, "y", v)
    BY <1>1, Values DEF Load
  <2> QED
    BY <2>1, Values, ReadsMoves, SetRegOK
<1>2. ASSUME Store PROVE Moved /\ StateOK(state')
  BY <1>2, Values, StoresMoves DEF Store
<1>3. ASSUME Transfer PROVE Moved /\ StateOK(state')
  <2>1. PICK from \in {"a", "x", "y", "sp"}, to \in {"a", "x", "y"},
                name \in {"tax", "txa", "tay", "tya", "tsx"} :
            InternalStep(name) /\ state' = SetReg(state, to, state[from])
    BY <1>3 DEF Transfer
  <2>2. state[from] \in Byte
    BY Values
  <2> QED
    BY <2>1, <2>2, Values, InternalStepMoves, SetRegOK
<1>4. ASSUME Txs PROVE Moved /\ StateOK(state')
  <2>1. StateOK(state')
    BY <1>4, Values, RegisterOK DEF Txs
  <2>2. m_int_delay' \in BOOLEAN /\ PageOK(page1')
    BY <1>4 DEF Txs, TypeInv
  <2> QED
    BY <1>4, <2>1, <2>2, SteadyPieces, ExecutedMoves DEF Txs
<1>5. ASSUME Nop PROVE Moved /\ StateOK(state')
  BY <1>5, Values, InternalStepMoves DEF Nop
<1> QED
  BY <1>1, <1>2, <1>3, <1>4, <1>5

LEMMA FlagMoves ==
    ASSUME TypeInv, FlagInstruction
    PROVE  Moved /\ StateOK(state')
<1>1. StateOK(state) /\ state.flags \in SUBSET FlagNames /\ "U" \in state.flags
  BY Values, RegistersTyped
<1>2. ASSUME NEW f \in {"D", "V", "I"}
      PROVE  /\ StateOK([state EXCEPT !.flags = @ \ {f}])
             /\ StateOK([state EXCEPT !.flags = @ \cup {f}])
  <2>1. /\ state.flags \ {f} \in SUBSET FlagNames /\ "U" \in state.flags \ {f}
        /\ state.flags \cup {f} \in SUBSET FlagNames /\ "U" \in state.flags \cup {f}
    BY <1>1 DEF FlagNames
  <2> QED
    BY <1>1, <2>1, FlagsTyped
<1>3. StateOK(state')
  BY ZenonT(40), <1>1, <1>2, SetCOK DEF FlagInstruction
<1>4. Moved
  BY InternalStepMoves, InternalMoves DEF FlagInstruction
<1> QED
  BY <1>3, <1>4

(* A branch, taken or not. *)
LEMMA BranchOnMoves ==
    ASSUME TypeInv, NEW a \in Accesses, NEW disp \in Byte, NEW cond,
           BranchOn(<<a>>, disp, cond)
    PROVE  Moved /\ StateOK(state')
<1> DEFINE target == Wrapped(state.pc + Signed(disp))
           far == IF cond /\ High(target) # High(state.pc) THEN <<Cycle>> ELSE <<>>
           taken == IF cond THEN <<Cycle>> ELSE <<>>
<1>1. target \in Address
  <2>1. state.pc + Signed(disp) \in Int
    BY Values, AddressIsInt, SignedTyped
  <2> QED
    BY <2>1, WrapTyped
<1>2. Steady(far) /\ Steady(taken)
  BY SteadyPieces
<1>3. Executed(<<a>> \o <<Cycle>> \o far \o taken)
  BY DEF BranchOn
<1>4. state' = IF cond THEN [state EXCEPT !.pc = target] ELSE state
  BY DEF BranchOn
<1> HIDE DEF target, far, taken
<1>5. StateOK(state')
  BY <1>1, <1>4, Values, PcOK
<1>6. Steady(<<a>> \o <<Cycle>>)
  BY SteadyThenCycle
<1>7. Steady(<<a>> \o <<Cycle>> \o far \o taken)
  BY <1>2, <1>6, SteadyJoins
<1>8. m_int_delay' \in BOOLEAN /\ PageOK(page1')
  BY DEF BranchOn, TypeInv
<1> QED
  BY <1>3, <1>5, <1>7, <1>8, ExecutedMoves

LEMMA BranchMoves ==
    ASSUME Inv, phase = "execute",
           BranchCarryZero \/ BranchSignZero \/ BranchOverflow \/ Bbs
    PROVE  Moved /\ StateOK(state')
<1>1. TypeInv
  BY DEF Inv
<1>2. \A v \in Byte : Read(addr, v) \in Accesses
  BY <1>1, Values, AccessTyped
<1>3. ASSUME NEW conditions, Branch(conditions)
      PROVE  Moved /\ StateOK(state')
  <2>1. PICK disp \in Byte : BranchOn(<<Read(addr, disp)>>, disp, conditions[handler])
    BY <1>1, <1>3, Values DEF Branch
  <2> QED
    BY <1>1, <1>2, <2>1, BranchOnMoves
<1>4. ASSUME Bbs PROVE Moved /\ StateOK(state')
  <2> DEFINE disp == trace[Len(trace) - 1][3]
             target == Wrapped(state.pc + Signed(disp))
  <2>1. mode = "bitrel"
    BY <1>1, <1>4, BbsMode DEF Bbs, handler, mode, TypeInv
  <2>2. disp \in Byte
    BY <2>1 DEF Inv, DisplacementRead
  <2>3. PICK v \in Byte : BranchOn(<<Read(addr, v)>>, Low(target), Bit(v, 1) = 1)
    BY <1>1, <1>4, Values DEF Bbs
  <2> HIDE DEF disp
  <2>4. target \in Address
    <3>1. state.pc + Signed(disp) \in Int
      BY <1>1, <2>2, Values, AddressIsInt, SignedTyped
    <3> QED
      BY <3>1, WrapTyped
  <2> HIDE DEF target
  <2>5. Low(target) \in Byte
    BY <2>4, HalvesTyped
  <2> QED
    BY <1>1, <1>2, <2>3, <2>5, BranchOnMoves
<1> QED
  BY <1>3, <1>4 DEF BranchCarryZero, BranchSignZero, BranchOverflow

LEMMA JumpMoves ==
    ASSUME TypeInv, Jmp \/ IndJmp
    PROVE  Moved /\ StateOK(state')
<1>1. ASSUME Jmp PROVE Moved /\ StateOK(state')
  BY <1>1, Values, InternalStepMoves, PcOK DEF Jmp
<1>2. ASSUME IndJmp PROVE Moved /\ StateOK(state')
  <2> DEFINE next == Word((Low(addr) + 1) % 256, High(addr))
  <2>1. PICK low \in Byte, high \in Byte :
            /\ Executed(<<Read(addr, low), Cycle, Read(next, high), Cycle>>)
            /\ state' = [state EXCEPT !.pc = Word(low, high)]
    BY <1>2, AnswersTyped DEF IndJmp
  <2>2. next \in Address
    BY Values, HalvesTyped, StepsOfByte, WordTyped
  <2> HIDE DEF next
  <2>3. Steady(<<Read(addr, low), Cycle, Read(next, high), Cycle>>)
    BY <2>2, Values, AccessTyped, SteadyPairs
  <2>4. StateOK(state')
    BY <2>1, Values, WordTyped, PcOK
  <2>5. m_int_delay' \in BOOLEAN /\ PageOK(page1')
    BY <1>2 DEF IndJmp, TypeInv
  <2> QED
    BY <2>1, <2>3, <2>4, <2>5, ExecutedMoves
<1> QED
  BY <1>1, <1>2

-----------------------------------------------------------------------------
(***************************************************************************)
(* The stack.                                                              *)
(***************************************************************************)
LEMMA FlagBytes ==
    /\ \A flags : ByteOf(flags) \in Byte
    /\ \A v : FlagsOf(v) \in SUBSET FlagNames
<1>1. ASSUME NEW flags PROVE ByteOf(flags) \in Byte
  <2> DEFINE on(f) == IF f \in flags THEN FlagBit[f] ELSE 0
  <2>1. /\ on("C") \in {0, 1} /\ on("Z") \in {0, 2} /\ on("I") \in {0, 4}
        /\ on("D") \in {0, 8} /\ on("B") \in {0, 16} /\ on("U") \in {0, 32}
        /\ on("V") \in {0, 64} /\ on("N") \in {0, 128}
    BY DEF FlagBit
  <2>2. ByteOf(flags) = on("C") + on("Z") + on("I") + on("D")
                        + on("B") + on("U") + on("V") + on("N")
    BY DEF ByteOf
  <2> HIDE DEF on
  <2>3. ByteOf(flags) \in Int /\ 0 <= ByteOf(flags) /\ ByteOf(flags) <= 255
    BY <2>1, <2>2
  <2> QED
    BY <2>3 DEF Byte
<1> QED
  BY <1>1 DEF FlagsOf

Raised(s, n) == [s EXCEPT !.sp = (@ + n) % 256]
Lowered(s, n) == [s EXCEPT !.sp = (@ - n) % 256]

LEMMA StackMoved ==
    ASSUME NEW s, StateOK(s), NEW n \in Int
    PROVE  StateOK(Raised(s, n)) /\ StateOK(Lowered(s, n))
<1> DEFINE up == (s.sp + n) % 256
           down == (s.sp - n) % 256
<1>1. s.sp + n \in Int /\ s.sp - n \in Int
  BY RegistersTyped, ByteIsInt
<1>2. up \in Byte /\ down \in Byte
  BY <1>1, ByteTyped
<1> HIDE DEF up, down
<1>3. StateOK([s EXCEPT !.sp = up]) /\ StateOK([s EXCEPT !.sp = down])
  BY <1>2, RegisterOK
<1> QED
  BY <1>3 DEF up, down, Raised, Lowered

LEMMA PushMoves ==
    ASSUME TypeInv, Pha \/ Php
    PROVE  Moved /\ StateOK(state')
<1>1. PICK v \in Byte :
          /\ Executed(PushAccesses(state.sp, <<v>>))
          /\ page1' = Pushed(state.sp, <<v>>)
          /\ state' = Lowered(state, 1)
  BY Values, FlagBytes DEF Pha, Php, Lowered
<1>2. StateOK(state')
  BY <1>1, Values, StackMoved
<1>3. <<v>> \in Seq(Byte)
  OBVIOUS
<1>4. Steady(PushAccesses(state.sp, <<v>>)) /\ PageOK(page1')
  BY <1>1, <1>3, Values, SteadyPushes, PushedOK DEF TypeInv
<1>5. m_int_delay' \in BOOLEAN
  BY DEF Pha, Php, TypeInv
<1> QED
  BY <1>1, <1>2, <1>4, <1>5, ExecutedMoves

(* A pull: a cycle, then a pop for each byte. *)
LEMMA PopsMove ==
    ASSUME TypeInv, NEW vs \in Seq(Byte), UNCHANGED page1, m_int_delay' \in BOOLEAN,
           \/ Executed(<<Cycle>> \o PopAccesses(state.sp, vs))
           \/ Executed(<<Cycle>> \o PopAccesses(state.sp, vs) \o <<Cycle>>)
    PROVE  Moved
<1>1. Steady(PopAccesses(state.sp, vs)) /\ Steady(<<Cycle>>)
  BY Values, SteadyPushes, SteadyPieces
<1>2. Steady(<<Cycle>> \o PopAccesses(state.sp, vs))
  BY <1>1, SteadyJoins
<1>3. Steady(<<Cycle>> \o PopAccesses(state.sp, vs) \o <<Cycle>>)
  BY <1>1, <1>2, SteadyJoins
<1>4. PageOK(page1')
  BY DEF TypeInv
<1> QED
  BY <1>2, <1>3, <1>4, ExecutedMoves

LEMMA PullMoves ==
    ASSUME TypeInv, Pla \/ Plp
    PROVE  Moved /\ StateOK(state')
<1>1. PICK v \in Byte :
          /\ Executed(<<Cycle>> \o PopAccesses(state.sp, <<v>>))
          /\ \/ state' = [SetReg(state, "a", v) EXCEPT !.sp = (@ + 1) % 256]
             \/ state' = [state EXCEPT !.flags = FlagsOf(v) \cup {"U"}, !.sp = (@ + 1) % 256]
  BY ZenonT(40), Values DEF Pla, Plp
<1>2. m_int_delay' \in BOOLEAN /\ UNCHANGED page1
  BY DEF Pla, Plp, TypeInv
<1>3. <<v>> \in Seq(Byte)
  OBVIOUS
<1>4. Moved
  BY <1>1, <1>2, <1>3, PopsMove
<1> DEFINE flags == FlagsOf(v) \cup {"U"}
           s == [state EXCEPT !.flags = flags]
<1>5. flags \in SUBSET FlagNames /\ "U" \in flags
  BY FlagBytes DEF FlagNames
<1> HIDE DEF flags
<1>6. StateOK(s) /\ StateOK(SetReg(state, "a", v))
  BY <1>5, Values, FlagsTyped, SetRegOK
<1>7. \/ state' = Raised(SetReg(state, "a", v), 1)
      \/ state' = Raised(s, 1)
  BY <1>1, Values DEF StateOK, Regs, flags, Raised
<1> HIDE DEF s
<1>8. StateOK(state')
  BY <1>6, <1>7, StackMoved
<1> QED
  BY <1>4, <1>8

LEMMA CallMoves ==
    ASSUME TypeInv, Jsr
    PROVE  Moved /\ StateOK(state')
<1> DEFINE ret == Wrapped(state.pc - 1)
           vs == <<High(ret), Low(ret)>>
           s == [state EXCEPT !.pc = addr]
<1>1. ret \in Address
  <2>1. state.pc - 1 \in Int
    BY Values, AddressIsInt
  <2> QED
    BY <2>1, WrapTyped
<1>2. /\ Executed(PushAccesses(state.sp, vs) \o <<Cycle>>)
      /\ page1' = Pushed(state.sp, vs)
      /\ state' = [state EXCEPT !.pc = addr, !.sp = (@ - 2) % 256]
      /\ UNCHANGED m_int_delay
  BY DEF Jsr
<1> HIDE DEF ret
<1>3. vs \in Seq(Byte)
  BY <1>1, HalvesTyped
<1> HIDE DEF vs
<1>4. Steady(PushAccesses(state.sp, vs)) /\ PageOK(page1')
  BY <1>2, <1>3, Values, SteadyPushes, PushedOK DEF TypeInv
<1>5. Steady(PushAccesses(state.sp, vs) \o <<Cycle>>)
  BY <1>4, SteadyPieces, SteadyJoins
<1>6. Moved
  BY <1>2, <1>4, <1>5, ExecutedMoves DEF TypeInv
<1>7. StateOK(s)
  BY Values, PcOK
<1>8. state' = Lowered(s, 2)
  BY <1>2, Values DEF StateOK, Regs, Lowered
<1> HIDE DEF s
<1>9. StateOK(state')
  BY <1>7, <1>8, StackMoved
<1> QED
  BY <1>6, <1>9

LEMMA ReturnMoves ==
    ASSUME TypeInv, Rts \/ Rti
    PROVE  Moved /\ StateOK(state')
<1>1. m_int_delay' \in BOOLEAN /\ UNCHANGED page1
  <2>1. ASSUME Rts PROVE UNCHANGED <<m_int_delay, page1>>
    BY <2>1 DEF Rts
  <2>2. ASSUME Rti PROVE UNCHANGED <<m_int_delay, page1>>
    BY <2>2 DEF Rti
  <2> QED
    BY <2>1, <2>2 DEF TypeInv
<1>2. ASSUME Rts PROVE Moved /\ StateOK(state')
  <2> DEFINE next(low, high) == Wrapped(Word(low, high) + 1)
             s(n) == [state EXCEPT !.pc = n]
  <2>1. PICK low \in Byte, high \in Byte :
            /\ Executed(<<Cycle>> \o PopAccesses(state.sp, <<low, high>>) \o <<Cycle>>)
            /\ state' = [state EXCEPT !.pc = next(low, high), !.sp = (@ + 2) % 256]
    <3>1. /\ Answers(Top(state.sp, 1)) \subseteq Byte
          /\ Answers(Top(state.sp, 2)) \subseteq Byte
      BY Values
    <3> QED
      BY <1>2, <3>1 DEF Rts
  <2>2. <<low, high>> \in Seq(Byte)
    OBVIOUS
  <2>3. Moved
    BY <1>1, <2>1, <2>2, PopsMove
  <2>4. next(low, high) \in Address
    <3>1. Word(low, high) + 1 \in Int
      BY WordTyped, AddressIsInt
    <3> QED
      BY <3>1, WrapTyped
  <2> HIDE DEF next
  <2>5. StateOK(s(next(low, high)))
    BY <2>4, Values, PcOK
  <2>6. state' = Raised(s(next(low, high)), 2)
    BY <2>1, Values DEF StateOK, Regs, Raised
  <2> HIDE DEF s
  <2>7. StateOK(state')
    BY <2>5, <2>6, StackMoved
  <2> QED
    BY <2>3, <2>7
<1>3. ASSUME Rti PROVE Moved /\ StateOK(state')
  <2> DEFINE s(flags) == [state EXCEPT !.flags = flags]
             t(flags, n) == [s(flags) EXCEPT !.pc = n]
  <2>1. PICK v \in Byte, low \in Byte, high \in Byte :
            /\ Executed(<<Cycle>> \o PopAccesses(state.sp, <<v, low, high>>))
            /\ state' = [state EXCEPT !.flags = RtiFlags(v), !.pc = Word(low, high),
                                      !.sp = (@ + 3) % 256]
    BY ZenonT(40), <1>3, Values DEF Rti
  <2>2. <<v, low, high>> \in Seq(Byte)
    OBVIOUS
  <2>3. Moved
    BY <1>1, <2>1, <2>2, PopsMove
  <2>4. RtiFlags(v) \in SUBSET FlagNames /\ "U" \in RtiFlags(v)
    BY FlagBytes DEF RtiFlags, FlagNames
  <2>5. StateOK(s(RtiFlags(v)))
    BY <2>4, Values, FlagsTyped
  <2>6. StateOK(t(RtiFlags(v), Word(low, high)))
    BY <2>5, WordTyped, PcOK
  <2>7. state' = Raised(t(RtiFlags(v), Word(low, high)), 3)
    BY <2>1, Values DEF StateOK, Regs, Raised
  <2> HIDE DEF s, t
  <2>8. StateOK(state')
    BY <2>6, <2>7, StackMoved
  <2> QED
    BY <2>3, <2>8
<1> QED
  BY <1>2, <1>3

LEMMA Vectors ==
    /\ NmiVector \in Address /\ NmiVector + 1 \in Address
    /\ IrqVector \in Address /\ IrqVector + 1 \in Address
BY AddressBounds DEF NmiVector, IrqVector

(* Entering a handler: three pushes and the vector. *)
LEMMA SwitchMoves ==
    ASSUME TypeInv, NEW s, StateOK(s), NEW vector \in Address, vector + 1 \in Address, NEW kind,
           SwitchToIsr(s, vector, kind)
    PROVE  /\ StateOK(state') /\ PageOK(page1')
           /\ \E p, r : Steady(p) /\ Steady(r) /\ trace' = trace \o p \o r
<1> DEFINE vs == <<High(s.pc), Low(s.pc), ByteOf(PushedFlags(kind = "brk", s.flags))>>
           flags == s.flags \cup {"I"}
           down == (s.sp - 3) % 256
           t == [s EXCEPT !.flags = flags]
           u(n) == [t EXCEPT !.pc = n]
<1>1. s.pc \in Address /\ s.flags \in SUBSET FlagNames /\ "U" \in s.flags /\ s.sp \in Byte
  BY RegistersTyped
<1>2. vs \in Seq(Byte)
  <2>1. High(s.pc) \in Byte /\ Low(s.pc) \in Byte
    BY <1>1, HalvesTyped
  <2>2. ByteOf(PushedFlags(kind = "brk", s.flags)) \in Byte
    BY FlagBytes
  <2> QED
    BY <2>1, <2>2
<1>3. vector \in Address /\ vector + 1 \in Address
  OBVIOUS
<1>4. Bytes \subseteq Byte
  BY AnswersTyped
<1>5. \E low \in Bytes, high \in Bytes :
          /\ trace' = trace \o PushAccesses(s.sp, vs) \o VectorAccesses(vector, low, high)
          /\ page1' = Pushed(s.sp, vs)
          /\ state' = [s EXCEPT !.sp = down, !.flags = flags, !.pc = Word(low, high)]
  BY DEF SwitchToIsr
<1> HIDE DEF vs, flags, down
<1>6. PICK low \in Byte, high \in Byte :
          /\ trace' = trace \o PushAccesses(s.sp, vs) \o VectorAccesses(vector, low, high)
          /\ page1' = Pushed(s.sp, vs)
          /\ state' = [s EXCEPT !.sp = down, !.flags = flags, !.pc = Word(low, high)]
  BY <1>4, <1>5
<1>7. ASSUME NEW next \in Address
      PROVE  Steady(<<Read(vector, low), Cycle, Read(next, high), Cycle>>)
  BY <1>3, AccessTyped, SteadyPairs
<1>8. Steady(VectorAccesses(vector, low, high))
  BY <1>3, <1>7 DEF VectorAccesses
<1>9. Steady(PushAccesses(s.sp, vs)) /\ PageOK(page1')
  BY <1>1, <1>2, <1>6, SteadyPushes, PushedOK DEF TypeInv
<1>10. StateOK(t)
  <2>1. flags \in SUBSET FlagNames /\ "U" \in flags
    BY <1>1 DEF FlagNames, flags
  <2> QED
    BY <2>1, FlagsTyped
<1>11. StateOK(u(Word(low, high)))
  <2> HIDE DEF t
  <2> QED
    BY <1>10, WordTyped, PcOK
<1>12. state' = [u(Word(low, high)) EXCEPT !.sp = down]
  BY <1>6 DEF StateOK, Regs
<1>13. down \in Byte
  <2>1. s.sp - 3 \in Int
    BY <1>1, ByteIsInt
  <2> QED
    BY <2>1, ByteTyped DEF down
<1> HIDE DEF t, u
<1>14. StateOK(state')
  BY <1>11, <1>12, <1>13, RegisterOK
<1> QED
  BY <1>6, <1>8, <1>9, <1>14

LEMMA BrkKeeps ==
    ASSUME Inv, Brk
    PROVE  Inv'
<1>1. TypeInv /\ Steady(trace)
  BY DEF Inv, PaceInv, Brk
<1>2. StateOK([state EXCEPT !.pc = Wrapped(@ + 1)])
  <2>1. StateOK(state) /\ state.pc + 1 \in Int
    BY <1>1, Values, AddressIsInt
  <2>2. Wrapped(state.pc + 1) \in Address
    BY <2>1, WrapTyped
  <2> QED
    BY <2>1, <2>2, PcOK
<1>3. SwitchToIsr([state EXCEPT !.pc = Wrapped(@ + 1)], IrqVector, "brk")
  BY DEF Brk
<1>4. /\ StateOK(state') /\ PageOK(page1')
      /\ \E p, r : Steady(p) /\ Steady(r) /\ trace' = trace \o p \o r
  BY <1>1, <1>2, <1>3, Vectors, SwitchMoves
<1>5. PICK p, r : Steady(p) /\ Steady(r) /\ trace' = trace \o p \o r
  BY <1>4
<1>6. Steady(trace \o p)
  BY <1>1, <1>5, SteadyJoins
<1>7. Steady(trace')
  BY <1>5, <1>6, SteadyJoins
<1>8. trace' # <<>> /\ trace' \in Seq(Accesses)
  <2>1. /\ trace \in Seq(Accesses) /\ p \in Seq(Accesses) /\ r \in Seq(Accesses)
        /\ trace \o p \in Seq(Accesses) /\ trace' \in Seq(Accesses)
    BY <1>1, <1>5, <1>6, <1>7 DEF Steady
  <2>2. trace # <<>>
    BY DEF Inv, PaceInv, Brk
  <2>3. trace \o p # <<>>
    BY <2>1, <2>2
  <2> QED
    BY <1>5, <2>1, <2>3
<1>9. UNCHANGED <<case, opcode, addr, m_int_delay, m_nmi_pending>> /\ phase' = "poll"
  BY DEF Brk, budget
<1>10. TypeInv'
  BY <1>1, <1>4, <1>8, <1>9 DEF TypeInv
<1>11. PaceInv'
  BY <1>7, <1>8, <1>9 DEF PaceInv
<1>12. DisplacementRead'
  BY <1>9 DEF DisplacementRead
<1> QED
  BY <1>10, <1>11, <1>12 DEF Inv

LEMMA TakeNmiKeeps ==
    ASSUME Inv, TakeNmi
    PROVE  Inv'
<1>1. TypeInv
  BY DEF Inv
<1>2. SwitchToIsr(state, NmiVector, "nmi") /\ StateOK(state)
  BY <1>1 DEF TakeNmi, TypeInv
<1>3. /\ StateOK(state') /\ PageOK(page1')
      /\ \E p, r : Steady(p) /\ Steady(r) /\ trace' = trace \o p \o r
  BY <1>1, <1>2, Vectors, SwitchMoves
<1>4. PICK p, r : Steady(p) /\ Steady(r) /\ trace' = trace \o p \o r
  BY <1>3
<1>5. trace' \in Seq(Accesses)
  BY <1>1, <1>4 DEF TypeInv, Steady
<1>6. /\ UNCHANGED <<case, opcode, addr, m_int_delay>> /\ phase' = "fetch"
      /\ m_nmi_pending' = FALSE /\ handler' = handler
  BY DEF TakeNmi, budget, handler
<1>7. handler # "invalid_opcode" => Steady(trace')
  <2> SUFFICES ASSUME handler # "invalid_opcode" PROVE Steady(trace')
    OBVIOUS
  <2>1. Steady(trace)
    BY DEF Inv, PaceInv
  <2>2. Steady(trace \o p)
    BY <1>4, <2>1, SteadyJoins
  <2> QED
    BY <1>4, <2>2, SteadyJoins
<1>8. TypeInv'
  BY <1>1, <1>3, <1>5, <1>6 DEF TypeInv
<1>9. PaceInv'
  BY <1>6, <1>7 DEF PaceInv
<1>10. DisplacementRead'
  BY <1>6 DEF DisplacementRead
<1> QED
  BY <1>8, <1>9, <1>10 DEF Inv

-----------------------------------------------------------------------------
(***************************************************************************)
(* The undocumented handlers.                                              *)
(***************************************************************************)
LEMMA UndocumentedReads ==
    ASSUME TypeInv, Alr \/ Anc \/ Arr \/ Axs \/ Lax \/ Atx
    PROVE  Moved /\ StateOK(state')
<1>1. StateOK(state) /\ Answers(addr) \subseteq Byte
  BY Values
<1>2. \A v \in Byte : And(state.a, v) \in Byte
  BY Values, LogicTyped
<1>3. ASSUME Alr PROVE Moved /\ StateOK(state')
  <2> DEFINE r(v) == RightOf(And(state.a, v), 0)
             c(v) == Bit(And(state.a, v), 0) = 1
  <2>1. PICK v \in Byte : Reads("alr", v) /\ state' = SetReg(SetC(state, c(v)), "a", r(v))
    BY <1>1, <1>3 DEF Alr
  <2>2. r(v) \in Byte
    BY <1>2, ShiftsTyped, CarryTyped
  <2> HIDE DEF r, c
  <2> QED
    BY <1>1, <2>1, <2>2, ReadsMoves, SetCOK, SetRegOK
<1>4. ASSUME Anc PROVE Moved /\ StateOK(state')
  <2> DEFINE r(v) == And(state.a, v)
             c(v) == Bit(r(v), 7) = 1
  <2>1. PICK v \in Byte : Reads("anc", v) /\ state' = SetC(SetReg(state, "a", r(v)), c(v))
    BY <1>1, <1>4 DEF Anc
  <2>2. r(v) \in Byte
    BY <1>2
  <2> HIDE DEF r, c
  <2> QED
    BY <1>1, <2>1, <2>2, ReadsMoves, SetCOK, SetRegOK
<1>5. ASSUME Arr PROVE Moved /\ StateOK(state')
  <2> DEFINE r(v) == RightOf(And(state.a, v), Carry)
             c(v) == Bit(r(v), 6) = 1
             o(v) == Bit(r(v), 6) # Bit(r(v), 5)
             s(v) == SetC(SetReg(state, "a", r(v)), c(v))
  <2>1. PICK v \in Byte :
            Reads("arr", v) /\ state' = [s(v) EXCEPT !.flags = SetFlag(@, "V", o(v))]
    BY <1>1, <1>5 DEF Arr
  <2>2. r(v) \in Byte
    BY <1>2, ShiftsTyped, CarryTyped
  <2> HIDE DEF r, c, o
  <2>3. StateOK(s(v))
    BY <1>1, <2>2, SetCOK, SetRegOK
  <2> HIDE DEF s
  <2> QED
    BY <2>1, <2>3, ReadsMoves, SetFlagOK
<1>6. ASSUME Axs PROVE Moved /\ StateOK(state')
  <2> DEFINE diff(v) == And(state.x, state.a) - v
             c(v) == diff(v) >= 0
             r(v) == diff(v) % 256
  <2>1. PICK v \in Byte : Reads("axs", v) /\ state' = SetReg(SetC(state, c(v)), "x", r(v))
    BY <1>1, <1>6 DEF Axs
  <2>2. r(v) \in Byte
    <3>1. And(state.x, state.a) \in Byte
      BY Values, LogicTyped
    <3>2. diff(v) \in Int
      BY <3>1, ByteIsInt
    <3> QED
      BY <3>2, ByteTyped
  <2> HIDE DEF r, c
  <2> QED
    BY <1>1, <2>1, <2>2, ReadsMoves, SetCOK, SetRegOK
<1>7. ASSUME Lax \/ Atx PROVE Moved /\ StateOK(state')
  <2>1. PICK v \in Byte, name \in {"lax", "atx"} :
            Reads(name, v) /\ state' = SetReg([state EXCEPT !.x = v], "a", v)
    BY <1>1, <1>7 DEF Lax, Atx
  <2>2. StateOK([state EXCEPT !.x = v])
    BY <1>1, RegisterOK
  <2> QED
    BY <2>1, <2>2, ReadsMoves, SetRegOK
<1> QED
  BY <1>3, <1>4, <1>5, <1>6, <1>7

LEMMA UndocumentedStores ==
    ASSUME TypeInv, Dcp \/ Isc \/ Rla \/ Rra \/ Slo \/ Sre
    PROVE  Moved /\ StateOK(state')
<1>1. StateOK(state) /\ Answers(addr) \subseteq Byte /\ state.a \in Byte
  BY Values
<1>2. \A v \in Byte : /\ LeftOf(v, 0) \in Byte /\ RightOf(v, 0) \in Byte
                      /\ LeftOf(v, Carry) \in Byte /\ RightOf(v, Carry) \in Byte
  BY ShiftsTyped, CarryTyped
<1>3. ASSUME Dcp PROVE Moved /\ StateOK(state')
  <2> DEFINE new(v) == (v - 1) % 256
  <2>1. PICK v \in Byte : Modifying("dcp", v, new(v)) /\ state' = Compared(state, "a", new(v))
    BY <1>1, <1>3 DEF Dcp
  <2>2. new(v) \in Byte
    BY StepsOfByte
  <2> HIDE DEF new
  <2> QED
    BY <1>1, <2>1, <2>2, ModifyingMoves, ComparedOK
<1>4. ASSUME Isc PROVE Moved /\ StateOK(state')
  <2> DEFINE new(v) == (v + 1) % 256
  <2>1. PICK v \in Byte : Modifying("isc", v, new(v)) /\ state' = SubtractBinary(state, new(v))
    BY <1>1, <1>4 DEF Isc
  <2>2. new(v) \in Byte
    BY StepsOfByte
  <2> HIDE DEF new
  <2> QED
    BY <1>1, <2>1, <2>2, ModifyingMoves, AddOK
<1>5. ASSUME Rra PROVE Moved /\ StateOK(state')
  <2> DEFINE c(v) == Bit(v, 0) = 1
  <2>1. PICK v \in Byte : /\ Modifying("rra", v, RightOf(v, Carry))
                          /\ state' = AddBinary(SetC(state, c(v)), RightOf(v, Carry))
    BY <1>1, <1>5 DEF Rra
  <2> HIDE DEF c
  <2> QED
    BY <1>1, <1>2, <2>1, ModifyingMoves, SetCOK, AddOK
<1>6. ASSUME NEW name, NEW v \in Byte, NEW new \in Byte, NEW c, NEW r \in Byte,
             Modifying(name, v, new), state' = SetReg(SetC(state, c), "a", r)
      PROVE  Moved /\ StateOK(state')
  BY <1>1, <1>6, ModifyingMoves, SetCOK, SetRegOK
<1>7. ASSUME Rla \/ Slo \/ Sre PROVE Moved /\ StateOK(state')
  <2> DEFINE c(v, i) == Bit(v, i) = 1
  <2>1. PICK v \in Byte :
            \/ /\ Modifying("rla", v, LeftOf(v, Carry))
               /\ state' = SetReg(SetC(state, c(v, 7)), "a", And(state.a, LeftOf(v, Carry)))
            \/ /\ Modifying("slo", v, LeftOf(v, 0))
               /\ state' = SetReg(SetC(state, c(v, 7)), "a", Or(state.a, LeftOf(v, 0)))
            \/ /\ Modifying("sre", v, RightOf(v, 0))
               /\ state' = SetReg(SetC(state, c(v, 0)), "a", Xor(state.a, RightOf(v, 0)))
    BY <1>1, <1>7 DEF Rla, Slo, Sre
  <2> HIDE DEF c
  <2>2. /\ And(state.a, LeftOf(v, Carry)) \in Byte /\ Or(state.a, LeftOf(v, 0)) \in Byte
        /\ Xor(state.a, RightOf(v, 0)) \in Byte
    BY <1>1, <1>2, LogicTyped
  <2> QED
    BY <1>2, <1>6, <2>1, <2>2
<1> QED
  BY <1>3, <1>4, <1>5, <1>7

(* SAX, and the two stores whose target depends on the page. *)
LEMMA MaskedMoves ==
    ASSUME TypeInv, Sax \/ Say \/ Xas
    PROVE  Moved /\ StateOK(state')
<1>1. StateOK(state) /\ addr \in Address /\ state.a \in Byte /\ state.x \in Byte /\ state.y \in Byte
  BY Values
<1>2. ASSUME Sax PROVE Moved /\ StateOK(state')
  <2>1. And(state.a, state.x) \in Byte
    BY <1>1, LogicTyped
  <2> QED
    BY <1>1, <1>2, <2>1, StoresMoves DEF Sax
<1>3. ASSUME NEW name, NEW r \in Byte, NEW index \in Byte, MaskedStore(name, r, index)
      PROVE  Moved /\ StateOK(state')
  <2> DEFINE target == IF Crosses(addr, index) THEN Low(addr + index) ELSE addr + index
             masked == And((High(addr) + 1) % 256, r)
  <2>1. masked \in Byte
    BY <1>1, HalvesTyped, StepsOfByte, LogicTyped
  <2>2. target \in Address
    <3>1. addr \in Int /\ 0 <= addr /\ addr <= 65535 /\ index \in Int /\ 0 <= index /\ index <= 255
      BY <1>1, AddressIsInt, ByteIsInt
    <3>2. CASE Crosses(addr, index)
      <4>1. Low(addr + index) \in Byte
        BY <3>1, ByteTyped DEF Low
      <4> QED
        BY <3>2, <4>1, ByteIsAddress
    <3>3. CASE ~Crosses(addr, index)
      <4>1. (addr % 256) + index < 256
        BY <3>1, <3>3 DEF Crosses, Low
      <4>2. addr + index <= 65535
        BY <3>1, <4>1
      <4> QED
        BY <3>1, <3>3, <4>2, AddressBounds
    <3> QED
      BY <3>2, <3>3
  <2>3. StoresAt(name, target, masked) /\ UNCHANGED state
    BY <1>3 DEF MaskedStore
  <2> HIDE DEF target, masked
  <2> QED
    BY <1>1, <2>1, <2>2, <2>3, StoresMoves
<1>4. ASSUME Say PROVE Moved /\ StateOK(state')
  BY <1>1, <1>3, <1>4 DEF Say
<1>5. ASSUME Xas PROVE Moved /\ StateOK(state')
  BY <1>1, <1>3, <1>5 DEF Xas
<1> QED
  BY <1>2, <1>4, <1>5

(* The message about an invalid opcode is the one access without a cycle. *)
LEMMA InvalidKeeps ==
    ASSUME Inv, InvalidOpcode
    PROVE  Inv'
<1> DEFINE at == Wrapped(state.pc - 1)
           r == <<Read(at, opcode)>>
<1>1. TypeInv /\ opcode \in Byte
  BY DEF Inv, TypeInv
<1>2. at \in Address
  <2>1. state.pc - 1 \in Int
    BY <1>1, Values, AddressIsInt
  <2> QED
    BY <2>1, WrapTyped
<1>3. /\ trace' = trace \o r /\ phase' = "poll" /\ handler = "invalid_opcode"
      /\ UNCHANGED <<case, opcode, addr, m_nmi_pending, state, m_int_delay, page1>>
  BY DEF InvalidOpcode, Executed, budget
<1> HIDE DEF at
<1>4. r \in Seq(Accesses) /\ r # <<>>
  BY <1>1, <1>2, AccessTyped
<1> HIDE DEF r
<1>5. trace \in Seq(Accesses)
  BY <1>1 DEF TypeInv
<1>6. trace' \in Seq(Accesses) /\ trace' # <<>>
  BY <1>3, <1>4, <1>5
<1>7. handler' = "invalid_opcode"
  BY <1>3 DEF handler
<1>8. TypeInv'
  BY <1>1, <1>3, <1>6 DEF TypeInv
<1>9. PaceInv'
  BY <1>3, <1>6, <1>7 DEF PaceInv
<1>10. DisplacementRead'
  BY <1>3 DEF DisplacementRead
<1> QED
  BY <1>8, <1>9, <1>10 DEF Inv

-----------------------------------------------------------------------------
(***************************************************************************)
(* The invariant.                                                          *)
(***************************************************************************)
LEMMA FetchKeeps ==
    ASSUME Inv, Fetch
    PROVE  Inv'
<1>1. TypeInv /\ StateOK(state) /\ state.pc \in Address /\ case \in Cases
  BY RegistersTyped DEF Inv, TypeInv
<1>2. opcode' \in Byte
  BY <1>1, CaseAssumption DEF Fetch
<1>3. StateOK(state')
  <2>1. state.pc + 1 \in Int
    BY <1>1, AddressIsInt
  <2>2. Wrapped(state.pc + 1) \in Address
    BY <2>1, WrapTyped
  <2>3. state' = [state EXCEPT !.pc = Wrapped(state.pc + 1)]
    BY DEF Fetch
  <2> QED
    BY <1>1, <2>2, <2>3, PcOK
<1>4. trace' = <<Read(state.pc, opcode'), Cycle>>
  BY DEF Fetch
<1>5. Steady(trace') /\ trace' # <<>>
  BY <1>1, <1>2, <1>4, ReadSteady
<1>6. /\ phase' = "address" /\ m_int_delay' = FALSE
      /\ UNCHANGED <<m_nmi_pending, page1, addr, case>>
  BY DEF Fetch
<1>7. trace' \in Seq(Accesses)
  BY <1>5 DEF Steady
<1>8. TypeInv'
  BY <1>1, <1>2, <1>3, <1>6, <1>7 DEF TypeInv
<1>9. PaceInv'
  BY <1>5, <1>6 DEF PaceInv
<1>10. DisplacementRead'
  BY <1>6 DEF DisplacementRead
<1> QED
  BY <1>8, <1>9, <1>10 DEF Inv

LEMMA HandlerKeeps ==
    ASSUME Inv, Documented \/ Undocumented
    PROVE  Inv'
<1>1. TypeInv
  BY DEF Inv
<1>2. ASSUME Brk PROVE Inv'
  BY <1>2, BrkKeeps
<1>3. ASSUME InvalidOpcode PROVE Inv'
  BY <1>3, InvalidKeeps
<1>4. ASSUME phase = "execute", Moved, StateOK(state') PROVE Inv'
  BY <1>4, MovedKeeps
<1>5. ASSUME Adc \/ Sbc \/ AndA \/ Logic \/ Compare \/ BitTest PROVE Inv'
  <2>1. phase = "execute"
    BY <1>5 DEF Adc, Sbc, AndA, Logic, Compare, BitTest, Reads, Executed
  <2> QED
    BY <1>1, <1>4, <1>5, <2>1, ArithmeticMoves
<1>6. ASSUME Asl \/ Lsr \/ Rol \/ Ror PROVE Inv'
  <2>1. phase = "execute"
    BY <1>6 DEF Asl, Lsr, Rol, Ror, Modifying, InternalStep, Internal, Executed
  <2> QED
    BY <1>1, <1>4, <1>6, <2>1, ShiftMoves
<1>7. ASSUME IncDec PROVE Inv'
  <2>1. phase = "execute"
    BY <1>7 DEF IncDec, Modifying, InternalStep, Internal, Executed
  <2> QED
    BY <1>1, <1>4, <1>7, <2>1, IncDecMoves
<1>8. ASSUME Load \/ Store \/ Transfer \/ Txs \/ Nop PROVE Inv'
  <2>1. phase = "execute"
    BY <1>8 DEF Load, Store, Transfer, Txs, Nop, Reads, StoresAt, InternalStep, Internal, Executed
  <2> QED
    BY <1>1, <1>4, <1>8, <2>1, LoadStoreMoves
<1>9. ASSUME FlagInstruction PROVE Inv'
  <2>1. phase = "execute"
    BY <1>9 DEF FlagInstruction, InternalStep, Internal, Executed
  <2> QED
    BY <1>1, <1>4, <1>9, <2>1, FlagMoves
<1>10. ASSUME BranchCarryZero \/ BranchSignZero \/ BranchOverflow \/ Bbs PROVE Inv'
  <2>1. \A before, disp, cond : BranchOn(before, disp, cond) => phase = "execute"
    BY DEF BranchOn, Executed
  <2>2. \A conditions : Branch(conditions) => phase = "execute"
    BY <2>1 DEF Branch
  <2>3. phase = "execute"
    BY <1>10, <2>1, <2>2 DEF BranchCarryZero, BranchSignZero, BranchOverflow, Bbs
  <2> QED
    BY <1>4, <1>10, <2>3, BranchMoves
<1>11. ASSUME Jmp \/ IndJmp PROVE Inv'
  <2>1. phase = "execute"
    BY <1>11 DEF Jmp, IndJmp, InternalStep, Internal, Executed
  <2> QED
    BY <1>1, <1>4, <1>11, <2>1, JumpMoves
<1>12. ASSUME Pha \/ Php PROVE Inv'
  <2>1. phase = "execute"
    BY <1>12 DEF Pha, Php, Executed
  <2> QED
    BY <1>1, <1>4, <1>12, <2>1, PushMoves
<1>13. ASSUME Pla \/ Plp PROVE Inv'
  <2>1. phase = "execute"
    BY <1>13 DEF Pla, Plp, Executed
  <2> QED
    BY <1>1, <1>4, <1>13, <2>1, PullMoves
<1>14. ASSUME Jsr PROVE Inv'
  <2>1. phase = "execute"
    BY <1>14 DEF Jsr, Executed
  <2> QED
    BY <1>1, <1>4, <1>14, <2>1, CallMoves
<1>15. ASSUME Rts \/ Rti PROVE Inv'
  <2>1. phase = "execute"
    BY <1>15 DEF Rts, Rti, Executed
  <2> QED
    BY <1>1, <1>4, <1>15, <2>1, ReturnMoves
<1>16. ASSUME Alr \/ Anc \/ Arr \/ Axs \/ Lax \/ Atx PROVE Inv'
  <2>1. \A name, v : Reads(name, v) => phase = "execute"
    BY DEF Reads, Executed
  <2>2. phase = "execute"
    BY <1>16, <2>1 DEF Alr, Anc, Arr, Axs, Lax, Atx
  <2> QED
    BY <1>1, <1>4, <1>16, <2>2, UndocumentedReads
<1>17. ASSUME Dcp \/ Isc \/ Rla \/ Rra \/ Slo \/ Sre PROVE Inv'
  <2>1. \A name, v, new : Modifying(name, v, new) => phase = "execute"
    BY DEF Modifying, Executed
  <2>2. phase = "execute"
    BY <1>17, <2>1 DEF Dcp, Isc, Rla, Rra, Slo, Sre
  <2> QED
    BY <1>1, <1>4, <1>17, <2>2, UndocumentedStores
<1>18. ASSUME Sax \/ Say \/ Xas PROVE Inv'
  <2>1. \A name, a, v : StoresAt(name, a, v) => phase = "execute"
    BY DEF StoresAt, Executed
  <2>2. phase = "execute"
    BY <1>18, <2>1 DEF Sax, Say, Xas, MaskedStore
  <2> QED
    BY <1>1, <1>4, <1>18, <2>2, MaskedMoves
<1> QED
  BY <1>2, <1>3, <1>5, <1>6, <1>7, <1>8, <1>9, <1>10, <1>11, <1>12, <1>13, <1>14, <1>15,
     <1>16, <1>17, <1>18 DEF Documented, Undocumented

LEMMA InvStep ==
    ASSUME Inv, [Next]_vars
    PROVE  Inv'
<1>1. ASSUME Fetch PROVE Inv'
  BY <1>1, FetchKeeps
<1>2. ASSUME AddressMode PROVE Inv'
  BY <1>2, AddressModeKeeps
<1>3. ASSUME Documented \/ Undocumented PROVE Inv'
  BY <1>3, HandlerKeeps
<1>4. ASSUME TakeNmi PROVE Inv'
  BY <1>4, TakeNmiKeeps
<1>5. ASSUME NoInterrupt PROVE Inv'
  <2>1. /\ UNCHANGED <<state, m_int_delay, m_nmi_pending, page1, opcode, addr, trace, case>>
        /\ phase' = "fetch" /\ phase = "poll" /\ handler' = handler
    BY <1>5 DEF NoInterrupt, budget, handler
  <2>2. TypeInv'
    BY <2>1 DEF Inv, TypeInv
  <2>3. PaceInv' /\ DisplacementRead'
    BY <2>1 DEF Inv, PaceInv, DisplacementRead
  <2> QED
    BY <2>2, <2>3 DEF Inv
<1>6. ASSUME RaiseNmi PROVE Inv'
  <2>1. /\ UNCHANGED <<state, m_int_delay, page1, opcode, addr, trace, case, phase>>
        /\ m_nmi_pending' = TRUE /\ handler' = handler /\ mode' = mode
    BY <1>6 DEF RaiseNmi, handler, mode
  <2>2. TypeInv'
    BY <2>1 DEF Inv, TypeInv
  <2>3. PaceInv' /\ DisplacementRead'
    BY <2>1 DEF Inv, PaceInv, DisplacementRead
  <2> QED
    BY <2>2, <2>3 DEF Inv
<1>7. ASSUME UNCHANGED vars PROVE Inv'
  <2>1. /\ UNCHANGED <<state, m_int_delay, m_nmi_pending, page1, opcode, addr, trace, case, phase>>
        /\ handler' = handler /\ mode' = mode
    BY <1>7 DEF vars, budget, handler, mode
  <2>2. TypeInv'
    BY <2>1 DEF Inv, TypeInv
  <2>3. PaceInv' /\ DisplacementRead'
    BY <2>1 DEF Inv, PaceInv, DisplacementRead
  <2> QED
    BY <2>2, <2>3 DEF Inv
<1> QED
  BY <1>1, <1>2, <1>3, <1>4, <1>5, <1>6, <1>7 DEF Next, Finished

LEMMA InvInit == ASSUME Init PROVE Inv
<1>1. case \in Cases /\ state = case.state /\ phase = "fetch" /\ trace = <<>> /\ page1 = <<>>
  BY DEF Init
<1>2. StateOK(state)
  BY <1>1, CaseAssumption DEF StateOK, Regs
<1>3. PageOK(page1)
  BY <1>1 DEF PageOK
<1>4. opcode \in Byte /\ addr \in Address
  BY AddressBounds DEF Init, Byte
<1>5. Steady(trace)
  BY <1>1, SteadyPieces
<1>6. TypeInv
  BY <1>1, <1>2, <1>3, <1>4, <1>5 DEF Init, TypeInv, Steady
<1> QED
  BY <1>1, <1>5, <1>6 DEF Inv, PaceInv, DisplacementRead

(* The types and the pace of the bus hold together, and with them where BBS  *)
(* finds its displacement, after any sequence of instructions and NMIs.      *)
THEOREM Invariant == Spec => []Inv
<1>1. Init => Inv
  BY InvInit
<1>2. Inv /\ [Next]_vars => Inv'
  BY InvStep
<1> QED
  BY <1>1, <1>2, PTL DEF Spec

(* Registers, flags, addresses, the bytes of the stack page and the accesses *)
(* on the bus keep the ranges of their C++ types, and bit 5 of the flags     *)
(* stays set, after any sequence of instructions and NMIs.                   *)
THEOREM Typed == Spec => []TypeOK
<1>1. Inv => TypeOK
  <2> SUFFICES ASSUME Inv PROVE TypeOK
    OBVIOUS
  <2>1. \A i \in 1..Len(trace) : trace[i] \in Accesses
    BY DEF Inv, TypeInv
  <2> QED
    BY <2>1 DEF Inv, TypeInv, TypeOK, StateOK, Regs, PageOK
<1> QED
  BY <1>1, Invariant, PTL

(* Between two calls of cycle() no handler, addressing mode, fetch or switch *)
(* to an interrupt handler makes more than one access to the bus; only an    *)
(* invalid opcode is exempt.                                                 *)
THEOREM OnePerCycle == Spec => []OneAccessPerCycle
<1>1. Inv => OneAccessPerCycle
  BY DEF Inv, PaceInv, Steady, OneAccessPerCycle
<1> QED
  BY <1>1, Invariant, PTL

-----------------------------------------------------------------------------
(***************************************************************************)
(* The arithmetic, against integers.                                       *)
(***************************************************************************)
LEMMA SetFlagSays ==
    ASSUME NEW flags, NEW f, NEW val
    PROVE  /\ val => f \in SetFlag(flags, f, val)
           /\ ~val => f \notin SetFlag(flags, f, val)
           /\ \A g : g # f => (g \in SetFlag(flags, f, val) <=> g \in flags)
BY DEF SetFlag

LEMMA WithFlags ==
    ASSUME NEW s, StateOK(s), NEW flags
    PROVE  LET t == [s EXCEPT !.flags = flags]
           IN t.flags = flags /\ t.a = s.a /\ t.x = s.x /\ t.y = s.y
BY DEF StateOK, Regs

(* What the registers and flags are after the helpers. *)
LEMMA SetCSays ==
    ASSUME NEW s, StateOK(s), NEW val
    PROVE  LET t == SetC(s, val)
           IN /\ t.a = s.a /\ t.x = s.x /\ t.y = s.y
              /\ val => "C" \in t.flags
              /\ ~val => "C" \notin t.flags
              /\ \A g \in {"V", "Z", "N"} : g \in t.flags <=> g \in s.flags
BY WithFlags, SetFlagSays DEF SetC

LEMMA ZnSays ==
    ASSUME NEW s, StateOK(s), NEW v \in Byte
    PROVE  LET t == Zn(s, v)
           IN /\ t.a = s.a /\ t.x = s.x /\ t.y = s.y
              /\ "Z" \in t.flags <=> v = 0
              /\ "N" \in t.flags <=> v >= 128
              /\ \A g \in {"C", "V"} : g \in t.flags <=> g \in s.flags
<1> DEFINE z == SetFlag(s.flags, "Z", v = 0)
           minus == v >= 128
           n == SetFlag(z, "N", minus)
<1>1. /\ "Z" \in z <=> v = 0
      /\ \A g \in {"C", "V"} : g \in z <=> g \in s.flags
  BY SetFlagSays
<1> HIDE DEF z, minus
<1>2. /\ "N" \in n <=> minus
      /\ \A g \in {"C", "V", "Z"} : g \in n <=> g \in z
  BY SetFlagSays
<1> HIDE DEF n
<1>3. Zn(s, v) = [s EXCEPT !.flags = n]
  BY DEF Zn, TestZn, n, z, minus
<1> QED
  BY <1>1, <1>2, <1>3, WithFlags DEF minus

LEMMA SetRegSays ==
    ASSUME NEW s, StateOK(s), NEW v \in Byte
    PROVE  LET t == SetReg(s, "a", v)
           IN /\ t.a = v
              /\ "Z" \in t.flags <=> v = 0
              /\ "N" \in t.flags <=> v >= 128
              /\ \A g \in {"C", "V"} : g \in t.flags <=> g \in s.flags
<1> DEFINE r == [s EXCEPT !.a = v]
<1>1. StateOK(r)
  BY RegisterOK
<1>2. r.a = v /\ r.flags = s.flags
  BY DEF StateOK, Regs
<1>3. SetReg(s, "a", v) = Zn(r, v)
  BY DEF SetReg
<1> HIDE DEF r
<1> QED
  BY <1>1, <1>2, <1>3, ZnSays

LEMMA SignBit == \A v \in Byte : Bit(v, 7) = IF v >= 128 THEN 1 ELSE 0
BY Powers DEF Bit, Byte

(* The carry and the overflow of a sum and of a difference of bytes. *)
LEMMA SumOfBytes ==
    ASSUME NEW a \in Byte, NEW v \in Byte, NEW in \in {0, 1}, NEW r \in Byte,
           r = (a + v + in) % 256
    PROVE  /\ r + 256 * (IF a + v + in > 255 THEN 1 ELSE 0) = a + v + in
           /\ (Bit(a, 7) = Bit(v, 7) /\ Bit(a, 7) # Bit(r, 7))
                 <=> Signed(a) + Signed(v) + in \notin -128..127
<1> DEFINE sum == a + v + in
<1>1. sum \in 0..511 /\ r = sum % 256
  BY DEF Byte
<1> HIDE DEF sum
<1>2. r = IF sum > 255 THEN sum - 256 ELSE sum
  BY <1>1
<1>3. r + 256 * (IF sum > 255 THEN 1 ELSE 0) = sum
  BY <1>1, <1>2
<1>4. (Bit(a, 7) = Bit(v, 7) /\ Bit(a, 7) # Bit(r, 7))
         <=> Signed(a) + Signed(v) + in \notin -128..127
  BY <1>2, SignBit DEF Signed, Byte, sum
<1> QED
  BY <1>3, <1>4 DEF sum

Borrows(a, v, in, diff, r) == diff = a - v - (1 - in) /\ r = diff % 256
SignsTell(a, v, in, r) ==
    (Bit(a, 7) # Bit(v, 7) /\ Bit(a, 7) # Bit(r, 7))
        <=> Signed(a) - Signed(v) - (1 - in) \notin -128..127

LEMMA DifferenceOfBytes ==
    ASSUME NEW a \in Byte, NEW v \in Byte, NEW in \in {0, 1}, NEW r \in Byte,
           NEW diff, Borrows(a, v, in, diff, r)
    PROVE  /\ r - 256 * (IF diff >= 0 THEN 0 ELSE 1) = diff
           /\ SignsTell(a, v, in, r)
<1>1. diff \in -256..255
  BY DEF Byte, Borrows
<1>2. r = IF diff >= 0 THEN diff ELSE diff + 256
  BY <1>1 DEF Borrows
<1>3. r - 256 * (IF diff >= 0 THEN 0 ELSE 1) = diff
  BY <1>1, <1>2
<1>4. (Bit(a, 7) # Bit(v, 7) /\ Bit(a, 7) # Bit(r, 7))
         <=> Signed(a) - Signed(v) - (1 - in) \notin -128..127
  <2> DEFINE d == Signed(a) - Signed(v) - (1 - in)
             wrong == \/ a >= 128 /\ v < 128 /\ r < 128
                      \/ a < 128 /\ v >= 128 /\ r >= 128
  <2>1. /\ a \in Int /\ 0 <= a /\ a <= 255
        /\ v \in Int /\ 0 <= v /\ v <= 255
        /\ r \in Int /\ 0 <= r /\ r <= 255
        /\ in \in Int /\ 0 <= in /\ in <= 1
    BY ByteIsInt
  <2>2. (Bit(a, 7) # Bit(v, 7) /\ Bit(a, 7) # Bit(r, 7)) <=> wrong
    <3>1. /\ Bit(a, 7) = IF a >= 128 THEN 1 ELSE 0
          /\ Bit(v, 7) = IF v >= 128 THEN 1 ELSE 0
          /\ Bit(r, 7) = IF r >= 128 THEN 1 ELSE 0
      BY SignBit
    <3> QED
      BY <2>1, <3>1
  <2>3. r = IF a - v - (1 - in) >= 0 THEN a - v - (1 - in) ELSE a - v - (1 - in) + 256
    BY <1>2 DEF Borrows
  <2>4. d = (IF a < 128 THEN a ELSE a - 256) - (IF v < 128 THEN v ELSE v - 256) - (1 - in)
    BY DEF Signed
  <2> HIDE DEF d
  <2>5. (d < -128 \/ d > 127) <=> wrong
    <3>1. CASE a < 128 /\ v < 128
      BY <2>1, <2>3, <2>4, <3>1
    <3>2. CASE a < 128 /\ v >= 128
      BY <2>1, <2>3, <2>4, <3>2
    <3>3. CASE a >= 128 /\ v < 128
      BY <2>1, <2>3, <2>4, <3>3
    <3>4. CASE a >= 128 /\ v >= 128
      BY <2>1, <2>3, <2>4, <3>4
    <3> QED
      BY <2>1, <3>1, <3>2, <3>3, <3>4
  <2>6. d \in Int
    BY <2>1, <2>4
  <2>7. d \notin -128..127 <=> wrong
    BY <2>5, <2>6
  <2> HIDE DEF wrong
  <2> QED
    BY <2>2, <2>7 DEF d
<1> QED
  BY <1>3, <1>4 DEF SignsTell

SignAndZero(s) == ("Z" \in s.flags <=> s.a = 0) /\ ("N" \in s.flags <=> Signed(s.a) < 0)
CarryOf(s) == IF "C" \in s.flags THEN 1 ELSE 0

LEMMA AddSays ==
    ASSUME NEW s, StateOK(s), NEW v \in Byte
    PROVE  /\ Sum(s.a, v, CarryOf(s), AddBinary(s, v))
           /\ SignAndZero(AddBinary(s, v))
<1> DEFINE in == CarryOf(s)
           sum == s.a + v + in
           r == sum % 256
           over == Bit(s.a, 7) = Bit(v, 7) /\ Bit(s.a, 7) # Bit(r, 7)
           carry == sum > 255
           c == SetC(s, carry)
           o == [c EXCEPT !.flags = SetFlag(@, "V", over)]
           t == SetReg(o, "a", r)
<1>1. AddBinary(s, v) = t
  BY DEF AddBinary, CarryOf
<1>2. s.a \in Byte /\ in \in {0, 1} /\ sum \in Int
  BY RegistersTyped, ByteIsInt DEF CarryOf
<1>3. r \in Byte
  BY <1>2, ByteTyped
<1>4. /\ r + 256 * (IF sum > 255 THEN 1 ELSE 0) = sum
      /\ over <=> Signed(s.a) + Signed(v) + in \notin -128..127
  BY <1>2, <1>3, SumOfBytes
<1> HIDE DEF in, r, over, carry
<1>5. StateOK(c) /\ ("C" \in c.flags <=> carry)
  <2>1. StateOK(c)
    BY SetCOK
  <2>2. "C" \in c.flags <=> carry
    BY WithFlags, SetFlagSays DEF SetC
  <2> QED
    BY <2>1, <2>2
<1> HIDE DEF c
<1>6. StateOK(o) /\ ("C" \in o.flags <=> carry) /\ ("V" \in o.flags <=> over)
  BY <1>5, SetFlagOK, WithFlags, SetFlagSays
<1> HIDE DEF o
<1>7. /\ t.a = r
      /\ "Z" \in t.flags <=> r = 0
      /\ "N" \in t.flags <=> r >= 128
      /\ "C" \in t.flags <=> carry
      /\ "V" \in t.flags <=> over
  BY <1>3, <1>6, SetRegSays
<1> HIDE DEF t
<1>8. Sum(s.a, v, in, t)
  BY <1>4, <1>7 DEF Sum, carry
<1>9. SignAndZero(t)
  BY <1>3, <1>7 DEF SignAndZero, Signed, Byte
<1> QED
  BY <1>1, <1>8, <1>9 DEF in

LEMMA SubtractSays ==
    ASSUME NEW s, StateOK(s), NEW v \in Byte
    PROVE  /\ Difference(s.a, v, CarryOf(s), SubtractBinary(s, v))
           /\ SignAndZero(SubtractBinary(s, v))
<1> DEFINE in == CarryOf(s)
           diff == s.a - v - (1 - in)
           r == diff % 256
           over == Bit(s.a, 7) # Bit(v, 7) /\ Bit(s.a, 7) # Bit(r, 7)
           carry == diff >= 0
           c == SetC(s, carry)
           o == [c EXCEPT !.flags = SetFlag(@, "V", over)]
           t == SetReg(o, "a", r)
<1>1. SubtractBinary(s, v) = t
  <2>1. 1 - in = IF "C" \in s.flags THEN 0 ELSE 1
    BY DEF CarryOf
  <2> QED
    BY <2>1 DEF SubtractBinary
<1>2. s.a \in Byte /\ in \in {0, 1} /\ diff \in Int
  BY RegistersTyped, ByteIsInt DEF CarryOf
<1>3. r \in Byte
  BY <1>2, ByteTyped
<1>4. /\ r - 256 * (IF diff >= 0 THEN 0 ELSE 1) = diff
      /\ over <=> Signed(s.a) - Signed(v) - (1 - in) \notin -128..127
  <2> DEFINE a == s.a
  <2>1. Borrows(a, v, in, diff, r)
    BY DEF Borrows
  <2> HIDE DEF in, r, diff, a
  <2>2. /\ r - 256 * (IF diff >= 0 THEN 0 ELSE 1) = diff
        /\ (Bit(a, 7) # Bit(v, 7) /\ Bit(a, 7) # Bit(r, 7))
              <=> Signed(a) - Signed(v) - (1 - in) \notin -128..127
    <3>1. a \in Byte /\ in \in {0, 1} /\ r \in Byte
      BY <1>2, <1>3 DEF a
    <3>2. r - 256 * (IF diff >= 0 THEN 0 ELSE 1) = diff
      BY <2>1, <3>1, DifferenceOfBytes
    <3>3. SignsTell(a, v, in, r)
      BY <2>1, <3>1, DifferenceOfBytes
    <3> QED
      BY <3>2, <3>3 DEF SignsTell
  <2> QED
    BY <2>2 DEF a
<1> HIDE DEF in, r, over, carry
<1>5. StateOK(c) /\ ("C" \in c.flags <=> carry)
  <2>1. StateOK(c)
    BY SetCOK
  <2>2. "C" \in c.flags <=> carry
    BY WithFlags, SetFlagSays DEF SetC
  <2> QED
    BY <2>1, <2>2
<1> HIDE DEF c
<1>6. StateOK(o) /\ ("C" \in o.flags <=> carry) /\ ("V" \in o.flags <=> over)
  BY <1>5, SetFlagOK, WithFlags, SetFlagSays
<1> HIDE DEF o
<1>7. /\ t.a = r
      /\ "Z" \in t.flags <=> r = 0
      /\ "N" \in t.flags <=> r >= 128
      /\ "C" \in t.flags <=> carry
      /\ "V" \in t.flags <=> over
  BY <1>3, <1>6, SetRegSays
<1> HIDE DEF t
<1>8. Difference(s.a, v, in, t)
  BY <1>4, <1>7 DEF Difference, carry
<1>9. SignAndZero(t)
  BY <1>3, <1>7 DEF SignAndZero, Signed, Byte
<1> QED
  BY <1>1, <1>8, <1>9 DEF in

LEMMA ComparedSays ==
    ASSUME NEW s, StateOK(s), NEW r \in {"a", "x", "y"}, NEW v \in Byte
    PROVE  Comparison(s[r], v, Compared(s, r, v))
<1> DEFINE diff == (s[r] - v) % 256
           carry == s[r] >= v
           c == SetC(s, carry)
<1>1. s[r] \in Byte
  BY RegistersTyped
<1>2. diff \in Byte /\ (diff = 0 <=> s[r] = v)
  <2>1. ASSUME NEW n \in -255..255
        PROVE  n % 256 \in 0..255 /\ (n % 256 = 0 <=> n = 0)
    OBVIOUS
  <2> DEFINE x == s[r]
  <2>2. /\ x \in Int /\ 0 <= x /\ x <= 255
        /\ v \in Int /\ 0 <= v /\ v <= 255
    BY <1>1, ByteIsInt
  <2> HIDE DEF x
  <2>3. x - v \in -255..255
    BY <2>2
  <2>4. (x - v) % 256 \in 0..255 /\ ((x - v) % 256 = 0 <=> x = v)
    BY <2>1, <2>2, <2>3
  <2> QED
    BY <2>4 DEF Byte, x
<1> HIDE DEF diff, carry
<1>3. StateOK(c) /\ ("C" \in c.flags <=> carry)
  <2>1. StateOK(c)
    BY SetCOK
  <2>2. "C" \in c.flags <=> carry
    BY WithFlags, SetFlagSays DEF SetC
  <2> QED
    BY <2>1, <2>2
<1>4. Compared(s, r, v) = Zn(c, diff)
  BY DEF Compared, diff, carry
<1> HIDE DEF c
<1>5. /\ "C" \in Zn(c, diff).flags <=> carry
      /\ "Z" \in Zn(c, diff).flags <=> s[r] = v
  BY <1>2, <1>3, ZnSays
<1> QED
  BY <1>4, <1>5 DEF Comparison, carry

(* The carry after a shift, through the setting of Z and N. *)
LEMMA CarryOut ==
    ASSUME NEW s, StateOK(s), NEW bit \in Nat, NEW v \in Byte
    PROVE  LET c == SetC(s, bit = 1)
           IN /\ StateOK(c) /\ c.a = s.a
              /\ "C" \in c.flags <=> bit = 1
              /\ "C" \in Zn(c, v).flags <=> bit = 1
              /\ "C" \in SetReg(c, "a", v).flags <=> bit = 1
<1> DEFINE carry == bit = 1
           c == SetC(s, carry)
<1> HIDE DEF carry
<1>1. StateOK(c)
  BY SetCOK
<1>2. c.a = s.a /\ ("C" \in c.flags <=> carry)
  BY WithFlags, SetFlagSays DEF SetC
<1> HIDE DEF c
<1>3. "C" \in Zn(c, v).flags <=> carry
  BY <1>1, <1>2, ZnSays
<1>4. "C" \in SetReg(c, "a", v).flags <=> carry
  BY <1>1, <1>2, SetRegSays
<1> QED
  BY <1>1, <1>2, <1>3, <1>4 DEF c, carry

(* A shift moves every bit by one place and one out. *)
ShiftedLeft(v, in) == LeftOf(v, in) + 256 * (IF Bit(v, 7) = 1 THEN 1 ELSE 0) = 2 * v + in
ShiftedRight(v, in) == 2 * RightOf(v, in) + (IF Bit(v, 0) = 1 THEN 1 ELSE 0) = v + 256 * in

LEMMA ShiftsSay ==
    ASSUME NEW v \in Byte, NEW in \in 0..1
    PROVE  /\ ShiftedLeft(v, in) /\ ShiftedRight(v, in)
           /\ Bit(v, 0) = v % 2 /\ Bit(v, 0) \in 0..1 /\ Bit(v, 7) \in 0..1
<1>1. Bit(v, 7) = IF v >= 128 THEN 1 ELSE 0
  BY SignBit
<1>2. Bit(v, 0) = v % 2
  BY Powers DEF Bit, Byte
<1>3. LeftOf(v, in) + 256 * (IF Bit(v, 7) = 1 THEN 1 ELSE 0) = 2 * v + in
  BY <1>1 DEF LeftOf, Byte
<1>4. 2 * RightOf(v, in) + (IF Bit(v, 0) = 1 THEN 1 ELSE 0) = v + 256 * in
  BY <1>2 DEF RightOf, Byte
<1> QED
  BY <1>1, <1>2, <1>3, <1>4 DEF Byte, ShiftedLeft, ShiftedRight

(* The byte the handler worked with last, and the one it modified. *)
Used == trace'[Len(trace') - 1][3]
WasRead == trace'[Len(trace') - 5][3]

LEMMA Appended ==
    ASSUME NEW s \in Seq(Accesses), NEW t \in Seq(Accesses), NEW i \in 1..Len(t)
    PROVE  Len(s \o t) = Len(s) + Len(t) /\ (s \o t)[Len(s) + i] = t[i]
<1> DEFINE j == Len(s) + i
<1>1. Len(s) \in Nat /\ Len(t) \in Nat
  OBVIOUS
<1>2. j \in 1..(Len(s) + Len(t)) /\ ~(j <= Len(s)) /\ j - Len(s) = i
  BY <1>1
<1> HIDE DEF j
<1>3. (s \o t)[j] = t[i]
  BY <1>2, Concatenation
<1> QED
  BY <1>3, Concatenation DEF j

LEMMA ReadsUse ==
    ASSUME Inv, phase = "execute", NEW name, NEW v \in Byte, Reads(name, v)
    PROVE  handler = name /\ Used = v
<1> DEFINE t == <<Read(addr, v), Cycle>>
<1>1. handler = name /\ trace' = trace \o t
  BY DEF Reads, Executed
<1>2. trace \in Seq(Accesses) /\ addr \in Address
  BY DEF Inv, TypeInv
<1>3. t \in Seq(Accesses) /\ Len(t) = 2 /\ t[1] = Read(addr, v)
  BY <1>2, AccessTyped
<1> HIDE DEF t
<1>4. /\ Len(trace') = Len(trace) + 2
      /\ trace'[Len(trace) + 1] = t[1]
  <2>1. 1 \in 1..Len(t)
    BY <1>3
  <2>2. Len(trace \o t) = Len(trace) + Len(t) /\ (trace \o t)[Len(trace) + 1] = t[1]
    BY <1>2, <1>3, <2>1, Appended
  <2> QED
    BY <1>1, <1>3, <2>2
<1>5. Used = t[1][3]
  BY <1>2, <1>4 DEF Used
<1> QED
  BY <1>1, <1>3, <1>5 DEF Read

LEMMA ModifyingUses ==
    ASSUME Inv, phase = "execute", NEW name, NEW v \in Byte, NEW new \in Byte,
           Modifying(name, v, new)
    PROVE  handler = name /\ Used = new /\ WasRead = v
<1> DEFINE t == <<Read(addr, v), Cycle, Write(addr, v), Cycle, Write(addr, new), Cycle>>
<1>1. handler = name /\ trace' = trace \o t
  BY DEF Modifying, Executed
<1>2. trace \in Seq(Accesses) /\ addr \in Address
  BY DEF Inv, TypeInv
<1>3. /\ t \in Seq(Accesses) /\ Len(t) = 6
      /\ t[1] = Read(addr, v) /\ t[5] = Write(addr, new)
  BY <1>2, AccessTyped
<1> HIDE DEF t
<1>4. /\ Len(trace') = Len(trace) + 6
      /\ trace'[Len(trace) + 1] = t[1] /\ trace'[Len(trace) + 5] = t[5]
  <2>1. 1 \in 1..Len(t) /\ 5 \in 1..Len(t)
    BY <1>3
  <2>2. Len(trace \o t) = Len(trace) + Len(t) /\ (trace \o t)[Len(trace) + 1] = t[1]
    BY <1>2, <1>3, <2>1, Appended
  <2>3. (trace \o t)[Len(trace) + 5] = t[5]
    BY <1>2, <1>3, <2>1, Appended
  <2> QED
    BY <1>1, <1>3, <2>2, <2>3
<1>5. Used = t[5][3] /\ WasRead = t[1][3]
  BY <1>2, <1>4 DEF Used, WasRead
<1> QED
  BY <1>1, <1>3, <1>5 DEF Read, Write

-----------------------------------------------------------------------------
(* What Agrees asks of each handler. *)
LEMMA AgreesOn ==
    /\ handler = "adc" /\ Sum(state.a, Used, Carry, state') /\ SignAndZero(state') => Agrees
    /\ handler = "sbc" /\ Difference(state.a, Used, Carry, state') /\ SignAndZero(state')
          => Agrees
    /\ handler = "rra" /\ Sum(state.a, Used, WasRead % 2, state') /\ SignAndZero(state')
          => Agrees
    /\ handler = "isc" /\ Difference(state.a, Used, Carry, state') /\ SignAndZero(state')
          => Agrees
    /\ handler \in {"cmp", "dcp"} /\ Comparison(state.a, Used, state') => Agrees
    /\ handler = "cpx" /\ Comparison(state.x, Used, state') => Agrees
    /\ handler = "cpy" /\ Comparison(state.y, Used, state') => Agrees
    /\ handler \in {"asl", "slo"} /\ Used + 256 * Out' = 2 * WasRead => Agrees
    /\ handler \in {"rol", "rla"} /\ Used + 256 * Out' = 2 * WasRead + Carry => Agrees
    /\ handler \in {"lsr", "sre"} /\ 2 * Used + Out' = WasRead => Agrees
    /\ handler = "ror" /\ 2 * Used + Out' = WasRead + 256 * Carry => Agrees
    /\ handler \notin {"adc", "sbc", "rra", "isc", "cmp", "dcp", "cpx", "cpy", "asl", "slo",
                       "rol", "rla", "lsr", "sre", "ror"} => Agrees
BY DEF Agrees, Used, WasRead, SignAndZero

(* The handlers that read. *)
LEMMA ReadersAgree ==
    ASSUME Inv, phase = "execute", Adc \/ Sbc \/ Compare
    PROVE  Agrees
<1>1. TypeInv /\ StateOK(state) /\ CarryOf(state) = Carry
  BY DEF Inv, TypeInv, CarryOf, Carry
<1>2. \A a : Answers(a) \subseteq Byte
  BY <1>1, AnswersTyped
<1>3. CASE Adc
  <2>1. PICK v \in Answers(addr) : Reads("adc", v) /\ state' = AddBinary(state, v)
    BY <1>3 DEF Adc
  <2>2. v \in Byte
    BY <1>2
  <2>3. handler = "adc" /\ Used = v
    BY <2>1, <2>2, ReadsUse
  <2>4. Sum(state.a, v, CarryOf(state), AddBinary(state, v)) /\ SignAndZero(AddBinary(state, v))
    BY <1>1, <2>2, AddSays
  <2> QED
    BY <1>1, <2>1, <2>3, <2>4, AgreesOn
<1>4. CASE Sbc
  <2>1. PICK v \in Answers(addr) : Reads("sbc", v) /\ state' = SubtractBinary(state, v)
    BY <1>4 DEF Sbc
  <2>2. v \in Byte
    BY <1>2
  <2>3. handler = "sbc" /\ Used = v
    BY <2>1, <2>2, ReadsUse
  <2>4. /\ Difference(state.a, v, CarryOf(state), SubtractBinary(state, v))
        /\ SignAndZero(SubtractBinary(state, v))
    BY <1>1, <2>2, SubtractSays
  <2> QED
    BY <1>1, <2>1, <2>3, <2>4, AgreesOn
<1>5. CASE Compare
  <2>1. PICK v \in Answers(addr) :
            \/ Reads("cmp", v) /\ state' = Compared(state, "a", v)
            \/ Reads("cpx", v) /\ state' = Compared(state, "x", v)
            \/ Reads("cpy", v) /\ state' = Compared(state, "y", v)
    BY <1>5 DEF Compare
  <2>2. v \in Byte
    BY <1>2
  <2>3. CASE Reads("cmp", v) /\ state' = Compared(state, "a", v)
    <3>1. handler = "cmp" /\ Used = v
      BY <2>2, <2>3, ReadsUse
    <3>2. Comparison(state.a, v, Compared(state, "a", v))
      BY <1>1, <2>2, ComparedSays
    <3> QED
      BY <2>3, <3>1, <3>2, AgreesOn
  <2>4. CASE Reads("cpx", v) /\ state' = Compared(state, "x", v)
    <3>1. handler = "cpx" /\ Used = v
      BY <2>2, <2>4, ReadsUse
    <3>2. Comparison(state.x, v, Compared(state, "x", v))
      BY <1>1, <2>2, ComparedSays
    <3> QED
      BY <2>4, <3>1, <3>2, AgreesOn
  <2>5. CASE Reads("cpy", v) /\ state' = Compared(state, "y", v)
    <3>1. handler = "cpy" /\ Used = v
      BY <2>2, <2>5, ReadsUse
    <3>2. Comparison(state.y, v, Compared(state, "y", v))
      BY <1>1, <2>2, ComparedSays
    <3> QED
      BY <2>5, <3>1, <3>2, AgreesOn
  <2> QED
    BY <2>1, <2>3, <2>4, <2>5
<1> QED
  BY <1>3, <1>4, <1>5

(* The shifts: what they store, and the bit that falls out. *)
LEMMA LeftAgrees ==
    ASSUME Inv, phase = "execute", NEW name, NEW v \in Byte, NEW in \in 0..1, NEW new \in Byte,
           Modifying(name, v, LeftOf(v, in)),
           \/ state' = Zn(SetC(state, Bit(v, 7) = 1), new)
           \/ state' = SetReg(SetC(state, Bit(v, 7) = 1), "a", new)
    PROVE  handler = name /\ WasRead \in Byte /\ Used + 256 * Out' = 2 * WasRead + in
<1>1. StateOK(state)
  BY DEF Inv, TypeInv
<1>2. LeftOf(v, in) \in Byte /\ Bit(v, 7) \in Nat
  <2>1. LeftOf(v, in) \in Byte
    BY ShiftsTyped
  <2>2. Bit(v, 7) \in 0..1
    BY SignBit, ShiftsSay
  <2> QED
    BY <2>1, <2>2
<1>3. handler = name /\ Used = LeftOf(v, in) /\ WasRead = v
  BY <1>2, ModifyingUses
<1> DEFINE bit == Bit(v, 7)
<1>4. bit \in Nat
  BY <1>2
<1>5. "C" \in state'.flags <=> bit = 1
  <2> HIDE DEF bit
  <2>1. \/ state' = Zn(SetC(state, bit = 1), new)
        \/ state' = SetReg(SetC(state, bit = 1), "a", new)
    BY DEF bit
  <2>2. /\ "C" \in Zn(SetC(state, bit = 1), new).flags <=> bit = 1
        /\ "C" \in SetReg(SetC(state, bit = 1), "a", new).flags <=> bit = 1
    BY <1>1, <1>4, CarryOut
  <2> QED
    BY <2>1, <2>2
<1>6. Out' = IF bit = 1 THEN 1 ELSE 0
  BY <1>5 DEF Out
<1>7. ShiftedLeft(v, in)
  BY ShiftsSay
<1> QED
  BY <1>3, <1>6, <1>7 DEF ShiftedLeft

LEMMA RightAgrees ==
    ASSUME Inv, phase = "execute", NEW name, NEW v \in Byte, NEW in \in 0..1, NEW new \in Byte,
           Modifying(name, v, RightOf(v, in)),
           \/ state' = Zn(SetC(state, Bit(v, 0) = 1), new)
           \/ state' = SetReg(SetC(state, Bit(v, 0) = 1), "a", new)
    PROVE  handler = name /\ WasRead \in Byte /\ 2 * Used + Out' = WasRead + 256 * in
<1>1. StateOK(state)
  BY DEF Inv, TypeInv
<1>2. RightOf(v, in) \in Byte /\ Bit(v, 0) \in Nat
  <2>1. RightOf(v, in) \in Byte
    BY ShiftsTyped
  <2>2. Bit(v, 0) \in 0..1
    BY SignBit, ShiftsSay
  <2> QED
    BY <2>1, <2>2
<1>3. handler = name /\ Used = RightOf(v, in) /\ WasRead = v
  BY <1>2, ModifyingUses
<1> DEFINE bit == Bit(v, 0)
<1>4. bit \in Nat
  BY <1>2
<1>5. "C" \in state'.flags <=> bit = 1
  <2> HIDE DEF bit
  <2>1. \/ state' = Zn(SetC(state, bit = 1), new)
        \/ state' = SetReg(SetC(state, bit = 1), "a", new)
    BY DEF bit
  <2>2. /\ "C" \in Zn(SetC(state, bit = 1), new).flags <=> bit = 1
        /\ "C" \in SetReg(SetC(state, bit = 1), "a", new).flags <=> bit = 1
    BY <1>1, <1>4, CarryOut
  <2> QED
    BY <2>1, <2>2
<1>6. Out' = IF bit = 1 THEN 1 ELSE 0
  BY <1>5 DEF Out
<1>7. ShiftedRight(v, in)
  BY ShiftsSay
<1> QED
  BY <1>3, <1>6, <1>7 DEF ShiftedRight

(* Nothing comes in with ASL and LSR, the old carry with the others. *)
LEMMA NothingIn == \A n \in Byte : 2 * n + 0 = 2 * n /\ n + 256 * 0 = n
BY ByteIsInt

LEMMA ShiftersAgree ==
    ASSUME Inv, phase = "execute", Asl \/ Lsr \/ Rol \/ Ror
    PROVE  Agrees
<1>1. TypeInv /\ Carry \in 0..1 /\ 0 \in 0..1
  BY CarryTyped DEF Inv
<1>2. \A a : Answers(a) \subseteq Byte
  BY <1>1, AnswersTyped
<1>3. ASSUME handler \in {"asla", "lsra", "rola", "rora"} PROVE Agrees
  BY <1>3, AgreesOn
<1>4. CASE Asl
  <2>1. CASE \E v \in Answers(addr) :
                 /\ Modifying("asl", v, LeftOf(v, 0))
                 /\ state' = Zn(SetC(state, Bit(v, 7) = 1), LeftOf(v, 0))
    <3>1. PICK v \in Answers(addr) :
                 /\ Modifying("asl", v, LeftOf(v, 0))
                 /\ state' = Zn(SetC(state, Bit(v, 7) = 1), LeftOf(v, 0))
      BY <2>1
    <3> DEFINE new == LeftOf(v, 0)
    <3>2. v \in Byte
      BY <1>2
    <3>3. new \in Byte
      BY <1>1, <3>2, ShiftsTyped
    <3>4. state' = Zn(SetC(state, Bit(v, 7) = 1), new)
      BY <3>1
    <3> HIDE DEF new
    <3>5. handler = "asl" /\ WasRead \in Byte /\ Used + 256 * Out' = 2 * WasRead + 0
      BY <1>1, <3>1, <3>2, <3>3, <3>4, LeftAgrees
    <3> QED
      BY <3>5, AgreesOn, NothingIn
  <2>2. CASE InternalStep("asla")
    BY <1>3, <2>2 DEF InternalStep, Internal
  <2> QED
    BY <1>4, <2>1, <2>2 DEF Asl
<1>5. CASE Lsr
  <2>1. CASE \E v \in Answers(addr) :
                 /\ Modifying("lsr", v, RightOf(v, 0))
                 /\ state' = Zn(SetC(state, Bit(v, 0) = 1), RightOf(v, 0))
    <3>1. PICK v \in Answers(addr) :
                 /\ Modifying("lsr", v, RightOf(v, 0))
                 /\ state' = Zn(SetC(state, Bit(v, 0) = 1), RightOf(v, 0))
      BY <2>1
    <3> DEFINE new == RightOf(v, 0)
    <3>2. v \in Byte
      BY <1>2
    <3>3. new \in Byte
      BY <1>1, <3>2, ShiftsTyped
    <3>4. state' = Zn(SetC(state, Bit(v, 0) = 1), new)
      BY <3>1
    <3> HIDE DEF new
    <3>5. handler = "lsr" /\ WasRead \in Byte /\ 2 * Used + Out' = WasRead + 256 * 0
      BY <1>1, <3>1, <3>2, <3>3, <3>4, RightAgrees
    <3> QED
      BY <3>5, AgreesOn, NothingIn
  <2>2. CASE InternalStep("lsra")
    BY <1>3, <2>2 DEF InternalStep, Internal
  <2> QED
    BY <1>5, <2>1, <2>2 DEF Lsr
<1>6. CASE Rol
  <2>1. CASE \E v \in Answers(addr) :
                 /\ Modifying("rol", v, LeftOf(v, Carry))
                 /\ state' = Zn(SetC(state, Bit(v, 7) = 1), LeftOf(v, Carry))
    <3>1. PICK v \in Answers(addr) :
                 /\ Modifying("rol", v, LeftOf(v, Carry))
                 /\ state' = Zn(SetC(state, Bit(v, 7) = 1), LeftOf(v, Carry))
      BY <2>1
    <3> DEFINE new == LeftOf(v, Carry)
    <3>2. v \in Byte
      BY <1>2
    <3>3. new \in Byte
      BY <1>1, <3>2, ShiftsTyped
    <3>4. state' = Zn(SetC(state, Bit(v, 7) = 1), new)
      BY <3>1
    <3> HIDE DEF new
    <3>5. handler = "rol" /\ WasRead \in Byte /\ Used + 256 * Out' = 2 * WasRead + Carry
      BY <1>1, <3>1, <3>2, <3>3, <3>4, LeftAgrees
    <3> QED
      BY <3>5, AgreesOn, NothingIn
  <2>2. CASE InternalStep("rola")
    BY <1>3, <2>2 DEF InternalStep, Internal
  <2> QED
    BY <1>6, <2>1, <2>2 DEF Rol
<1>7. CASE Ror
  <2>1. CASE \E v \in Answers(addr) :
                 /\ Modifying("ror", v, RightOf(v, Carry))
                 /\ state' = Zn(SetC(state, Bit(v, 0) = 1), RightOf(v, Carry))
    <3>1. PICK v \in Answers(addr) :
                 /\ Modifying("ror", v, RightOf(v, Carry))
                 /\ state' = Zn(SetC(state, Bit(v, 0) = 1), RightOf(v, Carry))
      BY <2>1
    <3> DEFINE new == RightOf(v, Carry)
    <3>2. v \in Byte
      BY <1>2
    <3>3. new \in Byte
      BY <1>1, <3>2, ShiftsTyped
    <3>4. state' = Zn(SetC(state, Bit(v, 0) = 1), new)
      BY <3>1
    <3> HIDE DEF new
    <3>5. handler = "ror" /\ WasRead \in Byte /\ 2 * Used + Out' = WasRead + 256 * Carry
      BY <1>1, <3>1, <3>2, <3>3, <3>4, RightAgrees
    <3> QED
      BY <3>5, AgreesOn, NothingIn
  <2>2. CASE InternalStep("rora")
    BY <1>3, <2>2 DEF InternalStep, Internal
  <2> QED
    BY <1>7, <2>1, <2>2 DEF Ror
<1> QED
  BY <1>4, <1>5, <1>6, <1>7

(* The undocumented instructions that modify and then do arithmetic. *)
LEMMA ModifiersAgree ==
    ASSUME Inv, phase = "execute", Dcp \/ Isc \/ Rla \/ Rra \/ Slo \/ Sre
    PROVE  Agrees
<1>1. /\ TypeInv /\ StateOK(state) /\ CarryOf(state) = Carry
      /\ Carry \in 0..1 /\ 0 \in 0..1
  BY CarryTyped DEF Inv, TypeInv, CarryOf, Carry
<1>2. \A a : Answers(a) \subseteq Byte
  BY <1>1, AnswersTyped
<1>3. CASE Dcp
  <2>1. PICK v \in Answers(addr) :
            /\ Modifying("dcp", v, (v - 1) % 256)
            /\ state' = Compared(state, "a", (v - 1) % 256)
    BY <1>3 DEF Dcp
  <2> DEFINE new == (v - 1) % 256
  <2>2. v \in Byte
    BY <1>2
  <2>3. new \in Byte
    BY <2>2, StepsOfByte
  <2>4. Modifying("dcp", v, new) /\ state' = Compared(state, "a", new)
    BY <2>1
  <2> HIDE DEF new
  <2>5. handler = "dcp" /\ Used = new
    BY <2>2, <2>3, <2>4, ModifyingUses
  <2>6. Comparison(state.a, new, Compared(state, "a", new))
    BY <1>1, <2>3, ComparedSays
  <2> QED
    BY <2>4, <2>5, <2>6, AgreesOn
<1>4. CASE Isc
  <2>1. PICK v \in Answers(addr) :
            /\ Modifying("isc", v, (v + 1) % 256)
            /\ state' = SubtractBinary(state, (v + 1) % 256)
    BY <1>4 DEF Isc
  <2> DEFINE new == (v + 1) % 256
  <2>2. v \in Byte
    BY <1>2
  <2>3. new \in Byte
    BY <2>2, StepsOfByte
  <2>4. Modifying("isc", v, new) /\ state' = SubtractBinary(state, new)
    BY <2>1
  <2> HIDE DEF new
  <2>5. handler = "isc" /\ Used = new
    BY <2>2, <2>3, <2>4, ModifyingUses
  <2>6. /\ Difference(state.a, new, CarryOf(state), SubtractBinary(state, new))
        /\ SignAndZero(SubtractBinary(state, new))
    BY <1>1, <2>3, SubtractSays
  <2> QED
    BY <1>1, <2>4, <2>5, <2>6, AgreesOn
<1>5. CASE Rra
  <2>1. PICK v \in Answers(addr) :
            /\ Modifying("rra", v, RightOf(v, Carry))
            /\ state' = AddBinary(SetC(state, Bit(v, 0) = 1), RightOf(v, Carry))
    BY <1>5 DEF Rra
  <2> DEFINE new == RightOf(v, Carry)
             bit == Bit(v, 0)
             c == SetC(state, bit = 1)
  <2>2. v \in Byte
    BY <1>2
  <2>3. new \in Byte
    BY <1>1, <2>2, ShiftsTyped
  <2>4. bit = v % 2 /\ bit \in 0..1
    BY <1>1, <2>2, ShiftsSay
  <2>5. Modifying("rra", v, new) /\ state' = AddBinary(c, new)
    BY <2>1
  <2> HIDE DEF new, bit
  <2>6. bit \in Nat
    BY <2>4
  <2>7. StateOK(c) /\ c.a = state.a /\ ("C" \in c.flags <=> bit = 1)
    BY <1>1, <2>3, <2>6, CarryOut
  <2> HIDE DEF c
  <2>8. CarryOf(c) = v % 2
    <3>1. bit = 0 \/ bit = 1
      BY <2>4
    <3> QED
      BY <2>4, <2>7, <3>1 DEF CarryOf
  <2>9. handler = "rra" /\ Used = new /\ WasRead = v
    BY <2>2, <2>3, <2>5, ModifyingUses
  <2>10. Sum(c.a, new, CarryOf(c), AddBinary(c, new)) /\ SignAndZero(AddBinary(c, new))
    BY <2>3, <2>7, AddSays
  <2>11. Sum(state.a, Used, CarryOf(c), state') /\ SignAndZero(state')
    BY <2>5, <2>7, <2>9, <2>10
  <2>12. CarryOf(c) = WasRead % 2
    BY <2>8, <2>9
  <2> QED
    BY <2>9, <2>11, <2>12, AgreesOn
<1>6. CASE Rla
  <2>1. PICK v \in Answers(addr) :
            /\ Modifying("rla", v, LeftOf(v, Carry))
            /\ state' = SetReg(SetC(state, Bit(v, 7) = 1), "a", And(state.a, LeftOf(v, Carry)))
    BY <1>6 DEF Rla
  <2> DEFINE new == And(state.a, LeftOf(v, Carry))
  <2>2. v \in Byte
    BY <1>2
  <2>3. new \in Byte
    BY <1>1, <2>2, ShiftsTyped, LogicTyped, Values
  <2>4. state' = SetReg(SetC(state, Bit(v, 7) = 1), "a", new)
    BY <2>1
  <2> HIDE DEF new
  <2>5. handler = "rla" /\ WasRead \in Byte /\ Used + 256 * Out' = 2 * WasRead + Carry
    BY <1>1, <2>1, <2>2, <2>3, <2>4, LeftAgrees
  <2> QED
    BY <2>5, AgreesOn, NothingIn
<1>7. CASE Slo
  <2>1. PICK v \in Answers(addr) :
            /\ Modifying("slo", v, LeftOf(v, 0))
            /\ state' = SetReg(SetC(state, Bit(v, 7) = 1), "a", Or(state.a, LeftOf(v, 0)))
    BY <1>7 DEF Slo
  <2> DEFINE new == Or(state.a, LeftOf(v, 0))
  <2>2. v \in Byte
    BY <1>2
  <2>3. new \in Byte
    BY <1>1, <2>2, ShiftsTyped, LogicTyped, Values
  <2>4. state' = SetReg(SetC(state, Bit(v, 7) = 1), "a", new)
    BY <2>1
  <2> HIDE DEF new
  <2>5. handler = "slo" /\ WasRead \in Byte /\ Used + 256 * Out' = 2 * WasRead + 0
    BY <1>1, <2>1, <2>2, <2>3, <2>4, LeftAgrees
  <2> QED
    BY <2>5, AgreesOn, NothingIn
<1>8. CASE Sre
  <2>1. PICK v \in Answers(addr) :
            /\ Modifying("sre", v, RightOf(v, 0))
            /\ state' = SetReg(SetC(state, Bit(v, 0) = 1), "a", Xor(state.a, RightOf(v, 0)))
    BY <1>8 DEF Sre
  <2> DEFINE new == Xor(state.a, RightOf(v, 0))
  <2>2. v \in Byte
    BY <1>2
  <2>3. new \in Byte
    BY <1>1, <2>2, ShiftsTyped, LogicTyped, Values
  <2>4. state' = SetReg(SetC(state, Bit(v, 0) = 1), "a", new)
    BY <2>1
  <2> HIDE DEF new
  <2>5. handler = "sre" /\ WasRead \in Byte /\ 2 * Used + Out' = WasRead + 256 * 0
    BY <1>1, <2>1, <2>2, <2>3, <2>4, RightAgrees
  <2> QED
    BY <2>5, AgreesOn, NothingIn
<1> QED
  BY <1>3, <1>4, <1>5, <1>6, <1>7, <1>8

(* The other handlers, of which Agrees asks nothing. *)
LEMMA SilentHandlers ==
    ASSUME \/ AndA \/ Logic \/ BitTest \/ IncDec \/ Load \/ Store \/ Transfer \/ Txs
           \/ FlagInstruction \/ Nop \/ BranchCarryZero \/ BranchSignZero \/ BranchOverflow
           \/ Bbs \/ Jmp \/ IndJmp \/ Pha \/ Php \/ Pla \/ Plp \/ Jsr \/ Rts \/ Rti \/ Brk
           \/ Alr \/ Anc \/ Arr \/ Axs \/ Lax \/ Sax \/ Atx \/ Say \/ Xas \/ InvalidOpcode
    PROVE  Agrees
<1> DEFINE Silent(h) ==
               h \notin {"adc", "sbc", "rra", "isc", "cmp", "dcp", "cpx", "cpy", "asl", "slo",
                         "rol", "rla", "lsr", "sre", "ror"}
<1>1. ASSUME Silent(handler) PROVE Agrees
  BY <1>1, AgreesOn
<1>2. /\ \A name, v : Reads(name, v) => handler = name
      /\ \A name, v, new : Modifying(name, v, new) => handler = name
      /\ \A name, a, v : StoresAt(name, a, v) => handler = name
      /\ \A name : Internal(name) => handler = name
      /\ \A name : InternalStep(name) => handler = name
  BY DEF Reads, Modifying, StoresAt, Internal, InternalStep
<1>3. ASSUME AndA \/ Logic \/ BitTest \/ Load PROVE Silent(handler)
  BY <1>2, <1>3 DEF AndA, Logic, BitTest, Load
<1>4. ASSUME IncDec PROVE Silent(handler)
  BY <1>2, <1>4 DEF IncDec
<1>5. ASSUME Store \/ Sax \/ Say \/ Xas PROVE Silent(handler)
  BY <1>2, <1>5 DEF Store, Sax, Say, Xas, MaskedStore
<1>6. ASSUME Transfer PROVE Silent(handler)
  <2>1. PICK t \in {"tax", "txa", "tay", "tya", "tsx"} : InternalStep(t)
    BY <1>6 DEF Transfer
  <2> QED
    BY <1>2, <2>1
<1>7. ASSUME Txs \/ Nop \/ Bbs \/ Jmp \/ IndJmp \/ Brk \/ InvalidOpcode PROVE Silent(handler)
  BY <1>2, <1>7 DEF Txs, Nop, Bbs, Jmp, IndJmp, Brk, InvalidOpcode
<1>8. ASSUME FlagInstruction PROVE Silent(handler)
  BY <1>2, <1>8 DEF FlagInstruction
<1>9. ASSUME BranchCarryZero \/ BranchSignZero \/ BranchOverflow PROVE Silent(handler)
  BY <1>9 DEF BranchCarryZero, BranchSignZero, BranchOverflow, Branch
<1>10. ASSUME Pha \/ Php \/ Pla \/ Plp \/ Jsr \/ Rts \/ Rti PROVE Silent(handler)
  <2>1. handler \in {"pha", "php", "pla", "plp", "jsr", "rts", "rti"}
    <3>1. (Pha => handler = "pha") /\ (Php => handler = "php")
      BY DEF Pha, Php
    <3>2. (Pla => handler = "pla") /\ (Plp => handler = "plp")
      BY DEF Pla, Plp
    <3>3. (Jsr => handler = "jsr") /\ (Rts => handler = "rts") /\ (Rti => handler = "rti")
      BY DEF Jsr, Rts, Rti
    <3> QED
      BY <1>10, <3>1, <3>2, <3>3
  <2> QED
    BY <2>1
<1>11. ASSUME Alr \/ Anc \/ Arr \/ Axs \/ Lax \/ Atx PROVE Silent(handler)
  BY <1>2, <1>11 DEF Alr, Anc, Arr, Axs, Lax, Atx
<1> HIDE DEF Silent
<1> QED
  BY <1>1, <1>3, <1>4, <1>5, <1>6, <1>7, <1>8, <1>9, <1>10, <1>11

LEMMA AgreesStep ==
    ASSUME Inv, Next, phase = "execute", phase' = "poll"
    PROVE  Agrees
<1>1. Documented \/ Undocumented
  <2>1. ~Fetch /\ ~TakeNmi /\ ~NoInterrupt /\ ~RaiseNmi /\ ~Finished
    BY DEF Fetch, TakeNmi, NoInterrupt, RaiseNmi, Finished, vars
  <2>2. ~AddressMode
    BY DEF AddressMode, Implied, Immediate, ZeroPage, ZeroPageIndexed, Absolute,
           AbsoluteIndexed, IndZeroX, IndZeroY, IndirectZP, BusConflictInvalid, BitRelative,
           Addressed
  <2> QED
    BY <2>1, <2>2 DEF Next
<1>2. CASE Documented
  BY <1>2, ReadersAgree, ShiftersAgree, SilentHandlers DEF Documented
<1>3. CASE Undocumented
  BY <1>3, ModifiersAgree, SilentHandlers DEF Undocumented
<1> QED
  BY <1>1, <1>2, <1>3

(* What ADC, SBC, the comparisons, the shifts and rotations and the         *)
(* undocumented instructions built from them leave in A, memory, C, V, Z    *)
(* and N is what the integers say, for every pair of bytes and carry.       *)
THEOREM ArithmeticRight == Spec => ArithmeticAgrees
<1>1. Inv /\ [Next]_vars => [phase = "execute" /\ phase' = "poll" => Agrees]_vars
  BY AgreesStep
<1> QED
  BY <1>1, Invariant, PTL DEF Spec, ArithmeticAgrees

-----------------------------------------------------------------------------
(***************************************************************************)
(* The cycles and the accesses of an instruction.                          *)
(***************************************************************************)
(* The cycles in a sequence of accesses. *)
Count(s) == Cardinality({i \in 1..Len(s) : s[i] = Cycle})

(* A piece of n cycles that writes nothing and reads only in A. *)
Fetches(s, n, A) ==
    /\ s \in Seq(Accesses) /\ Count(s) = n
    /\ \A i \in 1..Len(s) : s[i][1] # "write" /\ (s[i][1] = "read" => s[i][2] \in A)

LoadModes == {"imm", "zp", "zpx", "zpy", "abs", "abx", "aby", "izx", "izy", "izp"}
StoreModes == {"zp", "zpx", "zpy", "abs", "abxW", "abyW", "izx", "izyW", "izp"}
ModifyModes == {"zp", "zpx", "abs", "abxW", "abyW", "izx", "izyW"}
OnStack == {"brk", "rti", "rts", "pha", "php", "pla", "plp"}

(* Which modes the table gives a handler. *)
Fits(h, m) ==
    /\ h \in Loads => m \in LoadModes
    /\ h \in {"ldx", "lax"} => m # "abx"
    /\ h = "ldy" => m \notin {"aby", "izy"}
    /\ h \in Stores => m \in StoreModes
    /\ h \in Modifies => m \in ModifyModes
    /\ h \in Branches => m = "imm"
    /\ h \in {"jsr", "jmp"} => m = "abs"
    /\ h = "ind_jmp" => m = "ind"
    /\ h \in OnStack => m = "impl"
    /\ h \in {"alr", "anc", "arr", "axs", "atx", "say", "xas", "bbs", "invalid_opcode"}
          => m # "impl"

(* The cycles of the fetch and of an addressing mode that has led to a, with the registers x
   and y. *)
CyclesOfMode(m, a, x, y) ==
    [impl |-> 2, imm |-> 1, zp |-> 2, zpx |-> 3, zpy |-> 3, abs |-> 3, ind |-> 3,
     abx |-> IF Low(a) < x THEN 4 ELSE 3, aby |-> IF Low(a) < y THEN 4 ELSE 3,
     abxW |-> 4, abyW |-> 4, izx |-> 5, izy |-> IF Low(a) < y THEN 5 ELSE 4,
     izyW |-> 5, izp |-> 4][m]
TimedModes == LoadModes \cup StoreModes \cup {"impl", "ind"}

(* Where a mode that does not expect a write may read: not at the effective address, unless
   that is in the zero page or in the instruction itself. *)
Behind(pc) == {Wrapped(pc - k) : k \in 1..3}
Elsewhere(a, pc) ==
    {b \in Address : High(b) = 0 \/ b \in Behind(pc) \/ b # a}
WritingModes == {"abxW", "abyW", "izyW", "bus"}
Readable(m, a, pc) == IF m \in WritingModes THEN Address ELSE Elsewhere(a, pc)

(* An instruction that has been fetched, and one whose address has been formed. *)
Opened == trace = <<Read(Wrapped(state.pc - 1), opcode), Cycle>>

Formed ==
    /\ \E n \in Nat : /\ Fetches(trace, n, Readable(mode, addr, state.pc))
                      /\ mode \in TimedModes => n = CyclesOfMode(mode, addr, state.x, state.y)
    /\ mode = "imm" => state.pc = Wrapped(addr + 1)

CycleInv ==
    /\ phase = "address" => Opened
    /\ phase = "execute" => Formed
    /\ TimingTable /\ EffectiveAccesses

-----------------------------------------------------------------------------
(***************************************************************************)
(* Counting cycles.                                                        *)
(***************************************************************************)
LEMMA MarksFinite ==
    ASSUME NEW s \in Seq(Accesses)
    PROVE  IsFiniteSet({i \in 1..Len(s) : s[i] = Cycle}) /\ Count(s) \in Nat
<1> DEFINE marks == {i \in 1..Len(s) : s[i] = Cycle}
<1>1. IsFiniteSet(1..Len(s)) /\ marks \in SUBSET (1..Len(s))
  BY FS_Interval
<1> HIDE DEF marks
<1>2. IsFiniteSet(marks) /\ Cardinality(marks) \in Nat
  BY <1>1, FS_Subset, FS_CardinalityType
<1> QED
  BY <1>2 DEF marks, Count

(* The cycles of two pieces add up. *)
LEMMA CountJoins ==
    ASSUME NEW s \in Seq(Accesses), NEW t \in Seq(Accesses)
    PROVE  s \o t \in Seq(Accesses) /\ Count(s \o t) = Count(s) + Count(t)
<1> DEFINE n == Len(s)
           u == s \o t
           S == {i \in 1..Len(s) : s[i] = Cycle}
           T == {i \in 1..Len(t) : t[i] = Cycle}
           U == {i \in 1..Len(u) : u[i] = Cycle}
           Later == {i \in U : i > n}
           moved == [i \in T |-> i + n]
<1>1. /\ u \in Seq(Accesses) /\ Len(u) = n + Len(t) /\ n \in Nat /\ Len(t) \in Nat
      /\ \A i \in 1..(n + Len(t)) : u[i] = IF i <= n THEN s[i] ELSE t[i - n]
  BY Concatenation
<1>2. IsFiniteSet(S) /\ IsFiniteSet(T) /\ IsFiniteSet(U)
  BY <1>1, MarksFinite
<1> HIDE DEF u, n
<1>3. U = S \cup Later /\ S \cap Later = {}
  <2>1. ASSUME NEW i \in S PROVE i \in U /\ ~(i > n)
    BY <1>1 DEF n
  <2>2. ASSUME NEW i \in U, ~(i > n) PROVE i \in S
    BY <1>1, <2>2 DEF n
  <2> QED
    BY <2>1, <2>2
<1>4. moved \in Bijection(T, Later)
  <2>1. ASSUME NEW i \in T PROVE moved[i] \in Later
    <3>1. i \in 1..Len(t) /\ t[i] = Cycle
      OBVIOUS
    <3>2. i + n \in 1..(n + Len(t)) /\ ~(i + n <= n) /\ (i + n) - n = i
      BY <1>1, <3>1
    <3>3. u[i + n] = Cycle
      BY <1>1, <3>1, <3>2
    <3> QED
      BY <1>1, <3>2, <3>3
  <2>2. ASSUME NEW j \in Later PROVE \E i \in T : moved[i] = j
    <3>1. j \in 1..(n + Len(t)) /\ ~(j <= n) /\ u[j] = Cycle
      BY <1>1
    <3>2. j - n \in 1..Len(t) /\ t[j - n] = Cycle /\ (j - n) + n = j
      BY <1>1, <3>1
    <3>3. j - n \in T
      BY <3>2
    <3> QED
      BY <3>2, <3>3
  <2>3. ASSUME NEW i \in T, NEW j \in T, moved[i] = moved[j] PROVE i = j
    BY <1>1, <2>3
  <2>4. moved \in [T -> Later]
    BY <2>1
  <2> HIDE DEF moved, T, Later
  <2> QED
    BY <2>2, <2>3, <2>4 DEF Bijection, Injection, Surjection, IsInjective
<1>5. Cardinality(Later) = Cardinality(T) /\ IsFiniteSet(Later)
  <2>1. ExistsBijection(T, Later)
    BY <1>4 DEF ExistsBijection
  <2> HIDE DEF T, Later
  <2> QED
    BY <1>2, <2>1, FS_Bijection
<1>6. Cardinality(U) = Cardinality(S) + Cardinality(T)
  <2> HIDE DEF S, T, U, Later
  <2>1. Cardinality(S \cup Later)
           = Cardinality(S) + Cardinality(Later) - Cardinality(S \cap Later)
    BY <1>2, <1>5, FS_Union
  <2>2. Cardinality(S \cap Later) = 0
    BY <1>3, FS_EmptySet
  <2>3. Cardinality(S) \in Nat /\ Cardinality(Later) \in Nat
    BY <1>2, <1>5, FS_CardinalityType
  <2> QED
    BY <1>3, <1>5, <2>1, <2>2, <2>3
<1>7. Count(u) = Count(s) + Count(t)
  BY <1>6 DEF Count
<1> QED
  BY <1>1, <1>7 DEF u

(* The cycles of the shortest pieces. *)
LEMMA CountPieces ==
    /\ Count(<<>>) = 0 /\ Count(<<Cycle>>) = 1
    /\ \A a \in Accesses : a # Cycle => Count(<<a>>) = 0 /\ Count(<<a, Cycle>>) = 1
<1>1. Count(<<>>) = 0
  <2>1. {i \in 1..Len(<<>>) : <<>>[i] = Cycle} = {}
    OBVIOUS
  <2> QED
    BY <2>1, FS_EmptySet DEF Count
<1>2. Count(<<Cycle>>) = 1
  <2> DEFINE s == <<Cycle>>
  <2>1. Len(s) = 1 /\ s[1] = Cycle
    OBVIOUS
  <2> HIDE DEF s
  <2>2. {i \in 1..Len(s) : s[i] = Cycle} = {1}
    BY <2>1
  <2>3. Count(s) = 1
    BY <2>2, FS_Singleton DEF Count
  <2> QED
    BY <2>3 DEF s
<1>3. ASSUME NEW a \in Accesses, a # Cycle
      PROVE  Count(<<a>>) = 0
  <2> DEFINE s == <<a>>
  <2>1. Len(s) = 1 /\ s[1] = a
    OBVIOUS
  <2> HIDE DEF s
  <2>2. {i \in 1..Len(s) : s[i] = Cycle} = {}
    BY <1>3, <2>1
  <2>3. Count(s) = 0
    BY <2>2, FS_EmptySet DEF Count
  <2> QED
    BY <2>3 DEF s
<1>4. ASSUME NEW a \in Accesses, a # Cycle
      PROVE  Count(<<a, Cycle>>) = 1
  <2> DEFINE s == <<a, Cycle>>
  <2>1. Len(s) = 2 /\ s[1] = a /\ s[2] = Cycle
    OBVIOUS
  <2> HIDE DEF s
  <2>2. {i \in 1..Len(s) : s[i] = Cycle} = {2}
    BY <1>4, <2>1
  <2>3. Count(s) = 1
    BY <2>2, FS_Singleton DEF Count
  <2> QED
    BY <2>3 DEF s
<1> QED
  BY <1>1, <1>2, <1>3, <1>4

(* Reads and writes are no cycles. *)
LEMMA Distinct ==
    \A a, v : /\ Read(a, v) # Cycle /\ Write(a, v) # Cycle
              /\ Read(a, v)[1] = "read" /\ Read(a, v)[2] = a /\ Read(a, v)[3] = v
              /\ Write(a, v)[1] = "write" /\ Write(a, v)[2] = a
              /\ Cycle[1] = "cycle"
<1> TAKE a, v
<1>1. Read(a, v)[1] = "read" /\ Read(a, v)[2] = a /\ Read(a, v)[3] = v
  BY DEF Read
<1>2. Write(a, v)[1] = "write" /\ Write(a, v)[2] = a
  BY DEF Write
<1>3. Cycle[1] = "cycle"
  BY DEF Cycle
<1>4. Read(a, v) # Cycle /\ Write(a, v) # Cycle
  BY <1>1, <1>2, <1>3
<1> QED
  BY <1>1, <1>2, <1>3, <1>4

LEMMA FetchesJoin ==
    ASSUME NEW A, NEW s, NEW t, NEW m, NEW n, Fetches(s, m, A), Fetches(t, n, A)
    PROVE  Fetches(s \o t, m + n, A)
<1> DEFINE u == s \o t
<1>1. s \in Seq(Accesses) /\ t \in Seq(Accesses) /\ Count(s) = m /\ Count(t) = n
  BY DEF Fetches
<1>2. /\ u \in Seq(Accesses) /\ Len(u) = Len(s) + Len(t)
      /\ \A i \in 1..(Len(s) + Len(t)) : u[i] = IF i <= Len(s) THEN s[i] ELSE t[i - Len(s)]
  BY <1>1, Concatenation
<1>3. Count(u) = m + n
  BY <1>1, CountJoins
<1> HIDE DEF u
<1>4. ASSUME NEW i \in 1..Len(u)
      PROVE  u[i][1] # "write" /\ (u[i][1] = "read" => u[i][2] \in A)
  <2>0. Len(s) \in Nat /\ Len(t) \in Nat
    BY <1>1
  <2>1. CASE i <= Len(s)
    <3>1. i \in 1..Len(s) /\ u[i] = s[i]
      BY <1>2, <2>0, <2>1
    <3> QED
      BY <3>1 DEF Fetches
  <2>2. CASE ~(i <= Len(s))
    <3> DEFINE j == i - Len(s)
    <3>1. j \in 1..Len(t) /\ u[i] = t[j]
      BY <1>2, <2>0, <2>2
    <3> HIDE DEF j
    <3> QED
      BY <3>1 DEF Fetches
  <2> QED
    BY <2>1, <2>2
<1>5. Fetches(u, m + n, A)
  BY <1>2, <1>3, <1>4 DEF Fetches
<1> QED
  BY <1>5 DEF u

LEMMA FetchesPieces ==
    ASSUME NEW A
    PROVE  /\ Fetches(<<>>, 0, A) /\ Fetches(<<Cycle>>, 1, A)
           /\ \A a \in A, v \in Byte : a \in Address => Fetches(<<Read(a, v), Cycle>>, 1, A)
<1>1. Fetches(<<>>, 0, A)
  BY CountPieces DEF Fetches
<1>2. Fetches(<<Cycle>>, 1, A)
  <2> DEFINE s == <<Cycle>>
  <2>1. s \in Seq(Accesses) /\ Len(s) = 1 /\ s[1] = Cycle /\ Count(s) = 1
    BY AccessTyped, CountPieces
  <2> HIDE DEF s
  <2>2. Fetches(s, 1, A)
    BY <2>1, Distinct DEF Fetches
  <2> QED
    BY <2>2 DEF s
<1>3. ASSUME NEW a \in A, NEW v \in Byte, a \in Address
      PROVE  Fetches(<<Read(a, v), Cycle>>, 1, A)
  <2> DEFINE r == Read(a, v)
             s == <<r, Cycle>>
  <2>1. r \in Accesses /\ r # Cycle /\ r[1] = "read" /\ r[2] = a
    BY <1>3, AccessTyped, Distinct
  <2> HIDE DEF r
  <2>0. Count(s) = 1
    BY <2>1, CountPieces
  <2>2. s \in Seq(Accesses) /\ Len(s) = 2 /\ s[1] = r /\ s[2] = Cycle
    BY <2>1, AccessTyped
  <2> HIDE DEF s
  <2>3. \A i \in 1..Len(s) : s[i] = r \/ s[i] = Cycle
    BY <2>2
  <2>4. Cycle[1] = "cycle"
    BY Distinct
  <2>5. Fetches(s, 1, A)
    BY <2>0, <2>1, <2>2, <2>3, <2>4 DEF Fetches
  <2> QED
    BY <2>5 DEF s, r
<1> QED
  BY <1>1, <1>2, <1>3

-----------------------------------------------------------------------------
(***************************************************************************)
(* Which modes the table gives a handler.                                  *)
(***************************************************************************)
(* A row before it is decided which variant of a mode it takes. *)
RowFits(h, m) ==
    /\ m \in LoadModes \cup {"impl", "ind", "bitrel"}
    /\ h \in Loads => m \in LoadModes
    /\ h \in {"ldx", "lax"} => m # "abx"
    /\ h = "ldy" => m \notin {"aby", "izy"}
    /\ h \in Stores => m \in LoadModes \ {"imm"}
    /\ h \in Modifies => m \in {"zp", "zpx", "abs", "abx", "aby", "izx", "izy"}
    /\ h \in Branches => m = "imm"
    /\ h \in {"jsr", "jmp"} => m = "abs"
    /\ h = "ind_jmp" => m = "ind"
    /\ h \in OnStack => m = "impl"
    /\ h \in {"alr", "anc", "arr", "axs", "atx", "say", "xas", "bbs"} => m # "impl"
    /\ h # "invalid_opcode"

LEMMA RowColumns ==
    \A h, columns : \A r \in Row(h, columns) : r[2] = h /\ r[3] \in DOMAIN columns
BY DEF Row

LEMMA VariantFits ==
    ASSUME NEW r, RowFits(r[2], r[3])
    PROVE  Fits(Callback(r).handler, Callback(r).mode)
<1> DEFINE h == r[2]
           m == r[3]
<1>1. /\ Callback(r).handler = h /\ Callback(r).mode = Variant(h, m)
  BY DEF Callback
<1>2. RowFits(h, m)
  OBVIOUS
<1> HIDE DEF h, m
<1>3. CASE h \in {"say", "xas"}
  <2>1. Variant(h, m) = "bus"
    BY <1>3 DEF Variant
  <2> QED
    BY <1>1, <1>3, <2>1 DEF Fits, Loads, Stores, Modifies, Branches, OnStack
<1>4. CASE h \in Stores \cup Modifies
  <2>1. /\ h \notin Loads /\ h \notin Branches /\ h \notin OnStack
        /\ h \notin {"jsr", "jmp", "ind_jmp", "ldx", "lax", "ldy", "alr", "anc", "arr", "axs",
                     "atx", "say", "xas", "bbs", "invalid_opcode"}
    BY <1>4 DEF Stores, Modifies, Loads, Branches, OnStack
  <2>2. Variant(h, m) = CASE m = "abx" -> "abxW" [] m = "aby" -> "abyW"
                          [] m = "izy" -> "izyW" [] OTHER -> m
    BY <1>4, <2>1 DEF Variant
  <2>3. ASSUME m \in LoadModes \ {"imm"} PROVE Variant(h, m) \in StoreModes \cup {"zpy"}
    BY <2>2, <2>3 DEF LoadModes, StoreModes
  <2>4. ASSUME m \in {"zp", "zpx", "abs", "abx", "aby", "izx", "izy"}
        PROVE  Variant(h, m) \in ModifyModes
    BY <2>2, <2>4 DEF ModifyModes
  <2>5. "zpy" \in StoreModes
    BY DEF StoreModes
  <2>6. /\ h \in Stores => Variant(h, m) \in StoreModes
        /\ h \in Modifies => Variant(h, m) \in ModifyModes
    BY <1>2, <2>3, <2>4, <2>5 DEF RowFits
  <2> QED
    BY <1>1, <2>1, <2>6 DEF Fits
<1>5. CASE h \notin {"say", "xas"} /\ h \notin Stores \cup Modifies
  <2>1. Variant(h, m) = m
    BY <1>5 DEF Variant
  <2> QED
    BY <1>1, <1>2, <1>5, <2>1 DEF Fits, RowFits
<1> QED
  BY <1>3, <1>4, <1>5

LEMMA DocumentedFit == \A r \in DocumentedRows : RowFits(r[2], r[3])
<1>1. \A r \in ImpliedRows : RowFits(r[2], r[3])
  <2>1. \A r \in ImpliedRows :
           /\ r[3] = "impl"
           /\ r[2] \in {"nop", "asla", "lsra", "rola", "rora", "clc", "cld", "cli", "clv", "sec",
                        "sed", "sei", "dex", "dey", "inx", "iny", "pha", "php", "pla", "plp",
                        "rti", "rts", "tax", "tay", "tsx", "txa", "txs", "tya"}
    BY DEF ImpliedRows
  <2> QED
    BY <2>1 DEF RowFits, LoadModes, Loads, Stores, Modifies, Branches, OnStack
<1>2. \A r \in BranchRows : RowFits(r[2], r[3])
  <2>1. \A r \in BranchRows : r[3] = "imm" /\ r[2] \in Branches
    BY DEF BranchRows, Branches
  <2> QED
    BY <2>1 DEF RowFits, LoadModes, Loads, Stores, Modifies, Branches, OnStack
<1>3. ASSUME NEW h \in {"ora", "and_", "eor", "adc", "sta", "lda", "cmp", "sbc"}, NEW base
      PROVE  \A r \in AccumulatorRow(h, base) : RowFits(r[2], r[3])
  <2>1. \A r \in AccumulatorRow(h, base) :
           r[2] = h /\ r[3] \in LoadModes /\ (h = "sta" => r[3] # "imm")
    BY <1>3, RowColumns DEF AccumulatorRow, LoadModes
  <2> QED
    BY <1>3, <2>1 DEF RowFits, LoadModes, Loads, Stores, Modifies, Branches, OnStack
<1>4. ASSUME NEW h \in {"asl", "rol", "lsr", "ror", "dec", "inc"}, NEW base
      PROVE  \A r \in ModifyRow(h, base) : RowFits(r[2], r[3])
  <2>1. \A r \in ModifyRow(h, base) : r[2] = h /\ r[3] \in {"zp", "zpx", "abs", "abx"}
    BY RowColumns DEF ModifyRow
  <2> QED
    BY <1>4, <2>1 DEF RowFits, LoadModes, Loads, Stores, Modifies, Branches, OnStack
<1>5. ASSUME NEW h, NEW columns,
             \/ h \in {"bit", "cpx", "cpy"} /\ DOMAIN columns \subseteq LoadModes
             \/ h = "ldx" /\ DOMAIN columns \subseteq LoadModes \ {"abx"}
             \/ h = "ldy" /\ DOMAIN columns \subseteq LoadModes \ {"aby", "izy"}
             \/ h \in {"stx", "sty"} /\ DOMAIN columns \subseteq LoadModes \ {"imm"}
             \/ h \in {"jmp", "jsr"} /\ DOMAIN columns \subseteq {"abs"}
             \/ h = "ind_jmp" /\ DOMAIN columns \subseteq {"ind"}
             \/ h = "bbs" /\ DOMAIN columns \subseteq {"bitrel"}
      PROVE  \A r \in Row(h, columns) : RowFits(r[2], r[3])
  <2>1. \A r \in Row(h, columns) : r[2] = h /\ r[3] \in DOMAIN columns
    BY RowColumns
  <2> QED
    BY <1>5, <2>1 DEF RowFits, LoadModes, Loads, Stores, Modifies, Branches, OnStack
<1> QED
  BY <1>1, <1>2, <1>3, <1>4, <1>5 DEF DocumentedRows, LoadModes

LEMMA UndocumentedFit == \A r \in UndocumentedRows : RowFits(r[2], r[3])
<1>1. ASSUME NEW h \in {"slo", "rla", "sre", "rra", "dcp", "isc"}, NEW base
      PROVE  \A r \in UndocumentedModifyRow(h, base) : RowFits(r[2], r[3])
  <2>1. \A r \in UndocumentedModifyRow(h, base) :
           r[2] = h /\ r[3] \in {"zp", "zpx", "abs", "abx", "aby", "izx", "izy"}
    BY RowColumns DEF UndocumentedModifyRow
  <2> QED
    BY <1>1, <2>1 DEF RowFits, LoadModes, Loads, Stores, Modifies, Branches, OnStack
<1>2. ASSUME NEW r,
             \/ r[2] = "nop" /\ r[3] = "impl"
             \/ r[2] = "nop2" /\ r[3] \in {"imm", "abx", "zp", "zpx", "abs"}
             \/ r[2] \in {"sbc", "anc", "alr", "arr", "axs", "atx"} /\ r[3] = "imm"
             \/ r[2] = "lax" /\ r[3] \in {"zp", "zpy", "abs", "aby", "izx", "izy"}
             \/ r[2] = "sax" /\ r[3] \in {"zp", "zpy", "abs", "izx"}
             \/ r[2] = "say" /\ r[3] = "abx"
             \/ r[2] = "xas" /\ r[3] = "aby"
      PROVE  RowFits(r[2], r[3])
  BY <1>2 DEF RowFits, LoadModes, Loads, Stores, Modifies, Branches, OnStack
<1>3. ASSUME NEW h, NEW columns,
             \/ h = "nop2" /\ DOMAIN columns \subseteq {"abs"}
             \/ h \in {"anc", "alr", "arr", "axs", "atx"} /\ DOMAIN columns \subseteq {"imm"}
             \/ h = "lax" /\ DOMAIN columns \subseteq {"zp", "zpy", "abs", "aby", "izx", "izy"}
             \/ h = "sax" /\ DOMAIN columns \subseteq {"zp", "zpy", "abs", "izx"}
             \/ h = "say" /\ DOMAIN columns \subseteq {"abx"}
             \/ h = "xas" /\ DOMAIN columns \subseteq {"aby"}
      PROVE  \A r \in Row(h, columns) : RowFits(r[2], r[3])
  <2>1. \A r \in Row(h, columns) : r[2] = h /\ r[3] \in DOMAIN columns
    BY RowColumns
  <2> QED
    BY <1>2, <1>3, <2>1
<1> QED
  BY <1>1, <1>2, <1>3 DEF UndocumentedRows

(* What each handler is used with, whichever row has won. *)
LEMMA TableFits ==
    ASSUME NEW op \in Byte
    PROVE  Fits(opcodes[op].handler, opcodes[op].mode)
<1> DEFINE documented == Table(DocumentedRows)
           undocumented == Table(UndocumentedRows)
<1>1. ASSUME op \in DOMAIN documented
      PROVE  Fits(documented[op].handler, documented[op].mode)
  BY <1>1, TableOfRows, DocumentedFit, VariantFits
<1>2. ASSUME op \in DOMAIN undocumented
      PROVE  Fits(undocumented[op].handler, undocumented[op].mode)
  BY <1>2, TableOfRows, UndocumentedFit, VariantFits
<1>3. Fits(Invalid.handler, Invalid.mode) /\ Fits(BrkCallback.handler, BrkCallback.mode)
  BY DEF Invalid, BrkCallback, Fits, Loads, Stores, Modifies, Branches, OnStack
<1>4. \/ opcodes[op] = BrkCallback
      \/ op \in DOMAIN undocumented /\ opcodes[op] = undocumented[op]
      \/ op \in DOMAIN documented /\ opcodes[op] = documented[op]
      \/ opcodes[op] = Invalid
  BY DEF opcodes, Byte
<1> QED
  BY <1>1, <1>2, <1>3, <1>4

-----------------------------------------------------------------------------
(***************************************************************************)
(* What the addressing modes cost, and where they read.                    *)
(***************************************************************************)
LEMMA WrapTwice ==
    ASSUME NEW n \in Int, NEW k \in Int
    PROVE  Wrapped(Wrapped(n) - k) = Wrapped(n - k) /\ Wrapped(Wrapped(n) + k) = Wrapped(n + k)
<1>1. PICK q \in Int : n = 65536 * q + Wrapped(n) /\ Wrapped(n) \in Int
  BY DEF Wrapped
<1> DEFINE w == Wrapped(n)
<1> HIDE DEF w
<1>2. n = 65536 * q + w /\ w \in Int
  BY <1>1 DEF w
<1>3. (w - k) % 65536 = (n - k) % 65536 /\ (w + k) % 65536 = (n + k) % 65536
  BY <1>2
<1> QED
  BY <1>3 DEF w, Wrapped

(* The bytes of an instruction of up to three are behind the pc when it has been fetched. *)
LEMMA OperandBehind ==
    ASSUME NEW pc \in Address, NEW n \in Int, NEW i \in Int, n - i \in 1..3
    PROVE  Wrapped(pc + i) \in Behind(Wrapped(pc + n)) /\ Wrapped(pc + i) \in Address
<1>1. pc \in Int
  BY AddressIsInt
<1>2. pc + n \in Int /\ pc + i \in Int /\ n - i \in Int /\ (pc + n) - (n - i) = pc + i
  BY <1>1
<1>3. Wrapped(Wrapped(pc + n) - (n - i)) = Wrapped(pc + i)
  BY <1>2, WrapTwice
<1>4. Wrapped(pc + i) \in Address
  BY <1>2, WrapTyped
<1> QED
  BY <1>3, <1>4 DEF Behind

LEMMA ReadableThere ==
    ASSUME NEW m, NEW a, NEW pc
    PROVE  /\ Readable(m, a, pc) \subseteq Address
           /\ \A b \in Address : b \in Behind(pc) => b \in Readable(m, a, pc)
           /\ \A b \in Address : m \in WritingModes \/ b # a => b \in Readable(m, a, pc)
           /\ \A z \in Byte : z \in Readable(m, a, pc)
<1>1. \A z \in Byte : z \in Address /\ High(z) = 0
  BY ByteIsAddress DEF Byte, High
<1> QED
  BY <1>1 DEF Readable, Elsewhere

(* The index has crossed a page if the low byte has become smaller than it; then the dummy
   read is in another page than the effective address. *)
LEMMA CrossingTells ==
    ASSUME NEW low \in Byte, NEW high \in Byte, NEW index \in Byte
    PROVE  LET base == Word(low, high)
           IN /\ Crosses(base, index) <=> Low(Indexed(base, index)) < index
              /\ Crosses(base, index) => WrongPage(base, index) # Indexed(base, index)
              /\ WrongPage(base, index) \in Address /\ Indexed(base, index) \in Address
<1> DEFINE base == Word(low, high)
           sum == low + index
<1>0. /\ low \in Int /\ 0 <= low /\ low <= 255 /\ high \in Int /\ 0 <= high /\ high <= 255
      /\ index \in Int /\ 0 <= index /\ index <= 255
  BY ByteIsInt
<1>1. base \in Int /\ base = low + 256 * high /\ Low(base) = low /\ High(base) = high
  BY <1>0 DEF Word, Low, High
<1>2. base + index = sum + 256 * high /\ sum \in Int /\ 0 <= sum /\ sum <= 510
  BY <1>0, <1>1
<1>3. Crosses(base, index) <=> sum >= 256
  BY <1>1 DEF Crosses
<1>4. WrongPage(base, index) = (sum % 256) + 256 * high
  BY <1>1 DEF WrongPage, Word
<1>5. Indexed(base, index) = (sum + 256 * high) % 65536
  BY <1>2 DEF Indexed, Wrapped
<1>6. WrongPage(base, index) \in Address /\ Indexed(base, index) \in Address
  <2>1. sum % 256 \in Byte
    BY <1>2, ByteTyped
  <2>2. (sum % 256) + 256 * high \in Address
    BY <2>1, WordTyped DEF Word
  <2>3. sum + 256 * high \in Int
    BY <1>0, <1>2
  <2> QED
    BY <1>2, <1>4, <2>2, <2>3, WrapTyped DEF Indexed
<1> DEFINE ind == Indexed(base, index)
           wrong == WrongPage(base, index)
<1> HIDE DEF ind, wrong, sum
<1>7. ind = (sum + 256 * high) % 65536 /\ wrong = (sum % 256) + 256 * high
  BY <1>4, <1>5 DEF ind, wrong
<1>8. ind % 256 = sum % 256
  BY <1>0, <1>2, <1>7
<1>9. sum >= 256 <=> sum % 256 < index
  BY <1>0, <1>2 DEF sum
<1>10. Crosses(base, index) <=> Low(ind) < index
  BY <1>3, <1>8, <1>9 DEF Low
<1>11. ASSUME sum >= 256 PROVE wrong # ind
  BY <1>0, <1>2, <1>7, <1>11
<1> QED
  BY <1>3, <1>6, <1>10, <1>11 DEF ind, wrong

(* The pieces modes are made of. *)
LEMMA PiecesFetch ==
    ASSUME Inv, NEW m, NEW a \in Address, NEW n \in 1..2, NEW v \in Byte
    PROVE  LET R == Readable(m, a, Wrapped(state.pc + n))
           IN /\ Fetches(Operand(0, v), 1, R)
              /\ n = 2 => Fetches(Operand(1, v), 1, R)
              /\ \A z \in Byte : /\ Fetches(Pointer(z, v), 1, R)
                                 /\ Fetches(<<Read(z, Ignored), Cycle>>, 1, R)
<1> DEFINE pc == Wrapped(state.pc + n)
           R == Readable(m, a, pc)
<1>1. state.pc \in Address
  BY RegistersTyped DEF Inv, TypeInv
<1>2. ASSUME NEW i \in {0, 1}, n - i \in 1..3 PROVE Fetches(Operand(i, v), 1, R)
  <2> DEFINE at == Wrapped(state.pc + i)
  <2>1. at \in Behind(pc) /\ at \in Address
    BY <1>1, <1>2, OperandBehind
  <2> HIDE DEF at, pc
  <2>2. at \in R
    BY <2>1, ReadableThere
  <2> HIDE DEF R
  <2>3. Fetches(<<Read(at, v), Cycle>>, 1, R)
    BY <2>1, <2>2, FetchesPieces
  <2> QED
    BY <2>3 DEF Operand, at
<1>3. ASSUME NEW z \in Byte, NEW w \in Byte
      PROVE  Fetches(<<Read(z, w), Cycle>>, 1, R)
  <2> HIDE DEF pc
  <2>1. z \in R /\ z \in Address
    BY ReadableThere, ByteIsAddress
  <2> HIDE DEF R
  <2> QED
    BY <2>1, FetchesPieces
<1>4. n - 0 \in 1..3 /\ (n = 2 => n - 1 \in 1..3)
  OBVIOUS
<1>5. Ignored \in Byte
  BY AccessTyped
<1> HIDE DEF R
<1>6. /\ Fetches(Operand(0, v), 1, R)
      /\ n = 2 => Fetches(Operand(1, v), 1, R)
  BY <1>2, <1>4
<1>7. \A z \in Byte : Fetches(Pointer(z, v), 1, R) /\ Fetches(<<Read(z, Ignored), Cycle>>, 1, R)
  BY <1>3, <1>5 DEF Pointer
<1> QED
  BY <1>6, <1>7 DEF R, pc

LEMMA AddressedForms ==
    ASSUME Inv, Opened, NEW a \in Address, NEW n \in 0..2, NEW s, NEW k \in Nat,
           Addressed(a, n, s),
           Fetches(s, k, Readable(mode, a, Wrapped(state.pc + n))),
           mode \in TimedModes => k + 1 = CyclesOfMode(mode, a, state.x, state.y),
           mode = "imm" => Wrapped(state.pc + n) = Wrapped(a + 1)
    PROVE  Formed'
<1> DEFINE pc == Wrapped(state.pc + n)
           R == Readable(mode, a, pc)
           first == Wrapped(state.pc - 1)
<1>1. /\ mode' = mode /\ addr' = a /\ trace' = trace \o s
      /\ state' = [state EXCEPT !.pc = pc]
  BY DEF Addressed, mode
<1>2. state'.pc = pc /\ state'.x = state.x /\ state'.y = state.y
  BY <1>1 DEF Inv, TypeInv, StateOK, Regs
<1>3. state.pc \in Address /\ opcode \in Byte
  BY RegistersTyped DEF Inv, TypeInv
<1>4. first \in Behind(pc) /\ first \in Address
  <2>1. -1 \in Int /\ n - (-1) \in 1..3 /\ n \in Int
    OBVIOUS
  <2>2. Wrapped(state.pc + (-1)) \in Behind(pc) /\ Wrapped(state.pc + (-1)) \in Address
    BY <1>3, <2>1, OperandBehind
  <2>3. state.pc + (-1) = state.pc - 1
    BY <1>3, AddressIsInt
  <2> QED
    BY <2>2, <2>3
<1> HIDE DEF pc, first
<1>5. first \in R
  BY <1>4, ReadableThere
<1> HIDE DEF R
<1>6. Fetches(trace, 1, R)
  BY <1>3, <1>4, <1>5, FetchesPieces DEF Opened, first
<1>7. Fetches(trace', 1 + k, R)
  <2>1. Fetches(s, k, R)
    BY DEF R, pc
  <2> QED
    BY <1>1, <1>6, <2>1, FetchesJoin
<1>8. R = Readable(mode', addr', state'.pc)
  BY <1>1, <1>2 DEF R
<1>9. 1 + k \in Nat /\ 1 + k = k + 1
  OBVIOUS
<1>10. mode' \in TimedModes => 1 + k = CyclesOfMode(mode', addr', state'.x, state'.y)
  BY <1>1, <1>2, <1>9
<1>11. mode' = "imm" => state'.pc = Wrapped(addr' + 1)
  BY <1>1, <1>2 DEF pc
<1>12. \E i \in Nat : /\ Fetches(trace', i, Readable(mode', addr', state'.pc))
                      /\ mode' \in TimedModes
                            => i = CyclesOfMode(mode', addr', state'.x, state'.y)
  BY <1>7, <1>8, <1>9, <1>10
<1> QED
  BY <1>11, <1>12 DEF Formed

(* The last piece of an indexed mode: a read in the wrong page, if there is one. *)
LEMMA DummyFetches ==
    ASSUME NEW m, NEW pc, NEW low \in Byte, NEW high \in Byte, NEW index \in Byte,
           NEW late \in BOOLEAN, Crosses(Word(low, high), index) \/ m \in WritingModes \/ ~late
    PROVE  LET base == Word(low, high)
           IN Fetches(IF late THEN DummyRead(base, index) ELSE <<>>, IF late THEN 1 ELSE 0,
                      Readable(m, Indexed(base, index), pc))
<1> DEFINE base == Word(low, high)
           at == WrongPage(base, index)
           a == Indexed(base, index)
           R == Readable(m, a, pc)
<1>1. /\ Crosses(base, index) => at # a
      /\ at \in Address
  BY CrossingTells
<1> HIDE DEF base, at, a
<1>2. late => at \in R
  BY <1>1, ReadableThere DEF base
<1> HIDE DEF R
<1>3. late => Fetches(<<Read(at, Ignored), Cycle>>, 1, R)
  BY <1>1, <1>2, FetchesPieces, AccessTyped
<1>4. Fetches(<<>>, 0, R)
  BY FetchesPieces
<1>5. DummyRead(base, index) = <<Read(at, Ignored), Cycle>>
  BY DEF DummyRead, at
<1>6. CASE late
  BY <1>3, <1>5, <1>6 DEF base, R, a
<1>7. CASE ~late
  BY <1>4, <1>7 DEF base, R, a
<1> QED
  BY <1>6, <1>7

LEMMA AddressModeForms ==
    ASSUME Inv, Opened, AddressMode
    PROVE  Formed'
<1>1. /\ Bytes \subseteq Byte /\ addr \in Address
      /\ state.x \in Byte /\ state.y \in Byte /\ state.pc \in Address
  BY AnswersTyped, RegistersTyped DEF Inv, TypeInv
<1> DEFINE R(a, n) == Readable(mode, a, Wrapped(state.pc + n))
           C(a) == CyclesOfMode(mode, a, state.x, state.y)
<1>2. ASSUME NEW a \in Address, NEW n \in 0..2, NEW s, NEW k \in Nat, Addressed(a, n, s),
             Fetches(s, k, R(a, n)), mode \in TimedModes => k + 1 = C(a), mode # "imm"
      PROVE  Formed'
  BY <1>2, AddressedForms
<1>3. /\ 0 \in 0..2 /\ 1 \in 0..2 /\ 2 \in 0..2 /\ 1 \in 1..2 /\ 2 \in 1..2
      /\ 0 \in Nat /\ 1 \in Nat /\ 2 \in Nat /\ 3 \in Nat /\ 4 \in Nat
  OBVIOUS
<1>4. ASSUME NEW a \in Address, NEW n \in 1..2, NEW v \in Byte, NEW z \in Byte
      PROVE  /\ Fetches(Operand(0, v), 1, R(a, n))
             /\ n = 2 => Fetches(Operand(1, v), 1, R(a, n))
             /\ Fetches(Pointer(z, v), 1, R(a, n))
             /\ Fetches(<<Read(z, Ignored), Cycle>>, 1, R(a, n))
  BY PiecesFetch
<1>5. ASSUME NEW a \in Address, NEW v \in Byte, NEW w \in Byte
      PROVE  Fetches(Operand(0, v) \o Operand(1, w), 2, R(a, 2))
  <2>1. Fetches(Operand(0, v), 1, R(a, 2)) /\ Fetches(Operand(1, w), 1, R(a, 2))
    BY <1>3, <1>4
  <2> HIDE DEF R
  <2> QED
    BY <2>1, FetchesJoin
<1>6. ASSUME NEW a \in Address, NEW zero \in Byte, NEW at \in Byte, NEW low \in Byte,
             NEW high \in Byte, NEW s, NEW n \in Nat, Fetches(s, n, R(a, 1))
      PROVE  Fetches(s \o Pointer(at, low) \o Pointer(NextZero(at), high), n + 2, R(a, 1))
  <2>1. NextZero(at) \in Byte
    BY ByteIsInt, ByteTyped DEF NextZero
  <2>2. Fetches(Pointer(at, low), 1, R(a, 1)) /\ Fetches(Pointer(NextZero(at), high), 1, R(a, 1))
    BY <1>3, <1>4, <2>1
  <2> HIDE DEF R
  <2>3. Fetches(s \o Pointer(at, low), n + 1, R(a, 1))
    BY <1>6, <2>2, FetchesJoin
  <2>4. Fetches(s \o Pointer(at, low) \o Pointer(NextZero(at), high), (n + 1) + 1, R(a, 1))
    BY <2>2, <2>3, FetchesJoin
  <2> QED
    BY <2>4
<1>7. ASSUME NEW v \in Byte, NEW w \in Byte PROVE Word(v, w) \in Address /\ v \in Address
  BY ByteIsAddress, WordTyped
<1>8. ASSUME Implied PROVE Formed'
  <2> DEFINE s == IF mode = "impl" THEN <<Cycle>> ELSE <<>>
             k == IF mode = "impl" THEN 1 ELSE 0
  <2>1. mode \in {"impl", "none"} /\ Addressed(addr, 0, s)
    BY <1>8 DEF Implied
  <2>2. Fetches(s, k, R(addr, 0)) /\ k \in Nat
    BY FetchesPieces
  <2>3. mode \in TimedModes => k + 1 = C(addr)
    BY <2>1 DEF TimedModes, LoadModes, StoreModes, CyclesOfMode
  <2>4. mode # "imm"
    BY <2>1
  <2> HIDE DEF s, k, R, C
  <2> QED
    BY <1>1, <1>2, <1>3, <2>1, <2>2, <2>3, <2>4
<1>9. ASSUME Immediate PROVE Formed'
  <2>1. mode = "imm" /\ Addressed(state.pc, 1, <<>>)
    BY <1>9 DEF Immediate
  <2>2. Fetches(<<>>, 0, R(state.pc, 1))
    BY FetchesPieces
  <2>3. 0 + 1 = C(state.pc)
    BY <2>1 DEF CyclesOfMode
  <2> HIDE DEF C
  <2> QED
    BY <1>1, <1>3, <2>1, <2>2, <2>3, AddressedForms DEF C
<1>10. ASSUME ZeroPage PROVE Formed'
  <2>1. PICK zero \in Byte : mode = "zp" /\ Addressed(zero, 1, Operand(0, zero))
    BY <1>1, <1>10 DEF ZeroPage
  <2>2. 1 + 1 = C(zero)
    BY <2>1 DEF CyclesOfMode
  <2>3. Fetches(Operand(0, zero), 1, R(zero, 1)) /\ zero \in Address
    BY <1>3, <1>4, <1>7
  <2> HIDE DEF R, C
  <2> QED
    BY <1>2, <1>3, <2>1, <2>2, <2>3
<1>11. ASSUME ZeroPageIndexed PROVE Formed'
  <2> DEFINE index == IF mode = "zpx" THEN state.x ELSE state.y
             dummy(zero) == <<Read(zero, Ignored), Cycle>>
             at(zero) == (zero + index) % 256
  <2>1. index \in Byte
    BY <1>1
  <2>2. PICK zero \in Byte : /\ mode \in {"zpx", "zpy"}
                             /\ Addressed(at(zero), 1, Operand(0, zero) \o dummy(zero))
    BY <1>1, <1>11 DEF ZeroPageIndexed
  <2>3. at(zero) \in Address
    <3>1. zero + index \in Int
      BY <2>1, ByteIsInt
    <3> QED
      BY <3>1, ByteTyped, ByteIsAddress
  <2>4. PICK a \in Address : a = at(zero)
    BY <2>3
  <2> HIDE DEF at, index
  <2>5. 2 + 1 = C(a)
    BY <2>2 DEF CyclesOfMode
  <2>6. Fetches(Operand(0, zero), 1, R(a, 1)) /\ Fetches(dummy(zero), 1, R(a, 1))
    BY <1>3, <1>4
  <2> HIDE DEF R, C, dummy
  <2>7. Fetches(Operand(0, zero) \o dummy(zero), 1 + 1, R(a, 1))
    BY <2>6, FetchesJoin
  <2>8. 1 + 1 = 2 /\ mode # "imm"
    BY <2>2
  <2> QED
    BY <1>2, <1>3, <2>2, <2>4, <2>5, <2>7, <2>8
<1>12. ASSUME Absolute PROVE Formed'
  <2>1. PICK low \in Byte, high \in Byte :
            /\ Addressed(Word(low, high), 2, Operand(0, low) \o Operand(1, high))
            /\ mode \in {"abs", "ind"}
    BY <1>1, <1>12 DEF Absolute
  <2>2. PICK a \in Address : a = Word(low, high)
    BY <1>7
  <2>3. 2 + 1 = C(a) /\ mode # "imm"
    BY <2>1 DEF CyclesOfMode
  <2> HIDE DEF R, C
  <2> QED
    BY <1>2, <1>3, <1>5, <2>1, <2>2, <2>3
<1>13. ASSUME AbsoluteIndexed PROVE Formed'
  <2> DEFINE index == IF mode \in {"abx", "abxW"} THEN state.x ELSE state.y
             late(base) == Crosses(base, index) \/ mode \in {"abxW", "abyW"}
             dummy(base) == IF late(base) THEN DummyRead(base, index) ELSE <<>>
  <2>1. index \in Byte
    BY <1>1
  <2>2. PICK low \in Byte, high \in Byte :
            /\ Addressed(Indexed(Word(low, high), index), 2,
                   Operand(0, low) \o Operand(1, high) \o dummy(Word(low, high)))
            /\ mode \in {"abx", "aby", "abxW", "abyW"}
    BY <1>1, <1>13 DEF AbsoluteIndexed
  <2>3. PICK i \in Byte : i = index
    BY <2>1
  <2>4. PICK base \in Address : base = Word(low, high)
    BY <1>7
  <2>5. PICK a \in Address : a = Indexed(base, i)
    BY <2>4, CrossingTells
  <2>6. Crosses(base, i) <=> Low(a) < i
    BY <2>4, <2>5, CrossingTells
  <2>7. PICK l \in BOOLEAN : l <=> late(base)
    BY DEF Crosses
  <2> DEFINE k == IF l THEN 1 ELSE 0
  <2>8. k \in Nat /\ 2 + k \in Nat /\ (2 + k) + 1 = C(a) /\ mode # "imm"
    BY <2>2, <2>3, <2>6, <2>7 DEF CyclesOfMode
  <2>9. Crosses(base, i) \/ mode \in WritingModes \/ ~l
    BY <2>3, <2>7 DEF WritingModes
  <2>10. dummy(base) = IF l THEN DummyRead(base, i) ELSE <<>>
    BY <2>3, <2>7
  <2> HIDE DEF late, index, dummy, k
  <2>11. Fetches(dummy(base), k, R(a, 2))
    BY <2>4, <2>5, <2>9, <2>10, DummyFetches DEF k
  <2>12. Fetches(Operand(0, low) \o Operand(1, high), 2, R(a, 2))
    BY <1>5
  <2> HIDE DEF R, C
  <2>13. Fetches(Operand(0, low) \o Operand(1, high) \o dummy(base), 2 + k, R(a, 2))
    BY <2>11, <2>12, FetchesJoin
  <2> QED
    BY <1>2, <1>3, <2>2, <2>3, <2>4, <2>5, <2>8, <2>13
<1>14. ASSUME BusConflictInvalid PROVE Formed'
  <2> DEFINE late(base) == Crosses(base, state.x)
             dummy(base) == IF late(base) THEN DummyRead(base, state.x) ELSE <<>>
  <2>1. PICK low \in Byte, high \in Byte :
            /\ Addressed(Word(low, high), 2,
                   Operand(0, low) \o Operand(1, high) \o dummy(Word(low, high)))
            /\ mode = "bus"
    BY <1>1, <1>14 DEF BusConflictInvalid
  <2>2. PICK a \in Address : a = Word(low, high)
    BY <1>7
  <2>3. PICK l \in BOOLEAN : l <=> late(a)
    BY DEF Crosses
  <2> DEFINE k == IF l THEN 1 ELSE 0
             all == Readable(mode, Indexed(a, state.x), Wrapped(state.pc + 2))
  <2>4. mode \in WritingModes /\ mode \notin TimedModes /\ mode # "imm" /\ k \in Nat /\ 2 + k \in Nat
    BY <2>1 DEF WritingModes, TimedModes, LoadModes, StoreModes
  <2>5. all = R(a, 2)
    BY <2>4 DEF Readable
  <2>6. dummy(a) = IF l THEN DummyRead(a, state.x) ELSE <<>>
    BY <2>3
  <2> HIDE DEF late, dummy, k, all
  <2>7. Fetches(dummy(a), k, all)
    BY <1>1, <2>2, <2>4, <2>6, DummyFetches DEF k, all
  <2>8. Fetches(Operand(0, low) \o Operand(1, high), 2, R(a, 2))
    BY <1>5
  <2> HIDE DEF R, C
  <2>9. Fetches(Operand(0, low) \o Operand(1, high) \o dummy(a), 2 + k, R(a, 2))
    BY <2>5, <2>7, <2>8, FetchesJoin
  <2> QED
    BY <1>2, <1>3, <2>1, <2>2, <2>4, <2>9
<1>15. ASSUME IndZeroX PROVE Formed'
  <2> DEFINE at(zero) == (zero + state.x) % 256
             dummy(zero) == <<Read(zero, Ignored), Cycle>>
  <2>1. PICK zero \in Byte, low \in Byte, high \in Byte :
            /\ Addressed(Word(low, high), 1,
                   Operand(0, zero) \o dummy(zero)
                   \o Pointer(at(zero), low) \o Pointer(NextZero(at(zero)), high))
            /\ mode = "izx"
    BY <1>1, <1>15 DEF IndZeroX
  <2>2. at(zero) \in Byte
    <3>1. zero + state.x \in Int
      BY <1>1, ByteIsInt
    <3> QED
      BY <3>1, ByteTyped
  <2>3. PICK a \in Address : a = Word(low, high)
    BY <1>7
  <2>4. 4 + 1 = C(a) /\ mode # "imm"
    BY <2>1 DEF CyclesOfMode
  <2>5. Fetches(Operand(0, zero), 1, R(a, 1)) /\ Fetches(dummy(zero), 1, R(a, 1))
    BY <1>3, <1>4
  <2> HIDE DEF at, dummy, R, C
  <2>6. Fetches(Operand(0, zero) \o dummy(zero), 1 + 1, R(a, 1))
    BY <2>5, FetchesJoin
  <2>7. 1 + 1 = 2 /\ 2 + 2 = 4
    OBVIOUS
  <2>8. Fetches(Operand(0, zero) \o dummy(zero)
                \o Pointer(at(zero), low) \o Pointer(NextZero(at(zero)), high), 4, R(a, 1))
    BY <1>3, <1>6, <2>2, <2>6, <2>7
  <2> QED
    BY <1>2, <1>3, <2>1, <2>3, <2>4, <2>8
<1>16. ASSUME NEW zero \in Byte, NEW low \in Byte, NEW high \in Byte, NEW a \in Address
       PROVE  Fetches(Operand(0, zero) \o Pointer(zero, low) \o Pointer(NextZero(zero), high),
                      3, R(a, 1))
  <2>1. Fetches(Operand(0, zero), 1, R(a, 1))
    BY <1>3, <1>4
  <2>2. 1 + 2 = 3
    OBVIOUS
  <2> HIDE DEF R
  <2> QED
    BY <1>3, <1>6, <2>1, <2>2
<1>17. ASSUME IndZeroY PROVE Formed'
  <2> DEFINE late(base) == Crosses(base, state.y) \/ mode = "izyW"
             dummy(base) == IF late(base) THEN DummyRead(base, state.y) ELSE <<>>
  <2>1. PICK zero \in Byte, low \in Byte, high \in Byte :
            /\ Addressed(Indexed(Word(low, high), state.y), 1,
                   Operand(0, zero) \o Pointer(zero, low) \o Pointer(NextZero(zero), high)
                   \o dummy(Word(low, high)))
            /\ mode \in {"izy", "izyW"}
    BY <1>1, <1>17 DEF IndZeroY
  <2>2. PICK base \in Address : base = Word(low, high)
    BY <1>7
  <2>3. PICK a \in Address : a = Indexed(base, state.y)
    BY <1>1, <2>2, CrossingTells
  <2>4. Crosses(base, state.y) <=> Low(a) < state.y
    BY <1>1, <2>2, <2>3, CrossingTells
  <2>5. PICK l \in BOOLEAN : l <=> late(base)
    BY DEF Crosses
  <2> DEFINE k == IF l THEN 1 ELSE 0
  <2>6. k \in Nat /\ 3 + k \in Nat /\ (3 + k) + 1 = C(a) /\ mode # "imm"
    BY <2>1, <2>4, <2>5 DEF CyclesOfMode
  <2>7. Crosses(base, state.y) \/ mode \in WritingModes \/ ~l
    BY <2>5 DEF WritingModes
  <2>8. dummy(base) = IF l THEN DummyRead(base, state.y) ELSE <<>>
    BY <2>5
  <2> HIDE DEF late, dummy, k
  <2>9. Fetches(dummy(base), k, R(a, 1))
    BY <1>1, <2>2, <2>3, <2>7, <2>8, DummyFetches DEF k
  <2>10. Fetches(Operand(0, zero) \o Pointer(zero, low) \o Pointer(NextZero(zero), high),
                 3, R(a, 1))
    BY <1>16
  <2> HIDE DEF R, C
  <2>11. Fetches(Operand(0, zero) \o Pointer(zero, low) \o Pointer(NextZero(zero), high)
                 \o dummy(base), 3 + k, R(a, 1))
    BY <2>9, <2>10, FetchesJoin
  <2> QED
    BY <1>2, <1>3, <2>1, <2>2, <2>3, <2>6, <2>11
<1>18. ASSUME IndirectZP PROVE Formed'
  <2>1. PICK zero \in Byte, low \in Byte, high \in Byte :
            /\ Addressed(Word(low, high), 1,
                   Operand(0, zero) \o Pointer(zero, low) \o Pointer(NextZero(zero), high))
            /\ mode = "izp"
    BY <1>1, <1>18 DEF IndirectZP
  <2>2. PICK a \in Address : a = Word(low, high)
    BY <1>7
  <2>3. 3 + 1 = C(a) /\ mode # "imm"
    BY <2>1 DEF CyclesOfMode
  <2> HIDE DEF R, C
  <2> QED
    BY <1>2, <1>3, <1>16, <2>1, <2>2, <2>3
<1>19. ASSUME BitRelative PROVE Formed'
  <2>1. PICK zero \in Byte, disp \in Byte :
            Addressed(zero, 2, Operand(0, zero) \o Operand(1, disp)) /\ mode = "bitrel"
    BY <1>1, <1>19 DEF BitRelative
  <2>2. mode \notin TimedModes /\ mode # "imm" /\ zero \in Address
    BY <1>7, <2>1 DEF TimedModes, LoadModes, StoreModes
  <2> HIDE DEF R, C
  <2> QED
    BY <1>2, <1>3, <1>5, <2>1, <2>2
<1> QED
  BY <1>8, <1>9, <1>10, <1>11, <1>12, <1>13, <1>14, <1>15, <1>17, <1>18, <1>19 DEF AddressMode

LEMMA FetchOpens ==
    ASSUME Inv, Fetch
    PROVE  Opened'
<1> DEFINE next == Wrapped(state.pc + 1)
<1>1. state' = [state EXCEPT !.pc = next] /\ state.pc \in Address
  BY RegistersTyped DEF Fetch, Inv, TypeInv
<1>2. state'.pc = next
  BY <1>1 DEF Inv, TypeInv, StateOK, Regs
<1>3. Wrapped(state'.pc - 1) = state.pc
  <2>1. state.pc \in Int /\ 1 \in Int /\ state.pc + 1 \in Int /\ (state.pc + 1) - 1 = state.pc
    BY <1>1, AddressIsInt
  <2>2. Wrapped(next - 1) = Wrapped(state.pc)
    BY <2>1, WrapTwice
  <2>3. Wrapped(state.pc) = state.pc
    BY <1>1, AddressIsInt DEF Wrapped
  <2> QED
    BY <1>2, <2>2, <2>3
<1>4. trace' = <<Read(state.pc, opcode'), Cycle>>
  BY DEF Fetch
<1> QED
  BY <1>3, <1>4 DEF Opened

-----------------------------------------------------------------------------
(***************************************************************************)
(* What the shapes of a handler show at the end of the instruction.        *)
(***************************************************************************)
(* An instruction whose address has been formed, of a handler in a mode the table gives it. *)
Ready == Inv /\ phase = "execute" /\ Formed /\ Fits(handler, mode)

Shows == TimingTable' /\ EffectiveAccesses'

(* n is what the fetch and the mode have taken. *)
Took(n) ==
    /\ n \in Nat /\ Fetches(trace, n, Readable(mode, addr, state.pc))
    /\ mode \in TimedModes => n = CyclesOfMode(mode, addr, state.x, state.y)

LEMMA ReadyTook ==
    ASSUME Ready
    PROVE  /\ \E n : Took(n)
           /\ trace \in Seq(Accesses) /\ addr \in Address /\ StateOK(state)
BY DEF Ready, Formed, Took, Inv, TypeInv

LEMMA ExecutedSame ==
    ASSUME NEW s, Executed(s)
    PROVE  handler' = handler /\ mode' = mode /\ addr' = addr /\ trace' = trace \o s
BY DEF Executed, handler, mode

(* Which handlers the two properties are about. *)
LEMMA Classes ==
    /\ Loads \cap (Stores \cup Modifies \cup Branches \cup DOMAIN CyclesOfOther) = {}
    /\ Stores \cap (Modifies \cup Branches \cup DOMAIN CyclesOfOther) = {}
    /\ Modifies \cap (Branches \cup DOMAIN CyclesOfOther) = {}
    /\ Branches \cap DOMAIN CyclesOfOther = {}
    /\ DOMAIN CyclesOfOther = OnStack \cup {"jsr", "jmp", "ind_jmp"}
    /\ "impl" \notin LoadModes \cup StoreModes \cup ModifyModes
BY DEF Loads, Stores, Modifies, Branches, CyclesOfOther, OnStack, LoadModes, StoreModes,
       ModifyModes

LEMMA CyclesCount ==
    ASSUME NEW n, Took(n), NEW s \in Seq(Accesses), trace' = trace \o s
    PROVE  Cycles' = n + Count(s) /\ Count(s) \in Nat /\ trace' \in Seq(Accesses)
<1>1. trace \in Seq(Accesses) /\ Count(trace) = n
  BY DEF Took, Fetches
<1>2. Count(trace \o s) = n + Count(s)
  BY <1>1, CountJoins
<1>3. Cycles' = Count(trace')
  BY DEF Cycles, Count
<1> QED
  BY <1>1, <1>2, <1>3, MarksFinite, CountJoins

LEMMA LoadCycles ==
    ASSUME NEW n, Took(n), mode \in LoadModes, mode' = mode, addr' = addr,
           mode = "abx" => state'.x = state.x,
           mode \in {"aby", "izy"} => state'.y = state.y
    PROVE  CyclesOfLoad'[mode'] = n + 1
<1>1. mode \in TimedModes
  BY DEF TimedModes
<1>2. n = CyclesOfMode(mode, addr, state.x, state.y)
  BY <1>1 DEF Took
<1>3. PICK m \in LoadModes : m = mode
  OBVIOUS
<1>4. n = CyclesOfMode(m, addr, state.x, state.y)
  BY <1>2, <1>3
<1>5. CyclesOfLoad'[mode'] = CyclesOfLoad'[m]
  BY <1>3
<1>6. CASE m = "abx"
  <2>1. n = IF Low(addr) < state.x THEN 4 ELSE 3
    BY <1>4, <1>6 DEF CyclesOfMode
  <2>2. CyclesOfLoad'[m] = IF Low(addr) < state.x THEN 5 ELSE 4
    BY <1>3, <1>6 DEF CyclesOfLoad
  <2> QED
    BY <1>5, <2>1, <2>2
<1>7. CASE m = "aby"
  <2>1. n = IF Low(addr) < state.y THEN 4 ELSE 3
    BY <1>4, <1>7 DEF CyclesOfMode
  <2>2. CyclesOfLoad'[m] = IF Low(addr) < state.y THEN 5 ELSE 4
    BY <1>3, <1>7 DEF CyclesOfLoad
  <2> QED
    BY <1>5, <2>1, <2>2
<1>8. CASE m = "izy"
  <2>1. n = IF Low(addr) < state.y THEN 5 ELSE 4
    BY <1>4, <1>8 DEF CyclesOfMode
  <2>2. CyclesOfLoad'[m] = IF Low(addr) < state.y THEN 6 ELSE 5
    BY <1>3, <1>8 DEF CyclesOfLoad
  <2> QED
    BY <1>5, <2>1, <2>2
<1>9. CASE m \in {"imm", "zp", "zpx", "zpy", "abs", "izx", "izp"}
  BY <1>4, <1>5, <1>9 DEF CyclesOfMode, CyclesOfLoad
<1> QED
  BY <1>3, <1>6, <1>7, <1>8, <1>9 DEF LoadModes

(* The positions of the new accesses of trace'. *)
LEMMA Extended ==
    ASSUME trace \in Seq(Accesses), NEW s \in Seq(Accesses), trace' = trace \o s
    PROVE  /\ Len(trace) \in Nat /\ Len(trace') = Len(trace) + Len(s)
           /\ \A i \in 1..Len(trace) : trace'[i] = trace[i]
           /\ \A i \in 1..Len(s) : trace'[Len(trace) + i] = s[i]
           /\ \A i \in 1..Len(trace') :
                 i \in 1..Len(trace) \/ \E j \in 1..Len(s) : i = Len(trace) + j
<1> DEFINE n == Len(trace)
<1>1. n \in Nat /\ Len(s) \in Nat /\ Len(trace') = n + Len(s)
  BY Concatenation
<1>2. \A i \in 1..(n + Len(s)) : trace'[i] = IF i <= n THEN trace[i] ELSE s[i - n]
  BY Concatenation
<1>3. \A i \in 1..Len(s) : trace'[n + i] = s[i]
  BY Appended
<1> HIDE DEF n
<1>4. \A i \in 1..n : trace'[i] = trace[i]
  BY <1>1, <1>2
<1>5. ASSUME NEW i \in 1..(n + Len(s)) PROVE i \in 1..n \/ \E j \in 1..Len(s) : i = n + j
  <2>1. CASE i <= n
    BY <1>1, <2>1
  <2>2. CASE ~(i <= n)
    <3>1. i - n \in 1..Len(s) /\ i = n + (i - n)
      BY <1>1, <2>2
    <3> QED
      BY <3>1
  <2> QED
    BY <2>1, <2>2
<1> QED
  BY <1>1, <1>3, <1>4, <1>5 DEF n

LEMMA ReadShows ==
    ASSUME Ready, NEW name \in Loads \cup {"alr", "anc", "arr", "axs", "atx"}, NEW v \in Byte,
           Reads(name, v), state'.pc = state.pc,
           name \in Loads \ {"ldx", "lax"} => state'.x = state.x,
           name \in Loads \ {"ldy"} => state'.y = state.y
    PROVE  Shows
<1> DEFINE r == Read(addr, v)
           s == <<r, Cycle>>
<1>1. PICK n : Took(n)
  BY ReadyTook
<1>2. trace \in Seq(Accesses) /\ addr \in Address
  BY ReadyTook
<1>3. /\ handler = name /\ handler' = name /\ mode' = mode /\ addr' = addr /\ trace' = trace \o s
  BY ExecutedSame DEF Reads
<1>4. r \in Accesses /\ r # Cycle /\ r[1] = "read" /\ r[2] = addr /\ Cycle[1] = "cycle"
  BY <1>2, AccessTyped, Distinct
<1> HIDE DEF r
<1>5. s \in Seq(Accesses) /\ Len(s) = 2 /\ s[1] = r /\ s[2] = Cycle
  BY <1>4, AccessTyped
<1>6. Count(s) = 1
  BY <1>4, CountPieces
<1> HIDE DEF s
<1>7. Cycles' = n + 1
  BY <1>1, <1>3, <1>5, <1>6, CyclesCount
<1>8. Fits(name, mode)
  BY <1>3 DEF Ready
<1>9. name \in Loads => mode \in LoadModes /\ Cycles' = CyclesOfLoad'[mode']
  <2> SUFFICES ASSUME name \in Loads
               PROVE  mode \in LoadModes /\ Cycles' = CyclesOfLoad'[mode']
    OBVIOUS
  <2>1. /\ mode \in LoadModes
        /\ mode = "abx" => name \notin {"ldx", "lax"}
        /\ mode \in {"aby", "izy"} => name # "ldy"
    BY <1>8 DEF Fits
  <2>2. CyclesOfLoad'[mode'] = n + 1
    BY <1>1, <1>3, <2>1, LoadCycles
  <2> QED
    BY <1>7, <2>1, <2>2
<1>10. /\ name \notin Stores /\ name \notin Modifies /\ name \notin Branches
       /\ name \notin DOMAIN CyclesOfOther /\ mode # "impl"
  <2>1. CASE name \in Loads
    BY <1>9, <2>1, Classes
  <2>2. CASE name \in {"alr", "anc", "arr", "axs", "atx"}
    BY <1>8, <2>2 DEF Fits, Stores, Modifies, Branches, CyclesOfOther
  <2> QED
    BY <2>1, <2>2
<1>11. TimingTable'
  <2>1. (DOMAIN CyclesOfOther)' = DOMAIN CyclesOfOther
    BY DEF CyclesOfOther
  <2> QED
    BY <1>3, <1>9, <1>10, <2>1 DEF TimingTable
<1>12. /\ Len(trace) \in Nat /\ Len(trace') = Len(trace) + 2
       /\ \A i \in 1..Len(trace) : trace'[i] = trace[i]
       /\ trace'[Len(trace) + 1] = r /\ trace'[Len(trace) + 2] = Cycle
       /\ \A i \in 1..Len(trace') :
             i \in 1..Len(trace) \/ i = Len(trace) + 1 \/ i = Len(trace) + 2
  <2>1. \A j \in 1..Len(s) : j = 1 \/ j = 2
    BY <1>5
  <2>2. 1 \in 1..Len(s) /\ 2 \in 1..Len(s)
    BY <1>5
  <2> QED
    BY <1>2, <1>3, <1>5, <2>1, <2>2, Extended
<1>13. \A i \in 1..Len(trace) : trace[i][1] # "write"
  BY <1>1 DEF Took, Fetches
<1>14. WritesSeen' = {}
  <2>1. \A i \in 1..Len(trace') : trace'[i][1] # "write"
    BY <1>4, <1>12, <1>13
  <2> QED
    BY <2>1 DEF WritesSeen
<1>15. ASSUME name \in Loads, High(addr) # 0, ~InInstruction' PROVE Cardinality(ReadsSeen') = 1
  <2>1. addr \notin Behind(state.pc)
    BY <1>3, <1>15 DEF InInstruction, Behind
  <2>2. mode \notin WritingModes
    BY <1>9, <1>15 DEF LoadModes, WritingModes
  <2>3. addr \notin Readable(mode, addr, state.pc)
    BY <1>15, <2>1, <2>2 DEF Readable, Elsewhere
  <2>4. \A i \in 1..Len(trace) : ~(trace[i][1] = "read" /\ trace[i][2] = addr)
    BY <1>1, <2>3 DEF Took, Fetches
  <2>5. \A i \in 1..Len(trace') :
            trace'[i][1] = "read" /\ trace'[i][2] = addr <=> i = Len(trace) + 1
    BY <1>4, <1>12, <2>4
  <2>6. Len(trace) + 1 \in 1..Len(trace')
    BY <1>12
  <2>7. ReadsSeen' = {Len(trace) + 1}
    BY <1>3, <2>5, <2>6 DEF ReadsSeen
  <2> QED
    BY <2>7, FS_Singleton
<1>16. EffectiveAccesses'
  BY <1>3, <1>10, <1>14, <1>15 DEF EffectiveAccesses
<1> QED
  BY <1>11, <1>16 DEF Shows

LEMMA StoreShows ==
    ASSUME Ready, NEW name \in Stores, NEW v \in Byte, StoresAt(name, addr, v)
    PROVE  Shows
<1> DEFINE w == Write(addr, v)
           s == <<w, Cycle>>
<1>1. PICK n : Took(n)
  BY ReadyTook
<1>2. trace \in Seq(Accesses) /\ addr \in Address
  BY ReadyTook
<1>3. /\ handler = name /\ handler' = name /\ mode' = mode /\ addr' = addr /\ trace' = trace \o s
  BY ExecutedSame DEF StoresAt
<1>4. w \in Accesses /\ w # Cycle /\ w[1] = "write" /\ w[2] = addr /\ Cycle[1] = "cycle"
  BY <1>2, AccessTyped, Distinct
<1> HIDE DEF w
<1>5. s \in Seq(Accesses) /\ Len(s) = 2 /\ s[1] = w /\ s[2] = Cycle
  BY <1>4, AccessTyped
<1>6. Count(s) = 1
  BY <1>4, CountPieces
<1> HIDE DEF s
<1>7. Cycles' = n + 1
  BY <1>1, <1>3, <1>5, <1>6, CyclesCount
<1>8. mode \in StoreModes
  BY <1>3 DEF Ready, Fits
<1>9. /\ name \notin Loads /\ name \notin Modifies /\ name \notin Branches
      /\ name \notin DOMAIN CyclesOfOther /\ mode # "impl"
  BY <1>8, Classes
<1>10. mode \in DOMAIN CyclesOfStore /\ n + 1 = CyclesOfStore[mode]
  <2>1. n = CyclesOfMode(mode, addr, state.x, state.y)
    BY <1>1, <1>8 DEF Took, TimedModes
  <2> QED
    BY <1>8, <2>1 DEF StoreModes, CyclesOfMode, CyclesOfStore
<1>11. TimingTable'
  <2>1. (DOMAIN CyclesOfOther)' = DOMAIN CyclesOfOther
    BY DEF CyclesOfOther
  <2>2. CyclesOfStore' = CyclesOfStore
    BY DEF CyclesOfStore
  <2> QED
    BY <1>3, <1>7, <1>9, <1>10, <2>1, <2>2 DEF TimingTable
<1>12. /\ Len(trace) \in Nat /\ Len(trace') = Len(trace) + 2
       /\ \A i \in 1..Len(trace) : trace'[i] = trace[i]
       /\ trace'[Len(trace) + 1] = w /\ trace'[Len(trace) + 2] = Cycle
       /\ \A i \in 1..Len(trace') :
             i \in 1..Len(trace) \/ i = Len(trace) + 1 \/ i = Len(trace) + 2
  <2>1. \A j \in 1..Len(s) : j = 1 \/ j = 2
    BY <1>5
  <2>2. 1 \in 1..Len(s) /\ 2 \in 1..Len(s)
    BY <1>5
  <2> QED
    BY <1>2, <1>3, <1>5, <2>1, <2>2, Extended
<1>13. \A i \in 1..Len(trace) : trace[i][1] # "write"
  BY <1>1 DEF Took, Fetches
<1>14. WritesSeen' = {Len(trace) + 1}
  <2>1. \A i \in 1..Len(trace') : trace'[i][1] = "write" <=> i = Len(trace) + 1
    BY <1>4, <1>12, <1>13
  <2>2. Len(trace) + 1 \in 1..Len(trace')
    BY <1>12
  <2> QED
    BY <2>1, <2>2 DEF WritesSeen
<1>15. EffectiveAccesses'
  <2>1. trace'[Len(trace) + 1][2] = addr'
    BY <1>3, <1>4, <1>12
  <2> QED
    BY <1>3, <1>9, <1>14, <2>1 DEF EffectiveAccesses
<1> QED
  BY <1>11, <1>15 DEF Shows

LEMMA ThreeJoined ==
    ASSUME NEW p \in Seq(Accesses), NEW q \in Seq(Accesses), NEW r \in Seq(Accesses)
    PROVE  /\ p \o q \in Seq(Accesses) /\ Count(p \o q) = Count(p) + Count(q)
           /\ p \o q \o r \in Seq(Accesses)
           /\ Count(p \o q \o r) = Count(p) + Count(q) + Count(r)
<1>1. PICK u : u = p \o q
  OBVIOUS
<1>2. u \in Seq(Accesses) /\ Count(u) = Count(p) + Count(q)
  BY <1>1, CountJoins
<1>3. u \o r \in Seq(Accesses) /\ Count(u \o r) = Count(u) + Count(r)
  BY <1>2, CountJoins
<1> QED
  BY <1>1, <1>2, <1>3

LEMMA ModifyShows ==
    ASSUME Ready, NEW name \in Modifies, NEW v \in Byte, NEW new \in Byte,
           Modifying(name, v, new)
    PROVE  Shows
<1> DEFINE r == Read(addr, v)
           back == Write(addr, v)
           w == Write(addr, new)
           s == <<r, Cycle, back, Cycle, w, Cycle>>
           at == Len(trace)
<1>1. PICK n : Took(n)
  BY ReadyTook
<1>2. trace \in Seq(Accesses) /\ addr \in Address
  BY ReadyTook
<1>3. /\ handler = name /\ handler' = name /\ mode' = mode /\ addr' = addr /\ trace' = trace \o s
  BY ExecutedSame DEF Modifying
<1>4. /\ r \in Accesses /\ back \in Accesses /\ w \in Accesses
      /\ r # Cycle /\ back # Cycle /\ w # Cycle
      /\ r[1] = "read" /\ r[2] = addr /\ r[3] = v
      /\ back[1] = "write" /\ w[1] = "write" /\ w[2] = addr /\ Cycle[1] = "cycle"
  BY <1>2, AccessTyped, Distinct
<1>5. back = Write(addr, v)
  OBVIOUS
<1> HIDE DEF r, back, w
<1>6. /\ s \in Seq(Accesses) /\ Len(s) = 6
      /\ s[1] = r /\ s[2] = Cycle /\ s[3] = back /\ s[4] = Cycle /\ s[5] = w /\ s[6] = Cycle
  BY <1>4, AccessTyped
<1>7. Count(s) = 3
  <2> DEFINE p == <<r, Cycle>>
             q == <<back, Cycle>>
             t == <<w, Cycle>>
  <2>1. p \in Seq(Accesses) /\ q \in Seq(Accesses) /\ t \in Seq(Accesses)
    BY <1>4, AccessTyped
  <2>2. Count(p) = 1 /\ Count(q) = 1 /\ Count(t) = 1
    BY <1>4, CountPieces
  <2>3. s = (p \o q) \o t
    OBVIOUS
  <2> HIDE DEF p, q, t, s
  <2>4. Count(p \o q \o t) = Count(p) + Count(q) + Count(t)
    BY <2>1, ThreeJoined
  <2> QED
    BY <2>2, <2>3, <2>4
<1> HIDE DEF s
<1>8. Cycles' = n + 3
  BY <1>1, <1>3, <1>6, <1>7, CyclesCount
<1>9. mode \in ModifyModes
  BY <1>3 DEF Ready, Fits
<1>10. /\ name \notin Loads /\ name \notin Stores /\ name \notin Branches
       /\ name \notin DOMAIN CyclesOfOther /\ mode # "impl"
  BY <1>9, Classes
<1>11. mode \in DOMAIN CyclesOfModify /\ n + 3 = CyclesOfModify[mode]
  <2>1. mode \in TimedModes
    BY <1>9 DEF ModifyModes, TimedModes, LoadModes, StoreModes
  <2>2. n = CyclesOfMode(mode, addr, state.x, state.y)
    BY <1>1, <2>1 DEF Took
  <2> QED
    BY <1>9, <2>2 DEF ModifyModes, CyclesOfMode, CyclesOfModify
<1>12. TimingTable'
  <2>1. (DOMAIN CyclesOfOther)' = DOMAIN CyclesOfOther
    BY DEF CyclesOfOther
  <2>2. CyclesOfModify' = CyclesOfModify
    BY DEF CyclesOfModify
  <2> QED
    BY <1>3, <1>8, <1>10, <1>11, <2>1, <2>2 DEF TimingTable
<1>13. /\ at \in Nat /\ Len(trace') = at + 6
       /\ \A i \in 1..at : trace'[i] = trace[i]
       /\ trace'[at + 1] = r /\ trace'[at + 2] = Cycle /\ trace'[at + 3] = back
       /\ trace'[at + 4] = Cycle /\ trace'[at + 5] = w /\ trace'[at + 6] = Cycle
       /\ \A i \in 1..Len(trace') : i \in 1..at \/ \E j \in 1..6 : i = at + j
  <2>1. /\ 1 \in 1..Len(s) /\ 2 \in 1..Len(s) /\ 3 \in 1..Len(s)
        /\ 4 \in 1..Len(s) /\ 5 \in 1..Len(s) /\ 6 \in 1..Len(s)
    BY <1>6
  <2>2. trace' = trace \o s /\ s \in Seq(Accesses) /\ trace \in Seq(Accesses)
    BY <1>2, <1>3, <1>6
  <2> HIDE DEF at
  <2>3. /\ at \in Nat /\ Len(trace') = at + Len(s)
        /\ \A i \in 1..at : trace'[i] = trace[i]
        /\ \A i \in 1..Len(s) : trace'[at + i] = s[i]
        /\ \A i \in 1..Len(trace') : i \in 1..at \/ \E j \in 1..Len(s) : i = at + j
    BY <2>2, Extended DEF at
  <2>4. trace'[at + 1] = r /\ trace'[at + 2] = Cycle /\ trace'[at + 3] = back
    BY <1>6, <2>1, <2>3
  <2>5. trace'[at + 4] = Cycle /\ trace'[at + 5] = w /\ trace'[at + 6] = Cycle
    BY <1>6, <2>1, <2>3
  <2> QED
    BY <1>6, <2>3, <2>4, <2>5
<1> HIDE DEF at
<1>14. \A i \in 1..at : trace[i][1] # "write"
  BY <1>1 DEF Took, Fetches, at
<1>15. \A i \in 1..Len(trace') :
           i \in 1..at \/ i = at + 1 \/ i = at + 2 \/ i = at + 3 \/ i = at + 4
           \/ i = at + 5 \/ i = at + 6
  BY <1>13
<1>16. WritesSeen' = {at + 3, at + 5}
  <2>1. ASSUME NEW i \in 1..Len(trace'), trace'[i][1] = "write" PROVE i \in {at + 3, at + 5}
    BY <1>4, <1>13, <1>14, <1>15, <2>1
  <2>2. at + 3 \in 1..Len(trace') /\ at + 5 \in 1..Len(trace')
    BY <1>13
  <2>3. trace'[at + 3][1] = "write" /\ trace'[at + 5][1] = "write"
    BY <1>4, <1>13
  <2> QED
    BY <2>1, <2>2, <2>3 DEF WritesSeen
<1>17. at + 1 \in ReadsSeen' /\ \A k \in ReadsSeen' : k <= at + 1
  <2>1. at + 1 \in 1..Len(trace')
    BY <1>13
  <2>2. at + 1 \in ReadsSeen'
    BY <1>3, <1>4, <1>13, <2>1 DEF ReadsSeen
  <2>3. ASSUME NEW k \in ReadsSeen' PROVE k <= at + 1
    <3>1. k \in 1..Len(trace') /\ trace'[k][1] = "read"
      BY DEF ReadsSeen
    <3>2. k \in 1..at \/ k = at + 1
      BY <1>4, <1>13, <1>15, <3>1
    <3> QED
      BY <1>13, <3>2
  <2> QED
    BY <2>2, <2>3
<1>18. EffectiveAccesses'
  <2>1. at + 3 \in WritesSeen' /\ at + 5 \in WritesSeen'
    BY <1>16
  <2>2. at + 1 < at + 3 /\ at + 3 < at + 5
    BY <1>13
  <2>3. /\ trace'[at + 3] = Write(addr', trace'[at + 1][3])
        /\ trace'[at + 5][2] = addr'
    BY <1>3, <1>4, <1>5, <1>13
  <2>4. \E read \in ReadsSeen', i, j \in WritesSeen' :
            /\ read < i /\ i < j /\ WritesSeen' = {i, j}
            /\ \A k \in ReadsSeen' : k <= read
            /\ trace'[i] = Write(addr', trace'[read][3]) /\ trace'[j][2] = addr'
    BY <1>16, <1>17, <2>1, <2>2, <2>3
  <2> QED
    BY <1>3, <1>10, <2>4 DEF EffectiveAccesses
<1> QED
  BY <1>12, <1>18 DEF Shows

(* Handlers that have no operand in memory. *)
Idle(h) == h \notin Loads \cup Stores \cup Modifies \cup Branches \cup DOMAIN CyclesOfOther

LEMMA IdleShows ==
    ASSUME Ready, NEW s, Executed(s), Idle(handler), mode # "impl" \/ s = <<>>
    PROVE  Shows
<1>1. handler' = handler /\ mode' = mode /\ trace' = trace \o s
  BY ExecutedSame
<1>2. (DOMAIN CyclesOfOther)' = DOMAIN CyclesOfOther
  BY DEF CyclesOfOther
<1>3. EffectiveAccesses'
  BY <1>1 DEF EffectiveAccesses, Idle
<1>4. ASSUME mode = "impl" PROVE Cycles' = 2
  <2>1. PICK n : Took(n)
    BY ReadyTook
  <2>2. n = 2
    BY <1>4, <2>1 DEF Took, TimedModes, CyclesOfMode
  <2>3. s = <<>>
    BY <1>4
  <2>4. s \in Seq(Accesses) /\ Count(s) = 0
    BY <2>3, CountPieces
  <2>5. Cycles' = n + Count(s)
    BY <1>1, <2>1, <2>4, CyclesCount
  <2> QED
    BY <2>2, <2>4, <2>5
<1>5. TimingTable'
  BY <1>1, <1>2, <1>4 DEF TimingTable, Idle
<1> QED
  BY <1>3, <1>5 DEF Shows

(* The jumps and what works on the stack. *)
LEMMA OtherShows ==
    ASSUME handler' \in DOMAIN CyclesOfOther, Cycles' = CyclesOfOther[handler']
    PROVE  Shows
<1>1. (DOMAIN CyclesOfOther)' = DOMAIN CyclesOfOther /\ CyclesOfOther' = CyclesOfOther
  BY DEF CyclesOfOther
<1>2. handler' \notin Loads \cup Stores \cup Modifies \cup Branches
  BY Classes
<1> QED
  BY <1>1, <1>2 DEF Shows, TimingTable, EffectiveAccesses

LEMMA BranchShows ==
    ASSUME Ready, handler \in Branches, NEW disp \in Byte, NEW cond \in BOOLEAN,
           BranchOn(<<Read(addr, disp)>>, disp, cond)
    PROVE  Shows
<1> DEFINE target == Wrapped(state.pc + Signed(disp))
           far == IF cond /\ High(target) # High(state.pc) THEN <<Cycle>> ELSE <<>>
           taken == IF cond THEN <<Cycle>> ELSE <<>>
           r == Read(addr, disp)
           s == <<r>> \o <<Cycle>> \o far \o taken
           f == IF cond /\ High(target) # High(state.pc) THEN 1 ELSE 0
           t == IF cond THEN 1 ELSE 0
<1>1. PICK n : Took(n)
  BY ReadyTook
<1>2. trace \in Seq(Accesses) /\ addr \in Address /\ StateOK(state)
  BY ReadyTook
<1>3. /\ Executed(s)
      /\ state' = IF cond THEN [state EXCEPT !.pc = target] ELSE state
  BY DEF BranchOn
<1>4. handler' = handler /\ mode' = mode /\ addr' = addr /\ trace' = trace \o s
  BY <1>3, ExecutedSame
<1>5. state'.pc = IF cond THEN target ELSE state.pc
  BY <1>2, <1>3 DEF StateOK, Regs
<1>6. mode = "imm" /\ state.pc = Wrapped(addr + 1)
  BY DEF Ready, Fits, Formed
<1>7. n = 1
  BY <1>1, <1>6 DEF Took, TimedModes, LoadModes, CyclesOfMode
<1>8. far \in Seq(Accesses) /\ Count(far) = f /\ taken \in Seq(Accesses) /\ Count(taken) = t
  <2>1. <<>> \in Seq(Accesses) /\ <<Cycle>> \in Seq(Accesses)
    BY AccessTyped
  <2> QED
    BY <2>1, CountPieces
<1>9. r \in Accesses /\ r # Cycle
  BY <1>2, AccessTyped, Distinct
<1> HIDE DEF r
<1>10. /\ <<r>> \in Seq(Accesses) /\ <<Cycle>> \in Seq(Accesses)
       /\ Count(<<r>>) = 0 /\ Count(<<Cycle>>) = 1
  <2>1. Count(<<r>>) = 0
    BY <1>9, CountPieces
  <2>2. Count(<<Cycle>>) = 1
    BY CountPieces
  <2>3. Cycle \in Accesses
    BY AccessTyped
  <2> HIDE DEF target, far, taken
  <2>4. <<r>> \in Seq(Accesses) /\ <<Cycle>> \in Seq(Accesses)
    BY <1>9, <2>3
  <2> QED
    BY <2>1, <2>2, <2>4
<1> HIDE DEF target, far, taken
<1>11. <<r>> \o <<Cycle>> \in Seq(Accesses) /\ Count(<<r>> \o <<Cycle>>) = 1
  <2>1. PICK p \in Seq(Accesses) : p = <<r>>
    BY <1>10
  <2>2. PICK q \in Seq(Accesses) : q = <<Cycle>>
    BY <1>10
  <2>3. p \o q \in Seq(Accesses) /\ Count(p \o q) = Count(p) + Count(q)
    BY CountJoins
  <2>4. Count(p) = 0 /\ Count(q) = 1
    BY <1>10, <2>1, <2>2
  <2> QED
    BY <2>1, <2>2, <2>3, <2>4
<1>12. f \in {0, 1} /\ t \in {0, 1}
  OBVIOUS
<1> HIDE DEF f, t
<1>13. s \in Seq(Accesses) /\ Count(s) = 1 + f + t
  <2> DEFINE p == <<r>> \o <<Cycle>>
  <2> HIDE DEF p
  <2>1. p \in Seq(Accesses) /\ Count(p) = 1
    BY <1>11 DEF p
  <2>2. p \o far \in Seq(Accesses) /\ Count(p \o far) = 1 + f
    BY <1>8, <2>1, CountJoins
  <2>3. p \o far \o taken \in Seq(Accesses) /\ Count(p \o far \o taken) = 1 + f + t
    BY <1>8, <2>2, CountJoins
  <2> QED
    BY <2>3 DEF p
<1> HIDE DEF s
<1>14. Cycles' = 2 + f + t
  BY <1>1, <1>4, <1>7, <1>12, <1>13, CyclesCount
<1>15. /\ handler \notin Loads /\ handler \notin Stores /\ handler \notin Modifies
       /\ handler \notin DOMAIN CyclesOfOther
  BY Classes
<1>16. LET next == Wrapped(addr' + 1)
       IN IF state'.pc = next THEN Cycles' \in {2, 3}
          ELSE Cycles' = IF High(state'.pc) = High(next) THEN 3 ELSE 4
  <2> DEFINE next == Wrapped(addr' + 1)
  <2>1. next = state.pc
    BY <1>4, <1>6
  <2> HIDE DEF next
  <2>2. CASE ~cond
    <3>1. f = 0 /\ t = 0 /\ state'.pc = next
      BY <1>5, <2>1, <2>2 DEF f, t
    <3> QED
      BY <1>14, <3>1 DEF next
  <2>3. CASE cond /\ High(target) # High(state.pc)
    <3>1. f = 1 /\ t = 1 /\ state'.pc # next /\ High(state'.pc) # High(next)
      BY <1>5, <2>1, <2>3 DEF f, t
    <3> QED
      BY <1>14, <3>1 DEF next
  <2>4. CASE cond /\ High(target) = High(state.pc)
    <3>1. f = 0 /\ t = 1 /\ High(state'.pc) = High(next)
      BY <1>5, <2>1, <2>4 DEF f, t
    <3> QED
      BY <1>14, <3>1 DEF next
  <2> QED
    BY <2>2, <2>3, <2>4
<1>17. TimingTable'
  <2>1. (DOMAIN CyclesOfOther)' = DOMAIN CyclesOfOther
    BY DEF CyclesOfOther
  <2> QED
    BY <1>4, <1>6, <1>15, <1>16, <2>1 DEF TimingTable
<1>18. EffectiveAccesses'
  BY <1>4, <1>15 DEF EffectiveAccesses
<1> QED
  BY <1>17, <1>18 DEF Shows

(* Every second element of what is pushed or popped is a cycle. *)
LEMMA StackCounts ==
    ASSUME NEW s \in Seq(Accesses), NEW n \in Nat, Len(s) = 2 * n,
           \A i \in 1..(2 * n) : s[i] = Cycle <=> i % 2 = 0
    PROVE  Count(s) = n
<1> DEFINE marks == {i \in 1..Len(s) : s[i] = Cycle}
           twice == [k \in 1..n |-> 2 * k]
<1>1. \A i \in 1..Len(s) : i \in marks <=> i % 2 = 0
  OBVIOUS
<1>2. marks \subseteq 1..(2 * n)
  OBVIOUS
<1>3. \A i \in 1..(2 * n) : i \in marks <=> i % 2 = 0
  BY <1>1
<1>4. Count(s) = Cardinality(marks)
  BY DEF Count
<1> HIDE DEF marks
<1>5. ASSUME NEW k \in 1..n PROVE twice[k] \in marks
  <2>1. 2 * k \in 1..(2 * n) /\ (2 * k) % 2 = 0
    OBVIOUS
  <2> QED
    BY <1>3, <2>1
<1>6. ASSUME NEW j \in marks PROVE \E k \in 1..n : twice[k] = j
  <2>1. j \in 1..(2 * n) /\ j % 2 = 0
    BY <1>2, <1>3
  <2>2. j \div 2 \in 1..n /\ 2 * (j \div 2) = j
    BY <2>1
  <2> QED
    BY <2>2
<1>7. \A k, l \in 1..n : twice[k] = twice[l] => k = l
  OBVIOUS
<1>8. twice \in [1..n -> marks]
  BY <1>5
<1> HIDE DEF twice
<1>9. twice \in Bijection(1..n, marks)
  BY <1>6, <1>7, <1>8 DEF Bijection, Injection, Surjection, IsInjective
<1>10. ExistsBijection(1..n, marks)
  BY <1>9 DEF ExistsBijection
<1>11. IsFiniteSet(1..n) /\ Cardinality(1..n) = n
  <2>1. 1 \in Int /\ n \in Int
    OBVIOUS
  <2>2. IsFiniteSet(1..n) /\ Cardinality(1..n) = IF 1 > n THEN 0 ELSE n - 1 + 1
    BY <2>1, FS_Interval
  <2>3. (IF 1 > n THEN 0 ELSE n - 1 + 1) = n
    OBVIOUS
  <2> QED
    BY <2>2, <2>3
<1>12. Cardinality(marks) = n
  BY <1>10, <1>11, FS_Bijection
<1> QED
  BY <1>4, <1>12

LEMMA PushesCount ==
    ASSUME NEW sp \in Byte, NEW vs \in Seq(Byte)
    PROVE  /\ PushAccesses(sp, vs) \in Seq(Accesses) /\ Count(PushAccesses(sp, vs)) = Len(vs)
           /\ PopAccesses(sp, vs) \in Seq(Accesses) /\ Count(PopAccesses(sp, vs)) = Len(vs)
<1> DEFINE n == Len(vs)
           push(i) == Write(256 + ((sp - (i \div 2)) % 256), vs[(i + 1) \div 2])
           pop(i) == Read(Top(sp, (i + 1) \div 2), vs[(i + 1) \div 2])
           p == [i \in 1..(2 * n) |-> IF i % 2 = 0 THEN Cycle ELSE push(i)]
           q == [i \in 1..(2 * n) |-> IF i % 2 = 0 THEN Cycle ELSE pop(i)]
<1>1. n \in Nat /\ 2 * n \in Nat
  OBVIOUS
<1>2. p \in Seq(Accesses) /\ q \in Seq(Accesses)
  <2>1. p = PushAccesses(sp, vs) /\ q = PopAccesses(sp, vs)
    BY DEF PushAccesses, PopAccesses
  <2> HIDE DEF p, q
  <2>2. Steady(p) /\ Steady(q)
    BY <2>1, SteadyPushes
  <2> QED
    BY <2>2 DEF Steady
<1>3. \A a, v : Read(a, v) # Cycle /\ Write(a, v) # Cycle
  BY Distinct
<1>4. \A i \in 1..(2 * n) : push(i) # Cycle /\ pop(i) # Cycle
  BY <1>3
<1> HIDE DEF push, pop, n
<1>5. Len(p) = 2 * n /\ Len(q) = 2 * n
  BY <1>1
<1>6. \A i \in 1..(2 * n) : (p[i] = Cycle <=> i % 2 = 0) /\ (q[i] = Cycle <=> i % 2 = 0)
  BY <1>4
<1>7. p = PushAccesses(sp, vs) /\ q = PopAccesses(sp, vs)
  BY DEF p, q, PushAccesses, PopAccesses, push, pop, n
<1> HIDE DEF p, q
<1>8. Count(p) = n /\ Count(q) = n
  BY <1>1, <1>2, <1>5, <1>6, StackCounts
<1> QED
  BY <1>2, <1>7, <1>8 DEF n

(* Two accesses, with a cycle after each. *)
LEMMA PairCounts ==
    ASSUME NEW a \in Accesses, NEW b \in Accesses, a # Cycle, b # Cycle
    PROVE  <<a, Cycle, b, Cycle>> \in Seq(Accesses) /\ Count(<<a, Cycle, b, Cycle>>) = 2
<1> DEFINE p == <<a, Cycle>>
           q == <<b, Cycle>>
<1>1. p \in Seq(Accesses) /\ q \in Seq(Accesses)
  BY AccessTyped
<1>2. Count(p) = 1 /\ Count(q) = 1
  BY CountPieces
<1>3. <<a, Cycle, b, Cycle>> = p \o q
  <2>1. <<a, Cycle, b, Cycle>> = <<a, Cycle>> \o <<b, Cycle>>
    OBVIOUS
  <2> QED
    BY <2>1
<1> HIDE DEF p, q
<1>4. p \o q \in Seq(Accesses) /\ Count(p \o q) = Count(p) + Count(q)
  BY <1>1, CountJoins
<1>5. Count(p \o q) = 2
  BY <1>2, <1>4
<1> QED
  BY <1>3, <1>4, <1>5

LEMMA OtherCounts ==
    ASSUME Ready, handler \in DOMAIN CyclesOfOther, handler' = handler,
           NEW s \in Seq(Accesses), trace' = trace \o s,
           Count(s) + (IF handler \in OnStack THEN 2 ELSE 3) = CyclesOfOther[handler]
    PROVE  Shows
<1>1. PICK n : Took(n)
  BY ReadyTook
<1>2. Cycles' = n + Count(s) /\ Count(s) \in Nat
  BY <1>1, CyclesCount
<1>3. handler \in OnStack \/ handler \in {"jsr", "jmp"} \/ handler = "ind_jmp"
  BY Classes
<1>4. CASE handler \in OnStack
  <2>1. mode = "impl"
    BY <1>4 DEF Ready, Fits
  <2>2. n = 2
    BY <1>1, <2>1 DEF Took, TimedModes, CyclesOfMode
  <2> QED
    BY <1>2, <1>4, <2>2, OtherShows
<1>5. CASE handler \notin OnStack
  <2>1. mode \in {"abs", "ind"}
    BY <1>3, <1>5 DEF Ready, Fits
  <2>2. n = 3
    BY <1>1, <2>1 DEF Took, TimedModes, LoadModes, CyclesOfMode
  <2> QED
    BY <1>2, <1>5, <2>2, OtherShows
<1> QED
  BY <1>4, <1>5

-----------------------------------------------------------------------------
(***************************************************************************)
(* What works on the stack, and the jumps.                                 *)
(***************************************************************************)
LEMMA OtherTable ==
    /\ CyclesOfOther["pha"] = 3 /\ CyclesOfOther["php"] = 3
    /\ CyclesOfOther["pla"] = 4 /\ CyclesOfOther["plp"] = 4
    /\ CyclesOfOther["rts"] = 6 /\ CyclesOfOther["rti"] = 6 /\ CyclesOfOther["brk"] = 7
    /\ CyclesOfOther["jsr"] = 6 /\ CyclesOfOther["jmp"] = 3 /\ CyclesOfOther["ind_jmp"] = 5
    /\ {"pha", "php", "pla", "plp", "rts", "rti", "brk"} \subseteq DOMAIN CyclesOfOther \cap OnStack
    /\ {"jsr", "jmp", "ind_jmp"} \subseteq DOMAIN CyclesOfOther
    /\ "jsr" \notin OnStack /\ "jmp" \notin OnStack /\ "ind_jmp" \notin OnStack
BY DEF CyclesOfOther, OnStack

LEMMA OtherExecuted ==
    ASSUME Ready, handler \in DOMAIN CyclesOfOther, NEW s \in Seq(Accesses), Executed(s),
           Count(s) + (IF handler \in OnStack THEN 2 ELSE 3) = CyclesOfOther[handler]
    PROVE  Shows
BY ExecutedSame, OtherCounts

LEMMA PushesShow ==
    ASSUME Ready, Pha \/ Php
    PROVE  Shows
<1>1. TypeInv
  BY DEF Ready, Inv
<1>2. PICK v \in Byte : Executed(PushAccesses(state.sp, <<v>>))
  BY <1>1, Values, FlagBytes DEF Pha, Php
<1>3. handler \in {"pha", "php"}
  BY DEF Pha, Php
<1>4. <<v>> \in Seq(Byte) /\ Len(<<v>>) = 1 /\ state.sp \in Byte
  BY <1>1, Values
<1>5. PushAccesses(state.sp, <<v>>) \in Seq(Accesses) /\ Count(PushAccesses(state.sp, <<v>>)) = 1
  BY <1>4, PushesCount
<1>6. PICK s \in Seq(Accesses) : s = PushAccesses(state.sp, <<v>>)
  BY <1>5
<1>7. Executed(s) /\ Count(s) = 1
  BY <1>2, <1>5, <1>6
<1> QED
  BY <1>3, <1>7, OtherTable, OtherExecuted

(* A cycle, then a pop for each byte, and perhaps a cycle. *)
LEMMA PopsCount ==
    ASSUME TypeInv, NEW vs \in Seq(Byte)
    PROVE  LET s == <<Cycle>> \o PopAccesses(state.sp, vs)
           IN /\ s \in Seq(Accesses) /\ Count(s) = 1 + Len(vs)
              /\ s \o <<Cycle>> \in Seq(Accesses) /\ Count(s \o <<Cycle>>) = 2 + Len(vs)
<1>1. PICK p \in Seq(Accesses) : p = PopAccesses(state.sp, vs)
  BY Values, PushesCount
<1>2. Count(p) = Len(vs) /\ Len(vs) \in Nat
  BY <1>1, Values, PushesCount
<1> DEFINE c == <<Cycle>>
<1>3. c \in Seq(Accesses) /\ Count(c) = 1
  BY AccessTyped, CountPieces
<1> HIDE DEF c
<1>4. /\ c \o p \in Seq(Accesses) /\ Count(c \o p) = Count(c) + Count(p)
      /\ c \o p \o c \in Seq(Accesses) /\ Count(c \o p \o c) = Count(c) + Count(p) + Count(c)
  BY <1>3, ThreeJoined
<1>5. Count(c \o p) = 1 + Len(vs) /\ Count(c \o p \o c) = 2 + Len(vs)
  BY <1>2, <1>3, <1>4
<1> QED
  BY <1>1, <1>4, <1>5 DEF c

LEMMA PullsShow ==
    ASSUME Ready, Pla \/ Plp
    PROVE  Shows
<1>1. TypeInv
  BY DEF Ready, Inv
<1>2. PICK v \in Byte : Executed(<<Cycle>> \o PopAccesses(state.sp, <<v>>))
  BY ZenonT(40), <1>1, Values DEF Pla, Plp
<1>3. handler \in {"pla", "plp"}
  BY DEF Pla, Plp
<1>4. <<v>> \in Seq(Byte) /\ Len(<<v>>) = 1
  OBVIOUS
<1> DEFINE s == <<Cycle>> \o PopAccesses(state.sp, <<v>>)
<1>5. s \in Seq(Accesses) /\ Count(s) = 1 + Len(<<v>>)
  BY <1>1, <1>4, PopsCount
<1>6. Executed(s)
  BY <1>2
<1> HIDE DEF s
<1>7. Count(s) = 2
  BY <1>4, <1>5
<1> QED
  BY <1>3, <1>5, <1>6, <1>7, OtherTable, OtherExecuted

LEMMA ReturnsShow ==
    ASSUME Ready, Rts \/ Rti
    PROVE  Shows
<1>1. TypeInv
  BY DEF Ready, Inv
<1>2. ASSUME Rts PROVE Shows
  <2>1. PICK low \in Byte, high \in Byte :
            Executed(<<Cycle>> \o PopAccesses(state.sp, <<low, high>>) \o <<Cycle>>)
    <3>1. /\ Answers(Top(state.sp, 1)) \subseteq Byte
          /\ Answers(Top(state.sp, 2)) \subseteq Byte
      BY <1>1, Values
    <3> QED
      BY <1>2, <3>1 DEF Rts
  <2> DEFINE vs == <<low, high>>
             s == <<Cycle>> \o PopAccesses(state.sp, vs) \o <<Cycle>>
  <2>2. vs \in Seq(Byte) /\ Len(vs) = 2
    OBVIOUS
  <2>3. Executed(s)
    BY <2>1
  <2> HIDE DEF vs
  <2>4. s \in Seq(Accesses) /\ Count(s) = 2 + Len(vs)
    BY <1>1, <2>2, PopsCount
  <2> HIDE DEF s
  <2>5. Count(s) = 4
    BY <2>2, <2>4
  <2>6. handler = "rts"
    BY <1>2 DEF Rts
  <2> QED
    BY <2>3, <2>4, <2>5, <2>6, OtherTable, OtherExecuted
<1>3. ASSUME Rti PROVE Shows
  <2>1. PICK v \in Byte, low \in Byte, high \in Byte :
            Executed(<<Cycle>> \o PopAccesses(state.sp, <<v, low, high>>))
    BY ZenonT(40), <1>1, <1>3, Values DEF Rti
  <2> DEFINE vs == <<v, low, high>>
             s == <<Cycle>> \o PopAccesses(state.sp, vs)
  <2>2. vs \in Seq(Byte) /\ Len(vs) = 3
    OBVIOUS
  <2>3. Executed(s)
    BY <2>1
  <2> HIDE DEF vs
  <2>4. s \in Seq(Accesses) /\ Count(s) = 1 + Len(vs)
    BY <1>1, <2>2, PopsCount
  <2> HIDE DEF s
  <2>5. Count(s) = 4
    BY <2>2, <2>4
  <2>6. handler = "rti"
    BY <1>3 DEF Rti
  <2> QED
    BY <2>3, <2>4, <2>5, <2>6, OtherTable, OtherExecuted
<1> QED
  BY <1>2, <1>3

LEMMA CallShows ==
    ASSUME Ready, Jsr
    PROVE  Shows
<1>1. TypeInv
  BY DEF Ready, Inv
<1> DEFINE ret == Wrapped(state.pc - 1)
           vs == <<High(ret), Low(ret)>>
           s == PushAccesses(state.sp, vs) \o <<Cycle>>
<1>2. ret \in Address
  <2>1. state.pc - 1 \in Int
    BY <1>1, Values, AddressIsInt
  <2> QED
    BY <2>1, WrapTyped
<1>3. Executed(s) /\ handler = "jsr"
  BY DEF Jsr
<1> HIDE DEF ret
<1>4. vs \in Seq(Byte) /\ Len(vs) = 2
  BY <1>2, HalvesTyped
<1> HIDE DEF vs
<1>5. PICK p \in Seq(Accesses) : p = PushAccesses(state.sp, vs)
  BY <1>1, <1>4, Values, PushesCount
<1>6. Count(p) = 2
  BY <1>1, <1>4, <1>5, Values, PushesCount
<1> DEFINE c == <<Cycle>>
<1>7. c \in Seq(Accesses) /\ Count(c) = 1
  BY AccessTyped, CountPieces
<1>8. s = p \o c
  BY <1>5
<1> HIDE DEF c, s
<1>9. p \o c \in Seq(Accesses) /\ Count(p \o c) = Count(p) + Count(c)
  BY <1>7, CountJoins
<1>10. s \in Seq(Accesses) /\ Count(s) = 3
  BY <1>6, <1>7, <1>8, <1>9
<1> QED
  BY <1>3, <1>10, OtherTable, OtherExecuted

LEMMA BrkShows ==
    ASSUME Ready, Brk
    PROVE  Shows
<1>1. TypeInv /\ trace \in Seq(Accesses)
  BY ReadyTook DEF Ready, Inv
<1> DEFINE s == [state EXCEPT !.pc = Wrapped(@ + 1)]
           vs == <<High(s.pc), Low(s.pc), ByteOf(PushedFlags("brk" = "brk", s.flags))>>
<1>2. StateOK(s)
  <2>1. StateOK(state) /\ state.pc + 1 \in Int
    BY <1>1, Values, AddressIsInt
  <2>2. Wrapped(state.pc + 1) \in Address
    BY <2>1, WrapTyped
  <2> QED
    BY <2>1, <2>2, PcOK
<1>3. SwitchToIsr(s, IrqVector, "brk") /\ handler = "brk" /\ handler' = handler
  BY DEF Brk, handler
<1> HIDE DEF s
<1>4. s.pc \in Address /\ s.sp \in Byte
  BY <1>2, RegistersTyped
<1>5. PICK low \in Byte, high \in Byte :
          trace' = trace \o PushAccesses(s.sp, vs) \o VectorAccesses(IrqVector, low, high)
  <2>1. Bytes \subseteq Byte
    BY <1>1, AnswersTyped
  <2> QED
    BY <1>3, <2>1 DEF SwitchToIsr
<1>6. vs \in Seq(Byte) /\ Len(vs) = 3
  <2>1. High(s.pc) \in Byte /\ Low(s.pc) \in Byte
    BY <1>4, HalvesTyped
  <2>2. ByteOf(PushedFlags("brk" = "brk", s.flags)) \in Byte
    BY FlagBytes
  <2> QED
    BY <2>1, <2>2
<1> HIDE DEF vs
<1>7. PICK p \in Seq(Accesses) : p = PushAccesses(s.sp, vs)
  BY <1>4, <1>6, PushesCount
<1>8. Count(p) = 3
  BY <1>4, <1>6, <1>7, PushesCount
<1>9. ASSUME NEW next \in Address
      PROVE  LET q == <<Read(IrqVector, low), Cycle, Read(next, high), Cycle>>
             IN q \in Seq(Accesses) /\ Count(q) = 2
  <2> DEFINE a == Read(IrqVector, low)
             b == Read(next, high)
  <2>1. a \in Accesses /\ b \in Accesses /\ a # Cycle /\ b # Cycle
    BY Vectors, AccessTyped, Distinct
  <2> HIDE DEF a, b
  <2>2. <<a, Cycle, b, Cycle>> \in Seq(Accesses) /\ Count(<<a, Cycle, b, Cycle>>) = 2
    BY <2>1, PairCounts
  <2> QED
    BY <2>2 DEF a, b
<1> DEFINE q == VectorAccesses(IrqVector, low, high)
<1>10. q \in Seq(Accesses) /\ Count(q) = 2
  BY <1>9, Vectors DEF VectorAccesses
<1>11. trace' = trace \o p \o q
  BY <1>5, <1>7
<1> HIDE DEF q
<1>12. trace' = trace \o (p \o q)
  BY <1>1, <1>10, <1>11
<1>13. p \o q \in Seq(Accesses) /\ Count(p \o q) = 5
  BY <1>8, <1>10, CountJoins
<1>14. PICK r \in Seq(Accesses) : r = p \o q
  BY <1>13
<1>15. trace' = trace \o r /\ Count(r) = 5
  BY <1>12, <1>13, <1>14
<1>16. handler \in OnStack /\ handler \in DOMAIN CyclesOfOther /\ CyclesOfOther[handler] = 7
  BY <1>3, OtherTable
<1>17. Count(r) + (IF handler \in OnStack THEN 2 ELSE 3) = CyclesOfOther[handler]
  BY <1>15, <1>16
<1>18. handler' = handler
  BY <1>3
<1> QED
  BY <1>15, <1>16, <1>17, <1>18, OtherCounts

LEMMA JumpsShow ==
    ASSUME Ready, Jmp \/ IndJmp
    PROVE  Shows
<1>1. TypeInv
  BY DEF Ready, Inv
<1>2. ASSUME Jmp PROVE Shows
  <2>1. Executed(<<>>) /\ handler = "jmp"
    BY <1>2 DEF Jmp, InternalStep, Internal
  <2> DEFINE s == <<>>
  <2>2. s \in Seq(Accesses)
    OBVIOUS
  <2>3. Executed(s) /\ Count(s) = 0
    BY <2>1, CountPieces
  <2> HIDE DEF s
  <2> QED
    BY <2>1, <2>2, <2>3, OtherTable, OtherExecuted
<1>3. ASSUME IndJmp PROVE Shows
  <2> DEFINE next == Word((Low(addr) + 1) % 256, High(addr))
  <2>1. PICK low \in Byte, high \in Byte :
            Executed(<<Read(addr, low), Cycle, Read(next, high), Cycle>>)
    BY <1>1, <1>3, AnswersTyped DEF IndJmp
  <2>2. next \in Address /\ addr \in Address
    BY <1>1, Values, HalvesTyped, StepsOfByte, WordTyped
  <2> HIDE DEF next
  <2> DEFINE a == Read(addr, low)
             b == Read(next, high)
             s == <<a, Cycle, b, Cycle>>
  <2>3. a \in Accesses /\ b \in Accesses /\ a # Cycle /\ b # Cycle
    BY <2>2, AccessTyped, Distinct
  <2>4. Executed(s) /\ handler = "ind_jmp"
    BY <1>3, <2>1 DEF IndJmp
  <2> HIDE DEF a, b
  <2>5. s \in Seq(Accesses) /\ Count(s) = 2
    BY <2>3, PairCounts
  <2> HIDE DEF s
  <2> QED
    BY <2>4, <2>5, OtherTable, OtherExecuted
<1> QED
  BY <1>2, <1>3

-----------------------------------------------------------------------------
(***************************************************************************)
(* The loads and the arithmetic.                                           *)
(***************************************************************************)
(* Which registers the loads and the arithmetic leave alone. *)
SameIndex(s, t) == t.pc = s.pc /\ t.x = s.x /\ t.y = s.y

LEMMA FlagsSame ==
    ASSUME NEW s, StateOK(s), NEW flags
    PROVE  SameIndex(s, [s EXCEPT !.flags = flags])
BY DEF SameIndex, StateOK, Regs

LEMMA HelpersSame ==
    ASSUME NEW s, StateOK(s), NEW v
    PROVE  SameIndex(s, SetC(s, v)) /\ SameIndex(s, Zn(s, v))
BY FlagsSame DEF SetC, Zn

LEMMA SetRegSame ==
    ASSUME NEW s, StateOK(s), NEW r \in {"a", "x", "y"}, NEW v \in Byte
    PROVE  /\ SetReg(s, r, v).pc = s.pc
           /\ r # "x" => SetReg(s, r, v).x = s.x
           /\ r # "y" => SetReg(s, r, v).y = s.y
           /\ r = "a" => SameIndex(s, SetReg(s, r, v))
<1> DEFINE t == [s EXCEPT ![r] = v]
<1>1. StateOK(t)
  BY RegisterOK
<1>2. t.pc = s.pc /\ (r # "x" => t.x = s.x) /\ (r # "y" => t.y = s.y)
  BY DEF StateOK, Regs
<1>3. SetReg(s, r, v) = Zn(t, v)
  BY DEF SetReg
<1> HIDE DEF t
<1>4. SameIndex(t, Zn(t, v))
  BY <1>1, HelpersSame
<1> QED
  BY <1>2, <1>3, <1>4 DEF SameIndex

LEMMA AddSame ==
    ASSUME NEW s, StateOK(s), NEW v \in Byte
    PROVE  SameIndex(s, AddBinary(s, v)) /\ SameIndex(s, SubtractBinary(s, v))
<1> DEFINE Change(c, o) == [SetC(s, c) EXCEPT !.flags = SetFlag(@, "V", o)]
<1>1. ASSUME NEW c, NEW o, NEW r \in Byte
      PROVE  SameIndex(s, SetReg(Change(c, o), "a", r))
  <2> DEFINE t == SetC(s, c)
             u == [t EXCEPT !.flags = SetFlag(@, "V", o)]
  <2>1. StateOK(t) /\ SameIndex(s, t)
    BY SetCOK, HelpersSame
  <2> HIDE DEF t
  <2>2. StateOK(u) /\ SameIndex(t, u)
    BY <2>1, SetFlagOK, FlagsSame
  <2> HIDE DEF u
  <2>3. SameIndex(u, SetReg(u, "a", r))
    BY <2>2, SetRegSame
  <2>4. SameIndex(s, SetReg(u, "a", r))
    BY <2>1, <2>2, <2>3 DEF SameIndex
  <2> QED
    BY <2>4 DEF u, t
<1> DEFINE sum == s.a + v + (IF "C" \in s.flags THEN 1 ELSE 0)
           diff == s.a - v - (IF "C" \in s.flags THEN 0 ELSE 1)
           r == sum % 256
           d == diff % 256
           over == Bit(s.a, 7) = Bit(v, 7) /\ Bit(s.a, 7) # Bit(r, 7)
           under == Bit(s.a, 7) # Bit(v, 7) /\ Bit(s.a, 7) # Bit(d, 7)
           carry == sum > 255
           enough == diff >= 0
<1>2. AddBinary(s, v) = SetReg(Change(carry, over), "a", r)
  BY DEF AddBinary
<1>3. SubtractBinary(s, v) = SetReg(Change(enough, under), "a", d)
  BY DEF SubtractBinary
<1>4. r \in Byte /\ d \in Byte
  <2>1. sum \in Int /\ diff \in Int
    BY RegistersTyped, ByteIsInt
  <2> HIDE DEF sum, diff
  <2> QED
    BY <2>1, ByteTyped
<1> HIDE DEF Change, r, d, over, under, carry, enough
<1> QED
  BY <1>1, <1>2, <1>3, <1>4

LEMMA ComparedSame ==
    ASSUME NEW s, StateOK(s), NEW r, NEW v
    PROVE  SameIndex(s, Compared(s, r, v))
<1> DEFINE c == s[r] >= v
           t == SetC(s, c)
           d == (s[r] - v) % 256
<1>1. StateOK(t) /\ SameIndex(s, t)
  BY SetCOK, HelpersSame
<1>2. Compared(s, r, v) = Zn(t, d)
  BY DEF Compared
<1> HIDE DEF t, d
<1>3. SameIndex(t, Zn(t, d))
  BY <1>1, HelpersSame
<1> QED
  BY <1>1, <1>2, <1>3 DEF SameIndex

LEMMA SameShows ==
    ASSUME Ready, NEW name \in Loads \cup {"alr", "anc", "arr", "axs", "atx"}, NEW v \in Byte,
           Reads(name, v), SameIndex(state, state')
    PROVE  Shows
BY ReadShows DEF SameIndex

LEMMA ArithmeticShows ==
    ASSUME Ready, Adc \/ Sbc \/ AndA \/ Logic \/ Compare \/ BitTest
    PROVE  Shows
<1>1. TypeInv
  BY DEF Ready, Inv
<1>2. /\ "adc" \in Loads /\ "sbc" \in Loads /\ "and_" \in Loads /\ "eor" \in Loads
      /\ "ora" \in Loads /\ "cmp" \in Loads /\ "cpx" \in Loads /\ "cpy" \in Loads
      /\ "bit" \in Loads
  BY DEF Loads
<1>3. ASSUME Adc \/ Sbc PROVE Shows
  <2>1. PICK v \in Byte :
            \/ Reads("adc", v) /\ state' = AddBinary(state, v)
            \/ Reads("sbc", v) /\ state' = SubtractBinary(state, v)
    BY <1>1, <1>3, Values DEF Adc, Sbc
  <2>2. SameIndex(state, state')
    BY <1>1, <2>1, Values, AddSame
  <2> QED
    BY <1>2, <2>1, <2>2, SameShows
<1>4. ASSUME AndA \/ Logic PROVE Shows
  <2>1. PICK v \in Byte :
            \/ Reads("and_", v) /\ state' = SetReg(state, "a", And(state.a, v))
            \/ Reads("eor", v) /\ state' = SetReg(state, "a", Xor(state.a, v))
            \/ Reads("ora", v) /\ state' = SetReg(state, "a", Or(state.a, v))
    BY <1>1, <1>4, Values DEF AndA, Logic
  <2>2. And(state.a, v) \in Byte /\ Or(state.a, v) \in Byte /\ Xor(state.a, v) \in Byte
    BY <1>1, Values, LogicTyped
  <2>3. SameIndex(state, state')
    BY <1>1, <2>1, <2>2, Values, SetRegSame
  <2> QED
    BY <1>2, <2>1, <2>3, SameShows
<1>5. ASSUME Compare PROVE Shows
  <2>1. PICK v \in Byte :
            \/ Reads("cmp", v) /\ state' = Compared(state, "a", v)
            \/ Reads("cpx", v) /\ state' = Compared(state, "x", v)
            \/ Reads("cpy", v) /\ state' = Compared(state, "y", v)
    BY <1>1, <1>5, Values DEF Compare
  <2>2. SameIndex(state, state')
    BY <1>1, <2>1, Values, ComparedSame
  <2> QED
    BY <1>2, <2>1, <2>2, SameShows
<1>6. ASSUME BitTest PROVE Shows
  <2> DEFINE s(v) == Zn(state, And(state.a, v))
  <2>1. PICK v \in Byte :
            /\ Reads("bit", v)
            /\ state' = [s(v) EXCEPT !.flags = SetFlag(SetFlag(@, "V", Bit(v, 6) = 1),
                                                      "N", Bit(v, 7) = 1)]
    BY <1>1, <1>6, Values DEF BitTest
  <2>2. StateOK(s(v)) /\ SameIndex(state, s(v))
    BY <1>1, Values, ZnOK, HelpersSame
  <2> HIDE DEF s
  <2>3. SameIndex(s(v), state')
    BY <2>1, <2>2, FlagsSame
  <2>4. SameIndex(state, state')
    BY <2>2, <2>3 DEF SameIndex
  <2> QED
    BY <1>2, <2>1, <2>4, SameShows
<1> QED
  BY <1>3, <1>4, <1>5, <1>6

LEMMA LoadShows ==
    ASSUME Ready, Load \/ Lax \/ Atx
    PROVE  Shows
<1>1. TypeInv /\ StateOK(state)
  BY Values DEF Ready, Inv
<1>2. "lda" \in Loads /\ "ldx" \in Loads /\ "ldy" \in Loads /\ "lax" \in Loads /\ "atx" \notin Loads
  BY DEF Loads
<1>3. ASSUME Load PROVE Shows
  <2>1. PICK v \in Byte :
            \/ Reads("lda", v) /\ state' = SetReg(state, "a", v)
            \/ Reads("ldx", v) /\ state' = SetReg(state, "x", v)
            \/ Reads("ldy", v) /\ state' = SetReg(state, "y", v)
    BY <1>1, <1>3, Values DEF Load
  <2>2. ASSUME Reads("lda", v), state' = SetReg(state, "a", v) PROVE Shows
    BY <1>1, <1>2, <2>2, SetRegSame, SameShows
  <2>3. ASSUME Reads("ldx", v), state' = SetReg(state, "x", v) PROVE Shows
    <3>1. state'.pc = state.pc /\ state'.y = state.y
      BY <1>1, <2>3, SetRegSame
    <3> QED
      BY <1>2, <2>3, <3>1, ReadShows
  <2>4. ASSUME Reads("ldy", v), state' = SetReg(state, "y", v) PROVE Shows
    <3>1. state'.pc = state.pc /\ state'.x = state.x
      BY <1>1, <2>4, SetRegSame
    <3> QED
      BY <1>2, <2>4, <3>1, ReadShows
  <2> QED
    BY <2>1, <2>2, <2>3, <2>4
<1>4. ASSUME Lax \/ Atx PROVE Shows
  <2>1. PICK v \in Byte, name \in {"lax", "atx"} :
            Reads(name, v) /\ state' = SetReg([state EXCEPT !.x = v], "a", v)
    BY <1>1, <1>4, Values DEF Lax, Atx
  <2> DEFINE s == [state EXCEPT !.x = v]
  <2>2. StateOK(s) /\ s.pc = state.pc /\ s.y = state.y
    BY <1>1, RegisterOK DEF StateOK, Regs
  <2>3. state' = SetReg(s, "a", v)
    BY <2>1
  <2> HIDE DEF s
  <2>4. SameIndex(s, state')
    BY <2>2, <2>3, SetRegSame
  <2>5. state'.pc = state.pc /\ state'.y = state.y
    BY <2>2, <2>4 DEF SameIndex
  <2> QED
    BY <1>2, <2>1, <2>5, ReadShows
<1> QED
  BY <1>3, <1>4

LEMMA UndocumentedReadsShow ==
    ASSUME Ready, Alr \/ Anc \/ Arr \/ Axs
    PROVE  Shows
<1>1. TypeInv /\ StateOK(state) /\ Answers(addr) \subseteq Byte
  BY Values DEF Ready, Inv
<1>2. \A v \in Byte : And(state.a, v) \in Byte
  BY <1>1, Values, LogicTyped
<1>3. /\ "alr" \notin Loads /\ "anc" \notin Loads /\ "arr" \notin Loads /\ "axs" \notin Loads
  BY DEF Loads
<1>4. ASSUME NEW name \in {"alr", "anc", "arr", "axs"}, NEW v \in Byte, Reads(name, v),
             state'.pc = state.pc
      PROVE  Shows
  BY <1>3, <1>4, ReadShows
<1>5. ASSUME NEW r \in {"a", "x"}, NEW v \in Byte, NEW c
      PROVE  SetReg(SetC(state, c), r, v).pc = state.pc
  <2>1. StateOK(SetC(state, c)) /\ SetC(state, c).pc = state.pc
    BY <1>1, SetCOK, HelpersSame DEF SameIndex
  <2> QED
    BY <2>1, SetRegSame
<1>6. ASSUME NEW v \in Byte, NEW c
      PROVE  LET t == SetC(SetReg(state, "a", v), c) IN StateOK(t) /\ t.pc = state.pc
  <2>1. StateOK(SetReg(state, "a", v)) /\ SetReg(state, "a", v).pc = state.pc
    BY <1>1, SetRegOK, SetRegSame
  <2> QED
    BY <2>1, SetCOK, HelpersSame DEF SameIndex
<1>7. ASSUME Alr PROVE Shows
  <2> DEFINE r(v) == RightOf(And(state.a, v), 0)
             c(v) == Bit(And(state.a, v), 0) = 1
  <2>1. PICK v \in Byte : Reads("alr", v) /\ state' = SetReg(SetC(state, c(v)), "a", r(v))
    BY <1>1, <1>7 DEF Alr
  <2>2. r(v) \in Byte
    BY <1>2, ShiftsTyped, CarryTyped
  <2> HIDE DEF r, c
  <2> QED
    BY <1>4, <1>5, <2>1, <2>2
<1>8. ASSUME Anc PROVE Shows
  <2> DEFINE r(v) == And(state.a, v)
             c(v) == Bit(r(v), 7) = 1
  <2>1. PICK v \in Byte : Reads("anc", v) /\ state' = SetC(SetReg(state, "a", r(v)), c(v))
    BY <1>1, <1>8 DEF Anc
  <2>2. r(v) \in Byte
    BY <1>2
  <2> HIDE DEF r, c
  <2> QED
    BY <1>4, <1>6, <2>1, <2>2
<1>9. ASSUME Arr PROVE Shows
  <2> DEFINE r(v) == RightOf(And(state.a, v), Carry)
             c(v) == Bit(r(v), 6) = 1
             o(v) == Bit(r(v), 6) # Bit(r(v), 5)
             s(v) == SetC(SetReg(state, "a", r(v)), c(v))
  <2>1. PICK v \in Byte :
            Reads("arr", v) /\ state' = [s(v) EXCEPT !.flags = SetFlag(@, "V", o(v))]
    BY <1>1, <1>9 DEF Arr
  <2>2. r(v) \in Byte
    BY <1>2, ShiftsTyped, CarryTyped
  <2> HIDE DEF r, c, o
  <2>3. StateOK(s(v)) /\ s(v).pc = state.pc
    BY <1>6, <2>2
  <2> HIDE DEF s
  <2>4. state'.pc = state.pc
    BY <2>1, <2>3, FlagsSame DEF SameIndex
  <2> QED
    BY <1>4, <2>1, <2>4
<1>10. ASSUME Axs PROVE Shows
  <2> DEFINE diff(v) == And(state.x, state.a) - v
             c(v) == diff(v) >= 0
             r(v) == diff(v) % 256
  <2>1. PICK v \in Byte : Reads("axs", v) /\ state' = SetReg(SetC(state, c(v)), "x", r(v))
    BY <1>1, <1>10 DEF Axs
  <2>2. r(v) \in Byte
    <3>1. And(state.x, state.a) \in Byte
      BY <1>1, Values, LogicTyped
    <3>2. diff(v) \in Int
      BY <3>1, ByteIsInt
    <3> QED
      BY <3>2, ByteTyped
  <2> HIDE DEF r, c
  <2> QED
    BY <1>4, <1>5, <2>1, <2>2
<1> QED
  BY <1>7, <1>8, <1>9, <1>10

-----------------------------------------------------------------------------
(***************************************************************************)
(* The other handlers.                                                     *)
(***************************************************************************)
LEMMA InternalShows ==
    ASSUME Ready, NEW name, InternalStep(name) \/ Internal(name), Idle(name)
    PROVE  Shows
<1>1. handler = name /\ Executed(<<>>)
  BY DEF InternalStep, Internal
<1>2. PICK s : s = <<>>
  OBVIOUS
<1> QED
  BY <1>1, <1>2, IdleShows

LEMMA IdleHandlers ==
    /\ Idle("asla") /\ Idle("lsra") /\ Idle("rola") /\ Idle("rora")
    /\ Idle("inx") /\ Idle("iny") /\ Idle("dex") /\ Idle("dey")
    /\ Idle("tax") /\ Idle("txa") /\ Idle("tay") /\ Idle("tya") /\ Idle("tsx") /\ Idle("txs")
    /\ Idle("clc") /\ Idle("sec") /\ Idle("cld") /\ Idle("sed") /\ Idle("clv")
    /\ Idle("cli") /\ Idle("sei") /\ Idle("nop") /\ Idle("nop2")
    /\ Idle("say") /\ Idle("xas") /\ Idle("bbs") /\ Idle("invalid_opcode")
BY DEF Idle, Loads, Stores, Modifies, Branches, CyclesOfOther

LEMMA ShiftsShow ==
    ASSUME Ready, Asl \/ Lsr \/ Rol \/ Ror \/ IncDec
    PROVE  Shows
<1>1. /\ "asl" \in Modifies /\ "lsr" \in Modifies /\ "rol" \in Modifies /\ "ror" \in Modifies
      /\ "inc" \in Modifies /\ "dec" \in Modifies
  BY DEF Modifies
<1>2. Answers(addr) \subseteq Byte
  BY Values DEF Ready, Inv
<1>3. \A v \in Byte : /\ LeftOf(v, 0) \in Byte /\ RightOf(v, 0) \in Byte
                      /\ LeftOf(v, Carry) \in Byte /\ RightOf(v, Carry) \in Byte
                      /\ (v + 1) % 256 \in Byte /\ (v - 1) % 256 \in Byte
  BY ShiftsTyped, CarryTyped, StepsOfByte
<1>4. ASSUME NEW name \in Modifies, NEW v \in Byte, NEW new \in Byte, Modifying(name, v, new)
      PROVE  Shows
  BY <1>4, ModifyShows
<1>5. ASSUME NEW name, InternalStep(name), Idle(name) PROVE Shows
  BY <1>5, InternalShows
<1>6. ASSUME Asl PROVE Shows
  BY <1>1, <1>2, <1>3, <1>4, <1>5, <1>6, IdleHandlers DEF Asl
<1>7. ASSUME Lsr PROVE Shows
  BY <1>1, <1>2, <1>3, <1>4, <1>5, <1>7, IdleHandlers DEF Lsr
<1>8. ASSUME Rol PROVE Shows
  BY <1>1, <1>2, <1>3, <1>4, <1>5, <1>8, IdleHandlers DEF Rol
<1>9. ASSUME Ror PROVE Shows
  BY <1>1, <1>2, <1>3, <1>4, <1>5, <1>9, IdleHandlers DEF Ror
<1>10. ASSUME IncDec PROVE Shows
  <2> DEFINE up(v) == (v + 1) % 256
             down(v) == (v - 1) % 256
  <2>1. \/ \E v \in Byte : Modifying("inc", v, up(v)) \/ Modifying("dec", v, down(v))
        \/ InternalStep("inx") \/ InternalStep("iny")
        \/ InternalStep("dex") \/ InternalStep("dey")
    BY <1>2, <1>10 DEF IncDec
  <2>2. \A v \in Byte : up(v) \in Byte /\ down(v) \in Byte
    BY <1>3
  <2> HIDE DEF up, down
  <2> QED
    BY <1>1, <1>4, <1>5, <2>1, <2>2, IdleHandlers
<1> QED
  BY <1>6, <1>7, <1>8, <1>9, <1>10

LEMMA UndocumentedModifiersShow ==
    ASSUME Ready, Dcp \/ Isc \/ Rla \/ Rra \/ Slo \/ Sre
    PROVE  Shows
<1>1. /\ "dcp" \in Modifies /\ "isc" \in Modifies /\ "rla" \in Modifies /\ "rra" \in Modifies
      /\ "slo" \in Modifies /\ "sre" \in Modifies
  BY DEF Modifies
<1>2. Answers(addr) \subseteq Byte
  BY Values DEF Ready, Inv
<1>3. \A v \in Byte : /\ LeftOf(v, 0) \in Byte /\ RightOf(v, 0) \in Byte
                      /\ LeftOf(v, Carry) \in Byte /\ RightOf(v, Carry) \in Byte
                      /\ (v + 1) % 256 \in Byte /\ (v - 1) % 256 \in Byte
  BY ShiftsTyped, CarryTyped, StepsOfByte
<1>4. PICK name \in Modifies, v \in Byte, new \in Byte : Modifying(name, v, new)
  <2>1. ASSUME Dcp \/ Isc
        PROVE  \E v \in Byte : \/ Modifying("dcp", v, (v - 1) % 256)
                               \/ Modifying("isc", v, (v + 1) % 256)
    BY <1>2, <2>1 DEF Dcp, Isc
  <2>2. ASSUME Rla \/ Rra
        PROVE  \E v \in Byte : \/ Modifying("rla", v, LeftOf(v, Carry))
                               \/ Modifying("rra", v, RightOf(v, Carry))
    BY <1>2, <2>2 DEF Rla, Rra
  <2>3. ASSUME Slo \/ Sre
        PROVE  \E v \in Byte : \/ Modifying("slo", v, LeftOf(v, 0))
                               \/ Modifying("sre", v, RightOf(v, 0))
    BY <1>2, <2>3 DEF Slo, Sre
  <2> QED
    BY <1>1, <1>3, <2>1, <2>2, <2>3
<1> QED
  BY <1>4, ModifyShows

LEMMA StoresShow ==
    ASSUME Ready, Store \/ Sax
    PROVE  Shows
<1>1. "sta" \in Stores /\ "stx" \in Stores /\ "sty" \in Stores /\ "sax" \in Stores
  BY DEF Stores
<1>2. /\ state.a \in Byte /\ state.x \in Byte /\ state.y \in Byte
      /\ And(state.a, state.x) \in Byte
  BY Values, LogicTyped DEF Ready, Inv
<1> QED
  BY <1>1, <1>2, StoreShows DEF Store, Sax

LEMMA RegistersShow ==
    ASSUME Ready, Transfer \/ Txs \/ FlagInstruction \/ Nop
    PROVE  Shows
<1>1. ASSUME Transfer PROVE Shows
  <2>1. PICK name \in {"tax", "txa", "tay", "tya", "tsx"} : InternalStep(name)
    BY <1>1 DEF Transfer
  <2>2. Idle(name)
    BY IdleHandlers
  <2> QED
    BY <2>1, <2>2, InternalShows
<1>2. ASSUME Txs PROVE Shows
  <2>1. PICK s : s = <<>>
    OBVIOUS
  <2>2. Executed(s) /\ handler = "txs"
    BY <1>2, <2>1 DEF Txs
  <2> QED
    BY <2>1, <2>2, IdleHandlers, IdleShows
<1>3. ASSUME FlagInstruction PROVE Shows
  BY <1>3, IdleHandlers, InternalShows DEF FlagInstruction
<1>4. ASSUME Nop PROVE Shows
  BY <1>4, IdleHandlers, InternalShows DEF Nop
<1> QED
  BY <1>1, <1>2, <1>3, <1>4

LEMMA OddOnesShow ==
    ASSUME Ready, Say \/ Xas \/ Bbs \/ InvalidOpcode
    PROVE  Shows
<1>1. handler \in {"say", "xas", "bbs", "invalid_opcode"}
  BY DEF Say, Xas, MaskedStore, StoresAt, Bbs, InvalidOpcode
<1>2. Idle(handler) /\ mode # "impl"
  BY <1>1, IdleHandlers DEF Ready, Fits
<1>3. \E s : Executed(s)
  BY DEF Say, Xas, MaskedStore, StoresAt, Bbs, BranchOn, InvalidOpcode
<1> QED
  BY <1>2, <1>3, IdleShows

LEMMA BranchesShow ==
    ASSUME Ready, BranchCarryZero \/ BranchSignZero \/ BranchOverflow
    PROVE  Shows
<1>1. Answers(addr) \subseteq Byte
  BY Values DEF Ready, Inv
<1>2. ASSUME NEW conditions, Branch(conditions), DOMAIN conditions \subseteq Branches,
             \A b \in DOMAIN conditions : conditions[b] \in BOOLEAN
      PROVE  Shows
  <2>1. handler \in DOMAIN conditions
    BY <1>2 DEF Branch
  <2>2. PICK disp \in Byte : BranchOn(<<Read(addr, disp)>>, disp, conditions[handler])
    BY <1>1, <1>2 DEF Branch
  <2>3. PICK cond \in BOOLEAN : cond = conditions[handler]
    BY <1>2, <2>1
  <2>4. handler \in Branches /\ BranchOn(<<Read(addr, disp)>>, disp, cond)
    BY <1>2, <2>1, <2>2, <2>3
  <2> QED
    BY <2>4, BranchShows
<1>3. ASSUME BranchCarryZero PROVE Shows
  <2> DEFINE c == [bcc |-> "C" \notin state.flags, bcs |-> "C" \in state.flags,
                   beq |-> "Z" \in state.flags]
  <2>1. Branch(c)
    BY <1>3 DEF BranchCarryZero
  <2>2. DOMAIN c = {"bcc", "bcs", "beq"}
    OBVIOUS
  <2>3. c["bcc"] \in BOOLEAN /\ c["bcs"] \in BOOLEAN /\ c["beq"] \in BOOLEAN
    OBVIOUS
  <2> HIDE DEF c
  <2>4. DOMAIN c \subseteq Branches
    BY <2>2 DEF Branches
  <2>5. \A b \in DOMAIN c : c[b] \in BOOLEAN
    BY <2>2, <2>3
  <2> QED
    BY <1>2, <2>1, <2>4, <2>5
<1>4. ASSUME BranchSignZero PROVE Shows
  <2> DEFINE c == [bmi |-> "N" \in state.flags, bpl |-> "N" \notin state.flags,
                   bne |-> "Z" \notin state.flags]
  <2>1. Branch(c)
    BY <1>4 DEF BranchSignZero
  <2>2. DOMAIN c = {"bmi", "bpl", "bne"}
    OBVIOUS
  <2>3. c["bmi"] \in BOOLEAN /\ c["bpl"] \in BOOLEAN /\ c["bne"] \in BOOLEAN
    OBVIOUS
  <2> HIDE DEF c
  <2>4. DOMAIN c \subseteq Branches
    BY <2>2 DEF Branches
  <2>5. \A b \in DOMAIN c : c[b] \in BOOLEAN
    BY <2>2, <2>3
  <2> QED
    BY <1>2, <2>1, <2>4, <2>5
<1>5. ASSUME BranchOverflow PROVE Shows
  <2> DEFINE c == [bvc |-> "V" \notin state.flags, bvs |-> "V" \in state.flags]
  <2>1. Branch(c)
    BY <1>5 DEF BranchOverflow
  <2>2. DOMAIN c = {"bvc", "bvs"}
    OBVIOUS
  <2>3. c["bvc"] \in BOOLEAN /\ c["bvs"] \in BOOLEAN
    OBVIOUS
  <2> HIDE DEF c
  <2>4. DOMAIN c \subseteq Branches
    BY <2>2 DEF Branches
  <2>5. \A b \in DOMAIN c : c[b] \in BOOLEAN
    BY <2>2, <2>3
  <2> QED
    BY <1>2, <2>1, <2>4, <2>5
<1> QED
  BY <1>3, <1>4, <1>5

(* Whatever the handler. *)
LEMMA HandlersShow ==
    ASSUME Ready, Documented \/ Undocumented
    PROVE  Shows
<1>1. ASSUME Documented PROVE Shows
  BY <1>1, ArithmeticShows, ShiftsShow, LoadShows, StoresShow, RegistersShow, BranchesShow,
     OddOnesShow, JumpsShow, PushesShow, PullsShow, CallShows, ReturnsShow, BrkShows
     DEF Documented
<1>2. ASSUME Undocumented PROVE Shows
  BY <1>2, UndocumentedReadsShow, LoadShows, StoresShow, UndocumentedModifiersShow, OddOnesShow
     DEF Undocumented
<1> QED
  BY <1>1, <1>2

-----------------------------------------------------------------------------
(***************************************************************************)
(* The invariant of the cycles and the accesses.                           *)
(***************************************************************************)
(* Between instructions the two properties ask nothing. *)
LEMMA QuietElsewhere ==
    /\ phase # "poll" => TimingTable /\ EffectiveAccesses
    /\ phase' # "poll" => TimingTable' /\ EffectiveAccesses'
BY DEF TimingTable, EffectiveAccesses

LEMMA HandlerPhases ==
    ASSUME Documented \/ Undocumented
    PROVE  phase = "execute" /\ phase' = "poll"
<1>1. \A s : Executed(s) => phase = "execute" /\ phase' = "poll"
  BY DEF Executed
<1>2. /\ \A name, v : Reads(name, v) => phase = "execute" /\ phase' = "poll"
      /\ \A name, v, new : Modifying(name, v, new) => phase = "execute" /\ phase' = "poll"
      /\ \A name, a, v : StoresAt(name, a, v) => phase = "execute" /\ phase' = "poll"
      /\ \A name : Internal(name) => phase = "execute" /\ phase' = "poll"
      /\ \A name : InternalStep(name) => phase = "execute" /\ phase' = "poll"
      /\ \A before, disp, cond :
             BranchOn(before, disp, cond) => phase = "execute" /\ phase' = "poll"
  BY <1>1 DEF Reads, Modifying, StoresAt, Internal, InternalStep, BranchOn
<1>3. \A conditions : Branch(conditions) => phase = "execute" /\ phase' = "poll"
  BY <1>2 DEF Branch
<1>4. ASSUME Adc \/ Sbc \/ AndA \/ Logic \/ Compare \/ BitTest \/ Load \/ Store
      PROVE  phase = "execute" /\ phase' = "poll"
  BY <1>2, <1>4 DEF Adc, Sbc, AndA, Logic, Compare, BitTest, Load, Store
<1>5. ASSUME Asl \/ Lsr \/ Rol \/ Ror \/ IncDec
      PROVE  phase = "execute" /\ phase' = "poll"
  BY <1>2, <1>5 DEF Asl, Lsr, Rol, Ror, IncDec
<1>6. ASSUME Transfer \/ Txs \/ FlagInstruction \/ Nop \/ Jmp \/ IndJmp
      PROVE  phase = "execute" /\ phase' = "poll"
  BY <1>1, <1>2, <1>6 DEF Transfer, Txs, FlagInstruction, Nop, Jmp, IndJmp
<1>7. ASSUME BranchCarryZero \/ BranchSignZero \/ BranchOverflow \/ Bbs
      PROVE  phase = "execute" /\ phase' = "poll"
  BY <1>2, <1>3, <1>7 DEF BranchCarryZero, BranchSignZero, BranchOverflow, Bbs
<1>8. ASSUME Pha \/ Php \/ Pla \/ Plp \/ Jsr \/ Rts \/ Rti \/ Brk
      PROVE  phase = "execute" /\ phase' = "poll"
  BY <1>1, <1>8 DEF Pha, Php, Pla, Plp, Jsr, Rts, Rti, Brk
<1>9. ASSUME Alr \/ Anc \/ Arr \/ Axs \/ Lax \/ Atx
      PROVE  phase = "execute" /\ phase' = "poll"
  BY <1>2, <1>9 DEF Alr, Anc, Arr, Axs, Lax, Atx
<1>10. ASSUME Dcp \/ Isc \/ Rla \/ Rra \/ Slo \/ Sre
       PROVE  phase = "execute" /\ phase' = "poll"
  BY <1>2, <1>10 DEF Dcp, Isc, Rla, Rra, Slo, Sre
<1>11. ASSUME Sax \/ Say \/ Xas \/ InvalidOpcode
       PROVE  phase = "execute" /\ phase' = "poll"
  BY <1>1, <1>2, <1>11 DEF Sax, Say, Xas, MaskedStore, InvalidOpcode
<1> QED
  BY <1>4, <1>5, <1>6, <1>7, <1>8, <1>9, <1>10, <1>11 DEF Documented, Undocumented

LEMMA CycleStep ==
    ASSUME Inv, CycleInv, [Next]_vars
    PROVE  CycleInv'
<1> DEFINE Quiet == phase' # "poll" => TimingTable' /\ EffectiveAccesses'
<1>1. Quiet
  BY QuietElsewhere
<1>2. ASSUME Fetch PROVE CycleInv'
  <2>1. Opened' /\ phase' = "address"
    BY <1>2, FetchOpens DEF Fetch
  <2> QED
    BY <1>1, <2>1 DEF CycleInv
<1>3. ASSUME AddressMode PROVE CycleInv'
  <2>1. phase = "address" /\ phase' = "execute"
    BY <1>3 DEF AddressMode, Implied, Immediate, ZeroPage, ZeroPageIndexed, Absolute,
           AbsoluteIndexed, IndZeroX, IndZeroY, IndirectZP, BusConflictInvalid, BitRelative,
           Addressed
  <2>2. Formed'
    BY <1>3, <2>1, AddressModeForms DEF CycleInv
  <2> QED
    BY <1>1, <2>1, <2>2 DEF CycleInv
<1>4. ASSUME Documented \/ Undocumented PROVE CycleInv'
  <2>1. phase = "execute" /\ phase' = "poll"
    BY <1>4, HandlerPhases
  <2>2. Fits(handler, mode)
    BY TableFits DEF Inv, TypeInv, handler, mode
  <2>3. Shows
    BY <1>4, <2>1, <2>2, HandlersShow DEF Ready, CycleInv
  <2> QED
    BY <2>1, <2>3 DEF Shows, CycleInv
<1>5. ASSUME TakeNmi \/ NoInterrupt PROVE CycleInv'
  <2>1. phase' = "fetch"
    BY <1>5 DEF TakeNmi, NoInterrupt
  <2> QED
    BY <1>1, <2>1 DEF CycleInv
<1>6. ASSUME RaiseNmi \/ UNCHANGED vars PROVE CycleInv'
  <2>1. /\ UNCHANGED <<state, opcode, addr, trace, phase>>
        /\ handler' = handler /\ mode' = mode
    BY <1>6 DEF RaiseNmi, vars, handler, mode
  <2>2. (phase' = "address" => Opened') /\ (phase' = "execute" => Formed')
    BY <2>1 DEF CycleInv, Opened, Formed
  <2>3. TimingTable'
    BY <2>1 DEF CycleInv, TimingTable, Cycles, CyclesOfLoad, CyclesOfStore, CyclesOfModify,
       CyclesOfOther
  <2>4. EffectiveAccesses'
    BY <2>1 DEF CycleInv, EffectiveAccesses, WritesSeen, ReadsSeen, InInstruction
  <2> QED
    BY <2>2, <2>3, <2>4 DEF CycleInv
<1> QED
  BY <1>2, <1>3, <1>4, <1>5, <1>6 DEF Next, Finished

LEMMA CycleInit == ASSUME Init PROVE CycleInv
<1>1. phase = "fetch"
  BY DEF Init
<1> QED
  BY <1>1, QuietElsewhere DEF CycleInv

(* What an instruction has done on the bus after its fetch and its mode. *)
THEOREM CyclesCounted == Spec => []CycleInv
<1>1. Init => CycleInv
  BY CycleInit
<1>2. Inv /\ CycleInv /\ [Next]_vars => CycleInv'
  BY CycleStep
<1> QED
  BY <1>1, <1>2, Invariant, PTL DEF Spec

(* The number of times the coroutine of the CPU yields in an instruction is  *)
(* what the table of the documented instructions and the modes says, for     *)
(* every operand, index and address: a load pays for the page it crosses, a  *)
(* store in any case, a branch for being taken and for the page.             *)
THEOREM CyclesRight == Spec => []TimingTable
<1>1. CycleInv => TimingTable
  BY DEF CycleInv
<1> QED
  BY <1>1, CyclesCounted, PTL

(* Whatever its mode and operands, a load writes nothing and touches the     *)
(* effective address once, a store writes there once, and an instruction     *)
(* that modifies writes back what it read last and then the new value.       *)
THEOREM AccessesRight == Spec => []EffectiveAccesses
<1>1. CycleInv => EffectiveAccesses
  BY DEF CycleInv
<1> QED
  BY <1>1, CyclesCounted, PTL

=============================================================================
