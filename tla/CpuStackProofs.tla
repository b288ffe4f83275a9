---------------------------- MODULE CpuStackProofs ----------------------------
(***************************************************************************)
(* Proofs about the stack of the CPU: that calls and interrupts find what  *)
(* they left there, whatever the sequence of instructions and NMIs, to any *)
(* depth of nesting and with sp anywhere in its page.                      *)
(*                                                                         *)
(* The page is a ring of 256 cells.  The frames that have not been lost    *)
(* lie in it in order, each a known distance above sp, and together they   *)
(* fit: that is what keeps a push away from the cells of any of them.      *)
(***************************************************************************)
EXTENDS CpuProofs, WellFoundedInduction

Frame ==
    [kind : {"call", "brk", "nmi"}, pc : Address, flags : SUBSET FlagNames, sp : Byte, over : Nat]

(* Where sp is after a push or a pop of n bytes, and how far a is above b. *)
Down(sp, n) == (sp - n) % 256
Up(sp, n) == (sp + n) % 256
Ahead(a, b) == (a - b) % 256

(* How far a frame is above sp, and how far its last byte is. *)
Gap(f, sp) == Ahead(f.sp, sp)
End(f, sp) == Gap(f, sp) + Size(f.kind)

(* The frames fs, innermost first, lie above sp one after the other. *)
Nested(fs, sp) ==
    /\ fs \in Seq(Frame)
    /\ fs # <<>> => Gap(fs[1], sp) = fs[1].over
    /\ \A k \in 1..(Len(fs) - 1) : Gap(fs[k + 1], sp) = End(fs[k], sp) + fs[k + 1].over
    /\ \A j, k \in 1..Len(fs) : j < k => End(fs[j], sp) <= Gap(fs[k], sp)
    /\ \A k \in 1..Len(fs) : End(fs[k], sp) <= 256

(* A frame is in memory as it was pushed. *)
Within(f, i, v, page) ==
    (f.sp + i) % 256 \in DOMAIN page /\ page[(f.sp + i) % 256] = v

Holds(f, page) ==
    IF f.kind = "call"
    THEN /\ Within(f, 1, Low(Wrapped(f.pc - 1)), page)
         /\ Within(f, 2, High(Wrapped(f.pc - 1)), page)
    ELSE /\ Within(f, 1, ByteOf(PushedFlags(f.kind = "brk", f.flags)), page)
         /\ Within(f, 2, Low(f.pc), page)
         /\ Within(f, 3, High(f.pc), page)

Intact(fs, page) == \A k \in 1..Len(fs) : Holds(fs[k], page)

StackInv == Nested(frames, state.sp) /\ Intact(frames, page1)

-----------------------------------------------------------------------------
(***************************************************************************)
(* Distances round the page.                                               *)
(***************************************************************************)
LEMMA GapMoves ==
    ASSUME NEW a \in Byte, NEW b \in Byte, NEW n \in 0..3
    PROVE  /\ Ahead(a, b) \in 0..255
           /\ Ahead(a, b) + n <= 255 => Ahead(a, Down(b, n)) = Ahead(a, b) + n
           /\ Ahead(a, b) >= n => Ahead(a, Up(b, n)) = Ahead(a, b) - n
BY SMTT(60) DEF Byte, Ahead, Down, Up

LEMMA FrameTyped ==
    ASSUME NEW f \in Frame
    PROVE  /\ f.kind \in {"call", "brk", "nmi"} /\ f.pc \in Address
           /\ f.flags \in SUBSET FlagNames /\ f.sp \in Byte /\ f.over \in Nat
           /\ Size(f.kind) \in 2..3
BY DEF Frame, Size

LEMMA GapTyped ==
    ASSUME NEW f \in Frame, NEW sp \in Byte
    PROVE  Gap(f, sp) \in Nat /\ End(f, sp) \in Nat /\ Gap(f, sp) + 2 <= End(f, sp)
<1>1. Gap(f, sp) \in 0..255
  BY FrameTyped, GapMoves DEF Gap
<1> QED
  BY <1>1, FrameTyped DEF End

(* A push moves every frame up by its bytes, a pop down. *)
LEMMA GapShifts ==
    ASSUME NEW f \in Frame, NEW sp \in Byte, NEW n \in 0..3
    PROVE  /\ End(f, sp) + n <= 256 => /\ Gap(f, Down(sp, n)) = Gap(f, sp) + n
                                       /\ End(f, Down(sp, n)) = End(f, sp) + n
           /\ Gap(f, sp) >= n => /\ Gap(f, Up(sp, n)) = Gap(f, sp) - n
                                 /\ End(f, Up(sp, n)) = End(f, sp) - n
<1>1. /\ Gap(f, sp) \in 0..255
      /\ Gap(f, sp) + n <= 255 => Gap(f, Down(sp, n)) = Gap(f, sp) + n
      /\ Gap(f, sp) >= n => Gap(f, Up(sp, n)) = Gap(f, sp) - n
  BY FrameTyped, GapMoves DEF Gap
<1>2. Size(f.kind) \in 2..3
  BY FrameTyped
<1> QED
  BY <1>1, <1>2 DEF End

(* Changing the count of a frame does not move it. *)
LEMMA Recounted ==
    ASSUME NEW f \in Frame, NEW m \in Nat
    PROVE  LET g == [f EXCEPT !.over = m]
           IN /\ g \in Frame /\ g.over = m
              /\ \A sp : Gap(g, sp) = Gap(f, sp) /\ End(g, sp) = End(f, sp)
              /\ \A page : Holds(f, page) => Holds(g, page)
BY DEF Frame, Gap, End, Holds, Within

-----------------------------------------------------------------------------
(***************************************************************************)
(* What keeps the frames in order.                                         *)
(***************************************************************************)
LEMMA NestedTyped ==
    ASSUME NEW fs, NEW sp \in Byte, Nested(fs, sp)
    PROVE  /\ fs \in Seq(Frame) /\ Len(fs) \in Nat
           /\ \A k \in 1..Len(fs) :
                 /\ fs[k] \in Frame
                 /\ Gap(fs[k], sp) \in Nat /\ End(fs[k], sp) \in Nat
                 /\ Gap(fs[k], sp) + 2 <= End(fs[k], sp) /\ End(fs[k], sp) <= 256
                 /\ fs[k].over \in Nat /\ Size(fs[k].kind) \in 2..3
<1>1. fs \in Seq(Frame) /\ Len(fs) \in Nat /\ \A k \in 1..Len(fs) : fs[k] \in Frame
  BY DEF Nested
<1>2. \A k \in 1..Len(fs) : End(fs[k], sp) <= 256
  BY DEF Nested
<1> QED
  BY <1>1, <1>2, GapTyped, FrameTyped

(* The innermost is the lowest. *)
LEMMA LowestFirst ==
    ASSUME NEW fs, NEW sp \in Byte, Nested(fs, sp), NEW k \in 1..Len(fs)
    PROVE  fs[1].over <= Gap(fs[k], sp) /\ Gap(fs[1], sp) = fs[1].over
<1>1. Gap(fs[1], sp) = fs[1].over
  BY NestedTyped DEF Nested
<1>2. CASE k = 1
  BY <1>1, <1>2, NestedTyped
<1>3. CASE k # 1
  <2>1. 1 \in 1..Len(fs) /\ 1 < k
    BY <1>3, NestedTyped
  <2>2. End(fs[1], sp) <= Gap(fs[k], sp)
    BY <2>1 DEF Nested
  <2> QED
    BY <1>1, <2>1, <2>2, NestedTyped
<1> QED
  BY <1>2, <1>3

(* Frames of which those of index up to m are kept. *)
LEMMA PrefixNested ==
    ASSUME NEW fs, NEW sp \in Byte, Nested(fs, sp), NEW m \in 0..Len(fs)
    PROVE  /\ Nested(SubSeq(fs, 1, m), sp) /\ Len(SubSeq(fs, 1, m)) = m
           /\ \A k \in 1..m : SubSeq(fs, 1, m)[k] = fs[k]
<1> DEFINE gs == SubSeq(fs, 1, m)
<1>1. fs \in Seq(Frame) /\ Len(fs) \in Nat
  BY NestedTyped
<1>2. /\ gs \in Seq(Frame) /\ Len(gs) = m
      /\ \A k \in 1..m : gs[k] = fs[k]
  BY <1>1
<1> HIDE DEF gs
<1>3. gs # <<>> => 1 \in 1..m
  BY <1>2
<1>4. 1 \in 1..m => fs # <<>> /\ Gap(fs[1], sp) = fs[1].over
  BY <1>1 DEF Nested
<1>5. \A k \in 1..(m - 1) : Gap(gs[k + 1], sp) = End(gs[k], sp) + gs[k + 1].over
  <2> TAKE k \in 1..(m - 1)
  <2>1. k \in 1..m /\ k + 1 \in 1..m /\ k \in 1..(Len(fs) - 1)
    BY <1>1
  <2>2. Gap(fs[k + 1], sp) = End(fs[k], sp) + fs[k + 1].over
    BY <2>1 DEF Nested
  <2> QED
    BY <1>2, <2>1, <2>2
<1>6. \A j, k \in 1..m : j < k => End(gs[j], sp) <= Gap(gs[k], sp)
  <2> TAKE j, k \in 1..m
  <2>1. j \in 1..Len(fs) /\ k \in 1..Len(fs)
    BY <1>1
  <2>2. j < k => End(fs[j], sp) <= Gap(fs[k], sp)
    BY <2>1 DEF Nested
  <2> QED
    BY <1>2, <2>2
<1>7. \A k \in 1..m : End(gs[k], sp) <= 256
  <2> TAKE k \in 1..m
  <2>1. k \in 1..Len(fs)
    BY <1>1
  <2> QED
    BY <1>2, <2>1 DEF Nested
<1> QED
  BY <1>2, <1>3, <1>4, <1>5, <1>6, <1>7 DEF Nested, gs

(* sp moves by as many bytes as the count of the innermost frame. *)
LEMMA MoveNested ==
    ASSUME NEW fs, NEW sp \in Byte, Nested(fs, sp), fs # <<>>, NEW d \in -3..3,
           fs[1].over + d \in Nat,
           d > 0 => \A k \in 1..Len(fs) : End(fs[k], sp) + d <= 256
    PROVE  Nested([fs EXCEPT ![1].over = @ + d], Down(sp, d))
<1> DEFINE low == Down(sp, d)
           gs == [fs EXCEPT ![1].over = @ + d]
<1>1. /\ fs \in Seq(Frame) /\ Len(fs) \in Nat /\ 1 \in 1..Len(fs)
      /\ \A k \in 1..Len(fs) : fs[k] \in Frame /\ fs[k].over \in Nat
      /\ \A k \in 1..Len(fs) : Gap(fs[k], sp) \in Nat /\ End(fs[k], sp) \in Nat
  BY NestedTyped
<1>2. \A k \in 1..Len(fs) : Gap(fs[k], low) = Gap(fs[k], sp) + d /\ End(fs[k], low) = End(fs[k], sp) + d
  <2> TAKE k \in 1..Len(fs)
  <2>1. CASE d >= 0
    <3>1. d \in 0..3 /\ End(fs[k], sp) + d <= 256
      BY <2>1, NestedTyped
    <3> QED
      BY <1>1, <3>1, GapShifts
  <2>2. CASE d < 0
    <3> DEFINE n == -d
    <3>1. n \in 0..3 /\ d = -n /\ low = Up(sp, n)
      BY <2>2, ByteIsInt DEF Down, Up
    <3>2. Gap(fs[k], sp) >= n
      BY <1>1, <3>1, LowestFirst
    <3> HIDE DEF n
    <3>3. Gap(fs[k], Up(sp, n)) = Gap(fs[k], sp) - n /\ End(fs[k], Up(sp, n)) = End(fs[k], sp) - n
      BY <1>1, <3>1, <3>2, GapShifts
    <3> QED
      BY <1>1, <3>1, <3>3
  <2> QED
    BY <2>1, <2>2
<1>3. /\ gs \in Seq(Frame) /\ Len(gs) = Len(fs) /\ gs # <<>> /\ gs[1].over = fs[1].over + d
      /\ \A k \in 1..Len(fs) :
            /\ Gap(gs[k], low) = Gap(fs[k], low) /\ End(gs[k], low) = End(fs[k], low)
            /\ k # 1 => gs[k].over = fs[k].over
  <2> DEFINE m == fs[1].over + d
             g == [fs[1] EXCEPT !.over = m]
  <2>1. m \in Nat
    OBVIOUS
  <2>2. gs = [fs EXCEPT ![1] = g]
    BY <1>1
  <2> HIDE DEF m, low
  <2>3. g \in Frame /\ g.over = m /\ Gap(g, low) = Gap(fs[1], low) /\ End(g, low) = End(fs[1], low)
    BY <1>1, <2>1, Recounted
  <2> HIDE DEF g, gs
  <2>4. /\ gs \in Seq(Frame) /\ Len(gs) = Len(fs) /\ gs # <<>> /\ gs[1] = g
        /\ \A k \in 1..Len(fs) : k # 1 => gs[k] = fs[k]
    BY <1>1, <2>2, <2>3
  <2> QED
    BY <1>1, <2>3, <2>4 DEF m
<1> HIDE DEF gs, low
<1>4. Gap(gs[1], low) = gs[1].over
  <2>1. Gap(fs[1], sp) = fs[1].over
    BY <1>1, LowestFirst
  <2> QED
    BY <1>1, <1>2, <1>3, <2>1
<1>5. \A k \in 1..(Len(gs) - 1) : Gap(gs[k + 1], low) = End(gs[k], low) + gs[k + 1].over
  <2> TAKE k \in 1..(Len(gs) - 1)
  <2>1. k \in 1..Len(fs) /\ k + 1 \in 1..Len(fs) /\ k + 1 # 1 /\ k \in 1..(Len(fs) - 1)
    BY <1>1, <1>3
  <2>2. Gap(fs[k + 1], sp) = End(fs[k], sp) + fs[k + 1].over
    BY <2>1 DEF Nested
  <2>3. Gap(gs[k + 1], low) = Gap(fs[k + 1], sp) + d /\ gs[k + 1].over = fs[k + 1].over
    BY <1>2, <1>3, <2>1
  <2>4. End(gs[k], low) = End(fs[k], sp) + d
    BY <1>2, <1>3, <2>1
  <2>5. End(fs[k], sp) \in Nat /\ fs[k + 1].over \in Nat
    BY <1>1, <2>1
  <2> QED
    BY <2>2, <2>3, <2>4, <2>5
<1>6. \A j, k \in 1..Len(gs) : j < k => End(gs[j], low) <= Gap(gs[k], low)
  <2> TAKE j, k \in 1..Len(gs)
  <2>1. j \in 1..Len(fs) /\ k \in 1..Len(fs)
    BY <1>3
  <2>2. j < k => End(fs[j], sp) <= Gap(fs[k], sp)
    BY <2>1 DEF Nested
  <2> QED
    BY <1>1, <1>2, <1>3, <2>1, <2>2
<1>7. \A k \in 1..Len(gs) : End(gs[k], low) <= 256
  <2> TAKE k \in 1..Len(gs)
  <2>1. k \in 1..Len(fs)
    BY <1>3
  <2>2. End(fs[k], sp) + d <= 256
    BY <2>1, NestedTyped
  <2> QED
    BY <1>1, <1>2, <1>3, <2>1, <2>2
<1>8. Nested(gs, low)
  BY <1>3, <1>4, <1>5, <1>6, <1>7 DEF Nested
<1> QED
  BY <1>8 DEF gs, low

(* A new frame goes below the others. *)
LEMMA EnterNested ==
    ASSUME NEW fs, NEW sp \in Byte, Nested(fs, sp), NEW f \in Frame, f.over = 0,
           f.sp = Down(sp, Size(f.kind)),
           \A k \in 1..Len(fs) : End(fs[k], sp) + Size(f.kind) <= 256
    PROVE  Nested(<<f>> \o fs, f.sp)
<1> DEFINE n == Size(f.kind)
           low == f.sp
           gs == <<f>> \o fs
<1>1. /\ fs \in Seq(Frame) /\ Len(fs) \in Nat
      /\ \A k \in 1..Len(fs) :
            /\ fs[k] \in Frame /\ fs[k].over \in Nat
            /\ Gap(fs[k], sp) \in Nat /\ End(fs[k], sp) \in Nat /\ End(fs[k], sp) <= 256
  BY NestedTyped
<1>2. n \in 2..3 /\ low \in Byte /\ low = Down(sp, n)
  BY FrameTyped
<1>3. Gap(f, low) = 0 /\ End(f, low) = n
  <2>1. Gap(f, low) = 0
    <3>1. \A b \in Byte : (b - b) % 256 = 0
      BY DEF Byte
    <3> QED
      BY <1>2, <3>1 DEF Gap, Ahead
  <2> QED
    BY <1>2, <2>1 DEF End
<1> HIDE DEF low, n
<1>4. \A k \in 1..Len(fs) : Gap(fs[k], low) = Gap(fs[k], sp) + n /\ End(fs[k], low) = End(fs[k], sp) + n
  <2> TAKE k \in 1..Len(fs)
  <2>1. End(fs[k], sp) + n <= 256 /\ n \in 0..3
    BY <1>1, <1>2 DEF n
  <2> QED
    BY <1>1, <1>2, <2>1, GapShifts
<1>5. /\ gs \in Seq(Frame) /\ Len(gs) = Len(fs) + 1 /\ gs # <<>> /\ gs[1] = f
      /\ \A k \in 1..Len(fs) : gs[k + 1] = fs[k]
  BY <1>1
<1> HIDE DEF gs
<1>6. \A k \in 2..Len(gs) : k - 1 \in 1..Len(fs) /\ gs[k] = fs[k - 1]
  <2> TAKE k \in 2..Len(gs)
  <2>1. k - 1 \in 1..Len(fs) /\ (k - 1) + 1 = k
    BY <1>1, <1>5
  <2> QED
    BY <1>5, <2>1
<1>7. Gap(gs[1], low) = gs[1].over
  BY <1>3, <1>5
<1>8. \A k \in 1..(Len(gs) - 1) : Gap(gs[k + 1], low) = End(gs[k], low) + gs[k + 1].over
  <2> TAKE k \in 1..(Len(gs) - 1)
  <2>1. k \in 1..Len(fs) /\ gs[k + 1] = fs[k]
    BY <1>1, <1>5
  <2>2. CASE k = 1
    <3>1. Gap(fs[1], sp) = fs[1].over
      BY <2>1, <2>2, LowestFirst
    <3> QED
      BY <1>1, <1>2, <1>3, <1>4, <1>5, <2>1, <2>2, <3>1
  <2>3. CASE k # 1
    <3>1. k - 1 \in 1..(Len(fs) - 1) /\ (k - 1) + 1 = k /\ k - 1 \in 1..Len(fs)
      BY <1>1, <2>1, <2>3
    <3>2. gs[k] = fs[k - 1]
      <4>1. k \in 2..Len(gs)
        BY <1>1, <2>3
      <4> QED
        BY <1>6, <4>1
    <3>3. Gap(fs[k], sp) = End(fs[k - 1], sp) + fs[k].over
      BY <3>1 DEF Nested
    <3>4. Gap(gs[k + 1], low) = Gap(fs[k], sp) + n /\ End(gs[k], low) = End(fs[k - 1], sp) + n
      BY <1>4, <2>1, <3>1, <3>2
    <3>5. Gap(fs[k], sp) \in Nat /\ End(fs[k - 1], sp) \in Nat /\ fs[k].over \in Nat
      <4> DEFINE i == k - 1
      <4>1. k \in 1..Len(fs) /\ i \in 1..Len(fs)
        BY <2>1, <3>1
      <4> HIDE DEF i
      <4>2. Gap(fs[k], sp) \in Nat /\ fs[k].over \in Nat
        BY <1>1, <4>1
      <4>3. End(fs[i], sp) \in Nat
        BY <1>1, <4>1
      <4> QED
        BY <4>2, <4>3 DEF i
    <3>6. gs[k + 1].over = fs[k].over
      BY <2>1
    <3>7. Gap(gs[k + 1], low) = End(gs[k], low) + fs[k].over
      BY <1>2, <3>3, <3>4, <3>5
    <3> QED
      BY <3>6, <3>7
  <2> QED
    BY <2>2, <2>3
<1>9. \A j, k \in 1..Len(gs) : j < k => End(gs[j], low) <= Gap(gs[k], low)
  <2> TAKE j, k \in 1..Len(gs)
  <2> HAVE j < k
  <2>1. k \in 2..Len(gs) /\ k - 1 \in 1..Len(fs) /\ gs[k] = fs[k - 1]
    BY <1>1, <1>5, <1>6
  <2>2. CASE j = 1
    <3>1. End(gs[j], low) = n
      BY <1>3, <1>5, <2>2
    <3>2. Gap(gs[k], low) = Gap(fs[k - 1], sp) + n /\ Gap(fs[k - 1], sp) \in Nat
      BY <1>1, <1>4, <2>1
    <3> QED
      BY <1>2, <3>1, <3>2
  <2>3. CASE j # 1
    <3>1. j \in 2..Len(gs) /\ j - 1 \in 1..Len(fs) /\ gs[j] = fs[j - 1] /\ j - 1 < k - 1
      BY <1>1, <1>5, <1>6, <2>3
    <3>2. End(fs[j - 1], sp) <= Gap(fs[k - 1], sp)
      BY <2>1, <3>1 DEF Nested
    <3>3. /\ End(gs[j], low) = End(fs[j - 1], sp) + n /\ End(fs[j - 1], sp) \in Nat
          /\ Gap(gs[k], low) = Gap(fs[k - 1], sp) + n /\ Gap(fs[k - 1], sp) \in Nat
      BY <1>1, <1>4, <2>1, <3>1
    <3> QED
      BY <1>2, <3>2, <3>3
  <2> QED
    BY <2>2, <2>3
<1>10. \A k \in 1..Len(gs) : End(gs[k], low) <= 256
  <2> TAKE k \in 1..Len(gs)
  <2>1. CASE k = 1
    BY <1>2, <1>3, <1>5, <2>1
  <2>2. CASE k # 1
    <3>1. k - 1 \in 1..Len(fs) /\ gs[k] = fs[k - 1]
      BY <1>1, <1>5, <1>6, <2>2
    <3>2. End(fs[k - 1], sp) + n <= 256
      BY <3>1 DEF n
    <3> QED
      BY <1>1, <1>4, <3>1, <3>2
  <2> QED
    BY <2>1, <2>2
<1>11. Nested(gs, low)
  BY <1>5, <1>7, <1>8, <1>9, <1>10 DEF Nested
<1> QED
  BY <1>11 DEF gs, low

(* A return takes the innermost frame away. *)
LEMMA LeaveNested ==
    ASSUME NEW fs, NEW sp \in Byte, Nested(fs, sp), fs # <<>>, fs[1].over = 0
    PROVE  /\ Nested(Tail(fs), Up(sp, Size(fs[1].kind)))
           /\ \A k \in 1..Len(Tail(fs)) : k + 1 \in 1..Len(fs) /\ Tail(fs)[k] = fs[k + 1]
<1> DEFINE n == Size(fs[1].kind)
           high == Up(sp, n)
           gs == Tail(fs)
<1>1. /\ fs \in Seq(Frame) /\ Len(fs) \in Nat /\ 1 \in 1..Len(fs)
      /\ \A k \in 1..Len(fs) :
            /\ fs[k] \in Frame /\ fs[k].over \in Nat /\ End(fs[k], sp) <= 256
            /\ Gap(fs[k], sp) \in Nat /\ End(fs[k], sp) \in Nat
  BY NestedTyped
<1>2. Gap(fs[1], sp) = 0 /\ n \in 2..3 /\ End(fs[1], sp) = n
  <2>1. Gap(fs[1], sp) = 0 /\ n \in 2..3
    BY <1>1, LowestFirst, NestedTyped
  <2> QED
    BY <2>1 DEF End
<1>3. /\ gs \in Seq(Frame) /\ Len(gs) = Len(fs) - 1
      /\ \A k \in 1..Len(gs) : k + 1 \in 1..Len(fs) /\ gs[k] = fs[k + 1]
  BY <1>1
<1> HIDE DEF n, high, gs
<1>4. \A k \in 1..Len(gs) : Gap(gs[k], high) = Gap(fs[k + 1], sp) - n /\ End(gs[k], high) = End(fs[k + 1], sp) - n
  <2> TAKE k \in 1..Len(gs)
  <2>1. k + 1 \in 1..Len(fs) /\ gs[k] = fs[k + 1] /\ 1 < k + 1
    BY <1>3
  <2>2. End(fs[1], sp) <= Gap(fs[k + 1], sp)
    BY <1>1, <2>1 DEF Nested
  <2>3. Gap(fs[k + 1], sp) >= n /\ n \in 0..3
    BY <1>1, <1>2, <2>1, <2>2
  <2>4. fs[k + 1] \in Frame
    BY <1>1, <2>1
  <2>5. /\ Gap(fs[k + 1], Up(sp, n)) = Gap(fs[k + 1], sp) - n
        /\ End(fs[k + 1], Up(sp, n)) = End(fs[k + 1], sp) - n
    BY <2>3, <2>4, GapShifts
  <2> QED
    BY <2>1, <2>5 DEF high
<1>5. gs # <<>> => Gap(gs[1], high) = gs[1].over
  <2> HAVE gs # <<>>
  <2>1. 1 \in 1..Len(gs) /\ 2 \in 1..Len(fs) /\ gs[1] = fs[2] /\ 1 \in 1..(Len(fs) - 1)
    BY <1>1, <1>3
  <2>2. Gap(fs[1 + 1], sp) = End(fs[1], sp) + fs[1 + 1].over
    BY <2>1 DEF Nested
  <2>3. Gap(fs[2], sp) = n + fs[2].over
    BY <1>2, <2>2
  <2>4. Gap(gs[1], high) = Gap(fs[1 + 1], sp) - n
    BY <1>4, <2>1
  <2>5. fs[2].over \in Nat
    BY <1>1, <2>1
  <2> QED
    BY <1>2, <2>1, <2>3, <2>4, <2>5
<1>6. \A k \in 1..(Len(gs) - 1) : Gap(gs[k + 1], high) = End(gs[k], high) + gs[k + 1].over
  <2> TAKE k \in 1..(Len(gs) - 1)
  <2>1. /\ k \in 1..Len(gs) /\ k + 1 \in 1..Len(gs) /\ k + 1 \in 1..(Len(fs) - 1)
        /\ gs[k + 1] = fs[(k + 1) + 1] /\ (k + 1) + 1 \in 1..Len(fs) /\ k + 1 \in 1..Len(fs)
    BY <1>1, <1>3
  <2>2. Gap(fs[(k + 1) + 1], sp) = End(fs[k + 1], sp) + fs[(k + 1) + 1].over
    BY <2>1 DEF Nested
  <2>3. /\ Gap(gs[k + 1], high) = Gap(fs[(k + 1) + 1], sp) - n
        /\ End(gs[k], high) = End(fs[k + 1], sp) - n
    BY <1>4, <2>1
  <2>4. /\ Gap(fs[(k + 1) + 1], sp) \in Nat /\ End(fs[k + 1], sp) \in Nat
        /\ gs[k + 1].over = fs[(k + 1) + 1].over /\ gs[k + 1].over \in Nat
    BY <1>1, <2>1
  <2> QED
    BY <1>2, <2>2, <2>3, <2>4
<1>7. \A j, k \in 1..Len(gs) : j < k => End(gs[j], high) <= Gap(gs[k], high)
  <2> TAKE j, k \in 1..Len(gs)
  <2> HAVE j < k
  <2>1. j + 1 \in 1..Len(fs) /\ k + 1 \in 1..Len(fs) /\ j + 1 < k + 1
    BY <1>3
  <2>2. End(fs[j + 1], sp) <= Gap(fs[k + 1], sp)
    BY <2>1 DEF Nested
  <2>3. /\ End(gs[j], high) = End(fs[j + 1], sp) - n /\ End(fs[j + 1], sp) \in Nat
        /\ Gap(gs[k], high) = Gap(fs[k + 1], sp) - n /\ Gap(fs[k + 1], sp) \in Nat
    BY <1>1, <1>4, <2>1
  <2> QED
    BY <1>2, <2>2, <2>3
<1>8. \A k \in 1..Len(gs) : End(gs[k], high) <= 256
  <2> TAKE k \in 1..Len(gs)
  <2>1. End(gs[k], high) = End(fs[k + 1], sp) - n /\ End(fs[k + 1], sp) \in Nat /\ End(fs[k + 1], sp) <= 256
    BY <1>1, <1>3, <1>4
  <2> QED
    BY <1>2, <2>1
<1>9. Nested(gs, high)
  BY <1>3, <1>5, <1>6, <1>7, <1>8 DEF Nested
<1> QED
  BY <1>3, <1>9 DEF gs, high, n

-----------------------------------------------------------------------------
(***************************************************************************)
(* What keeps the frames as they were pushed.                              *)
(***************************************************************************)
LEMMA CellsApart ==
    ASSUME NEW f \in Frame, NEW sp \in Byte, NEW n \in 1..3, End(f, sp) + n <= 256,
           NEW i \in 1..Size(f.kind), NEW m \in 0..(n - 1)
    PROVE  Up(f.sp, i) # Down(sp, m)
<1>1. f.sp \in Byte /\ Size(f.kind) \in 2..3
  BY FrameTyped
<1>2. \A a \in Byte, size \in 2..3 :
          ((a - sp) % 256) + size + n <= 256 =>
              \A j \in 1..size : (a + j) % 256 # (sp - m) % 256
  BY SMTT(60) DEF Byte
<1> QED
  BY <1>1, <1>2 DEF End, Gap, Ahead, Up, Down

(* The pushes write the cells from sp down. *)
LEMMA PushedCells ==
    ASSUME NEW sp \in Byte, NEW vs \in Seq(Byte), Len(vs) \in 1..3
    PROVE  /\ DOMAIN Pushed(sp, vs) = DOMAIN page1 \cup Cells(sp, Len(vs))
           /\ \A i : i \in DOMAIN page1 /\ i \notin Cells(sp, Len(vs)) => Pushed(sp, vs)[i] = page1[i]
           /\ \A m \in 0..(Len(vs) - 1) :
                 /\ Down(sp, m) \in DOMAIN Pushed(sp, vs)
                 /\ Pushed(sp, vs)[Down(sp, m)] = vs[m + 1]
           /\ Cells(sp, Len(vs)) = {Down(sp, m) : m \in 0..(Len(vs) - 1)}
<1>1. \A m \in 0..2 : (sp - Down(sp, m)) % 256 = m
  BY SMTT(60) DEF Byte, Down
<1>2. Cells(sp, Len(vs)) = {Down(sp, m) : m \in 0..(Len(vs) - 1)}
  BY DEF Cells, Down
<1>3. DOMAIN Pushed(sp, vs) = DOMAIN page1 \cup Cells(sp, Len(vs))
  BY DEF Pushed
<1>4. \A i \in DOMAIN page1 \cup Cells(sp, Len(vs)) :
          Pushed(sp, vs)[i] = IF i \in Cells(sp, Len(vs)) THEN vs[((sp - i) % 256) + 1] ELSE page1[i]
  BY DEF Pushed
<1> DEFINE n == Len(vs)
<1>5. n \in 1..3
  OBVIOUS
<1> HIDE DEF n
<1>6. \A m \in 0..(n - 1) :
         /\ Down(sp, m) \in DOMAIN Pushed(sp, vs)
         /\ Pushed(sp, vs)[Down(sp, m)] = vs[m + 1]
  <2> TAKE m \in 0..(n - 1)
  <2> DEFINE c == Down(sp, m)
  <2>1. m \in 0..2
    BY <1>5
  <2>2. c \in Cells(sp, Len(vs))
    BY <1>2, Zenon DEF n
  <2>3. (sp - c) % 256 = m
    BY <1>1, <2>1
  <2> HIDE DEF c
  <2>4. Pushed(sp, vs)[c] = vs[((sp - c) % 256) + 1] /\ c \in DOMAIN Pushed(sp, vs)
    BY <1>3, <1>4, <2>2
  <2> QED
    BY <2>3, <2>4 DEF c
<1> QED
  BY <1>2, <1>3, <1>4, <1>6 DEF n

(* A push that does not reach a frame leaves its bytes alone. *)
LEMMA PushSpares ==
    ASSUME NEW sp \in Byte, NEW vs \in Seq(Byte), Len(vs) \in 1..3, NEW f \in Frame,
           End(f, sp) + Len(vs) <= 256, Holds(f, page1)
    PROVE  Holds(f, Pushed(sp, vs))
<1>1. f.sp \in Byte /\ Size(f.kind) \in 2..3
  BY FrameTyped
<1>2. \A i \in 1..Size(f.kind) : Up(f.sp, i) \notin Cells(sp, Len(vs))
  <2> TAKE i \in 1..Size(f.kind)
  <2> DEFINE n == Len(vs)
  <2>1. n \in 1..3 /\ End(f, sp) + n <= 256
    OBVIOUS
  <2>2. Cells(sp, n) = {Down(sp, m) : m \in 0..(n - 1)}
    BY PushedCells
  <2> HIDE DEF n
  <2>3. \A m \in 0..(n - 1) : Up(f.sp, i) # Down(sp, m)
    BY <2>1, CellsApart
  <2> QED
    BY <2>2, <2>3 DEF n
<1>3. ASSUME NEW i \in 1..Size(f.kind), NEW v, Within(f, i, v, page1)
      PROVE  Within(f, i, v, Pushed(sp, vs))
  <2> DEFINE cell == Up(f.sp, i)
  <2>1. cell \notin Cells(sp, Len(vs))
    BY <1>2
  <2>2. cell \in DOMAIN page1 /\ page1[cell] = v
    BY <1>3 DEF Within, Up
  <2> HIDE DEF cell
  <2>3. cell \in DOMAIN Pushed(sp, vs) /\ Pushed(sp, vs)[cell] = v
    BY <2>1, <2>2, PushedCells
  <2> QED
    BY <2>3 DEF Within, cell, Up
<1>4. CASE f.kind = "call"
  <2>1. 1 \in 1..Size(f.kind) /\ 2 \in 1..Size(f.kind)
    BY <1>1
  <2> QED
    BY <1>3, <1>4, <2>1 DEF Holds
<1>5. CASE f.kind # "call"
  <2>1. 1 \in 1..Size(f.kind) /\ 2 \in 1..Size(f.kind) /\ 3 \in 1..Size(f.kind)
    BY <1>5 DEF Size
  <2> QED
    BY <1>3, <1>5, <2>1 DEF Holds
<1> QED
  BY <1>4, <1>5

(* The bytes just pushed are where a frame with the new sp looks for them. *)
LEMMA PushedWithin ==
    ASSUME NEW sp \in Byte, NEW vs \in Seq(Byte), Len(vs) \in 1..3, NEW f,
           f.sp = Down(sp, Len(vs)), NEW i \in 1..Len(vs)
    PROVE  Within(f, i, vs[Len(vs) + 1 - i], Pushed(sp, vs))
<1> DEFINE n == Len(vs)
           m == n - i
<1>1. n \in 1..3 /\ i \in 1..n /\ f.sp = Down(sp, n)
  OBVIOUS
<1>2. \A k \in 0..(n - 1) : Down(sp, k) \in DOMAIN Pushed(sp, vs) /\ Pushed(sp, vs)[Down(sp, k)] = vs[k + 1]
  BY PushedCells
<1> HIDE DEF n
<1>3. m \in 0..(n - 1) /\ m + 1 = n + 1 - i
  BY <1>1
<1>4. Up(f.sp, i) = Down(sp, m)
  <2>1. \A h \in 1..3, j \in 1..3, k \in 0..2 : k = h - j => Up(Down(sp, h), j) = Down(sp, k)
    BY SMTT(60) DEF Byte, Down, Up
  <2>2. i \in 1..3 /\ m \in 0..2 /\ m = n - i
    BY <1>1
  <2> HIDE DEF m
  <2> QED
    BY <1>1, <2>1, <2>2
<1> HIDE DEF m
<1>5. Down(sp, m) \in DOMAIN Pushed(sp, vs) /\ Pushed(sp, vs)[Down(sp, m)] = vs[m + 1]
  BY <1>2, <1>3
<1> QED
  BY <1>3, <1>4, <1>5 DEF Within, Up, n

-----------------------------------------------------------------------------
(***************************************************************************)
(* What a push, an entry, a pull and a return make of the frames.          *)
(***************************************************************************)
LEMMA LeastOf ==
    ASSUME NEW T, T \subseteq Nat, T # {}
    PROVE  \E x \in T : \A y \in T : x <= y
<1> DEFINE R == {ss \in Nat \X Nat : ss[1] < ss[2]}
<1>1. IsWellFoundedOn(R, Nat)
  BY NatLessThanWellFounded DEF OpToRel
<1> HIDE DEF R
<1>2. PICK x \in T : \A y \in T : <<y, x>> \notin R
  BY <1>1, WFMin
<1>3. \A y \in T : x <= y
  <2> TAKE y \in T
  <2>1. x \in Nat /\ y \in Nat /\ ~(y < x)
    BY <1>2 DEF R
  <2> QED
    BY <2>1
<1> QED
  BY <1>3

(* The frames a push of n bytes does not reach. *)
LEMMA KeptSpared ==
    ASSUME StackInv, state.sp \in Byte, NEW n \in 1..3
    PROVE  /\ Nested(Kept(n), state.sp) /\ Intact(Kept(n), page1)
           /\ \A k \in 1..Len(Kept(n)) : End(Kept(n)[k], state.sp) + n <= 256
<1> DEFINE sp == state.sp
<1>1. Nested(frames, sp) /\ Intact(frames, page1) /\ sp \in Byte
  BY DEF StackInv
<1>2. /\ Len(frames) \in Nat
      /\ \A k \in 1..Len(frames) : End(frames[k], sp) \in Nat
  BY <1>1, NestedTyped
<1>3. /\ Reached(n) \subseteq 1..Len(frames)
      /\ \A k \in 1..Len(frames) : k \notin Reached(n) => End(frames[k], sp) + n <= 256
  <2>1. Reached(n) = {k \in 1..Len(frames) : End(frames[k], sp) + n > 256}
    BY DEF Reached, Above, End, Gap, Ahead
  <2> QED
    BY <1>2, <2>1
<1>4. CASE Reached(n) = {}
  BY <1>1, <1>3, <1>4 DEF Kept
<1>5. CASE Reached(n) # {}
  <2> DEFINE first == CHOOSE k \in Reached(n) : \A j \in Reached(n) : k <= j
             m == first - 1
  <2>1. first \in Reached(n) /\ \A j \in Reached(n) : first <= j
    <3>1. Reached(n) \subseteq Nat
      BY <1>2, <1>3
    <3> QED
      BY <1>5, <3>1, LeastOf
  <2>2. Kept(n) = SubSeq(frames, 1, m)
    BY <1>5 DEF Kept
  <2> HIDE DEF first
  <2>3. m \in 0..Len(frames) /\ \A k \in 1..m : k \in 1..Len(frames) /\ k \notin Reached(n)
    BY <1>2, <1>3, <2>1
  <2> HIDE DEF m
  <2>4. /\ Nested(Kept(n), sp) /\ Len(Kept(n)) = m
        /\ \A k \in 1..m : Kept(n)[k] = frames[k]
    BY <1>1, <2>2, <2>3, PrefixNested
  <2>5. Intact(Kept(n), page1)
    BY <1>1, <2>3, <2>4 DEF Intact
  <2> QED
    BY <1>3, <2>3, <2>4, <2>5
<1> QED
  BY <1>4, <1>5

LEMMA PushKeeps ==
    ASSUME StackInv, state.sp \in Byte, NEW v \in Byte, page1' = Pushed(state.sp, <<v>>),
           state'.sp = Down(state.sp, 1), frames' = Covered(1)
    PROVE  StackInv'
<1> DEFINE fs == Kept(1)
           gs == [fs EXCEPT ![1].over = @ + 1]
           sp == state.sp
<1>1. /\ Nested(fs, sp) /\ Intact(fs, page1)
      /\ \A k \in 1..Len(fs) : End(fs[k], sp) + 1 <= 256
      /\ sp \in Byte
  BY KeptSpared
<1>2. frames' = IF fs = <<>> THEN <<>> ELSE gs
  BY DEF Covered
<1>3. Nested(<<>>, state'.sp) /\ Intact(<<>>, page1')
  BY DEF Nested, Intact
<1>4. CASE fs = <<>>
  BY <1>2, <1>3, <1>4 DEF StackInv
<1>5. CASE fs # <<>>
  <2> HIDE DEF fs
  <2>1. /\ fs \in Seq(Frame) /\ Len(fs) \in Nat /\ 1 \in 1..Len(fs) /\ fs[1].over \in Nat
        /\ \A k \in 1..Len(fs) : fs[k] \in Frame
    BY <1>1, <1>5, NestedTyped
  <2>2. Nested(gs, Down(sp, 1))
    <3>1. fs[1].over + 1 \in Nat /\ 1 \in -3..3
      BY <2>1
    <3> QED
      BY <1>1, <1>5, <3>1, MoveNested
  <2>3. <<v>> \in Seq(Byte) /\ Len(<<v>>) = 1 /\ Len(<<v>>) \in 1..3
    OBVIOUS
  <2>4. \A k \in 1..Len(fs) : Holds(fs[k], page1')
    BY <1>1, <2>1, <2>3, PushSpares DEF Intact
  <2> DEFINE m == fs[1].over + 1
             g == [fs[1] EXCEPT !.over = m]
  <2>5. m \in Nat
    BY <2>1
  <2>6. gs = [fs EXCEPT ![1] = g]
    BY <2>1
  <2> HIDE DEF m
  <2>7. g \in Frame /\ Holds(g, page1')
    BY <2>1, <2>4, <2>5, Recounted
  <2> HIDE DEF g, gs
  <2>8. Intact(gs, page1')
    BY <2>1, <2>4, <2>6, <2>7 DEF Intact
  <2> QED
    BY <1>2, <1>5, <2>2, <2>8 DEF StackInv
<1> QED
  BY <1>4, <1>5

LEMMA EnterKeeps ==
    ASSUME StackInv, state.sp \in Byte, NEW kind \in {"call", "brk", "nmi"},
           NEW s, s.sp = state.sp, s.pc \in Address, s.flags \in SUBSET FlagNames,
           NEW vs \in Seq(Byte), Len(vs) = Size(kind), page1' = Pushed(state.sp, vs),
           state'.sp = Down(state.sp, Size(kind)), frames' = Enter(kind, s, state'.sp),
           kind = "call" => /\ vs[1] = High(Wrapped(s.pc - 1))
                            /\ vs[2] = Low(Wrapped(s.pc - 1)),
           kind # "call" => /\ vs[1] = High(s.pc) /\ vs[2] = Low(s.pc)
                            /\ vs[3] = ByteOf(PushedFlags(kind = "brk", s.flags))
    PROVE  StackInv'
<1> DEFINE n == Size(kind)
           fs == Kept(n)
           sp == state.sp
           f == [kind |-> kind, pc |-> s.pc, flags |-> s.flags, sp |-> state'.sp, over |-> 0]
<1>1. n \in 1..3 /\ (kind = "call" => n = 2) /\ (kind # "call" => n = 3)
  BY DEF Size
<1>2. /\ Nested(fs, sp) /\ Intact(fs, page1) /\ sp \in Byte
      /\ \A k \in 1..Len(fs) : End(fs[k], sp) + n <= 256
  BY <1>1, KeptSpared
<1>3. frames' = <<f>> \o fs
  BY DEF Enter
<1>4. f \in Frame /\ f.sp = Down(sp, n) /\ f.over = 0 /\ f.kind = kind /\ f.pc = s.pc /\ f.flags = s.flags
  <2>1. Down(sp, n) \in Byte
    BY <1>1, ByteTyped, ByteIsInt DEF Down
  <2> QED
    BY <2>1 DEF Frame
<1> HIDE DEF fs, f
<1>5. Nested(frames', state'.sp)
  <2>1. f.sp = Down(sp, Size(f.kind)) /\ f \in Frame /\ f.over = 0
    BY <1>4 DEF n
  <2>2. \A k \in 1..Len(fs) : End(fs[k], sp) + Size(f.kind) <= 256
    BY <1>2, <1>4 DEF n
  <2>3. Nested(<<f>> \o fs, f.sp)
    BY <1>2, <2>1, <2>2, EnterNested
  <2> QED
    BY <1>3, <1>4, <2>3 DEF n
<1>6. \A k \in 1..Len(fs) : Holds(fs[k], page1')
  <2>1. \A k \in 1..Len(fs) : fs[k] \in Frame /\ Holds(fs[k], page1)
    BY <1>2, NestedTyped DEF Intact
  <2> QED
    BY <1>1, <1>2, <2>1, PushSpares
<1>7. \A i \in 1..n : Within(f, i, vs[n + 1 - i], page1')
  BY <1>1, <1>2, <1>4, PushedWithin
<1>8. Holds(f, page1')
  <2>1. CASE kind = "call"
    <3>1. n = 2 /\ Within(f, 1, vs[2], page1') /\ Within(f, 2, vs[1], page1')
      BY <1>1, <1>7, <2>1
    <3> QED
      BY <1>4, <2>1, <3>1 DEF Holds
  <2>2. CASE kind # "call"
    <3>1. n = 3 /\ Within(f, 1, vs[3], page1') /\ Within(f, 2, vs[2], page1') /\ Within(f, 3, vs[1], page1')
      BY <1>1, <1>7, <2>2
    <3> QED
      BY <1>4, <2>2, <3>1 DEF Holds
  <2> QED
    BY <2>1, <2>2
<1>9. \A k \in 1..Len(frames') : Holds(frames'[k], page1')
  <2>1. fs \in Seq(Frame) /\ Len(fs) \in Nat
    BY <1>2, NestedTyped
  <2>2. Len(frames') = Len(fs) + 1 /\ frames'[1] = f /\ \A k \in 1..Len(fs) : frames'[k + 1] = fs[k]
    BY <1>3, <1>4, <2>1
  <2> TAKE k \in 1..Len(frames')
  <2>3. CASE k = 1
    BY <1>8, <2>2, <2>3
  <2>4. CASE k # 1
    <3>1. k - 1 \in 1..Len(fs) /\ (k - 1) + 1 = k
      BY <2>1, <2>2, <2>4
    <3>2. frames'[k] = fs[k - 1]
      BY <2>2, <3>1
    <3> QED
      BY <1>6, <3>1, <3>2
  <2> QED
    BY <2>3, <2>4
<1> QED
  BY <1>5, <1>9 DEF StackInv, Intact

LEMMA PullKeeps ==
    ASSUME StackInv, state.sp \in Byte, NEW n \in 1..3, UNCHANGED page1,
           state'.sp = Up(state.sp, n), frames' = Uncovered(n)
    PROVE  StackInv'
<1> DEFINE fs == frames
           gs == [fs EXCEPT ![1].over = @ - n]
           sp == state.sp
<1>1. Nested(fs, sp) /\ Intact(fs, page1) /\ sp \in Byte
  BY DEF StackInv
<1>2. CASE fs # <<>> /\ fs[1].over >= n
  <2>1. frames' = gs
    BY <1>2 DEF Uncovered
  <2>2. /\ fs \in Seq(Frame) /\ Len(fs) \in Nat /\ 1 \in 1..Len(fs) /\ fs[1].over \in Nat
        /\ \A k \in 1..Len(fs) : fs[k] \in Frame
    BY <1>1, <1>2, NestedTyped
  <2> DEFINE d == -n
             m == fs[1].over + d
             g == [fs[1] EXCEPT !.over = m]
  <2>3. d \in -3..3 /\ m \in Nat /\ ~(d > 0) /\ Down(sp, d) = Up(sp, n) /\ m = fs[1].over - n
    BY <1>1, <1>2, <2>2, ByteIsInt DEF Down, Up
  <2>4. gs = [fs EXCEPT ![1] = g]
    BY <2>2, <2>3
  <2>5. [fs EXCEPT ![1].over = @ + d] = [fs EXCEPT ![1] = g]
    BY <2>2
  <2> HIDE DEF d
  <2>6. Nested([fs EXCEPT ![1].over = @ + d], Down(sp, d))
    BY <1>1, <1>2, <2>3, MoveNested
  <2>7. Nested(gs, Up(sp, n))
    BY <2>3, <2>4, <2>5, <2>6
  <2> HIDE DEF m
  <2>8. g \in Frame /\ Holds(g, page1)
    BY <1>1, <2>2, <2>3, Recounted DEF Intact
  <2> HIDE DEF g, gs
  <2>9. Intact(gs, page1)
    BY <1>1, <2>2, <2>4, <2>8 DEF Intact
  <2> QED
    BY <2>1, <2>7, <2>9 DEF StackInv
<1>3. CASE ~(fs # <<>> /\ fs[1].over >= n)
  <2>1. frames' = <<>>
    BY <1>3 DEF Uncovered
  <2> QED
    BY <2>1 DEF StackInv, Nested, Intact
<1> QED
  BY <1>2, <1>3

LEMMA ReturnKeeps ==
    ASSUME StackInv, state.sp \in Byte, NEW kinds, NEW n \in 1..3, UNCHANGED page1,
           \A kind \in kinds : Size(kind) = n,
           state'.sp = Up(state.sp, n), frames' = Leave(kinds, n)
    PROVE  StackInv'
<1>1. CASE Returning(kinds)
  <2>1. frames # <<>> /\ frames[1].over = 0 /\ Size(frames[1].kind) = n /\ frames' = Tail(frames)
    BY <1>1 DEF Returning, Leave
  <2>2. /\ Nested(Tail(frames), Up(state.sp, n))
        /\ \A k \in 1..Len(Tail(frames)) :
              k + 1 \in 1..Len(frames) /\ Tail(frames)[k] = frames[k + 1]
    BY <2>1, LeaveNested DEF StackInv
  <2>3. Intact(Tail(frames), page1)
    BY <2>2 DEF StackInv, Intact
  <2> QED
    BY <2>1, <2>2, <2>3 DEF StackInv
<1>2. CASE ~Returning(kinds)
  <2>1. frames' = Uncovered(n)
    BY <1>2 DEF Leave
  <2> QED
    BY <2>1, PullKeeps
<1> QED
  BY <1>1, <1>2

(* Whatever leaves page, frames and sp alone, or gives the frames up. *)
Undisturbed ==
    \/ frames' = <<>>
    \/ UNCHANGED <<page1, frames>> /\ state'.sp = state.sp

LEMMA UndisturbedKeeps ==
    ASSUME StackInv, Undisturbed
    PROVE  StackInv'
<1>1. CASE frames' = <<>>
  BY <1>1 DEF StackInv, Nested, Intact
<1>2. CASE UNCHANGED <<page1, frames>> /\ state'.sp = state.sp
  BY <1>2 DEF StackInv
<1> QED
  BY <1>1, <1>2 DEF Undisturbed

-----------------------------------------------------------------------------
(***************************************************************************)
(* The handlers that do not use the stack.                                 *)
(***************************************************************************)
LEMMA WithSp ==
    ASSUME NEW s, StateOK(s)
    PROVE  /\ \A flags : [s EXCEPT !.flags = flags].sp = s.sp
           /\ \A n : [s EXCEPT !.pc = n].sp = s.sp
           /\ \A r \in {"a", "x", "y"}, v \in Byte : [s EXCEPT ![r] = v].sp = s.sp
BY DEF StateOK, Regs

LEMMA SpKept ==
    ASSUME NEW s, StateOK(s)
    PROVE  /\ \A val : SetC(s, val).sp = s.sp
           /\ \A v : Zn(s, v).sp = s.sp
           /\ \A r \in {"a", "x", "y"}, v \in Byte : SetReg(s, r, v).sp = s.sp
<1>1. \A val : SetC(s, val).sp = s.sp
  BY WithSp DEF SetC
<1>2. ASSUME NEW t, StateOK(t) PROVE \A v : Zn(t, v).sp = t.sp
  BY <1>2, WithSp DEF Zn
<1>3. ASSUME NEW r \in {"a", "x", "y"}, NEW v \in Byte PROVE SetReg(s, r, v).sp = s.sp
  <2> DEFINE t == [s EXCEPT ![r] = v]
  <2>1. StateOK(t) /\ t.sp = s.sp
    BY RegisterOK, WithSp
  <2> HIDE DEF t
  <2>2. SetReg(s, r, v) = Zn(t, v)
    BY DEF SetReg, t
  <2> QED
    BY <1>2, <2>1, <2>2
<1> QED
  BY <1>1, <1>2, <1>3

LEMMA ArithmeticSp ==
    ASSUME NEW s, StateOK(s), NEW v \in Byte
    PROVE  /\ AddBinary(s, v).sp = s.sp /\ SubtractBinary(s, v).sp = s.sp
           /\ \A r : Compared(s, r, v).sp = s.sp
<1> DEFINE sum == s.a + v + (IF "C" \in s.flags THEN 1 ELSE 0)
           diff == s.a - v - (IF "C" \in s.flags THEN 0 ELSE 1)
           r == sum % 256
           d == diff % 256
           over == Bit(s.a, 7) = Bit(v, 7) /\ Bit(s.a, 7) # Bit(r, 7)
           under == Bit(s.a, 7) # Bit(v, 7) /\ Bit(s.a, 7) # Bit(d, 7)
           added == [SetC(s, sum > 255) EXCEPT !.flags = SetFlag(@, "V", over)]
           taken == [SetC(s, diff >= 0) EXCEPT !.flags = SetFlag(@, "V", under)]
<1>1. r \in Byte /\ d \in Byte
  BY RegistersTyped, ByteIsInt, ByteTyped
<1>2. AddBinary(s, v) = SetReg(added, "a", r) /\ SubtractBinary(s, v) = SetReg(taken, "a", d)
  BY DEF AddBinary, SubtractBinary
<1> HIDE DEF sum, diff, r, d, over, under
<1>3. StateOK(added) /\ StateOK(taken) /\ added.sp = s.sp /\ taken.sp = s.sp
  <2>1. \A val : StateOK(SetC(s, val)) /\ SetC(s, val).sp = s.sp
    BY SetCOK, SpKept
  <2> QED
    BY <2>1, SetFlagOK, WithSp
<1> HIDE DEF added, taken
<1>4. SetReg(added, "a", r).sp = s.sp /\ SetReg(taken, "a", d).sp = s.sp
  BY <1>1, <1>3, SpKept
<1>5. ASSUME NEW q PROVE Compared(s, q, v).sp = s.sp
  <2>1. \A val : StateOK(SetC(s, val)) /\ SetC(s, val).sp = s.sp
    BY SetCOK, SpKept
  <2> QED
    BY <2>1, SpKept DEF Compared
<1> QED
  BY <1>2, <1>4, <1>5

(* The shapes: what reads, what does not use the bus, what stores. *)
LEMMA ShapesUndisturbed ==
    ASSUME state'.sp = state.sp
    PROVE  /\ \A name, v : Reads(name, v) => Undisturbed
           /\ \A name : Internal(name) => Undisturbed
           /\ \A name : InternalStep(name) => Undisturbed
           /\ \A name, a, v : StoresAt(name, a, v) => Undisturbed
           /\ \A name, v, new : Modifying(name, v, new) => Undisturbed
<1>1. \A name, v : Reads(name, v) => Undisturbed
  BY DEF Reads, Undisturbed
<1>2. \A name : Internal(name) => Undisturbed
  BY DEF Internal, Undisturbed
<1>3. \A name : InternalStep(name) => Undisturbed
  BY <1>2 DEF InternalStep
<1>4. \A a, v : page1' = Stored(a, v) /\ frames' = FramesAfterStore(a) => Undisturbed
  BY DEF Stored, FramesAfterStore, Undisturbed
<1>5. \A name, a, v : StoresAt(name, a, v) => Undisturbed
  BY <1>4 DEF StoresAt
<1>6. \A name, v, new : Modifying(name, v, new) => Undisturbed
  BY <1>4 DEF Modifying
<1> QED
  BY <1>1, <1>2, <1>3, <1>5, <1>6

LEMMA ArithmeticUndisturbed ==
    ASSUME TypeInv, Adc \/ Sbc \/ AndA \/ Logic \/ Compare \/ BitTest
    PROVE  Undisturbed
<1>1. ASSUME Adc \/ Sbc PROVE Undisturbed
  <2>1. PICK v \in Byte :
            \/ Reads("adc", v) /\ state' = AddBinary(state, v)
            \/ Reads("sbc", v) /\ state' = SubtractBinary(state, v)
    BY <1>1, Values DEF Adc, Sbc
  <2> QED
    BY <2>1, Values, ArithmeticSp, ShapesUndisturbed
<1>2. ASSUME AndA \/ Logic PROVE Undisturbed
  <2>1. PICK v \in Byte :
            \/ Reads("and_", v) /\ state' = SetReg(state, "a", And(state.a, v))
            \/ Reads("eor", v) /\ state' = SetReg(state, "a", Xor(state.a, v))
            \/ Reads("ora", v) /\ state' = SetReg(state, "a", Or(state.a, v))
    BY <1>2, Values DEF AndA, Logic
  <2>2. And(state.a, v) \in Byte /\ Or(state.a, v) \in Byte /\ Xor(state.a, v) \in Byte
    BY Values, LogicTyped
  <2> QED
    BY <2>1, <2>2, Values, SpKept, ShapesUndisturbed
<1>3. ASSUME Compare PROVE Undisturbed
  <2>1. PICK v \in Byte :
            \/ Reads("cmp", v) /\ state' = Compared(state, "a", v)
            \/ Reads("cpx", v) /\ state' = Compared(state, "x", v)
            \/ Reads("cpy", v) /\ state' = Compared(state, "y", v)
    BY <1>3, Values DEF Compare
  <2> QED
    BY <2>1, Values, ArithmeticSp, ShapesUndisturbed
<1>4. ASSUME BitTest PROVE Undisturbed
  <2> DEFINE s(v) == Zn(state, And(state.a, v))
             flags(v) == SetFlag(SetFlag(s(v).flags, "V", Bit(v, 6) = 1), "N", Bit(v, 7) = 1)
  <2>1. PICK v \in Byte : Reads("bit", v) /\ state' = [s(v) EXCEPT !.flags = flags(v)]
    BY <1>4, Values DEF BitTest
  <2>2. StateOK(s(v)) /\ s(v).sp = state.sp
    BY Values, ZnOK, SpKept
  <2> HIDE DEF s, flags
  <2>3. state'.sp = state.sp
    BY <2>1, <2>2, WithSp
  <2> QED
    BY <2>1, <2>3, ShapesUndisturbed
<1> QED
  BY <1>1, <1>2, <1>3, <1>4

LEMMA ShiftUndisturbed ==
    ASSUME TypeInv, Asl \/ Lsr \/ Rol \/ Ror
    PROVE  Undisturbed
<1>1. \A v \in Byte : /\ LeftOf(v, 0) \in Byte /\ RightOf(v, 0) \in Byte
                      /\ LeftOf(v, Carry) \in Byte /\ RightOf(v, Carry) \in Byte
  BY ShiftsTyped, CarryTyped
<1>2. ASSUME NEW name, NEW v \in Byte, NEW new \in Byte, NEW c,
             Modifying(name, v, new), state' = Zn(SetC(state, c), new)
      PROVE  Undisturbed
  <2>1. state'.sp = state.sp
    BY <1>2, Values, SetCOK, SpKept
  <2> QED
    BY <1>2, <2>1, ShapesUndisturbed
<1>3. ASSUME NEW name, NEW new \in Byte, NEW c,
             InternalStep(name), state' = SetReg(SetC(state, c), "a", new)
      PROVE  Undisturbed
  <2>1. state'.sp = state.sp
    BY <1>3, Values, SetCOK, SpKept
  <2> QED
    BY <1>3, <2>1, ShapesUndisturbed
<1>4. Answers(addr) \subseteq Byte /\ state.a \in Byte
  BY Values
<1>5. ASSUME Asl PROVE Undisturbed
  BY <1>1, <1>2, <1>3, <1>4, <1>5 DEF Asl
<1>6. ASSUME Lsr PROVE Undisturbed
  BY <1>1, <1>2, <1>3, <1>4, <1>6 DEF Lsr
<1>7. ASSUME Rol PROVE Undisturbed
  BY <1>1, <1>2, <1>3, <1>4, <1>7 DEF Rol
<1>8. ASSUME Ror PROVE Undisturbed
  BY <1>1, <1>2, <1>3, <1>4, <1>8 DEF Ror
<1> QED
  BY <1>5, <1>6, <1>7, <1>8

LEMMA IncDecUndisturbed ==
    ASSUME TypeInv, IncDec
    PROVE  Undisturbed
<1> DEFINE up(v) == (v + 1) % 256
           down(v) == (v - 1) % 256
<1>1. \A v \in Byte : up(v) \in Byte /\ down(v) \in Byte
  BY StepsOfByte
<1>2. \/ \E v \in Byte :
             \/ Modifying("inc", v, up(v)) /\ state' = Zn(state, up(v))
             \/ Modifying("dec", v, down(v)) /\ state' = Zn(state, down(v))
      \/ InternalStep("inx") /\ state' = SetReg(state, "x", up(state.x))
      \/ InternalStep("iny") /\ state' = SetReg(state, "y", up(state.y))
      \/ InternalStep("dex") /\ state' = SetReg(state, "x", down(state.x))
      \/ InternalStep("dey") /\ state' = SetReg(state, "y", down(state.y))
  BY Values DEF IncDec
<1> HIDE DEF up, down
<1>3. state'.sp = state.sp
  BY <1>1, <1>2, Values, SpKept
<1> QED
  BY <1>2, <1>3, ShapesUndisturbed

LEMMA LoadStoreUndisturbed ==
    ASSUME TypeInv, Load \/ Store \/ Transfer \/ Txs \/ Nop
    PROVE  Undisturbed
<1>1. ASSUME Load PROVE Undisturbed
  <2>1. PICK v \in Byte :
            \/ Reads("lda", v) /\ state' = SetReg(state, "a", v)
            \/ Reads("ldx", v) /\ state' = SetReg(state, "x", v)
            \/ Reads("ldy", v) /\ state' = SetReg(state, "y", v)
    BY <1>1, Values DEF Load
  <2> QED
    <3>1. Reads("lda", v) \/ Reads("ldx", v) \/ Reads("ldy", v)
      BY <2>1
    <3>2. state'.sp = state.sp
      BY <2>1, Values, SpKept
    <3> QED
      BY <3>1, <3>2, ShapesUndisturbed
<1>2. ASSUME Store PROVE Undisturbed
  BY <1>2, ShapesUndisturbed DEF Store
<1>3. ASSUME Transfer PROVE Undisturbed
  <2>1. PICK from \in {"a", "x", "y", "sp"}, to \in {"a", "x", "y"},
                name \in {"tax", "txa", "tay", "tya", "tsx"} :
            InternalStep(name) /\ state' = SetReg(state, to, state[from])
    BY <1>3, SMTT(30) DEF Transfer
  <2>2. state[from] \in Byte
    BY Values
  <2> QED
    BY <2>1, <2>2, Values, SpKept, ShapesUndisturbed
<1>4. ASSUME Txs PROVE Undisturbed
  BY <1>4 DEF Txs, Undisturbed
<1>5. ASSUME Nop PROVE Undisturbed
  BY <1>5, ShapesUndisturbed DEF Nop
<1> QED
  BY <1>1, <1>2, <1>3, <1>4, <1>5

LEMMA FlagUndisturbed ==
    ASSUME TypeInv, FlagInstruction
    PROVE  Undisturbed
<1>1. \E flags : state' = [state EXCEPT !.flags = flags]
  BY ZenonT(40) DEF FlagInstruction, SetC, SetFlag
<1>2. state'.sp = state.sp
  BY <1>1, Values, WithSp
<1> QED
  BY <1>2, ShapesUndisturbed DEF FlagInstruction

LEMMA JumpUndisturbed ==
    ASSUME TypeInv, BranchCarryZero \/ BranchSignZero \/ BranchOverflow \/ Bbs \/ Jmp \/ IndJmp
    PROVE  Undisturbed
<1>1. \A n : [state EXCEPT !.pc = n].sp = state.sp
  BY Values, WithSp
<1>2. ASSUME NEW before, NEW disp, NEW cond, BranchOn(before, disp, cond)
      PROVE  Undisturbed
  <2> DEFINE target == Wrapped(state.pc + Signed(disp))
  <2>1. /\ state' = IF cond THEN [state EXCEPT !.pc = target] ELSE state
        /\ UNCHANGED <<page1, frames>>
    BY <1>2 DEF BranchOn
  <2> HIDE DEF target
  <2> QED
    BY <1>1, <2>1 DEF Undisturbed
<1>3. \A conditions : Branch(conditions) => Undisturbed
  BY <1>2 DEF Branch
<1>4. ASSUME Bbs PROVE Undisturbed
  BY <1>2, <1>4 DEF Bbs
<1>5. ASSUME Jmp PROVE Undisturbed
  BY <1>1, <1>5, ShapesUndisturbed DEF Jmp
<1>6. ASSUME IndJmp PROVE Undisturbed
  <2>1. UNCHANGED <<page1, frames>> /\ \E n : state' = [state EXCEPT !.pc = n]
    BY <1>6 DEF IndJmp
  <2> QED
    BY <1>1, <2>1 DEF Undisturbed
<1> QED
  BY <1>3, <1>4, <1>5, <1>6 DEF BranchCarryZero, BranchSignZero, BranchOverflow

LEMMA ReadersUndisturbed ==
    ASSUME TypeInv, Alr \/ Anc \/ Arr \/ Axs \/ Lax \/ Atx
    PROVE  Undisturbed
<1>1. StateOK(state) /\ Answers(addr) \subseteq Byte
  BY Values
<1>2. \A v \in Byte : And(state.a, v) \in Byte
  BY Values, LogicTyped
<1>3. ASSUME NEW r \in {"a", "x", "y"}, NEW c, NEW v \in Byte
      PROVE  SetReg(SetC(state, c), r, v).sp = state.sp /\ SetC(SetReg(state, r, v), c).sp = state.sp
  <2>1. r \in {"a", "x", "y", "sp"} /\ StateOK(SetC(state, c)) /\ SetC(state, c).sp = state.sp
    BY <1>1, SetCOK, SpKept
  <2>2. StateOK(SetReg(state, r, v)) /\ SetReg(state, r, v).sp = state.sp
    BY <1>1, <2>1, SetRegOK, SpKept
  <2> QED
    BY <2>1, <2>2, SpKept
<1>4. ASSUME Alr PROVE Undisturbed
  <2> DEFINE r(v) == RightOf(And(state.a, v), 0)
             c(v) == Bit(And(state.a, v), 0) = 1
  <2>1. PICK v \in Byte : Reads("alr", v) /\ state' = SetReg(SetC(state, c(v)), "a", r(v))
    BY <1>1, <1>4 DEF Alr
  <2>2. r(v) \in Byte
    BY <1>2, ShiftsTyped, CarryTyped
  <2> HIDE DEF r, c
  <2> QED
    BY <1>3, <2>1, <2>2, ShapesUndisturbed
<1>5. ASSUME Anc PROVE Undisturbed
  <2> DEFINE r(v) == And(state.a, v)
             c(v) == Bit(r(v), 7) = 1
  <2>1. PICK v \in Byte : Reads("anc", v) /\ state' = SetC(SetReg(state, "a", r(v)), c(v))
    BY <1>1, <1>5 DEF Anc
  <2>2. r(v) \in Byte
    BY <1>2
  <2> HIDE DEF r, c
  <2> QED
    BY <1>3, <2>1, <2>2, ShapesUndisturbed
<1>6. ASSUME Arr PROVE Undisturbed
  <2> DEFINE r(v) == RightOf(And(state.a, v), Carry)
             c(v) == Bit(r(v), 6) = 1
             s(v) == SetC(SetReg(state, "a", r(v)), c(v))
             flags(v) == SetFlag(s(v).flags, "V", Bit(r(v), 6) # Bit(r(v), 5))
  <2>1. PICK v \in Byte : Reads("arr", v) /\ state' = [s(v) EXCEPT !.flags = flags(v)]
    BY <1>1, <1>6 DEF Arr
  <2>2. r(v) \in Byte
    BY <1>2, ShiftsTyped, CarryTyped
  <2> HIDE DEF r, c, flags
  <2>3. StateOK(s(v)) /\ s(v).sp = state.sp
    BY <1>1, <1>3, <2>2, SetCOK, SetRegOK
  <2> HIDE DEF s
  <2>4. state'.sp = state.sp
    BY <2>1, <2>3, WithSp
  <2> QED
    BY <2>1, <2>4, ShapesUndisturbed
<1>7. ASSUME Axs PROVE Undisturbed
  <2> DEFINE diff(v) == And(state.x, state.a) - v
             c(v) == diff(v) >= 0
             r(v) == diff(v) % 256
  <2>1. PICK v \in Byte : Reads("axs", v) /\ state' = SetReg(SetC(state, c(v)), "x", r(v))
    BY <1>1, <1>7 DEF Axs
  <2>2. r(v) \in Byte
    <3>1. And(state.x, state.a) \in Byte
      BY Values, LogicTyped
    <3>2. diff(v) \in Int
      BY <3>1, ByteIsInt
    <3> QED
      BY <3>2, ByteTyped
  <2> HIDE DEF r, c
  <2> QED
    BY <1>3, <2>1, <2>2, ShapesUndisturbed
<1>8. ASSUME Lax \/ Atx PROVE Undisturbed
  <2> DEFINE s(v) == [state EXCEPT !.x = v]
  <2>1. PICK v \in Byte, name \in {"lax", "atx"} : Reads(name, v) /\ state' = SetReg(s(v), "a", v)
    BY <1>1, <1>8 DEF Lax, Atx
  <2>2. StateOK(s(v)) /\ s(v).sp = state.sp
    BY <1>1, RegisterOK, WithSp
  <2> HIDE DEF s
  <2>3. state'.sp = state.sp
    BY <2>1, <2>2, SpKept
  <2> QED
    BY <2>1, <2>3, ShapesUndisturbed
<1> QED
  BY <1>4, <1>5, <1>6, <1>7, <1>8

LEMMA ModifiersUndisturbed ==
    ASSUME TypeInv, Dcp \/ Isc \/ Rla \/ Rra \/ Slo \/ Sre
    PROVE  Undisturbed
<1>1. StateOK(state) /\ Answers(addr) \subseteq Byte /\ state.a \in Byte
  BY Values
<1>2. \A v \in Byte : /\ LeftOf(v, 0) \in Byte /\ RightOf(v, 0) \in Byte
                      /\ LeftOf(v, Carry) \in Byte /\ RightOf(v, Carry) \in Byte
  BY ShiftsTyped, CarryTyped
<1>3. ASSUME Dcp PROVE Undisturbed
  <2> DEFINE new(v) == (v - 1) % 256
  <2>1. PICK v \in Byte : Modifying("dcp", v, new(v)) /\ state' = Compared(state, "a", new(v))
    BY <1>1, <1>3 DEF Dcp
  <2>2. new(v) \in Byte
    BY StepsOfByte
  <2> HIDE DEF new
  <2> QED
    BY <1>1, <2>1, <2>2, ArithmeticSp, ShapesUndisturbed
<1>4. ASSUME Isc PROVE Undisturbed
  <2> DEFINE new(v) == (v + 1) % 256
  <2>1. PICK v \in Byte : Modifying("isc", v, new(v)) /\ state' = SubtractBinary(state, new(v))
    BY <1>1, <1>4 DEF Isc
  <2>2. new(v) \in Byte
    BY StepsOfByte
  <2> HIDE DEF new
  <2> QED
    BY <1>1, <2>1, <2>2, ArithmeticSp, ShapesUndisturbed
<1>5. ASSUME Rra PROVE Undisturbed
  <2> DEFINE c(v) == Bit(v, 0) = 1
             s(v) == SetC(state, c(v))
  <2>1. PICK v \in Byte : /\ Modifying("rra", v, RightOf(v, Carry))
                          /\ state' = AddBinary(s(v), RightOf(v, Carry))
    BY <1>1, <1>5 DEF Rra
  <2>2. StateOK(s(v)) /\ s(v).sp = state.sp
    BY <1>1, SetCOK, SpKept
  <2> HIDE DEF c, s
  <2>3. state'.sp = state.sp
    BY <1>2, <2>1, <2>2, ArithmeticSp
  <2> QED
    BY <2>1, <2>3, ShapesUndisturbed
<1>6. ASSUME NEW name, NEW v \in Byte, NEW new \in Byte, NEW c, NEW r \in Byte,
             Modifying(name, v, new), state' = SetReg(SetC(state, c), "a", r)
      PROVE  Undisturbed
  <2>1. state'.sp = state.sp
    BY <1>1, <1>6, SetCOK, SpKept
  <2> QED
    BY <1>6, <2>1, ShapesUndisturbed
<1>7. ASSUME Rla \/ Slo \/ Sre PROVE Undisturbed
  <2> DEFINE c(v, i) == Bit(v, i) = 1
  <2>1. PICK v \in Byte :
            \/ /\ Modifying("rla", v, LeftOf(v, Carry))
               /\ state' = SetReg(SetC(state, c(v, 7)), "a", And(state.a, LeftOf(v, Carry)))
            \/ /\ Modifying("slo", v, LeftOf(v, 0))
               /\ state' = SetReg(SetC(state, c(v, 7)), "a", Or(state.a, LeftOf(v, 0)))
            \/ /\ Modifying("sre", v, RightOf(v, 0))
               /\ state' = SetReg(SetC(state, c(v, 0)), "a", Xor(state.a, RightOf(v, 0)))
    BY <1>1, <1>7 DEF Rla, Slo, Sre
  <2> HIDE DEF c
  <2>2. /\ And(state.a, LeftOf(v, Carry)) \in Byte /\ Or(state.a, LeftOf(v, 0)) \in Byte
        /\ Xor(state.a, RightOf(v, 0)) \in Byte
    BY <1>1, <1>2, LogicTyped
  <2> QED
    BY <1>2, <1>6, <2>1, <2>2
<1> QED
  BY <1>3, <1>4, <1>5, <1>7

LEMMA StoresUndisturbed ==
    ASSUME Sax \/ Say \/ Xas \/ InvalidOpcode
    PROVE  Undisturbed
<1>1. ASSUME NEW name, NEW a, NEW v, StoresAt(name, a, v), UNCHANGED state
      PROVE  Undisturbed
  BY <1>1, ShapesUndisturbed
<1>2. ASSUME Sax PROVE Undisturbed
  BY <1>1, <1>2 DEF Sax
<1>3. ASSUME NEW name, NEW r, NEW index, MaskedStore(name, r, index)
      PROVE  Undisturbed
  BY <1>1, <1>3 DEF MaskedStore
<1>4. ASSUME Say \/ Xas PROVE Undisturbed
  BY <1>3, <1>4 DEF Say, Xas
<1>5. ASSUME InvalidOpcode PROVE Undisturbed
  BY <1>5 DEF InvalidOpcode, Undisturbed
<1> QED
  BY <1>2, <1>4, <1>5

LEMMA BetweenUndisturbed ==
    ASSUME TypeInv, Fetch \/ AddressMode \/ NoInterrupt \/ RaiseNmi \/ UNCHANGED vars
    PROVE  Undisturbed
<1>1. \A n : [state EXCEPT !.pc = n].sp = state.sp
  BY Values, WithSp
<1>2. ASSUME Fetch PROVE Undisturbed
  <2>1. UNCHANGED <<page1, frames>> /\ \E n : state' = [state EXCEPT !.pc = n]
    BY <1>2 DEF Fetch
  <2> QED
    BY <1>1, <2>1 DEF Undisturbed
<1>3. ASSUME AddressMode PROVE Undisturbed
  <2>1. \A a, n, s : Addressed(a, n, s) =>
            UNCHANGED <<page1, frames>> /\ \E m : state' = [state EXCEPT !.pc = m]
    BY DEF Addressed
  <2>2. \A a, n, s : Addressed(a, n, s) => Undisturbed
    BY <1>1, <2>1 DEF Undisturbed
  <2>3. CASE Implied
    BY <2>2, <2>3 DEF Implied
  <2>4. CASE Immediate
    BY <2>2, <2>4 DEF Immediate
  <2>5. CASE ZeroPage
    BY <2>2, <2>5 DEF ZeroPage
  <2>6. CASE ZeroPageIndexed
    BY <2>2, <2>6 DEF ZeroPageIndexed
  <2>7. CASE Absolute
    BY <2>2, <2>7 DEF Absolute
  <2>8. CASE AbsoluteIndexed
    BY <2>2, <2>8 DEF AbsoluteIndexed
  <2>9. CASE IndZeroX
    BY <2>2, <2>9 DEF IndZeroX
  <2>10. CASE IndZeroY
    BY <2>2, <2>10 DEF IndZeroY
  <2>11. CASE IndirectZP
    BY <2>2, <2>11 DEF IndirectZP
  <2>12. CASE BusConflictInvalid
    BY <2>2, <2>12 DEF BusConflictInvalid
  <2>13. CASE BitRelative
    BY <2>2, <2>13 DEF BitRelative
  <2> QED
    BY <1>3, <2>3, <2>4, <2>5, <2>6, <2>7, <2>8, <2>9, <2>10, <2>11, <2>12, <2>13 DEF AddressMode
<1>4. ASSUME NoInterrupt \/ RaiseNmi \/ UNCHANGED vars PROVE Undisturbed
  BY <1>4 DEF NoInterrupt, RaiseNmi, vars, Undisturbed
<1> QED
  BY <1>2, <1>3, <1>4

-----------------------------------------------------------------------------
(***************************************************************************)
(* The handlers that use it, and the interrupts.                           *)
(***************************************************************************)
LEMMA SpMoves ==
    ASSUME NEW s, StateOK(s), NEW n \in Int
    PROVE  /\ [s EXCEPT !.sp = (@ - n) % 256].sp = Down(s.sp, n)
           /\ [s EXCEPT !.sp = (@ + n) % 256].sp = Up(s.sp, n)
BY DEF StateOK, Regs, Down, Up

LEMMA PushHandlers ==
    ASSUME TypeInv, StackInv, Pha \/ Php
    PROVE  StackInv'
<1>1. PICK v \in Byte :
          /\ page1' = Pushed(state.sp, <<v>>)
          /\ state' = [state EXCEPT !.sp = (@ - 1) % 256]
          /\ frames' = Covered(1)
  BY Values, FlagBytes DEF Pha, Php
<1>2. state'.sp = Down(state.sp, 1)
  BY <1>1, Values, SpMoves
<1> QED
  BY <1>1, <1>2, Values, PushKeeps

LEMMA PullHandlers ==
    ASSUME TypeInv, StackInv, Pla \/ Plp
    PROVE  StackInv'
<1>1. frames' = Uncovered(1) /\ UNCHANGED page1
  <2>1. ASSUME Pla PROVE frames' = Uncovered(1) /\ UNCHANGED page1
    BY <2>1 DEF Pla
  <2>2. ASSUME Plp PROVE frames' = Uncovered(1) /\ UNCHANGED page1
    BY <2>2 DEF Plp
  <2> QED
    BY <2>1, <2>2
<1>2. state'.sp = Up(state.sp, 1)
  <2>1. ASSUME Pla PROVE state'.sp = Up(state.sp, 1)
    <3>1. PICK v \in Byte : state' = [SetReg(state, "a", v) EXCEPT !.sp = (@ + 1) % 256]
      BY <2>1, Values DEF Pla
    <3>2. StateOK(SetReg(state, "a", v)) /\ SetReg(state, "a", v).sp = state.sp
      BY Values, SetRegOK, SpKept
    <3> QED
      BY <3>1, <3>2, SpMoves
  <2>2. ASSUME Plp PROVE state'.sp = Up(state.sp, 1)
    <3>1. \E flags : state' = [state EXCEPT !.flags = flags, !.sp = (@ + 1) % 256]
      BY <2>2 DEF Plp
    <3> QED
      BY <3>1, Values DEF StateOK, Regs, Up
  <2> QED
    BY <2>1, <2>2
<1>3. 1 \in 1..3
  OBVIOUS
<1> QED
  BY <1>1, <1>2, <1>3, Values, PullKeeps

LEMMA CallHandler ==
    ASSUME TypeInv, StackInv, Jsr
    PROVE  StackInv'
<1> DEFINE ret == Wrapped(state.pc - 1)
           vs == <<High(ret), Low(ret)>>
<1>1. ret \in Address
  <2>1. state.pc - 1 \in Int
    BY Values, AddressIsInt
  <2> QED
    BY <2>1, WrapTyped
<1>2. /\ page1' = Pushed(state.sp, vs)
      /\ state' = [state EXCEPT !.pc = addr, !.sp = (@ - 2) % 256]
      /\ frames' = Enter("call", state, state'.sp)
  BY DEF Jsr
<1>3. state'.sp = Down(state.sp, 2)
  BY <1>2, Values DEF StateOK, Regs, Down
<1>4. High(ret) \in Byte /\ Low(ret) \in Byte
  BY <1>1, HalvesTyped
<1>5. Size("call") = 2
  BY DEF Size
<1>6. vs \in Seq(Byte) /\ Len(vs) = Size("call") /\ vs[1] = High(ret) /\ vs[2] = Low(ret)
  BY <1>4, <1>5
<1> HIDE DEF vs
<1>7. state.pc \in Address /\ state.flags \in SUBSET FlagNames
  BY Values, RegistersTyped
<1> QED
  BY <1>2, <1>3, <1>5, <1>6, <1>7, Values, EnterKeeps

LEMMA ReturnHandlers ==
    ASSUME TypeInv, StackInv, Rts \/ Rti
    PROVE  StackInv'
<1>1. ASSUME Rts PROVE StackInv'
  <2>1. \E next : state' = [state EXCEPT !.pc = next, !.sp = (@ + 2) % 256]
    BY <1>1 DEF Rts
  <2>2. state'.sp = Up(state.sp, 2)
    <3> DEFINE moved == (state.sp + 2) % 256
    <3> HIDE DEF moved
    <3>1. \A next : [state EXCEPT !.pc = next, !.sp = moved].sp = moved
      BY Values DEF StateOK, Regs
    <3> QED
      BY <2>1, <3>1 DEF moved, Up
  <2>3. frames' = Leave({"call"}, 2) /\ UNCHANGED page1
    BY <1>1 DEF Rts
  <2>4. 2 \in 1..3 /\ \A kind \in {"call"} : Size(kind) = 2
    BY DEF Size
  <2> QED
    BY <2>2, <2>3, <2>4, Values, ReturnKeeps
<1>2. ASSUME Rti PROVE StackInv'
  <2>1. \E flags, next : state' = [state EXCEPT !.flags = flags, !.pc = next, !.sp = (@ + 3) % 256]
    BY <1>2, ZenonT(30) DEF Rti
  <2>2. state'.sp = Up(state.sp, 3)
    <3> DEFINE moved == (state.sp + 3) % 256
    <3> HIDE DEF moved
    <3>1. \A flags, next : [state EXCEPT !.flags = flags, !.pc = next, !.sp = moved].sp = moved
      BY Values DEF StateOK, Regs
    <3> QED
      BY <2>1, <3>1 DEF moved, Up
  <2>3. frames' = Leave({"brk", "nmi"}, 3) /\ UNCHANGED page1
    BY <1>2 DEF Rti
  <2>4. 3 \in 1..3 /\ \A kind \in {"brk", "nmi"} : Size(kind) = 3
    BY DEF Size
  <2> QED
    BY <2>2, <2>3, <2>4, Values, ReturnKeeps
<1> QED
  BY <1>1, <1>2

LEMMA SwitchKeeps ==
    ASSUME TypeInv, StackInv, NEW s, StateOK(s), s.sp = state.sp, NEW vector,
           NEW kind \in {"brk", "nmi"}, SwitchToIsr(s, vector, kind)
    PROVE  StackInv'
<1> DEFINE v == ByteOf(PushedFlags(kind = "brk", s.flags))
           vs == <<High(s.pc), Low(s.pc), v>>
<1>1. /\ page1' = Pushed(s.sp, vs)
      /\ \E flags, next : state' = [s EXCEPT !.sp = (@ - 3) % 256, !.flags = flags, !.pc = next]
      /\ frames' = Enter(kind, s, state'.sp)
  BY ZenonT(30) DEF SwitchToIsr
<1>2. state'.sp = Down(state.sp, 3)
  <2>1. state'.sp = (s.sp - 3) % 256
    <3> DEFINE moved == (s.sp - 3) % 256
    <3> HIDE DEF moved
    <3>1. \A flags, next : [s EXCEPT !.sp = moved, !.flags = flags, !.pc = next].sp = moved
      BY DEF StateOK, Regs
    <3> QED
      BY <1>1, <3>1 DEF moved
  <2> QED
    BY <2>1 DEF Down
<1>3. s.pc \in Address /\ s.flags \in SUBSET FlagNames
  BY RegistersTyped
<1>4. High(s.pc) \in Byte /\ Low(s.pc) \in Byte /\ v \in Byte
  BY <1>3, HalvesTyped, FlagBytes
<1>5. Size(kind) = 3 /\ kind # "call" /\ kind \in {"call", "brk", "nmi"}
  BY DEF Size
<1> HIDE DEF v
<1>6. /\ vs \in Seq(Byte) /\ Len(vs) = Size(kind)
      /\ vs[1] = High(s.pc) /\ vs[2] = Low(s.pc) /\ vs[3] = v
  BY <1>4, <1>5
<1> HIDE DEF vs
<1>7. vs[3] = ByteOf(PushedFlags(kind = "brk", s.flags))
  BY <1>6 DEF v
<1> QED
  BY <1>1, <1>2, <1>3, <1>5, <1>6, <1>7, Values, EnterKeeps

LEMMA InterruptHandlers ==
    ASSUME TypeInv, StackInv, Brk \/ TakeNmi
    PROVE  StackInv'
<1>1. ASSUME Brk PROVE StackInv'
  <2> DEFINE s == [state EXCEPT !.pc = Wrapped(@ + 1)]
  <2>1. Wrapped(state.pc + 1) \in Address
    <3>1. state.pc + 1 \in Int
      BY Values, AddressIsInt
    <3> QED
      BY <3>1, WrapTyped
  <2>2. StateOK(s) /\ s.sp = state.sp
    BY <2>1, Values, PcOK, WithSp
  <2>3. SwitchToIsr(s, IrqVector, "brk")
    BY <1>1 DEF Brk
  <2> HIDE DEF s
  <2> QED
    BY <2>2, <2>3, SwitchKeeps
<1>2. ASSUME TakeNmi PROVE StackInv'
  <2>1. SwitchToIsr(state, NmiVector, "nmi")
    BY <1>2 DEF TakeNmi
  <2> QED
    BY <2>1, Values, SwitchKeeps
<1> QED
  BY <1>1, <1>2

LEMMA StackStep ==
    ASSUME TypeInv, StackInv, [Next]_vars
    PROVE  StackInv'
<1>1. ASSUME Undisturbed PROVE StackInv'
  BY <1>1, UndisturbedKeeps
<1>2. CASE Documented
  BY <1>1, <1>2, ArithmeticUndisturbed, ShiftUndisturbed, IncDecUndisturbed,
     LoadStoreUndisturbed, FlagUndisturbed, JumpUndisturbed, PushHandlers, PullHandlers,
     CallHandler, ReturnHandlers, InterruptHandlers DEF Documented
<1>3. CASE Undocumented
  BY <1>1, <1>3, ReadersUndisturbed, ModifiersUndisturbed, StoresUndisturbed DEF Undocumented
<1>4. CASE TakeNmi
  BY <1>4, InterruptHandlers
<1>5. CASE Fetch \/ AddressMode \/ NoInterrupt \/ RaiseNmi \/ UNCHANGED vars
  BY <1>1, <1>5, BetweenUndisturbed
<1> QED
  BY <1>2, <1>3, <1>4, <1>5 DEF Next, Finished

(* Whatever the instructions, however the NMIs fall between them and however *)
(* often sp goes round its page, the calls and interrupts that have not been *)
(* lost lie in the page one after the other, with exactly the bytes pushed   *)
(* since between them, and the bytes they pushed are still there.            *)
THEOREM FramesIntact == Spec => []StackInv
<1>1. Init => StackInv
  BY DEF Init, StackInv, Nested, Intact
<1>2. Inv /\ StackInv /\ [Next]_vars => StackInv'
  BY StackStep DEF Inv
<1> QED
  BY <1>1, <1>2, Invariant, PTL DEF Spec

-----------------------------------------------------------------------------
(***************************************************************************)
(* What comes back from the bytes of a frame.                              *)
(***************************************************************************)

(* A bit among others, with a lower part and a higher one. *)
LEMMA MiddleBit ==
    ASSUME NEW low \in Nat, NEW bit \in 0..1, NEW high \in Nat
    PROVE  /\ ((bit + 2 * high) \div 1) % 2 = bit
           /\ low < 2 => ((low + 2 * (bit + 2 * high)) \div 2) % 2 = bit
           /\ low < 4 => ((low + 4 * (bit + 2 * high)) \div 4) % 2 = bit
           /\ low < 8 => ((low + 8 * (bit + 2 * high)) \div 8) % 2 = bit
           /\ low < 16 => ((low + 16 * (bit + 2 * high)) \div 16) % 2 = bit
           /\ low < 32 => ((low + 32 * (bit + 2 * high)) \div 32) % 2 = bit
           /\ low < 64 => ((low + 64 * (bit + 2 * high)) \div 64) % 2 = bit
           /\ low < 128 => ((low + 128 * (bit + 2 * high)) \div 128) % 2 = bit
BY SMTT(60)

LEMMA EightBits ==
    ASSUME NEW c \in 0..1, NEW z \in 0..1, NEW i \in 0..1, NEW d \in 0..1,
           NEW b \in 0..1, NEW u \in 0..1, NEW o \in 0..1, NEW n \in 0..1,
           NEW v, v = c + 2 * z + 4 * i + 8 * d + 16 * b + 32 * u + 64 * o + 128 * n
    PROVE  /\ (v \div 1) % 2 = c /\ (v \div 2) % 2 = z /\ (v \div 4) % 2 = i
           /\ (v \div 8) % 2 = d /\ (v \div 16) % 2 = b /\ (v \div 32) % 2 = u
           /\ (v \div 64) % 2 = o /\ (v \div 128) % 2 = n
<1> DEFINE h7 == n
           h6 == o + 2 * n
           h5 == u + 2 * o + 4 * n
           h4 == b + 2 * u + 4 * o + 8 * n
           h3 == d + 2 * b + 4 * u + 8 * o + 16 * n
           h2 == i + 2 * d + 4 * b + 8 * u + 16 * o + 32 * n
           h1 == z + 2 * i + 4 * d + 8 * b + 16 * u + 32 * o + 64 * n
           l1 == c
           l2 == c + 2 * z
           l3 == c + 2 * z + 4 * i
           l4 == c + 2 * z + 4 * i + 8 * d
           l5 == c + 2 * z + 4 * i + 8 * d + 16 * b
           l6 == c + 2 * z + 4 * i + 8 * d + 16 * b + 32 * u
           l7 == c + 2 * z + 4 * i + 8 * d + 16 * b + 32 * u + 64 * o
<1>1. /\ h1 \in Nat /\ h2 \in Nat /\ h3 \in Nat /\ h4 \in Nat /\ h5 \in Nat /\ h6 \in Nat /\ h7 \in Nat
      /\ l1 \in Nat /\ l2 \in Nat /\ l3 \in Nat /\ l4 \in Nat /\ l5 \in Nat /\ l6 \in Nat /\ l7 \in Nat
      /\ l1 < 2 /\ l2 < 4 /\ l3 < 8 /\ l4 < 16 /\ l5 < 32 /\ l6 < 64 /\ l7 < 128 /\ 0 \in Nat
  OBVIOUS
<1>2. /\ v = c + 2 * h1 /\ v = l1 + 2 * (z + 2 * h2) /\ v = l2 + 4 * (i + 2 * h3)
      /\ v = l3 + 8 * (d + 2 * h4) /\ v = l4 + 16 * (b + 2 * h5) /\ v = l5 + 32 * (u + 2 * h6)
      /\ v = l6 + 64 * (o + 2 * h7) /\ v = l7 + 128 * (n + 2 * 0)
  OBVIOUS
<1> HIDE DEF h1, h2, h3, h4, h5, h6, h7, l1, l2, l3, l4, l5, l6, l7
<1>3. (v \div 1) % 2 = c
  BY <1>1, <1>2, MiddleBit
<1>4. (v \div 2) % 2 = z
  BY <1>1, <1>2, MiddleBit
<1>5. (v \div 4) % 2 = i
  BY <1>1, <1>2, MiddleBit
<1>6. (v \div 8) % 2 = d
  BY <1>1, <1>2, MiddleBit
<1>7. (v \div 16) % 2 = b
  BY <1>1, <1>2, MiddleBit
<1>8. (v \div 32) % 2 = u
  BY <1>1, <1>2, MiddleBit
<1>9. (v \div 64) % 2 = o
  BY <1>1, <1>2, MiddleBit
<1>10. (v \div 128) % 2 = n
  BY <1>1, <1>2, MiddleBit
<1> QED
  BY <1>3, <1>4, <1>5, <1>6, <1>7, <1>8, <1>9, <1>10

(* Pushing the flags and pulling them again loses nothing. *)
LEMMA FlagsComeBack ==
    ASSUME NEW flags \in SUBSET FlagNames
    PROVE  FlagsOf(ByteOf(flags)) = flags
<1> DEFINE bit(f) == IF f \in flags THEN 1 ELSE 0
           v == ByteOf(flags)
<1>1. v = bit("C") + 2 * bit("Z") + 4 * bit("I") + 8 * bit("D")
          + 16 * bit("B") + 32 * bit("U") + 64 * bit("V") + 128 * bit("N")
  BY DEF ByteOf, FlagBit
<1>2. \A f : bit(f) \in 0..1 /\ (bit(f) = 1 <=> f \in flags)
  OBVIOUS
<1> HIDE DEF bit, v
<1>3. /\ (v \div 1) % 2 = bit("C") /\ (v \div 2) % 2 = bit("Z") /\ (v \div 4) % 2 = bit("I")
      /\ (v \div 8) % 2 = bit("D") /\ (v \div 16) % 2 = bit("B") /\ (v \div 32) % 2 = bit("U")
      /\ (v \div 64) % 2 = bit("V") /\ (v \div 128) % 2 = bit("N")
  <2> DEFINE c == bit("C")
             z == bit("Z")
             i == bit("I")
             d == bit("D")
             b == bit("B")
             u == bit("U")
             o == bit("V")
             n == bit("N")
  <2>1. /\ c \in 0..1 /\ z \in 0..1 /\ i \in 0..1 /\ d \in 0..1
        /\ b \in 0..1 /\ u \in 0..1 /\ o \in 0..1 /\ n \in 0..1
    BY <1>2
  <2>2. v = c + 2 * z + 4 * i + 8 * d + 16 * b + 32 * u + 64 * o + 128 * n
    BY <1>1
  <2> HIDE DEF c, z, i, d, b, u, o, n
  <2>3. /\ (v \div 1) % 2 = c /\ (v \div 2) % 2 = z /\ (v \div 4) % 2 = i
        /\ (v \div 8) % 2 = d /\ (v \div 16) % 2 = b /\ (v \div 32) % 2 = u
        /\ (v \div 64) % 2 = o /\ (v \div 128) % 2 = n
    BY <2>1, <2>2, EightBits, SMTT(60)
  <2> QED
    BY <2>3 DEF c, z, i, d, b, u, o, n
<1>4. /\ FlagBit["C"] = 1 /\ FlagBit["Z"] = 2 /\ FlagBit["I"] = 4 /\ FlagBit["D"] = 8
      /\ FlagBit["B"] = 16 /\ FlagBit["U"] = 32 /\ FlagBit["V"] = 64 /\ FlagBit["N"] = 128
  BY DEF FlagBit
<1>5. \A f \in FlagNames : (v \div FlagBit[f]) % 2 = bit(f)
  BY <1>3, <1>4 DEF FlagNames
<1>6. FlagsOf(v) = {f \in FlagNames : (v \div FlagBit[f]) % 2 = 1}
  BY DEF FlagsOf
<1> QED
  BY <1>2, <1>5, <1>6 DEF v

(* A word comes back from its halves. *)
LEMMA WordComesBack == \A w \in Nat : Word(Low(w), High(w)) = w
BY DEF Word, Low, High

LEMMA WrapsRound == \A m, n \in Int : m = n + 65536 => Wrapped(m) = Wrapped(n)
BY DEF Wrapped

LEMMA WrapsNot == \A n \in Int : 0 <= n /\ n <= 65535 => Wrapped(n) = n
BY SMTT(60) DEF Wrapped

(* RTS undoes the decrement of JSR, at either end of the addresses. *)
LEMMA ReturnAddress == \A pc \in Address : Wrapped(Wrapped(pc - 1) + 1) = pc
<1> TAKE pc \in Address
<1>1. pc \in Int /\ 0 <= pc /\ pc <= 65535
  BY AddressIsInt
<1>2. CASE pc = 0
  <2> DEFINE before == pc - 1
             last == before + 65536
             after == last + 1
  <2>1. /\ before \in Int /\ last \in Int /\ after \in Int /\ pc \in Int
        /\ last = before + 65536 /\ after = pc + 65536
        /\ 0 <= last /\ last <= 65535 /\ 0 <= pc /\ pc <= 65535
    BY <1>2
  <2> HIDE DEF before, last, after
  <2>2. Wrapped(last) = last /\ Wrapped(pc) = pc
    BY <1>1, <2>1, WrapsNot
  <2>3. Wrapped(last) = Wrapped(before) /\ Wrapped(after) = Wrapped(pc)
    BY <2>1, WrapsRound
  <2>4. Wrapped(before) = last /\ Wrapped(after) = pc
    BY <2>2, <2>3
  <2> QED
    BY <2>4 DEF before, after
<1>3. CASE pc # 0
  <2> DEFINE before == pc - 1
  <2>1. before \in Int /\ 0 <= before /\ before <= 65535 /\ before + 1 = pc
    BY <1>1, <1>3
  <2> HIDE DEF before
  <2>2. Wrapped(before) = before /\ Wrapped(before + 1) = pc
    BY <1>1, <2>1, WrapsNot
  <2> QED
    BY <2>2 DEF before
<1> QED
  BY <1>2, <1>3

LEMMA CellAddress == \A n \in Byte : High(256 + n) = 1 /\ Low(256 + n) = n
BY DEF Byte, High, Low

-----------------------------------------------------------------------------
(***************************************************************************)
(* What a handler and a return find.                                       *)
(***************************************************************************)
LEMMA FramesTell ==
    ASSUME TypeInv, StackInv
    PROVE  BreakBitTells
<1> SUFFICES ASSUME NEW k \in 1..Len(frames), frames[k].kind # "call"
             PROVE  "B" \in FlagsOf(page1[(frames[k].sp + 1) % 256]) <=> frames[k].kind = "brk"
  BY DEF BreakBitTells
<1> DEFINE f == frames[k]
           flags == PushedFlags(f.kind = "brk", f.flags)
<1>1. f \in Frame /\ Holds(f, page1)
  BY Values, NestedTyped DEF StackInv, Intact
<1>2. page1[(f.sp + 1) % 256] = ByteOf(flags)
  BY <1>1 DEF Holds, Within
<1>3. flags \in SUBSET FlagNames /\ ("B" \in flags <=> f.kind = "brk")
  BY <1>1, FrameTyped DEF PushedFlags, FlagNames
<1> HIDE DEF flags, f
<1>4. FlagsOf(ByteOf(flags)) = flags
  BY <1>3, FlagsComeBack
<1> QED
  BY <1>2, <1>3, <1>4 DEF f

(* The handler of a BRK, and only that, finds B in the flags on the stack of *)
(* every interrupt it may be nested in, whatever PLP let into the register.  *)
THEOREM BreakBit == Spec => []BreakBitTells
<1>1. Inv /\ StackInv => BreakBitTells
  BY FramesTell DEF Inv
<1> QED
  BY <1>1, Invariant, FramesIntact, PTL

(* A frame with nothing on top of it starts right above sp. *)
LEMMA OnTop ==
    ASSUME TypeInv, StackInv, NEW kinds, Returning(kinds)
    PROVE  /\ frames[1] \in Frame /\ frames[1].kind \in kinds
           /\ frames[1].sp = state.sp /\ Holds(frames[1], page1)
<1>1. /\ frames # <<>> /\ frames[1].kind \in kinds /\ frames[1].over = 0
      /\ Gap(frames[1], state.sp) = frames[1].over
  BY DEF Returning, StackInv, Nested
<1>2. state.sp \in Byte /\ Nested(frames, state.sp) /\ Intact(frames, page1)
  BY Values DEF StackInv
<1>3. frames \in Seq(Frame) /\ 1 \in 1..Len(frames)
  BY <1>1, <1>2, NestedTyped
<1>4. frames[1] \in Frame /\ Holds(frames[1], page1)
  BY <1>2, <1>3 DEF Intact
<1>5. \A a, b \in Byte : (a - b) % 256 = 0 => a = b
  <2> TAKE a, b \in Byte
  <2>1. a - b \in -255..255 /\ a \in Int /\ b \in Int
    BY DEF Byte
  <2>2. \A d \in -255..255 : d % 256 = 0 => d = 0
    BY SMTT(60)
  <2> QED
    BY <2>1, <2>2
<1>6. frames[1].sp = state.sp
  <2>1. frames[1].sp \in Byte
    BY <1>4, FrameTyped
  <2>2. (frames[1].sp - state.sp) % 256 = 0
    BY <1>1 DEF Gap, Ahead
  <2> QED
    BY <1>2, <1>5, <2>1, <2>2
<1> QED
  BY <1>1, <1>4, <1>6

LEMMA Found ==
    ASSUME NEW f, NEW i \in Int, NEW v, f.sp \in Byte, Within(f, i, v, page1)
    PROVE  Answers(Top(f.sp, i)) = {v}
<1> DEFINE cell == (f.sp + i) % 256
<1>1. cell \in Byte
  BY ByteIsInt, ByteTyped
<1>2. Top(f.sp, i) = 256 + cell /\ cell \in DOMAIN page1 /\ page1[cell] = v
  BY DEF Top, Within
<1> HIDE DEF cell
<1>3. High(Top(f.sp, i)) = 1 /\ Low(Top(f.sp, i)) = cell
  BY <1>1, <1>2, CellAddress
<1> QED
  BY <1>2, <1>3 DEF Answers

LEMMA RtsResumes ==
    ASSUME TypeInv, StackInv, Rts, Returning({"call"})
    PROVE  state'.pc = frames[1].pc
<1> DEFINE f == frames[1]
           ret == Wrapped(f.pc - 1)
           next(low, high) == Wrapped(Word(low, high) + 1)
<1>1. f \in Frame /\ f.kind = "call" /\ f.sp = state.sp /\ Holds(f, page1) /\ f.pc \in Address
  BY OnTop, FrameTyped
<1>2. Within(f, 1, Low(ret), page1) /\ Within(f, 2, High(ret), page1)
  BY <1>1 DEF Holds
<1>3. ret \in Address
  <2>1. f.pc - 1 \in Int
    BY <1>1, AddressIsInt
  <2> QED
    BY <2>1, WrapTyped
<1>4. Wrapped(ret + 1) = f.pc
  BY <1>1, ReturnAddress
<1> HIDE DEF ret, f
<1>5. Answers(Top(state.sp, 1)) = {Low(ret)} /\ Answers(Top(state.sp, 2)) = {High(ret)}
  BY <1>1, <1>2, Found, FrameTyped
<1>6. state' = [state EXCEPT !.pc = next(Low(ret), High(ret)), !.sp = (@ + 2) % 256]
  BY <1>5 DEF Rts
<1>7. Word(Low(ret), High(ret)) = ret
  BY <1>3, AddressIsInt, WordComesBack
<1>8. next(Low(ret), High(ret)) = f.pc
  BY <1>4, <1>7
<1> HIDE DEF next
<1>9. state'.pc = f.pc
  BY <1>6, <1>8, Values DEF StateOK, Regs
<1> QED
  BY <1>9 DEF f

LEMMA RtiResumes ==
    ASSUME TypeInv, StackInv, Rti, Returning({"brk", "nmi"})
    PROVE  /\ state'.pc = frames[1].pc
           /\ state'.flags = (frames[1].flags \ {"B"}) \cup {"U"}
<1> DEFINE f == frames[1]
           pushed == PushedFlags(f.kind = "brk", f.flags)
           v == ByteOf(pushed)
<1>1. /\ f \in Frame /\ f.kind \in {"brk", "nmi"} /\ f.sp = state.sp /\ Holds(f, page1)
      /\ f.pc \in Address /\ f.flags \in SUBSET FlagNames
  BY OnTop, FrameTyped
<1>2. Within(f, 1, v, page1) /\ Within(f, 2, Low(f.pc), page1) /\ Within(f, 3, High(f.pc), page1)
  BY <1>1 DEF Holds
<1>3. pushed \in SUBSET FlagNames /\ pushed \ {"B"} = f.flags \ {"B"}
  BY <1>1 DEF PushedFlags, FlagNames
<1> HIDE DEF pushed
<1>4. RtiFlags(v) = (f.flags \ {"B"}) \cup {"U"}
  BY <1>3, FlagsComeBack DEF RtiFlags
<1> HIDE DEF v, f
<1>5. /\ Answers(Top(state.sp, 1)) = {v} /\ Answers(Top(state.sp, 2)) = {Low(f.pc)}
      /\ Answers(Top(state.sp, 3)) = {High(f.pc)}
  BY <1>1, <1>2, Found, FrameTyped
<1>6. state' = [state EXCEPT !.flags = RtiFlags(v), !.pc = Word(Low(f.pc), High(f.pc)),
                             !.sp = (@ + 3) % 256]
  BY <1>5 DEF Rti
<1>7. Word(Low(f.pc), High(f.pc)) = f.pc
  BY <1>1, AddressIsInt, WordComesBack
<1>8. state'.pc = f.pc /\ state'.flags = RtiFlags(v)
  BY <1>6, <1>7, Values DEF StateOK, Regs
<1> QED
  BY <1>4, <1>8 DEF f

(* No other handler goes by the name of a return. *)
LEMMA ReturnsAreReturns ==
    ASSUME Next, phase = "execute", phase' = "poll"
    PROVE  (handler = "rts" => Rts) /\ (handler = "rti" => Rti)
<1> DEFINE Other(h) == h \notin {"rts", "rti"}
<1>1. Documented \/ Undocumented
  <2>1. ~Fetch /\ ~TakeNmi /\ ~NoInterrupt /\ ~RaiseNmi /\ ~Finished
    BY DEF Fetch, TakeNmi, NoInterrupt, RaiseNmi, Finished, vars
  <2>2. ~AddressMode
    BY DEF AddressMode, Implied, Immediate, ZeroPage, ZeroPageIndexed, Absolute,
           AbsoluteIndexed, IndZeroX, IndZeroY, IndirectZP, BusConflictInvalid, BitRelative,
           Addressed
  <2> QED
    BY <2>1, <2>2 DEF Next
<1>2. /\ \A name, v : Reads(name, v) => handler = name
      /\ \A name, v, new : Modifying(name, v, new) => handler = name
      /\ \A name, a, v : StoresAt(name, a, v) => handler = name
      /\ \A name : Internal(name) => handler = name
      /\ \A name : InternalStep(name) => handler = name
  BY DEF Reads, Modifying, StoresAt, Internal, InternalStep
<1>3. ASSUME Adc \/ Sbc \/ AndA \/ Logic \/ Compare \/ BitTest \/ Load PROVE Other(handler)
  BY <1>2, <1>3 DEF Adc, Sbc, AndA, Logic, Compare, BitTest, Load
<1>4. ASSUME Asl \/ Lsr \/ Rol \/ Ror \/ IncDec PROVE Other(handler)
  BY <1>2, <1>4 DEF Asl, Lsr, Rol, Ror, IncDec
<1>5. ASSUME Store \/ Sax \/ Say \/ Xas PROVE Other(handler)
  BY <1>2, <1>5 DEF Store, Sax, Say, Xas, MaskedStore
<1>6. ASSUME Transfer PROVE Other(handler)
  <2>1. PICK t \in {"tax", "txa", "tay", "tya", "tsx"} : InternalStep(t)
    BY <1>6 DEF Transfer
  <2> QED
    BY <1>2, <2>1
<1>7. ASSUME Txs \/ Nop \/ Bbs \/ Jmp \/ IndJmp \/ Brk \/ InvalidOpcode PROVE Other(handler)
  BY <1>2, <1>7 DEF Txs, Nop, Bbs, Jmp, IndJmp, Brk, InvalidOpcode
<1>8. ASSUME FlagInstruction PROVE Other(handler)
  BY <1>2, <1>8 DEF FlagInstruction
<1>9. ASSUME BranchCarryZero \/ BranchSignZero \/ BranchOverflow PROVE Other(handler)
  BY <1>9 DEF BranchCarryZero, BranchSignZero, BranchOverflow, Branch
<1>10. ASSUME Pha \/ Php \/ Pla \/ Plp \/ Jsr PROVE Other(handler)
  <2>1. (Pha => handler = "pha") /\ (Php => handler = "php")
    BY DEF Pha, Php
  <2>2. (Pla => handler = "pla") /\ (Plp => handler = "plp") /\ (Jsr => handler = "jsr")
    BY DEF Pla, Plp, Jsr
  <2> QED
    BY <1>10, <2>1, <2>2
<1>11. ASSUME Alr \/ Anc \/ Arr \/ Axs \/ Lax \/ Atx PROVE Other(handler)
  BY <1>2, <1>11 DEF Alr, Anc, Arr, Axs, Lax, Atx
<1>12. ASSUME Dcp \/ Isc \/ Rla \/ Rra \/ Slo \/ Sre PROVE Other(handler)
  BY <1>2, <1>12 DEF Dcp, Isc, Rla, Rra, Slo, Sre
<1>13. (Rts => handler = "rts") /\ (Rti => handler = "rti")
  BY DEF Rts, Rti
<1>14. Other(handler) \/ Rts \/ Rti
  <2> HIDE DEF Other
  <2> QED
    BY <1>1, <1>3, <1>4, <1>5, <1>6, <1>7, <1>8, <1>9, <1>10, <1>11, <1>12
       DEF Documented, Undocumented
<1> QED
  BY <1>13, <1>14

(* When whatever was pushed since has been pulled, an RTS resumes after its  *)
(* JSR, an RTI where its BRK or NMI left and with the flags of that moment   *)
(* but for B and bit 5: however deep they nest, wherever in its page sp is.  *)
THEOREM Returns == Spec => ReturnsResume
<1> DEFINE Resumes ==
        /\ handler = "rts" /\ Returning({"call"}) => state'.pc = frames[1].pc
        /\ handler = "rti" /\ Returning({"brk", "nmi"}) =>
              /\ state'.pc = frames[1].pc
              /\ state'.flags = (frames[1].flags \ {"B"}) \cup {"U"}
<1>1. Inv /\ StackInv /\ [Next]_vars => [phase = "execute" /\ phase' = "poll" => Resumes]_vars
  BY ReturnsAreReturns, RtsResumes, RtiResumes DEF Inv
<1> QED
  BY <1>1, Invariant, FramesIntact, PTL DEF Spec, ReturnsResume

=============================================================================
