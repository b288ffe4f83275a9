--------------------------- MODULE StepperProofs ----------------------------
(***************************************************************************)
(* Proofs about the scheduler, for every set of addresses, every length of *)
(* the pauses, every number of resets and, unless a theorem says           *)
(* otherwise, every allocator.                                             *)
(*                                                                         *)
(* The invariant is inductive once it also says that the two coroutines    *)
(* are different blocks and that each still serves the receiver it was     *)
(* made for: both facts are what makes handing the stack from one to the   *)
(* other, or recreating both, leave the other's frames alone.              *)
(***************************************************************************)
EXTENDS Stepper, TLAPS

Placed ==
    /\ cos[CPU] # cos[PPU]
    /\ \A r \in Receivers : arg[cos[r]] = r

Inv == TypeOK /\ Placed /\ OwnerIsLive /\ OwnFrames

-----------------------------------------------------------------------------
(* Any placement the allocator may choose gives each receiver a block of its own. *)
LEMMA PlacementsAreDistinct ==
    ASSUME TypeOK, Placed, NEW new \in Placements
    PROVE  new \in [Receivers -> Addr] /\ new[CPU] # new[PPU]
  BY DEF TypeOK, Placed, Placements, Receivers, CPU, PPU

(* Every reset starts both receivers afresh, on the stack of nobody. *)
LEMMA ResetKeepsInv ==
    ASSUME Inv, StepperReset, UNCHANGED <<place, odd>>,
           m_cpu_co' \in Addr, bound' \in {bound, gen'}
    PROVE  Inv'
  <1>1. PICK new \in Placements : Recreate(new)
    BY DEF StepperReset
  <1>2. new \in [Receivers -> Addr] /\ new[CPU] # new[PPU]
    BY PlacementsAreDistinct DEF Inv
  <1>3. cos' = new /\ gen' = gen + 1 /\ shared' = shared
    BY <1>1 DEF Recreate
  <1>4. TypeOK'
    <2>1. arg' \in [Addr -> Receivers]
      BY <1>1, <1>2 DEF Recreate, Inv, TypeOK, Receivers
    <2>2. skip' \in [Addr -> Nat] /\ started' \in [Addr -> BOOLEAN]
      BY <1>1, <1>2 DEF Recreate, Inv, TypeOK
    <2>3. saved' \in [Addr -> Frames \cup {NoFrames}]
      BY <1>1, <1>2 DEF Recreate, Inv, TypeOK
    <2>4. owner' \in Addr \cup {NULL}
      BY <1>1 DEF Recreate, OwnerAfter, Inv, TypeOK
    <2>5. gen' \in Nat /\ bound' \in Nat /\ bound' <= gen'
      BY <1>3 DEF Inv, TypeOK
    <2>. QED
      BY <1>2, <1>3, <2>1, <2>2, <2>3, <2>4, <2>5 DEF Inv, TypeOK, place
  <1>5. Placed'
    <2>1. arg'[new[CPU]] = arg[cos[CPU]] /\ arg'[new[PPU]] = arg[cos[PPU]]
      BY <1>1, <1>2 DEF Recreate, Receivers, CPU, PPU
    <2>. QED
      BY <1>2, <1>3, <2>1 DEF Inv, Placed, Receivers
  <1>6. OwnerIsLive'
    BY <1>1 DEF Recreate, OwnerAfter, Inv, OwnerIsLive
  <1>7. OwnFrames'
    BY <1>1, <1>2, <1>3 DEF Recreate, OwnFrames, Receivers
  <1>. QED
    BY <1>4, <1>5, <1>6, <1>7 DEF Inv

-----------------------------------------------------------------------------
(* Resuming one coroutine keeps the frames of both. *)
LEMMA ResumeKeepsFrames ==
    ASSUME Inv, NEW r \in Receivers, Resume(cos[r]),
           UNCHANGED <<cos, gen>>
    PROVE  /\ OwnerIsLive'
           /\ OwnFrames'
           /\ saved' \in [Addr -> Frames \cup {NoFrames}]
           /\ shared' \in Frames \cup {NoFrames}
           /\ started' \in [Addr -> BOOLEAN]
  <1>. DEFINE a == cos[r]
  <1>1. a \in Addr /\ arg[a] = r /\ gen \in Nat
    BY DEF Inv, TypeOK, Placed
  <1>2. [rcv |-> r, gen |-> gen] \in Frames
    BY <1>1 DEF Frames
  <1>3. /\ saved' = SaveOwner(a)
        /\ owner' = a
        /\ started' = [started EXCEPT ![a] = TRUE]
    BY DEF Resume
  <1>4. OwnerIsLive'
    BY <1>3 DEF OwnerIsLive, Live
  <1>5. shared' = [rcv |-> r, gen |-> gen]
    <2>1. CASE ~started[a]
      BY <2>1, <1>1 DEF Resume
    <2>2. CASE started[a] /\ owner = a
      BY <2>2 DEF Resume, Inv, OwnFrames, FramesOf
    <2>3. CASE started[a] /\ owner # a
      BY <2>3 DEF Resume, Inv, OwnFrames, FramesOf
    <2>. QED
      BY <2>1, <2>2, <2>3
  <1>6. saved' \in [Addr -> Frames \cup {NoFrames}]
    BY <1>3 DEF SaveOwner, Inv, TypeOK
  <1>7. started' \in [Addr -> BOOLEAN]
    BY <1>3 DEF Inv, TypeOK
  <1>8. OwnFrames'
    <2>. SUFFICES ASSUME NEW q \in Receivers, started'[cos[q]]
                  PROVE  FramesOf(cos[q])' = [rcv |-> q, gen |-> gen]
      BY DEF OwnFrames
    <2>1. CASE q = r
      BY <2>1, <1>3, <1>5 DEF FramesOf
    <2>2. CASE q # r
      <3>1. cos[q] # a /\ cos[q] \in Addr
        BY <2>2 DEF Inv, Placed, TypeOK, Receivers
      <3>2. started[cos[q]]
        BY <3>1, <1>3 DEF Inv, TypeOK
      <3>3. FramesOf(cos[q]) = [rcv |-> q, gen |-> gen]
        BY <3>2 DEF Inv, OwnFrames
      <3>4. FramesOf(cos[q])' = saved'[cos[q]]
        BY <3>1, <1>3 DEF FramesOf
      <3>5. CASE owner = cos[q]
        <4>1. owner \notin {a, NULL} /\ shared = [rcv |-> q, gen |-> gen]
          BY <3>5, <3>1, <3>3, AddrAssumption DEF FramesOf
        <4>2. saved' = [saved EXCEPT ![owner] = shared]
          BY <4>1, <3>5, <3>2, <1>3 DEF SaveOwner
        <4>. QED
          BY <4>1, <4>2, <3>1, <3>4, <3>5 DEF Inv, TypeOK
      <3>6. CASE owner # cos[q]
        <4>1. saved'[cos[q]] = saved[cos[q]]
          BY <3>6, <3>1, <1>3 DEF SaveOwner, Inv, TypeOK
        <4>. QED
          BY <4>1, <3>3, <3>4, <3>6 DEF FramesOf
      <3>. QED
        BY <3>5, <3>6
    <2>. QED
      BY <2>1, <2>2
  <1>. QED
    BY <1>2, <1>4, <1>5, <1>6, <1>7, <1>8

(* A segment only ever sets skip counts, to naturals. *)
LEMMA SegmentType ==
    ASSUME Inv, NEW a \in Addr, Segment(a)
    PROVE  skip' \in [Addr -> Nat] /\ odd' \in BOOLEAN
  <1>1. DmaLength \in Nat /\ IdleDots - 1 \in Nat
    BY LengthAssumption DEF DmaLength
  <1>2. CASE arg[a] = CPU
    BY <1>1, <1>2 DEF Segment, CpuSegment, OamDma, Inv, TypeOK
  <1>3. CASE arg[a] # CPU
    BY <1>1, <1>3 DEF Segment, PpuSegment, Inv, TypeOK
  <1>. QED
    BY <1>2, <1>3

LEMMA RunCoKeepsInv ==
    ASSUME Inv, NEW r \in Receivers, RunCo(r), Advance, UNCHANGED <<cos, console>>
    PROVE  Inv'
  <1>. DEFINE a == cos[r]
  <1>1. a \in Addr
    BY DEF Inv, TypeOK
  <1>2. clock' \in 0..(Ticks - 1) /\ turn' \in Receivers
    BY DEF Advance, Inv, TypeOK, Ticks, Receivers, CPU, PPU
  <1>3. UNCHANGED <<cos, m_cpu_co, gen, bound>>
    BY DEF console
  <1>4. CASE SkipSlot(a)
    <2>1. skip' \in [Addr -> Nat]
      BY <1>4, <1>1 DEF SkipSlot, Inv, TypeOK
    <2>2. UNCHANGED <<arg, started, saved, owner, shared, odd>>
      BY <1>4 DEF SkipSlot, blocks, stack
    <2>. QED
      BY <2>1, <2>2, <1>2, <1>3
         DEF Inv, TypeOK, Placed, OwnerIsLive, Live, OwnFrames, FramesOf
  <1>5. CASE ResumeSlot(a)
    <2>1. Resume(a) /\ Segment(a)
      BY <1>5 DEF ResumeSlot
    <2>2. skip' \in [Addr -> Nat] /\ odd' \in BOOLEAN
      BY <2>1, <1>1, SegmentType
    <2>3. /\ OwnerIsLive'
          /\ OwnFrames'
          /\ saved' \in [Addr -> Frames \cup {NoFrames}]
          /\ shared' \in Frames \cup {NoFrames}
          /\ started' \in [Addr -> BOOLEAN]
      BY <2>1, <1>3, ResumeKeepsFrames
    <2>4. owner' = a /\ arg' = arg
      BY <2>1 DEF Resume
    <2>5. TypeOK'
      BY <2>2, <2>3, <2>4, <1>1, <1>2, <1>3 DEF Inv, TypeOK
    <2>6. Placed'
      BY <2>4, <1>3 DEF Inv, Placed
    <2>. QED
      BY <2>3, <2>5, <2>6 DEF Inv
  <1>. QED
    BY <1>4, <1>5 DEF RunCo

-----------------------------------------------------------------------------
LEMMA InitInv == Init => Inv
  <1>. SUFFICES ASSUME Init PROVE Inv
    OBVIOUS
  <1>1. cos \in [Receivers -> Addr] /\ cos[CPU] # cos[PPU]
    BY DEF Init
  <1>2. TypeOK
    <2>1. clock \in 0..(Ticks - 1) /\ turn \in Receivers
      BY DEF Init, Ticks, Receivers
    <2>2. m_cpu_co \in Addr
      BY <1>1 DEF Init, CpuCoIndex, Receivers
    <2>3. arg \in [Addr -> Receivers] /\ started \in [Addr -> BOOLEAN]
      BY DEF Init, Receivers
    <2>4. skip \in [Addr -> Nat] /\ saved \in [Addr -> Frames \cup {NoFrames}]
      BY DEF Init
    <2>5. gen \in Nat /\ bound \in Nat /\ bound <= gen
      BY DEF Init
    <2>6. odd \in BOOLEAN
      BY DEF Init
    <2>7. owner \in Addr \cup {NULL} /\ shared \in Frames \cup {NoFrames}
      BY DEF Init
    <2>. QED
      BY <1>1, <2>1, <2>2, <2>3, <2>4, <2>5, <2>6, <2>7 DEF TypeOK
  <1>3. Placed
    BY <1>1 DEF Init, Placed, Receivers, CPU, PPU
  <1>4. OwnerIsLive
    BY DEF Init, OwnerIsLive
  <1>5. OwnFrames
    BY <1>1 DEF Init, OwnFrames
  <1>. QED
    BY <1>2, <1>3, <1>4, <1>5 DEF Inv

LEMMA NextInv == Inv /\ [Next]_vars => Inv'
  <1>. SUFFICES ASSUME Inv, [Next]_vars PROVE Inv'
    OBVIOUS
  <1>1. CASE RunIfClock
    <2>1. turn \in Receivers
      BY DEF Inv, TypeOK
    <2>2. CASE clock % ClockRate(turn) = 0
      BY <1>1, <2>1, <2>2, RunCoKeepsInv DEF RunIfClock
    <2>3. CASE clock % ClockRate(turn) # 0
      <3>1. UNCHANGED <<cos, arg, started, saved, skip, owner, shared, odd,
                        m_cpu_co, gen, bound>>
        BY <1>1, <2>3 DEF RunIfClock, blocks, stack, console
      <3>2. clock' \in 0..(Ticks - 1) /\ turn' \in Receivers
        BY <1>1 DEF RunIfClock, Advance, Inv, TypeOK, Ticks, Receivers, CPU, PPU
      <3>. QED
        BY <3>1, <3>2 DEF Inv, TypeOK, Placed, OwnerIsLive, Live, OwnFrames, FramesOf
    <2>. QED
      BY <2>2, <2>3
  <1>2. CASE NesInit
    <2>1. StepperReset /\ UNCHANGED <<place, odd>>
      BY <1>2 DEF NesInit
    <2>2. m_cpu_co' = cos'[CpuCoIndex] /\ bound' = gen'
      BY <1>2 DEF NesInit, BindCpuCo
    <2>3. m_cpu_co' \in Addr
      <3>1. PICK new \in Placements : cos' = new
        BY <2>1 DEF StepperReset, Recreate
      <3>. QED
        BY <3>1, <2>2, PlacementsAreDistinct
           DEF Inv, CpuCoIndex, Receivers, CPU, PPU
    <2>. QED
      BY <2>1, <2>2, <2>3, ResetKeepsInv
  <1>3. CASE PowerCycle \/ SoftReset
    <2>1. StepperReset /\ UNCHANGED <<place, odd, m_cpu_co, bound>>
      BY <1>3 DEF PowerCycle, SoftReset, ResetConsole
    <2>2. m_cpu_co' \in Addr /\ bound' = bound
      BY <2>1 DEF Inv, TypeOK
    <2>. QED
      BY <2>1, <2>2, ResetKeepsInv
  <1>4. CASE UNCHANGED vars
    BY <1>4 DEF vars, place, blocks, stack, console, Inv, TypeOK, Placed,
                OwnerIsLive, Live, OwnFrames, FramesOf
  <1>. QED
    BY <1>1, <1>2, <1>3, <1>4 DEF Next

THEOREM Invariance == Spec => []Inv
  BY InitInv, NextInv, PTL DEF Spec

(***************************************************************************)
(* The variables keep the types of their C++ counterparts; in particular   *)
(* no skip count ever wraps below zero.                                    *)
(***************************************************************************)
THEOREM TypeCorrect == Spec => []TypeOK
  <1>1. Inv => TypeOK
    BY DEF Inv
  <1>. QED
    BY <1>1, Invariance, PTL

(***************************************************************************)
(* No reset, whatever the allocator does, leaves a freed coroutine on      *)
(* record as the owner of the shared stack.                                *)
(***************************************************************************)
THEOREM OwnerAlwaysLive == Spec => []OwnerIsLive
  <1>1. Inv => OwnerIsLive
    BY DEF Inv
  <1>. QED
    BY <1>1, Invariance, PTL

(***************************************************************************)
(* Every coroutine resumes on its own frames, and never on frames from     *)
(* before the last reset.                                                  *)
(***************************************************************************)
THEOREM FramesNeverMix == Spec => []OwnFrames
  <1>1. Inv => OwnFrames
    BY DEF Inv
  <1>. QED
    BY <1>1, Invariance, PTL

-----------------------------------------------------------------------------
(* Every reset counts one, and with the reversing allocator swaps the blocks. *)
LEMMA ResetSwaps ==
    ASSUME Inv, Lifo, StepperReset
    PROVE  cos'[CPU] = cos[PPU] /\ cos'[PPU] = cos[CPU] /\ gen' = gen + 1
  BY DEF StepperReset, Placements, Recreate, Receivers, CPU, PPU

LEMMA NextParity == Inv /\ CpuCoParity /\ [Next]_vars => CpuCoParity'
  <1>. SUFFICES ASSUME Inv, CpuCoParity, [Next]_vars, Lifo
                PROVE  m_cpu_co' = IF (gen' - bound') % 2 = 1 THEN cos'[CPU]
                                   ELSE cos'[PPU]
    BY DEF CpuCoParity
  <1>1. gen \in Nat /\ bound \in Nat /\ bound <= gen
    BY DEF Inv, TypeOK
  <1>2. m_cpu_co = IF (gen - bound) % 2 = 1 THEN cos[CPU] ELSE cos[PPU]
    BY DEF CpuCoParity
  <1>3. CASE RunIfClock \/ UNCHANGED vars
    BY <1>2, <1>3 DEF RunIfClock, console, vars
  <1>4. CASE NesInit
    <2>1. gen' = gen + 1 /\ m_cpu_co' = cos'[PPU] /\ bound' = gen'
      BY <1>4, ResetSwaps DEF NesInit, BindCpuCo, CpuCoIndex
    <2>2. (gen' - bound') % 2 = 0
      BY <2>1, <1>1
    <2>. QED
      BY <2>1, <2>2
  <1>5. CASE PowerCycle \/ SoftReset
    <2>1. /\ cos'[CPU] = cos[PPU]
          /\ cos'[PPU] = cos[CPU]
          /\ gen' = gen + 1
          /\ UNCHANGED <<m_cpu_co, bound>>
      BY <1>5, ResetSwaps DEF PowerCycle, SoftReset, ResetConsole
    <2>2. ((gen + 1) - bound) % 2 = 1 <=> (gen - bound) % 2 # 1
      BY <1>1
    <2>. QED
      BY <2>1, <2>2, <1>2
  <1>. QED
    BY <1>3, <1>4, <1>5 DEF Next

(***************************************************************************)
(* With an allocator that hands blocks out in reverse order, m_cpu_co is   *)
(* the CPU's coroutine after an odd number of resets since init and the    *)
(* PPU's after an even one, whatever the number.                           *)
(***************************************************************************)
THEOREM CpuCoAlternates == Spec => []CpuCoParity
  <1>1. Init => CpuCoParity
    BY DEF Init, CpuCoParity, CpuCoIndex
  <1>. QED
    BY <1>1, NextParity, Invariance, PTL DEF Spec

-----------------------------------------------------------------------------
(* Without soft resets, exactly one reset separates init from execution. *)
OneReset == gen - bound <= 1

LEMMA CpuCoIsRight ==
    ASSUME Inv, CpuCoParity, OneReset, Lifo, gen > bound
    PROVE  m_cpu_co = cos[CPU]
  <1>1. gen - bound = 1
    BY DEF Inv, TypeOK, OneReset
  <1>. QED
    BY <1>1 DEF CpuCoParity

LEMMA NextOneReset ==
    ASSUME Lifo, MaxSoftResets = 0
    PROVE  Inv /\ OneReset /\ [Next]_vars => OneReset'
  <1>. SUFFICES ASSUME Inv, OneReset, [Next]_vars PROVE OneReset'
    OBVIOUS
  <1>1. gen \in Nat /\ bound \in Nat
    BY DEF Inv, TypeOK
  <1>2. CASE RunIfClock \/ UNCHANGED vars
    BY <1>2 DEF RunIfClock, console, vars, OneReset
  <1>3. CASE NesInit
    BY <1>1, <1>3, ResetSwaps DEF NesInit, BindCpuCo, OneReset
  <1>4. CASE PowerCycle
    BY <1>1, <1>4, ResetSwaps DEF PowerCycle, ResetConsole, OneReset
  <1>5. CASE SoftReset
    BY <1>1, <1>5 DEF SoftReset
  <1>. QED
    BY <1>2, <1>3, <1>4, <1>5 DEF Next

(* How the place in step_whole moves the phase of FrameClock. *)
LEMMA PhaseMoves ==
    ASSUME clock \in 0..11, turn \in Receivers, Advance
    PROVE  /\ turn = CPU /\ clock = 0 => PhaseOf = 0 /\ PhaseOf' = 1
           /\ turn = PPU /\ clock % 4 = 0
                => PhaseOf \in 1..3 /\ PhaseOf' = (PhaseOf + 1) % 4
           /\ turn = CPU /\ clock # 0 => PhaseOf' = PhaseOf
           /\ turn = PPU /\ clock % 4 # 0 => PhaseOf' = PhaseOf
  <1>1. \/ clock = 0 \/ clock = 1 \/ clock = 2 \/ clock = 3 \/ clock = 4
        \/ clock = 5 \/ clock = 6 \/ clock = 7 \/ clock = 8 \/ clock = 9
        \/ clock = 10 \/ clock = 11
    OBVIOUS
  <1>2. DotsPerCycle = 3
    BY DEF DotsPerCycle, ClockRate, CPU, PPU
  <1>3. CASE turn = CPU
    BY <1>1, <1>2, <1>3 DEF Advance, PhaseOf, CPU, PPU, Ticks
  <1>4. CASE turn = PPU
    BY <1>1, <1>2, <1>4 DEF Advance, PhaseOf, CPU, PPU, Ticks
  <1>. QED
    BY <1>3, <1>4 DEF Receivers

LEMMA SlotRefines ==
    ASSUME Inv, CpuCoParity, OneReset, Lifo, RunIfClock
    PROVE  [Promise!Next]_(Promise!vars)
  <1>1. /\ clock \in 0..11 /\ turn \in Receivers /\ Advance
        /\ cos[CPU] \in Addr /\ cos[PPU] \in Addr /\ cos[CPU] # cos[PPU]
        /\ arg[cos[CPU]] = CPU /\ arg[cos[PPU]] = PPU
        /\ skip \in [Addr -> Nat]
        /\ cos' = cos
    BY DEF Inv, TypeOK, Placed, Receivers, CPU, PPU, Ticks, RunIfClock
  <1>2. m_cpu_co = cos[CPU]
    BY CpuCoIsRight DEF RunIfClock
  <1>3. DotsPerCycle = 3
    BY DEF DotsPerCycle, ClockRate, CPU, PPU
  <1>4. CASE turn = CPU /\ clock = 0
    <2>1. PhaseOf = 0 /\ PhaseOf' = (PhaseOf + 1) % (DotsPerCycle + 1)
      BY <1>1, <1>3, <1>4, PhaseMoves
    <2>2. RunCo(CPU)
      BY <1>4 DEF RunIfClock, ClockRate
    <2>3. CASE SkipSlot(cos[CPU])
      <3>1. /\ skip[cos[CPU]] > 0
            /\ skip'[cos'[CPU]] = skip[cos[CPU]] - 1
            /\ skip'[cos'[PPU]] = skip[cos[PPU]]
            /\ odd' = odd
        BY <2>3, <1>1 DEF SkipSlot
      <3>. QED
        BY <2>1, <3>1 DEF Promise!Next, Promise!CpuStalled, Promise!NextPhase
    <2>4. CASE ResumeSlot(cos[CPU])
      <3>1. skip[cos[CPU]] = 0 /\ CpuSegment
        BY <2>4, <1>1 DEF ResumeSlot, Segment
      <3>2. /\ skip'[cos'[CPU]] \in {0, DmaLength}
            /\ skip'[cos'[PPU]] = skip[cos[PPU]]
            /\ odd' = ~odd
        BY <3>1, <1>1, <1>2 DEF CpuSegment, OamDma
      <3>. QED
        BY <2>1, <3>1, <3>2
           DEF Promise!Next, Promise!CpuExecutes, Promise!NextPhase,
               Promise!DmaLength, DmaLength
    <2>. QED
      BY <2>2, <2>3, <2>4 DEF RunCo
  <1>5. CASE turn = PPU /\ clock % 4 = 0
    <2>1. PhaseOf > 0 /\ PhaseOf' = (PhaseOf + 1) % (DotsPerCycle + 1)
      BY <1>1, <1>3, <1>5, PhaseMoves
    <2>2. RunCo(PPU)
      BY <1>5 DEF RunIfClock, ClockRate, CPU, PPU
    <2>3. CASE SkipSlot(cos[PPU])
      <3>1. /\ skip[cos[PPU]] > 0
            /\ skip'[cos'[PPU]] = skip[cos[PPU]] - 1
            /\ skip'[cos'[CPU]] = skip[cos[CPU]]
            /\ odd' = odd
        BY <2>3, <1>1 DEF SkipSlot
      <3>. QED
        BY <2>1, <3>1 DEF Promise!Next, Promise!PpuSleeps, Promise!NextPhase
    <2>4. CASE ResumeSlot(cos[PPU])
      <3>1. skip[cos[PPU]] = 0 /\ PpuSegment(cos[PPU])
        BY <2>4, <1>1 DEF ResumeSlot, Segment, CPU, PPU
      <3>2. /\ skip'[cos'[PPU]] \in {0, IdleDots - 1}
            /\ skip'[cos'[CPU]] = skip[cos[CPU]]
            /\ odd' = odd
        BY <3>1, <1>1 DEF PpuSegment
      <3>. QED
        BY <2>1, <3>1, <3>2
           DEF Promise!Next, Promise!PpuExecutes, Promise!NextPhase
    <2>. QED
      BY <2>2, <2>3, <2>4 DEF RunCo
  <1>6. CASE (turn = CPU /\ clock # 0) \/ (turn = PPU /\ clock % 4 # 0)
    <2>1. PhaseOf' = PhaseOf
      BY <1>1, <1>6, PhaseMoves
    <2>2. clock % ClockRate(turn) # 0
      BY <1>1, <1>6 DEF ClockRate, Receivers, CPU, PPU
    <2>3. UNCHANGED <<skip, odd>>
      BY <2>2 DEF RunIfClock
    <2>. QED
      BY <1>1, <2>1, <2>3 DEF Promise!vars
  <1>. QED
    BY <1>1, <1>4, <1>5, <1>6 DEF Receivers

LEMMA ResetRefines ==
    ASSUME Inv, Lifo, StepperReset, BetweenCycles, UNCHANGED <<place, odd>>
    PROVE  Promise!Next
  <1>1. PICK new \in Placements : Recreate(new)
    BY DEF StepperReset
  <1>2. new[CPU] \in Addr /\ new[PPU] \in Addr
    BY PlacementsAreDistinct DEF Inv, Receivers
  <1>3. skip'[cos'[CPU]] = 0 /\ skip'[cos'[PPU]] = 0
    BY <1>1, <1>2 DEF Recreate
  <1>4. PhaseOf = 0 /\ PhaseOf' = 0
    BY DEF BetweenCycles, PhaseOf, place
  <1>. QED
    BY <1>3, <1>4 DEF Promise!Next, Promise!Restart

(***************************************************************************)
(* As long as there is no soft reset the coroutine scheduler implements    *)
(* FrameClock: OAM DMA pauses the CPU for exactly its 513 or 514 slots,    *)
(* the PPU's own sleep is its own, and each CPU slot is followed by three  *)
(* PPU slots.                                                              *)
(***************************************************************************)
THEOREM SchedulerRefinesFrameClock ==
    ASSUME Lifo, MaxSoftResets = 0
    PROVE  Spec => ImplementsFrameClock
  <1>1. Init => Promise!Init
    <2>. SUFFICES ASSUME Init PROVE Promise!Init
      OBVIOUS
    <2>1. cos[CPU] \in Addr /\ cos[PPU] \in Addr
      BY DEF Init, Receivers
    <2>. QED
      BY <2>1 DEF Init, Promise!Init, PhaseOf
  <1>2. Init => OneReset /\ CpuCoParity
    BY DEF Init, OneReset, CpuCoParity, CpuCoIndex
  <1>3. Inv /\ CpuCoParity /\ OneReset /\ [Next]_vars
          => [Promise!Next]_(Promise!vars)
    <2>. SUFFICES ASSUME Inv, CpuCoParity, OneReset, [Next]_vars
                  PROVE  [Promise!Next]_(Promise!vars)
      OBVIOUS
    <2>1. CASE RunIfClock
      BY <2>1, SlotRefines
    <2>2. CASE NesInit
      BY <2>2, ResetRefines DEF NesInit
    <2>3. CASE PowerCycle \/ SoftReset
      BY <2>3, ResetRefines DEF PowerCycle, SoftReset, ResetConsole
    <2>4. CASE UNCHANGED vars
      BY <2>4 DEF vars, place, Promise!vars, PhaseOf
    <2>. QED
      BY <2>1, <2>2, <2>3, <2>4 DEF Next
  <1>. QED
    BY <1>1, <1>2, <1>3, NextOneReset, NextParity, Invariance, PTL
       DEF Spec, ImplementsFrameClock, Promise!Spec

(***************************************************************************)
(* As long as there is no soft reset, a transfer stalls the coroutine the  *)
(* CPU runs in: the address that NES::init took is the CPU's by the time   *)
(* anything runs.                                                          *)
(***************************************************************************)
THEOREM DmaPausesCpu ==
    ASSUME Lifo, MaxSoftResets = 0
    PROVE  Spec => DmaStallsCpu
  <1>1. Init => OneReset /\ CpuCoParity
    BY DEF Init, OneReset, CpuCoParity, CpuCoIndex
  <1>2. ASSUME Inv, CpuCoParity, OneReset, RunIfClock, OamDma
        PROVE  skip'[cos[CPU]] = DmaLength
    <2>1. cos[CPU] \in Addr /\ skip \in [Addr -> Nat]
      BY <1>2 DEF Inv, TypeOK, Receivers
    <2>2. m_cpu_co = cos[CPU]
      BY <1>2, CpuCoIsRight DEF RunIfClock
    <2>. QED
      BY <1>2, <2>1, <2>2 DEF OamDma
  <1>3. Inv /\ CpuCoParity /\ OneReset /\ [Next]_vars
          => [RunIfClock /\ turn = CPU /\ clock = 0 /\ OamDma
                => skip'[cos[CPU]] = DmaLength]_vars
    BY <1>2
  <1>. QED
    BY <1>1, <1>3, NextOneReset, NextParity, Invariance, PTL DEF Spec, DmaStallsCpu

=============================================================================
