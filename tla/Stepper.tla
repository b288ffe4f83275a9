------------------------------ MODULE Stepper -------------------------------
(***************************************************************************)
(* The scheduler of the console: ParallelStepper<CPUReceiver,PPUReceiver>, *)
(* the stackful coroutines it resumes, and the functions of core/nes.cpp   *)
(* that drive and reset it.                                                *)
(*                                                                         *)
(* The CPU and the PPU each run in a coroutine of their own.  Both live on *)
(* ONE shared stack: resuming a coroutine copies the frames of the current *)
(* owner of the stack away and its own back.  A coroutine is a heap block, *)
(* known by its address; a reset frees both and allocates them anew, while *)
(* IORegs keeps the address it was given by NES::init and writes through   *)
(* it on every OAM DMA.                                                    *)
(*                                                                         *)
(* An atomic step is one visit of run_if_clock, in which one coroutine may *)
(* run until it yields.  Which instructions the CPU executes and which dot *)
(* the PPU is at is left open: a CPU segment may start a DMA transfer, a   *)
(* PPU segment may end in cycle_fast.                                      *)
(***************************************************************************)
EXTENDS Naturals, FiniteSets

CONSTANTS
    Addr,            (* addresses of heap blocks of the size of an aco_t       *)
    NULL,            (* the null pointer                                       *)
    Lifo,            (* TRUE: the allocator reuses the last block freed first  *)
    DmaOdd,          (* slots a DMA begun on an odd CPU cycle takes  (514)     *)
    DmaEven,         (* slots a DMA begun on an even CPU cycle takes (513)     *)
    IdleDots,        (* argument of cycle_fast on an idle scanline   (338)     *)
    MaxResets,       (* bound: calls of stepper.reset()                        *)
    MaxSoftResets    (* bound: calls of soft_reset() after one power_cycle()   *)

CPU == 1
PPU == 2
Receivers == {CPU, PPU}

ASSUME AddrAssumption ==
    /\ IsFiniteSet(Addr)
    /\ Cardinality(Addr) >= 2
    /\ NULL \notin Addr

ASSUME LengthAssumption ==
    /\ DmaOdd \in Nat \ {0}
    /\ DmaEven \in Nat \ {0}
    /\ IdleDots \in Nat \ {0}

ASSUME PolicyAssumption ==
    /\ Lifo \in BOOLEAN
    /\ MaxResets \in Nat
    /\ MaxSoftResets \in Nat

VARIABLES
    clock, turn,     (* place in step_whole: tick 0..11, receiver visited next *)
    cos,             (* m_coroutines[r].co.co                                  *)
    arg,             (* aco_t::arg, the receiver the coroutine serves          *)
    skip,            (* aco_t::skip_count                                      *)
    started,         (* aco_t::reg: FALSE while it still points at the entry   *)
    saved,           (* aco_t::save_stack                                      *)
    owner, shared,   (* aco_share_stack_t::owner and the frames on the stack   *)
    m_cpu_co,        (* IORegs::m_cpu_co                                       *)
    odd,             (* cpu6502::cycles % 2                                    *)
    gen,             (* calls of stepper.reset() so far                        *)
    bound            (* value of gen when NES::init assigned m_cpu_co          *)

place == <<clock, turn>>
blocks == <<arg, started, saved>>
stack == <<owner, shared>>
console == <<m_cpu_co, gen, bound>>
vars == <<place, cos, blocks, skip, stack, odd, console>>

(***************************************************************************)
(* The frames of a running receiver are known by the receiver and by the   *)
(* reset that started it; NoFrames is an empty save_stack (valid_sz = 0).  *)
(***************************************************************************)
NoFrames == [rcv |-> 0, gen |-> 0]
Frames == [rcv : Receivers, gen : Nat]

Live == {cos[r] : r \in Receivers}

ClockRate(r) == IF r = CPU THEN 12 ELSE 4
Ticks == 12

(* A slip to be caught: the CPU is the first receiver, so take index 0. *)
FirstCoroutine == CPU

(***************************************************************************)
(* cpu_co is looked up by its position in the stepper, once, in init.      *)
(***************************************************************************)
CpuCoIndex == PPU

Init ==
    /\ clock = 0 /\ turn = CPU
    /\ cos \in {f \in [Receivers -> Addr] : f[CPU] # f[PPU]}
    /\ arg = [a \in Addr |-> IF a = cos[PPU] THEN PPU ELSE CPU]
    /\ skip = [a \in Addr |-> 0]
    /\ started = [a \in Addr |-> FALSE]
    /\ saved = [a \in Addr |-> NoFrames]
    /\ owner = NULL
    /\ shared = NoFrames
    /\ m_cpu_co = cos[CpuCoIndex]
    /\ odd = FALSE
    /\ gen = 0
    /\ bound = 0

-----------------------------------------------------------------------------
(* A slip to be caught: the owner's frames are not copied away. *)
ForgetOwner(a) == saved

(***************************************************************************)
(* aco_resume(a): hand the shared stack over, then switch to a.  The size  *)
(* saved is the distance from the owner's stack pointer to the top, zero   *)
(* for a coroutine that never ran; a coroutine that never ran enters       *)
(* parallel_stepper_trampoline, which fetches its receiver from arg.       *)
(***************************************************************************)
SaveOwner(a) ==
    IF owner \in {a, NULL} THEN saved
    ELSE [saved EXCEPT ![owner] = IF started[owner] THEN shared ELSE NoFrames]

Resume(a) ==
    /\ saved' = SaveOwner(a)
    /\ owner' = a
    /\ shared' = IF ~started[a] THEN [rcv |-> arg[a], gen |-> gen]
                 ELSE IF owner = a THEN shared
                 ELSE saved[a]
    /\ started' = [started EXCEPT ![a] = TRUE]
    /\ UNCHANGED arg

(***************************************************************************)
(* IORegs::oam_dma: the write to $4014 stalls the coroutine m_cpu_co, one  *)
(* slot longer on an odd cycle.  The transfer itself is immediate and the  *)
(* stalled slots are not counted in cpu.cycles.                            *)
(***************************************************************************)
DmaLength == IF odd THEN DmaOdd ELSE DmaEven

OamDma == skip' = [skip EXCEPT ![m_cpu_co] = DmaLength]

(* A slip to be caught: the slot that yields is counted twice. *)
PpuSegmentFullSkip(a) ==
    /\ skip' \in {skip, [skip EXCEPT ![a] = IdleDots]}
    /\ UNCHANGED odd

(***************************************************************************)
(* What a receiver does between being resumed and yielding again.          *)
(*   CPU: at most one bus access, which may be a write to $4014, and then  *)
(*        cycle(): ++cycles, co_yield().                                   *)
(*   PPU: cycle(1), or on an idle scanline cycle_fast(338), which skips    *)
(*        all but one of the slots of its own coroutine.                   *)
(***************************************************************************)
CpuSegment ==
    /\ OamDma \/ UNCHANGED skip
    /\ odd' = ~odd

PpuSegment(a) ==
    /\ skip' \in {skip, [skip EXCEPT ![a] = IdleDots - 1]}
    /\ UNCHANGED odd

Segment(a) == IF arg[a] = CPU THEN CpuSegment ELSE PpuSegment(a)

(* A slip to be caught: counting down past zero. *)
SkipSlotUnguarded(a) ==
    /\ skip' = [skip EXCEPT ![a] = @ - 1]
    /\ UNCHANGED <<blocks, stack, odd>>

(***************************************************************************)
(* run_co: a pending skip is counted down instead of resuming.             *)
(***************************************************************************)
SkipSlot(a) ==
    /\ skip[a] > 0
    /\ skip' = [skip EXCEPT ![a] = @ - 1]
    /\ UNCHANGED <<blocks, stack, odd>>

ResumeSlot(a) ==
    /\ skip[a] = 0
    /\ Resume(a)
    /\ Segment(a)

RunCo(r) == SkipSlot(cos[r]) \/ ResumeSlot(cos[r])

(***************************************************************************)
(* step_whole: every tick visits the CPU, then the PPU.  The call is over  *)
(* when the place is back at tick 0, CPU.                                  *)
(***************************************************************************)
Advance ==
    /\ turn' = IF turn = CPU THEN PPU ELSE CPU
    /\ clock' = IF turn = CPU THEN clock ELSE (clock + 1) % Ticks

RunIfClock ==
    /\ gen > bound                      \* powered: power_cycle follows init
    /\ IF clock % ClockRate(turn) = 0
       THEN RunCo(turn)
       ELSE UNCHANGED <<blocks, skip, stack, odd>>
    /\ Advance
    /\ UNCHANGED <<cos, console>>

BetweenCycles == clock = 0 /\ turn = CPU

-----------------------------------------------------------------------------
(***************************************************************************)
(* ParallelStepper::reset: both coroutines are destroyed, CPU's first, and *)
(* created anew in the same order for the same receivers.  aco_create      *)
(* clears the block; aco_destroy gives up the stack if its owner dies.  A  *)
(* last-in first-out allocator hands the two blocks out in reverse order;  *)
(* another one may return any two blocks.                                  *)
(***************************************************************************)
Placements ==
    IF Lifo
    THEN {[r \in Receivers |-> IF r = CPU THEN cos[PPU] ELSE cos[CPU]]}
    ELSE {f \in [Receivers -> Addr] : f[CPU] # f[PPU]}

(* A slip to be caught: the stack still names an owner that is gone. *)
OwnerKept == owner

OwnerAfter == IF owner \in Live THEN NULL ELSE owner

Recreate(new) ==
    /\ cos' = new
    /\ arg' = [a \in Addr |-> IF a = new[CPU] THEN arg[cos[CPU]]
                              ELSE IF a = new[PPU] THEN arg[cos[PPU]]
                              ELSE arg[a]]
    /\ skip' = [a \in Addr |-> IF a \in {new[CPU], new[PPU]} THEN 0 ELSE skip[a]]
    /\ started' = [a \in Addr |-> started[a] /\ a \notin {new[CPU], new[PPU]}]
    /\ saved' = [a \in Addr |-> IF a \in {new[CPU], new[PPU]} THEN NoFrames
                                ELSE saved[a]]
    /\ owner' = OwnerAfter
    /\ gen' = gen + 1
    /\ UNCHANGED shared

StepperReset == \E new \in Placements : Recreate(new)

(* A slip to be caught: a second init keeps the old address. *)
BindOnceOnly ==
    /\ m_cpu_co' = m_cpu_co
    /\ bound' = gen'

(***************************************************************************)
(* io_regs.m_cpu_co = stepper.m_coroutines[1].co.co                        *)
(***************************************************************************)
BindCpuCo ==
    /\ m_cpu_co' = cos'[CpuCoIndex]
    /\ bound' = gen'

(***************************************************************************)
(* NES::init: reset, then remember the block the CPU is taken to run in.   *)
(* The registers of the CPU, its cycle counter included, are kept.         *)
(***************************************************************************)
NesInit ==
    /\ BetweenCycles
    /\ gen + 1 < MaxResets               \* room for the power_cycle to follow
    /\ StepperReset
    /\ BindCpuCo
    /\ UNCHANGED <<place, odd>>

(***************************************************************************)
(* NES::power_cycle, once after each init, and NES::soft_reset, which the  *)
(* main loop calls between two frames when R goes down and again when it   *)
(* comes up.  Both end in stepper.reset().                                 *)
(***************************************************************************)
ResetConsole ==
    /\ BetweenCycles
    /\ gen < MaxResets
    /\ StepperReset
    /\ UNCHANGED <<place, odd, m_cpu_co, bound>>

PowerCycle ==
    /\ gen = bound
    /\ ResetConsole

SoftReset ==
    /\ gen > bound
    /\ gen - bound <= MaxSoftResets
    /\ ResetConsole

Next == RunIfClock \/ NesInit \/ PowerCycle \/ SoftReset

Spec == Init /\ [][Next]_vars

(***************************************************************************)
(* The window stays open: run_frame keeps calling step_whole, which never  *)
(* blocks.                                                                 *)
(***************************************************************************)
FairSpec == Spec /\ WF_vars(RunIfClock) /\ WF_vars(PowerCycle)

-----------------------------------------------------------------------------
(* The variables hold values of their C++ types. *)
TypeOK ==
    /\ clock \in 0..(Ticks - 1)
    /\ turn \in Receivers
    /\ cos \in [Receivers -> Addr]
    /\ arg \in [Addr -> Receivers]
    /\ skip \in [Addr -> Nat]
    /\ started \in [Addr -> BOOLEAN]
    /\ saved \in [Addr -> Frames \cup {NoFrames}]
    /\ owner \in Addr \cup {NULL}
    /\ shared \in Frames \cup {NoFrames}
    /\ m_cpu_co \in Addr
    /\ odd \in BOOLEAN
    /\ gen \in Nat
    /\ bound \in Nat
    /\ bound <= gen

(***************************************************************************)
(* The owner recorded in the shared stack is a coroutine that still        *)
(* exists: aco_resume reads and writes through that pointer, so a reset    *)
(* that freed the owner and left it recorded would corrupt the heap.       *)
(***************************************************************************)
OwnerIsLive == owner # NULL => owner \in Live

(***************************************************************************)
(* A coroutine that has run finds its own frames when it is resumed: those *)
(* of its receiver, begun after the last reset, however often the stack    *)
(* changed hands and blocks changed address since.  In particular nothing  *)
(* of an interrupted frame survives a reset.                               *)
(***************************************************************************)
FramesOf(a) == IF owner = a THEN shared ELSE saved[a]

OwnFrames ==
    \A r \in Receivers :
        started[cos[r]] => FramesOf(cos[r]) = [rcv |-> r, gen |-> gen]

(***************************************************************************)
(* Where the address taken by NES::init leads: with an allocator that      *)
(* hands freed blocks out in reverse order it names the PPU's coroutine    *)
(* after init, the CPU's after power_cycle, the PPU's while R is held      *)
(* down, the CPU's when it is let go, and so on.                           *)
(***************************************************************************)
CpuCoParity ==
    Lifo => m_cpu_co = IF (gen - bound) % 2 = 1 THEN cos[CPU] ELSE cos[PPU]

(***************************************************************************)
(* "disable cpu for 513 or 514 cycles" (io_regs.cpp, oam_dma): the         *)
(* coroutine stalled by a DMA transfer is the one the CPU runs in.         *)
(***************************************************************************)
DmaStallsCpu ==
    [][RunIfClock /\ turn = CPU /\ clock = 0 /\ OamDma
        => skip'[cos[CPU]] = DmaLength]_vars

(***************************************************************************)
(* Neither processor is starved: under any pattern of transfers both the   *)
(* CPU's and the PPU's coroutine are really resumed again and again, so    *)
(* that run_frame, which waits for the PPU to reach line 241, returns.     *)
(***************************************************************************)
Resumed(r) ==
    /\ turn = r
    /\ clock % ClockRate(r) = 0
    /\ skip[cos[r]] = 0
    /\ RunIfClock

NoStarvation == \A r \in Receivers : []<><<Resumed(r)>>_vars

(***************************************************************************)
(* The scheduler implements FrameClock: CPU slot, then three PPU slots;    *)
(* the stall of a transfer is the CPU's and the sleep of an idle line the  *)
(* PPU's.  Ticks on which no receiver is due are stuttering steps.         *)
(***************************************************************************)
DotsPerCycle == ClockRate(CPU) \div ClockRate(PPU)

PhaseOf == IF clock = 0 /\ turn = CPU THEN 0
           ELSE (1 + ((clock + 3) \div 4)) % (DotsPerCycle + 1)

Promise == INSTANCE FrameClock
              WITH phase <- PhaseOf,
                   stall <- skip[cos[CPU]],
                   sleep <- skip[cos[PPU]]

ImplementsFrameClock == Promise!Spec
=============================================================================
