----------------------------- MODULE FrameClock -----------------------------
(***************************************************************************)
(* What the scheduler of the emulator promises to the rest of the program, *)
(* stated without coroutines, addresses or a shared stack.                 *)
(*                                                                         *)
(* Time advances in CPU cycles.  In each of them the CPU is given one slot *)
(* and the PPU then DotsPerCycle slots.  A processor either executes one   *)
(* cycle in its slot or lets the slot pass: the CPU while an OAM DMA       *)
(* transfer holds the bus, the PPU while it sleeps through the part of an  *)
(* idle scanline in which nothing happens.  Neither pause touches the      *)
(* other processor, and a reset, between two CPU cycles, ends both.        *)
(***************************************************************************)
EXTENDS Naturals

CONSTANTS
    DotsPerCycle,   (* PPU slots per CPU slot                              *)
    DmaOdd,         (* slots lost to a transfer begun on an odd CPU cycle  *)
    DmaEven,        (* slots lost to a transfer begun on an even CPU cycle *)
    IdleDots        (* slots a fast idle scanline takes                    *)

VARIABLES
    phase,          (* slots already given in the current CPU cycle        *)
    stall,          (* CPU slots still owed to the transfer                *)
    sleep,          (* PPU slots still to be slept                         *)
    odd             (* parity of the CPU cycles executed                   *)

vars == <<phase, stall, sleep, odd>>

DmaLength(parity) == IF parity THEN DmaOdd ELSE DmaEven

Init ==
    /\ phase = 0
    /\ stall = 0
    /\ sleep = 0
    /\ odd \in BOOLEAN

NextPhase == (phase + 1) % (DotsPerCycle + 1)

-----------------------------------------------------------------------------
CpuExecutes ==
    /\ phase = 0
    /\ stall = 0
    /\ stall' \in {0, DmaLength(odd)}
    /\ odd' = ~odd
    /\ phase' = NextPhase
    /\ UNCHANGED sleep

CpuStalled ==
    /\ phase = 0
    /\ stall > 0
    /\ stall' = stall - 1
    /\ phase' = NextPhase
    /\ UNCHANGED <<sleep, odd>>

PpuExecutes ==
    /\ phase > 0
    /\ sleep = 0
    /\ sleep' \in {0, IdleDots - 1}
    /\ phase' = NextPhase
    /\ UNCHANGED <<stall, odd>>

PpuSleeps ==
    /\ phase > 0
    /\ sleep > 0
    /\ sleep' = sleep - 1
    /\ phase' = NextPhase
    /\ UNCHANGED <<stall, odd>>

Restart ==
    /\ phase = 0
    /\ stall' = 0
    /\ sleep' = 0
    /\ UNCHANGED <<phase, odd>>

Next == CpuExecutes \/ CpuStalled \/ PpuExecutes \/ PpuSleeps \/ Restart

Spec == Init /\ [][Next]_vars
=============================================================================
