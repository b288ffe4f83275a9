------------------------------- MODULE MCMmc1 -------------------------------
(***************************************************************************)
(* Model checking of the MMC1.  The three values loaded give, in the       *)
(* control register, a 32 KB and both 16 KB PRG modes and both CHR modes,  *)
(* and, in the others, banks with and without bit 4, beyond the end of the *)
(* smaller cartridges.                                                     *)
(***************************************************************************)
EXTENDS Mmc1

Large == [prg |-> 32, chr |-> 0, ram |-> 4]
Small == [prg |-> 8, chr |-> 32, ram |-> 1]
Tiny == [prg |-> 2, chr |-> 2, ram |-> 1]

AllCarts == {Large, Small, Tiny}
LargeOnly == {Large}
=============================================================================
