----------------------------- MODULE MCStepper ------------------------------
(***************************************************************************)
(* Model checking of the scheduler.  The lengths of the two pauses are     *)
(* small but keep what matters of 514, 513 and 338: an odd transfer is one *)
(* slot longer than an even one, and each pause spans CPU cycles.          *)
(***************************************************************************)
EXTENDS Stepper, TLC

(* No block is special, so runs of safety properties may permute them. *)
AddrSymmetry == Permutations(Addr)
=============================================================================
