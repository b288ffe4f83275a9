--------------------------- MODULE MCAddressSpace ---------------------------
(***************************************************************************)
(* Model checking of the address space: a bus of four addresses holds a    *)
(* ROM of two cells, a RAM of one and a mirror of the RAM, in any order,   *)
(* and a port of the ROM can enclose a port of the RAM from either side.   *)
(***************************************************************************)
EXTENDS AddressSpace, TLC

CONSTANTS ram, rom

(* The two values may be exchanged: nothing computes with data. *)
ValueSymmetry == Permutations(Value)

MCSize == ram :> 1 @@ rom :> 2
=============================================================================
