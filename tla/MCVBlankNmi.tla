---------------------------- MODULE MCVBlankNmi -----------------------------
(***************************************************************************)
(* Model checking of the vertical blanking interrupt.  The frame is scaled *)
(* down to eight lines of ten dots.  What has to survive the scaling does: *)
(* a frame is not a multiple of the three dots of a CPU cycle, so the CPU  *)
(* meets line 241 at every alignment; a short frame shifts it further; an  *)
(* idle line is long enough to sleep in (more than three dots); and the    *)
(* vertical blank is long enough for an NMI to be taken and its handler to *)
(* write $2000 before it ends.                                             *)
(***************************************************************************)
EXTENDS VBlankNmi
=============================================================================
