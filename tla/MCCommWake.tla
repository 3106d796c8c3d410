----------------------------- MODULE MCCommWake -----------------------------
(* A small scope for CommWake.                                               *)
EXTENDS CommWake

CONSTANTS w1, t1
=============================================================================
