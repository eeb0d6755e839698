----------------------------- MODULE MCNetworks -----------------------------
(***************************************************************************)
(* Model values for Networks.  Requests are interchangeable.               *)
(***************************************************************************)
EXTENDS Networks, TLC

Symmetry == Permutations(Thread)
=============================================================================
