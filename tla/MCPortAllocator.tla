-------------------------- MODULE MCPortAllocator --------------------------
(***************************************************************************)
(* Model values for PortAllocator.  Callers are interchangeable.           *)
(***************************************************************************)
EXTENDS PortAllocator, TLC

Symmetry == Permutations(Caller)
=============================================================================
