------------------------------ MODULE MCImages ------------------------------
(***************************************************************************)
(* Model values for Images: two containers compete for a name.             *)
(***************************************************************************)
EXTENDS Images, TLC

CONSTANTS dA, dB

\* Containers are created from a tag or from an image ID.
From == {1, dA}

Symmetry == Permutations(ContainerID) \cup Permutations(Thread)
=============================================================================
