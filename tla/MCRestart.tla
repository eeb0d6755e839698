----------------------------- MODULE MCRestart -----------------------------
(***************************************************************************)
(* Restart with the model values of its configuration.  No symmetry: a     *)
(* temporal property is checked.                                           *)
(***************************************************************************)
EXTENDS Restart
=============================================================================
