--------------------------- MODULE MCConfigStore ---------------------------
(***************************************************************************)
(* Model values for ConfigStore.                                           *)
(***************************************************************************)
EXTENDS ConfigStore
=============================================================================
