--------------------------- MODULE MCBuildStream ---------------------------
(***************************************************************************)
(* Model values for BuildStream.                                           *)
(***************************************************************************)
EXTENDS BuildStream
=============================================================================
