--------------------------- MODULE MCExecSessions ---------------------------
(***************************************************************************)
(* Model values for ExecSessions.                                          *)
(***************************************************************************)
EXTENDS ExecSessions
=============================================================================
