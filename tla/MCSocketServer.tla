--------------------------- MODULE MCSocketServer ---------------------------
(***************************************************************************)
(* Model values for SocketServer: two daemons of one user and a third of   *)
(* another one.                                                            *)
(***************************************************************************)
EXTENDS SocketServer

CONSTANTS d1, d2, d3, root, user

Uids == [d \in {d1, d2, d3} |-> IF d = d3 THEN user ELSE root]
=============================================================================
