---------------------------- MODULE MCLogFollow ----------------------------
(***************************************************************************)
(* Requests for LogFollow: the last line and what follows, the first line  *)
(* only, and the second if it is the last, without following.              *)
(***************************************************************************)
EXTENDS LogFollow

MCRequest ==
    {[follow |-> TRUE,  tail |-> 1, since |-> 0, until |-> MaxLines],
     [follow |-> TRUE,  tail |-> 0, since |-> 1, until |-> 1],
     [follow |-> FALSE, tail |-> 1, since |-> 2, until |-> MaxLines]}
=============================================================================
