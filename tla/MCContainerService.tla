------------------------- MODULE MCContainerService -------------------------
(***************************************************************************)
(* Model values for ContainerService: one protocol, the wildcard address   *)
(* and a specific one on the same port, so that any two containers that    *)
(* publish a port collide.                                                 *)
(***************************************************************************)
EXTENDS ContainerService, TLC

CONSTANTS any, lo

key(ip) == [proto |-> "tcp", ip |-> ip, port |-> 80]

\* A create publishes one of two overlapping keys.
Publish == {{key(any)}, {key(lo)}}

\* A container always publishes the same key.
PublishOne == {{key(any)}}

\* ... or nothing, which a container in host or none mode has to do.
PublishOneOrNone == PublishOne \cup {{}}

\* Bound: one call of the history fails without anybody making up for it.
\* Failures that the caller answers are not bounded.
OneFailure == Cardinality(UNION {{id} \X failed[id] : id \in ContainerID}) <= 1

Symmetry == Permutations(ContainerID) \cup Permutations(Thread)
=============================================================================
