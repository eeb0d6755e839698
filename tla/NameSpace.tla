----------------------------- MODULE NameSpace -----------------------------
(***************************************************************************)
(* What the container registry promises about names, without its indexes:  *)
(* a container holds at most one name, and a name is granted only while    *)
(* no other container holds it.  The guard of Put looks at EVERY container;*)
(* the registry of internal/domain/registry.go consults one map entry      *)
(* instead, and module Registry shows that this is enough.                 *)
(***************************************************************************)
CONSTANTS
    ContainerID,   \* Docker container IDs
    Name,          \* non-empty container names
    NoName,        \* the empty name: any number of containers may have it
    Absent         \* the container is not in the registry

VARIABLE nameOf    \* nameOf[id]: the name id holds, NoName, or Absent

NSTypeOK == nameOf \in [ContainerID -> Name \cup {NoName, Absent}]

NSInit == nameOf = [id \in ContainerID |-> Absent]

\* No container other than id holds n.
FreeFor(id, n) == \A other \in ContainerID \ {id} : nameOf[other] # n

\* id takes the name n (or no name) and gives up the one it had.
Put(id, n) ==
    /\ n = NoName \/ FreeFor(id, n)
    /\ nameOf' = [nameOf EXCEPT ![id] = n]

\* id leaves, and its name becomes free.
Drop(id) == nameOf' = [nameOf EXCEPT ![id] = Absent]

NSNext ==
    \E id \in ContainerID :
        \/ \E n \in Name \cup {NoName} : Put(id, n)
        \/ Drop(id)

NSSpec == NSInit /\ [][NSNext]_nameOf

\* No two containers hold the same non-empty name.
NamesUnique ==
    \A i, j \in ContainerID :
        (i # j /\ nameOf[i] \in Name) => nameOf[i] # nameOf[j]
=============================================================================
