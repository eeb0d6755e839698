------------------------------ MODULE Registry ------------------------------
(***************************************************************************)
(* The in-memory container registry of internal/domain/registry.go: two    *)
(* maps, byID and byName, that every method reads or updates while it      *)
(* holds the registry's RWMutex, so one method call is one step.           *)
(*                                                                         *)
(* Callers keep private copies of a container (cloneContainer) and save    *)
(* them later, so Save is open to ANY container record at ANY time: a      *)
(* stale copy, one whose name has changed hands, or one that was removed   *)
(* in between.  What a record holds besides its name is opaque (Data).     *)
(***************************************************************************)
CONSTANTS
    ContainerID,   \* Docker container IDs
    Name,          \* non-empty container names
    NoName,        \* the empty name
    Data,          \* everything a container record carries besides its name
    Absent,        \* no entry in byID
    NoID           \* no entry in byName

ASSUME RegistryAssumption ==
    /\ NoName \notin Name
    /\ Absent \notin Name /\ Absent # NoName
    /\ Absent \notin [name : Name \cup {NoName}, data : Data]
    /\ NoID \notin ContainerID

VARIABLES
    byID,          \* byID[id]: the stored container record, or Absent
    byName         \* byName[n]: the ID indexed under name n, or NoID

regVars == <<byID, byName>>

\* domain.Container, reduced to its name and an opaque rest.
Container == [name : Name \cup {NoName}, data : Data]

RegTypeOK ==
    /\ byID \in [ContainerID -> Container \cup {Absent}]
    /\ byName \in [Name -> ContainerID \cup {NoID}]

RegInit ==
    /\ byID = [id \in ContainerID |-> Absent]
    /\ byName = [n \in Name |-> NoID]

-----------------------------------------------------------------------------
(* Reads.                                                                  *)

\* Get and List answer from byID.
Registered(id) == byID[id] # Absent

\* GetByName answers from the index alone.
NameInUse(n) == n \in Name /\ byName[n] # NoID

\* The conflict test shared by Save and Rename: the index maps n to another ID.
NameConflict(id, n) == NameInUse(n) /\ byName[n] # id

-----------------------------------------------------------------------------
(* Writes.                                                                 *)

\* Mutant: Save keeps the entry of the name the container had before.
ReindexedKeepingOldName(id, old, n) ==
    [m \in Name |-> IF m = n THEN id ELSE byName[m]]

\* byName after id, which had the record old, is stored under the name n.
Reindexed(id, old, n) ==
    [m \in Name |-> IF m = n THEN id
                    ELSE IF old # Absent /\ m = old.name THEN NoID
                    ELSE byName[m]]

\* Mutant: the name is checked by the caller only (GetByName), not by Save.
SaveUnchecked(id, c) ==
    /\ byID' = [byID EXCEPT ![id] = c]
    /\ byName' = Reindexed(id, byID[id], c.name)

Save(id, c) ==
    /\ ~NameConflict(id, c.name)
    /\ byID' = [byID EXCEPT ![id] = c]
    /\ byName' = Reindexed(id, byID[id], c.name)

Rename(id, n) ==
    /\ Registered(id)
    /\ ~NameConflict(id, n)
    /\ byID' = [byID EXCEPT ![id].name = n]
    /\ byName' = Reindexed(id, byID[id], n)

Remove(id) ==
    /\ Registered(id)
    /\ byID' = [byID EXCEPT ![id] = Absent]
    /\ byName' = Reindexed(id, byID[id], NoName)

RegNext ==
    \E id \in ContainerID :
        \/ \E c \in Container : Save(id, c)
        \/ \E n \in Name : Rename(id, n)
        \/ Remove(id)

RegSpec == RegInit /\ [][RegNext]_regVars

-----------------------------------------------------------------------------
(* Properties.                                                             *)

\* Every entry of byName leads to a container that has that name, and every
\* named container is found under its name: GetByName never answers with the
\* zero Container of a missing ID (registry.go:59-68), and the name check of
\* Save, which looks at byName only, sees every name in use.
IndexConsistent ==
    /\ \A n \in Name : byName[n] # NoID =>
          /\ Registered(byName[n])
          /\ byID[byName[n]].name = n
    /\ \A id \in ContainerID :
          (Registered(id) /\ byID[id].name \in Name) => byName[byID[id].name] = id

\* The registry implements the name space: checking one index entry grants a
\* name exactly when no other container, looked up one by one, holds it.
NS == INSTANCE NameSpace WITH
        nameOf <- [id \in ContainerID |->
                     IF byID[id] = Absent THEN Absent ELSE byID[id].name]

ImplementsNameSpace == NS!NSSpec

\* No two registered containers have the same non-empty name, whatever stale
\* copies are saved and in whatever order (registry.go:126-128).
RegistryNamesUnique == NS!NamesUnique
=============================================================================
