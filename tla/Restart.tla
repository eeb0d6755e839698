------------------------------ MODULE Restart ------------------------------
(***************************************************************************)
(* The daemon's life across crashes: startup reconciliation                *)
(* (cmd/dockerdless/reconciliation.go, internal/domain/reconcile.go) and   *)
(* the window it opens for requests that a crash cuts short.  containerd   *)
(* keeps metadata and tasks; the registry is lost with the process and is  *)
(* rebuilt from them before the API socket is served.                      *)
(*                                                                         *)
(* Requests are reduced to what changes containerd's names: create (find   *)
(* the name, store the metadata, save, or take it back) and remove.        *)
(* Module ContainerService has them in full, without crashes.              *)
(***************************************************************************)
EXTENDS Naturals, FiniteSets

CONSTANTS
    ContainerID, Name, NoName, Absent, NoID,   \* see Registry
    Creator,       \* requests served at once (bound)
    Statuses,      \* task statuses containerd reports in this model
    ReadErrors,    \* may a containerd read of the loader fail?
    MaxCrashes     \* crashes and restarts of the daemon (bound)

\* containerd's task statuses; applyTask has no case for the last two.
SupportedStatus == {"created", "running", "paused", "stopped"}
TaskStatus == SupportedStatus \cup {"pausing", "unknown"}

ASSUME RestartAssumption ==
    /\ Statuses \subseteq TaskStatus /\ {"created", "running", "stopped"} \subseteq Statuses
    /\ ReadErrors \in BOOLEAN
    /\ MaxCrashes \in Nat

VARIABLES
    byID, byName,  \* the registry (volatile)
    meta,          \* containerd: the name label of id's metadata, or Absent
    task,          \* containerd: the status of id's task, or "none"
    phase,         \* where the daemon is: down, read, merge, save, ready, serve
    todo,          \* containers the current startup loop still has to visit
    seen,          \* seen[id]: what the loader read (name, status), or Absent
    failed,        \* reconcileAtStartup returned an error
    rq,            \* rq[t]: the request t is serving
    crashes

regVars == <<byID, byName>>
ctdVars == <<meta, task>>
bootVars == <<phase, todo, seen, failed>>
rVars == <<byID, byName, meta, task, phase, todo, seen, failed, rq, crashes>>

Data == {"created", "running", "paused", "exited"}

Reg == INSTANCE Registry

Idle == [pc |-> "idle", id |-> NoID, name |-> NoName]
Snapshot == [name : Name \cup {NoName}, status : TaskStatus \cup {"none"}]

ASSUME RestartValues ==
    /\ NoName \notin Name /\ Absent \notin Name \cup {NoName}
    /\ Absent \notin Reg!Container \cup Snapshot
    /\ NoID \notin ContainerID

RTypeOK ==
    /\ Reg!RegTypeOK
    /\ meta \in [ContainerID -> Name \cup {NoName, Absent}]
    /\ task \in [ContainerID -> TaskStatus \cup {"none"}]
    /\ phase \in {"down", "read", "merge", "save", "ready", "serve"}
    /\ todo \subseteq ContainerID
    /\ seen \in [ContainerID -> Snapshot \cup {Absent}]
    /\ failed \in BOOLEAN
    /\ rq \in [Creator -> [pc : {"idle", "find", "new", "save", "undo", "delete", "unregister"},
                           id : ContainerID \cup {NoID}, name : Name \cup {NoName}]]
    /\ crashes \in 0..MaxCrashes

RInit ==
    /\ Reg!RegInit
    /\ meta = [id \in ContainerID |-> Absent]
    /\ task = [id \in ContainerID |-> "none"]
    /\ phase = "down" /\ todo = {} /\ failed = FALSE
    /\ seen = [id \in ContainerID |-> Absent]
    /\ rq = [t \in Creator |-> Idle]
    /\ crashes = 0

-----------------------------------------------------------------------------
(* Startup: load the snapshot, reconcile it, fill the registry, serve.     *)

\* run: the process starts and lists the metadata.
Boot ==
    /\ phase = "down"
    /\ phase' = "read" /\ failed' = FALSE
    /\ todo' = {id \in ContainerID : meta[id] # Absent}
    /\ seen' = [id \in ContainerID |-> Absent]
    /\ UNCHANGED <<regVars, ctdVars, rq, crashes>>

\* reconcileAtStartup gives up; run logs it and goes on to serve.
GiveUp ==
    /\ phase' = "ready" /\ failed' = TRUE
    /\ todo' = {}
    /\ UNCHANGED <<regVars, ctdVars, seen, rq, crashes>>

\* loadContainerdSnapshot reads one container's labels and task status.
ReadContainer(id) ==
    /\ phase = "read" /\ id \in todo
    /\ seen' = [seen EXCEPT ![id] = [name |-> meta[id], status |-> task[id]]]
    /\ todo' = todo \ {id}
    /\ UNCHANGED <<regVars, ctdVars, phase, failed, rq, crashes>>

\* Mutant: a failed read ends the process, and its supervisor restarts it.
ReadFailsExiting ==
    /\ phase = "read" /\ ReadErrors
    /\ phase' = "down" /\ todo' = {}
    /\ UNCHANGED <<regVars, ctdVars, seen, failed, rq, crashes>>

\* Listing, or reading a container, its spec, its command label or its task
\* fails.
ReadFails ==
    /\ phase = "read" /\ ReadErrors
    /\ GiveUp

ReadDone ==
    /\ phase = "read" /\ todo = {}
    /\ phase' = "merge"
    /\ UNCHANGED <<regVars, ctdVars, todo, seen, failed, rq, crashes>>

\* Mutant: metadata without a task is taken to be a container that never ran.
DockerStateNoTaskCreated(status) ==
    CASE status \in {"created", "running", "paused"} -> status
      [] status = "none" -> "created"
      [] status = "stopped" -> "exited"

\* applyTask, and the rule for metadata without a task.
DockerState(status) ==
    CASE status \in {"created", "running", "paused"} -> status
      [] status \in {"stopped", "none"} -> "exited"

Listed == {id \in ContainerID : seen[id] # Absent}

\* domain.Reconcile: one unsupported task status fails the whole of it.
Merge ==
    /\ phase = "merge"
    /\ \/ /\ \E id \in Listed : seen[id].status \notin SupportedStatus \cup {"none"}
          /\ GiveUp
       \/ /\ \A id \in Listed : seen[id].status \in SupportedStatus \cup {"none"}
          /\ phase' = "save" /\ todo' = Listed
          /\ UNCHANGED <<regVars, ctdVars, seen, failed, rq, crashes>>

Restored(id) == [name |-> seen[id].name, data |-> DockerState(seen[id].status)]

\* registry.Save of one recovered container; the first error ends the loop and
\* keeps what was saved so far.
SaveRestored(id) ==
    /\ phase = "save" /\ id \in todo
    /\ \/ /\ Reg!Save(id, Restored(id))
          /\ todo' = todo \ {id}
          /\ UNCHANGED <<ctdVars, phase, seen, failed, rq, crashes>>
       \/ /\ Reg!NameConflict(id, seen[id].name)
          /\ GiveUp

SaveDone ==
    /\ phase = "save" /\ todo = {}
    /\ phase' = "ready"
    /\ UNCHANGED <<regVars, ctdVars, todo, seen, failed, rq, crashes>>

\* server.Run: the socket is bound and requests are accepted.
Serve ==
    /\ phase = "ready"
    /\ phase' = "serve"
    /\ UNCHANGED <<regVars, ctdVars, todo, seen, failed, rq, crashes>>

Startup ==
    \/ Boot \/ ReadFails \/ ReadDone \/ Merge \/ SaveDone \/ Serve
    \/ \E id \in ContainerID : ReadContainer(id) \/ SaveRestored(id)

\* The process dies at any point: the registry and all requests are gone.
Crash ==
    /\ phase # "down" /\ crashes < MaxCrashes
    /\ crashes' = crashes + 1
    /\ phase' = "down" /\ todo' = {} /\ failed' = FALSE
    /\ seen' = [id \in ContainerID |-> Absent]
    /\ byID' = [id \in ContainerID |-> Absent]
    /\ byName' = [n \in Name |-> NoID]
    /\ rq' = [t \in Creator |-> Idle]
    /\ UNCHANGED ctdVars

-----------------------------------------------------------------------------
(* Requests.                                                               *)

Goto(t, pc) == rq' = [rq EXCEPT ![t].pc = pc]
Return(t) == rq' = [rq EXCEPT ![t] = Idle]

\* ContainerCreate up to its first call that matters: the registry's name check.
CreateBegin(t, n) ==
    /\ phase = "serve" /\ rq[t].pc = "idle"
    /\ ~Reg!NameInUse(n)
    /\ rq' = [rq EXCEPT ![t] = [pc |-> "find", id |-> NoID, name |-> n]]
    /\ UNCHANGED <<regVars, ctdVars, bootVars, crashes>>

\* Mutant: the name label is not looked up in containerd.
CreateFindUnchecked(t) ==
    /\ rq[t].pc = "find"
    /\ Goto(t, "new")
    /\ UNCHANGED <<regVars, ctdVars, bootVars, crashes>>

\* FindContainerByName: the name is taken, or the call fails; or it is free.
CreateFind(t) ==
    /\ rq[t].pc = "find"
    /\ \/ Return(t)
       \/ /\ rq[t].name = NoName \/ \A id \in ContainerID : meta[id] # rq[t].name
          /\ Goto(t, "new")
    /\ UNCHANGED <<regVars, ctdVars, bootVars, crashes>>

\* NewContainer under an ID that was never used (IDs are random).
CreateNew(t) ==
    /\ rq[t].pc = "new"
    /\ \/ \E id \in ContainerID :
             /\ meta[id] = Absent /\ ~Reg!Registered(id)
             /\ meta' = [meta EXCEPT ![id] = rq[t].name]
             /\ rq' = [rq EXCEPT ![t].pc = "save", ![t].id = id]
       \/ Return(t) /\ UNCHANGED meta       \* containerd refuses
    /\ UNCHANGED <<regVars, task, bootVars, crashes>>

\* The save fails for a name that was taken meanwhile and for a request whose
\* context is done.
CreateSave(t) ==
    /\ rq[t].pc = "save"
    /\ \/ /\ Reg!Save(rq[t].id, [name |-> rq[t].name, data |-> "created"])
          /\ Return(t)
       \/ Goto(t, "undo") /\ UNCHANGED regVars
    /\ UNCHANGED <<ctdVars, bootVars, crashes>>

\* The rollback, on a context of its own; its error is discarded.
CreateUndo(t) ==
    /\ rq[t].pc = "undo"
    /\ meta' = [meta EXCEPT ![rq[t].id] = Absent] \/ UNCHANGED meta
    /\ Return(t)
    /\ UNCHANGED <<regVars, task, bootVars, crashes>>

\* ContainerRemove up to the deletion: the status must be readable.
RemoveBegin(t, id) ==
    /\ phase = "serve" /\ rq[t].pc = "idle"
    /\ Reg!Registered(id) /\ meta[id] # Absent
    /\ rq' = [rq EXCEPT ![t] = [pc |-> "delete", id |-> id, name |-> NoName]]
    /\ UNCHANGED <<regVars, ctdVars, bootVars, crashes>>

\* Adapter.Remove: task first, then the metadata, then the snapshot; each of
\* these calls may fail and end the request.
RemoveDelete(t) ==
    /\ rq[t].pc = "delete"
    /\ \/ Return(t) /\ UNCHANGED ctdVars
       \/ /\ task[rq[t].id] \in {"none", "stopped"}
          /\ task' = [task EXCEPT ![rq[t].id] = "none"]
          /\ \/ Return(t) /\ UNCHANGED meta
             \/ /\ meta' = [meta EXCEPT ![rq[t].id] = Absent]
                /\ Goto(t, "unregister") \/ Return(t)
    /\ UNCHANGED <<regVars, bootVars, crashes>>

RemoveUnregister(t) ==
    /\ rq[t].pc = "unregister"
    /\ Reg!Remove(rq[t].id) \/ UNCHANGED regVars     \* gone already, or the context is
    /\ Return(t)
    /\ UNCHANGED <<ctdVars, bootVars, crashes>>

Request(t) ==
    \/ \E n \in Name \cup {NoName} : CreateBegin(t, n)
    \/ CreateFind(t) \/ CreateNew(t) \/ CreateSave(t) \/ CreateUndo(t)
    \/ \E id \in ContainerID : RemoveBegin(t, id)
    \/ RemoveDelete(t) \/ RemoveUnregister(t)

-----------------------------------------------------------------------------
(* Tasks, with the daemon up or down: processes end by themselves, and     *)
(* other clients of the namespace pause them.                              *)

TaskStep(id, s) ==
    /\ meta[id] # Absent
    /\ s \in Statuses
    /\ <<task[id], s>> \in {<<"none", "created">>, <<"created", "running">>,
                            <<"running", "pausing">>, <<"running", "paused">>,
                            <<"pausing", "paused">>, <<"paused", "running">>,
                            <<"running", "unknown">>, <<"unknown", "running">>,
                            <<"running", "stopped">>}
    \* only the daemon's start creates a task, and an orphan is never started
    /\ s \in {"created", "running"} /\ task[id] \in {"none", "created"}
          => phase = "serve" /\ Reg!Registered(id)
    /\ task' = [task EXCEPT ![id] = s]
    /\ UNCHANGED <<regVars, meta, bootVars, rq, crashes>>

RNext ==
    \/ Startup
    \/ Crash
    \/ \E t \in Creator : Request(t)
    \/ \E id \in ContainerID, s \in Statuses : TaskStep(id, s)

RSpec == RInit /\ [][RNext]_rVars

\* main runs straight through its startup; nothing it waits for is another
\* request's.
RFairSpec == RSpec /\ WF_rVars(Startup)

-----------------------------------------------------------------------------
(* Properties.                                                             *)

\* A reconciliation that succeeds restores every container containerd has and
\* nothing else, each under its own name, in the state its task had when it was
\* read, whatever the task does meanwhile; one that still has no task is exited
\* (reconcile.go:97-116).
CompleteRestore ==
    (phase = "ready" /\ ~failed) =>
        \A id \in ContainerID :
            /\ Reg!Registered(id) <=> meta[id] # Absent
            /\ Reg!Registered(id) =>
                  /\ byID[id].name = meta[id]
                  /\ <<seen[id].status, byID[id].data>> \in
                        {<<"created", "created">>, <<"running", "running">>, <<"paused", "paused">>,
                         <<"stopped", "exited">>, <<"none", "exited">>}
                  /\ task[id] = "none" => byID[id].data = "exited"

\* containerd never holds two containers of one name when creates come one at
\* a time, whatever crash cut one short and however little of the registry the
\* restart recovered: the check in containerd (adapter.go:116-122) stands in
\* for the registry's.
StoredNamesUnique ==
    \A i, j \in ContainerID :
        (i # j /\ meta[i] \in Name) => meta[i] # meta[j]

\* The daemon always gets to serve again, whatever reconciliation meets
\* (main.go:107-111).
EventuallyServes == (phase # "serve") ~> (phase = "serve")
=============================================================================
