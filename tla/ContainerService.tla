-------------------------- MODULE ContainerService --------------------------
(***************************************************************************)
(* The container use cases of internal/app (ContainerCreate, -Start, -Stop,*)
(* -Remove, -Inspect and -List) as concurrent requests.  The service takes *)
(* no lock around a use case: a request copies a container out of the      *)
(* registry, calls containerd, the CNI adapter and the port allocator one  *)
(* after the other, and saves its copy at the end.  One step here is one   *)
(* such call, so everything another request does between two calls shows. *)
(*                                                                         *)
(* Composed components: the registry (module Registry), the reservation    *)
(* table (module PortTable), the CNI adapter's attachment map, the log     *)
(* sinks, and containerd, which is external and reduced to what the        *)
(* adapter asks of it: metadata with a name label, and at most one task.   *)
(***************************************************************************)
EXTENDS Naturals, FiniteSets

CONSTANTS
    ContainerID,   \* the fresh IDs newID may generate (bound on creates)
    Name, NoName,  \* container names; the empty name
    Absent, NoID,  \* no registry entry / no metadata; no ID
    Proto, HostIP, Wildcard, Port,   \* see PortTable
    Thread,        \* requests in flight at once (bound)
    Ops,           \* the use cases clients call in this model
    Overlapping,   \* may two requests work on one container at the same time?
    PortRequests,  \* the sets of host-port keys a create may publish
    NetModes,      \* TRUE: on a CNI network; FALSE: host or none mode
    FastExit,      \* may a task exit while its start request is running?
    Timeouts       \* may a request context expire (deadline, disconnect)?

ASSUME ServiceAssumption ==
    /\ Ops \subseteq {"create", "start", "stop", "remove", "inspect"}
    /\ NetModes \subseteq BOOLEAN
    /\ {Overlapping, FastExit, Timeouts} \subseteq BOOLEAN

VARIABLES
    byID, byName,  \* the registry
    used,          \* the port allocator's reservations
    attach,        \* CNI adapter: attach[id] = the tracked allocations, or Absent
    meta,          \* containerd: meta[id] = the name label, or Absent
    task,          \* containerd: task[id]
    sink,          \* Service.logs: does id have an open log sink?
    taskIO,        \* does the output of id's task reach an open log file?
    io,            \* io[t]: is the sink that start request t is to hand to a task open?
    rq,            \* rq[t]: the request thread t is serving
    fresh,         \* IDs not generated yet
    failed,        \* history: failed[id] = the calls for id whose failure was not made good
    loose          \* history: the host-port keys of containers in failed

regVars == <<byID, byName>>
ctdVars == <<meta, task>>
logVars == <<sink, taskIO, io>>
vars == <<byID, byName, used, attach, meta, task, sink, taskIO, io, rq, fresh, failed, loose>>

Ports == INSTANCE PortTable

State == {"created", "running", "exited"}
Data == [state : State, ports : SUBSET Ports!Key, net : BOOLEAN]

Reg == INSTANCE Registry

ASSUME ServiceValues ==
    /\ NoID \notin ContainerID
    /\ NoName \notin Name /\ Absent \notin Name \cup {NoName} /\ Absent \notin Reg!Container
    /\ \A keys \in SUBSET Ports!Key : keys # Absent
    /\ PortRequests \subseteq SUBSET Ports!Key

NoContainer == [name |-> NoName,
                data |-> [state |-> "created", ports |-> {}, net |-> FALSE]]

\* A thread between two requests.
Idle == [pc |-> "idle", id |-> NoID, c |-> NoContainer, done |-> FALSE,
         al |-> {}, st |-> "exited", force |-> FALSE]

CreatePC == {"c_alloc", "c_find", "c_new", "c_save", "c_undo"}
StartPC  == {"s_status", "s_open", "s_discard", "s_task", "s_run", "s_pid", "s_adopt",
             "s_add", "s_restore", "s_failed", "s_undo", "s_final", "s_exited", "s_mark"}
StopPC   == {"p_stop", "p_refresh", "p_close", "p_save"}
RemovePC == {"r_status", "r_stop", "r_disc", "r_forget", "r_free", "r_task", "r_meta",
             "r_snap", "r_unreg", "r_logs"}
InspectPC == {"i_refresh", "i_save"}

\* rq: pc, the container's ID, the request's private copy of it, whether its
\* context is done, the allocations looked up for a disconnect, the runtime
\* state last read, and the force flag of a removal.
Request == [pc : {"idle"} \cup CreatePC \cup StartPC \cup StopPC \cup RemovePC \cup InspectPC,
            id : ContainerID \cup {NoID},
            c : Reg!Container,
            done : BOOLEAN,
            al : SUBSET Ports!Key,
            st : State,
            force : BOOLEAN]

\* The calls whose error the code discards, logs, or returns with half of the
\* work done; what each leaves behind is said where it fails.
Call == {"NewContainer", "Undo", "Status", "Start", "Stop", "Save", "Disconnect", "Remove",
         "RemoveSnapshot", "Unregister"}

TypeOK ==
    /\ Reg!RegTypeOK
    /\ used \subseteq Ports!Key
    /\ attach \in [ContainerID -> (SUBSET Ports!Key) \cup {Absent}]
    /\ meta \in [ContainerID -> Name \cup {NoName, Absent}]
    /\ task \in [ContainerID -> {"none", "created", "running", "stopped"}]
    /\ sink \in [ContainerID -> BOOLEAN]
    /\ taskIO \in [ContainerID -> BOOLEAN]
    /\ io \in [Thread -> BOOLEAN]
    /\ rq \in [Thread -> Request]
    /\ fresh \subseteq ContainerID
    /\ failed \in [ContainerID -> SUBSET Call]
    /\ loose \subseteq Ports!Key

Init ==
    /\ Reg!RegInit
    /\ used = {}
    /\ attach = [id \in ContainerID |-> Absent]
    /\ meta = [id \in ContainerID |-> Absent]
    /\ task = [id \in ContainerID |-> "none"]
    /\ sink = [id \in ContainerID |-> FALSE]
    /\ taskIO = [id \in ContainerID |-> FALSE]
    /\ io = [t \in Thread |-> FALSE]
    /\ rq = [t \in Thread |-> Idle]
    /\ fresh = ContainerID
    /\ failed = [id \in ContainerID |-> {}]
    /\ loose = {}

-----------------------------------------------------------------------------
(* Control of a request.                                                   *)

At(t, pc) == rq[t].pc = pc
Goto(t, pc) == rq' = [rq EXCEPT ![t].pc = pc]

\* No request is working on id.
Settled(id) == \A t \in Thread : rq[t].id # id

\* The handler returns, with an answer or an error.
Return(t) == rq' = [rq EXCEPT ![t] = Idle]

\* A use case that starts with resolveContainer: it fails without a registry
\* entry, and otherwise works on its own copy from here on.
Resolve(t, op, id, pc, force) ==
    /\ op \in Ops
    /\ At(t, "idle")
    /\ Reg!Registered(id)
    /\ Overlapping \/ Settled(id)
    /\ rq' = [rq EXCEPT ![t] = [Idle EXCEPT !.pc = pc, !.id = id, !.c = byID[id],
                                            !.force = force]]

\* The request context expires: later calls that take it cannot succeed.
Expire(t) ==
    /\ Timeouts
    /\ ~At(t, "idle") /\ ~rq[t].done
    /\ rq' = [rq EXCEPT ![t].done = TRUE]
    /\ UNCHANGED <<regVars, used, attach, ctdVars, logVars, fresh, failed, loose>>

-----------------------------------------------------------------------------
(* Shared calls.                                                           *)

\* Adapter.Status of a container with metadata: no task reads as exited.
Status(id) == IF task[id] \in {"none", "stopped"} THEN "exited" ELSE task[id]

\* A call to containerd, to the CNI adapter or to the file system may fail at
\* any time and for any reason: its failure is a disjunct without a guard.  One
\* that loads the container cannot succeed once the context is done or the
\* metadata is gone.
LoadFails(t) == rq[t].done \/ meta[rq[t].id] = Absent

\* A call for id fails and nobody makes up for it.
Unanswered(id, call) == failed' = [failed EXCEPT ![id] = @ \cup {call}]

\* ... and the reservations of t's container may not follow it from here on.
Adrift(t, call) ==
    /\ Unanswered(rq[t].id, call)
    /\ loose' = loose \cup rq[t].c.data.ports

\* closeLogSink: the map entry goes, and the file is closed under every
\* writer that was handed out for it.
CloseSink(id) ==
    /\ sink' = [sink EXCEPT ![id] = FALSE]
    /\ taskIO' = [taskIO EXCEPT ![id] = FALSE]
    /\ io' = [t \in Thread |-> io[t] /\ rq[t].id # id]

\* Service.save of t's copy with the state s: a failed Save (context done, or
\* the name belongs to another container by now) is only logged.
SaveAs(t, s) ==
    LET c == [rq[t].c EXCEPT !.data.state = s] IN
    \/ ~rq[t].done /\ Reg!Save(rq[t].id, c) /\ UNCHANGED <<failed, loose>>
    \/ /\ rq[t].done \/ Reg!NameConflict(rq[t].id, c.name)
       /\ Adrift(t, "Save")
       /\ UNCHANGED regVars

\* Adapter.Stop: SIGTERM, then SIGKILL, then wait for the exit; a container
\* without a running task is left alone.
StopTask(id) ==
    task' = IF task[id] = "running" THEN [task EXCEPT ![id] = "stopped"] ELSE task

\* containerd refuses to delete a task that is running or not started yet.
Deletable(id) == task[id] \in {"none", "stopped"}

-----------------------------------------------------------------------------
(* ContainerCreate.                                                        *)

\* validateContainerCreate: the name is not in the registry's name index.
\* Image and network are resolved here too, without changing this state.
\* Publishing ports outside a CNI network is rejected (prepareCreateBindings).
CreateValidate(t, n, keys, net) ==
    /\ "create" \in Ops
    /\ At(t, "idle")
    /\ ~Reg!NameInUse(n)
    /\ keys # {} => net
    /\ rq' = [rq EXCEPT ![t] =
                [Idle EXCEPT !.pc = "c_alloc",
                             !.c = [name |-> n, data |-> [state |-> "created",
                                                          ports |-> keys, net |-> net]]]]
    /\ UNCHANGED <<regVars, used, attach, ctdVars, logVars, fresh, failed, loose>>

\* allocateBindings, under allocMu: all of the bindings or none (PortAllocator).
CreateAllocate(t) ==
    /\ At(t, "c_alloc")
    /\ \/ /\ Ports!ReserveAll(rq[t].c.data.ports)
          /\ Goto(t, "c_find")
       \/ /\ rq[t].c.data.ports # {}       \* taken, or the OS probe refuses
          /\ UNCHANGED used
          /\ Return(t)
    /\ UNCHANGED <<regVars, attach, ctdVars, logVars, fresh, failed, loose>>

\* CreateContainer, first half: FindContainerByName rejects a name label that
\* exists in containerd, and GetImage may fail for reasons of its own; every
\* failure gives the reservations back.
CreateFind(t) ==
    /\ At(t, "c_find")
    /\ \/ /\ ~rq[t].done
          /\ rq[t].c.name = NoName \/ \A id \in ContainerID : meta[id] # rq[t].c.name
          /\ Goto(t, "c_new")
          /\ UNCHANGED used
       \/ Ports!Free(rq[t].c.data.ports) /\ Return(t)
    /\ UNCHANGED <<regVars, attach, ctdVars, logVars, fresh, failed, loose>>

\* CreateContainer, second half: NewContainer under a fresh ID.
CreateNew(t) ==
    /\ At(t, "c_new")
    /\ \/ /\ ~rq[t].done
          /\ \E id \in fresh :
                /\ meta' = [meta EXCEPT ![id] = rq[t].c.name]
                /\ fresh' = fresh \ {id}
                /\ rq' = [rq EXCEPT ![t].pc = "c_save", ![t].id = id]
          /\ UNCHANGED <<used, failed>>
       \/ /\ Ports!Free(rq[t].c.data.ports)
          /\ Return(t)
          /\ UNCHANGED <<meta, fresh, failed>>
       \/ /\ ~rq[t].done                   \* stored, but the reply is lost
          /\ \E id \in fresh :
                /\ meta' = [meta EXCEPT ![id] = rq[t].c.name]
                /\ fresh' = fresh \ {id}
                /\ Unanswered(id, "NewContainer")
          /\ Ports!Free(rq[t].c.data.ports)
          /\ Return(t)
    /\ UNCHANGED <<regVars, attach, task, logVars, loose>>

\* Mutant: a failed Save returns without removing the containerd container.
CreateSaveNoUndo(t) ==
    /\ At(t, "c_save")
    /\ \/ /\ ~rq[t].done
          /\ Reg!Save(rq[t].id, rq[t].c)
          /\ Return(t)
          /\ UNCHANGED used
       \/ /\ rq[t].done \/ Reg!NameConflict(rq[t].id, rq[t].c.name)
          /\ Ports!Free(rq[t].c.data.ports)
          /\ Return(t)
          /\ UNCHANGED regVars
    /\ UNCHANGED <<attach, ctdVars, logVars, fresh, failed, loose>>

\* registry.Save decides a race for the name; the loser releases its ports.
CreateSave(t) ==
    /\ At(t, "c_save")
    /\ \/ /\ ~rq[t].done
          /\ Reg!Save(rq[t].id, rq[t].c)
          /\ Return(t)
          /\ UNCHANGED used
       \/ /\ rq[t].done \/ Reg!NameConflict(rq[t].id, rq[t].c.name)
          /\ Ports!Free(rq[t].c.data.ports)
          /\ Goto(t, "c_undo")
          /\ UNCHANGED regVars
    /\ UNCHANGED <<attach, ctdVars, logVars, fresh, failed, loose>>

\* ... and removes the containerd container, whatever became of its context;
\* the error of that removal is discarded.
CreateUndo(t) ==
    /\ At(t, "c_undo")
    /\ \/ meta' = [meta EXCEPT ![rq[t].id] = Absent] /\ UNCHANGED failed
       \/ Unanswered(rq[t].id, "Undo") /\ UNCHANGED meta
    /\ Return(t)
    /\ UNCHANGED <<regVars, used, attach, task, logVars, fresh, loose>>

Create(t) ==
    \/ \E n \in Name \cup {NoName}, keys \in PortRequests, net \in NetModes :
          CreateValidate(t, n, keys, net)
    \/ CreateAllocate(t) \/ CreateFind(t) \/ CreateNew(t) \/ CreateSave(t) \/ CreateUndo(t)

-----------------------------------------------------------------------------
(* ContainerStart.                                                         *)

StartResolve(t, id) ==
    /\ Resolve(t, "start", id, "s_status", FALSE)
    /\ UNCHANGED <<regVars, used, attach, ctdVars, logVars, fresh, failed, loose>>

\* Mutant: start does not look at the runtime state first.
StartStatusUnchecked(t) ==
    /\ At(t, "s_status")
    /\ Goto(t, "s_open")
    /\ UNCHANGED <<regVars, used, attach, ctdVars, logVars, fresh, failed, loose>>

\* containerIsRunning: a running container makes start a no-op; a status that
\* cannot be read does not.
StartStatus(t) ==
    /\ At(t, "s_status")
    /\ \/ /\ ~LoadFails(t) /\ Status(rq[t].id) = "running"
          /\ Return(t)
          /\ UNCHANGED failed
       \/ /\ Status(rq[t].id) # "running"
          /\ Goto(t, "s_open")
          /\ UNCHANGED failed
       \/ /\ Status(rq[t].id) = "running"
          /\ Unanswered(rq[t].id, "Status")
          /\ Goto(t, "s_open")
    /\ UNCHANGED <<regVars, used, attach, ctdVars, logVars, fresh, loose>>

\* openLogSink: reuse the sink of the container, or open one; the file system
\* may refuse the latter.
StartOpenLog(t) ==
    /\ At(t, "s_open")
    /\ \/ /\ sink' = [sink EXCEPT ![rq[t].id] = TRUE]
          /\ io' = [io EXCEPT ![t] = TRUE]
          /\ Goto(t, "s_discard")
       \/ ~sink[rq[t].id] /\ Return(t) /\ UNCHANGED <<sink, io>>
    /\ UNCHANGED <<regVars, used, attach, ctdVars, taskIO, fresh, failed, loose>>

\* startContainerTask fails: the container's sink is closed, whoever uses it.
StartFails(t) == CloseSink(rq[t].id) /\ Return(t)

\* discardStaleTask: a task left by an earlier run is deleted; one that is
\* running, or that another request has created, is a conflict.
StartDiscard(t) ==
    /\ At(t, "s_discard")
    /\ \/ /\ ~LoadFails(t) /\ Deletable(rq[t].id)
          /\ task' = [task EXCEPT ![rq[t].id] = "none"]
          /\ Goto(t, "s_task")
          /\ UNCHANGED logVars
       \/ StartFails(t) /\ UNCHANGED task
    /\ UNCHANGED <<regVars, used, attach, meta, fresh, failed, loose>>

\* NewTask with the sink's writers; containerd allows one task per container.
StartNewTask(t) ==
    /\ At(t, "s_task")
    /\ \/ /\ ~LoadFails(t) /\ task[rq[t].id] = "none"
          /\ task' = [task EXCEPT ![rq[t].id] = "created"]
          /\ taskIO' = [taskIO EXCEPT ![rq[t].id] = io[t]]
          /\ io' = [io EXCEPT ![t] = FALSE]
          /\ Goto(t, "s_run")
          /\ UNCHANGED sink
       \/ StartFails(t) /\ UNCHANGED task
    /\ UNCHANGED <<regVars, used, attach, meta, fresh, failed, loose>>

\* task.Wait and task.Start: it runs; or it is not started and the task is
\* deleted; or that deletion, whose error is discarded, fails too; or the task
\* runs and only its reply is lost.
StartRun(t) ==
    /\ At(t, "s_run")
    /\ \/ /\ ~rq[t].done
          /\ task' = [task EXCEPT ![rq[t].id] = "running"]
          /\ Goto(t, "s_pid")
          /\ UNCHANGED <<logVars, failed, loose>>
       \/ /\ ~rq[t].done
          /\ task' = [task EXCEPT ![rq[t].id] = "none"]
          /\ StartFails(t)
          /\ UNCHANGED <<failed, loose>>
       \/ StartFails(t) /\ Adrift(t, "Start") /\ UNCHANGED task
       \/ /\ ~rq[t].done
          /\ task' = [task EXCEPT ![rq[t].id] = "running"]
          /\ Adrift(t, "Start")
          /\ StartFails(t)
    /\ UNCHANGED <<regVars, used, attach, meta, fresh>>

\* attachNetwork: host and none modes skip CNI; TaskPID needs the task.
StartPID(t) ==
    /\ At(t, "s_pid")
    /\ \/ ~rq[t].c.data.net /\ Goto(t, "s_final")
       \/ rq[t].c.data.net /\ ~LoadFails(t) /\ task[rq[t].id] # "none" /\ Goto(t, "s_adopt")
       \/ rq[t].c.data.net /\ Goto(t, "s_failed")
    /\ UNCHANGED <<regVars, used, attach, ctdVars, logVars, fresh, failed, loose>>

\* ConnectReserved adopts the create-time reservations if they exist.
StartAdopt(t) ==
    /\ At(t, "s_adopt")
    /\ IF Ports!Adoptable(rq[t].c.data.ports) THEN Goto(t, "s_add") ELSE Goto(t, "s_restore")
    /\ UNCHANGED <<regVars, used, attach, ctdVars, logVars, fresh, failed, loose>>

\* CNI ADD in the task's network namespace, then trackAttachment.
StartAdd(t) ==
    /\ At(t, "s_add")
    /\ \/ /\ ~rq[t].done /\ task[rq[t].id] = "running"
          /\ attach' = [attach EXCEPT ![rq[t].id] = rq[t].c.data.ports]
          /\ Goto(t, "s_final")
       \/ Goto(t, "s_restore") /\ UNCHANGED attach
    /\ UNCHANGED <<regVars, used, ctdVars, logVars, fresh, failed, loose>>

\* restorePortReservations: reserve the ports again; if that fails they are
\* taken to be reserved still.
StartRestore(t) ==
    /\ At(t, "s_restore")
    /\ \/ Ports!ReserveAll(rq[t].c.data.ports)
       \/ rq[t].c.data.ports # {} /\ UNCHANGED used
    /\ Goto(t, "s_failed")
    /\ UNCHANGED <<regVars, attach, ctdVars, logVars, fresh, failed, loose>>

\* Mutant: the failure releases the reservations whether or not the container
\* has exited.
StartJoinFailedAlwaysFree(t) ==
    /\ At(t, "s_failed")
    /\ Ports!Free(rq[t].c.data.ports)
    /\ \/ /\ ~LoadFails(t) /\ Status(rq[t].id) = "exited"
          /\ Goto(t, "s_final")
          /\ UNCHANGED logVars
       \/ CloseSink(rq[t].id) /\ Goto(t, "s_undo")
    /\ UNCHANGED <<regVars, attach, ctdVars, fresh, failed, loose>>

\* joinContainerNetwork after a failed attach: if the container has exited its
\* reservations are released and start goes on; otherwise, also when the status
\* cannot be read, start is undone.
StartJoinFailed(t) ==
    /\ At(t, "s_failed")
    /\ \/ /\ ~LoadFails(t) /\ Status(rq[t].id) = "exited"
          /\ Ports!Free(rq[t].c.data.ports)
          /\ Goto(t, "s_final")
          /\ UNCHANGED logVars
       \/ CloseSink(rq[t].id) /\ Goto(t, "s_undo") /\ UNCHANGED used
    /\ UNCHANGED <<regVars, attach, ctdVars, fresh, failed, loose>>

\* Mutant: a start whose network join failed leaves its task running.
StartUndoNoStop(t) ==
    /\ At(t, "s_undo")
    /\ Return(t)
    /\ UNCHANGED <<regVars, used, attach, ctdVars, logVars, fresh, failed, loose>>

\* Stop without the request's cancellation; its error is discarded, and with it
\* a task that still runs.
StartUndo(t) ==
    /\ At(t, "s_undo")
    /\ \/ StopTask(rq[t].id) /\ UNCHANGED <<failed, loose>>
       \/ task[rq[t].id] = "running" /\ Adrift(t, "Stop") /\ UNCHANGED task
    /\ Return(t)
    /\ UNCHANGED <<regVars, used, attach, meta, logVars, fresh>>

\* finalizeAlreadyExitedStart: has the task finished in the meantime?
StartFinal(t) ==
    /\ At(t, "s_final")
    /\ \/ /\ ~LoadFails(t) /\ Status(rq[t].id) = "exited"
          /\ CloseSink(rq[t].id)
          /\ Goto(t, "s_exited")
       \/ UNCHANGED logVars /\ Goto(t, "s_mark")
    /\ UNCHANGED <<regVars, used, attach, ctdVars, fresh, failed, loose>>

StartSaveExited(t) ==
    /\ At(t, "s_exited")
    /\ SaveAs(t, "exited")
    /\ Return(t)
    /\ UNCHANGED <<used, attach, ctdVars, logVars, fresh>>

\* markContainerRunning.
StartMark(t) ==
    /\ At(t, "s_mark")
    /\ SaveAs(t, "running")
    /\ Return(t)
    /\ UNCHANGED <<used, attach, ctdVars, logVars, fresh>>

Start(t) ==
    \/ \E id \in ContainerID : StartResolve(t, id)
    \/ StartStatus(t) \/ StartOpenLog(t) \/ StartDiscard(t) \/ StartNewTask(t) \/ StartRun(t)
    \/ StartPID(t) \/ StartAdopt(t) \/ StartAdd(t) \/ StartRestore(t) \/ StartJoinFailed(t)
    \/ StartUndo(t) \/ StartFinal(t) \/ StartSaveExited(t) \/ StartMark(t)

-----------------------------------------------------------------------------
(* ContainerStop.                                                          *)

\* A container whose copy says created is answered at once: it never ran.
StopResolve(t, id) ==
    /\ byID[id] # Absent => byID[id].data.state # "created"
    /\ Resolve(t, "stop", id, "p_stop", FALSE)
    /\ UNCHANGED <<regVars, used, attach, ctdVars, logVars, fresh, failed, loose>>

StopStop(t) ==
    /\ At(t, "p_stop")
    /\ \/ ~LoadFails(t) /\ StopTask(rq[t].id) /\ Goto(t, "p_refresh")
       \/ UNCHANGED task /\ Return(t)
    /\ UNCHANGED <<regVars, used, attach, meta, logVars, fresh, failed, loose>>

\* refresh closes the sink of a container that is neither running nor created.
StopRefresh(t) ==
    /\ At(t, "p_refresh")
    /\ \/ ~LoadFails(t) /\ Status(rq[t].id) = "exited" /\ CloseSink(rq[t].id)
       \/ UNCHANGED logVars
    /\ Goto(t, "p_close")
    /\ UNCHANGED <<regVars, used, attach, ctdVars, fresh, failed, loose>>

StopCloseLog(t) ==
    /\ At(t, "p_close")
    /\ CloseSink(rq[t].id)
    /\ Goto(t, "p_save")
    /\ UNCHANGED <<regVars, used, attach, ctdVars, fresh, failed, loose>>

StopSave(t) ==
    /\ At(t, "p_save")
    /\ SaveAs(t, "exited")
    /\ Return(t)
    /\ UNCHANGED <<used, attach, ctdVars, logVars, fresh>>

Stop(t) ==
    \/ \E id \in ContainerID : StopResolve(t, id)
    \/ StopStop(t) \/ StopRefresh(t) \/ StopCloseLog(t) \/ StopSave(t)

-----------------------------------------------------------------------------
(* ContainerRemove.                                                        *)

RemoveResolve(t, id) ==
    /\ \E force \in BOOLEAN : Resolve(t, "remove", id, "r_status", force)
    /\ UNCHANGED <<regVars, used, attach, ctdVars, logVars, fresh, failed, loose>>

\* The runtime state decides: an unreadable status is an error, a running
\* container is a conflict, force stops whatever has not exited.
RemoveStatus(t) ==
    /\ At(t, "r_status")
    /\ LET s == Status(rq[t].id) IN
       \/ Return(t)
       \/ ~LoadFails(t) /\ rq[t].force /\ s # "exited" /\ Goto(t, "r_stop")
       \/ ~LoadFails(t) /\ (s = "exited" \/ (~rq[t].force /\ s = "created")) /\ Goto(t, "r_disc")
    /\ UNCHANGED <<regVars, used, attach, ctdVars, logVars, fresh, failed, loose>>

\* The error of this Stop is discarded; the task it leaves is met by RemoveTask.
RemoveStop(t) ==
    /\ At(t, "r_stop")
    /\ StopTask(rq[t].id) \/ UNCHANGED task
    /\ Goto(t, "r_disc")
    /\ UNCHANGED <<regVars, used, attach, meta, logVars, fresh, failed, loose>>

\* Mutant: removal leaves the network attached.
RemoveDisconnectSkipped(t) ==
    /\ At(t, "r_disc")
    /\ Goto(t, "r_free")
    /\ UNCHANGED <<regVars, used, attach, ctdVars, logVars, fresh, failed, loose>>

\* DisconnectAll: Disconnect returns early, with the attachment tracked and its
\* ports reserved, when the network cannot be resolved or its file not loaded;
\* that is only logged.  Otherwise the attachment is looked up.
RemoveDisconnect(t) ==
    /\ At(t, "r_disc")
    /\ \/ attach[rq[t].id] = Absent /\ Goto(t, "r_free") /\ UNCHANGED <<failed, loose>>
       \/ attach[rq[t].id] # Absent /\ Goto(t, "r_free") /\ Adrift(t, "Disconnect")
       \/ /\ ~rq[t].done /\ attach[rq[t].id] # Absent
          /\ rq' = [rq EXCEPT ![t].pc = "r_forget", ![t].al = attach[rq[t].id]]
          /\ UNCHANGED <<failed, loose>>
    /\ UNCHANGED <<regVars, used, attach, ctdVars, logVars, fresh>>

\* Mutant: the attachment is forgotten without releasing its ports.
RemoveForgetKeepingPorts(t) ==
    /\ At(t, "r_forget")
    /\ attach' = [attach EXCEPT ![rq[t].id] = Absent]
    /\ UNCHANGED used
    /\ Goto(t, "r_free")
    /\ UNCHANGED <<regVars, ctdVars, logVars, fresh, failed, loose>>

\* After CNI DEL, whatever it answers: forget the attachment and release the
\* allocations looked up before it.
RemoveForget(t) ==
    /\ At(t, "r_forget")
    /\ attach' = [attach EXCEPT ![rq[t].id] = Absent]
    /\ Ports!Free(rq[t].al)
    /\ Goto(t, "r_free")
    /\ UNCHANGED <<regVars, ctdVars, logVars, fresh, failed, loose>>

\* The reservations of a container that was never started are the service's.
RemoveFree(t) ==
    /\ At(t, "r_free")
    /\ IF rq[t].c.data.state = "created" THEN Ports!Free(rq[t].c.data.ports) ELSE UNCHANGED used
    /\ Goto(t, "r_task")
    /\ UNCHANGED <<regVars, attach, ctdVars, logVars, fresh, failed, loose>>

\* Adapter.Remove: metadata that is gone counts as removed; the task goes first.
\* A failure (of a lookup, or of the deletion) keeps the container, without the
\* reservations released before.
RemoveTask(t) ==
    /\ At(t, "r_task")
    /\ \/ Return(t) /\ Adrift(t, "Remove") /\ UNCHANGED task
       \/ /\ ~rq[t].done /\ meta[rq[t].id] = Absent
          /\ Goto(t, "r_unreg")
          /\ UNCHANGED <<task, failed, loose>>
       \/ /\ ~LoadFails(t) /\ Deletable(rq[t].id)
          /\ task' = [task EXCEPT ![rq[t].id] = "none"]
          /\ Goto(t, "r_meta")
          /\ UNCHANGED <<failed, loose>>
    /\ UNCHANGED <<regVars, used, attach, meta, logVars, fresh>>

\* container.Delete: refused while a task exists.
RemoveMeta(t) ==
    /\ At(t, "r_meta")
    /\ \/ Return(t) /\ Adrift(t, "Remove") /\ UNCHANGED meta
       \/ /\ ~rq[t].done /\ task[rq[t].id] = "none"
          /\ meta' = [meta EXCEPT ![rq[t].id] = Absent]
          /\ Goto(t, "r_snap")
          /\ UNCHANGED <<failed, loose>>
    /\ UNCHANGED <<regVars, used, attach, task, logVars, fresh>>

\* removeSnapshot: a failure ends the request with the metadata already gone.
RemoveSnapshot(t) ==
    /\ At(t, "r_snap")
    /\ \/ Return(t) /\ Adrift(t, "RemoveSnapshot")
       \/ ~rq[t].done /\ Goto(t, "r_unreg") /\ UNCHANGED <<failed, loose>>
    /\ UNCHANGED <<regVars, used, attach, ctdVars, logVars, fresh>>

\* registry.Remove; a missing entry is fine, a done context is not.
RemoveUnregister(t) ==
    /\ At(t, "r_unreg")
    /\ \/ /\ ~rq[t].done
          /\ Reg!Remove(rq[t].id) \/ (~Reg!Registered(rq[t].id) /\ UNCHANGED regVars)
          /\ Goto(t, "r_logs")
          /\ UNCHANGED <<failed, loose>>
       \/ rq[t].done /\ Return(t) /\ Adrift(t, "Unregister") /\ UNCHANGED regVars
    /\ UNCHANGED <<used, attach, ctdVars, logVars, fresh>>

RemoveLogs(t) ==
    /\ At(t, "r_logs")
    /\ CloseSink(rq[t].id)
    /\ Return(t)
    /\ UNCHANGED <<regVars, used, attach, ctdVars, fresh, failed, loose>>

Remove(t) ==
    \/ \E id \in ContainerID : RemoveResolve(t, id)
    \/ RemoveStatus(t) \/ RemoveStop(t) \/ RemoveDisconnect(t) \/ RemoveForget(t)
    \/ RemoveFree(t) \/ RemoveTask(t) \/ RemoveMeta(t) \/ RemoveSnapshot(t)
    \/ RemoveUnregister(t) \/ RemoveLogs(t)

-----------------------------------------------------------------------------
(* ContainerInspect, and ContainerList for each container it lists.        *)

InspectResolve(t, id) ==
    /\ Resolve(t, "inspect", id, "i_refresh", FALSE)
    /\ UNCHANGED <<regVars, used, attach, ctdVars, logVars, fresh, failed, loose>>

\* refresh: what to do with the runtime state s, given the copy's state; nothing
\* if it cannot be read.
\* Timestamps are not modelled: a copy that says exited may be saved for the
\* sake of its finish time although its state did not change.
InspectRefresh(t) ==
    LET id == rq[t].id
        old == rq[t].c.data.state
        s == Status(id)
        keep == (old = "created" /\ s # "running") \/ (old = "running" /\ s = "running")
    IN
    /\ At(t, "i_refresh")
    /\ \/ Return(t) /\ UNCHANGED logVars
       \/ /\ ~LoadFails(t) /\ ~keep
          /\ IF s = "exited" THEN CloseSink(id) ELSE UNCHANGED logVars
          /\ \/ rq' = [rq EXCEPT ![t].pc = "i_save", ![t].st = s]
             \/ s = old /\ Return(t)
    /\ UNCHANGED <<regVars, used, attach, ctdVars, fresh, failed, loose>>

InspectSave(t) ==
    /\ At(t, "i_save")
    /\ SaveAs(t, rq[t].st)
    /\ Return(t)
    /\ UNCHANGED <<used, attach, ctdVars, logVars, fresh>>

Inspect(t) ==
    \/ \E id \in ContainerID : InspectResolve(t, id)
    \/ InspectRefresh(t) \/ InspectSave(t)

-----------------------------------------------------------------------------
(* The environment: a container's process ends by itself.                  *)

\* Start requests that have started the task and not yet recorded it.
Starting(id) ==
    \E t \in Thread :
        /\ rq[t].id = id
        /\ rq[t].pc \in {"s_pid", "s_adopt", "s_add", "s_restore", "s_failed", "s_final", "s_mark"}

TaskExit(id) ==
    /\ task[id] = "running"
    /\ FastExit \/ ~Starting(id)
    /\ task' = [task EXCEPT ![id] = "stopped"]
    /\ UNCHANGED <<regVars, used, attach, meta, logVars, rq, fresh, failed, loose>>

Next ==
    \/ \E t \in Thread :
          Create(t) \/ Start(t) \/ Stop(t) \/ Remove(t) \/ Inspect(t) \/ Expire(t)
    \/ \E id \in ContainerID : TaskExit(id)

Spec == Init /\ [][Next]_vars

-----------------------------------------------------------------------------
(* Properties.  Each names the calls whose failure it does not survive; the *)
(* failures of all the other calls are met.                                *)

\* One of these calls failed for id, and nobody made up for it.
Failed(id, calls) == \E call \in calls : call \in failed[id]

\* Nothing is left in containerd that no client can name: a container or a
\* task without a registry entry belongs to a request that still works on it.
\* A create that loses the race for its name takes its containerd container
\* back (containers.go:100-104), and a removal drops the registry entry only
\* after the runtime's (containers.go:414-417).  The exceptions are a
\* NewContainer whose reply is lost, and a create whose undo fails
\* (containers.go:102).
NoOrphans ==
    \A id \in ContainerID :
        (Settled(id) /\ (meta[id] # Absent \/ task[id] # "none"))
            => Reg!Registered(id) \/ Failed(id, {"NewContainer", "Undo"})

\* However creates, starts, retries and removals interleave, no two reserved
\* host ports overlap (portmap.go:114-157, used by containers.go:560-595).
ReservationsDisjoint == Ports!NoOverlap

\* Ports an attachment publishes, and ports promised to a container that never
\* ran, stay reserved, whatever fails on the way: a release reaches only what
\* its own container holds (service.go:217-224, cni/adapter.go:584-591).  Not
\* so for a key that was set loose: a removal that fails after its releases
\* (containers.go:411-416) keeps a container that can release by value again.
ReservationsKept ==
    /\ \A id \in ContainerID : attach[id] # Absent => attach[id] \ loose \subseteq used
    /\ \A id \in ContainerID :
          (Settled(id) /\ Reg!Registered(id) /\ byID[id].data.state = "created")
              => byID[id].data.ports \ loose \subseteq used

\* A reservation always has an owner that will release it: a registered
\* container, or a request that is still working on one.  "So no allocation
\* leaks" (cni/adapter.go:537-538) holds when CNI DEL fails, and not when
\* Disconnect returns before it (540-555): that sets the keys loose.
NoPortLeak ==
    \A k \in used \ loose :
        \/ \E id \in ContainerID : Reg!Registered(id) /\ k \in byID[id].data.ports
        \/ \E t \in Thread : k \in rq[t].c.data.ports

\* An attachment the CNI adapter tracks belongs to a registered container, so
\* some later removal can still tear it down, unless the disconnect of its
\* removal failed, which is only logged (containers.go:406-410).
AttachmentsOwned ==
    \A id \in ContainerID :
        (Settled(id) /\ attach[id] # Absent) => Reg!Registered(id) \/ Failed(id, {"Disconnect"})

\* No two containers are attached with host ports that overlap: what CNI ADD
\* publishes was reserved for that container (cni/adapter.go:400-403, :452).
\* A key set loose may be adopted by a second container.
PublishedExclusive ==
    \A i, j \in ContainerID :
        (i # j /\ attach[i] # Absent /\ attach[j] # Absent) =>
            \A a \in attach[i] \ loose, b \in attach[j] \ loose : ~Ports!Overlap(a, b)

\* The output of a running container reaches an open log file once its start
\* request is over (containers.go:284-294, logs.go:33-63).  A start that could
\* not read the status of a running container closes its log (277-280, 290);
\* one that fails closes the log of a task that goes on running when task.Start
\* lost its reply, or when the Stop that undoes it fails (312).
LogsWhileRunning ==
    \A id \in ContainerID :
        (Settled(id) /\ task[id] = "running")
            => taskIO[id] \/ Failed(id, {"Status", "Start", "Stop"})

\* What the registry says of a container that no request works on is what the
\* runtime has: its metadata is there, without which Status fails and
\* ContainerRemove can never drop the entry, and one that is called created has
\* no running task, so that ContainerStop may answer without a look at the
\* runtime (containers.go:365-367, 394-397).  A removal that fails between the
\* metadata and the entry breaks the first; a start whose undo or whose save
\* fails breaks the second.
RegistryMirrors ==
    \A id \in ContainerID :
        (Settled(id) /\ Reg!Registered(id)) =>
            /\ meta[id] # Absent \/ Failed(id, {"RemoveSnapshot", "Unregister"})
            /\ byID[id].data.state = "created"
                  => task[id] # "running" \/ Failed(id, {"Start", "Stop", "Save"})
=============================================================================
