----------------------- MODULE ContainerServiceProofs -----------------------
(***************************************************************************)
(* The container use cases, for any number of containers, requests, names  *)
(* and ports.  Three groups of results, from the weakest assumption to the *)
(* strongest.                                                              *)
(*                                                                         *)
(* Everywhere requests may expire and any call may fail: a property names  *)
(* the failures it does not survive, through the history variables.        *)
(*                                                                         *)
(* Requests may overlap on one container and lose to each other.           *)
(* Reservations never overlap: every step of a request does one of three   *)
(* things to the table: nothing, a release of some keys, or a reservation  *)
(* of a set of keys that AllocateBindings accepted.  Nothing is left in    *)
(* containerd that no client can name, but for a NewContainer whose reply  *)
(* is lost and a create whose undo fails.  NoOrphans is not inductive: it  *)
(* says nothing of a container some request works on.  OwnerInv adds who   *)
(* may.                                                                    *)
(*                                                                         *)
(* One request per container at a time (~Overlapping): an attachment has a *)
(* registered container, the registry mirrors the runtime and a running    *)
(* container's output is written.  InStep follows a container through the  *)
(* places of the request that works on it.                                 *)
(*                                                                         *)
(* If, besides, no process ends before its start is over (~FastExit): the  *)
(* port table is divided among registered containers and creates, and what *)
(* is published is reserved and exclusive, but for loose keys.  HoldInv    *)
(* states the division, JoinInv what makes the releases of a removal fit   *)
(* it.                                                                     *)
(*                                                                         *)
(* The last section returns to requests that overlap: they use the         *)
(* registry as specified and implement NameSpace.                          *)
(***************************************************************************)
EXTENDS ContainerService, TLAPS

-----------------------------------------------------------------------------
(* Reservations.                                                           *)

\* One step as the reservation table sees it.
TableStep ==
    \/ UNCHANGED used
    \/ \E keys : Ports!Free(keys)
    \/ \E keys : Ports!ReserveAll(keys)

\* Whatever the step, a table without overlaps stays one (portmap.go:114-170).
LEMMA TableStepKeepsDisjoint ==
    ASSUME ReservationsDisjoint, TableStep
    PROVE  ReservationsDisjoint'
  <1>1. CASE UNCHANGED used
    BY <1>1 DEF ReservationsDisjoint, Ports!NoOverlap
  <1>2. CASE \E keys : Ports!Free(keys)
    BY <1>2 DEF ReservationsDisjoint, Ports!NoOverlap, Ports!Free
  <1>3. CASE \E keys : Ports!ReserveAll(keys)
    <2>1. PICK keys : Ports!ReserveAll(keys)
      BY <1>3
    <2>2. SUFFICES ASSUME NEW j \in used \cup keys, NEW k \in used \cup keys, j # k
                   PROVE  ~Ports!Overlap(j, k)
      BY <2>1 DEF ReservationsDisjoint, Ports!NoOverlap, Ports!ReserveAll
    <2>3. CASE j \in used /\ k \in used
      BY <2>2, <2>3 DEF ReservationsDisjoint, Ports!NoOverlap
    <2>4. CASE j \in used /\ k \in keys
      BY <2>1, <2>4 DEF Ports!ReserveAll, Ports!Reservable, Ports!conflictsLocked
    <2>5. CASE j \in keys /\ k \in used
      <3>1. ~Ports!Overlap(k, j)
        BY <2>1, <2>5 DEF Ports!ReserveAll, Ports!Reservable, Ports!conflictsLocked
      <3>2. QED
        BY <3>1 DEF Ports!Overlap
    <2>6. CASE j \in keys /\ k \in keys
      BY <2>1, <2>2, <2>6 DEF Ports!ReserveAll, Ports!Reservable
    <2>7. QED
      BY <2>2, <2>3, <2>4, <2>5, <2>6
  <1>4. QED
    BY <1>1, <1>2, <1>3 DEF TableStep

\* ContainerCreate reserves once and releases on its error paths
\* (containers.go:63-104).
LEMMA CreateTableStep ==
    ASSUME NEW t \in Thread, Create(t)
    PROVE  TableStep
  <1>1. CASE \E n \in Name \cup {NoName}, keys \in PortRequests, net \in NetModes :
                CreateValidate(t, n, keys, net)
    BY <1>1 DEF CreateValidate, TableStep
  <1>2. CASE CreateAllocate(t)
    BY <1>2 DEF CreateAllocate, TableStep
  <1>3. CASE CreateFind(t)
    BY <1>3 DEF CreateFind, TableStep
  <1>4. CASE CreateNew(t)
    BY <1>4 DEF CreateNew, TableStep
  <1>5. CASE CreateSave(t)
    BY <1>5 DEF CreateSave, TableStep
  <1>6. CASE CreateUndo(t)
    BY <1>6 DEF CreateUndo, TableStep
  <1>7. QED
    BY <1>1, <1>2, <1>3, <1>4, <1>5, <1>6 DEF Create

\* ContainerStart reserves again after a failed attach and releases the ports of
\* a container that has exited (containers.go:299-314, 560-571).
LEMMA StartTableStep ==
    ASSUME NEW t \in Thread, Start(t)
    PROVE  TableStep
  <1>1. CASE \E id \in ContainerID : StartResolve(t, id)
    BY <1>1 DEF StartResolve, TableStep
  <1>2. CASE StartStatus(t) \/ StartOpenLog(t)
    BY <1>2 DEF StartStatus, StartOpenLog, TableStep
  <1>3. CASE StartDiscard(t) \/ StartNewTask(t) \/ StartRun(t)
    BY <1>3 DEF StartDiscard, StartNewTask, StartRun, TableStep
  <1>4. CASE StartPID(t) \/ StartAdopt(t) \/ StartAdd(t)
    BY <1>4 DEF StartPID, StartAdopt, StartAdd, TableStep
  <1>5. CASE StartRestore(t)
    BY <1>5 DEF StartRestore, TableStep
  <1>6. CASE StartJoinFailed(t)
    BY <1>6 DEF StartJoinFailed, TableStep
  <1>7. CASE StartUndo(t) \/ StartFinal(t) \/ StartSaveExited(t) \/ StartMark(t)
    BY <1>7 DEF StartUndo, StartFinal, StartSaveExited, StartMark, TableStep
  <1>8. QED
    BY <1>1, <1>2, <1>3, <1>4, <1>5, <1>6, <1>7 DEF Start

\* ContainerRemove releases what the attachment holds, and what a container
\* that never ran holds (containers.go:406-413).
LEMMA RemoveTableStep ==
    ASSUME NEW t \in Thread, Remove(t)
    PROVE  TableStep
  <1>1. CASE \E id \in ContainerID : RemoveResolve(t, id)
    BY <1>1 DEF RemoveResolve, TableStep
  <1>2. CASE RemoveStatus(t) \/ RemoveStop(t) \/ RemoveDisconnect(t)
    BY <1>2 DEF RemoveStatus, RemoveStop, RemoveDisconnect, TableStep
  <1>3. CASE RemoveForget(t)
    BY <1>3 DEF RemoveForget, TableStep
  <1>4. CASE RemoveFree(t)
    BY <1>4 DEF RemoveFree, TableStep
  <1>5. CASE RemoveTask(t) \/ RemoveMeta(t) \/ RemoveSnapshot(t)
    BY <1>5 DEF RemoveTask, RemoveMeta, RemoveSnapshot, TableStep
  <1>6. CASE RemoveUnregister(t) \/ RemoveLogs(t)
    BY <1>6 DEF RemoveUnregister, RemoveLogs, TableStep
  <1>7. QED
    BY <1>1, <1>2, <1>3, <1>4, <1>5, <1>6 DEF Remove

\* Stop, inspect and an expiry leave the table alone.
LEMMA OtherTableStep ==
    ASSUME NEW t \in Thread,
           Stop(t) \/ Inspect(t) \/ Expire(t)
    PROVE  TableStep
  <1>1. CASE Stop(t)
    BY <1>1 DEF Stop, StopResolve, StopStop, StopRefresh, StopCloseLog, StopSave, TableStep
  <1>2. CASE Inspect(t)
    BY <1>2 DEF Inspect, InspectResolve, InspectRefresh, InspectSave, TableStep
  <1>3. CASE Expire(t)
    BY <1>3 DEF Expire, TableStep
  <1>4. QED
    BY <1>1, <1>2, <1>3

\* However the use cases interleave, fail and expire, no two reserved host ports
\* overlap, wildcard addresses included (containers.go:34-422 on portmap.go).
THEOREM ServiceReservationsDisjoint == Spec => []ReservationsDisjoint
  <1>1. Init => ReservationsDisjoint
    BY DEF Init, ReservationsDisjoint, Ports!NoOverlap
  <1>2. ReservationsDisjoint /\ [Next]_vars => ReservationsDisjoint'
    <2>1. SUFFICES ASSUME ReservationsDisjoint, [Next]_vars
                   PROVE  TableStep
      BY TableStepKeepsDisjoint
    <2>2. CASE UNCHANGED vars
      BY <2>2 DEF vars, TableStep
    <2>3. ASSUME NEW t \in Thread,
                 Create(t) \/ Start(t) \/ Stop(t) \/ Remove(t) \/ Inspect(t) \/ Expire(t)
          PROVE  TableStep
      BY <2>3, CreateTableStep, StartTableStep, RemoveTableStep, OtherTableStep
    <2>4. CASE \E id \in ContainerID : TaskExit(id)
      BY <2>4 DEF TaskExit, TableStep
    <2>5. QED
      BY <2>1, <2>2, <2>3, <2>4 DEF Next
  <1>3. QED
    BY <1>1, <1>2, PTL DEF Spec

-----------------------------------------------------------------------------
(* Owners.                                                                 *)

\* A create between storing its containerd container and settling its fate.
Creating(t) == rq[t].pc \in {"c_save", "c_undo"}

\* containerd deletes a container's metadata only when its task is gone.
TaskHasMeta == \A id \in ContainerID : task[id] # "none" => meta[id] # Absent

\* An ID that was not handed out yet is unknown to everybody.
FreshUnknown ==
    \A id \in fresh : /\ meta[id] = Absent /\ task[id] = "none" /\ ~Reg!Registered(id)
                      /\ \A t \in Thread : rq[t].id # id

\* A container in creation has no task and is known to its create alone.
CreatingAlone ==
    \A t \in Thread : Creating(t) =>
        /\ ~Reg!Registered(rq[t].id) /\ task[rq[t].id] = "none"
        /\ \A u \in Thread \ {t} : rq[u].id # rq[t].id

\* A container whose creation was neither finished nor undone.
Abandoned(id) == Failed(id, {"NewContainer", "Undo"})

\* Metadata without a registry entry is that of a container in creation, or of
\* an abandoned one.
MetaOwned ==
    \A id \in ContainerID : (meta[id] # Absent /\ ~Reg!Registered(id)) =>
        (\E t \in Thread : Creating(t) /\ rq[t].id = id) \/ Abandoned(id)

\* A removal drops the registry entry after the metadata.
RemovedFirst ==
    \A t \in Thread : rq[t].pc \in {"r_snap", "r_unreg"} => meta[rq[t].id] = Absent

\* The task a start has created is left to it.
TaskReserved ==
    \A t \in Thread : rq[t].pc = "s_run" =>
        /\ task[rq[t].id] = "created"
        /\ \A u \in Thread \ {t} : rq[u].pc = "s_run" => rq[u].id # rq[t].id

\* Every request past its resolution works on a container.
NoIDYet == {"idle", "c_alloc", "c_find", "c_new"}
HasID == \A t \in Thread : rq[t].pc \notin NoIDYet => rq[t].id \in ContainerID

OwnerInv ==
    /\ HasID /\ TaskHasMeta /\ FreshUnknown /\ CreatingAlone
    /\ MetaOwned /\ RemovedFirst /\ TaskReserved

-----------------------------------------------------------------------------
(* How a request moves.                                                    *)

PCs == {"idle"} \cup CreatePC \cup StartPC \cup StopPC \cup RemovePC \cup InspectPC
RqTypeOK == rq \in [Thread -> Request]

\* Request t moves to pc, working on id; the others stay where they are.
Moves(t, pc, id) ==
    /\ RqTypeOK'
    /\ rq'[t].pc = pc /\ rq'[t].id = id
    /\ \A u \in Thread \ {t} : rq'[u] = rq[u]

\* Goto moves one request to another place of its use case.
LEMMA GotoMoves ==
    ASSUME RqTypeOK, NEW t \in Thread, NEW pc \in PCs, Goto(t, pc)
    PROVE  Moves(t, pc, rq[t].id)
  <1>1. rq[t] \in Request
    BY DEF RqTypeOK
  <1>2. [rq[t] EXCEPT !.pc = pc] \in Request
    BY <1>1 DEF Request, PCs
  <1>3. rq' = [rq EXCEPT ![t] = [rq[t] EXCEPT !.pc = pc]]
    BY DEF Goto
  <1>4. [rq[t] EXCEPT !.pc = pc].pc = pc /\ [rq[t] EXCEPT !.pc = pc].id = rq[t].id
    BY <1>1 DEF Request
  <1>5. QED
    BY <1>2, <1>3, <1>4 DEF Moves, RqTypeOK

\* A request that is over is a request with no container.
LEMMA IdleRequest == Idle \in Request /\ Idle.pc = "idle" /\ Idle.id = NoID
  BY DEF Idle, Request, NoContainer, Reg!Container, Data, State

\* Return ends one request and leaves the others alone.
LEMMA ReturnMoves ==
    ASSUME RqTypeOK, NEW t \in Thread, Return(t)
    PROVE  Moves(t, "idle", NoID)
  BY IdleRequest DEF RqTypeOK, Return, Moves

\* resolveContainer gives a request a container or ends it (service.go:227-258).
LEMMA ResolveMoves ==
    ASSUME TypeOK, NEW t \in Thread, NEW id \in ContainerID, NEW pc \in PCs,
           NEW force \in BOOLEAN, NEW op, Resolve(t, op, id, pc, force)
    PROVE  Moves(t, pc, id) /\ rq[t].pc = "idle" /\ Reg!Registered(id)
  <1> DEFINE r == [Idle EXCEPT !.pc = pc, !.id = id, !.c = byID[id], !.force = force]
  <1>1. byID[id] \in Reg!Container
    BY DEF Resolve, TypeOK, Reg!RegTypeOK, Reg!Registered
  <1>2. r \in Request /\ r.pc = pc /\ r.id = id
    BY <1>1, IdleRequest DEF Request, PCs
  <1>3. rq' = [rq EXCEPT ![t] = r]
    BY DEF Resolve
  <1> HIDE DEF r
  <1>4. QED
    BY <1>2, <1>3 DEF Moves, RqTypeOK, TypeOK, Resolve, At

\* A saved record is a record, so its container is registered afterwards.
LEMMA SaveRegisters ==
    ASSUME TypeOK, NEW id \in ContainerID, NEW c \in Reg!Container, Reg!Save(id, c)
    PROVE  /\ Reg!RegTypeOK' /\ byID'[id] # Absent
           /\ \A i \in ContainerID \ {id} : byID'[i] = byID[i]
  BY ServiceValues DEF TypeOK, Reg!RegTypeOK, Reg!Save, Reg!Reindexed, Reg!Registered

\* Service.save, on a context that is not done, registers the container
\* (service.go:262-269).
LEMMA SaveAsRegisters ==
    ASSUME TypeOK, NEW t \in Thread, NEW s \in State, rq[t].id \in ContainerID, SaveAs(t, s)
    PROVE  /\ Reg!RegTypeOK'
           /\ \A i \in ContainerID : byID'[i] = byID[i] \/ (i = rq[t].id /\ byID'[i] # Absent)
  <1> DEFINE c == [rq[t].c EXCEPT !.data.state = s]
  <1>1. rq[t].c \in Reg!Container
    BY DEF TypeOK, Request
  <1>2. c \in Reg!Container
    BY <1>1 DEF Reg!Container, Data
  <1>3. CASE Reg!Save(rq[t].id, c)
    BY <1>2, <1>3, SaveRegisters
  <1>4. CASE UNCHANGED regVars
    BY <1>4 DEF regVars, TypeOK, Reg!RegTypeOK
  <1>5. QED
    BY <1>3, <1>4 DEF SaveAs

-----------------------------------------------------------------------------
(* Types.                                                                  *)

LogTypeOK ==
    /\ sink \in [ContainerID -> BOOLEAN]
    /\ taskIO \in [ContainerID -> BOOLEAN]
    /\ io \in [Thread -> BOOLEAN]

CtdTypeOK ==
    /\ meta \in [ContainerID -> Name \cup {NoName, Absent}]
    /\ task \in [ContainerID -> {"none", "created", "running", "stopped"}]

HistTypeOK ==
    /\ failed \in [ContainerID -> SUBSET Call]
    /\ loose \subseteq Ports!Key

\* What a step of t does to the history: nothing, or one call fails for good, for
\* t's container or for one that t just made, and may set its keys loose.
Records(t) ==
    \/ UNCHANGED <<failed, loose>>
    \/ /\ \E id \in ContainerID, call \in Call : Unanswered(id, call) /\ id \in fresh \cup {rq[t].id}
       /\ loose' = loose \/ loose' = loose \cup rq[t].c.data.ports

\* The history has its types, and only grows.
LEMMA RecordsTyped ==
    ASSUME TypeOK, NEW t \in Thread, Records(t)
    PROVE  /\ HistTypeOK' /\ loose \subseteq loose'
           /\ \A id \in ContainerID : failed[id] \subseteq failed'[id]
           /\ \A id \in ContainerID \ fresh : id # rq[t].id => failed'[id] = failed[id]
  <1>1. rq[t].c.data.ports \subseteq Ports!Key
    BY DEF TypeOK, Request, Reg!Container, Data
  <1>2. QED
    BY <1>1 DEF Records, Unanswered, TypeOK, HistTypeOK

\* A call that fails for a request that has its container.
LEMMA AdriftRecords ==
    ASSUME NEW t \in Thread, rq[t].id \in ContainerID, NEW call \in Call, Adrift(t, call)
    PROVE  Records(t)
  BY DEF Adrift, Records

\* The steps of every use case (containers.go:34-422).
LEMMA AllRecord ==
    ASSUME TypeOK, HasID, NEW t \in Thread,
           Create(t) \/ Start(t) \/ Stop(t) \/ Remove(t) \/ Inspect(t) \/ Expire(t)
    PROVE  Records(t)
  <1>h. rq[t].pc \notin NoIDYet => rq[t].id \in ContainerID
    BY DEF HasID
  <1>c. ASSUME NEW s, SaveAs(t, s), rq[t].pc \notin NoIDYet PROVE Records(t)
    BY <1>c, <1>h, AdriftRecords DEF SaveAs, Call, Records
  <1>1. CASE Create(t)
    <2>1. CASE CreateNew(t)
      <3>1. fresh \subseteq ContainerID
        BY DEF TypeOK
      <3>2. QED
        BY <2>1, <3>1 DEF CreateNew, Records, Call
    <2>2. CASE CreateUndo(t)
      BY <1>h, <2>2 DEF CreateUndo, At, NoIDYet, Records, Call
    <2>3. ASSUME NEW n, NEW keys, NEW net, CreateValidate(t, n, keys, net) PROVE Records(t)
      <3>1. UNCHANGED <<failed, loose>>
        BY <2>3, Zenon DEF CreateValidate
      <3>2. QED
        BY <3>1 DEF Records
    <2>4. CASE CreateAllocate(t) \/ CreateFind(t) \/ CreateSave(t)
      BY <2>4 DEF CreateAllocate, CreateFind, CreateSave, Records
    <2>5. QED
      BY <1>1, <2>1, <2>2, <2>3, <2>4 DEF Create
  <1>2. CASE Start(t)
    <2>1. CASE StartSaveExited(t) \/ StartMark(t)
      BY <1>c, <2>1 DEF StartSaveExited, StartMark, At, NoIDYet
    <2>2. CASE StartStatus(t)
      BY <1>h, <2>2 DEF StartStatus, At, NoIDYet, Records, Call
    <2>3. CASE StartRun(t) \/ StartUndo(t)
      BY <1>h, <2>3, AdriftRecords DEF StartRun, StartUndo, At, NoIDYet, Call, Records
    <2>4. CASE \/ \E id \in ContainerID : StartResolve(t, id)
               \/ StartOpenLog(t) \/ StartDiscard(t) \/ StartNewTask(t) \/ StartPID(t)
               \/ StartAdopt(t) \/ StartAdd(t) \/ StartRestore(t) \/ StartJoinFailed(t) \/ StartFinal(t)
      BY <2>4 DEF StartResolve, StartOpenLog, StartDiscard, StartNewTask, StartPID, StartAdopt,
                  StartAdd, StartRestore, StartJoinFailed, StartFinal, Records
    <2>5. QED
      BY <1>2, <2>1, <2>2, <2>3, <2>4 DEF Start
  <1>3. CASE Stop(t)
    BY <1>3, <1>c DEF Stop, StopResolve, StopStop, StopRefresh, StopCloseLog, StopSave, At,
                      NoIDYet, Records
  <1>4. CASE Remove(t)
    <2>1. CASE \/ RemoveDisconnect(t) \/ RemoveTask(t) \/ RemoveMeta(t) \/ RemoveSnapshot(t)
               \/ RemoveUnregister(t)
      BY <1>h, <2>1, AdriftRecords
      DEF RemoveDisconnect, RemoveTask, RemoveMeta, RemoveSnapshot, RemoveUnregister, At, NoIDYet,
          Call, Records
    <2>2. CASE \/ \E id \in ContainerID : RemoveResolve(t, id)
               \/ RemoveStatus(t) \/ RemoveStop(t) \/ RemoveForget(t) \/ RemoveFree(t) \/ RemoveLogs(t)
      BY <2>2 DEF RemoveResolve, RemoveStatus, RemoveStop, RemoveForget, RemoveFree, RemoveLogs,
                  Records
    <2>3. QED
      BY <1>4, <2>1, <2>2 DEF Remove
  <1>5. CASE Inspect(t) \/ Expire(t)
    BY <1>5, <1>c DEF Inspect, InspectResolve, InspectRefresh, InspectSave, Expire, At, NoIDYet,
                      Records
  <1>6. QED
    BY <1>1, <1>2, <1>3, <1>4, <1>5

\* closeLogSink keeps the types of the log state (logs.go:55-75).
LEMMA CloseSinkTyped ==
    ASSUME TypeOK, NEW id, CloseSink(id)
    PROVE  LogTypeOK'
  BY DEF TypeOK, CloseSink, LogTypeOK

\* A step that changes nothing of a part keeps its types.
LEMMA Unchanged ==
    ASSUME TypeOK
    PROVE  /\ UNCHANGED regVars => Reg!RegTypeOK'
           /\ UNCHANGED logVars => LogTypeOK'
           /\ UNCHANGED ctdVars => CtdTypeOK'
  BY DEF TypeOK, regVars, logVars, ctdVars, Reg!RegTypeOK, LogTypeOK, CtdTypeOK

\* The parts of a request that a step may store elsewhere.
LEMMA RequestParts ==
    ASSUME TypeOK, NEW t \in Thread
    PROVE  /\ rq[t] \in Request /\ rq[t].c \in Reg!Container
           /\ rq[t].c.data.ports \subseteq Ports!Key /\ rq[t].c.name \in Name \cup {NoName}
           /\ rq[t].al \subseteq Ports!Key /\ rq[t].st \in State
  BY DEF TypeOK, Request, Reg!Container, Data

\* ContainerCreate keeps the types (containers.go:34-106).
LEMMA CreateTyped ==
    ASSUME TypeOK, NEW t \in Thread, Create(t), HasID
    PROVE  TypeOK'
  <1>h. HistTypeOK'
    BY AllRecord, RecordsTyped
  <1> USE <1>h, RequestParts, Unchanged DEF PCs, HistTypeOK, CreatePC
  <1>r. RqTypeOK /\ ctdVars = <<meta, task>>
    BY DEF TypeOK, RqTypeOK, ctdVars
  <1>1. ASSUME NEW n \in Name \cup {NoName}, NEW keys \in PortRequests, NEW net \in NetModes,
               CreateValidate(t, n, keys, net)
        PROVE  TypeOK'
    <2> DEFINE c == [name |-> n, data |-> [state |-> "created", ports |-> keys, net |-> net]]
               r == [Idle EXCEPT !.pc = "c_alloc", !.c = c]
    <2>1. c \in Reg!Container
      BY ServiceAssumption, ServiceValues DEF Reg!Container, Data, State
    <2>2. r \in Request
      <3> HIDE DEF c
      <3> QED
        BY <2>1, IdleRequest DEF Request
    <2>3. rq' = [rq EXCEPT ![t] = r]
      BY <1>1 DEF CreateValidate
    <2>4. RqTypeOK'
      <3> HIDE DEF r
      <3> QED
        BY <1>r, <2>2, <2>3 DEF RqTypeOK
    <2>5. QED
      BY <1>1, <2>4 DEF CreateValidate, TypeOK, RqTypeOK, LogTypeOK, CtdTypeOK
  <1>2. CASE CreateAllocate(t)
    <2>1. RqTypeOK'
      BY <1>r, <1>2, GotoMoves, ReturnMoves DEF CreateAllocate, Moves
    <2>2. QED
      BY <1>2, <2>1 DEF CreateAllocate, Ports!ReserveAll, TypeOK, RqTypeOK, LogTypeOK, CtdTypeOK
  <1>3. CASE CreateFind(t)
    <2>1. RqTypeOK'
      BY <1>r, <1>3, GotoMoves, ReturnMoves DEF CreateFind, Moves
    <2>2. QED
      BY <1>3, <2>1 DEF CreateFind, Ports!Free, TypeOK, RqTypeOK, LogTypeOK, CtdTypeOK
  <1>4. CASE CreateNew(t)
    <2>1. RqTypeOK'
      <3>1. CASE Return(t)
        BY <1>r, <3>1, ReturnMoves DEF Moves
      <3>2. ASSUME NEW id \in fresh, rq' = [rq EXCEPT ![t].pc = "c_save", ![t].id = id]
            PROVE  RqTypeOK'
        <4>1. [rq[t] EXCEPT !.pc = "c_save", !.id = id] \in Request
          BY DEF Request, TypeOK
        <4>2. rq' = [rq EXCEPT ![t] = [rq[t] EXCEPT !.pc = "c_save", !.id = id]]
          BY <1>r, <3>2 DEF RqTypeOK
        <4>3. QED
          BY <1>r, <4>1, <4>2 DEF RqTypeOK
      <3>3. QED
        BY <1>4, <3>1, <3>2 DEF CreateNew
    <2>2. CtdTypeOK' /\ used' \subseteq Ports!Key /\ fresh' \subseteq ContainerID
      BY <1>4 DEF CreateNew, Ports!Free, TypeOK, CtdTypeOK
    <2>3. QED
      BY <1>4, <2>1, <2>2 DEF CreateNew, TypeOK, RqTypeOK, LogTypeOK, CtdTypeOK
  <1>5. CASE CreateSave(t)
    <2>1. RqTypeOK'
      BY <1>r, <1>5, GotoMoves, ReturnMoves DEF CreateSave, Moves
    <2>2. rq[t].id \in ContainerID
      BY <1>5 DEF CreateSave, At, HasID, NoIDYet
    <2>3. Reg!RegTypeOK'
      BY <1>5, <2>2, SaveRegisters DEF CreateSave
    <2>4. QED
      BY <1>5, <2>1, <2>3 DEF CreateSave, Ports!Free, TypeOK, RqTypeOK, LogTypeOK, CtdTypeOK
  <1>6. CASE CreateUndo(t)
    <2>1. RqTypeOK'
      BY <1>r, <1>6, ReturnMoves DEF CreateUndo, Moves
    <2>2. QED
      BY <1>6, <2>1 DEF CreateUndo, TypeOK, RqTypeOK, LogTypeOK
  <1>7. QED
    BY <1>1, <1>2, <1>3, <1>4, <1>5, <1>6 DEF Create

\* The first step of a use case keeps the types (service.go:227-258).
LEMMA ResolveTyped ==
    ASSUME TypeOK, NEW t \in Thread, NEW id \in ContainerID, NEW pc \in PCs,
           NEW force \in BOOLEAN, NEW op, Resolve(t, op, id, pc, force),
           UNCHANGED <<regVars, used, attach, ctdVars, logVars, fresh, failed, loose>>
    PROVE  TypeOK'
  <1>1. RqTypeOK'
    BY ResolveMoves DEF Moves
  <1>2. QED
    BY <1>1, Unchanged DEF TypeOK, RqTypeOK, LogTypeOK, CtdTypeOK

\* ContainerStart keeps the types (containers.go:250-354).
LEMMA StartTyped ==
    ASSUME TypeOK, NEW t \in Thread, Start(t), HasID
    PROVE  TypeOK'
  <1>h. HistTypeOK'
    BY AllRecord, RecordsTyped
  <1> USE <1>h, RequestParts, Unchanged DEF PCs, HistTypeOK, StartPC
  <1>r. RqTypeOK
    BY DEF TypeOK, RqTypeOK
  <1>1. ASSUME NEW id \in ContainerID, StartResolve(t, id)
        PROVE  TypeOK'
    BY <1>1, ResolveTyped DEF StartResolve
  <1>2. CASE StartStatus(t) \/ StartPID(t) \/ StartAdopt(t)
    <2>1. RqTypeOK'
      BY <1>r, <1>2, GotoMoves, ReturnMoves DEF StartStatus, StartPID, StartAdopt, Moves
    <2>2. QED
      BY <1>2, <2>1 DEF StartStatus, StartPID, StartAdopt, TypeOK, RqTypeOK, LogTypeOK, CtdTypeOK
  <1>3. CASE StartOpenLog(t)
    <2>1. RqTypeOK'
      BY <1>r, <1>3, GotoMoves, ReturnMoves DEF StartOpenLog, Moves
    <2>2. QED
      BY <1>3, <2>1 DEF StartOpenLog, TypeOK, RqTypeOK, CtdTypeOK
  <1>4. CASE StartDiscard(t) \/ StartNewTask(t) \/ StartRun(t)
    <2>1. RqTypeOK'
      BY <1>r, <1>4, GotoMoves, ReturnMoves
      DEF StartDiscard, StartNewTask, StartRun, StartFails, Moves
    <2>2. LogTypeOK'
      <3>1. CASE CloseSink(rq[t].id)
        BY <3>1, CloseSinkTyped
      <3>2. CASE ~CloseSink(rq[t].id)
        <4>1. UNCHANGED logVars \/ (StartNewTask(t) /\ ~StartFails(t))
          BY <1>4, <3>2 DEF StartDiscard, StartRun, StartFails
        <4>2. CASE StartNewTask(t) /\ ~StartFails(t)
          BY <4>2 DEF StartNewTask, TypeOK, LogTypeOK
        <4>3. QED
          BY <4>1, <4>2
      <3>3. QED
        BY <3>1, <3>2
    <2>3. CtdTypeOK'
      BY <1>4 DEF StartDiscard, StartNewTask, StartRun, TypeOK, CtdTypeOK
    <2>4. QED
      BY <1>4, <2>1, <2>2, <2>3
      DEF StartDiscard, StartNewTask, StartRun, TypeOK, RqTypeOK, LogTypeOK, CtdTypeOK
  <1>5. CASE StartAdd(t) \/ StartRestore(t)
    <2>1. RqTypeOK'
      BY <1>r, <1>5, GotoMoves DEF StartAdd, StartRestore, Moves
    <2>2. used' \subseteq Ports!Key /\ attach' \in [ContainerID -> (SUBSET Ports!Key) \cup {Absent}]
      BY <1>5 DEF StartAdd, StartRestore, Ports!ReserveAll, TypeOK
    <2>3. QED
      BY <1>5, <2>1, <2>2 DEF StartAdd, StartRestore, TypeOK, RqTypeOK, LogTypeOK, CtdTypeOK
  <1>6. CASE StartJoinFailed(t) \/ StartFinal(t)
    <2>1. RqTypeOK'
      BY <1>r, <1>6, GotoMoves DEF StartJoinFailed, StartFinal, Moves
    <2>2. LogTypeOK'
      BY <1>6, CloseSinkTyped DEF StartJoinFailed, StartFinal
    <2>3. used' \subseteq Ports!Key
      BY <1>6 DEF StartJoinFailed, StartFinal, Ports!Free, TypeOK
    <2>4. QED
      BY <1>6, <2>1, <2>2, <2>3 DEF StartJoinFailed, StartFinal, TypeOK, RqTypeOK, LogTypeOK, CtdTypeOK
  <1>7. CASE StartUndo(t)
    <2>1. RqTypeOK'
      BY <1>r, <1>7, ReturnMoves DEF StartUndo, Moves
    <2>2. QED
      BY <1>7, <2>1 DEF StartUndo, StopTask, TypeOK, RqTypeOK, LogTypeOK
  <1>8. CASE StartSaveExited(t) \/ StartMark(t)
    <2>1. RqTypeOK'
      BY <1>r, <1>8, ReturnMoves DEF StartSaveExited, StartMark, Moves
    <2>2. rq[t].id \in ContainerID
      BY <1>8 DEF StartSaveExited, StartMark, At, HasID, NoIDYet
    <2>3. Reg!RegTypeOK'
      BY <1>8, <2>2, SaveAsRegisters DEF StartSaveExited, StartMark, State
    <2>4. QED
      BY <1>8, <2>1, <2>3 DEF StartSaveExited, StartMark, TypeOK, RqTypeOK, LogTypeOK, CtdTypeOK
  <1>9. QED
    BY <1>1, <1>2, <1>3, <1>4, <1>5, <1>6, <1>7, <1>8 DEF Start

\* ContainerStop keeps the types (containers.go:357-383).
LEMMA StopTyped ==
    ASSUME TypeOK, NEW t \in Thread, Stop(t), HasID
    PROVE  TypeOK'
  <1>h. HistTypeOK'
    BY AllRecord, RecordsTyped
  <1> USE <1>h, RequestParts, Unchanged DEF PCs, HistTypeOK, StopPC
  <1>r. RqTypeOK
    BY DEF TypeOK, RqTypeOK
  <1>1. ASSUME NEW id \in ContainerID, StopResolve(t, id)
        PROVE  TypeOK'
    BY <1>1, ResolveTyped DEF StopResolve
  <1>2. CASE StopStop(t)
    <2>1. RqTypeOK'
      BY <1>r, <1>2, GotoMoves, ReturnMoves DEF StopStop, Moves
    <2>2. QED
      BY <1>2, <2>1 DEF StopStop, StopTask, TypeOK, RqTypeOK, LogTypeOK
  <1>3. CASE StopRefresh(t) \/ StopCloseLog(t)
    <2>1. RqTypeOK'
      BY <1>r, <1>3, GotoMoves DEF StopRefresh, StopCloseLog, Moves
    <2>2. LogTypeOK'
      BY <1>3, CloseSinkTyped DEF StopRefresh, StopCloseLog
    <2>3. QED
      BY <1>3, <2>1, <2>2 DEF StopRefresh, StopCloseLog, TypeOK, RqTypeOK, LogTypeOK, CtdTypeOK
  <1>4. CASE StopSave(t)
    <2>1. RqTypeOK'
      BY <1>r, <1>4, ReturnMoves DEF StopSave, Moves
    <2>2. rq[t].id \in ContainerID
      BY <1>4 DEF StopSave, At, HasID, NoIDYet
    <2>3. Reg!RegTypeOK'
      BY <1>4, <2>2, SaveAsRegisters DEF StopSave, State
    <2>4. QED
      BY <1>4, <2>1, <2>3 DEF StopSave, TypeOK, RqTypeOK, LogTypeOK, CtdTypeOK
  <1>5. QED
    BY <1>1, <1>2, <1>3, <1>4 DEF Stop

\* ContainerRemove keeps the types (containers.go:386-424).
LEMMA RemoveTyped ==
    ASSUME TypeOK, NEW t \in Thread, Remove(t), HasID
    PROVE  TypeOK'
  <1>h. HistTypeOK'
    BY AllRecord, RecordsTyped
  <1> USE <1>h, RequestParts, Unchanged DEF PCs, HistTypeOK, RemovePC
  <1>r. RqTypeOK
    BY DEF TypeOK, RqTypeOK
  <1>1. ASSUME NEW id \in ContainerID, RemoveResolve(t, id)
        PROVE  TypeOK'
    BY <1>1, ResolveTyped DEF RemoveResolve
  <1>2. CASE RemoveStatus(t) \/ RemoveSnapshot(t)
    <2>1. RqTypeOK'
      BY <1>r, <1>2, GotoMoves, ReturnMoves DEF RemoveStatus, RemoveSnapshot, Moves
    <2>2. QED
      BY <1>2, <2>1 DEF RemoveStatus, RemoveSnapshot, TypeOK, RqTypeOK, LogTypeOK, CtdTypeOK
  <1>3. CASE RemoveStop(t) \/ RemoveTask(t) \/ RemoveMeta(t)
    <2>1. RqTypeOK'
      BY <1>r, <1>3, GotoMoves, ReturnMoves DEF RemoveStop, RemoveTask, RemoveMeta, Moves
    <2>2. CtdTypeOK'
      BY <1>3 DEF RemoveStop, StopTask, RemoveTask, RemoveMeta, TypeOK, CtdTypeOK
    <2>3. QED
      BY <1>3, <2>1, <2>2
      DEF RemoveStop, RemoveTask, RemoveMeta, TypeOK, RqTypeOK, LogTypeOK, CtdTypeOK
  <1>4. CASE RemoveDisconnect(t)
    <2>1. rq[t].id \in ContainerID
      BY <1>4 DEF RemoveDisconnect, At, HasID, NoIDYet
    <2>2. RqTypeOK'
      <3>1. CASE Goto(t, "r_free")
        BY <1>r, <3>1, GotoMoves DEF Moves
      <3>2. CASE /\ attach[rq[t].id] # Absent
                 /\ rq' = [rq EXCEPT ![t].pc = "r_forget", ![t].al = attach[rq[t].id]]
        <4>1. attach[rq[t].id] \subseteq Ports!Key
          BY <2>1, <3>2 DEF TypeOK
        <4>2. [rq[t] EXCEPT !.pc = "r_forget", !.al = attach[rq[t].id]] \in Request
          BY <4>1 DEF Request
        <4>3. rq' = [rq EXCEPT ![t] = [rq[t] EXCEPT !.pc = "r_forget", !.al = attach[rq[t].id]]]
          BY <1>r, <3>2 DEF RqTypeOK
        <4>4. QED
          BY <1>r, <4>2, <4>3 DEF RqTypeOK
      <3>3. QED
        BY <1>4, <3>1, <3>2 DEF RemoveDisconnect
    <2>3. QED
      BY <1>4, <2>2 DEF RemoveDisconnect, TypeOK, RqTypeOK, LogTypeOK, CtdTypeOK
  <1>5. CASE RemoveForget(t) \/ RemoveFree(t)
    <2>1. RqTypeOK'
      BY <1>r, <1>5, GotoMoves DEF RemoveForget, RemoveFree, Moves
    <2>2. used' \subseteq Ports!Key /\ attach' \in [ContainerID -> (SUBSET Ports!Key) \cup {Absent}]
      BY <1>5 DEF RemoveForget, RemoveFree, Ports!Free, TypeOK
    <2>3. QED
      BY <1>5, <2>1, <2>2 DEF RemoveForget, RemoveFree, TypeOK, RqTypeOK, LogTypeOK, CtdTypeOK
  <1>6. CASE RemoveUnregister(t)
    <2>1. RqTypeOK'
      BY <1>r, <1>6, GotoMoves, ReturnMoves DEF RemoveUnregister, Moves
    <2>2. Reg!RegTypeOK'
      BY <1>6 DEF RemoveUnregister, At, HasID, NoIDYet, regVars,
                  Reg!Remove, Reg!Reindexed, TypeOK, Reg!RegTypeOK
    <2>3. QED
      BY <1>6, <2>1, <2>2 DEF RemoveUnregister, TypeOK, RqTypeOK, LogTypeOK, CtdTypeOK
  <1>7. CASE RemoveLogs(t)
    <2>1. RqTypeOK'
      BY <1>r, <1>7, ReturnMoves DEF RemoveLogs, Moves
    <2>2. QED
      BY <1>7, <2>1, CloseSinkTyped DEF RemoveLogs, TypeOK, RqTypeOK, LogTypeOK, CtdTypeOK
  <1>8. QED
    BY <1>1, <1>2, <1>3, <1>4, <1>5, <1>6, <1>7 DEF Remove

\* A request that moves to a place where it keeps a state, or expires.
LEMMA OtherTyped ==
    ASSUME TypeOK, NEW t \in Thread, Inspect(t) \/ Expire(t), HasID
    PROVE  TypeOK'
  <1>h. HistTypeOK'
    BY AllRecord, RecordsTyped
  <1> USE <1>h, RequestParts, Unchanged DEF PCs, HistTypeOK, InspectPC
  <1>r. RqTypeOK
    BY DEF TypeOK, RqTypeOK
  <1>1. ASSUME NEW id \in ContainerID, InspectResolve(t, id)
        PROVE  TypeOK'
    BY <1>1, ResolveTyped DEF InspectResolve
  <1>2. CASE InspectRefresh(t)
    <2>1. RqTypeOK'
      <3>1. CASE Return(t)
        BY <1>r, <3>1, ReturnMoves DEF Moves
      <3>2. ASSUME NEW s \in State, rq' = [rq EXCEPT ![t].pc = "i_save", ![t].st = s]
            PROVE  RqTypeOK'
        <4>1. [rq[t] EXCEPT !.pc = "i_save", !.st = s] \in Request
          BY DEF Request
        <4>2. rq' = [rq EXCEPT ![t] = [rq[t] EXCEPT !.pc = "i_save", !.st = s]]
          BY <1>r, <3>2 DEF RqTypeOK
        <4>3. QED
          BY <1>r, <4>1, <4>2 DEF RqTypeOK
      <3> DEFINE s == Status(rq[t].id)
      <3>3. rq[t].id \in ContainerID
        BY <1>2 DEF InspectRefresh, At, HasID, NoIDYet
      <3>4. s \in State
        BY <3>3 DEF Status, State, TypeOK, Reg!Container, Data
      <3>5. Return(t) \/ rq' = [rq EXCEPT ![t].pc = "i_save", ![t].st = s]
        BY <1>2 DEF InspectRefresh
      <3>6. QED
        BY <3>1, <3>2, <3>4, <3>5
    <2>2. LogTypeOK'
      BY <1>2, CloseSinkTyped DEF InspectRefresh
    <2>3. QED
      BY <1>2, <2>1, <2>2 DEF InspectRefresh, TypeOK, RqTypeOK, LogTypeOK, CtdTypeOK
  <1>3. CASE InspectSave(t)
    <2>1. RqTypeOK'
      BY <1>r, <1>3, ReturnMoves DEF InspectSave, Moves
    <2>2. rq[t].id \in ContainerID
      BY <1>3 DEF InspectSave, At, HasID, NoIDYet
    <2>3. Reg!RegTypeOK'
      BY <1>3, <2>2, SaveAsRegisters DEF InspectSave
    <2>4. QED
      BY <1>3, <2>1, <2>3 DEF InspectSave, TypeOK, RqTypeOK, LogTypeOK, CtdTypeOK
  <1>4. CASE Expire(t)
    <2>1. [rq[t] EXCEPT !.done = TRUE] \in Request
      BY DEF Request
    <2>2. RqTypeOK'
      BY <1>r, <1>4, <2>1 DEF Expire, RqTypeOK
    <2>3. QED
      BY <1>4, <2>2 DEF Expire, TypeOK, RqTypeOK, LogTypeOK, CtdTypeOK
  <1>5. QED
    BY <1>1, <1>2, <1>3, <1>4 DEF Inspect

-----------------------------------------------------------------------------
(* Ownership.                                                              *)

Inv == TypeOK /\ OwnerInv

\* Places with a claim of their own in OwnerInv.
Special == {"c_save", "c_undo", "r_snap", "r_unreg", "s_run"}

\* A step of t that touches at most the task and the registry entry of its own
\* container: it may register it, and change a task that it knows to be its own
\* or that nobody is about to start.
OwnStep(t, pc, id) ==
    /\ Moves(t, pc, id)
    /\ id \in {rq[t].id, NoID} \/ (id \in ContainerID /\ Reg!Registered(id))
    /\ pc \in NoIDYet \/ id \in ContainerID
    /\ meta' = meta /\ fresh' = fresh
    /\ \A i \in ContainerID :
         /\ \/ byID'[i] = byID[i]
            \/ i = rq[t].id /\ byID'[i] # Absent
         /\ \/ task'[i] = task[i]
            \/ /\ i = rq[t].id /\ meta[i] # Absent
               /\ task[i] # "created" \/ rq[t].pc = "s_run"

\* What failed stays failed.
AbandonedStay == \A id \in ContainerID : Abandoned(id) => Abandoned(id)'

LEMMA AbandonedForGood ==
    ASSUME Inv, NEW t \in Thread,
           Create(t) \/ Start(t) \/ Stop(t) \/ Remove(t) \/ Inspect(t) \/ Expire(t)
    PROVE  AbandonedStay
  <1>1. \A id \in ContainerID : failed[id] \subseteq failed'[id]
    BY AllRecord, RecordsTyped DEF Inv, OwnerInv
  <1>2. QED
    BY <1>1 DEF AbandonedStay, Abandoned, Failed

\* A step of one request that touches only a container of its own keeps the
\* ownership of all others.
LEMMA OwnStepKeeps ==
    ASSUME Inv, AbandonedStay, NEW t \in Thread, NEW pc, NEW id, OwnStep(t, pc, id),
           ~Creating(t), pc \notin Special
    PROVE  OwnerInv'
  <1> USE DEF Inv, TypeOK, OwnerInv, OwnStep, Moves, Special
  <1>0. fresh \subseteq ContainerID /\ \A u \in Thread : Creating(u)' <=> (u # t /\ Creating(u))
    BY DEF Creating
  <1>1. HasID'
    BY DEF HasID
  <1>2. TaskHasMeta'
    BY DEF TaskHasMeta
  <1>3. FreshUnknown'
    BY <1>0, ServiceValues DEF FreshUnknown, Reg!Registered
  <1>4. CreatingAlone'
    <2>1. SUFFICES ASSUME NEW u \in Thread, Creating(u), u # t
                   PROVE  /\ byID'[rq[u].id] = Absent /\ task'[rq[u].id] = "none"
                          /\ \A v \in Thread \ {u} : rq'[v].id # rq[u].id
      BY <1>0 DEF CreatingAlone, Reg!Registered
    <2>2. rq[u].id \in ContainerID /\ rq[u].id # rq[t].id
      BY <2>1 DEF CreatingAlone, HasID, NoIDYet, Creating
    <2>3. ~Reg!Registered(rq[u].id) /\ task[rq[u].id] = "none"
      BY <2>1 DEF CreatingAlone
    <2>4. \A v \in Thread \ {u} : rq'[v].id # rq[u].id
      BY <2>1, <2>2, <2>3, ServiceValues DEF CreatingAlone
    <2>5. QED
      BY <2>2, <2>3, <2>4 DEF Reg!Registered
  <1>5. MetaOwned'
    BY <1>0 DEF MetaOwned, Reg!Registered, Creating, AbandonedStay
  <1>6. RemovedFirst'
    BY DEF RemovedFirst
  <1>7. TaskReserved'
    <2>1. SUFFICES ASSUME NEW u \in Thread, rq[u].pc = "s_run", u # t
                   PROVE  /\ task'[rq[u].id] = "created"
                          /\ \A v \in Thread \ {u} : rq'[v].pc = "s_run" => rq'[v].id # rq[u].id
      BY DEF TaskReserved
    <2>2. rq[u].id \in ContainerID /\ task[rq[u].id] = "created"
      BY <2>1 DEF TaskReserved, HasID, NoIDYet
    <2>3. rq[t].pc = "s_run" => rq[u].id # rq[t].id
      BY <2>1 DEF TaskReserved
    <2>4. QED
      BY <2>1, <2>2, <2>3 DEF TaskReserved
  <1>8. QED
    BY <1>1, <1>2, <1>3, <1>4, <1>5, <1>6, <1>7

\* A step that leaves runtime, registry and fresh IDs alone.
LEMMA QuietMove ==
    ASSUME Inv, NEW t \in Thread, NEW pc, NEW id, Moves(t, pc, id),
           id \in {rq[t].id, NoID} \/ (id \in ContainerID /\ Reg!Registered(id)),
           pc \in NoIDYet \/ id \in ContainerID,
           UNCHANGED <<byID, meta, task, fresh>>
    PROVE  OwnStep(t, pc, id)
  BY DEF OwnStep

\* The use cases that start with resolveContainer take a registered container.
LEMMA ResolveOwned ==
    ASSUME Inv, AbandonedStay, NEW t \in Thread, NEW id \in ContainerID, NEW pc \in PCs \ Special,
           NEW force \in BOOLEAN, NEW op, Resolve(t, op, id, pc, force),
           UNCHANGED <<regVars, used, attach, ctdVars, logVars, fresh, failed, loose>>
    PROVE  OwnerInv'
  <1>1. Moves(t, pc, id) /\ rq[t].pc = "idle" /\ Reg!Registered(id)
    BY ResolveMoves DEF Inv
  <1>2. OwnStep(t, pc, id)
    BY <1>1, QuietMove DEF regVars, ctdVars
  <1>3. QED
    BY <1>1, <1>2, OwnStepKeeps DEF Creating

\* NewContainer under a fresh ID: the create is its only owner.
LEMMA CreateNewOwned ==
    ASSUME Inv, AbandonedStay, NEW t \in Thread, CreateNew(t)
    PROVE  OwnerInv'
  <1> USE DEF Inv, TypeOK
  <1>r. RqTypeOK /\ rq[t] \in Request /\ rq[t].pc = "c_new"
    BY DEF RqTypeOK, CreateNew, At
  <1>1. CASE Return(t) /\ UNCHANGED <<byID, meta, task, fresh>>
    <2>1. OwnStep(t, "idle", NoID)
      BY <1>1, <1>r, ReturnMoves, QuietMove DEF NoIDYet
    <2>2. QED
      BY <1>r, <2>1, OwnStepKeeps DEF Creating, Special
  <1>2. ASSUME NEW id \in fresh, NEW pc, NEW i,
               meta' = [meta EXCEPT ![id] = rq[t].c.name], fresh' = fresh \ {id},
               rq'[t].pc = pc, rq'[t].id = i, \A u \in Thread \ {t} : rq'[u] = rq[u],
               (pc = "c_save" /\ i = id) \/ (pc = "idle" /\ i = NoID /\ Abandoned(id)'),
               UNCHANGED <<byID, task>>
        PROVE  OwnerInv'
    <2>2. id \in ContainerID /\ meta[id] = Absent /\ task[id] = "none" /\ ~Reg!Registered(id)
          /\ \A u \in Thread : rq[u].id # id
      BY DEF OwnerInv, FreshUnknown
    <2>3. \A u \in Thread : Creating(u)' <=> ((u = t /\ pc = "c_save") \/ Creating(u))
      BY <1>r, <1>2 DEF Creating
    <2>4. \A j \in ContainerID \ {id} : meta'[j] = meta[j]
      BY <1>2
    <2>m. meta'[id] # Absent
      BY <1>2, <2>2, RequestParts, ServiceValues
    <2>5. HasID'
      BY <1>2, <2>2 DEF OwnerInv, HasID, NoIDYet
    <2>6. TaskHasMeta'
      BY <1>2, <2>2, <2>4 DEF OwnerInv, TaskHasMeta
    <2>7. FreshUnknown'
      <3>1. ASSUME NEW j \in fresh' PROVE j # id /\ j \in ContainerID /\ i # j
        BY <1>2, <2>2, <3>1, ServiceValues
      <3>2. QED
        BY <1>2, <2>4, <3>1 DEF OwnerInv, FreshUnknown, Reg!Registered
    <2>8. CreatingAlone'
      <3>1. \A u \in Thread \ {t} : Creating(u) => /\ rq[u].id # id /\ rq'[u].id = rq[u].id
                                                 /\ rq[u].id \in ContainerID
        BY <1>2, <2>2 DEF OwnerInv, HasID, NoIDYet, Creating
      <3>2. SUFFICES ASSUME NEW u \in Thread, Creating(u)'
                     PROVE  /\ byID[rq'[u].id] = Absent /\ task[rq'[u].id] = "none"
                            /\ \A v \in Thread \ {u} : rq'[v].id # rq'[u].id
        BY <1>2 DEF CreatingAlone, Reg!Registered
      <3>3. CASE u = t
        BY <1>2, <1>r, <2>2, <2>3, <3>2, <3>3 DEF Reg!Registered, Creating
      <3>4. CASE u # t
        <4>1. Creating(u) /\ rq'[u] = rq[u] /\ rq[u].id \in ContainerID \ {id}
          BY <1>2, <2>3, <3>1, <3>2, <3>4
        <4>2. QED
          BY <1>2, <3>4, <4>1, ServiceValues DEF OwnerInv, CreatingAlone, Reg!Registered
      <3>5. QED
        BY <3>3, <3>4
    <2>9. MetaOwned'
      <3>1. SUFFICES ASSUME NEW j \in ContainerID, meta'[j] # Absent, byID'[j] = Absent
                     PROVE  (\E u \in Thread : Creating(u)' /\ rq'[u].id = j) \/ Abandoned(j)'
        BY DEF MetaOwned, Reg!Registered
      <3>2. CASE j = id
        BY <1>2, <2>3, <3>2
      <3>3. CASE j # id
        <4>1. (\E u \in Thread : Creating(u) /\ rq[u].id = j) \/ Abandoned(j)
          BY <1>2, <2>4, <3>1, <3>3 DEF OwnerInv, MetaOwned, Reg!Registered
        <4>2. CASE Abandoned(j)
          BY <4>2 DEF AbandonedStay
        <4>3. ASSUME NEW u \in Thread, Creating(u), rq[u].id = j
              PROVE  Creating(u)' /\ rq'[u].id = j
          BY <1>r, <1>2, <2>3, <4>3 DEF Creating
        <4>4. QED
          BY <4>1, <4>2, <4>3
      <3>4. QED
        BY <3>2, <3>3
    <2>10. RemovedFirst'
      BY <1>2, <2>2, <2>4 DEF OwnerInv, RemovedFirst, HasID, NoIDYet
    <2>11. TaskReserved'
      BY <1>2 DEF OwnerInv, TaskReserved
    <2>12. QED
      BY <2>5, <2>6, <2>7, <2>8, <2>9, <2>10, <2>11 DEF OwnerInv
  <1>3. ASSUME NEW id \in fresh,
               meta' = [meta EXCEPT ![id] = rq[t].c.name], fresh' = fresh \ {id},
               rq' = [rq EXCEPT ![t].pc = "c_save", ![t].id = id], UNCHANGED <<byID, task>>
        PROVE  OwnerInv'
    <2>1. rq'[t].pc = "c_save" /\ rq'[t].id = id /\ \A u \in Thread \ {t} : rq'[u] = rq[u]
      BY <1>r, <1>3 DEF Request
    <2>2. QED
      BY <1>2, <1>3, <2>1
  <1>4. ASSUME NEW id \in fresh, Unanswered(id, "NewContainer"), Return(t),
               meta' = [meta EXCEPT ![id] = rq[t].c.name], fresh' = fresh \ {id},
               UNCHANGED <<byID, task>>
        PROVE  OwnerInv'
    <2>1. Abandoned(id)'
      BY <1>4 DEF Abandoned, Failed, Unanswered
    <2>2. QED
      BY <1>2, <1>4, <1>r, <2>1, ReturnMoves DEF Moves
  <1>5. QED
    BY <1>1, <1>3, <1>4 DEF CreateNew, regVars

\* registry.Save or, for the loser of a race, the removal of the container.
LEMMA CreateSettleOwned ==
    ASSUME Inv, AbandonedStay, NEW t \in Thread, CreateSave(t) \/ CreateUndo(t)
    PROVE  OwnerInv'
  <1> USE DEF Inv
  <1>r. RqTypeOK /\ Creating(t) /\ rq[t].id \in ContainerID /\ fresh \subseteq ContainerID
    BY DEF TypeOK, RqTypeOK, CreateSave, CreateUndo, At, Creating, OwnerInv, HasID, NoIDYet
  <1>a. /\ ~Reg!Registered(rq[t].id) /\ task[rq[t].id] = "none"
        /\ \A u \in Thread \ {t} : rq[u].id # rq[t].id
    BY <1>r DEF OwnerInv, CreatingAlone
  <1>d. PICK own \in ContainerID : own = rq[t].id
    BY <1>r
  <1>1. CASE Goto(t, "c_undo") /\ UNCHANGED <<byID, meta, task, fresh>>
    <2>1. Moves(t, "c_undo", rq[t].id)
      BY <1>r, <1>1, GotoMoves DEF PCs, CreatePC
    <2>2. \A u \in Thread : (Creating(u)' <=> Creating(u)) /\ rq'[u].id = rq[u].id
      BY <1>r, <2>1 DEF Moves, Creating
    <2>3. \A u \in Thread : rq'[u].pc = rq[u].pc \/ (u = t /\ rq'[u].pc = "c_undo")
      BY <2>1 DEF Moves
    <2>4. QED
      BY <1>1, <1>r, <2>2, <2>3
      DEF OwnerInv, HasID, TaskHasMeta, FreshUnknown, CreatingAlone, MetaOwned, RemovedFirst,
          TaskReserved, Reg!Registered, AbandonedStay
  <1>2. CASE /\ Return(t) /\ UNCHANGED <<task, fresh>>
             /\ \A i \in ContainerID \ {rq[t].id} : byID'[i] = byID[i] /\ meta'[i] = meta[i]
             /\ \/ meta' = meta /\ byID'[rq[t].id] # Absent
                \/ byID' = byID /\ meta'[rq[t].id] = Absent
                \/ byID' = byID /\ meta' = meta /\ Abandoned(own)'
    <2>1. Moves(t, "idle", NoID)
      BY <1>r, <1>2, ReturnMoves
    <2>2. \A u \in Thread : Creating(u)' <=> (u # t /\ Creating(u))
      BY <2>1 DEF Moves, Creating
    <2>3. HasID'
      BY <2>1 DEF Moves, OwnerInv, HasID, NoIDYet
    <2>4. TaskHasMeta'
      BY <1>2, <1>a DEF OwnerInv, TaskHasMeta
    <2>5. FreshUnknown'
      BY <1>2, <1>r, <2>1, ServiceValues DEF Moves, OwnerInv, FreshUnknown, Reg!Registered
    <2>6. CreatingAlone'
      <3>1. SUFFICES ASSUME NEW u \in Thread, u # t, Creating(u)
                     PROVE  /\ byID'[rq[u].id] = Absent /\ task'[rq[u].id] = "none"
                            /\ \A v \in Thread \ {u} : rq'[v].id # rq[u].id
        BY <2>1, <2>2 DEF CreatingAlone, Moves, Reg!Registered
      <3>2. rq[u].id \in ContainerID /\ rq[u].id # rq[t].id
        BY <1>a, <3>1 DEF OwnerInv, HasID, NoIDYet, Creating
      <3>3. QED
        BY <1>2, <2>1, <3>1, <3>2, ServiceValues DEF OwnerInv, CreatingAlone, Moves, Reg!Registered
    <2>7. MetaOwned'
      <3>1. SUFFICES ASSUME NEW i \in ContainerID, meta'[i] # Absent, byID'[i] = Absent
                     PROVE  (\E u \in Thread : Creating(u)' /\ rq'[u].id = i) \/ Abandoned(i)'
        BY DEF MetaOwned, Reg!Registered
      <3>2. CASE i = rq[t].id
        BY <1>2, <1>a, <1>d, <3>1, <3>2 DEF Reg!Registered
      <3>3. CASE i # rq[t].id
        <4>1. (\E u \in Thread : Creating(u) /\ rq[u].id = i) \/ Abandoned(i)
          BY <1>2, <3>1, <3>3 DEF OwnerInv, MetaOwned, Reg!Registered
        <4>2. ASSUME NEW u \in Thread, Creating(u), rq[u].id = i
              PROVE  Creating(u)' /\ rq'[u].id = i
          BY <2>1, <2>2, <3>3, <4>2 DEF Moves
        <4>3. QED
          BY <4>1, <4>2 DEF AbandonedStay
      <3>4. QED
        BY <3>2, <3>3
    <2>8. RemovedFirst'
      BY <1>2, <1>a, <2>1 DEF Moves, OwnerInv, RemovedFirst, HasID, NoIDYet
    <2>9. TaskReserved'
      BY <1>2, <2>1 DEF Moves, OwnerInv, TaskReserved
    <2>10. QED
      BY <2>3, <2>4, <2>5, <2>6, <2>7, <2>8, <2>9 DEF OwnerInv
  <1>3. CASE CreateSave(t)
    <2>1. rq[t].c \in Reg!Container
      BY RequestParts
    <2>2. CASE Reg!Save(rq[t].id, rq[t].c) /\ Return(t)
      <3>1. byID'[rq[t].id] # Absent /\ \A i \in ContainerID \ {rq[t].id} : byID'[i] = byID[i]
        BY <1>r, <2>1, <2>2, SaveRegisters
      <3>2. UNCHANGED <<meta, task, fresh>>
        BY <1>3 DEF CreateSave, ctdVars
      <3>3. QED
        BY <1>2, <2>2, <3>1, <3>2
    <2>3. QED
      BY <1>1, <1>3, <2>2 DEF CreateSave, regVars, ctdVars
  <1>4. CASE CreateUndo(t)
    <2>1. Return(t) /\ UNCHANGED <<byID, task, fresh>>
      BY <1>4 DEF CreateUndo, regVars
    <2>2. CASE meta' = [meta EXCEPT ![rq[t].id] = Absent]
      BY <1>2, <1>r, <2>1, <2>2 DEF TypeOK
    <2>3. CASE Unanswered(rq[t].id, "Undo") /\ UNCHANGED meta
      <3>1. Abandoned(own)'
        BY <1>d, <2>3 DEF Unanswered, Abandoned, Failed, TypeOK
      <3>2. QED
        BY <1>2, <2>1, <2>3, <3>1
    <2>4. QED
      BY <1>4, <2>2, <2>3 DEF CreateUndo
  <1>5. QED
    BY <1>3, <1>4

\* ContainerCreate (containers.go:34-104).
LEMMA CreateOwned ==
    ASSUME Inv, NEW t \in Thread, Create(t)
    PROVE  OwnerInv'
  <1>f. AbandonedStay
    BY AbandonedForGood
  <1> USE <1>f
  <1>r. RqTypeOK
    BY DEF Inv, TypeOK, RqTypeOK
  <1>1. ASSUME NEW n \in Name \cup {NoName}, NEW keys \in PortRequests, NEW net \in NetModes,
               CreateValidate(t, n, keys, net)
        PROVE  OwnerInv'
    <2> DEFINE c == [name |-> n, data |-> [state |-> "created", ports |-> keys, net |-> net]]
               r == [Idle EXCEPT !.pc = "c_alloc", !.c = c]
    <2>1. c \in Reg!Container
      BY ServiceAssumption, ServiceValues DEF Reg!Container, Data, State
    <2>2. r \in Request /\ r.pc = "c_alloc" /\ r.id = NoID
      <3> HIDE DEF c
      <3> QED
        BY <2>1, IdleRequest DEF Request, CreatePC
    <2>3. rq' = [rq EXCEPT ![t] = r] /\ rq[t].pc = "idle"
      BY <1>1 DEF CreateValidate, At
    <2>4. Moves(t, "c_alloc", NoID)
      <3> HIDE DEF r
      <3> QED
        BY <1>r, <2>2, <2>3 DEF RqTypeOK, Moves
    <2>5. OwnStep(t, "c_alloc", NoID)
      BY <1>1, <2>4, QuietMove DEF CreateValidate, regVars, ctdVars, NoIDYet
    <2>6. QED
      BY <2>3, <2>5, OwnStepKeeps DEF Creating, Special
  <1>2. CASE CreateAllocate(t) \/ CreateFind(t)
    <2>1. PICK pc \in {"idle", "c_find", "c_new"} :
             Moves(t, pc, NoID) \/ Moves(t, pc, rq[t].id)
      BY <1>2, <1>r, GotoMoves, ReturnMoves DEF CreateAllocate, CreateFind, PCs, CreatePC
    <2>2. OwnStep(t, pc, NoID) \/ OwnStep(t, pc, rq[t].id)
      BY <1>2, <2>1, QuietMove DEF CreateAllocate, CreateFind, regVars, ctdVars, NoIDYet
    <2>3. QED
      BY <1>2, <2>2, OwnStepKeeps DEF CreateAllocate, CreateFind, At, Creating, Special
  <1>3. QED
    BY <1>1, <1>2, CreateNewOwned, CreateSettleOwned DEF Create

\* NewTask: containerd allows one task, so one start at most is about to run it.
LEMMA NewTaskOwned ==
    ASSUME Inv, AbandonedStay, NEW t \in Thread, rq[t].pc = "s_task", Goto(t, "s_run"),
           meta[rq[t].id] # Absent, task[rq[t].id] = "none",
           task' = [task EXCEPT ![rq[t].id] = "created"],
           UNCHANGED <<byID, meta, fresh>>
    PROVE  OwnerInv'
  <1> USE DEF Inv, TypeOK
  <1>1. Moves(t, "s_run", rq[t].id)
    BY GotoMoves DEF RqTypeOK, PCs, StartPC
  <1>2. rq[t].id \in ContainerID /\ fresh \subseteq ContainerID
    BY DEF OwnerInv, HasID, NoIDYet
  <1>3. \A u \in Thread : (Creating(u)' <=> Creating(u)) /\ rq'[u].id = rq[u].id
    BY <1>1 DEF Moves, Creating
  <1>4. \A u \in Thread : Creating(u) => rq[u].id # rq[t].id
    BY DEF OwnerInv, CreatingAlone, Creating
  <1>5. \A u \in Thread : rq[u].pc = "s_run" => rq[u].id # rq[t].id
    BY DEF OwnerInv, TaskReserved
  <1>6. \A i \in ContainerID \ {rq[t].id} : task'[i] = task[i]
    OBVIOUS
  <1>7. \A u \in Thread : rq'[u].pc = rq[u].pc \/ (u = t /\ rq'[u].pc = "s_run")
    BY <1>1 DEF Moves
  <1>8. HasID' /\ TaskHasMeta'
    BY <1>2, <1>3, <1>6, <1>7 DEF OwnerInv, HasID, TaskHasMeta, NoIDYet
  <1>9. FreshUnknown'
    BY <1>2, <1>3, <1>6 DEF OwnerInv, FreshUnknown, Reg!Registered
  <1>10. CreatingAlone'
    BY <1>3, <1>4, <1>6 DEF OwnerInv, CreatingAlone, HasID, NoIDYet, Creating, Reg!Registered
  <1>11. MetaOwned'
    BY <1>3 DEF OwnerInv, MetaOwned, Reg!Registered, AbandonedStay
  <1>12. RemovedFirst'
    BY <1>3, <1>7 DEF OwnerInv, RemovedFirst
  <1>13. TaskReserved'
    <2>1. ASSUME NEW u \in Thread, rq'[u].pc = "s_run"
          PROVE  /\ task'[rq'[u].id] = "created"
                 /\ \A v \in Thread \ {u} : rq'[v].pc = "s_run" => rq'[v].id # rq'[u].id
      <3>1. CASE u = t
        BY <1>1, <1>2, <1>5, <3>1 DEF Moves
      <3>2. CASE u # t
        <4>1. rq[u].pc = "s_run" /\ rq'[u].id = rq[u].id /\ rq[u].id # rq[t].id
          BY <1>1, <1>5, <2>1, <3>2 DEF Moves
        <4>2. rq[u].id \in ContainerID /\ task[rq[u].id] = "created"
          BY <4>1 DEF OwnerInv, TaskReserved, HasID, NoIDYet
        <4>3. QED
          BY <1>1, <1>6, <4>1, <4>2 DEF OwnerInv, TaskReserved, Moves
      <3>3. QED
        BY <3>1, <3>2
    <2>2. QED
      BY <2>1 DEF TaskReserved
  <1>14. QED
    BY <1>8, <1>9, <1>10, <1>11, <1>12, <1>13 DEF OwnerInv

\* ContainerStart (containers.go:250-354).
LEMMA StartOwned ==
    ASSUME Inv, NEW t \in Thread, Start(t)
    PROVE  OwnerInv'
  <1>f. AbandonedStay
    BY AbandonedForGood
  <1> USE <1>f
  <1> USE DEF PCs, StartPC, Special
  <1>r. RqTypeOK /\ fresh \subseteq ContainerID
    BY DEF Inv, TypeOK, RqTypeOK
  <1>i. rq[t].pc \in StartPC => rq[t].id \in ContainerID
    BY DEF Inv, OwnerInv, HasID, NoIDYet
  <1>1. ASSUME NEW id \in ContainerID, StartResolve(t, id)
        PROVE  OwnerInv'
    BY <1>1, ResolveOwned DEF StartResolve
  <1>2. CASE StartStatus(t) \/ StartOpenLog(t) \/ StartPID(t) \/ StartAdopt(t)
    <2>1. PICK pc \in {"idle", "s_open", "s_discard", "s_final", "s_failed", "s_adopt", "s_add", "s_restore"} :
             (pc = "idle" /\ Moves(t, pc, NoID)) \/ Moves(t, pc, rq[t].id)
      BY <1>2, <1>r, GotoMoves, ReturnMoves DEF StartStatus, StartOpenLog, StartPID, StartAdopt
    <2>2. rq[t].pc \in StartPC /\ ~Creating(t) /\ UNCHANGED <<byID, meta, task, fresh>>
      BY <1>2 DEF StartStatus, StartOpenLog, StartPID, StartAdopt, At, Creating, regVars, ctdVars
    <2>3. OwnStep(t, pc, NoID) \/ OwnStep(t, pc, rq[t].id)
      BY <1>i, <2>1, <2>2, QuietMove DEF NoIDYet
    <2>4. QED
      BY <2>2, <2>3, OwnStepKeeps
  <1>3. CASE StartAdd(t) \/ StartRestore(t) \/ StartJoinFailed(t) \/ StartFinal(t)
    <2>1. PICK pc \in {"s_final", "s_restore", "s_failed", "s_undo", "s_exited", "s_mark"} :
             Moves(t, pc, rq[t].id)
      BY <1>3, <1>r, GotoMoves DEF StartAdd, StartRestore, StartJoinFailed, StartFinal
    <2>2. rq[t].pc \in StartPC /\ ~Creating(t) /\ UNCHANGED <<byID, meta, task, fresh>>
      BY <1>3 DEF StartAdd, StartRestore, StartJoinFailed, StartFinal, At, Creating, regVars, ctdVars
    <2>3. OwnStep(t, pc, rq[t].id)
      BY <1>i, <2>1, <2>2, QuietMove DEF NoIDYet
    <2>4. QED
      BY <2>2, <2>3, OwnStepKeeps
  <1>4. CASE StartDiscard(t)
    <2>1. \/ Moves(t, "s_task", rq[t].id) /\ ~LoadFails(t) /\ Deletable(rq[t].id)
             /\ task' = [task EXCEPT ![rq[t].id] = "none"]
          \/ Moves(t, "idle", NoID) /\ UNCHANGED task
      BY <1>4, <1>r, GotoMoves, ReturnMoves DEF StartDiscard, StartFails
    <2>2. rq[t].pc = "s_discard" /\ UNCHANGED <<byID, meta, fresh>>
      BY <1>4 DEF StartDiscard, At, regVars
    <2>3. OwnStep(t, "s_task", rq[t].id) \/ OwnStep(t, "idle", NoID)
      BY <1>i, <2>1, <2>2 DEF OwnStep, LoadFails, Deletable, NoIDYet, Inv, TypeOK
    <2>4. QED
      BY <2>2, <2>3, OwnStepKeeps DEF Creating
  <1>5. CASE StartNewTask(t)
    <2>1. rq[t].pc = "s_task" /\ UNCHANGED <<byID, meta, fresh>>
      BY <1>5 DEF StartNewTask, At, regVars
    <2>2. CASE Return(t) /\ UNCHANGED task
      <3>1. OwnStep(t, "idle", NoID)
        BY <1>r, <2>1, <2>2, ReturnMoves, QuietMove DEF NoIDYet
      <3>2. QED
        BY <2>1, <3>1, OwnStepKeeps DEF Creating
    <2>3. QED
      BY <1>5, <2>1, <2>2, NewTaskOwned DEF StartNewTask, StartFails, LoadFails
  <1>6. CASE StartRun(t)
    <2>1. rq[t].pc = "s_run" /\ UNCHANGED <<byID, meta, fresh>>
      BY <1>6 DEF StartRun, At, regVars
    <2>2. meta[rq[t].id] # Absent
      BY <1>i, <2>1 DEF Inv, OwnerInv, TaskReserved, TaskHasMeta
    <2>3. Moves(t, "s_pid", rq[t].id) \/ Moves(t, "idle", NoID)
      BY <1>6, <1>r, GotoMoves, ReturnMoves DEF StartRun, StartFails
    <2>4. \A i \in ContainerID : task'[i] = task[i] \/ i = rq[t].id
      BY <1>6 DEF StartRun, Inv, TypeOK
    <2>5. OwnStep(t, "s_pid", rq[t].id) \/ OwnStep(t, "idle", NoID)
      BY <1>i, <2>1, <2>2, <2>3, <2>4 DEF OwnStep, NoIDYet
    <2>6. QED
      BY <2>1, <2>5, OwnStepKeeps DEF Creating
  <1>7. CASE StartUndo(t)
    <2>1. Moves(t, "idle", NoID)
      BY <1>7, <1>r, ReturnMoves DEF StartUndo
    <2>2. rq[t].pc = "s_undo" /\ UNCHANGED <<byID, meta, fresh>>
      BY <1>7 DEF StartUndo, At, regVars
    <2>3. OwnStep(t, "idle", NoID)
      BY <1>7, <1>i, <2>1, <2>2
      DEF StartUndo, StopTask, OwnStep, NoIDYet, Inv, TypeOK, OwnerInv, TaskHasMeta
    <2>4. QED
      BY <2>2, <2>3, OwnStepKeeps DEF Creating
  <1>8. CASE StartSaveExited(t) \/ StartMark(t)
    <2>1. Moves(t, "idle", NoID)
      BY <1>8, <1>r, ReturnMoves DEF StartSaveExited, StartMark
    <2>2. rq[t].pc \in {"s_exited", "s_mark"} /\ UNCHANGED <<meta, task, fresh>>
      BY <1>8 DEF StartSaveExited, StartMark, At, ctdVars
    <2>3. \A i \in ContainerID : byID'[i] = byID[i] \/ (i = rq[t].id /\ byID'[i] # Absent)
      BY <1>8, <1>i, <2>2, SaveAsRegisters DEF StartSaveExited, StartMark, State, Inv
    <2>4. OwnStep(t, "idle", NoID)
      BY <2>1, <2>2, <2>3 DEF OwnStep, NoIDYet
    <2>5. QED
      BY <2>2, <2>4, OwnStepKeeps DEF Creating
  <1>9. QED
    BY <1>1, <1>2, <1>3, <1>4, <1>5, <1>6, <1>7, <1>8 DEF Start

\* ContainerStop (containers.go:357-383).
LEMMA StopOwned ==
    ASSUME Inv, NEW t \in Thread, Stop(t)
    PROVE  OwnerInv'
  <1>f. AbandonedStay
    BY AbandonedForGood
  <1> USE <1>f
  <1> USE DEF PCs, StopPC, Special
  <1>r. RqTypeOK
    BY DEF Inv, TypeOK, RqTypeOK
  <1>i. rq[t].pc \in StopPC => rq[t].id \in ContainerID
    BY DEF Inv, OwnerInv, HasID, NoIDYet
  <1>1. ASSUME NEW id \in ContainerID, StopResolve(t, id)
        PROVE  OwnerInv'
    BY <1>1, ResolveOwned DEF StopResolve
  <1>2. CASE StopStop(t)
    <2>1. Moves(t, "p_refresh", rq[t].id) \/ Moves(t, "idle", NoID)
      BY <1>2, <1>r, GotoMoves, ReturnMoves DEF StopStop
    <2>2. rq[t].pc = "p_stop" /\ UNCHANGED <<byID, meta, fresh>>
      BY <1>2 DEF StopStop, At, regVars
    <2>3. OwnStep(t, "p_refresh", rq[t].id) \/ OwnStep(t, "idle", NoID)
      BY <1>2, <1>i, <2>1, <2>2
      DEF StopStop, StopTask, OwnStep, NoIDYet, Inv, TypeOK, OwnerInv, TaskHasMeta
    <2>4. QED
      BY <2>2, <2>3, OwnStepKeeps DEF Creating
  <1>3. CASE StopRefresh(t) \/ StopCloseLog(t)
    <2>1. PICK pc \in {"p_close", "p_save"} : Moves(t, pc, rq[t].id)
      BY <1>3, <1>r, GotoMoves DEF StopRefresh, StopCloseLog
    <2>2. rq[t].pc \in StopPC /\ ~Creating(t) /\ UNCHANGED <<byID, meta, task, fresh>>
      BY <1>3 DEF StopRefresh, StopCloseLog, At, Creating, regVars, ctdVars
    <2>3. OwnStep(t, pc, rq[t].id)
      BY <1>i, <2>1, <2>2, QuietMove DEF NoIDYet
    <2>4. QED
      BY <2>2, <2>3, OwnStepKeeps
  <1>4. CASE StopSave(t)
    <2>1. Moves(t, "idle", NoID)
      BY <1>4, <1>r, ReturnMoves DEF StopSave
    <2>2. rq[t].pc = "p_save" /\ UNCHANGED <<meta, task, fresh>>
      BY <1>4 DEF StopSave, At, ctdVars
    <2>3. \A i \in ContainerID : byID'[i] = byID[i] \/ (i = rq[t].id /\ byID'[i] # Absent)
      BY <1>4, <1>i, <2>2, SaveAsRegisters DEF StopSave, State, Inv
    <2>4. OwnStep(t, "idle", NoID)
      BY <2>1, <2>2, <2>3 DEF OwnStep, NoIDYet
    <2>5. QED
      BY <2>2, <2>4, OwnStepKeeps DEF Creating
  <1>5. QED
    BY <1>1, <1>2, <1>3, <1>4 DEF Stop

\* A removal whose container has neither a task nor, after the step, metadata
\* may do with its registry entry what it likes.
LEMMA RemovalKeeps ==
    ASSUME Inv, AbandonedStay, NEW t \in Thread, NEW pc \in PCs, NEW id \in {rq[t].id, NoID}, Moves(t, pc, id),
           ~Creating(t), pc \notin {"c_save", "c_undo", "s_run"},
           rq[t].id \in ContainerID, pc = "idle" \/ id = rq[t].id,
           task[rq[t].id] = "none", meta'[rq[t].id] = Absent,
           \A i \in ContainerID \ {rq[t].id} : meta'[i] = meta[i] /\ byID'[i] = byID[i],
           UNCHANGED <<task, fresh>>
    PROVE  OwnerInv'
  <1> USE DEF Inv, TypeOK, OwnerInv, Moves
  <1>0. fresh \subseteq ContainerID /\ \A u \in Thread : Creating(u)' <=> (u # t /\ Creating(u))
    BY DEF Creating
  <1>1. HasID'
    BY DEF HasID, NoIDYet
  <1>2. TaskHasMeta'
    BY DEF TaskHasMeta
  <1>3. FreshUnknown'
    BY <1>0, ServiceValues DEF FreshUnknown, Reg!Registered
  <1>4. CreatingAlone'
    <2>1. SUFFICES ASSUME NEW u \in Thread, Creating(u), u # t
                   PROVE  /\ byID'[rq[u].id] = Absent /\ task[rq[u].id] = "none"
                          /\ \A v \in Thread \ {u} : rq'[v].id # rq[u].id
      BY <1>0 DEF CreatingAlone, Reg!Registered
    <2>2. rq[u].id \in ContainerID /\ rq[u].id # rq[t].id
      BY <2>1 DEF CreatingAlone, HasID, NoIDYet, Creating
    <2>3. QED
      BY <2>1, <2>2, ServiceValues DEF CreatingAlone, Reg!Registered
  <1>5. MetaOwned'
    <2>1. SUFFICES ASSUME NEW i \in ContainerID, meta'[i] # Absent, byID'[i] = Absent
                   PROVE  (\E u \in Thread : Creating(u)' /\ rq'[u].id = i) \/ Abandoned(i)'
      BY DEF MetaOwned, Reg!Registered
    <2>2. (\E u \in Thread : Creating(u) /\ rq[u].id = i) \/ Abandoned(i)
      BY <2>1 DEF MetaOwned, Reg!Registered
    <2>3. QED
      BY <1>0, <2>2 DEF AbandonedStay
  <1>6. RemovedFirst'
    BY DEF RemovedFirst, HasID, NoIDYet
  <1>7. TaskReserved'
    BY DEF TaskReserved
  <1>8. QED
    BY <1>1, <1>2, <1>3, <1>4, <1>5, <1>6, <1>7

\* ContainerRemove (containers.go:386-424).
LEMMA RemoveOwned ==
    ASSUME Inv, NEW t \in Thread, Remove(t)
    PROVE  OwnerInv'
  <1>f. AbandonedStay
    BY AbandonedForGood
  <1> USE <1>f
  <1> USE DEF PCs, RemovePC, Special
  <1>r. RqTypeOK
    BY DEF Inv, TypeOK, RqTypeOK
  <1>i. rq[t].pc \in RemovePC => rq[t].id \in ContainerID
    BY DEF Inv, OwnerInv, HasID, NoIDYet
  <1>m. \A i \in ContainerID : meta[i] = Absent => task[i] = "none"
    BY DEF Inv, OwnerInv, TaskHasMeta
  <1>1. ASSUME NEW id \in ContainerID, RemoveResolve(t, id)
        PROVE  OwnerInv'
    BY <1>1, ResolveOwned DEF RemoveResolve
  <1>2. CASE RemoveStatus(t) \/ RemoveForget(t) \/ RemoveFree(t) \/ RemoveLogs(t)
    <2>1. PICK pc \in {"idle", "r_stop", "r_disc", "r_free", "r_task"} :
             (pc = "idle" /\ Moves(t, pc, NoID)) \/ Moves(t, pc, rq[t].id)
      BY <1>2, <1>r, GotoMoves, ReturnMoves DEF RemoveStatus, RemoveForget, RemoveFree, RemoveLogs
    <2>2. rq[t].pc \in RemovePC /\ ~Creating(t) /\ UNCHANGED <<byID, meta, task, fresh>>
      BY <1>2 DEF RemoveStatus, RemoveForget, RemoveFree, RemoveLogs, At, Creating, regVars, ctdVars
    <2>3. OwnStep(t, pc, NoID) \/ OwnStep(t, pc, rq[t].id)
      BY <1>i, <2>1, <2>2, QuietMove DEF NoIDYet
    <2>4. QED
      BY <2>2, <2>3, OwnStepKeeps
  <1>3. CASE RemoveDisconnect(t)
    <2>1. rq[t].pc = "r_disc" /\ UNCHANGED <<byID, meta, task, fresh>>
      BY <1>3 DEF RemoveDisconnect, At, regVars, ctdVars
    <2>2. CASE Goto(t, "r_free")
      <3>1. OwnStep(t, "r_free", rq[t].id)
        BY <1>i, <1>r, <2>1, <2>2, GotoMoves, QuietMove
      <3>2. QED
        BY <2>1, <3>1, OwnStepKeeps DEF Creating
    <2>3. CASE rq' = [rq EXCEPT ![t].pc = "r_forget", ![t].al = attach[rq[t].id]]
      <3>1. TypeOK'
        BY <1>3, RemoveTyped DEF Remove, Inv, OwnerInv
      <3>2. rq[t] \in Request
        BY <1>r DEF RqTypeOK
      <3>3. Moves(t, "r_forget", rq[t].id)
        BY <1>r, <2>3, <3>1, <3>2 DEF Moves, RqTypeOK, TypeOK, Request
      <3>4. OwnStep(t, "r_forget", rq[t].id)
        BY <1>i, <2>1, <3>3, QuietMove
      <3>5. QED
        BY <2>1, <3>4, OwnStepKeeps DEF Creating
    <2>4. QED
      BY <1>3, <2>2, <2>3 DEF RemoveDisconnect
  <1>4. CASE RemoveStop(t)
    <2>1. Moves(t, "r_disc", rq[t].id)
      BY <1>4, <1>r, GotoMoves DEF RemoveStop
    <2>2. rq[t].pc = "r_stop" /\ UNCHANGED <<byID, meta, fresh>>
      BY <1>4 DEF RemoveStop, At, regVars
    <2>3. OwnStep(t, "r_disc", rq[t].id)
      BY <1>4, <1>i, <2>1, <2>2
      DEF RemoveStop, StopTask, OwnStep, NoIDYet, Inv, TypeOK, OwnerInv, TaskHasMeta
    <2>4. QED
      BY <2>2, <2>3, OwnStepKeeps DEF Creating
  <1>5. CASE RemoveTask(t)
    <2>1. rq[t].pc = "r_task" /\ UNCHANGED <<byID, meta, fresh>>
      BY <1>5 DEF RemoveTask, At, regVars
    <2>2. CASE meta[rq[t].id] = Absent /\ Goto(t, "r_unreg") /\ UNCHANGED task
      <3>1. Moves(t, "r_unreg", rq[t].id)
        BY <1>r, <2>2, GotoMoves
      <3>2. QED
        BY <1>i, <1>m, <2>1, <2>2, <3>1, RemovalKeeps DEF Creating
    <2>3. CASE \/ Return(t) /\ UNCHANGED task
               \/ /\ ~LoadFails(t) /\ Deletable(rq[t].id) /\ Goto(t, "r_meta")
                  /\ task' = [task EXCEPT ![rq[t].id] = "none"]
      <3>1. \/ Moves(t, "idle", NoID) /\ UNCHANGED task
            \/ /\ Moves(t, "r_meta", rq[t].id) /\ ~LoadFails(t) /\ Deletable(rq[t].id)
               /\ task' = [task EXCEPT ![rq[t].id] = "none"]
        BY <1>r, <2>3, GotoMoves, ReturnMoves
      <3>2. OwnStep(t, "idle", NoID) \/ OwnStep(t, "r_meta", rq[t].id)
        BY <1>i, <2>1, <3>1 DEF OwnStep, LoadFails, Deletable, NoIDYet, Inv, TypeOK
      <3>3. QED
        BY <2>1, <3>2, OwnStepKeeps DEF Creating
    <2>4. QED
      BY <1>5, <2>2, <2>3 DEF RemoveTask
  <1>6. CASE RemoveMeta(t)
    <2>1. rq[t].pc = "r_meta" /\ UNCHANGED <<byID, task, fresh>>
      BY <1>6 DEF RemoveMeta, At, regVars
    <2>2. CASE Return(t) /\ UNCHANGED meta
      <3>1. OwnStep(t, "idle", NoID)
        BY <1>r, <2>1, <2>2, ReturnMoves, QuietMove DEF NoIDYet
      <3>2. QED
        BY <2>1, <3>1, OwnStepKeeps DEF Creating
    <2>3. CASE /\ Goto(t, "r_snap") /\ task[rq[t].id] = "none"
               /\ meta' = [meta EXCEPT ![rq[t].id] = Absent]
      <3>1. Moves(t, "r_snap", rq[t].id)
        BY <1>r, <2>3, GotoMoves
      <3>2. meta'[rq[t].id] = Absent /\ \A i \in ContainerID \ {rq[t].id} : meta'[i] = meta[i]
        BY <1>i, <2>1, <2>3 DEF Inv, TypeOK
      <3>3. QED
        BY <1>i, <2>1, <2>3, <3>1, <3>2, RemovalKeeps DEF Creating
    <2>4. QED
      BY <1>6, <2>2, <2>3 DEF RemoveMeta
  <1>7. CASE RemoveSnapshot(t) \/ RemoveUnregister(t)
    <2>1. rq[t].pc \in {"r_snap", "r_unreg"} /\ UNCHANGED <<meta, task, fresh>>
      BY <1>7 DEF RemoveSnapshot, RemoveUnregister, At, ctdVars
    <2>2. meta[rq[t].id] = Absent
      BY <2>1 DEF Inv, OwnerInv, RemovedFirst
    <2>3. \A i \in ContainerID \ {rq[t].id} : byID'[i] = byID[i]
      BY <1>7 DEF RemoveSnapshot, RemoveUnregister, Reg!Remove, regVars, Inv, TypeOK, Reg!RegTypeOK
    <2>4. PICK pc \in {"idle", "r_unreg", "r_logs"} :
             (pc = "idle" /\ Moves(t, pc, NoID)) \/ Moves(t, pc, rq[t].id)
      BY <1>7, <1>r, GotoMoves, ReturnMoves DEF RemoveSnapshot, RemoveUnregister
    <2>5. QED
      BY <1>i, <1>m, <2>1, <2>2, <2>3, <2>4, RemovalKeeps DEF Creating
  <1>8. QED
    BY <1>1, <1>2, <1>3, <1>4, <1>5, <1>6, <1>7 DEF Remove

\* ContainerInspect and -List, the expiry of a request and the end of a process.
LEMMA OtherOwned ==
    ASSUME Inv, NEW t \in Thread, Inspect(t) \/ Expire(t)
    PROVE  OwnerInv'
  <1>f. AbandonedStay
    BY AbandonedForGood
  <1> USE <1>f
  <1> USE DEF PCs, InspectPC, Special
  <1>r. RqTypeOK /\ rq[t] \in Request
    BY DEF Inv, TypeOK, RqTypeOK
  <1>t. TypeOK'
    BY OtherTyped DEF Inv, OwnerInv
  <1>i. rq[t].pc \in InspectPC => rq[t].id \in ContainerID
    BY DEF Inv, OwnerInv, HasID, NoIDYet
  <1>1. ASSUME NEW id \in ContainerID, InspectResolve(t, id)
        PROVE  OwnerInv'
    BY <1>1, ResolveOwned DEF InspectResolve
  <1>2. CASE InspectRefresh(t)
    <2>1. rq[t].pc = "i_refresh" /\ UNCHANGED <<byID, meta, task, fresh>>
      BY <1>2 DEF InspectRefresh, At, regVars, ctdVars
    <2>2. Moves(t, "idle", NoID) \/ Moves(t, "i_save", rq[t].id)
      <3>1. CASE Return(t)
        BY <1>r, <3>1, ReturnMoves
      <3>2. CASE \E s : rq' = [rq EXCEPT ![t].pc = "i_save", ![t].st = s]
        BY <1>r, <1>t, <3>2 DEF Moves, RqTypeOK, TypeOK, Request
      <3>3. QED
        BY <1>2, <3>1, <3>2 DEF InspectRefresh
    <2>3. OwnStep(t, "idle", NoID) \/ OwnStep(t, "i_save", rq[t].id)
      BY <1>i, <2>1, <2>2, QuietMove DEF NoIDYet
    <2>4. QED
      BY <2>1, <2>3, OwnStepKeeps DEF Creating
  <1>3. CASE InspectSave(t)
    <2>1. Moves(t, "idle", NoID)
      BY <1>3, <1>r, ReturnMoves DEF InspectSave
    <2>2. rq[t].pc = "i_save" /\ rq[t].st \in State /\ UNCHANGED <<meta, task, fresh>>
      BY <1>3, <1>r DEF InspectSave, At, ctdVars, Request
    <2>3. \A i \in ContainerID : byID'[i] = byID[i] \/ (i = rq[t].id /\ byID'[i] # Absent)
      BY <1>3, <1>i, <2>2, SaveAsRegisters DEF InspectSave, Inv
    <2>4. OwnStep(t, "idle", NoID)
      BY <2>1, <2>2, <2>3 DEF OwnStep, NoIDYet
    <2>5. QED
      BY <2>2, <2>4, OwnStepKeeps DEF Creating
  <1>4. CASE Expire(t)
    <2>1. \A u \in Thread : rq'[u].pc = rq[u].pc /\ rq'[u].id = rq[u].id
      BY <1>4, <1>r DEF Expire, RqTypeOK, Request
    <2>2. UNCHANGED <<byID, meta, task, fresh>>
      BY <1>4 DEF Expire, regVars, ctdVars
    <2>3. QED
      BY <2>1, <2>2
      DEF Inv, OwnerInv, HasID, TaskHasMeta, FreshUnknown, CreatingAlone, MetaOwned, RemovedFirst,
          TaskReserved, Creating, Reg!Registered, AbandonedStay
  <1>5. QED
    BY <1>1, <1>2, <1>3, <1>4 DEF Inspect

\* A process ends by itself.
LEMMA ExitOwned ==
    ASSUME Inv, NEW id \in ContainerID, TaskExit(id)
    PROVE  Inv'
  <1>1. TypeOK'
    BY Unchanged DEF Inv, TypeOK, TaskExit, LogTypeOK
  <1>2. /\ task[id] = "running" /\ task'[id] = "stopped"
        /\ \A i \in ContainerID \ {id} : task'[i] = task[i]
        /\ UNCHANGED <<byID, meta, rq, fresh, failed>> /\ fresh \subseteq ContainerID
    BY DEF TaskExit, regVars, Inv, TypeOK
  <1>3. \A u \in Thread : Creating(u)' <=> Creating(u)
    BY <1>2 DEF Creating
  <1>4. HasID' /\ TaskHasMeta' /\ FreshUnknown' /\ MetaOwned' /\ RemovedFirst'
    BY <1>2, <1>3
    DEF Inv, OwnerInv, HasID, TaskHasMeta, FreshUnknown, MetaOwned, RemovedFirst, Reg!Registered,
        Abandoned, Failed
  <1>5. CreatingAlone'
    BY <1>2, <1>3 DEF Inv, OwnerInv, CreatingAlone, HasID, NoIDYet, Creating, Reg!Registered
  <1>6. TaskReserved'
    BY <1>2 DEF Inv, OwnerInv, TaskReserved, HasID, NoIDYet
  <1>7. QED
    BY <1>1, <1>4, <1>5, <1>6 DEF Inv, OwnerInv

\* A daemon that has just been started owns nothing.
LEMMA InitInv == Init => Inv
  <1> SUFFICES ASSUME Init PROVE Inv
    OBVIOUS
  <1>1. \A t \in Thread : rq[t].pc = "idle" /\ rq[t].id = NoID /\ rq[t] \in Request
    BY IdleRequest DEF Init
  <1>2. TypeOK
    BY IdleRequest DEF Init, Reg!RegInit, TypeOK, Reg!RegTypeOK
  <1>3. HasID /\ CreatingAlone /\ RemovedFirst /\ TaskReserved
    BY <1>1 DEF HasID, NoIDYet, CreatingAlone, Creating, RemovedFirst, TaskReserved
  <1>4. TaskHasMeta /\ FreshUnknown /\ MetaOwned
    BY <1>1, ServiceValues
    DEF Init, Reg!RegInit, TaskHasMeta, FreshUnknown, MetaOwned, Reg!Registered
  <1>5. QED
    BY <1>2, <1>3, <1>4 DEF Inv, OwnerInv

\* Every step of the use cases keeps the inductive invariant.
LEMMA StepInv ==
    ASSUME Inv, [Next]_vars
    PROVE  Inv'
  <1>h. TypeOK /\ HasID
    BY DEF Inv, OwnerInv
  <1>1. CASE UNCHANGED vars
    <2>1. UNCHANGED <<byID, byName, used, attach, meta, task, sink, taskIO, io, rq, fresh, failed,
                    loose>>
      BY <1>1 DEF vars
    <2>2. TypeOK'
      BY <1>h, <2>1 DEF TypeOK, Reg!RegTypeOK
    <2>3. OwnerInv'
      BY <2>1
      DEF Inv, OwnerInv, HasID, TaskHasMeta, FreshUnknown, CreatingAlone, MetaOwned, RemovedFirst,
          TaskReserved, Creating, Reg!Registered, Abandoned, Failed
    <2>4. QED
      BY <2>2, <2>3 DEF Inv
  <1>2. ASSUME NEW t \in Thread, Create(t) PROVE Inv'
    BY <1>2, <1>h, CreateTyped, CreateOwned DEF Inv
  <1>3. ASSUME NEW t \in Thread, Start(t) PROVE Inv'
    BY <1>3, <1>h, StartTyped, StartOwned DEF Inv
  <1>4. ASSUME NEW t \in Thread, Stop(t) PROVE Inv'
    BY <1>4, <1>h, StopTyped, StopOwned DEF Inv
  <1>5. ASSUME NEW t \in Thread, Remove(t) PROVE Inv'
    BY <1>5, <1>h, RemoveTyped, RemoveOwned DEF Inv
  <1>6. ASSUME NEW t \in Thread, Inspect(t) \/ Expire(t) PROVE Inv'
    BY <1>6, <1>h, OtherTyped, OtherOwned DEF Inv
  <1>7. ASSUME NEW id \in ContainerID, TaskExit(id) PROVE Inv'
    BY <1>7, ExitOwned
  <1>8. QED
    BY <1>1, <1>2, <1>3, <1>4, <1>5, <1>6, <1>7 DEF Next

\* No container and no task is left in containerd without a registry entry once
\* the requests that worked on it are over, however they overlap, expire and
\* fail (containers.go:100-104, 414-417), but for a NewContainer whose reply is
\* lost and a create whose undo fails (102).
THEOREM ServiceNoOrphans ==
    Spec => []NoOrphans
  <1>1. Inv => NoOrphans
    BY DEF Inv, OwnerInv, TaskHasMeta, MetaOwned, Abandoned, NoOrphans, Settled
  <1>2. Inv /\ [Next]_vars => Inv'
    BY StepInv
  <1>3. QED
    BY <1>1, <1>2, InitInv, PTL DEF Spec

-----------------------------------------------------------------------------
(* One request per container.  What follows is about clients that wait for *)
(* the answer about a container before they ask for something else of it   *)
(* (Overlapping is FALSE); requests for different containers still         *)
(* interleave freely and meet in the registry's index and the port table.  *)

\* No two requests work on one container, and a fresh ID is nobody's.
Solo ==
    /\ \A t, u \in Thread : (t # u /\ rq[t].id = rq[u].id) => rq[t].id = NoID
    /\ \A id \in fresh : ~Reg!Registered(id) /\ \A t \in Thread : rq[t].id # id
    /\ \A t \in Thread : rq[t].pc \in NoIDYet <=> rq[t].id = NoID

\* Request t goes on to pc and is otherwise as before; or it is over.
Hops(t, pc) ==
    /\ rq'[t].pc = pc /\ rq'[t].id = rq[t].id /\ rq'[t].c = rq[t].c
    /\ rq'[t].done = rq[t].done /\ rq'[t].al = rq[t].al /\ rq'[t].st = rq[t].st
    /\ \A u \in Thread \ {t} : rq'[u] = rq[u]

Leaves(t) ==
    /\ rq'[t].pc = "idle" /\ rq'[t].id = NoID /\ ~rq'[t].done
    /\ \A u \in Thread \ {t} : rq'[u] = rq[u]

\* containerd's metadata of j and what failed for j are as before, unless j is an
\* ID that is generated in this step.
SameRuntime(j) ==
    /\ failed[j] \subseteq failed'[j]
    /\ j \notin fresh => meta'[j] = meta[j] /\ failed'[j] = failed[j]

\* The step of request t touches no container but id, and no other request.
Frame(t, id) ==
    /\ \A j \in ContainerID \ {id} :
          /\ byID'[j] = byID[j] /\ task'[j] = task[j] /\ attach'[j] = attach[j]
          /\ taskIO'[j] = taskIO[j]
          /\ SameRuntime(j)
    /\ \A u \in Thread \ {t} : rq'[u] = rq[u] /\ (rq[u].id # id => io'[u] = io[u])
    /\ rq[t].id \in {id, NoID} /\ rq'[t].id \in {id, NoID}
    /\ fresh' \subseteq fresh

\* Goto changes the place of one request and nothing else.
LEMMA GotoHops ==
    ASSUME RqTypeOK, NEW t \in Thread, NEW pc, Goto(t, pc)
    PROVE  Hops(t, pc)
  <1>1. rq[t] \in Request
    BY DEF RqTypeOK
  <1>2. rq' = [rq EXCEPT ![t] = [rq[t] EXCEPT !.pc = pc]]
    BY DEF Goto
  <1>3. QED
    BY <1>1, <1>2 DEF Hops, RqTypeOK, Request

\* Return leaves nothing of a request.
LEMMA ReturnLeaves ==
    ASSUME RqTypeOK, NEW t \in Thread, Return(t)
    PROVE  Leaves(t)
  BY DEF RqTypeOK, Return, Leaves, Idle

\* A request that resolves its container has a copy of the registry's record.
LEMMA ResolveCopies ==
    ASSUME TypeOK, NEW t \in Thread, NEW id \in ContainerID, NEW pc \in PCs,
           NEW force \in BOOLEAN, NEW op, Resolve(t, op, id, pc, force)
    PROVE  /\ rq[t].pc = "idle" /\ Reg!Registered(id) /\ (Overlapping \/ Settled(id))
           /\ rq'[t].pc = pc /\ rq'[t].id = id /\ rq'[t].c = byID[id] /\ ~rq'[t].done
           /\ \A u \in Thread \ {t} : rq'[u] = rq[u]
  <1> DEFINE r == [Idle EXCEPT !.pc = pc, !.id = id, !.c = byID[id], !.force = force]
  <1>1. r.pc = pc /\ r.id = id /\ r.c = byID[id] /\ ~r.done
    BY DEF Idle
  <1>2. rq' = [rq EXCEPT ![t] = r]
    BY DEF Resolve
  <1> HIDE DEF r
  <1>3. QED
    BY <1>1, <1>2 DEF TypeOK, Resolve, At

\* A step that only moves a request touches no container.
LEMMA PlainFrame ==
    ASSUME TypeOK, NEW t \in Thread, NEW id,
           \A u \in Thread \ {t} : rq'[u] = rq[u],
           rq[t].id \in {id, NoID}, rq'[t].id \in {id, NoID},
           UNCHANGED <<byID, attach, task, taskIO, io, fresh>>,
           \A j \in ContainerID \ {id} : SameRuntime(j)
    PROVE  Frame(t, id)
  BY DEF Frame

\* closeLogSink closes the output of one container (logs.go:55-75).
LEMMA CloseSinkFrame ==
    ASSUME TypeOK, NEW id \in ContainerID, CloseSink(id)
    PROVE  /\ \A j \in ContainerID \ {id} : taskIO'[j] = taskIO[j]
           /\ \A u \in Thread : rq[u].id # id => io'[u] = io[u]
  BY DEF TypeOK, CloseSink

\* Adapter.Stop stops one task (adapter.go).
LEMMA StopTaskFrame ==
    ASSUME TypeOK, NEW id \in ContainerID, StopTask(id)
    PROVE  /\ task'[id] = IF task[id] = "running" THEN "stopped" ELSE task[id]
           /\ \A j \in ContainerID \ {id} : task'[j] = task[j]
  BY DEF TypeOK, StopTask

\* Service.save stores one record (service.go:262-269).
LEMMA SaveAsFrame ==
    ASSUME TypeOK, NEW t \in Thread, NEW s \in State, rq[t].id \in ContainerID, SaveAs(t, s)
    PROVE  /\ \A j \in ContainerID \ {rq[t].id} : byID'[j] = byID[j]
           /\ Reg!Registered(rq[t].id) => byID'[rq[t].id] # Absent
  BY SaveAsRegisters DEF Reg!Registered

\* What a step of t records of calls that failed concerns t's container, or one
\* that was fresh.
LEMMA SoloHistory ==
    ASSUME TypeOK, Solo, NEW t \in Thread,
           Create(t) \/ Start(t) \/ Stop(t) \/ Remove(t) \/ Inspect(t) \/ Expire(t)
    PROVE  /\ \A id \in ContainerID : failed[id] \subseteq failed'[id]
           /\ \A id \in ContainerID \ fresh : id # rq[t].id => failed'[id] = failed[id]
  <1>1. HasID
    BY DEF Solo, HasID, TypeOK, Request
  <1>2. QED
    BY <1>1, AllRecord, RecordsTyped

\* The container a step of t works on: the one it has, or the one it gets.
Focus(t) == IF rq[t].id # NoID THEN rq[t].id ELSE rq'[t].id

\* ContainerCreate works on the container it makes (containers.go:34-106).
LEMMA CreateFrame ==
    ASSUME TypeOK, Solo, NEW t \in Thread, Create(t)
    PROVE  /\ Frame(t, Focus(t)) /\ Focus(t) \in ContainerID \cup {NoID}
           /\ rq'[t].id # rq[t].id => rq'[t].id \in fresh \cup {NoID} /\ rq'[t].id \notin fresh'
           /\ rq'[t].pc \in NoIDYet <=> rq'[t].id = NoID
           /\ rq'[t].pc \in {"idle"} \cup CreatePC
           /\ \A id \in ContainerID : Reg!Registered(id)' => Reg!Registered(id) \/ id = rq[t].id
           /\ \A id \in ContainerID : Reg!Registered(id) => Reg!Registered(id)'
           /\ attach' = attach
  <1> USE DEF NoIDYet, CreatePC, Focus
  <1>r. RqTypeOK /\ NoID \notin ContainerID
    BY ServiceValues DEF TypeOK, RqTypeOK
  <1>i. rq[t].id \in ContainerID \cup {NoID} /\ (rq[t].pc \in NoIDYet <=> rq[t].id = NoID)
    BY DEF Solo, TypeOK, Request
  <1>s. ASSUME NEW j \in ContainerID, j # rq[t].id, j \notin fresh => meta'[j] = meta[j]
        PROVE  SameRuntime(j)
    BY <1>s, SoloHistory DEF SameRuntime
  <1>1. ASSUME NEW n \in Name \cup {NoName}, NEW keys \in PortRequests, NEW net \in NetModes,
               CreateValidate(t, n, keys, net)
        PROVE  /\ Frame(t, NoID) /\ rq'[t].pc = "c_alloc" /\ rq'[t].id = NoID /\ rq[t].id = NoID
               /\ UNCHANGED <<byID, attach, fresh>>
    <2>1. /\ rq'[t].pc = "c_alloc" /\ rq'[t].id = NoID /\ rq[t].id = NoID
          /\ \A u \in Thread \ {t} : rq'[u] = rq[u]
      BY <1>1, <1>i, <1>r DEF CreateValidate, At, Idle, RqTypeOK
    <2>2. UNCHANGED <<byID, attach, meta, task, taskIO, io, fresh>>
      BY <1>1 DEF CreateValidate, regVars, ctdVars, logVars
    <2>3. QED
      BY <2>1, <2>2, <1>s, <1>r, PlainFrame
  <1>2. ASSUME CreateAllocate(t) \/ CreateFind(t)
        PROVE  /\ Frame(t, NoID) /\ rq'[t].pc \in {"idle", "c_find", "c_new"} /\ rq'[t].id = NoID /\ rq[t].id = NoID
               /\ UNCHANGED <<byID, attach, fresh>>
    <2>1. /\ rq'[t].pc \in {"idle", "c_find", "c_new"} /\ rq'[t].id = NoID /\ rq[t].id = NoID
          /\ \A u \in Thread \ {t} : rq'[u] = rq[u]
      BY <1>2, <1>i, <1>r, GotoHops, ReturnLeaves DEF CreateAllocate, CreateFind, At, Hops, Leaves
    <2>2. UNCHANGED <<byID, attach, meta, task, taskIO, io, fresh>>
      BY <1>2 DEF CreateAllocate, CreateFind, regVars, ctdVars, logVars
    <2>3. QED
      BY <2>1, <2>2, <1>s, <1>r, PlainFrame
  <1>3. CASE CreateNew(t)
    <2>0. /\ rq[t].id = NoID
          /\ UNCHANGED <<byID, attach, task, taskIO, io>>
      BY <1>3, <1>i DEF CreateNew, At, regVars, logVars
    <2>1. ASSUME NEW id \in fresh, meta' = [meta EXCEPT ![id] = rq[t].c.name],
                 fresh' = fresh \ {id}, rq' = [rq EXCEPT ![t].pc = "c_save", ![t].id = id]
          PROVE  /\ Frame(t, id) /\ id \in ContainerID /\ rq'[t].pc = "c_save" /\ rq'[t].id = id
                 /\ id \notin fresh'
      <3>1. /\ rq'[t].pc = "c_save" /\ rq'[t].id = id /\ \A u \in Thread \ {t} : rq'[u] = rq[u]
        BY <2>1, <1>r DEF RqTypeOK, Request
      <3>2. id \in ContainerID /\ \A j \in ContainerID \ {id} : meta'[j] = meta[j]
        BY <2>1 DEF TypeOK
      <3>3. QED
        BY <3>1, <3>2, <2>0, <2>1, <1>s, <1>r DEF Frame
    <2>2. ASSUME Return(t), fresh' \subseteq fresh,
                 \A j \in ContainerID \ fresh : meta'[j] = meta[j]
          PROVE  Frame(t, NoID) /\ rq'[t].pc = "idle" /\ rq'[t].id = NoID
      <3>1. rq'[t].pc = "idle" /\ rq'[t].id = NoID /\ \A u \in Thread \ {t} : rq'[u] = rq[u]
        BY <2>2, <1>r, ReturnLeaves DEF Leaves
      <3>2. QED
        BY <3>1, <2>0, <2>2, <1>s, <1>r DEF Frame
    <2>3. \/ \E id \in fresh : /\ meta' = [meta EXCEPT ![id] = rq[t].c.name]
                               /\ fresh' = fresh \ {id}
                               /\ rq' = [rq EXCEPT ![t].pc = "c_save", ![t].id = id]
          \/ /\ Return(t) /\ fresh' \subseteq fresh
             /\ \A j \in ContainerID \ fresh : meta'[j] = meta[j]
      BY <1>3 DEF CreateNew, TypeOK
    <2>4. \A id \in ContainerID : Reg!Registered(id)' <=> Reg!Registered(id)
      BY <2>0 DEF Reg!Registered
    <2>5. CASE /\ Return(t) /\ fresh' \subseteq fresh
               /\ \A j \in ContainerID \ fresh : meta'[j] = meta[j]
      <3>1. Frame(t, NoID) /\ rq'[t].pc = "idle" /\ rq'[t].id = NoID
        BY <2>2, <2>5
      <3>2. QED
        BY <3>1, <2>0, <2>4, <1>r
    <2>6. ASSUME NEW id \in fresh, meta' = [meta EXCEPT ![id] = rq[t].c.name],
                 fresh' = fresh \ {id}, rq' = [rq EXCEPT ![t].pc = "c_save", ![t].id = id]
          PROVE  /\ Frame(t, rq'[t].id) /\ rq'[t].id \in ContainerID
                 /\ rq'[t].id \in fresh /\ rq'[t].id \notin fresh'
                 /\ rq'[t].pc = "c_save" /\ rq'[t].id # NoID
      <3>1. /\ Frame(t, id) /\ id \in ContainerID /\ rq'[t].pc = "c_save" /\ rq'[t].id = id
            /\ id \notin fresh'
        BY <2>1, <2>6
      <3>2. QED
        BY <3>1, <2>6, <1>r
    <2>7. QED
      BY <2>0, <2>3, <2>4, <2>5, <2>6
  <1>4. CASE CreateSave(t) \/ CreateUndo(t)
    <2>0. /\ rq[t].id \in ContainerID /\ rq[t].pc \notin NoIDYet
          /\ UNCHANGED <<attach, task, taskIO, io, fresh>>
      BY <1>4, <1>i DEF CreateSave, CreateUndo, At, ctdVars, logVars
    <2>1. /\ \/ rq'[t].id = NoID /\ rq'[t].pc = "idle"
             \/ rq'[t].id = rq[t].id /\ rq'[t].pc = "c_undo"
          /\ \A u \in Thread \ {t} : rq'[u] = rq[u]
      BY <1>4, <1>r, GotoHops, ReturnLeaves DEF CreateSave, CreateUndo, Hops, Leaves
    <2>2. \A j \in ContainerID \ {rq[t].id} : byID'[j] = byID[j] /\ meta'[j] = meta[j]
      <3>1. CASE Reg!Save(rq[t].id, rq[t].c) /\ UNCHANGED meta
        BY <3>1, <2>0, SaveRegisters, RequestParts
      <3>2. CASE UNCHANGED byID
        BY <3>2, <1>4 DEF CreateSave, CreateUndo, TypeOK, ctdVars
      <3>3. QED
        BY <3>1, <3>2, <1>4 DEF CreateSave, CreateUndo, regVars, ctdVars
    <2>3. Frame(t, rq[t].id)
      BY <2>0, <2>1, <2>2, <1>s DEF Frame
    <2>4. NoID \notin fresh'
      BY <2>0, <1>r DEF TypeOK
    <2>5. Reg!Registered(rq[t].id) => byID'[rq[t].id] # Absent
      <3>1. CASE Reg!Save(rq[t].id, rq[t].c)
        BY <3>1, <2>0, SaveRegisters, RequestParts
      <3>2. CASE UNCHANGED byID
        BY <3>2 DEF Reg!Registered
      <3>3. QED
        BY <3>1, <3>2, <1>4 DEF CreateSave, CreateUndo, regVars
    <2>6. QED
      BY <2>0, <2>1, <2>2, <2>3, <2>4, <2>5, <1>r DEF Reg!Registered
  <1>5. QED
    BY <1>1, <1>2, <1>3, <1>4, <1>r DEF Create, Reg!Registered

\* Any other use case works on the container that it resolved.
LEMMA ResolveFrame ==
    ASSUME TypeOK, Solo, ~Overlapping, NEW t \in Thread, NEW id \in ContainerID, NEW pc \in PCs,
           pc \notin NoIDYet, NEW force \in BOOLEAN, NEW op, Resolve(t, op, id, pc, force),
           UNCHANGED <<regVars, used, attach, ctdVars, logVars, fresh, failed, loose>>
    PROVE  Frame(t, id) /\ rq[t].id = NoID /\ rq'[t].id = id /\ rq'[t].pc = pc
           /\ id \notin fresh /\ Settled(id) /\ byID' = byID /\ Reg!Registered(id)
           /\ rq'[t].c = byID[id]
  <1>1. /\ rq[t].pc = "idle" /\ Reg!Registered(id) /\ Settled(id)
        /\ rq'[t].pc = pc /\ rq'[t].id = id /\ rq'[t].c = byID[id]
        /\ \A u \in Thread \ {t} : rq'[u] = rq[u]
    BY ResolveCopies
  <1>2. rq[t].id = NoID /\ id \notin fresh
    BY <1>1 DEF Solo, NoIDYet
  <1>3. UNCHANGED <<byID, attach, meta, task, taskIO, io, fresh, failed>>
    BY DEF regVars, ctdVars, logVars
  <1>4. QED
    BY <1>1, <1>2, <1>3, PlainFrame DEF SameRuntime

\* What the later steps of a use case do to the control state.
Onward(t) ==
    /\ rq[t].id \in ContainerID /\ rq[t].pc \notin NoIDYet
    /\ Frame(t, rq[t].id) /\ fresh' = fresh
    /\ rq'[t].pc \in NoIDYet <=> rq'[t].id = NoID
    /\ rq'[t].id = NoID => rq'[t].pc = "idle"

\* ContainerStart (containers.go:250-354).
LEMMA StartFrame ==
    ASSUME TypeOK, Solo, NEW t \in Thread, Start(t), \A id \in ContainerID : ~StartResolve(t, id)
    PROVE  Onward(t) /\ rq[t].pc \in StartPC /\ meta' = meta
           /\ (Reg!Registered(rq[t].id) => byID'[rq[t].id] # Absent)
           /\ (rq'[t].id # NoID => rq'[t].pc \in StartPC)
  <1> DEFINE id == rq[t].id
  <1> USE DEF NoIDYet, StartPC
  <1>r. RqTypeOK
    BY DEF TypeOK, RqTypeOK
  <1>n. NoID \notin ContainerID
    BY ServiceValues
  <1>i. rq[t].id \in ContainerID \cup {NoID} /\ (rq[t].pc \in NoIDYet <=> rq[t].id = NoID)
    BY DEF Solo, TypeOK, Request
  <1>s. ASSUME NEW j \in ContainerID, j # rq[t].id, meta'[j] = meta[j] PROVE SameRuntime(j)
    BY <1>s, SoloHistory DEF SameRuntime
  <1>h. ASSUME rq[t].pc \in StartPC,
               \/ Leaves(t) \/ \E pc \in StartPC : Hops(t, pc),
               fresh' = fresh, meta' = meta, Reg!Registered(id) => byID'[id] # Absent,
               \A j \in ContainerID \ {id} : byID'[j] = byID[j] /\ task'[j] = task[j],
               \A j \in ContainerID \ {id} : attach'[j] = attach[j] /\ taskIO'[j] = taskIO[j],
               \A u \in Thread \ {t} : rq[u].id # id => io'[u] = io[u]
        PROVE  Onward(t) /\ rq[t].pc \in StartPC /\ meta' = meta
               /\ (Reg!Registered(rq[t].id) => byID'[rq[t].id] # Absent)
               /\ (rq'[t].id # NoID => rq'[t].pc \in StartPC)
    <2>1. id \in ContainerID /\ rq[t].pc \notin NoIDYet
      BY <1>i, <1>h
    <2>2. \/ rq'[t].id = NoID /\ rq'[t].pc = "idle" /\ \A u \in Thread \ {t} : rq'[u] = rq[u]
          \/ rq'[t].id = id /\ rq'[t].pc \in StartPC /\ \A u \in Thread \ {t} : rq'[u] = rq[u]
      BY <1>h DEF Leaves, Hops
    <2>3. Frame(t, id)
      BY <2>2, <1>h, <1>s DEF Frame
    <2>4. QED
      BY <2>1, <2>2, <2>3, <1>h, <1>n DEF Onward
  <1>1. CASE StartStatus(t) \/ StartPID(t) \/ StartAdopt(t) \/ StartRestore(t)
    <2>1. Leaves(t) \/ \E pc \in StartPC : Hops(t, pc)
      BY <1>1, <1>r, GotoHops, ReturnLeaves DEF StartStatus, StartPID, StartAdopt, StartRestore
    <2>2. UNCHANGED <<byID, attach, meta, task, taskIO, io, fresh>> /\ rq[t].pc \in StartPC
      BY <1>1 DEF StartStatus, StartPID, StartAdopt, StartRestore, regVars, ctdVars, logVars, At
    <2>3. QED
      BY <2>1, <2>2, <1>h DEF Reg!Registered
  <1>2. CASE StartOpenLog(t)
    <2>1. Leaves(t) \/ \E pc \in StartPC : Hops(t, pc)
      BY <1>2, <1>r, GotoHops, ReturnLeaves DEF StartOpenLog
    <2>2. /\ UNCHANGED <<byID, attach, meta, task, taskIO, fresh>> /\ rq[t].pc \in StartPC
          /\ \A u \in Thread \ {t} : io'[u] = io[u]
      BY <1>2 DEF StartOpenLog, regVars, ctdVars, At, TypeOK
    <2>3. QED
      BY <2>1, <2>2, <1>h DEF Reg!Registered
  <1>3. CASE StartDiscard(t) \/ StartNewTask(t) \/ StartRun(t) \/ StartUndo(t)
    <2>1. Leaves(t) \/ \E pc \in StartPC : Hops(t, pc)
      BY <1>3, <1>r, GotoHops, ReturnLeaves
      DEF StartDiscard, StartNewTask, StartRun, StartUndo, StartFails
    <2>2. UNCHANGED <<byID, attach, meta, fresh>> /\ rq[t].pc \in StartPC
      BY <1>3 DEF StartDiscard, StartNewTask, StartRun, StartUndo, regVars, At
    <2>3. id \in ContainerID
      BY <2>2, <1>i
    <2>4. \A j \in ContainerID \ {id} : task'[j] = task[j]
      BY <1>3, <2>3, StopTaskFrame DEF StartDiscard, StartNewTask, StartRun, StartUndo, TypeOK
    <2>5. /\ \A j \in ContainerID \ {id} : taskIO'[j] = taskIO[j]
          /\ \A u \in Thread \ {t} : rq[u].id # id => io'[u] = io[u]
      <3>1. CASE CloseSink(id)
        BY <3>1, <2>3, CloseSinkFrame
      <3>2. CASE UNCHANGED logVars
        BY <3>2 DEF logVars
      <3>3. CASE taskIO' = [taskIO EXCEPT ![id] = io[t]] /\ io' = [io EXCEPT ![t] = FALSE]
        BY <3>3 DEF TypeOK
      <3>4. QED
        BY <1>3, <3>1, <3>2, <3>3 DEF StartDiscard, StartNewTask, StartRun, StartUndo, StartFails
    <2>6. QED
      BY <2>1, <2>2, <2>4, <2>5, <1>h DEF Reg!Registered
  <1>4. CASE StartAdd(t)
    <2>1. \E pc \in StartPC : Hops(t, pc)
      BY <1>4, <1>r, GotoHops DEF StartAdd
    <2>2. /\ UNCHANGED <<byID, meta, task, taskIO, io, fresh>> /\ rq[t].pc \in StartPC
          /\ \A j \in ContainerID \ {id} : attach'[j] = attach[j]
      BY <1>4 DEF StartAdd, regVars, ctdVars, logVars, At, TypeOK
    <2>3. QED
      BY <2>1, <2>2, <1>h DEF Reg!Registered
  <1>5. CASE StartJoinFailed(t) \/ StartFinal(t)
    <2>1. \E pc \in StartPC : Hops(t, pc)
      BY <1>5, <1>r, GotoHops DEF StartJoinFailed, StartFinal
    <2>2. UNCHANGED <<byID, attach, meta, task, fresh>> /\ rq[t].pc \in StartPC
      BY <1>5 DEF StartJoinFailed, StartFinal, regVars, ctdVars, At
    <2>3. id \in ContainerID
      BY <2>2, <1>i
    <2>4. /\ \A j \in ContainerID \ {id} : taskIO'[j] = taskIO[j]
          /\ \A u \in Thread \ {t} : rq[u].id # id => io'[u] = io[u]
      <3>1. CASE CloseSink(id)
        BY <3>1, <2>3, CloseSinkFrame
      <3>2. CASE UNCHANGED logVars
        BY <3>2 DEF logVars
      <3>3. QED
        BY <1>5, <3>1, <3>2 DEF StartJoinFailed, StartFinal
    <2>5. QED
      BY <2>1, <2>2, <2>4, <1>h DEF Reg!Registered
  <1>6. CASE StartSaveExited(t) \/ StartMark(t)
    <2>1. Leaves(t)
      BY <1>6, <1>r, ReturnLeaves DEF StartSaveExited, StartMark
    <2>2. UNCHANGED <<attach, meta, task, taskIO, io, fresh>> /\ rq[t].pc \in StartPC
      BY <1>6 DEF StartSaveExited, StartMark, ctdVars, logVars, At
    <2>3. id \in ContainerID
      BY <2>2, <1>i
    <2>4. /\ \A j \in ContainerID \ {id} : byID'[j] = byID[j]
          /\ Reg!Registered(id) => byID'[id] # Absent
      BY <1>6, <2>3, SaveAsFrame DEF StartSaveExited, StartMark, State
    <2>5. QED
      BY <2>1, <2>2, <2>4, <1>h
  <1>7. QED
    BY <1>1, <1>2, <1>3, <1>4, <1>5, <1>6 DEF Start

\* ContainerStop and ContainerInspect (containers.go:357-382, service.go:262-322).
LEMMA LookFrame ==
    ASSUME TypeOK, Solo, NEW t \in Thread, Stop(t) \/ Inspect(t),
           \A id \in ContainerID : ~StopResolve(t, id) /\ ~InspectResolve(t, id)
    PROVE  /\ Onward(t) /\ UNCHANGED <<attach, used, meta>>
           /\ rq[t].pc \in StopPC \cup InspectPC
           /\ Reg!Registered(rq[t].id) => byID'[rq[t].id] # Absent
           /\ rq'[t].id # NoID => rq'[t].pc \in StopPC \cup InspectPC
  <1> DEFINE id == rq[t].id
  <1> USE DEF NoIDYet, StopPC, InspectPC
  <1>r. RqTypeOK
    BY DEF TypeOK, RqTypeOK
  <1>n. NoID \notin ContainerID
    BY ServiceValues
  <1>0. /\ rq[t].pc \in StopPC \cup InspectPC
        /\ UNCHANGED <<attach, used, meta, fresh>>
    BY DEF Stop, StopStop, StopRefresh, StopCloseLog, StopSave, Inspect, InspectRefresh, InspectSave,
           At, ctdVars
  <1>i. id \in ContainerID /\ rq[t].pc \notin NoIDYet
    BY <1>0 DEF Solo, TypeOK, Request
  <1>1. /\ \/ rq'[t].id = NoID /\ rq'[t].pc = "idle"
           \/ rq'[t].id = id /\ rq'[t].pc \in StopPC \cup InspectPC
        /\ \A u \in Thread \ {t} : rq'[u] = rq[u]
    <2>1. CASE Return(t)
      BY <2>1, <1>r, ReturnLeaves DEF Leaves
    <2>2. ASSUME NEW pc \in StopPC, Goto(t, pc) PROVE Hops(t, pc)
      BY <2>2, <1>r, GotoHops
    <2>3. ASSUME NEW s, rq' = [rq EXCEPT ![t].pc = "i_save", ![t].st = s]
          PROVE  rq'[t].id = id /\ rq'[t].pc = "i_save" /\ \A u \in Thread \ {t} : rq'[u] = rq[u]
      BY <2>3, <1>r DEF RqTypeOK, Request
    <2>4. \/ Return(t) \/ \E pc \in StopPC : Goto(t, pc)
          \/ \E s : rq' = [rq EXCEPT ![t].pc = "i_save", ![t].st = s]
      BY DEF Stop, StopStop, StopRefresh, StopCloseLog, StopSave, Inspect, InspectRefresh, InspectSave
    <2>5. QED
      BY <2>1, <2>2, <2>3, <2>4 DEF Hops
  <1>2. \A j \in ContainerID \ {id} : task'[j] = task[j]
    BY <1>i, StopTaskFrame
    DEF Stop, StopStop, StopRefresh, StopCloseLog, StopSave, Inspect, InspectRefresh, InspectSave,
        ctdVars
  <1>3. /\ \A j \in ContainerID \ {id} : taskIO'[j] = taskIO[j]
        /\ \A u \in Thread \ {t} : rq[u].id # id => io'[u] = io[u]
    <2>1. CASE CloseSink(id)
      BY <2>1, <1>i, CloseSinkFrame
    <2>2. CASE UNCHANGED logVars
      BY <2>2 DEF logVars
    <2>3. QED
      BY <2>1, <2>2
      DEF Stop, StopStop, StopRefresh, StopCloseLog, StopSave, Inspect, InspectRefresh, InspectSave
  <1>4. /\ \A j \in ContainerID \ {id} : byID'[j] = byID[j]
        /\ Reg!Registered(id) => byID'[id] # Absent
    <2>1. ASSUME NEW s \in State, SaveAs(t, s)
          PROVE  /\ \A j \in ContainerID \ {id} : byID'[j] = byID[j]
                 /\ Reg!Registered(id) => byID'[id] # Absent
      BY <2>1, <1>i, SaveAsFrame
    <2>2. CASE UNCHANGED regVars
      BY <2>2 DEF regVars, Reg!Registered
    <2>3. rq[t].st \in State /\ "exited" \in State
      BY RequestParts DEF State
    <2>4. QED
      BY <2>1, <2>2, <2>3
      DEF Stop, StopStop, StopRefresh, StopCloseLog, StopSave, Inspect, InspectRefresh, InspectSave
  <1>s. ASSUME NEW j \in ContainerID, j # rq[t].id, meta'[j] = meta[j] PROVE SameRuntime(j)
    BY <1>s, SoloHistory DEF SameRuntime
  <1>5. Frame(t, id)
    BY <1>0, <1>1, <1>2, <1>3, <1>4, <1>s DEF Frame
  <1>6. QED
    BY <1>0, <1>1, <1>4, <1>5, <1>i, <1>n DEF Onward

\* ContainerRemove (containers.go:384-422).
LEMMA RemoveFrame ==
    ASSUME TypeOK, Solo, NEW t \in Thread, Remove(t), \A id \in ContainerID : ~RemoveResolve(t, id)
    PROVE  /\ Onward(t) /\ rq[t].pc \in RemovePC
           /\ rq'[t].id # NoID => rq'[t].pc \in RemovePC
  <1> DEFINE id == rq[t].id
  <1> USE DEF NoIDYet, RemovePC
  <1>r. RqTypeOK
    BY DEF TypeOK, RqTypeOK
  <1>n. NoID \notin ContainerID
    BY ServiceValues
  <1>0. /\ rq[t].pc \in RemovePC /\ fresh' = fresh
    BY DEF Remove, RemoveStatus, RemoveStop, RemoveDisconnect, RemoveForget, RemoveFree, RemoveTask,
           RemoveMeta, RemoveSnapshot, RemoveUnregister, RemoveLogs, At
  <1>i. id \in ContainerID /\ rq[t].pc \notin NoIDYet
    BY <1>0 DEF Solo, TypeOK, Request
  <1>1. /\ \/ rq'[t].id = NoID /\ rq'[t].pc = "idle"
           \/ rq'[t].id = id /\ rq'[t].pc \in RemovePC
        /\ \A u \in Thread \ {t} : rq'[u] = rq[u]
    <2>1. CASE Return(t)
      BY <2>1, <1>r, ReturnLeaves DEF Leaves
    <2>2. ASSUME NEW pc \in RemovePC, Goto(t, pc) PROVE Hops(t, pc)
      BY <2>2, <1>r, GotoHops
    <2>3. ASSUME NEW s, rq' = [rq EXCEPT ![t].pc = "r_forget", ![t].al = s]
          PROVE  rq'[t].id = id /\ rq'[t].pc = "r_forget" /\ \A u \in Thread \ {t} : rq'[u] = rq[u]
      BY <2>3, <1>r DEF RqTypeOK, Request
    <2>4. \/ Return(t) \/ \E pc \in RemovePC : Goto(t, pc)
          \/ \E s : rq' = [rq EXCEPT ![t].pc = "r_forget", ![t].al = s]
      BY DEF Remove, RemoveStatus, RemoveStop, RemoveDisconnect, RemoveForget, RemoveFree, RemoveTask,
             RemoveMeta, RemoveSnapshot, RemoveUnregister, RemoveLogs
    <2>5. QED
      BY <2>1, <2>2, <2>3, <2>4 DEF Hops
  <1>2. \A j \in ContainerID \ {id} : task'[j] = task[j] /\ meta'[j] = meta[j]
    <2>1. CASE RemoveStop(t)
      BY <2>1, <1>i, StopTaskFrame DEF RemoveStop
    <2>2. CASE RemoveTask(t) \/ RemoveMeta(t)
      BY <2>2 DEF RemoveTask, RemoveMeta, TypeOK
    <2>3. QED
      BY <2>1, <2>2
      DEF Remove, RemoveStatus, RemoveDisconnect, RemoveForget, RemoveFree, RemoveSnapshot,
          RemoveUnregister, RemoveLogs, ctdVars
  <1>3. /\ \A j \in ContainerID \ {id} : taskIO'[j] = taskIO[j]
        /\ \A u \in Thread \ {t} : rq[u].id # id => io'[u] = io[u]
    <2>1. CASE CloseSink(id)
      BY <2>1, <1>i, CloseSinkFrame
    <2>2. CASE UNCHANGED logVars
      BY <2>2 DEF logVars
    <2>3. QED
      BY <2>1, <2>2
      DEF Remove, RemoveStatus, RemoveStop, RemoveDisconnect, RemoveForget, RemoveFree, RemoveTask,
          RemoveMeta, RemoveSnapshot, RemoveUnregister, RemoveLogs
  <1>4. \A j \in ContainerID \ {id} : byID'[j] = byID[j]
    <2>1. CASE Reg!Remove(id)
      BY <2>1 DEF Reg!Remove, TypeOK, Reg!RegTypeOK
    <2>2. CASE UNCHANGED regVars
      BY <2>2 DEF regVars
    <2>3. QED
      BY <2>1, <2>2
      DEF Remove, RemoveStatus, RemoveStop, RemoveDisconnect, RemoveForget, RemoveFree, RemoveTask,
          RemoveMeta, RemoveSnapshot, RemoveUnregister, RemoveLogs
  <1>5. \A j \in ContainerID \ {id} : attach'[j] = attach[j]
    BY DEF Remove, RemoveStatus, RemoveStop, RemoveDisconnect, RemoveForget, RemoveFree, RemoveTask,
           RemoveMeta, RemoveSnapshot, RemoveUnregister, RemoveLogs, TypeOK
  <1>s. ASSUME NEW j \in ContainerID, j # rq[t].id, meta'[j] = meta[j] PROVE SameRuntime(j)
    BY <1>s, SoloHistory DEF SameRuntime
  <1>6. Frame(t, id)
    BY <1>0, <1>1, <1>2, <1>3, <1>4, <1>5, <1>s DEF Frame
  <1>7. QED
    BY <1>0, <1>1, <1>6, <1>i, <1>n DEF Onward

\* A context that expires changes its request alone.
LEMMA ExpireFrame ==
    ASSUME TypeOK, Solo, NEW t \in Thread, Expire(t)
    PROVE  /\ UNCHANGED <<byID, byName, used, attach, meta, task, taskIO, io, fresh, failed, loose>>
           /\ rq'[t].pc = rq[t].pc /\ rq'[t].id = rq[t].id /\ rq'[t].done /\ rq'[t].c = rq[t].c
           /\ rq'[t].st = rq[t].st /\ rq'[t].al = rq[t].al
           /\ \A u \in Thread \ {t} : rq'[u] = rq[u]
           /\ Timeouts
  <1>1. rq' = [rq EXCEPT ![t] = [rq[t] EXCEPT !.done = TRUE]] /\ rq[t] \in Request
    BY DEF Expire, TypeOK
  <1>2. UNCHANGED <<byID, byName, used, attach, meta, task, taskIO, io, fresh, failed, loose>> /\ Timeouts
    BY DEF Expire, regVars, ctdVars, logVars
  <1>3. QED
    BY <1>1, <1>2 DEF Request, TypeOK

\* A step that works on its own container keeps the requests apart.
LEMMA SoloKept ==
    ASSUME TypeOK, Solo, NEW t \in Thread, NEW id, Frame(t, id),
           rq'[t].id # rq[t].id =>
               rq'[t].id = NoID \/ (rq'[t].id \notin fresh' /\ Settled(rq'[t].id)),
           rq'[t].pc \in NoIDYet <=> rq'[t].id = NoID,
           \A j \in ContainerID : byID'[j] # Absent => Reg!Registered(j) \/ j = rq[t].id
    PROVE  Solo'
  <1>1. \A u \in Thread \ {t} : rq'[u] = rq[u]
    BY DEF Frame
  <1>2. ASSUME NEW u \in Thread, NEW v \in Thread, u # v, rq'[u].id = rq'[v].id
        PROVE  rq'[u].id = NoID
    BY <1>1, <1>2 DEF Solo, Settled
  <1>3. ASSUME NEW j \in fresh'
        PROVE  byID'[j] = Absent /\ \A u \in Thread : rq'[u].id # j
    <2>1. j \in fresh /\ j \in ContainerID /\ j # NoID
      BY <1>3, ServiceValues DEF Frame, TypeOK
    <2>2. QED
      BY <1>1, <1>3, <2>1 DEF Solo, Reg!Registered
  <1>4. \A u \in Thread : rq'[u].pc \in NoIDYet <=> rq'[u].id = NoID
    BY <1>1 DEF Solo
  <1>5. QED
    BY <1>2, <1>3, <1>4 DEF Solo, Reg!Registered

\* The first step of a use case other than create.
Resolves(t, id) ==
    StartResolve(t, id) \/ StopResolve(t, id) \/ RemoveResolve(t, id) \/ InspectResolve(t, id)

\* A request leaves the places where it has no container only with a
\* container's ID, and never loses it; this holds whatever calls do behind a
\* lost reply.
LEMMA HasIDStep ==
    ASSUME TypeOK, HasID, [Next]_vars
    PROVE  HasID'
  <1> USE DEF NoIDYet
  <1>r. RqTypeOK
    BY DEF TypeOK, RqTypeOK
  <1>1. ASSUME NEW t \in Thread, \A u \in Thread \ {t} : rq'[u] = rq[u],
               rq'[t].pc \notin NoIDYet => rq'[t].id \in ContainerID
        PROVE  HasID'
    BY <1>1 DEF HasID
  <1>2. ASSUME NEW t \in Thread, NEW pc, Goto(t, pc), pc \in NoIDYet \/ rq[t].pc \notin NoIDYet
        PROVE  HasID'
    <2>1. Hops(t, pc)
      BY <1>r, <1>2, GotoHops
    <2> QED
      BY <2>1, <1>1, <1>2 DEF Hops, HasID
  <1>3. ASSUME NEW t \in Thread, Return(t) PROVE HasID'
    <2>1. Leaves(t)
      BY <1>r, <1>3, ReturnLeaves
    <2> QED
      BY <2>1, <1>1 DEF Leaves
  <1>4. ASSUME NEW t \in Thread, NEW id \in ContainerID, Resolves(t, id) PROVE HasID'
    <2>1. ASSUME NEW op, NEW pc \in PCs, NEW force \in BOOLEAN, Resolve(t, op, id, pc, force)
          PROVE  HasID'
      BY <2>1, <1>1, ResolveCopies
    <2>2. {"s_status", "p_stop", "r_status", "i_refresh"} \subseteq PCs
      BY DEF PCs, StartPC, StopPC, RemovePC, InspectPC
    <2> QED
      BY <1>4, <2>1, <2>2 DEF Resolves, StartResolve, StopResolve, RemoveResolve, InspectResolve
  <1>5. ASSUME NEW t \in Thread, Create(t) PROVE HasID'
    <2>1. ASSUME NEW n \in Name \cup {NoName}, NEW keys \in PortRequests, NEW net \in NetModes,
                 CreateValidate(t, n, keys, net)
          PROVE  HasID'
      BY <2>1, <1>1, <1>r DEF CreateValidate, Idle, RqTypeOK
    <2>2. CASE CreateAllocate(t) \/ CreateFind(t)
      BY <2>2, <1>2, <1>3 DEF CreateAllocate, CreateFind
    <2>3. CASE CreateNew(t)
      <3>1. ASSUME NEW id \in fresh, rq' = [rq EXCEPT ![t].pc = "c_save", ![t].id = id]
            PROVE  HasID'
        <4>1. rq'[t].id = id /\ id \in ContainerID /\ \A u \in Thread \ {t} : rq'[u] = rq[u]
          BY <3>1, <1>r DEF RqTypeOK, Request, TypeOK
        <4> QED
          BY <4>1, <1>1
      <3> QED
        BY <2>3, <3>1, <1>3 DEF CreateNew
    <2>4. CASE CreateSave(t) \/ CreateUndo(t)
      BY <2>4, <1>2, <1>3 DEF CreateSave, CreateUndo, At
    <2> QED
      BY <1>5, <2>1, <2>2, <2>3, <2>4 DEF Create
  <1>6. ASSUME NEW t \in Thread, Start(t), \A id \in ContainerID : ~StartResolve(t, id)
        PROVE  HasID'
    <2>1. CASE StartStatus(t) \/ StartOpenLog(t) \/ StartDiscard(t) \/ StartNewTask(t) \/ StartRun(t)
      BY <2>1, <1>2, <1>3
      DEF StartStatus, StartOpenLog, StartDiscard, StartNewTask, StartRun, StartFails, At
    <2>2. CASE StartPID(t) \/ StartAdopt(t) \/ StartAdd(t) \/ StartRestore(t) \/ StartJoinFailed(t)
      <3>1. rq[t].pc \notin NoIDYet /\ \E pc : Goto(t, pc)
        BY <2>2 DEF StartPID, StartAdopt, StartAdd, StartRestore, StartJoinFailed, At
      <3> QED
        BY <3>1, <1>2
    <2>3. CASE StartUndo(t) \/ StartFinal(t) \/ StartSaveExited(t) \/ StartMark(t)
      BY <2>3, <1>2, <1>3 DEF StartUndo, StartFinal, StartSaveExited, StartMark, At
    <2> QED
      BY <1>6, <2>1, <2>2, <2>3 DEF Start
  <1>7. ASSUME NEW t \in Thread, Stop(t) \/ Inspect(t),
               \A id \in ContainerID : ~StopResolve(t, id) /\ ~InspectResolve(t, id)
        PROVE  HasID'
    <2>1. CASE StopStop(t) \/ StopRefresh(t) \/ StopCloseLog(t) \/ StopSave(t) \/ InspectSave(t)
      BY <2>1, <1>2, <1>3 DEF StopStop, StopRefresh, StopCloseLog, StopSave, InspectSave, At
    <2>2. CASE InspectRefresh(t)
      <3>1. ASSUME NEW s, rq' = [rq EXCEPT ![t].pc = "i_save", ![t].st = s] PROVE HasID'
        <4>1. rq'[t].id = rq[t].id /\ \A u \in Thread \ {t} : rq'[u] = rq[u]
          BY <3>1, <1>r DEF RqTypeOK, Request
        <4>2. rq[t].id \in ContainerID
          BY <2>2 DEF InspectRefresh, At, HasID
        <4> QED
          BY <4>1, <4>2, <1>1
      <3> QED
        BY <2>2, <3>1, <1>3 DEF InspectRefresh
    <2> QED
      BY <1>7, <2>1, <2>2 DEF Stop, Inspect
  <1>8. ASSUME NEW t \in Thread, Remove(t), \A id \in ContainerID : ~RemoveResolve(t, id)
        PROVE  HasID'
    <2>1. CASE RemoveDisconnect(t)
      <3>1. ASSUME rq' = [rq EXCEPT ![t].pc = "r_forget", ![t].al = attach[rq[t].id]] PROVE HasID'
        <4>1. rq'[t].id = rq[t].id /\ \A u \in Thread \ {t} : rq'[u] = rq[u]
          BY <3>1, <1>r DEF RqTypeOK, Request
        <4>2. rq[t].id \in ContainerID
          BY <2>1 DEF RemoveDisconnect, At, HasID
        <4> QED
          BY <4>1, <4>2, <1>1
      <3> QED
        BY <2>1, <3>1, <1>2 DEF RemoveDisconnect, At
    <2>2. CASE RemoveStatus(t) \/ RemoveStop(t) \/ RemoveForget(t) \/ RemoveFree(t)
      BY <2>2, <1>2, <1>3 DEF RemoveStatus, RemoveStop, RemoveForget, RemoveFree, At
    <2>3. CASE RemoveTask(t) \/ RemoveMeta(t) \/ RemoveSnapshot(t) \/ RemoveUnregister(t) \/ RemoveLogs(t)
      BY <2>3, <1>2, <1>3
      DEF RemoveTask, RemoveMeta, RemoveSnapshot, RemoveUnregister, RemoveLogs, At
    <2> QED
      BY <1>8, <2>1, <2>2, <2>3 DEF Remove
  <1>9. ASSUME NEW t \in Thread, Expire(t) PROVE HasID'
    <2>1. \A u \in Thread : rq'[u].pc = rq[u].pc /\ rq'[u].id = rq[u].id
      BY <1>9, <1>r DEF Expire, RqTypeOK, Request
    <2> QED
      BY <2>1 DEF HasID
  <1>10. ASSUME rq' = rq PROVE HasID'
    BY <1>10 DEF HasID
  <1> QED
    BY <1>4, <1>5, <1>6, <1>7, <1>8, <1>9, <1>10 DEF Next, Resolves, TaskExit, vars

\* The state of the use cases has its types, however requests overlap and
\* expire and whatever the calls did whose replies are lost: a request works
\* on a container's ID from the moment it has one (containers.go:34-106).
THEOREM ServiceTypeOK == Spec => []TypeOK
  <1>1. Init => TypeOK /\ HasID
    BY InitInv DEF Inv, OwnerInv
  <1>2. TypeOK /\ HasID /\ [Next]_vars => (TypeOK /\ HasID)'
    <2> SUFFICES ASSUME TypeOK, HasID, [Next]_vars PROVE TypeOK'
      BY HasIDStep
    <2>1. CASE UNCHANGED vars
      <3>1. UNCHANGED <<byID, byName, used, attach, meta, task, sink, taskIO, io, rq, fresh,
                        failed, loose>>
        BY <2>1 DEF vars
      <3> QED
        BY <3>1 DEF TypeOK, Reg!RegTypeOK
    <2>2. ASSUME NEW id \in ContainerID, TaskExit(id) PROVE TypeOK'
      BY <2>2, Unchanged DEF TypeOK, TaskExit, LogTypeOK
    <2> QED
      BY <2>1, <2>2, CreateTyped, StartTyped, StopTyped, RemoveTyped, OtherTyped DEF Next
  <1> QED
    BY <1>1, <1>2, PTL DEF Spec

\* A request that resolves its container becomes the only one that works on it.
LEMMA ResolvesFrame ==
    ASSUME TypeOK, Solo, ~Overlapping, NEW t \in Thread, NEW id \in ContainerID, Resolves(t, id)
    PROVE  /\ Frame(t, id) /\ rq[t].id = NoID /\ rq'[t].id = id
           /\ rq'[t].pc \in {"s_status", "p_stop", "r_status", "i_refresh"}
           /\ id \notin fresh /\ Settled(id) /\ Reg!Registered(id)
           /\ rq'[t].c = byID[id] /\ ~rq'[t].done
           /\ UNCHANGED <<byID, byName, used, attach, meta, task, taskIO, io, fresh, failed, loose>>
           /\ TypeOK'
  <1>1. UNCHANGED <<byID, byName, used, attach, meta, task, taskIO, io, fresh, failed, loose>>
        /\ UNCHANGED <<regVars, used, attach, ctdVars, logVars, fresh, failed, loose>>
    BY DEF Resolves, StartResolve, StopResolve, RemoveResolve, InspectResolve, regVars, ctdVars, logVars
  <1>2. PICK pc \in {"s_status", "p_stop", "r_status", "i_refresh"}, force \in BOOLEAN,
             op \in {"start", "stop", "remove", "inspect"} : Resolve(t, op, id, pc, force)
    BY DEF Resolves, StartResolve, StopResolve, RemoveResolve, InspectResolve
  <1>3. pc \in PCs /\ pc \notin NoIDYet
    BY <1>2 DEF PCs, NoIDYet, StartPC, StopPC, RemovePC, InspectPC
  <1>4. TypeOK'
    BY <1>1, <1>2, <1>3, ResolveTyped
  <1>5. ~rq'[t].done
    BY <1>2, <1>3, ResolveCopies
  <1>6. Frame(t, id) /\ rq[t].id = NoID /\ rq'[t].id = id /\ rq'[t].pc = pc
        /\ id \notin fresh /\ Settled(id) /\ Reg!Registered(id) /\ rq'[t].c = byID[id]
    BY <1>1, <1>2, <1>3, ResolveFrame
  <1>7. QED
    BY <1>1, <1>2, <1>4, <1>5, <1>6

\* TaskExit changes one task.
LEMMA ExitFrame ==
    ASSUME TypeOK, Solo, NEW id \in ContainerID, TaskExit(id)
    PROVE  /\ UNCHANGED <<byID, byName, used, attach, meta, taskIO, io, rq, fresh, failed, loose>>
           /\ task[id] = "running" /\ task'[id] = "stopped"
           /\ \A j \in ContainerID \ {id} : task'[j] = task[j]
           /\ TypeOK' /\ Solo'
  <1>1. /\ UNCHANGED <<byID, byName, used, attach, meta, sink, taskIO, io, rq, fresh, failed,
                     loose>>
        /\ task[id] = "running" /\ task' = [task EXCEPT ![id] = "stopped"]
    BY DEF TaskExit, regVars, logVars
  <1>2. TypeOK'
    BY <1>1 DEF TypeOK, Reg!RegTypeOK
  <1>3. Solo'
    BY <1>1 DEF Solo, Reg!Registered
  <1>4. QED
    BY <1>1, <1>2, <1>3 DEF TypeOK

\* Every step is one of these.
LEMMA StepCases ==
    ASSUME [Next]_vars
    PROVE  \/ UNCHANGED vars
           \/ \E t \in Thread :
                 \/ Create(t) \/ Expire(t)
                 \/ \E id \in ContainerID : Resolves(t, id)
                 \/ Start(t) /\ \A id \in ContainerID : ~StartResolve(t, id)
                 \/ /\ Stop(t) \/ Inspect(t)
                    /\ \A id \in ContainerID : ~StopResolve(t, id) /\ ~InspectResolve(t, id)
                 \/ Remove(t) /\ \A id \in ContainerID : ~RemoveResolve(t, id)
           \/ \E id \in ContainerID : TaskExit(id)
  BY DEF Next, Resolves

\* Requests stay apart, for every other choice of what may go wrong.
LEMMA SoloStep ==
    ASSUME TypeOK, Solo, ~Overlapping, [Next]_vars
    PROVE  TypeOK' /\ Solo'
  <1>h. HasID
    BY DEF Solo, HasID, TypeOK, Request
  <1>n. NoID \notin ContainerID
    BY ServiceValues
  <1>1. CASE UNCHANGED vars
    BY <1>1 DEF vars, TypeOK, Reg!RegTypeOK, Solo, Reg!Registered
  <1>2. ASSUME NEW t \in Thread, Create(t) PROVE TypeOK' /\ Solo'
    <2>1. TypeOK'
      BY <1>2, <1>h, CreateTyped
    <2>2. Frame(t, Focus(t))
      BY <1>2, CreateFrame
    <2>3. /\ rq'[t].id # rq[t].id => rq'[t].id \in fresh \cup {NoID} /\ rq'[t].id \notin fresh'
          /\ rq'[t].pc \in NoIDYet <=> rq'[t].id = NoID
          /\ \A j \in ContainerID : byID'[j] # Absent => Reg!Registered(j) \/ j = rq[t].id
      BY <1>2, CreateFrame DEF Reg!Registered
    <2>4. \A j \in fresh : Settled(j)
      BY DEF Solo, Settled
    <2>5. QED
      BY <2>1, <2>2, <2>3, <2>4, SoloKept
  <1>3. ASSUME NEW t \in Thread, Expire(t) PROVE TypeOK' /\ Solo'
    <2>1. TypeOK'
      BY <1>3, <1>h, OtherTyped
    <2>2. QED
      BY <1>3, <2>1, ExpireFrame DEF Solo, Reg!Registered
  <1>4. ASSUME NEW t \in Thread, NEW id \in ContainerID, Resolves(t, id) PROVE TypeOK' /\ Solo'
    <2>1. /\ Frame(t, id) /\ rq[t].id = NoID /\ rq'[t].id = id
          /\ rq'[t].pc \in {"s_status", "p_stop", "r_status", "i_refresh"}
          /\ id \notin fresh /\ Settled(id) /\ byID' = byID /\ fresh' = fresh /\ TypeOK'
      BY <1>4, ResolvesFrame
    <2>2. rq'[t].pc \notin NoIDYet /\ rq'[t].id # NoID
      BY <2>1, <1>n DEF NoIDYet
    <2>3. QED
      BY <2>1, <2>2, SoloKept DEF Reg!Registered
  <1>5. ASSUME NEW t \in Thread, Onward(t), TypeOK',
               rq'[t].id # NoID => rq'[t].id = rq[t].id
        PROVE  TypeOK' /\ Solo'
    <2>1. Frame(t, rq[t].id) /\ (rq'[t].pc \in NoIDYet <=> rq'[t].id = NoID)
      BY <1>5 DEF Onward
    <2>2. \A j \in ContainerID : byID'[j] # Absent => Reg!Registered(j) \/ j = rq[t].id
      BY <2>1 DEF Frame, Reg!Registered
    <2>3. QED
      BY <1>5, <2>1, <2>2, SoloKept
  <1>6. ASSUME NEW t \in Thread, Start(t), \A id \in ContainerID : ~StartResolve(t, id)
        PROVE  TypeOK' /\ Solo'
    BY <1>6, <1>h, <1>5, StartFrame, StartTyped DEF Onward, Frame
  <1>7. ASSUME NEW t \in Thread, Stop(t) \/ Inspect(t),
               \A id \in ContainerID : ~StopResolve(t, id) /\ ~InspectResolve(t, id)
        PROVE  TypeOK' /\ Solo'
    BY <1>7, <1>h, <1>5, LookFrame, StopTyped, OtherTyped DEF Onward, Frame
  <1>8. ASSUME NEW t \in Thread, Remove(t), \A id \in ContainerID : ~RemoveResolve(t, id)
        PROVE  TypeOK' /\ Solo'
    BY <1>8, <1>h, <1>5, RemoveFrame, RemoveTyped DEF Onward, Frame
  <1>9. ASSUME NEW id \in ContainerID, TaskExit(id) PROVE TypeOK' /\ Solo'
    BY <1>9, ExitFrame
  <1>10. QED
    BY <1>1, <1>2, <1>3, <1>4, <1>6, <1>7, <1>8, <1>9, StepCases

\* At the start nobody works on anything.
LEMMA SoloInit == Init => TypeOK /\ Solo
  <1> SUFFICES ASSUME Init PROVE TypeOK /\ Solo
    OBVIOUS
  <1>1. \A t \in Thread : rq[t].pc = "idle" /\ rq[t].id = NoID
    BY IdleRequest DEF Init
  <1>2. TypeOK
    BY InitInv DEF Inv
  <1>3. Solo
    BY <1>1, ServiceValues DEF Init, Reg!RegInit, Reg!Registered, Solo, NoIDYet
  <1>4. QED
    BY <1>2, <1>3

-----------------------------------------------------------------------------
(* Attachments.                                                            *)

\* Past its disconnect, a removal has no attachment left to lose track of,
\* unless that failed.
Disconnected == {"r_free", "r_task", "r_meta", "r_snap", "r_unreg"}
AttachInv ==
    /\ \A id \in ContainerID :
          attach[id] # Absent => Reg!Registered(id) \/ "Disconnect" \in failed[id]
    /\ \A t \in Thread : rq[t].pc \in StartPC => Reg!Registered(rq[t].id)
    /\ \A t \in Thread : rq[t].pc \in Disconnected =>
          attach[rq[t].id] = Absent \/ "Disconnect" \in failed[rq[t].id]

\* A step of one request keeps AttachInv if it does so for its own container.
LEMMA AttachKept ==
    ASSUME TypeOK, Solo, AttachInv, NEW t \in Thread, NEW id, Frame(t, id),
           id \in ContainerID =>
              (attach'[id] # Absent => byID'[id] # Absent \/ "Disconnect" \in failed'[id]),
           rq'[t].pc \in StartPC => byID'[rq'[t].id] # Absent,
           rq'[t].pc \in Disconnected =>
              attach'[rq'[t].id] = Absent \/ "Disconnect" \in failed'[rq'[t].id],
           id = NoID \/ \A u \in Thread \ {t} : rq[u].id # id
    PROVE  AttachInv'
  <1>1. \A j \in ContainerID :
           attach'[j] # Absent => byID'[j] # Absent \/ "Disconnect" \in failed'[j]
    BY DEF Frame, SameRuntime, AttachInv, Reg!Registered
  <1>2. ASSUME NEW u \in Thread \ {t}
        PROVE  /\ rq'[u].pc \in StartPC => byID'[rq'[u].id] # Absent
               /\ rq'[u].pc \in Disconnected =>
                     attach'[rq'[u].id] = Absent \/ "Disconnect" \in failed'[rq'[u].id]
    <2>1. rq'[u] = rq[u]
      BY DEF Frame
    <2>2. rq[u].pc \in StartPC \cup Disconnected => rq[u].id \in ContainerID \ {id}
      BY ServiceValues DEF Solo, TypeOK, Request, StartPC, Disconnected, NoIDYet
    <2>3. QED
      BY <2>1, <2>2 DEF Frame, SameRuntime, AttachInv, Reg!Registered
  <1>3. QED
    BY <1>1, <1>2 DEF AttachInv, Reg!Registered

\* Attachments belong to registered containers after every step.
LEMMA AttachStep ==
    ASSUME TypeOK, Solo, AttachInv, ~Overlapping, [Next]_vars
    PROVE  AttachInv'
  <1>n. NoID \notin ContainerID
    BY ServiceValues
  <1>s. ASSUME NEW t \in Thread, Onward(t)
        PROVE  rq[t].id \in ContainerID /\ \A u \in Thread \ {t} : rq[u].id # rq[t].id
    BY <1>s, <1>n DEF Onward, Solo
  <1>g. ASSUME NEW t \in Thread,
               Create(t) \/ Start(t) \/ Stop(t) \/ Remove(t) \/ Inspect(t) \/ Expire(t)
        PROVE  \A id \in ContainerID : failed[id] \subseteq failed'[id]
    BY <1>g, SoloHistory
  <1>1. CASE UNCHANGED vars
    BY <1>1 DEF vars, AttachInv, Reg!Registered
  <1>2. ASSUME NEW t \in Thread, Create(t) PROVE AttachInv'
    <2>1. /\ Frame(t, Focus(t)) /\ attach' = attach /\ rq'[t].pc \in {"idle"} \cup CreatePC
          /\ \A j \in ContainerID : Reg!Registered(j) => byID'[j] # Absent
          /\ rq'[t].id # rq[t].id => rq'[t].id \in fresh \cup {NoID}
      BY <1>2, CreateFrame DEF Reg!Registered
    <2>2. rq'[t].pc \notin StartPC \cup Disconnected
      BY <2>1 DEF CreatePC, StartPC, Disconnected
    <2>3. Focus(t) = NoID \/ \A u \in Thread \ {t} : rq[u].id # Focus(t)
      BY <2>1 DEF Focus, Solo
    <2>4. QED
      BY <1>2, <1>g, <2>1, <2>2, <2>3, AttachKept DEF AttachInv
  <1>3. ASSUME NEW t \in Thread, Expire(t) PROVE AttachInv'
    BY <1>3, ExpireFrame DEF AttachInv, Reg!Registered
  <1>4. ASSUME NEW t \in Thread, NEW id \in ContainerID, Resolves(t, id) PROVE AttachInv'
    <2>1. /\ Frame(t, id) /\ rq'[t].id = id /\ Settled(id) /\ Reg!Registered(id)
          /\ rq'[t].pc \in {"s_status", "p_stop", "r_status", "i_refresh"}
          /\ UNCHANGED <<byID, attach, failed>>
      BY <1>4, ResolvesFrame
    <2>2. rq'[t].pc \notin Disconnected /\ byID'[id] # Absent
      BY <2>1 DEF Disconnected, Reg!Registered
    <2>3. QED
      BY <2>1, <2>2, AttachKept DEF Settled
  <1>5. ASSUME NEW t \in Thread, Start(t), \A id \in ContainerID : ~StartResolve(t, id)
        PROVE  AttachInv'
    <2>1. /\ Onward(t) /\ rq[t].pc \in StartPC
          /\ Reg!Registered(rq[t].id) => byID'[rq[t].id] # Absent
          /\ rq'[t].id # NoID => rq'[t].pc \in StartPC
      BY <1>5, StartFrame
    <2>2. byID'[rq[t].id] # Absent
      BY <2>1 DEF AttachInv
    <2>3. rq'[t].pc \notin Disconnected /\ (rq'[t].pc \in StartPC => rq'[t].id = rq[t].id)
      BY <2>1 DEF Onward, Frame, NoIDYet, StartPC, Disconnected
    <2>4. Frame(t, rq[t].id)
      BY <2>1 DEF Onward
    <2>5. QED
      BY <2>1, <2>2, <2>3, <2>4, <1>s, AttachKept
  <1>6. ASSUME NEW t \in Thread, Stop(t) \/ Inspect(t),
               \A id \in ContainerID : ~StopResolve(t, id) /\ ~InspectResolve(t, id)
        PROVE  AttachInv'
    <2>1. /\ Onward(t) /\ attach' = attach
          /\ Reg!Registered(rq[t].id) => byID'[rq[t].id] # Absent
          /\ rq'[t].id # NoID => rq'[t].pc \in StopPC \cup InspectPC
      BY <1>6, LookFrame
    <2>2. rq'[t].pc \notin Disconnected \cup StartPC
      BY <2>1 DEF Onward, NoIDYet, StartPC, Disconnected, StopPC, InspectPC
    <2>3. Frame(t, rq[t].id) /\ rq[t].id \in ContainerID
      BY <2>1 DEF Onward
    <2>4. attach'[rq[t].id] # Absent =>
             byID'[rq[t].id] # Absent \/ "Disconnect" \in failed'[rq[t].id]
      BY <1>6, <1>g, <2>1, <2>3 DEF AttachInv
    <2>5. QED
      BY <2>1, <2>2, <2>3, <2>4, <1>s, AttachKept
  <1>7. ASSUME NEW t \in Thread, Remove(t), \A id \in ContainerID : ~RemoveResolve(t, id)
        PROVE  AttachInv'
    <2> DEFINE id == rq[t].id
    <2>1. Onward(t) /\ rq[t].pc \in RemovePC /\ (rq'[t].id # NoID => rq'[t].pc \in RemovePC)
      BY <1>7, RemoveFrame
    <2>2. Frame(t, id) /\ id \in ContainerID /\ RqTypeOK
      BY <2>1 DEF Onward, TypeOK, RqTypeOK
    <2>3. rq'[t].pc \notin StartPC
      BY <2>1 DEF Onward, NoIDYet, StartPC, RemovePC
    <2>g. failed[id] \subseteq failed'[id]
      BY <1>7, <1>g, <2>2
    <2>4. ASSUME attach'[id] # Absent => byID'[id] # Absent \/ "Disconnect" \in failed'[id],
                 rq'[t].pc \in Disconnected =>
                    attach'[rq'[t].id] = Absent \/ "Disconnect" \in failed'[rq'[t].id]
          PROVE  AttachInv'
      BY <2>1, <2>2, <2>3, <2>4, <1>s, AttachKept
    <2>5. CASE RemoveStatus(t) \/ RemoveStop(t) \/ RemoveLogs(t)
      <3>1. rq'[t].pc \notin Disconnected
        BY <2>2, <2>5, GotoHops, ReturnLeaves
        DEF RemoveStatus, RemoveStop, RemoveLogs, Hops, Leaves, Disconnected
      <3>2. UNCHANGED <<byID, attach>>
        BY <2>5 DEF RemoveStatus, RemoveStop, RemoveLogs, regVars
      <3>3. QED
        BY <2>2, <2>4, <2>g, <3>1, <3>2 DEF AttachInv, Reg!Registered
    <2>6. CASE RemoveDisconnect(t)
      <3>1. UNCHANGED <<byID, attach>>
        BY <2>6 DEF RemoveDisconnect, regVars
      <3>2. rq'[t].pc \in Disconnected =>
               attach'[rq'[t].id] = Absent \/ "Disconnect" \in failed'[rq'[t].id]
        <4>1. CASE Goto(t, "r_free") /\ (attach[id] = Absent \/ Adrift(t, "Disconnect"))
          <5>1. Adrift(t, "Disconnect") => "Disconnect" \in failed'[id]
            BY <2>2 DEF Adrift, Unanswered, TypeOK
          <5>2. QED
            BY <2>2, <4>1, <3>1, <5>1, GotoHops DEF Hops
        <4>2. CASE rq' = [rq EXCEPT ![t].pc = "r_forget", ![t].al = attach[rq[t].id]]
          BY <2>2, <4>2 DEF RqTypeOK, Request, Disconnected
        <4>3. QED
          BY <2>6, <4>1, <4>2 DEF RemoveDisconnect
      <3>3. QED
        BY <2>2, <2>4, <2>g, <3>1, <3>2 DEF AttachInv, Reg!Registered
    <2>7. CASE RemoveForget(t)
      <3>1. attach'[id] = Absent /\ Hops(t, "r_free")
        BY <2>2, <2>7, GotoHops DEF RemoveForget, TypeOK
      <3>2. QED
        BY <2>4, <3>1 DEF Hops
    <2>8. CASE RemoveFree(t) \/ RemoveTask(t) \/ RemoveMeta(t) \/ RemoveSnapshot(t)
      <3>1. UNCHANGED <<byID, attach>> /\ rq[t].pc \in Disconnected
        BY <2>8 DEF RemoveFree, RemoveTask, RemoveMeta, RemoveSnapshot, regVars, At, Disconnected
      <3>2. \/ rq'[t].pc = "idle"
            \/ rq'[t].id = id
        BY <2>2, <2>8, GotoHops, ReturnLeaves
        DEF RemoveFree, RemoveTask, RemoveMeta, RemoveSnapshot, Hops, Leaves
      <3>3. rq'[t].pc \in Disconnected =>
               attach'[rq'[t].id] = Absent \/ "Disconnect" \in failed'[rq'[t].id]
        BY <2>g, <3>1, <3>2 DEF AttachInv, Disconnected
      <3>4. QED
        BY <2>2, <2>4, <2>g, <3>1, <3>3 DEF AttachInv, Reg!Registered
    <2>9. CASE RemoveUnregister(t)
      <3>1. attach[id] = Absent \/ "Disconnect" \in failed[id]
        BY <2>9 DEF RemoveUnregister, At, AttachInv, Disconnected
      <3>2. attach' = attach
        BY <2>9 DEF RemoveUnregister
      <3>3. rq'[t].pc \in {"idle", "r_logs"}
        BY <2>2, <2>9, GotoHops, ReturnLeaves DEF RemoveUnregister, Hops, Leaves
      <3>4. QED
        BY <2>2, <2>4, <2>g, <3>1, <3>2, <3>3 DEF AttachInv, Reg!Registered, Disconnected
    <2>10. QED
      BY <1>7, <2>5, <2>6, <2>7, <2>8, <2>9 DEF Remove
  <1>8. ASSUME NEW id \in ContainerID, TaskExit(id) PROVE AttachInv'
    BY <1>8, ExitFrame DEF AttachInv, Reg!Registered
  <1>9. QED
    BY <1>1, <1>2, <1>3, <1>4, <1>5, <1>6, <1>7, <1>8, StepCases

\* With one request per container, an attachment the CNI adapter tracks always
\* belongs to a registered container, or to one whose disconnect failed
\* (containers.go:406-410), although requests expire, every other call may fail
\* and processes exit at any time.
THEOREM ServiceAttachmentsOwned ==
    ASSUME ~Overlapping
    PROVE  Spec => []AttachmentsOwned
  <1> DEFINE I == TypeOK /\ Solo /\ AttachInv
  <1>1. Init => I
    <2>1. Init => AttachInv
      BY IdleRequest, ServiceValues
      DEF Init, Reg!RegInit, AttachInv, StartPC, Disconnected
    <2>2. QED
      BY <2>1, SoloInit
  <1>2. I /\ [Next]_vars => I'
    BY SoloStep, AttachStep
  <1>3. I => AttachmentsOwned
    BY DEF AttachInv, AttachmentsOwned, Failed
  <1>4. QED
    BY <1>1, <1>2, <1>3, PTL DEF Spec

-----------------------------------------------------------------------------
(* The registry, the runtime and the log of a container.                   *)

\* Places of a request by what is known of its container there: the task has
\* been started; it is not running; there is none; the record is the stored one.
Launched == {"s_pid", "s_adopt", "s_add", "s_restore", "s_failed", "s_final", "s_mark"}
Deleted == {"s_task", "r_meta", "r_snap", "r_unreg", "r_logs", "c_save", "c_undo"}
Down == {"s_exited", "p_refresh", "p_close", "p_save"} \cup Deleted
Unread == {"s_open", "s_discard"}
Stored == (StartPC \cup StopPC \cup InspectPC \cup RemovePC) \ {"r_logs"}
WithMeta == Stored \ {"r_snap", "r_unreg"}

\* The failures after which a container's log is closed under a running task,
\* its metadata is gone, or its record says created of a running task.
LogLost(id) == "Status" \in failed[id] \/ "Start" \in failed[id] \/ "Stop" \in failed[id]
MetaLost(id) == "RemoveSnapshot" \in failed[id] \/ "Unregister" \in failed[id]
StateLost(id) == "Start" \in failed[id] \/ "Stop" \in failed[id] \/ "Save" \in failed[id]

\* A container that request t works on.
Busy(t) ==
    /\ rq[t].pc \in {"c_save", "c_undo", "r_logs"} => ~Reg!Registered(rq[t].id)
    /\ rq[t].pc = "c_save" => meta[rq[t].id] # Absent
    /\ rq[t].pc \in Stored => Reg!Registered(rq[t].id) /\ rq[t].c = byID[rq[t].id]
    /\ rq[t].pc \in WithMeta => meta[rq[t].id] # Absent \/ MetaLost(rq[t].id)
    /\ IF rq[t].pc = "s_run" THEN task[rq[t].id] = "created" /\ taskIO[rq[t].id]
                             ELSE task[rq[t].id] # "created" \/ "Start" \in failed[rq[t].id]
    /\ rq[t].pc \in Down => task[rq[t].id] # "running"
    /\ rq[t].pc \in Unread => task[rq[t].id] # "running" \/ "Status" \in failed[rq[t].id]
    /\ rq[t].pc \in Deleted => task[rq[t].id] = "none"
    /\ rq[t].pc \in {"s_discard", "s_task"} => io[t]
    /\ (task[rq[t].id] = "running" /\ rq[t].pc # "s_undo") => taskIO[rq[t].id] \/ LogLost(rq[t].id)
    /\ (/\ Reg!Registered(rq[t].id) /\ byID[rq[t].id].data.state = "created"
        /\ task[rq[t].id] = "running")
            => rq[t].pc \in Launched \cup {"s_undo"} \/ StateLost(rq[t].id)
    /\ (rq[t].pc = "i_save" /\ rq[t].st = "created") => task[rq[t].id] # "running"

\* A container that no request works on.
Rest(id) ==
    /\ task[id] # "created" \/ "Start" \in failed[id]
    /\ task[id] = "running" => taskIO[id] \/ LogLost(id)
    /\ Reg!Registered(id) =>
          /\ meta[id] # Absent \/ MetaLost(id)
          /\ byID[id].data.state = "created" => task[id] # "running" \/ StateLost(id)

\* Every named container is found under its name, so a save of it goes through.
NameIndex ==
    \A id \in ContainerID :
        (Reg!Registered(id) /\ byID[id].name \in Name) => byName[byID[id].name] = id

InStep ==
    /\ \A t \in Thread : rq[t].id # NoID => Busy(t)
    /\ \A id \in ContainerID : Settled(id) => Rest(id)
    /\ NameIndex

\* registry.Save keeps the index right (registry.go:114-150).
LEMMA SaveKeepsIndex ==
    ASSUME TypeOK, NameIndex, NEW id \in ContainerID, NEW c \in Reg!Container, Reg!Save(id, c)
    PROVE  NameIndex'
  <1> SUFFICES ASSUME NEW j \in ContainerID, byID'[j] # Absent, byID'[j].name \in Name
               PROVE  byName'[byID'[j].name] = j
    BY DEF NameIndex, Reg!Registered
  <1>1. /\ byID'[id] = c /\ \A i \in ContainerID \ {id} : byID'[i] = byID[i]
        /\ byName' = Reg!Reindexed(id, byID[id], c.name)
    BY DEF Reg!Save, TypeOK, Reg!RegTypeOK
  <1>2. CASE j = id
    BY <1>1, <1>2 DEF Reg!Reindexed
  <1>3. CASE j # id
    <2> DEFINE m == byID[j].name
    <2>1. m \in Name /\ byName[m] = j /\ byID'[j].name = m /\ j # NoID
      BY <1>1, <1>3, ServiceValues DEF NameIndex, Reg!Registered
    <2>2. m # c.name
      BY <1>3, <2>1 DEF Reg!Save, Reg!NameConflict, Reg!NameInUse
    <2>3. ~(byID[id] # Absent /\ m = byID[id].name)
      BY <1>3, <2>1 DEF NameIndex, Reg!Registered
    <2>4. byName'[m] = byName[m]
      BY <1>1, <2>1, <2>2, <2>3 DEF Reg!Reindexed
    <2>5. QED
      BY <2>1, <2>4
  <1>4. QED
    BY <1>2, <1>3

\* registry.Remove keeps it as well (registry.go:86-112).
LEMMA RemoveKeepsIndex ==
    ASSUME TypeOK, NameIndex, NEW id \in ContainerID, Reg!Remove(id)
    PROVE  NameIndex' /\ byID'[id] = Absent
  <1>1. /\ byID'[id] = Absent /\ \A i \in ContainerID \ {id} : byID'[i] = byID[i]
        /\ byName' = Reg!Reindexed(id, byID[id], NoName)
    BY DEF Reg!Remove, TypeOK, Reg!RegTypeOK
  <1>2. ASSUME NEW j \in ContainerID, byID'[j] # Absent, byID'[j].name \in Name
        PROVE  byName'[byID'[j].name] = j
    <2> DEFINE m == byID[j].name
    <2>1. j # id /\ m \in Name /\ byName[m] = j /\ byID'[j].name = m
      BY <1>1, <1>2 DEF NameIndex, Reg!Registered
    <2>2. m # NoName
      BY <2>1, ServiceValues
    <2>3. ~(byID[id] # Absent /\ m = byID[id].name)
      BY <2>1 DEF NameIndex, Reg!Registered
    <2>4. byName'[m] = byName[m]
      BY <1>1, <2>1, <2>2, <2>3 DEF Reg!Reindexed
    <2>5. QED
      BY <2>1, <2>4
  <1>3. QED
    BY <1>1, <1>2 DEF NameIndex, Reg!Registered

\* Service.save of an up-to-date copy goes through and changes the state alone,
\* or its failure is logged and nothing changes.
LEMMA SaveOutcome ==
    ASSUME TypeOK, NameIndex, NEW t \in Thread, NEW s \in State, SaveAs(t, s),
           NEW id \in ContainerID, id = rq[t].id, Reg!Registered(id), rq[t].c = byID[id]
    PROVE  /\ NameIndex' /\ byID'[id] # Absent
           /\ byID'[id].data.ports = byID[id].data.ports
           /\ byID'[id].data.net = byID[id].data.net
           /\ \A j \in ContainerID \ {id} : byID'[j] = byID[j]
           /\ \/ byID'[id].data.state = s /\ UNCHANGED <<failed, loose>>
              \/ byID' = byID /\ Adrift(t, "Save")
  <1> DEFINE c == [byID[id] EXCEPT !.data.state = s]
  <1>1. byID[id] \in Reg!Container
    BY DEF TypeOK, Reg!RegTypeOK, Reg!Registered
  <1>2. /\ c \in Reg!Container /\ c.name = byID[id].name /\ c.data.state = s
        /\ c.data.ports = byID[id].data.ports /\ c.data.net = byID[id].data.net
    BY <1>1 DEF Reg!Container, Data
  <1>3. \/ Reg!Save(id, c) /\ UNCHANGED <<failed, loose>>
        \/ UNCHANGED regVars /\ Adrift(t, "Save")
    BY DEF SaveAs
  <1>4. CASE Reg!Save(id, c) /\ UNCHANGED <<failed, loose>>
    <2>1. byID'[id] = c /\ byID'[id] # Absent /\ \A j \in ContainerID \ {id} : byID'[j] = byID[j]
      <3> HIDE DEF c
      <3> QED
        BY <1>2, <1>4, SaveRegisters DEF Reg!Save, TypeOK, Reg!RegTypeOK
    <2>2. NameIndex'
      <3> HIDE DEF c
      <3> QED
        BY <1>2, <1>4, SaveKeepsIndex
    <2>3. QED
      BY <1>2, <1>4, <2>1, <2>2
  <1>5. CASE UNCHANGED regVars /\ Adrift(t, "Save")
    <2>1. UNCHANGED <<byID, byName>>
      BY <1>5 DEF regVars
    <2>2. QED
      BY <1>5, <2>1 DEF NameIndex, Reg!Registered
  <1>6. QED
    BY <1>3, <1>4, <1>5

\* A step that works on its own container keeps InStep if it keeps it there.
LEMMA InStepKept ==
    ASSUME TypeOK, Solo, FreshUnknown, InStep, NEW t \in Thread, NEW id, Frame(t, id),
           id \in ContainerID \cup {NoID},
           id = NoID \/ \A u \in Thread \ {t} : rq[u].id # id,
           NameIndex',
           rq'[t].id # NoID => Busy(t)',
           (id \in ContainerID /\ rq'[t].id # id) => Rest(id)'
    PROVE  InStep'
  <1> USE DEF LogLost, MetaLost, StateLost
  <1>f. \A u \in Thread \ {t} : rq'[u] = rq[u]
    BY DEF Frame
  <1>1. ASSUME NEW u \in Thread, rq'[u].id # NoID PROVE Busy(u)'
    <2>1. CASE u = t
      BY <1>1, <2>1
    <2>2. CASE u # t
      <3>1. /\ rq'[u] = rq[u] /\ rq[u].id \in ContainerID \ {id} /\ Busy(u)
            /\ rq[u].id \notin fresh
        BY <1>1, <1>f, <2>2, ServiceValues DEF InStep, TypeOK, Request, FreshUnknown
      <3>2. /\ byID'[rq[u].id] = byID[rq[u].id] /\ task'[rq[u].id] = task[rq[u].id]
            /\ taskIO'[rq[u].id] = taskIO[rq[u].id] /\ meta'[rq[u].id] = meta[rq[u].id]
            /\ io'[u] = io[u] /\ failed'[rq[u].id] = failed[rq[u].id]
        BY <2>2, <3>1 DEF Frame, SameRuntime
      <3>3. QED
        BY <3>1, <3>2 DEF Busy, Reg!Registered
    <2>3. QED
      BY <2>1, <2>2
  <1>2. ASSUME NEW j \in ContainerID, \A u \in Thread : rq'[u].id # j PROVE Rest(j)'
    <2>1. CASE j = id
      BY <1>2, <2>1
    <2>2. CASE j # id
      <3>1. Settled(j)
        BY <1>2, <1>f, <2>2, ServiceValues DEF Settled, Frame
      <3>2. Rest(j)
        BY <3>1 DEF InStep
      <3>3. byID'[j] = byID[j] /\ task'[j] = task[j] /\ taskIO'[j] = taskIO[j]
        BY <2>2 DEF Frame
      <3>4. CASE j \in fresh
        BY <3>3, <3>4 DEF Rest, FreshUnknown, Reg!Registered
      <3>5. CASE j \notin fresh
        <4>1. meta'[j] = meta[j] /\ failed'[j] = failed[j]
          BY <2>2, <3>5 DEF Frame, SameRuntime
        <4>2. QED
          BY <3>2, <3>3, <4>1 DEF Rest, Reg!Registered
      <3>6. QED
        BY <3>4, <3>5
    <2>3. QED
      BY <2>1, <2>2
  <1>3. QED
    BY <1>1, <1>2 DEF InStep, Settled

\* ContainerCreate (containers.go:34-106).
LEMMA CreateInStep ==
    ASSUME TypeOK, Solo, FreshUnknown, InStep, NEW t \in Thread, Create(t)
    PROVE  InStep'
  <1>r. RqTypeOK /\ NoID \notin ContainerID
    BY ServiceValues DEF TypeOK, RqTypeOK
  <1>f. PICK f \in ContainerID \cup {NoID} :
            f = Focus(t) /\ Frame(t, f) /\ (f = NoID \/ \A u \in Thread \ {t} : rq[u].id # f)
    <2>1. Frame(t, Focus(t)) /\ Focus(t) \in ContainerID \cup {NoID}
      BY CreateFrame
    <2>2. Focus(t) = NoID \/ \A u \in Thread \ {t} : rq[u].id # Focus(t)
      BY CreateFrame DEF Focus, Solo
    <2>3. QED
      BY <2>1, <2>2
  <1>k. ASSUME NameIndex', rq'[t].id # NoID => Busy(t)',
               (f \in ContainerID /\ rq'[t].id # f) => Rest(f)'
        PROVE  InStep'
    BY <1>f, <1>k, InStepKept
  <1>1. ASSUME NEW n \in Name \cup {NoName}, NEW keys \in PortRequests, NEW net \in NetModes,
               CreateValidate(t, n, keys, net)
        PROVE  InStep'
    <2>1. rq'[t].id = NoID /\ rq[t].id = NoID
      BY <1>1, <1>r DEF CreateValidate, At, Idle, RqTypeOK, Solo, NoIDYet
    <2>2. UNCHANGED <<byID, byName>>
      BY <1>1 DEF CreateValidate, regVars
    <2>3. QED
      BY <1>f, <1>k, <1>r, <2>1, <2>2 DEF InStep, NameIndex, Reg!Registered, Focus
  <1>2. CASE CreateAllocate(t) \/ CreateFind(t)
    <2>1. rq'[t].id = NoID /\ rq[t].id = NoID
      BY <1>2, <1>r, GotoHops, ReturnLeaves
      DEF CreateAllocate, CreateFind, At, Solo, NoIDYet, Hops, Leaves
    <2>2. UNCHANGED <<byID, byName>>
      BY <1>2 DEF CreateAllocate, CreateFind, regVars
    <2>3. QED
      BY <1>f, <1>k, <1>r, <2>1, <2>2 DEF InStep, NameIndex, Reg!Registered, Focus
  <1>3. CASE CreateNew(t)
    <2>0. rq[t].id = NoID /\ UNCHANGED <<byID, byName, task, taskIO, io>>
      BY <1>3 DEF CreateNew, At, Solo, NoIDYet, regVars, logVars
    <2>1. NameIndex'
      BY <2>0 DEF InStep, NameIndex, Reg!Registered
    <2>2. CASE Return(t)
      <3>1. rq'[t].id = NoID
        BY <2>2, <1>r, ReturnLeaves DEF Leaves
      <3>2. QED
        BY <1>f, <1>k, <1>r, <2>0, <2>1, <3>1 DEF Focus
    <2>3. CASE \E i \in fresh : /\ meta' = [meta EXCEPT ![i] = rq[t].c.name]
                                /\ rq' = [rq EXCEPT ![t].pc = "c_save", ![t].id = i]
      <3>1. PICK i \in fresh : /\ meta' = [meta EXCEPT ![i] = rq[t].c.name]
                               /\ rq' = [rq EXCEPT ![t].pc = "c_save", ![t].id = i]
        BY <2>3
      <3>2. i \in ContainerID /\ task'[i] = "none" /\ byID'[i] = Absent
        BY <2>0, <3>1 DEF FreshUnknown, TypeOK, Reg!Registered
      <3>3. meta'[i] # Absent
        BY <3>1, <3>2, RequestParts, ServiceValues DEF TypeOK
      <3>4. rq'[t].pc = "c_save" /\ rq'[t].id = i
        BY <3>1, <1>r DEF RqTypeOK, Request
      <3>5. Busy(t)'
        BY <3>2, <3>3, <3>4
        DEF Busy, Reg!Registered, Stored, WithMeta, Unread, StartPC, StopPC, InspectPC, RemovePC, Down, Deleted
      <3>6. f = i
        BY <1>f, <1>r, <2>0, <3>4 DEF Focus
      <3>7. QED
        BY <1>k, <2>1, <3>4, <3>5, <3>6
    <2>4. QED
      BY <1>3, <2>2, <2>3 DEF CreateNew
  <1>4. CASE CreateSave(t) \/ CreateUndo(t)
    <2>0. /\ rq[t].id \in ContainerID /\ rq[t].pc \in {"c_save", "c_undo"}
          /\ UNCHANGED <<task, taskIO, io>>
      BY <1>4, <1>r DEF CreateSave, CreateUndo, At, Solo, NoIDYet, TypeOK, Request, ctdVars, logVars
    <2>1. /\ f = rq[t].id /\ task[f] = "none" /\ ~Reg!Registered(f)
          /\ (rq[t].pc = "c_save" => meta[f] # Absent)
      BY <1>f, <1>r, <2>0 DEF Focus, InStep, Busy, Deleted
    <2>2. CASE CreateSave(t) /\ Reg!Save(rq[t].id, rq[t].c) /\ Return(t)
      <3>1. rq'[t].id = NoID
        BY <2>2, <1>r, ReturnLeaves DEF Leaves
      <3>2. meta'[f] # Absent
        BY <2>1, <2>2 DEF CreateSave, At, ctdVars
      <3>3. Rest(f)'
        BY <2>0, <2>1, <3>2 DEF Rest
      <3>4. NameIndex'
        BY <2>0, <2>2, SaveKeepsIndex, RequestParts DEF InStep
      <3>5. QED
        BY <1>k, <3>1, <3>3, <3>4
    <2>3. CASE CreateSave(t) /\ Goto(t, "c_undo") /\ UNCHANGED regVars
      <3>1. rq'[t].pc = "c_undo" /\ rq'[t].id = f
        BY <2>1, <2>3, <1>r, GotoHops DEF Hops
      <3>2. UNCHANGED <<byID, byName>>
        BY <2>3 DEF regVars
      <3>3. Busy(t)'
        BY <2>0, <2>1, <3>1, <3>2
        DEF Busy, Reg!Registered, Stored, WithMeta, Unread, StartPC, StopPC, InspectPC, RemovePC, Down, Deleted
      <3>4. QED
        BY <1>k, <3>1, <3>2, <3>3 DEF InStep, NameIndex, Reg!Registered
    <2>4. CASE CreateUndo(t)
      <3>1. rq'[t].id = NoID
        BY <2>4, <1>r, ReturnLeaves DEF CreateUndo, Leaves
      <3>2. UNCHANGED <<byID, byName>>
        BY <2>4 DEF CreateUndo, regVars
      <3>3. Rest(f)'
        BY <2>0, <2>1, <3>2 DEF Rest, Reg!Registered
      <3>4. QED
        BY <1>k, <3>1, <3>2, <3>3 DEF InStep, NameIndex, Reg!Registered
    <2>5. QED
      BY <1>4, <2>2, <2>3, <2>4 DEF CreateSave
  <1>5. QED
    BY <1>1, <1>2, <1>3, <1>4 DEF Create

\* The first step of the other use cases.
LEMMA ResolveInStep ==
    ASSUME TypeOK, Solo, FreshUnknown, InStep, ~Overlapping, NEW t \in Thread,
           NEW id \in ContainerID, Resolves(t, id)
    PROVE  InStep'
  <1>1. /\ Frame(t, id) /\ rq'[t].id = id /\ Settled(id) /\ Reg!Registered(id)
        /\ rq'[t].pc \in {"s_status", "p_stop", "r_status", "i_refresh"}
        /\ rq'[t].c = byID[id]
        /\ UNCHANGED <<byID, byName, meta, task, taskIO, io, failed>>
    BY ResolvesFrame
  <1>2. Rest(id)
    BY <1>1 DEF InStep
  <1>3. Busy(t)'
    BY <1>1, <1>2
    DEF Busy, Rest, Reg!Registered, Stored, StartPC, StopPC, InspectPC, RemovePC, Down, Deleted, Launched,
        Unread, LogLost, MetaLost, StateLost
  <1>4. NameIndex'
    BY <1>1 DEF InStep, NameIndex, Reg!Registered
  <1>5. QED
    BY <1>1, <1>3, <1>4, InStepKept DEF Settled

\* A later step of a use case.
LEMMA OnwardKept ==
    ASSUME TypeOK, Solo, FreshUnknown, InStep, NEW t \in Thread, NEW id, id = rq[t].id, Onward(t),
           NameIndex', rq'[t].id # NoID => Busy(t)', rq'[t].id = NoID => Rest(id)'
    PROVE  InStep'
  <1>1. id \in ContainerID /\ Frame(t, id) /\ \A u \in Thread \ {t} : rq[u].id # id
    BY ServiceValues DEF Onward, Solo
  <1>2. rq'[t].id \in {id, NoID}
    BY <1>1 DEF Frame
  <1>3. QED
    BY <1>1, <1>2, InStepKept

\* closeLogSink, seen from the container it is for.
LEMMA CloseSinkOwn ==
    ASSUME TypeOK, NEW id \in ContainerID, CloseSink(id)
    PROVE  taskIO'[id] = FALSE
  BY DEF TypeOK, CloseSink

\* ContainerStart up to the running task (containers.go:284-306).
LEMMA LaunchInStep ==
    ASSUME TypeOK, Solo, FreshUnknown, InStep, NEW t \in Thread,
           StartStatus(t) \/ StartOpenLog(t) \/ StartDiscard(t) \/ StartNewTask(t) \/ StartRun(t)
    PROVE  InStep'
  <1>a. PICK id : id = rq[t].id
    OBVIOUS
  <1>o. Onward(t) /\ Start(t) /\ rq[t].pc \in StartPC /\ meta' = meta /\ id \in ContainerID
    <2>1. Start(t)
      BY DEF Start
    <2>2. rq[t].pc # "idle"
      BY DEF At, StartStatus, StartOpenLog, StartDiscard, StartNewTask, StartRun
    <2>3. \A i \in ContainerID : ~StartResolve(t, i)
      BY <2>2 DEF StartResolve, Resolve, At
    <2>4. QED
      BY <1>a, <2>1, <2>3, StartFrame DEF Onward
  <1>g. failed[id] \subseteq failed'[id]
    BY <1>o, SoloHistory
  <1>r. RqTypeOK
    BY DEF TypeOK, RqTypeOK
  <1>b. Busy(t) /\ Reg!Registered(id) /\ rq[t].c = byID[id] /\ NameIndex
    BY <1>a, <1>o, ServiceValues DEF InStep, Busy, Stored, StartPC, StopPC, InspectPC, RemovePC
  <1>n. id # NoID
    BY <1>o, ServiceValues
  <1>u. ASSUME NEW call, Adrift(t, call) \/ Unanswered(rq[t].id, call) PROVE call \in failed'[id]
    BY <1>a, <1>o, <1>u DEF Adrift, Unanswered, TypeOK
  <1> USE DEF Stored, WithMeta, Unread, StartPC, StopPC, InspectPC, RemovePC, Down, Deleted, Launched,
              LogLost, MetaLost, StateLost
  <1>k. ASSUME UNCHANGED <<byID, byName>>,
               rq'[t].id # NoID => Busy(t)', rq'[t].id = NoID => Rest(id)'
        PROVE  InStep'
    <2>1. NameIndex'
      BY <1>k, <1>b DEF NameIndex, Reg!Registered
    <2>2. QED
      BY <1>k, <1>a, <1>o, <2>1, OnwardKept
  <1>1. CASE StartStatus(t)
    <2>0. UNCHANGED <<byID, byName, task, taskIO, io>> /\ rq[t].pc = "s_status"
      BY <1>1 DEF StartStatus, regVars, ctdVars, logVars, At
    <2>1. CASE Return(t)
      <3>1. Rest(id)'
        BY <1>a, <1>b, <1>g, <1>o, <2>0 DEF Busy, Rest, Reg!Registered
      <3>2. QED
        BY <1>k, <1>r, <2>0, <2>1, <3>1, ReturnLeaves DEF Leaves
    <2>2. CASE Goto(t, "s_open") /\ (task[id] # "running" \/ "Status" \in failed'[id])
      <3>1. Hops(t, "s_open")
        BY <1>r, <2>2, GotoHops
      <3>2. Busy(t)'
        BY <1>a, <1>b, <1>g, <1>o, <2>0, <2>2, <3>1 DEF Busy, Hops, Reg!Registered
      <3>3. QED
        BY <1>a, <1>k, <1>n, <2>0, <3>1, <3>2 DEF Hops
    <2>3. QED
      BY <1>1, <1>a, <1>u, <2>1, <2>2 DEF StartStatus, Status
  <1>2. CASE StartOpenLog(t)
    <2>0. UNCHANGED <<byID, byName, task, taskIO>> /\ rq[t].pc = "s_open"
      BY <1>2 DEF StartOpenLog, regVars, ctdVars, At
    <2>1. CASE Return(t)
      <3>1. Rest(id)'
        BY <1>a, <1>b, <1>g, <1>o, <2>0 DEF Busy, Rest, Reg!Registered
      <3>2. QED
        BY <1>k, <1>r, <2>0, <2>1, <3>1, ReturnLeaves DEF Leaves
    <2>2. CASE Goto(t, "s_discard") /\ io' = [io EXCEPT ![t] = TRUE]
      <3>1. Hops(t, "s_discard") /\ io'[t]
        BY <1>r, <2>2, GotoHops DEF TypeOK
      <3>2. Busy(t)'
        BY <1>a, <1>b, <1>g, <1>o, <2>0, <3>1 DEF Busy, Hops, Reg!Registered
      <3>3. QED
        BY <1>a, <1>k, <1>n, <2>0, <3>1, <3>2 DEF Hops
    <2>3. QED
      BY <1>2, <2>1, <2>2 DEF StartOpenLog
  <1>3. CASE StartDiscard(t)
    <2>0. UNCHANGED <<byID, byName>> /\ rq[t].pc = "s_discard" /\ io[t]
      BY <1>3, <1>a, <1>b DEF StartDiscard, At, Busy, regVars
    <2>1. CASE task' = [task EXCEPT ![id] = "none"] /\ Goto(t, "s_task") /\ UNCHANGED logVars
      <3>1. task'[id] = "none" /\ UNCHANGED <<taskIO, io>> /\ Hops(t, "s_task")
        BY <1>o, <1>r, <2>1, GotoHops DEF TypeOK, logVars
      <3>2. Busy(t)'
        BY <1>a, <1>b, <1>g, <1>o, <2>0, <3>1 DEF Busy, Hops, Reg!Registered
      <3>3. QED
        BY <1>a, <1>k, <1>n, <2>0, <3>1, <3>2 DEF Hops
    <2>2. CASE Return(t) /\ UNCHANGED task
      <3>1. Rest(id)'
        BY <1>a, <1>b, <1>g, <1>o, <2>0, <2>2 DEF Busy, Rest, Reg!Registered
      <3>2. QED
        BY <1>k, <1>r, <2>0, <2>2, <3>1, ReturnLeaves DEF Leaves
    <2>3. QED
      BY <1>3, <1>a, <2>1, <2>2 DEF StartDiscard, StartFails
  <1>4. CASE StartNewTask(t)
    <2>0. UNCHANGED <<byID, byName>> /\ rq[t].pc = "s_task" /\ task[id] = "none" /\ io[t]
      BY <1>4, <1>a, <1>b DEF StartNewTask, At, Busy, regVars
    <2>1. CASE /\ task' = [task EXCEPT ![id] = "created"] /\ Goto(t, "s_run")
               /\ taskIO' = [taskIO EXCEPT ![id] = io[t]]
      <3>1. task'[id] = "created" /\ taskIO'[id] /\ Hops(t, "s_run")
        BY <1>o, <1>r, <2>0, <2>1, GotoHops DEF TypeOK
      <3>2. Busy(t)'
        BY <1>a, <1>b, <1>g, <1>o, <2>0, <3>1 DEF Busy, Hops, Reg!Registered
      <3>3. QED
        BY <1>a, <1>k, <1>n, <2>0, <3>1, <3>2 DEF Hops
    <2>2. CASE Return(t) /\ UNCHANGED task
      <3>1. Rest(id)'
        BY <1>a, <1>b, <1>g, <1>o, <2>0, <2>2 DEF Busy, Rest, Reg!Registered
      <3>2. QED
        BY <1>k, <1>r, <2>0, <2>2, <3>1, ReturnLeaves DEF Leaves
    <2>3. QED
      BY <1>4, <1>a, <2>1, <2>2 DEF StartNewTask, StartFails
  <1>5. CASE StartRun(t)
    <2>0. UNCHANGED <<byID, byName>> /\ rq[t].pc = "s_run" /\ task[id] = "created" /\ taskIO[id]
      BY <1>5, <1>a, <1>b DEF StartRun, At, Busy, regVars
    <2>1. CASE task' = [task EXCEPT ![id] = "running"] /\ Goto(t, "s_pid") /\ UNCHANGED logVars
      <3>1. task'[id] = "running" /\ UNCHANGED <<taskIO, io>> /\ Hops(t, "s_pid")
        BY <1>o, <1>r, <2>1, GotoHops DEF TypeOK, logVars
      <3>2. Busy(t)'
        BY <1>a, <1>b, <1>g, <1>o, <2>0, <3>1 DEF Busy, Hops, Reg!Registered
      <3>3. QED
        BY <1>a, <1>k, <1>n, <2>0, <3>1, <3>2 DEF Hops
    <2>2. CASE Return(t) /\ (task'[id] = "none" \/ "Start" \in failed'[id])
      <3>1. Rest(id)'
        BY <1>a, <1>b, <1>g, <1>o, <2>0, <2>2 DEF Busy, Rest, Reg!Registered
      <3>2. QED
        BY <1>k, <1>r, <2>0, <2>2, <3>1, ReturnLeaves DEF Leaves
    <2>3. QED
      BY <1>5, <1>a, <1>o, <1>u, <2>1, <2>2 DEF StartRun, StartFails, TypeOK
  <1>6. QED
    BY <1>1, <1>2, <1>3, <1>4, <1>5

\* ContainerStart from the running task on (containers.go:306-354).
LEMMA JoinInStep ==
    ASSUME TypeOK, Solo, FreshUnknown, InStep, NEW t \in Thread,
           \/ StartPID(t) \/ StartAdopt(t) \/ StartAdd(t) \/ StartRestore(t) \/ StartJoinFailed(t)
           \/ StartUndo(t) \/ StartFinal(t) \/ StartSaveExited(t) \/ StartMark(t)
    PROVE  InStep'
  <1>a. PICK id : id = rq[t].id
    OBVIOUS
  <1>o. Onward(t) /\ Start(t) /\ rq[t].pc \in StartPC /\ meta' = meta /\ id \in ContainerID
    <2>1. Start(t)
      BY DEF Start
    <2>2. rq[t].pc # "idle"
      BY DEF At, StartPID, StartAdopt, StartAdd, StartRestore, StartJoinFailed, StartUndo,
             StartFinal, StartSaveExited, StartMark
    <2>3. \A i \in ContainerID : ~StartResolve(t, i)
      BY <2>2 DEF StartResolve, Resolve, At
    <2>4. QED
      BY <1>a, <2>1, <2>3, StartFrame DEF Onward
  <1>g. failed[id] \subseteq failed'[id]
    BY <1>o, SoloHistory
  <1>r. RqTypeOK
    BY DEF TypeOK, RqTypeOK
  <1>b. Busy(t) /\ Reg!Registered(id) /\ rq[t].c = byID[id] /\ NameIndex
    BY <1>a, <1>o, ServiceValues DEF InStep, Busy, Stored, StartPC, StopPC, InspectPC, RemovePC
  <1>n. id # NoID
    BY <1>o, ServiceValues
  <1>u. ASSUME NEW call, Adrift(t, call) \/ Unanswered(rq[t].id, call) PROVE call \in failed'[id]
    BY <1>a, <1>o, <1>u DEF Adrift, Unanswered, TypeOK
  <1> USE DEF Stored, WithMeta, Unread, StartPC, StopPC, InspectPC, RemovePC, Down, Deleted, Launched,
              LogLost, MetaLost, StateLost
  <1>k. ASSUME UNCHANGED <<byID, byName>>,
               rq'[t].id # NoID => Busy(t)', rq'[t].id = NoID => Rest(id)'
        PROVE  InStep'
    <2>1. NameIndex'
      BY <1>k, <1>b DEF NameIndex, Reg!Registered
    <2>2. QED
      BY <1>k, <1>a, <1>o, <2>1, OnwardKept
  <1>2. CASE StartPID(t) \/ StartAdopt(t) \/ StartAdd(t) \/ StartRestore(t)
    <2>0. UNCHANGED <<byID, byName, task, taskIO, io>>
          /\ rq[t].pc \in {"s_pid", "s_adopt", "s_add", "s_restore"}
      BY <1>2 DEF StartPID, StartAdopt, StartAdd, StartRestore, regVars, ctdVars, logVars, At
    <2>1. PICK pc \in Launched : Hops(t, pc)
      BY <1>2, <1>r, GotoHops DEF StartPID, StartAdopt, StartAdd, StartRestore
    <2>2. Busy(t)'
      BY <1>a, <1>b, <1>g, <1>o, <2>0, <2>1 DEF Busy, Hops, Reg!Registered
    <2>3. QED
      BY <1>a, <1>k, <1>n, <2>0, <2>1, <2>2 DEF Hops
  <1>3. CASE StartJoinFailed(t)
    <2>0. UNCHANGED <<byID, byName, task>> /\ rq[t].pc = "s_failed"
      BY <1>3 DEF StartJoinFailed, regVars, ctdVars, At
    <2>1. CASE Goto(t, "s_final") /\ UNCHANGED logVars
      <3>1. Hops(t, "s_final") /\ UNCHANGED <<taskIO, io>>
        BY <1>r, <2>1, GotoHops DEF logVars
      <3>2. Busy(t)'
        BY <1>a, <1>b, <1>g, <1>o, <2>0, <3>1 DEF Busy, Hops, Reg!Registered
      <3>3. QED
        BY <1>a, <1>k, <1>n, <2>0, <3>1, <3>2 DEF Hops
    <2>2. CASE Goto(t, "s_undo")
      <3>1. Hops(t, "s_undo")
        BY <1>r, <2>2, GotoHops
      <3>2. Busy(t)'
        BY <1>a, <1>b, <1>g, <1>o, <2>0, <3>1 DEF Busy, Hops, Reg!Registered
      <3>3. QED
        BY <1>a, <1>k, <1>n, <2>0, <3>1, <3>2 DEF Hops
    <2>3. QED
      BY <1>3, <2>1, <2>2 DEF StartJoinFailed
  <1>4. CASE StartUndo(t)
    <2>0. UNCHANGED <<byID, byName>> /\ rq[t].pc = "s_undo" /\ Leaves(t)
      BY <1>4, <1>r, ReturnLeaves DEF StartUndo, regVars, At
    <2>1. \/ task'[id] = IF task[id] = "running" THEN "stopped" ELSE task[id]
          \/ "Stop" \in failed'[id] /\ UNCHANGED task
      BY <1>4, <1>a, <1>o, <1>u, StopTaskFrame DEF StartUndo
    <2>2. Rest(id)'
      BY <1>a, <1>b, <1>g, <1>o, <2>0, <2>1 DEF Rest, Busy, Reg!Registered
    <2>3. QED
      BY <1>k, <2>0, <2>2 DEF Leaves
  <1>5. CASE StartFinal(t)
    <2>0. UNCHANGED <<byID, byName, task>> /\ rq[t].pc = "s_final"
      BY <1>5 DEF StartFinal, regVars, ctdVars, At
    <2>1. CASE Status(id) = "exited" /\ Goto(t, "s_exited")
      <3>1. Hops(t, "s_exited") /\ task[id] # "running"
        BY <1>r, <2>1, GotoHops DEF Status
      <3>2. Busy(t)'
        BY <1>a, <1>b, <1>g, <1>o, <2>0, <3>1 DEF Busy, Hops, Reg!Registered
      <3>3. QED
        BY <1>a, <1>k, <1>n, <2>0, <3>1, <3>2 DEF Hops
    <2>2. CASE Goto(t, "s_mark") /\ UNCHANGED logVars
      <3>1. Hops(t, "s_mark") /\ UNCHANGED <<taskIO, io>>
        BY <1>r, <2>2, GotoHops DEF logVars
      <3>2. Busy(t)'
        BY <1>a, <1>b, <1>g, <1>o, <2>0, <3>1 DEF Busy, Hops, Reg!Registered
      <3>3. QED
        BY <1>a, <1>k, <1>n, <2>0, <3>1, <3>2 DEF Hops
    <2>3. QED
      BY <1>5, <1>a, <2>1, <2>2 DEF StartFinal
  <1>6. CASE StartSaveExited(t) \/ StartMark(t)
    <2>0. UNCHANGED <<task, taskIO, io>> /\ rq[t].pc \in {"s_exited", "s_mark"} /\ Leaves(t)
      BY <1>6, <1>r, ReturnLeaves DEF StartSaveExited, StartMark, ctdVars, logVars, At
    <2>1. PICK s \in {"exited", "running"} : SaveAs(t, s)
      BY <1>6 DEF StartSaveExited, StartMark
    <2>2. /\ NameIndex' /\ byID'[id] # Absent
          /\ byID'[id].data.state = s \/ (byID' = byID /\ Adrift(t, "Save"))
      BY <1>a, <1>b, <1>o, <2>1, SaveOutcome DEF State
    <2>3. Rest(id)'
      BY <1>a, <1>b, <1>g, <1>o, <1>u, <2>0, <2>1, <2>2 DEF Rest, Busy, Reg!Registered
    <2>4. QED
      BY <1>a, <1>o, <2>0, <2>2, <2>3, OnwardKept DEF Leaves
  <1>7. QED
    BY <1>2, <1>3, <1>4, <1>5, <1>6

\* ContainerStop and ContainerInspect (containers.go:357-382, service.go:262-322).
LEMMA LookInStep ==
    ASSUME TypeOK, Solo, FreshUnknown, InStep, NEW t \in Thread, Stop(t) \/ Inspect(t),
           \A id \in ContainerID : ~StopResolve(t, id) /\ ~InspectResolve(t, id)
    PROVE  InStep'
  <1>a. PICK id : id = rq[t].id
    OBVIOUS
  <1>o. Onward(t) /\ rq[t].pc \in StopPC \cup InspectPC /\ meta' = meta /\ id \in ContainerID
    BY <1>a, LookFrame DEF Onward
  <1>g. failed[id] \subseteq failed'[id]
    BY <1>o, SoloHistory
  <1>r. RqTypeOK
    BY DEF TypeOK, RqTypeOK
  <1>b. Busy(t) /\ Reg!Registered(id) /\ rq[t].c = byID[id] /\ NameIndex
    BY <1>a, <1>o, ServiceValues DEF InStep, Busy, Stored, StartPC, StopPC, InspectPC, RemovePC
  <1>n. id # NoID
    BY <1>o, ServiceValues
  <1>u. ASSUME NEW call, Adrift(t, call) \/ Unanswered(rq[t].id, call) PROVE call \in failed'[id]
    BY <1>a, <1>o, <1>u DEF Adrift, Unanswered, TypeOK
  <1> USE DEF Stored, WithMeta, Unread, StartPC, StopPC, InspectPC, RemovePC, Down, Deleted, Launched,
              LogLost, MetaLost, StateLost
  <1>k. ASSUME UNCHANGED <<byID, byName>>,
               rq'[t].id # NoID => Busy(t)', rq'[t].id = NoID => Rest(id)'
        PROVE  InStep'
    <2>1. NameIndex'
      BY <1>k, <1>b DEF NameIndex, Reg!Registered
    <2>2. QED
      BY <1>k, <1>a, <1>o, <2>1, OnwardKept
  <1>2. CASE StopStop(t)
    <2>0. UNCHANGED <<byID, byName, taskIO, io>> /\ rq[t].pc = "p_stop"
      BY <1>2 DEF StopStop, regVars, logVars, At
    <2>1. CASE StopTask(id) /\ Goto(t, "p_refresh")
      <3>1. Hops(t, "p_refresh") /\ task'[id] = IF task[id] = "running" THEN "stopped" ELSE task[id]
        BY <1>o, <1>r, <2>1, GotoHops, StopTaskFrame
      <3>2. task'[id] # "running" /\ (task'[id] # "created" \/ "Start" \in failed[id])
        BY <1>a, <1>b, <2>0, <3>1 DEF Busy
      <3>3. Busy(t)'
        BY <1>a, <1>b, <1>g, <1>o, <2>0, <3>1, <3>2 DEF Busy, Hops, Reg!Registered
      <3>4. QED
        BY <1>a, <1>k, <1>n, <2>0, <3>1, <3>3 DEF Hops
    <2>2. CASE UNCHANGED task /\ Return(t)
      <3>1. Rest(id)'
        BY <1>a, <1>b, <1>g, <1>o, <2>0, <2>2 DEF Rest, Busy, Reg!Registered
      <3>2. QED
        BY <1>k, <1>r, <2>0, <2>2, <3>1, ReturnLeaves DEF Leaves
    <2>3. QED
      BY <1>2, <1>a, <2>1, <2>2 DEF StopStop
  <1>3. CASE StopRefresh(t) \/ StopCloseLog(t)
    <2>0. UNCHANGED <<byID, byName, task>> /\ rq[t].pc \in {"p_refresh", "p_close"}
      BY <1>3 DEF StopRefresh, StopCloseLog, regVars, ctdVars, At
    <2>1. PICK pc \in {"p_close", "p_save"} : Hops(t, pc)
      BY <1>3, <1>r, GotoHops DEF StopRefresh, StopCloseLog
    <2>2. Busy(t)'
      BY <1>a, <1>b, <1>g, <1>o, <2>0, <2>1 DEF Busy, Hops, Reg!Registered
    <2>3. QED
      BY <1>a, <1>k, <1>n, <2>0, <2>1, <2>2 DEF Hops
  <1>4. CASE StopSave(t) \/ InspectSave(t)
    <2>0. UNCHANGED <<task, taskIO, io>> /\ rq[t].pc \in {"p_save", "i_save"} /\ Leaves(t)
      BY <1>4, <1>r, ReturnLeaves DEF StopSave, InspectSave, ctdVars, logVars, At
    <2>1. PICK s \in State : /\ SaveAs(t, s)
                             /\ s = IF rq[t].pc = "p_save" THEN "exited" ELSE rq[t].st
      BY <1>4, RequestParts DEF StopSave, InspectSave, At, State
    <2>2. /\ NameIndex' /\ byID'[id] # Absent
          /\ byID'[id].data.state = s \/ (byID' = byID /\ Adrift(t, "Save"))
      BY <1>a, <1>b, <1>o, <2>1, SaveOutcome
    <2>3. Rest(id)'
      BY <1>a, <1>b, <1>g, <1>o, <1>u, <2>0, <2>1, <2>2 DEF Rest, Busy, Reg!Registered
    <2>4. QED
      BY <1>a, <1>o, <2>0, <2>2, <2>3, OnwardKept DEF Leaves
  <1>5. CASE InspectRefresh(t)
    <2>0. UNCHANGED <<byID, byName, task>> /\ rq[t].pc = "i_refresh"
      BY <1>5 DEF InspectRefresh, regVars, ctdVars, At
    <2>1. task[id] = "running" => taskIO'[id] = taskIO[id]
      BY <1>5, <1>a DEF InspectRefresh, Status, logVars
    <2>2. CASE Return(t)
      <3>1. Rest(id)'
        BY <1>a, <1>b, <1>g, <1>o, <2>0, <2>1 DEF Rest, Busy, Reg!Registered
      <3>2. QED
        BY <1>k, <1>r, <2>0, <2>2, <3>1, ReturnLeaves DEF Leaves
    <2>3. CASE rq' = [rq EXCEPT ![t].pc = "i_save", ![t].st = Status(id)]
      <3>1. /\ rq'[t].pc = "i_save" /\ rq'[t].id = id /\ rq'[t].c = rq[t].c
            /\ rq'[t].st = Status(id)
        BY <1>a, <1>r, <2>3 DEF RqTypeOK, Request
      <3>2. Status(id) = "created" => task[id] # "running"
        BY DEF Status
      <3>3. Busy(t)'
        BY <1>a, <1>b, <1>g, <1>o, <2>0, <2>1, <3>1, <3>2 DEF Busy, Reg!Registered
      <3>4. QED
        BY <1>k, <1>n, <2>0, <3>1, <3>3
    <2>4. QED
      BY <1>5, <1>a, <2>2, <2>3 DEF InspectRefresh
  <1>6. QED
    BY <1>2, <1>3, <1>4, <1>5 DEF Stop, Inspect

\* ContainerRemove (containers.go:384-422).
LEMMA RemoveInStep ==
    ASSUME TypeOK, Solo, FreshUnknown, TaskHasMeta, InStep, NEW t \in Thread, Remove(t),
           \A id \in ContainerID : ~RemoveResolve(t, id)
    PROVE  InStep'
  <1>a. PICK id : id = rq[t].id
    OBVIOUS
  <1>o. Onward(t) /\ rq[t].pc \in RemovePC /\ id \in ContainerID
    BY <1>a, RemoveFrame DEF Onward
  <1>g. failed[id] \subseteq failed'[id]
    BY <1>o, SoloHistory
  <1>r. RqTypeOK
    BY DEF TypeOK, RqTypeOK
  <1>b. /\ Busy(t) /\ NameIndex
        /\ rq[t].pc # "r_logs" => Reg!Registered(id) /\ rq[t].c = byID[id]
    BY <1>a, <1>o, ServiceValues DEF InStep, Busy, Stored, RemovePC
  <1>n. id # NoID
    BY <1>o, ServiceValues
  <1>u. ASSUME NEW call, Adrift(t, call) PROVE call \in failed'[id]
    BY <1>a, <1>o, <1>u DEF Adrift, Unanswered, TypeOK
  <1> USE DEF Stored, WithMeta, Unread, StartPC, StopPC, InspectPC, RemovePC, Down, Deleted,
              Launched, LogLost, MetaLost, StateLost
  <1>k. ASSUME UNCHANGED <<byID, byName>>,
               rq'[t].id # NoID => Busy(t)', rq'[t].id = NoID => Rest(id)'
        PROVE  InStep'
    <2>1. NameIndex'
      BY <1>k, <1>b DEF NameIndex, Reg!Registered
    <2>2. QED
      BY <1>k, <1>a, <1>o, <2>1, OnwardKept
  <1>2. CASE RemoveStatus(t)
    <2>0. UNCHANGED <<byID, byName, meta, task, taskIO, io>> /\ rq[t].pc = "r_status"
      BY <1>2 DEF RemoveStatus, regVars, ctdVars, logVars, At
    <2>1. Leaves(t) \/ \E pc \in {"r_stop", "r_disc"} : Hops(t, pc)
      BY <1>2, <1>r, GotoHops, ReturnLeaves DEF RemoveStatus
    <2>2. CASE Leaves(t)
      <3>1. Rest(id)'
        BY <1>a, <1>b, <1>g, <2>0 DEF Busy, Rest, Reg!Registered
      <3>2. QED
        BY <1>k, <2>0, <2>2, <3>1 DEF Leaves
    <2>3. ASSUME NEW pc \in {"r_stop", "r_disc"}, Hops(t, pc) PROVE InStep'
      <3>1. Busy(t)'
        BY <1>a, <1>b, <1>g, <2>0, <2>3 DEF Busy, Hops, Reg!Registered
      <3>2. QED
        BY <1>a, <1>k, <1>n, <2>0, <2>3, <3>1 DEF Hops
    <2>4. QED
      BY <2>1, <2>2, <2>3
  <1>3. CASE RemoveStop(t)
    <2>0. UNCHANGED <<byID, byName, meta, taskIO, io>> /\ rq[t].pc = "r_stop"
      BY <1>3 DEF RemoveStop, regVars, logVars, At
    <2>1. Hops(t, "r_disc") /\ task'[id] \in {task[id], "stopped"}
      BY <1>3, <1>a, <1>o, <1>r, GotoHops, StopTaskFrame DEF RemoveStop
    <2>2. Busy(t)'
      BY <1>a, <1>b, <1>g, <2>0, <2>1 DEF Busy, Hops, Reg!Registered
    <2>3. QED
      BY <1>a, <1>k, <1>n, <2>0, <2>1, <2>2 DEF Hops
  <1>4. CASE RemoveDisconnect(t) \/ RemoveForget(t) \/ RemoveFree(t)
    <2>0. /\ UNCHANGED <<byID, byName, meta, task, taskIO, io>>
          /\ rq[t].pc \in {"r_disc", "r_forget", "r_free"}
      BY <1>4 DEF RemoveDisconnect, RemoveForget, RemoveFree, regVars, ctdVars, logVars, At
    <2>1. rq'[t].pc \in {"r_forget", "r_free", "r_task"} /\ rq'[t].id = id /\ rq'[t].c = rq[t].c
      <3>1. CASE rq' = [rq EXCEPT ![t].pc = "r_forget", ![t].al = attach[rq[t].id]]
        BY <1>a, <1>r, <3>1 DEF RqTypeOK, Request
      <3>2. CASE \E pc \in {"r_free", "r_task"} : Goto(t, pc)
        BY <1>a, <1>r, <3>2, GotoHops DEF Hops
      <3>3. QED
        BY <1>4, <3>1, <3>2 DEF RemoveDisconnect, RemoveForget, RemoveFree
    <2>2. Busy(t)'
      BY <1>a, <1>b, <1>g, <2>0, <2>1 DEF Busy, Reg!Registered
    <2>3. QED
      BY <1>k, <1>n, <2>0, <2>1, <2>2
  <1>5. CASE RemoveTask(t)
    <2>0. UNCHANGED <<byID, byName, meta, taskIO, io>> /\ rq[t].pc = "r_task"
      BY <1>5 DEF RemoveTask, regVars, logVars, At
    <2>1. CASE Return(t) /\ UNCHANGED task
      <3>1. Rest(id)'
        BY <1>a, <1>b, <1>g, <2>0, <2>1 DEF Busy, Rest, Reg!Registered
      <3>2. QED
        BY <1>k, <1>r, <2>0, <2>1, <3>1, ReturnLeaves DEF Leaves
    <2>2. CASE meta[id] = Absent /\ Goto(t, "r_unreg") /\ UNCHANGED task
      <3>1. task[id] = "none" /\ Hops(t, "r_unreg")
        BY <1>o, <1>r, <2>2, GotoHops DEF TaskHasMeta
      <3>2. Busy(t)'
        BY <1>a, <1>b, <1>g, <2>0, <2>2, <3>1 DEF Busy, Hops, Reg!Registered
      <3>3. QED
        BY <1>a, <1>k, <1>n, <2>0, <3>1, <3>2 DEF Hops
    <2>3. CASE Goto(t, "r_meta") /\ task' = [task EXCEPT ![id] = "none"]
      <3>1. task'[id] = "none" /\ Hops(t, "r_meta")
        BY <1>o, <1>r, <2>3, GotoHops DEF TypeOK
      <3>2. Busy(t)'
        BY <1>a, <1>b, <1>g, <2>0, <3>1 DEF Busy, Hops, Reg!Registered
      <3>3. QED
        BY <1>a, <1>k, <1>n, <2>0, <3>1, <3>2 DEF Hops
    <2>4. QED
      BY <1>5, <1>a, <2>1, <2>2, <2>3 DEF RemoveTask
  <1>6. CASE RemoveMeta(t) \/ RemoveSnapshot(t)
    <2>0. /\ UNCHANGED <<byID, byName, task, taskIO, io>> /\ rq[t].pc \in {"r_meta", "r_snap"}
          /\ task[id] = "none"
      BY <1>6, <1>a, <1>b DEF RemoveMeta, RemoveSnapshot, regVars, ctdVars, logVars, At, Busy
    <2>1. \/ Leaves(t) /\ rq[t].pc = "r_meta" /\ meta' = meta
          \/ Leaves(t) /\ "RemoveSnapshot" \in failed'[id]
          \/ \E pc \in {"r_snap", "r_unreg"} : Hops(t, pc)
      BY <1>6, <1>r, <1>u, GotoHops, ReturnLeaves DEF RemoveMeta, RemoveSnapshot, At
    <2>2. CASE Leaves(t)
      <3>1. \/ rq[t].pc = "r_meta" /\ meta' = meta
            \/ "RemoveSnapshot" \in failed'[id]
        BY <2>1, <2>2 DEF Hops, Leaves
      <3>2. Rest(id)'
        BY <1>a, <1>b, <1>g, <2>0, <3>1 DEF Busy, Rest, Reg!Registered
      <3>3. QED
        BY <1>k, <2>0, <2>2, <3>2 DEF Leaves
    <2>3. ASSUME NEW pc \in {"r_snap", "r_unreg"}, Hops(t, pc) PROVE InStep'
      <3>1. Busy(t)'
        BY <1>a, <1>b, <1>g, <2>0, <2>3 DEF Busy, Hops, Reg!Registered
      <3>2. QED
        BY <1>a, <1>k, <1>n, <2>0, <2>3, <3>1 DEF Hops
    <2>4. QED
      BY <2>1, <2>2, <2>3
  <1>7. CASE RemoveUnregister(t)
    <2>0. UNCHANGED <<task, taskIO, io>> /\ rq[t].pc = "r_unreg" /\ task[id] = "none"
      BY <1>7, <1>a, <1>b DEF RemoveUnregister, ctdVars, logVars, At, Busy
    <2>1. CASE Goto(t, "r_logs") /\ (Reg!Remove(id) \/ (~Reg!Registered(id) /\ UNCHANGED regVars))
      <3>1. Hops(t, "r_logs")
        BY <1>r, <2>1, GotoHops
      <3>2. NameIndex' /\ byID'[id] = Absent
        <4>1. CASE Reg!Remove(id)
          BY <1>b, <1>o, <4>1, RemoveKeepsIndex
        <4>2. CASE ~Reg!Registered(id) /\ UNCHANGED regVars
          BY <1>b, <4>2 DEF regVars, NameIndex, Reg!Registered
        <4>3. QED
          BY <2>1, <4>1, <4>2
      <3>3. Busy(t)'
        BY <1>a, <1>b, <1>g, <2>0, <3>1, <3>2 DEF Busy, Hops, Reg!Registered
      <3>4. QED
        BY <1>a, <1>n, <1>o, <3>1, <3>2, <3>3, OnwardKept DEF Hops
    <2>2. CASE Return(t) /\ Adrift(t, "Unregister") /\ UNCHANGED regVars
      <3>1. Leaves(t) /\ "Unregister" \in failed'[id] /\ UNCHANGED <<byID, byName>>
        BY <1>r, <1>u, <2>2, ReturnLeaves DEF regVars
      <3>2. Rest(id)'
        BY <1>b, <1>g, <2>0, <3>1 DEF Rest, Reg!Registered
      <3>3. QED
        BY <1>k, <3>1, <3>2 DEF Leaves
    <2>3. QED
      BY <1>7, <1>a, <2>1, <2>2 DEF RemoveUnregister
  <1>8. CASE RemoveLogs(t)
    <2>0. UNCHANGED <<byID, byName, task>> /\ rq[t].pc = "r_logs" /\ Leaves(t)
      BY <1>8, <1>r, ReturnLeaves DEF RemoveLogs, regVars, ctdVars, At
    <2>1. Rest(id)'
      BY <1>a, <1>b, <2>0 DEF Busy, Rest, Reg!Registered
    <2>2. QED
      BY <1>k, <2>0, <2>1 DEF Leaves
  <1>9. QED
    BY <1>2, <1>3, <1>4, <1>5, <1>6, <1>7, <1>8 DEF Remove

\* A process that ends.
LEMMA ExitInStep ==
    ASSUME TypeOK, Solo, InStep, NEW id \in ContainerID, TaskExit(id)
    PROVE  InStep'
  <1>1. /\ UNCHANGED <<byID, byName, meta, taskIO, io, rq, failed>>
        /\ task[id] = "running" /\ task'[id] = "stopped"
        /\ \A j \in ContainerID \ {id} : task'[j] = task[j]
    BY ExitFrame
  <1>2. ASSUME NEW t \in Thread, rq[t].id # NoID PROVE Busy(t)'
    <2>1. rq[t].id \in ContainerID /\ Busy(t)
      BY <1>2 DEF InStep, TypeOK, Request
    <2>2. QED
      BY <1>1, <2>1 DEF Busy, Reg!Registered, Deleted, Down, LogLost, MetaLost, StateLost
  <1>3. ASSUME NEW j \in ContainerID, Settled(j) PROVE Rest(j)'
    <2>1. Rest(j)
      BY <1>3 DEF InStep
    <2>2. QED
      BY <1>1, <2>1 DEF Rest, Reg!Registered, LogLost, MetaLost, StateLost
  <1>4. QED
    BY <1>1, <1>2, <1>3 DEF InStep, Settled, NameIndex, Reg!Registered

\* A context that expires says nothing of its container.
LEMMA ExpireInStep ==
    ASSUME TypeOK, Solo, InStep, NEW t \in Thread, Expire(t)
    PROVE  InStep'
  <1>1. /\ UNCHANGED <<byID, byName, meta, task, taskIO, io, failed>>
        /\ \A u \in Thread : /\ rq'[u].pc = rq[u].pc /\ rq'[u].id = rq[u].id
                              /\ rq'[u].c = rq[u].c /\ rq'[u].st = rq[u].st
    BY ExpireFrame
  <1>2. ASSUME NEW u \in Thread, rq'[u].id # NoID PROVE Busy(u)'
    <2>1. Busy(u)
      BY <1>1, <1>2 DEF InStep
    <2>2. QED
      BY <1>1, <2>1 DEF Busy, Reg!Registered, LogLost, MetaLost, StateLost
  <1>3. ASSUME NEW j \in ContainerID, Settled(j)' PROVE Rest(j)'
    <2>1. Rest(j)
      BY <1>1, <1>3 DEF InStep, Settled
    <2>2. QED
      BY <1>1, <2>1 DEF Rest, Reg!Registered, LogLost, MetaLost, StateLost
  <1>4. QED
    BY <1>1, <1>2, <1>3 DEF InStep, NameIndex, Reg!Registered

\* The use cases of a daemon whose requests do not share a container.
CalmInv == Inv /\ Solo /\ InStep

\* Every step keeps containers and requests in step.
LEMMA CalmStep ==
    ASSUME CalmInv, ~Overlapping, [Next]_vars
    PROVE  CalmInv'
  <1>i. TypeOK /\ Solo /\ InStep /\ FreshUnknown /\ TaskHasMeta
    BY ServiceAssumption DEF CalmInv, Inv, OwnerInv
  <1>1. Inv' /\ Solo'
    BY <1>i, StepInv, SoloStep DEF CalmInv
  <1>2. CASE UNCHANGED vars
    <2>1. UNCHANGED <<byID, byName, meta, task, taskIO, io, rq, failed>>
      BY <1>2 DEF vars
    <2>2. InStep'
      BY <1>i, <2>1
      DEF InStep, Busy, Rest, NameIndex, Settled, Reg!Registered, LogLost, MetaLost, StateLost
    <2>3. QED
      BY <1>1, <2>2 DEF CalmInv
  <1>3. ASSUME NEW t \in Thread, Create(t) PROVE InStep'
    BY <1>3, <1>i, CreateInStep
  <1>4. ASSUME NEW t \in Thread, NEW id \in ContainerID, Resolves(t, id) PROVE InStep'
    BY <1>4, <1>i, ResolveInStep
  <1>5. ASSUME NEW t \in Thread, Start(t), \A id \in ContainerID : ~StartResolve(t, id)
        PROVE  InStep'
    BY <1>5, <1>i, LaunchInStep, JoinInStep DEF Start
  <1>6. ASSUME NEW t \in Thread, Stop(t) \/ Inspect(t),
               \A id \in ContainerID : ~StopResolve(t, id) /\ ~InspectResolve(t, id)
        PROVE  InStep'
    BY <1>6, <1>i, LookInStep
  <1>7. ASSUME NEW t \in Thread, Remove(t), \A id \in ContainerID : ~RemoveResolve(t, id)
        PROVE  InStep'
    BY <1>7, <1>i, RemoveInStep
  <1>8. ASSUME NEW id \in ContainerID, TaskExit(id) PROVE InStep'
    BY <1>8, <1>i, ExitInStep
  <1>9. ASSUME NEW t \in Thread, Expire(t) PROVE InStep'
    BY <1>9, <1>i, ExpireInStep
  <1>10. QED
    BY <1>1, <1>2, <1>3, <1>4, <1>5, <1>6, <1>7, <1>8, <1>9, StepCases DEF CalmInv

\* A daemon that has just been started.
LEMMA CalmInit == Init => CalmInv
  <1> SUFFICES ASSUME Init PROVE CalmInv
    OBVIOUS
  <1>1. Inv /\ Solo
    BY InitInv, SoloInit
  <1>2. \A t \in Thread : rq[t].id = NoID
    BY DEF Init, Idle
  <1>3. InStep
    BY <1>2 DEF Init, Reg!RegInit, InStep, Rest, NameIndex, Reg!Registered
  <1>4. QED
    BY <1>1, <1>3 DEF CalmInv

\* CalmInv holds throughout.
LEMMA CalmInvariant ==
    ASSUME ~Overlapping
    PROVE  Spec => []CalmInv
  <1>1. CalmInv /\ [Next]_vars => CalmInv'
    BY CalmStep
  <1>2. QED
    BY <1>1, CalmInit, PTL DEF Spec

\* A container that no request works on is in the runtime if it is in the
\* registry, and one that is called created is not running, but for the calls
\* RegistryMirrors names, whatever else fails, expires or exits on the way
\* (containers.go:365-367, 394-397).
THEOREM ServiceRegistryMirrors ==
    ASSUME ~Overlapping
    PROVE  Spec => []RegistryMirrors
  <1>1. CalmInv => RegistryMirrors
    BY DEF CalmInv, InStep, Rest, RegistryMirrors, Failed, MetaLost, StateLost
  <1>2. QED
    BY <1>1, CalmInvariant, PTL

\* The output of a running container reaches an open log file once its start
\* request is over, whichever containers other requests stop, inspect or remove,
\* and whatever fails but a Status, a Start and the Stop of an undo
\* (containers.go:277-280, 284-294, 312, logs.go:33-63).
THEOREM ServiceLogsWhileRunning ==
    ASSUME ~Overlapping
    PROVE  Spec => []LogsWhileRunning
  <1>1. CalmInv => LogsWhileRunning
    BY DEF CalmInv, InStep, Rest, LogsWhileRunning, Failed, LogLost
  <1>2. QED
    BY <1>1, CalmInvariant, PTL

-----------------------------------------------------------------------------
(* Who holds which host ports, when processes do not exit before their     *)
(* start is over (FastExit is FALSE: a start that finds its process gone   *)
(* may release ports that an earlier attachment still publishes).          *)

\* A create holds the ports it has allocated until its container is registered
\* or given up; a registered container holds its ports until its removal has
\* released them, with the attachment or, if it never ran, without.
Reserving(t) == rq[t].pc \in {"c_find", "c_new", "c_save"}
Released(t) ==
    \/ rq[t].pc \in {"r_task", "r_meta", "r_snap", "r_unreg", "r_logs"}
    \/ rq[t].pc = "r_free" /\ rq[t].c.data.state # "created"
Holding(id) == Reg!Registered(id) /\ \A t \in Thread : rq[t].id = id => ~Released(t)

Owner == ({"container"} \X ContainerID) \cup ({"request"} \X Thread)
Holds(o) == IF o[1] = "container" THEN Holding(o[2]) ELSE Reserving(o[2])
Bound(id) == byID[id].data.ports
Asked(t) == rq[t].c.data.ports
Keys(o) == IF o[1] = "container" THEN Bound(o[2]) ELSE Asked(o[2])

\* The table is divided among its owners.
HoldInv ==
    /\ \A o \in Owner : Holds(o) => Keys(o) \ loose \subseteq used
    /\ \A o, p \in Owner : (o # p /\ Holds(o) /\ Holds(p)) => Keys(o) \cap Keys(p) \subseteq loose
    /\ \A k \in used \ loose : \E o \in Owner : Holds(o) /\ k \in Keys(o)

\* What a step may do to the division: nothing; a new owner takes free keys; an
\* owner passes its keys on; an owner gives its keys back; or an owner all of
\* whose keys are loose changes, and with it loose keys only.
SameFor(o) == (Holds(o)' <=> Holds(o)) /\ (Holds(o) => Keys(o)' = Keys(o))

HoldSame == UNCHANGED <<used, loose>> /\ \A o \in Owner : SameFor(o)

HoldTakes(o) ==
    /\ ~Holds(o) /\ Holds(o)' /\ Keys(o)' \cap used = {} /\ used' = used \cup Keys(o)'
    /\ loose' = loose
    /\ \A p \in Owner \ {o} : SameFor(p)

HoldPasses(o, p) ==
    /\ o # p /\ Holds(o) /\ ~Holds(o)' /\ ~Holds(p) /\ Holds(p)' /\ Keys(p)' = Keys(o)
    /\ UNCHANGED <<used, loose>>
    /\ \A q \in Owner \ {o, p} : SameFor(q)

HoldDrops(o) ==
    /\ Holds(o) /\ ~Holds(o)' /\ used' = used \ Keys(o)
    /\ loose' = loose
    /\ \A p \in Owner \ {o} : SameFor(p)

HoldLoose(o) ==
    /\ loose \subseteq loose' /\ used' \ loose' = used \ loose'
    /\ Holds(o) => Keys(o) \subseteq loose'
    /\ Holds(o)' => Keys(o)' \subseteq loose'
    /\ \A p \in Owner \ {o} : SameFor(p)

HoldMoves ==
    \/ HoldSame \/ \E o \in Owner : HoldTakes(o) \/ HoldDrops(o) \/ HoldLoose(o)
    \/ \E o, p \in Owner : HoldPasses(o, p)

\* None of these mixes up the owners' keys.
LEMMA HoldKept ==
    ASSUME HoldInv, HoldMoves
    PROVE  HoldInv'
  <1> USE DEF SameFor
  <1>1. CASE HoldSame
    BY <1>1 DEF HoldSame, HoldInv
  <1>2. ASSUME NEW o \in Owner, HoldTakes(o) PROVE HoldInv'
    <2>1. ASSUME NEW p \in Owner, Holds(p)' PROVE Keys(p)' \ loose' \subseteq used'
      BY <1>2, <2>1 DEF HoldTakes, HoldInv
    <2>2. ASSUME NEW p \in Owner, NEW q \in Owner, p # q, Holds(p)', Holds(q)'
          PROVE  Keys(p)' \cap Keys(q)' \subseteq loose'
      BY <1>2, <2>2 DEF HoldTakes, HoldInv
    <2>3. ASSUME NEW k \in used' \ loose' PROVE \E p \in Owner : Holds(p)' /\ k \in Keys(p)'
      <3>1. CASE k \in Keys(o)'
        BY <1>2, <3>1 DEF HoldTakes
      <3>2. CASE k \in used
        BY <1>2, <2>3, <3>2 DEF HoldTakes, HoldInv
      <3>3. QED
        BY <1>2, <2>3, <3>1, <3>2 DEF HoldTakes
    <2>4. QED
      BY <2>1, <2>2, <2>3 DEF HoldInv
  <1>3. ASSUME NEW o \in Owner, HoldDrops(o) PROVE HoldInv'
    <2>1. ASSUME NEW p \in Owner, Holds(p)' PROVE Keys(p)' \ loose' \subseteq used'
      BY <1>3, <2>1 DEF HoldDrops, HoldInv
    <2>2. ASSUME NEW p \in Owner, NEW q \in Owner, p # q, Holds(p)', Holds(q)'
          PROVE  Keys(p)' \cap Keys(q)' \subseteq loose'
      BY <1>3, <2>2 DEF HoldDrops, HoldInv
    <2>3. ASSUME NEW k \in used' \ loose' PROVE \E p \in Owner : Holds(p)' /\ k \in Keys(p)'
      <3>1. PICK p \in Owner : Holds(p) /\ k \in Keys(p)
        BY <1>3, <2>3 DEF HoldDrops, HoldInv
      <3>2. p # o
        BY <1>3, <2>3, <3>1 DEF HoldDrops
      <3>3. QED
        BY <1>3, <3>1, <3>2 DEF HoldDrops
    <2>4. QED
      BY <2>1, <2>2, <2>3 DEF HoldInv
  <1>4. ASSUME NEW o \in Owner, NEW p \in Owner, HoldPasses(o, p) PROVE HoldInv'
    <2>1. ASSUME NEW q \in Owner, Holds(q)' PROVE Keys(q)' \ loose' \subseteq used'
      BY <1>4, <2>1 DEF HoldPasses, HoldInv
    <2>2. ASSUME NEW q \in Owner, NEW r \in Owner, q # r, Holds(q)', Holds(r)'
          PROVE  Keys(q)' \cap Keys(r)' \subseteq loose'
      BY <1>4, <2>2 DEF HoldPasses, HoldInv
    <2>3. ASSUME NEW k \in used' \ loose' PROVE \E q \in Owner : Holds(q)' /\ k \in Keys(q)'
      <3>1. PICK q \in Owner : Holds(q) /\ k \in Keys(q)
        BY <1>4, <2>3 DEF HoldPasses, HoldInv
      <3>2. CASE q = o
        BY <1>4, <3>1, <3>2 DEF HoldPasses
      <3>3. CASE q # o
        BY <1>4, <3>1, <3>3 DEF HoldPasses
      <3>4. QED
        BY <3>2, <3>3
    <2>4. QED
      BY <2>1, <2>2, <2>3 DEF HoldInv
  <1>5. ASSUME NEW o \in Owner, HoldLoose(o) PROVE HoldInv'
    <2>1. ASSUME NEW p \in Owner, Holds(p)' PROVE Keys(p)' \ loose' \subseteq used'
      BY <1>5, <2>1 DEF HoldLoose, HoldInv
    <2>2. ASSUME NEW p \in Owner, NEW q \in Owner, p # q, Holds(p)', Holds(q)'
          PROVE  Keys(p)' \cap Keys(q)' \subseteq loose'
      BY <1>5, <2>2 DEF HoldLoose, HoldInv
    <2>3. ASSUME NEW k \in used' \ loose' PROVE \E p \in Owner : Holds(p)' /\ k \in Keys(p)'
      <3>1. PICK p \in Owner : Holds(p) /\ k \in Keys(p)
        BY <1>5, <2>3 DEF HoldLoose, HoldInv
      <3>2. p # o
        BY <1>5, <2>3, <3>1 DEF HoldLoose
      <3>3. QED
        BY <1>5, <3>1, <3>2 DEF HoldLoose
    <2>4. QED
      BY <2>1, <2>2, <2>3 DEF HoldInv
  <1>6. QED
    BY <1>1, <1>2, <1>3, <1>4, <1>5 DEF HoldMoves

\* A step concerns the owners of its own request and container only.
LEMMA ElsewhereSame ==
    ASSUME TypeOK, NEW t \in Thread, NEW id, Frame(t, id)
    PROVE  \A o \in Owner \ {<<"container", id>>, <<"request", t>>} : SameFor(o)
  <1>1. ASSUME NEW j \in ContainerID, j # id
        PROVE  SameFor(<<"container", j>>)
    <2>1. byID'[j] = byID[j] /\ \A u \in Thread : rq'[u].id = j <=> rq[u].id = j
      BY <1>1, ServiceValues DEF Frame
    <2>2. \A u \in Thread : rq[u].id = j => rq'[u] = rq[u]
      BY <1>1, ServiceValues DEF Frame
    <2>3. Holding(j)' <=> Holding(j)
      BY <2>1, <2>2 DEF Holding, Reg!Registered, Released
    <2>4. Bound(j)' = Bound(j)
      BY <2>1 DEF Bound
    <2>5. QED
      BY <2>3, <2>4 DEF SameFor, Holds, Keys
  <1>2. ASSUME NEW u \in Thread, u # t
        PROVE  SameFor(<<"request", u>>)
    <2>1. rq'[u] = rq[u]
      BY <1>2 DEF Frame
    <2>2. QED
      BY <2>1 DEF SameFor, Holds, Keys, Reserving, Asked
  <1>3. QED
    BY <1>1, <1>2 DEF Owner

\* Whether a container that at most one request works on holds its ports.
LEMMA HoldingOwn ==
    ASSUME NEW t \in Thread, NEW id, \A u \in Thread \ {t} : rq[u].id # id
    PROVE  Holding(id) <=> Reg!Registered(id) /\ (rq[t].id = id => ~Released(t))
  BY DEF Holding

\* A container is ready when its network is attached, or has nothing to publish.
Ready(id) == attach[id] # Absent \/ Bound(id) = {}
Untouched(id) == byID[id].data.state = "created"

\* What a create asks for: a container that never ran, with host ports only on
\* a CNI network (prepareCreateBindings).
Asks(t) ==
    rq[t].pc \in CreatePC =>
        rq[t].c.data.state = "created" /\ (Asked(t) # {} => rq[t].c.data.net)

\* The failures that set a container's keys loose, a container all of whose keys
\* are loose, and one of which no attachment and no such failure is known.
Stray == {"Start", "Stop", "Save", "Disconnect", "Remove", "RemoveSnapshot", "Unregister"}
Slack(id) == Bound(id) \subseteq loose
Pristine(id) == attach[id] = Absent /\ ~Failed(id, Stray)

\* An attachment publishes exactly the ports of its container's record.
Tied(id) ==
    /\ attach[id] # Absent => IF Reg!Registered(id) THEN attach[id] = Bound(id)
                                                  ELSE attach[id] \subseteq loose
    /\ (Reg!Registered(id) /\ Failed(id, Stray)) => Slack(id)
    /\ (Reg!Registered(id) /\ Bound(id) # {}) => byID[id].data.net

\* A container that no request works on: only one that never ran is unattached.
JoinRest(id) ==
    (Reg!Registered(id) /\ ~Slack(id)) => IF Untouched(id) THEN attach[id] = Absent ELSE Ready(id)

\* A container that request t works on: what holds also when its keys are loose,
\* and what holds as long as they are not.
Joining == {"s_final", "s_mark"}
Done == {"r_task", "r_meta", "r_snap", "r_unreg"}
Undecided == StartPC \cup StopPC \cup InspectPC \cup {"r_status", "r_stop", "r_disc", "r_forget"}
Along(t) ==
    /\ rq[t].pc \in Launched => task[rq[t].id] = "running"
    /\ rq[t].pc # "s_exited"
    /\ rq[t].pc = "r_forget" => attach[rq[t].id] # Absent /\ rq[t].al = attach[rq[t].id]
    /\ rq[t].pc \in StopPC => ~Untouched(rq[t].id)
    /\ rq[t].pc = "c_save" => Pristine(rq[t].id)
Steady(t) ==
    /\ rq[t].pc \in Joining => Ready(rq[t].id)
    /\ (rq[t].pc \notin Joining /\ Untouched(rq[t].id)) => attach[rq[t].id] = Absent
    /\ (rq[t].pc \in Undecided /\ ~Untouched(rq[t].id)) => Ready(rq[t].id)
    /\ rq[t].pc \in {"r_free"} \cup Done => attach[rq[t].id] = Absent
    /\ rq[t].pc = "i_save" => rq[t].st # "created" /\ ~Untouched(rq[t].id)
JoinBusy(t) == Along(t) /\ ((rq[t].pc \in Stored /\ ~Slack(rq[t].id)) => Steady(t))

JoinInv ==
    /\ \A t \in Thread : Asks(t)
    /\ \A t \in Thread : rq[t].id # NoID => JoinBusy(t)
    /\ \A id \in ContainerID : Tied(id)
    /\ \A id \in ContainerID : Settled(id) => JoinRest(id)
    /\ \A id \in fresh : Pristine(id)

\* A step that works on its own container keeps JoinInv if it keeps it there.
LEMMA JoinKept ==
    ASSUME TypeOK, FreshUnknown, JoinInv, NEW t \in Thread, NEW id, Frame(t, id),
           loose \subseteq loose', \A j \in fresh' : Pristine(j)',
           id \in ContainerID \cup {NoID},
           id = NoID \/ \A u \in Thread \ {t} : rq[u].id # id,
           Asks(t)', rq'[t].id # NoID => JoinBusy(t)',
           id \in ContainerID => Tied(id)',
           (id \in ContainerID /\ rq'[t].id # id) => JoinRest(id)'
    PROVE  JoinInv'
  <1>f. \A u \in Thread \ {t} : rq'[u] = rq[u]
    BY DEF Frame
  <1>1. ASSUME NEW u \in Thread PROVE Asks(u)'
    <2>1. CASE u = t
      BY <2>1
    <2>2. CASE u # t
      BY <1>f, <2>2 DEF JoinInv, Asks, Asked
    <2>3. QED
      BY <2>1, <2>2
  <1>2. ASSUME NEW u \in Thread, rq'[u].id # NoID PROVE JoinBusy(u)'
    <2>1. CASE u = t
      BY <1>2, <2>1
    <2>2. CASE u # t
      <3>1. /\ rq'[u] = rq[u] /\ rq[u].id \in ContainerID \ {id} /\ JoinBusy(u)
            /\ rq[u].id \notin fresh
        BY <1>2, <1>f, <2>2, ServiceValues DEF JoinInv, TypeOK, Request, FreshUnknown
      <3>2. /\ byID'[rq[u].id] = byID[rq[u].id] /\ task'[rq[u].id] = task[rq[u].id]
            /\ attach'[rq[u].id] = attach[rq[u].id] /\ failed'[rq[u].id] = failed[rq[u].id]
        BY <2>2, <3>1 DEF Frame, SameRuntime
      <3>3. Along(u)'
        BY <3>1, <3>2 DEF JoinBusy, Along, Untouched, Pristine, Failed
      <3>4. Slack(rq[u].id) => Slack(rq[u].id)'
        BY <3>1, <3>2 DEF Slack, Bound
      <3>5. Steady(u) => Steady(u)'
        BY <3>1, <3>2 DEF Steady, Ready, Untouched, Bound
      <3>6. QED
        BY <3>1, <3>3, <3>4, <3>5 DEF JoinBusy
    <2>3. QED
      BY <2>1, <2>2
  <1>3. ASSUME NEW j \in ContainerID PROVE Tied(j)'
    <2>1. CASE j = id
      BY <2>1
    <2>2. CASE j # id
      <3>1. byID'[j] = byID[j] /\ attach'[j] = attach[j] /\ Tied(j)
        BY <2>2 DEF Frame, JoinInv
      <3>2. Reg!Registered(j) => failed'[j] = failed[j]
        BY <2>2 DEF Frame, SameRuntime, FreshUnknown
      <3>3. QED
        BY <3>1, <3>2 DEF Tied, Bound, Slack, Failed, Reg!Registered
    <2>3. QED
      BY <2>1, <2>2
  <1>4. ASSUME NEW j \in ContainerID, \A u \in Thread : rq'[u].id # j PROVE JoinRest(j)'
    <2>1. CASE j = id
      BY <1>4, <2>1
    <2>2. CASE j # id
      <3>1. Settled(j)
        BY <1>4, <1>f, <2>2, ServiceValues DEF Settled, Frame
      <3>2. byID'[j] = byID[j] /\ attach'[j] = attach[j] /\ JoinRest(j)
        BY <2>2, <3>1 DEF Frame, JoinInv
      <3>3. QED
        BY <3>2 DEF JoinRest, Ready, Untouched, Bound, Slack, Reg!Registered
    <2>3. QED
      BY <2>1, <2>2
  <1>5. QED
    BY <1>1, <1>2, <1>3, <1>4 DEF JoinInv, Settled

\* All that is known between two steps of a calm daemon.
PortInv == CalmInv /\ AttachInv /\ JoinInv /\ HoldInv

\* A step of t records nothing, a status that could not be read, or a failure
\* that sets the keys of its container loose.
Drift(t) ==
    \/ UNCHANGED <<failed, loose>>
    \/ Unanswered(rq[t].id, "Status") /\ loose' = loose
    \/ \E call \in Stray : Adrift(t, call)

LEMMA AllDrift ==
    ASSUME NEW t \in Thread, Start(t) \/ Stop(t) \/ Remove(t) \/ Inspect(t)
    PROVE  Drift(t)
  <1>s. ASSUME NEW s, SaveAs(t, s) PROVE Drift(t)
    BY <1>s DEF SaveAs, Drift, Stray
  <1>1. CASE Start(t)
    <2>1. CASE \E id \in ContainerID : StartResolve(t, id)
      BY <2>1 DEF StartResolve, Drift
    <2>2. CASE StartStatus(t) \/ StartOpenLog(t) \/ StartDiscard(t) \/ StartNewTask(t)
      BY <2>2 DEF StartStatus, StartOpenLog, StartDiscard, StartNewTask, Drift
    <2>3. CASE StartRun(t) \/ StartUndo(t)
      BY <2>3 DEF StartRun, StartUndo, Drift, Stray
    <2>4. CASE StartPID(t) \/ StartAdopt(t) \/ StartAdd(t) \/ StartRestore(t) \/ StartJoinFailed(t)
               \/ StartFinal(t)
      BY <2>4 DEF StartPID, StartAdopt, StartAdd, StartRestore, StartJoinFailed, StartFinal, Drift
    <2>5. CASE StartSaveExited(t) \/ StartMark(t)
      BY <1>s, <2>5 DEF StartSaveExited, StartMark
    <2>6. QED
      BY <1>1, <2>1, <2>2, <2>3, <2>4, <2>5 DEF Start
  <1>2. CASE Stop(t)
    <2>1. CASE \E id \in ContainerID : StopResolve(t, id)
      BY <2>1 DEF StopResolve, Drift
    <2>2. CASE StopSave(t)
      BY <1>s, <2>2 DEF StopSave
    <2>3. CASE StopStop(t) \/ StopRefresh(t) \/ StopCloseLog(t)
      BY <2>3 DEF StopStop, StopRefresh, StopCloseLog, Drift
    <2>4. QED
      BY <1>2, <2>1, <2>2, <2>3 DEF Stop
  <1>3. CASE Remove(t)
    <2>1. CASE \E id \in ContainerID : RemoveResolve(t, id)
      BY <2>1 DEF RemoveResolve, Drift
    <2>2. CASE RemoveStatus(t) \/ RemoveStop(t) \/ RemoveForget(t) \/ RemoveFree(t) \/ RemoveLogs(t)
      BY <2>2 DEF RemoveStatus, RemoveStop, RemoveForget, RemoveFree, RemoveLogs, Drift
    <2>3. CASE RemoveDisconnect(t) \/ RemoveTask(t) \/ RemoveMeta(t) \/ RemoveSnapshot(t)
               \/ RemoveUnregister(t)
      BY <2>3 DEF RemoveDisconnect, RemoveTask, RemoveMeta, RemoveSnapshot, RemoveUnregister, Drift,
                  Stray
    <2>4. QED
      BY <1>3, <2>1, <2>2, <2>3 DEF Remove
  <1>4. CASE Inspect(t)
    <2>1. CASE \E id \in ContainerID : InspectResolve(t, id)
      BY <2>1 DEF InspectResolve, Drift
    <2>2. CASE InspectSave(t)
      BY <1>s, <2>2 DEF InspectSave
    <2>3. CASE InspectRefresh(t)
      BY <2>3 DEF InspectRefresh, Drift
    <2>4. QED
      BY <1>4, <2>1, <2>2, <2>3 DEF Inspect
  <1>5. QED
    BY <1>1, <1>2, <1>3, <1>4

\* What is known of a request that works on a container, and of the container.
LEMMA OwnFacts ==
    ASSUME PortInv, NEW t \in Thread, Onward(t), NEW id, id = rq[t].id
    PROVE  /\ TypeOK /\ RqTypeOK /\ Solo /\ AttachInv /\ NameIndex /\ JoinInv /\ FreshUnknown
           /\ id \in ContainerID /\ id # NoID /\ \A u \in Thread \ {t} : rq[u].id # id
           /\ Busy(t) /\ JoinBusy(t) /\ Along(t) /\ Tied(id) /\ id \notin fresh
           /\ Drift(t) => loose \subseteq loose' /\ \A j \in fresh : failed'[j] = failed[j]
  <1>1. TypeOK /\ RqTypeOK /\ Solo /\ InStep /\ AttachInv /\ JoinInv /\ FreshUnknown
    BY DEF PortInv, CalmInv, Inv, OwnerInv, TypeOK, RqTypeOK
  <1>2. id \in ContainerID /\ id # NoID /\ id \notin fresh
    BY <1>1, ServiceValues DEF Onward, FreshUnknown
  <1>3. Drift(t) => loose \subseteq loose' /\ \A j \in fresh : failed'[j] = failed[j]
    BY <1>1, <1>2 DEF Drift, Adrift, Unanswered, TypeOK
  <1>4. QED
    BY <1>1, <1>2, <1>3 DEF Solo, InStep, JoinInv, JoinBusy

\* A step after which the container's keys are not loose has not set any loose.
LEMMA StillFirm ==
    ASSUME PortInv, NEW t \in Thread, Onward(t), NEW id, id = rq[t].id, Drift(t),
           Reg!Registered(id), rq[t].c = byID[id], Bound(id)' = Bound(id), ~Slack(id)'
    PROVE  loose' = loose /\ ~Slack(id) /\ ~Failed(id, Stray) /\ ~Failed(id, Stray)'
  <1>1. TypeOK /\ Tied(id) /\ id \in ContainerID
    BY OwnFacts
  <1>2. loose' = loose
    <2>1. ASSUME NEW call, Adrift(t, call) PROVE FALSE
      BY <2>1 DEF Adrift, Slack, Bound
    <2>2. QED
      BY <2>1 DEF Drift
  <1>3. ~Slack(id) /\ ~Failed(id, Stray)
    BY <1>1, <1>2 DEF Slack, Tied
  <1>4. ~Failed(id, Stray)'
    <2>1. CASE UNCHANGED <<failed, loose>>
      BY <1>3, <2>1 DEF Failed
    <2>2. CASE Unanswered(rq[t].id, "Status")
      <3>1. failed'[id] = failed[id] \cup {"Status"}
        BY <1>1, <2>2 DEF Unanswered, TypeOK
      <3>2. QED
        BY <1>3, <3>1 DEF Failed, Stray
    <2>3. ASSUME NEW call, Adrift(t, call) PROVE FALSE
      BY <2>3 DEF Adrift, Slack, Bound
    <2>4. QED
      BY <2>1, <2>2, <2>3 DEF Drift
  <1>5. QED
    BY <1>2, <1>3, <1>4

\* A later step of a use case other than create keeps JoinInv and the division
\* of the table if it does so for its own container; once the keys of that are
\* loose, it is enough that the step touches no others.
LEMMA OwnHold ==
    ASSUME PortInv, NEW t \in Thread, Onward(t), NEW id, id = rq[t].id, Drift(t),
           rq[t].pc \notin CreatePC, rq'[t].pc \notin CreatePC,
           Reg!Registered(id), rq[t].c = byID[id],
           byID'[id] # Absent, Bound(id)' = Bound(id), byID'[id].data.net = byID[id].data.net,
           attach'[id] \in {attach[id], Bound(id), Absent},
           used' \ Bound(id) = used \ Bound(id),
           rq'[t].id # NoID => Along(t)',
           ~Slack(id)' =>
              /\ rq'[t].id # NoID => Steady(t)'
              /\ rq'[t].id = NoID => JoinRest(id)'
              /\ \/ used' = used /\ (~Released(t) <=> (rq'[t].id # NoID => ~Released(t)'))
                 \/ used' = used \ Bound(id) /\ ~Released(t) /\ rq'[t].id # NoID /\ Released(t)'
    PROVE  HoldMoves /\ JoinInv'
  <1>i. /\ TypeOK /\ Solo /\ JoinInv /\ FreshUnknown /\ id \notin fresh
        /\ id \in ContainerID /\ id # NoID /\ \A u \in Thread \ {t} : rq[u].id # id
        /\ Tied(id) /\ loose \subseteq loose' /\ \A j \in fresh : failed'[j] = failed[j]
    BY OwnFacts
  <1>f. /\ Frame(t, id) /\ rq'[t].id \in {id, NoID} /\ \A u \in Thread \ {t} : rq'[u] = rq[u]
        /\ fresh' = fresh
    BY DEF Onward, Frame
  <1>h. ~Slack(id)' => loose' = loose /\ ~Failed(id, Stray)'
    BY StillFirm
  <1>1. JoinInv'
    <2>1. Asks(t)'
      BY DEF Asks
    <2>2. \A j \in fresh' : Pristine(j)'
      BY <1>i, <1>f DEF JoinInv, Pristine, Failed, Frame, TypeOK
    <2>3. Tied(id)'
      BY <1>h, <1>i DEF Tied, Reg!Registered
    <2>4. rq'[t].id # NoID => JoinBusy(t)'
      <3>1. rq'[t].id # NoID => (Slack(rq[t].id)' <=> Slack(id)')
        <4>1. rq'[t].id # NoID => rq'[t].id = id
          BY <1>f
        <4>2. QED
          BY <4>1 DEF Slack, Bound
      <3>2. QED
        BY <3>1 DEF JoinBusy
    <2>5. rq'[t].id = NoID => JoinRest(id)'
      BY DEF JoinRest
    <2>6. QED
      BY <1>i, <1>f, <2>1, <2>2, <2>3, <2>4, <2>5, JoinKept
  <1>2. /\ Holding(id) <=> ~Released(t)
        /\ Holding(id)' <=> (rq'[t].id # NoID => ~Released(t)')
    BY <1>i, <1>f DEF Holding, Reg!Registered
  <1> DEFINE o == <<"container", id>>
  <1>3. o \in Owner /\ (Holds(o) <=> Holding(id)) /\ (Holds(o)' <=> Holding(id)')
        /\ Keys(o) = Bound(id) /\ Keys(o)' = Bound(id)'
    BY <1>i DEF Owner, Holds, Keys
  <1>4. \A p \in Owner \ {o} : SameFor(p)
    <2>1. SameFor(<<"request", t>>)
      BY DEF SameFor, Holds, Reserving, CreatePC
    <2>2. QED
      BY <1>i, <1>f, <2>1, ElsewhereSame
  <1> HIDE DEF o
  <1>5. CASE Slack(id)'
    <2>1. Bound(id) \subseteq loose'
      BY <1>5 DEF Slack
    <2>2. used' \ loose' = used \ loose'
      BY <2>1
    <2>3. HoldLoose(o)
      BY <1>3, <1>4, <1>i, <2>1, <2>2 DEF HoldLoose
    <2>4. QED
      BY <1>1, <1>3, <2>3 DEF HoldMoves
  <1>6. CASE loose' = loose /\ used' = used /\ (Holding(id)' <=> Holding(id))
    <2>1. SameFor(o)
      BY <1>3, <1>6 DEF SameFor
    <2>2. QED
      BY <1>1, <1>4, <1>6, <2>1 DEF HoldMoves, HoldSame
  <1>7. CASE loose' = loose /\ used' = used \ Bound(id) /\ Holding(id) /\ ~Holding(id)'
    <2>1. HoldDrops(o)
      BY <1>3, <1>4, <1>7 DEF HoldDrops
    <2>2. QED
      BY <1>1, <1>3, <2>1 DEF HoldMoves
  <1>8. QED
    BY <1>2, <1>5, <1>6, <1>7, <1>h

\* The last steps of a removal: the entry goes, and with it what is known of an
\* attachment that a failed disconnect has left.
LEMMA GoneHold ==
    ASSUME PortInv, NEW t \in Thread, Onward(t), NEW id, id = rq[t].id,
           rq[t].pc \notin CreatePC, rq'[t].pc \notin CreatePC,
           UNCHANGED <<used, attach, failed, loose>>,
           Released(t), byID'[id] = Absent,
           attach[id] # Absent => attach[id] \subseteq loose,
           rq'[t].id # NoID => JoinBusy(t)'
    PROVE  HoldMoves /\ JoinInv'
  <1>i. /\ TypeOK /\ Solo /\ JoinInv /\ FreshUnknown
        /\ id \in ContainerID /\ id # NoID /\ \A u \in Thread \ {t} : rq[u].id # id
    BY OwnFacts
  <1>f. /\ Frame(t, id) /\ rq'[t].id \in {id, NoID} /\ fresh' = fresh
    BY DEF Onward, Frame
  <1>1. JoinInv'
    <2>1. Asks(t)' /\ Tied(id)' /\ JoinRest(id)'
      BY DEF Asks, Tied, JoinRest, Reg!Registered
    <2>2. \A j \in fresh' : Pristine(j)'
      BY <1>i, <1>f DEF JoinInv, Pristine, Failed
    <2>3. QED
      BY <1>i, <1>f, <2>1, <2>2, JoinKept
  <1>2. ~Holding(id) /\ ~Holding(id)'
    BY DEF Holding, Reg!Registered
  <1>3. SameFor(<<"container", id>>) /\ SameFor(<<"request", t>>)
    BY <1>2 DEF SameFor, Holds, Reserving, CreatePC
  <1>4. HoldSame
    BY <1>i, <1>f, <1>3, ElsewhereSame DEF HoldSame
  <1>5. QED
    BY <1>1, <1>4 DEF HoldMoves

\* The ports of a record are a set of keys, never the mark of no attachment.
LEMMA BoundNotAbsent ==
    ASSUME TypeOK, NEW id \in ContainerID, Reg!Registered(id)
    PROVE  Bound(id) # Absent
  <1>1. byID[id] \in Reg!Container
    BY DEF TypeOK, Reg!RegTypeOK, Reg!Registered
  <1>2. Bound(id) \in SUBSET Ports!Key
    BY <1>1 DEF Reg!Container, Data, Bound
  <1>3. QED
    BY <1>2, ServiceValues

\* ContainerStart keeps its container's ports, whether or not the attachment
\* succeeds: the process is running all the time, so that nothing is released
\* (containers.go:296-354, cni/adapter.go:500-560).
LEMMA StartHolds ==
    ASSUME PortInv, ~FastExit, NEW t \in Thread, Start(t),
           \A i \in ContainerID : ~StartResolve(t, i)
    PROVE  HoldMoves /\ JoinInv'
  <1>a. PICK id : id = rq[t].id
    OBVIOUS
  <1>0. TypeOK /\ Solo /\ Drift(t)
    BY AllDrift DEF PortInv, CalmInv, Inv
  <1>o. /\ Onward(t) /\ rq[t].pc \in StartPC
        /\ rq'[t].id # NoID => rq'[t].pc \in StartPC
    BY <1>0, StartFrame
  <1>i. /\ TypeOK /\ RqTypeOK /\ NameIndex /\ \A u \in Thread \ {t} : rq[u].id # id
        /\ id \in ContainerID /\ id # NoID /\ Busy(t) /\ JoinBusy(t) /\ Along(t) /\ Tied(id)
    BY <1>a, <1>o, OwnFacts
  <1> USE DEF StartPC, Stored, StopPC, InspectPC, RemovePC, Launched, Joining, Undecided
  <1>c. /\ rq[t].pc \notin CreatePC /\ rq'[t].pc \notin CreatePC
        /\ ~Released(t) /\ (rq'[t].id # NoID => ~Released(t)')
    <2>1. rq'[t].pc \in StartPC \cup {"idle"}
      BY <1>o DEF Onward
    <2>2. rq[t].pc \notin CreatePC /\ rq'[t].pc \notin CreatePC
      BY <1>o, <2>1 DEF CreatePC
    <2>3. ~Released(t) /\ (rq'[t].id # NoID => ~Released(t)')
      BY <1>o DEF Released
    <2>4. QED
      BY <2>2, <2>3
  <1>m. /\ Reg!Registered(id) /\ rq[t].c = byID[id] /\ Asked(t) = Bound(id)
        /\ ~Slack(id) => Steady(t)
    BY <1>a, <1>i, <1>o DEF Busy, Bound, Asked, JoinBusy
  <1>k. ASSUME byID'[id] # Absent, Bound(id)' = Bound(id), byID'[id].data.net = byID[id].data.net,
               attach'[id] \in {attach[id], Bound(id)},
               \/ used' = used
               \/ used' = used \cup Bound(id) /\ (~Slack(id) => used' = used),
               rq'[t].id # NoID => Along(t)',
               (~Slack(id)' /\ ~Slack(id) /\ Steady(t)) =>
                   (rq'[t].id # NoID => Steady(t)') /\ (rq'[t].id = NoID => JoinRest(id)')
        PROVE  HoldMoves /\ JoinInv'
    <2>1. ~Slack(id)' => ~Slack(id)
      BY <1>0, <1>a, <1>k, <1>m, <1>o, StillFirm
    <2>2. used' \ Bound(id) = used \ Bound(id)
      BY <1>k
    <2>3. ~Slack(id)' => used' = used
      BY <1>k, <2>1
    <2>4. ~Slack(id)' => (rq'[t].id # NoID => Steady(t)') /\ (rq'[t].id = NoID => JoinRest(id)')
      BY <1>k, <1>m, <2>1
    <2>5. QED
      BY <1>0, <1>a, <1>c, <1>k, <1>m, <1>o, <2>2, <2>3, <2>4, OwnHold
  <1>b. ASSUME byID' = byID
        PROVE  /\ byID'[id] # Absent /\ Bound(id)' = Bound(id)
               /\ byID'[id].data.net = byID[id].data.net
    BY <1>b, <1>m DEF Bound, Reg!Registered
  <1>1. CASE \/ StartStatus(t) \/ StartOpenLog(t) \/ StartDiscard(t) \/ StartNewTask(t)
             \/ StartRun(t) \/ StartUndo(t)
    <2>1. UNCHANGED <<byID, attach, used>> /\ rq[t].pc \notin Joining
      BY <1>1 DEF StartStatus, StartOpenLog, StartDiscard, StartNewTask, StartRun, StartUndo,
                  regVars, At
    <2>2. \/ Leaves(t) \/ Hops(t, "s_open") \/ Hops(t, "s_discard") \/ Hops(t, "s_task")
          \/ Hops(t, "s_run") \/ (Hops(t, "s_pid") /\ task'[id] = "running")
      BY <1>1, <1>a, <1>i, GotoHops, ReturnLeaves
      DEF StartStatus, StartOpenLog, StartDiscard, StartNewTask, StartRun, StartUndo, StartFails, TypeOK
    <2>3. rq'[t].id # NoID => Along(t)'
      BY <1>a, <2>2 DEF Along, Hops, Leaves
    <2>4. ASSUME Steady(t)
          PROVE  (rq'[t].id # NoID => Steady(t)') /\ (rq'[t].id = NoID => JoinRest(id)')
      <3>1. rq'[t].id = NoID => JoinRest(id)'
        BY <1>a, <1>o, <2>1, <2>4 DEF Steady, JoinRest, Ready, Untouched, Bound
      <3>2. rq'[t].id # NoID => Steady(t)'
        BY <1>a, <1>o, <2>1, <2>2, <2>4 DEF Steady, Hops, Leaves, Ready, Untouched, Bound, Done
      <3>3. QED
        BY <3>1, <3>2
    <2>5. QED
      BY <1>b, <1>k, <2>1, <2>3, <2>4
  <1>2. CASE StartPID(t) \/ StartAdopt(t) \/ StartFinal(t) \/ StartJoinFailed(t)
    <2>0. task[id] = "running" /\ Status(id) = "running"
      BY <1>2, <1>a, <1>i DEF StartPID, StartAdopt, StartFinal, StartJoinFailed, At, Along, Status
    <2>1. UNCHANGED <<byID, attach, used, task>>
      BY <1>2, <1>a, <2>0
      DEF StartPID, StartAdopt, StartFinal, StartJoinFailed, regVars, ctdVars
    <2>2. \/ Hops(t, "s_final") /\ ~rq[t].c.data.net /\ rq[t].pc \notin Joining
          \/ rq[t].pc \notin Joining /\ \E pc \in {"s_adopt", "s_add", "s_restore", "s_failed", "s_undo"} : Hops(t, pc)
          \/ Hops(t, "s_mark") /\ rq[t].pc = "s_final"
      BY <1>2, <1>a, <1>i, <2>0, GotoHops
      DEF StartPID, StartAdopt, StartFinal, StartJoinFailed, At
    <2>3. Along(t)'
      BY <1>a, <2>0, <2>1, <2>2 DEF Along, Hops
    <2>4. ~rq[t].c.data.net => Bound(id) = {}
      BY <1>i, <1>m DEF Tied
    <2>5. ASSUME Steady(t) PROVE Steady(t)'
      <3>1. CASE Hops(t, "s_final") /\ ~rq[t].c.data.net
        BY <1>a, <2>1, <2>4, <2>5, <3>1 DEF Steady, Hops, Ready, Untouched, Bound, Done
      <3>2. CASE rq[t].pc \notin Joining /\ \E pc \in {"s_adopt", "s_add", "s_restore", "s_failed", "s_undo"} : Hops(t, pc)
        BY <1>a, <1>o, <2>1, <2>5, <3>2 DEF Steady, Hops, Ready, Untouched, Bound, Done
      <3>3. CASE Hops(t, "s_mark") /\ rq[t].pc = "s_final"
        BY <1>a, <2>1, <2>5, <3>3 DEF Steady, Hops, Ready, Untouched, Bound, Done
      <3>4. QED
        BY <2>2, <3>1, <3>2, <3>3
    <2>6. rq'[t].id # NoID
      BY <1>a, <1>i, <2>2 DEF Hops
    <2>7. QED
      BY <1>b, <1>k, <2>1, <2>3, <2>5, <2>6
  <1>3. CASE StartAdd(t)
    <2>1. UNCHANGED <<byID, used, task>> /\ rq[t].pc = "s_add" /\ task[id] = "running"
      BY <1>3, <1>a, <1>i DEF StartAdd, regVars, ctdVars, At, Along
    <2>2. \/ Hops(t, "s_final") /\ attach'[id] = Bound(id)
          \/ Hops(t, "s_restore") /\ attach'[id] = attach[id]
      BY <1>3, <1>a, <1>i, <1>m, GotoHops DEF StartAdd, TypeOK, Asked
    <2>3. Along(t)'
      BY <1>a, <2>1, <2>2 DEF Along, Hops
    <2>4. Bound(id) # Absent
      BY <1>a, <1>i, <1>m, BoundNotAbsent
    <2>5. ASSUME Steady(t) PROVE Steady(t)'
      BY <1>a, <2>1, <2>2, <2>4, <2>5 DEF Steady, Hops, Ready, Untouched, Bound, Done
    <2>6. rq'[t].id # NoID
      BY <1>a, <1>i, <2>2 DEF Hops
    <2>7. QED
      BY <1>b, <1>k, <2>1, <2>2, <2>3, <2>5, <2>6
  <1>4. CASE StartRestore(t)
    <2>1. UNCHANGED <<byID, attach, task>> /\ rq[t].pc = "s_restore" /\ task[id] = "running"
      BY <1>4, <1>a, <1>i DEF StartRestore, regVars, ctdVars, At, Along
    <2>2. Hops(t, "s_failed")
      BY <1>4, <1>i, GotoHops DEF StartRestore
    <2>3. ASSUME ~Slack(id) PROVE used' = used
      <3>1. Holding(id)
        BY <1>a, <1>c, <1>i, <1>m, HoldingOwn
      <3>2. <<"container", id>> \in Owner
        BY <1>i DEF Owner
      <3>3. Bound(id) \ loose \subseteq used
        BY <3>1, <3>2 DEF PortInv, HoldInv, Holds, Keys
      <3>4. PICK k \in Bound(id) : k \in used
        BY <2>3, <3>3 DEF Slack
      <3>5. ~Ports!ReserveAll(Asked(t))
        BY <1>m, <3>4 DEF Ports!ReserveAll, Ports!Reservable, Ports!conflictsLocked, Ports!Overlap
      <3>6. QED
        BY <1>4, <3>5 DEF StartRestore, Asked
    <2>4. used' = used \/ used' = used \cup Bound(id)
      BY <1>4, <1>m DEF StartRestore, Ports!ReserveAll, Asked
    <2>5. Along(t)'
      BY <1>a, <2>1, <2>2 DEF Along, Hops
    <2>6. ASSUME Steady(t) PROVE Steady(t)'
      BY <1>a, <2>1, <2>2, <2>6 DEF Steady, Hops, Ready, Untouched, Bound, Done
    <2>7. rq'[t].id # NoID
      BY <1>a, <1>i, <2>2 DEF Hops
    <2>8. QED
      BY <1>b, <1>k, <2>1, <2>3, <2>4, <2>5, <2>6, <2>7
  <1>5. CASE StartMark(t)
    <2>1. UNCHANGED <<attach, used>> /\ rq[t].pc = "s_mark" /\ Leaves(t) /\ SaveAs(t, "running")
      BY <1>5, <1>i, ReturnLeaves DEF StartMark, At
    <2>2. /\ byID'[id] # Absent
          /\ byID'[id].data.ports = byID[id].data.ports /\ byID'[id].data.net = byID[id].data.net
          /\ byID'[id].data.state = "running" \/ Adrift(t, "Save")
      BY <1>a, <1>i, <1>m, <2>1, SaveOutcome DEF State
    <2>3. Bound(id)' = Bound(id)
      BY <2>2 DEF Bound
    <2>4. ASSUME ~Slack(id)', Steady(t) PROVE JoinRest(id)'
      <3>1. ~Adrift(t, "Save")
        BY <1>m, <2>3, <2>4 DEF Adrift, Slack, Asked
      <3>2. QED
        BY <1>a, <2>1, <2>2, <2>3, <2>4, <3>1 DEF Steady, JoinRest, Ready, Untouched
    <2>5. rq'[t].id = NoID
      BY <2>1 DEF Leaves
    <2>6. QED
      BY <1>k, <2>1, <2>2, <2>3, <2>4, <2>5
  <1>6. ~StartSaveExited(t)
    BY <1>i DEF StartSaveExited, At, Along
  <1>7. QED
    BY <1>1, <1>2, <1>3, <1>4, <1>5, <1>6 DEF Start

\* ContainerStop and ContainerInspect leave the ports alone, and save a state
\* other than created only for a container that has been started
\* (containers.go:357-382, service.go:262-322).
LEMMA LookHolds ==
    ASSUME PortInv, NEW t \in Thread, Stop(t) \/ Inspect(t),
           \A i \in ContainerID : ~StopResolve(t, i) /\ ~InspectResolve(t, i)
    PROVE  HoldMoves /\ JoinInv'
  <1>a. PICK id : id = rq[t].id
    OBVIOUS
  <1>0. TypeOK /\ Solo /\ Drift(t)
    BY AllDrift DEF PortInv, CalmInv, Inv
  <1>o. /\ Onward(t) /\ UNCHANGED <<attach, used>> /\ rq[t].pc \in StopPC \cup InspectPC
        /\ rq'[t].id # NoID => rq'[t].pc \in StopPC \cup InspectPC
    BY <1>0, LookFrame
  <1>i. /\ TypeOK /\ RqTypeOK /\ NameIndex
        /\ id \in ContainerID /\ id # NoID /\ Busy(t) /\ JoinBusy(t) /\ Along(t) /\ Tied(id)
    BY <1>a, <1>o, OwnFacts
  <1> USE DEF StartPC, Stored, StopPC, InspectPC, RemovePC, Launched, Joining, Undecided
  <1>c. /\ rq[t].pc \notin CreatePC /\ rq'[t].pc \notin CreatePC
        /\ ~Released(t) /\ (rq'[t].id # NoID => ~Released(t)')
    <2>1. rq'[t].pc \in StopPC \cup InspectPC \cup {"idle"}
      BY <1>o DEF Onward
    <2>2. rq[t].pc \notin CreatePC /\ rq'[t].pc \notin CreatePC
      BY <1>o, <2>1 DEF CreatePC
    <2>3. ~Released(t) /\ (rq'[t].id # NoID => ~Released(t)')
      BY <1>o DEF Released
    <2>4. QED
      BY <2>2, <2>3
  <1>m. Reg!Registered(id) /\ rq[t].c = byID[id] /\ (~Slack(id) => Steady(t))
    BY <1>a, <1>i, <1>o DEF Busy, JoinBusy
  <1>k. ASSUME byID'[id] # Absent, Bound(id)' = Bound(id), byID'[id].data.net = byID[id].data.net,
               rq'[t].id # NoID => Along(t)',
               (~Slack(id)' /\ ~Slack(id) /\ ~Failed(id, Stray) /\ Steady(t)) =>
                   (rq'[t].id # NoID => Steady(t)') /\ (rq'[t].id = NoID => JoinRest(id)')
        PROVE  HoldMoves /\ JoinInv'
    <2>1. ~Slack(id)' => ~Slack(id) /\ ~Failed(id, Stray)
      BY <1>0, <1>a, <1>k, <1>m, <1>o, StillFirm
    <2>2. ~Slack(id)' => (rq'[t].id # NoID => Steady(t)') /\ (rq'[t].id = NoID => JoinRest(id)')
      BY <1>k, <1>m, <2>1
    <2>3. QED
      BY <1>0, <1>a, <1>c, <1>k, <1>m, <1>o, <2>2, OwnHold
  <1>b. ASSUME byID' = byID
        PROVE  /\ byID'[id] # Absent /\ Bound(id)' = Bound(id)
               /\ byID'[id].data.net = byID[id].data.net
    BY <1>b, <1>m DEF Bound, Reg!Registered
  <1>1. CASE StopStop(t) \/ StopRefresh(t) \/ StopCloseLog(t)
    <2>1. byID' = byID /\ rq[t].pc \in StopPC
      BY <1>1 DEF StopStop, StopRefresh, StopCloseLog, regVars, At
    <2>2. \/ Leaves(t)
          \/ rq'[t].pc \in StopPC /\ rq'[t].id = id
      BY <1>1, <1>a, <1>i, GotoHops, ReturnLeaves DEF StopStop, StopRefresh, StopCloseLog, Hops
    <2>3. rq'[t].id # NoID => Along(t)'
      BY <1>a, <1>i, <2>1, <2>2 DEF Along, Leaves, Untouched
    <2>4. ASSUME Steady(t)
          PROVE  (rq'[t].id # NoID => Steady(t)') /\ (rq'[t].id = NoID => JoinRest(id)')
      BY <1>a, <1>i, <1>o, <2>1, <2>2, <2>4
      DEF Along, Steady, Leaves, JoinRest, Ready, Untouched, Bound, Done
    <2>5. QED
      BY <1>b, <1>k, <2>1, <2>3, <2>4
  <1>2. CASE InspectRefresh(t)
    <2> DEFINE s == Status(id)
               old == byID[id].data.state
               keep == (old = "created" /\ s # "running") \/ (old = "running" /\ s = "running")
    <2>1. /\ byID' = byID /\ rq[t].pc = "i_refresh"
          /\ Leaves(t) \/ (~keep /\ rq' = [rq EXCEPT ![t].pc = "i_save", ![t].st = s])
      BY <1>2, <1>a, <1>i, <1>m, ReturnLeaves DEF InspectRefresh, At, regVars
    <2>2. Leaves(t) \/ (~keep /\ rq'[t].pc = "i_save" /\ rq'[t].st = s /\ rq'[t].id = id)
      <3> HIDE DEF s, keep
      <3> QED
        BY <1>a, <1>i, <2>1 DEF RqTypeOK, Request
    <2>3. rq'[t].id # NoID => Along(t)'
      BY <2>2 DEF Along, Leaves
    <2>4. ASSUME ~Failed(id, Stray), Steady(t)
          PROVE  (rq'[t].id # NoID => Steady(t)') /\ (rq'[t].id = NoID => JoinRest(id)')
      <3>1. s # "created" /\ (old = "created" => s # "running")
        BY <1>a, <1>i, <1>m, <2>1, <2>4
        DEF Busy, Status, Failed, Stray, StateLost
      <3>2. Leaves(t) \/ ~Untouched(id)
        BY <2>2, <3>1 DEF Untouched
      <3>3. rq'[t].id # NoID => Steady(t)'
        BY <1>a, <1>o, <2>1, <2>2, <2>4, <3>1, <3>2 DEF Steady, Leaves, Ready, Untouched, Bound, Done
      <3>4. rq'[t].id = NoID => JoinRest(id)'
        BY <1>a, <1>o, <2>1, <2>4 DEF Steady, JoinRest, Ready, Untouched, Bound
      <3>5. QED
        BY <3>3, <3>4
    <2>5. QED
      BY <1>b, <1>k, <2>1, <2>3, <2>4
  <1>3. ASSUME NEW s \in State, SaveAs(t, s), Leaves(t),
               Steady(t) => s # "created" /\ ~Untouched(id)
        PROVE  HoldMoves /\ JoinInv'
    <2>1. /\ byID'[id] # Absent
          /\ byID'[id].data.ports = byID[id].data.ports /\ byID'[id].data.net = byID[id].data.net
          /\ byID'[id].data.state = s \/ Adrift(t, "Save")
      BY <1>3, <1>a, <1>i, <1>m, SaveOutcome
    <2>2. Bound(id)' = Bound(id)
      BY <2>1 DEF Bound
    <2>3. ASSUME ~Slack(id)', Steady(t) PROVE JoinRest(id)'
      <3>1. ~Adrift(t, "Save")
        BY <1>m, <2>2, <2>3 DEF Adrift, Slack, Bound
      <3>2. QED
        BY <1>3, <1>a, <1>o, <2>1, <2>2, <2>3, <3>1 DEF Steady, JoinRest, Ready, Untouched
    <2>4. rq'[t].id = NoID
      BY <1>3 DEF Leaves
    <2>5. QED
      BY <1>k, <2>1, <2>2, <2>3, <2>4
  <1>4. CASE StopSave(t)
    <2>1. SaveAs(t, "exited") /\ Leaves(t) /\ ~Untouched(id) /\ "exited" \in State
      BY <1>4, <1>a, <1>i, ReturnLeaves DEF StopSave, At, Along, State
    <2>2. QED
      BY <1>3, <2>1
  <1>5. CASE InspectSave(t)
    <2>1. /\ SaveAs(t, rq[t].st) /\ Leaves(t) /\ rq[t].st \in State /\ rq[t].pc = "i_save"
      BY <1>5, <1>i, RequestParts, ReturnLeaves DEF InspectSave, At
    <2>2. Steady(t) => rq[t].st # "created" /\ ~Untouched(id)
      BY <1>a, <2>1 DEF Steady
    <2>3. QED
      BY <1>3, <2>1, <2>2
  <1>6. QED
    BY <1>1, <1>2, <1>4, <1>5 DEF Stop, Inspect

\* ContainerRemove gives the ports back once: with the attachment if there is
\* one, and by itself if the container never ran; a failure on the way sets them
\* loose (containers.go:384-422, service.go:217-224).
LEMMA RemoveHolds ==
    ASSUME PortInv, NEW t \in Thread, Remove(t), \A i \in ContainerID : ~RemoveResolve(t, i)
    PROVE  HoldMoves /\ JoinInv'
  <1>a. PICK id : id = rq[t].id
    OBVIOUS
  <1>0. TypeOK /\ Solo /\ Drift(t)
    BY AllDrift DEF PortInv, CalmInv, Inv
  <1>o. Onward(t) /\ rq[t].pc \in RemovePC /\ (rq'[t].id # NoID => rq'[t].pc \in RemovePC)
    BY <1>0, RemoveFrame
  <1>i. /\ TypeOK /\ RqTypeOK
        /\ id \in ContainerID /\ id # NoID /\ Busy(t) /\ JoinBusy(t) /\ Along(t) /\ Tied(id)
    BY <1>a, <1>o, OwnFacts
  <1> USE DEF StartPC, Stored, StopPC, InspectPC, RemovePC, Launched, Joining, Undecided
  <1>c. rq[t].pc \notin CreatePC /\ rq'[t].pc \notin CreatePC
    <2>1. rq'[t].pc \in RemovePC \cup {"idle"}
      BY <1>o DEF Onward
    <2>2. QED
      BY <1>o, <2>1 DEF CreatePC
  <1>m. rq[t].pc # "r_logs" =>
            Reg!Registered(id) /\ rq[t].c = byID[id] /\ (~Slack(id) => Steady(t))
    BY <1>a, <1>i, <1>o DEF Busy, JoinBusy
  <1>d. ASSUME NEW call, Adrift(t, call), byID' = byID, rq[t].pc # "r_logs" PROVE Slack(id)'
    BY <1>d, <1>m DEF Adrift, Slack, Bound
  <1>k. ASSUME byID' = byID, rq[t].pc # "r_logs",
               attach'[id] \in {attach[id], Absent},
               used' = used \/ used' = used \ Bound(id),
               rq'[t].id # NoID => Along(t)',
               (~Slack(id)' /\ Steady(t)) =>
                  /\ rq'[t].id # NoID => Steady(t)'
                  /\ rq'[t].id = NoID => JoinRest(id)'
                  /\ \/ used' = used /\ (~Released(t) <=> (rq'[t].id # NoID => ~Released(t)'))
                     \/ used' = used \ Bound(id) /\ ~Released(t) /\ rq'[t].id # NoID /\ Released(t)'
        PROVE  HoldMoves /\ JoinInv'
    <2>0. Reg!Registered(id) /\ rq[t].c = byID[id]
      BY <1>k, <1>m
    <2>1. /\ byID'[id] # Absent /\ Bound(id)' = Bound(id)
          /\ byID'[id].data.net = byID[id].data.net
      BY <1>k, <2>0 DEF Bound, Reg!Registered
    <2>2. ~Slack(id)' => ~Slack(id)
      BY <1>0, <1>a, <1>o, <2>0, <2>1, StillFirm
    <2>3. used' \ Bound(id) = used \ Bound(id)
      BY <1>k
    <2>4. ~Slack(id)' => Steady(t)
      BY <1>k, <1>m, <2>2
    <2>5. QED
      BY <1>0, <1>a, <1>c, <1>k, <1>o, <2>0, <2>1, <2>3, <2>4, OwnHold
  <1>1. CASE RemoveStatus(t) \/ RemoveStop(t)
    <2>1. UNCHANGED <<byID, attach, used>> /\ rq[t].pc \in {"r_status", "r_stop"}
      BY <1>1 DEF RemoveStatus, RemoveStop, regVars, At
    <2>2. Leaves(t) \/ Hops(t, "r_stop") \/ Hops(t, "r_disc")
      BY <1>1, <1>i, GotoHops, ReturnLeaves DEF RemoveStatus, RemoveStop
    <2>3. rq'[t].id # NoID => Along(t)'
      BY <2>2 DEF Along, Hops, Leaves
    <2>4. ~Released(t) /\ (rq'[t].id # NoID => ~Released(t)')
      BY <2>1, <2>2 DEF Released, Hops, Leaves
    <2>5. Steady(t) => (rq'[t].id # NoID => Steady(t)') /\ (rq'[t].id = NoID => JoinRest(id)')
      BY <1>a, <2>1, <2>2 DEF Steady, Hops, Leaves, JoinRest, Ready, Untouched, Bound, Done
    <2>6. QED
      BY <1>k, <2>1, <2>3, <2>4, <2>5
  <1>2. CASE RemoveDisconnect(t)
    <2>1. UNCHANGED <<byID, attach, used>> /\ rq[t].pc = "r_disc" /\ ~Released(t)
      BY <1>2 DEF RemoveDisconnect, regVars, At, Released
    <2>2. CASE Goto(t, "r_free")
      <3>1. Hops(t, "r_free")
        BY <1>i, <2>2, GotoHops
      <3>2. rq'[t].id # NoID /\ Along(t)'
        BY <1>a, <1>i, <3>1 DEF Along, Hops
      <3>3. ASSUME ~Slack(id)', Steady(t)
            PROVE  /\ Steady(t)'
                   /\ \/ used' = used /\ ~Released(t)'
                      \/ used' = used \ Bound(id) /\ Released(t)'
        <4>1. attach[id] = Absent
          <5>1. ~(rq' = [rq EXCEPT ![t].pc = "r_forget", ![t].al = attach[id]])
            BY <1>i, <3>1 DEF Hops, RqTypeOK, Request
          <5>2. ~Adrift(t, "Disconnect")
            BY <1>d, <2>1, <3>3
          <5>3. QED
            BY <1>2, <1>a, <5>1, <5>2 DEF RemoveDisconnect
        <4>2. Released(t)' <=> ~Untouched(id)
          BY <1>a, <1>m, <2>1, <3>1 DEF Released, Hops, Untouched
        <4>3. ~Untouched(id) => Bound(id) = {}
          BY <1>a, <2>1, <3>3, <4>1 DEF Steady, Ready
        <4>4. Steady(t)'
          BY <1>a, <2>1, <3>1, <4>1 DEF Steady, Hops
        <4>5. QED
          BY <2>1, <4>2, <4>3, <4>4
      <3>4. QED
        BY <1>k, <2>1, <3>2, <3>3
    <2>3. CASE attach[id] # Absent /\ rq' = [rq EXCEPT ![t].pc = "r_forget", ![t].al = attach[id]]
      <3>1. rq'[t].pc = "r_forget" /\ rq'[t].al = attach[id] /\ rq'[t].id = id
        BY <1>a, <1>i, <2>3 DEF RqTypeOK, Request
      <3>2. Along(t)' /\ ~Released(t)'
        BY <2>1, <2>3, <3>1 DEF Along, Released
      <3>3. Steady(t) => Steady(t)'
        BY <1>a, <2>1, <3>1 DEF Steady, Ready, Untouched, Bound, Done
      <3>4. QED
        BY <1>i, <1>k, <2>1, <3>1, <3>2, <3>3
    <2>4. QED
      BY <1>2, <1>a, <2>2, <2>3 DEF RemoveDisconnect
  <1>3. CASE RemoveForget(t)
    <2>1. /\ byID' = byID /\ rq[t].pc = "r_forget" /\ attach'[id] = Absent /\ Hops(t, "r_free")
          /\ used' = used \ rq[t].al
      BY <1>3, <1>a, <1>i, GotoHops DEF RemoveForget, regVars, At, TypeOK, Ports!Free
    <2>2. used' = used \ Bound(id) /\ attach[id] # Absent
      BY <1>a, <1>i, <1>m, <2>1 DEF Along, Tied
    <2>3. rq'[t].id # NoID /\ Along(t)'
      BY <1>a, <1>i, <2>1 DEF Along, Hops
    <2>4. ASSUME Steady(t) PROVE Steady(t)' /\ ~Released(t) /\ Released(t)'
      <3>1. ~Untouched(id)
        BY <1>a, <2>1, <2>2, <2>4 DEF Steady
      <3>2. Steady(t)'
        BY <1>a, <2>1, <3>1 DEF Steady, Hops, Untouched
      <3>3. ~Released(t) /\ Released(t)'
        BY <1>m, <2>1, <3>1 DEF Released, Hops, Untouched
      <3>4. QED
        BY <3>2, <3>3
    <2>5. QED
      BY <1>k, <2>1, <2>2, <2>3, <2>4
  <1>4. CASE RemoveFree(t)
    <2>1. UNCHANGED <<byID, attach>> /\ rq[t].pc = "r_free" /\ Hops(t, "r_task")
      BY <1>4, <1>i, GotoHops DEF RemoveFree, regVars, At
    <2>2. rq'[t].id # NoID /\ Along(t)' /\ (Steady(t) => Steady(t)')
      BY <1>a, <1>i, <2>1 DEF Along, Steady, Hops, Untouched
    <2>3. (Released(t) <=> ~Untouched(id)) /\ Released(t)'
      BY <1>m, <2>1 DEF Released, Hops, Untouched
    <2>4. IF Untouched(id) THEN used' = used \ Bound(id) ELSE used' = used
      BY <1>4, <1>m, <2>1 DEF RemoveFree, Untouched, Bound, Ports!Free
    <2>5. QED
      BY <1>k, <2>1, <2>2, <2>3, <2>4
  <1>5. CASE \/ RemoveTask(t) \/ RemoveMeta(t) \/ RemoveSnapshot(t)
             \/ (RemoveUnregister(t) /\ Adrift(t, "Unregister") /\ UNCHANGED regVars)
    <2>1. UNCHANGED <<byID, attach, used>> /\ rq[t].pc \in Done /\ rq[t].pc # "r_logs" /\ Released(t)
      BY <1>5
      DEF RemoveTask, RemoveMeta, RemoveSnapshot, RemoveUnregister, At, regVars, Done, Released
    <2>2. (Leaves(t) /\ Slack(id)') \/ \E pc \in Done \cup {"r_logs"} : Hops(t, pc)
      <3>1. CASE RemoveTask(t)
        BY <1>d, <1>i, <2>1, <3>1, GotoHops, ReturnLeaves DEF RemoveTask, Done
      <3>2. CASE RemoveMeta(t) \/ RemoveSnapshot(t)
        BY <1>d, <1>i, <2>1, <3>2, GotoHops, ReturnLeaves DEF RemoveMeta, RemoveSnapshot, Done
      <3>3. CASE RemoveUnregister(t) /\ Adrift(t, "Unregister") /\ UNCHANGED regVars
        BY <1>d, <1>i, <2>1, <3>3, GotoHops, ReturnLeaves DEF RemoveUnregister, Done
      <3>4. QED
        BY <1>5, <3>1, <3>2, <3>3
    <2>3. rq'[t].id # NoID => Along(t)'
      BY <2>2 DEF Along, Hops, Leaves, Done
    <2>4. ASSUME ~Slack(id)', Steady(t)
          PROVE  rq'[t].id # NoID /\ Steady(t)' /\ Released(t)'
      BY <1>a, <1>i, <2>1, <2>2, <2>4 DEF Steady, Hops, Released, Done, Untouched
    <2>5. QED
      BY <1>k, <2>1, <2>3, <2>4
  <1>6. CASE RemoveUnregister(t) /\ ~(Adrift(t, "Unregister") /\ UNCHANGED regVars)
    <2>1. /\ UNCHANGED <<attach, used, failed, loose>> /\ rq[t].pc = "r_unreg" /\ Released(t)
          /\ Goto(t, "r_logs")
          /\ Reg!Remove(id) \/ (~Reg!Registered(id) /\ UNCHANGED regVars)
      BY <1>6, <1>a DEF RemoveUnregister, At, Released
    <2>2. byID'[id] = Absent
      BY <1>i, <2>1 DEF Reg!Remove, Reg!Registered, regVars, TypeOK, Reg!RegTypeOK
    <2>3. Hops(t, "r_logs")
      BY <1>i, <2>1, GotoHops
    <2>4. JoinBusy(t)'
      BY <2>3 DEF JoinBusy, Along, Hops
    <2>5. attach[id] # Absent => attach[id] \subseteq loose
      <3>1. CASE Slack(id)
        BY <1>i, <1>m, <2>1, <3>1 DEF Tied, Slack
      <3>2. CASE ~Slack(id)
        BY <1>a, <1>m, <2>1, <3>2 DEF Steady, Done
      <3>3. QED
        BY <3>1, <3>2
    <2>6. QED
      BY <1>a, <1>c, <1>o, <2>1, <2>2, <2>4, <2>5, GoneHold
  <1>7. CASE RemoveLogs(t)
    <2>1. /\ UNCHANGED <<byID, attach, used, failed, loose>> /\ rq[t].pc = "r_logs" /\ Released(t)
          /\ Leaves(t)
      BY <1>7, <1>i, ReturnLeaves DEF RemoveLogs, regVars, At, Released
    <2>2. ~Reg!Registered(id)
      BY <1>a, <1>i, <2>1 DEF Busy
    <2>3. byID'[id] = Absent /\ (attach[id] # Absent => attach[id] \subseteq loose)
      BY <1>i, <2>1, <2>2 DEF Tied, Reg!Registered
    <2>4. QED
      BY <1>a, <1>c, <1>o, <2>1, <2>3, GoneHold DEF Leaves
  <1>8. QED
    BY <1>1, <1>2, <1>3, <1>4, <1>5, <1>6, <1>7 DEF Remove

\* ContainerCreate takes ports that nobody holds, hands them to its container
\* with the registry entry, and gives them back on every failure
\* (containers.go:60-106, 560-595).
LEMMA CreateHolds ==
    ASSUME PortInv, NEW t \in Thread, Create(t)
    PROVE  HoldMoves /\ JoinInv'
  <1>i. /\ TypeOK /\ Solo /\ RqTypeOK /\ InStep /\ JoinInv /\ FreshUnknown
        /\ NoID \notin ContainerID /\ Asks(t)
    BY ServiceValues DEF PortInv, CalmInv, Inv, OwnerInv, TypeOK, RqTypeOK, InStep, JoinInv
  <1>f. PICK f \in ContainerID \cup {NoID} :
            /\ f = Focus(t) /\ Frame(t, f) /\ (f = NoID \/ \A u \in Thread \ {t} : rq[u].id # f)
            /\ rq'[t].pc \in {"idle"} \cup CreatePC
    <2>1. /\ Frame(t, Focus(t)) /\ Focus(t) \in ContainerID \cup {NoID}
          /\ rq'[t].pc \in {"idle"} \cup CreatePC
      BY <1>i, CreateFrame
    <2>2. Focus(t) = NoID \/ \A u \in Thread \ {t} : rq[u].id # Focus(t)
      BY <1>i, CreateFrame DEF Focus, Solo
    <2>3. QED
      BY <2>1, <2>2
  <1> DEFINE r == <<"request", t>>
             o == <<"container", f>>
  <1>r. /\ r \in Owner /\ (Holds(r) <=> Reserving(t)) /\ (Holds(r)' <=> Reserving(t)')
        /\ Keys(r) = Asked(t) /\ Keys(r)' = Asked(t)'
    BY DEF Owner, Holds, Keys
  <1>o. /\ o # r /\ (f \in ContainerID => o \in Owner) /\ (f = NoID => o \notin Owner)
        /\ (Holds(o) <=> Holding(f)) /\ (Holds(o)' <=> Holding(f)')
        /\ Keys(o) = Bound(f) /\ Keys(o)' = Bound(f)'
    BY <1>i DEF Owner, Holds, Keys
  <1>e. \A p \in Owner \ {o, r} : SameFor(p)
    BY <1>f, <1>i, ElsewhereSame
  <1> HIDE DEF r, o
  <1>l. loose' = loose /\ attach' = attach /\ (failed' = failed \/ CreateNew(t) \/ CreateUndo(t))
    <2>1. CASE \E n \in Name \cup {NoName}, keys \in PortRequests, net \in NetModes :
                  CreateValidate(t, n, keys, net)
      BY <2>1 DEF CreateValidate
    <2>2. CASE CreateAllocate(t) \/ CreateFind(t) \/ CreateSave(t)
      BY <2>2 DEF CreateAllocate, CreateFind, CreateSave
    <2>3. CASE CreateNew(t) \/ CreateUndo(t)
      BY <2>3 DEF CreateNew, CreateUndo
    <2>4. QED
      BY <2>1, <2>2, <2>3 DEF Create
  <1>q. /\ \A j \in fresh' : Pristine(j)'
        /\ (rq'[t].pc = "c_save" /\ rq'[t].id \in fresh) => Pristine(rq[t].id)'
    <2>1. fresh' \subseteq fresh
      BY <1>f DEF Frame
    <2>2. \A j \in fresh : failed'[j] \subseteq failed[j] \cup {"NewContainer"}
      <3>1. CASE CreateNew(t)
        BY <1>i, <3>1 DEF CreateNew, Unanswered, TypeOK
      <3>2. CASE CreateUndo(t)
        BY <1>i, <3>2 DEF CreateUndo, Unanswered, TypeOK, FreshUnknown
      <3>3. CASE UNCHANGED failed
        BY <3>3
      <3>4. QED
        BY <1>l, <3>1, <3>2, <3>3
    <2>3. ASSUME NEW j \in fresh PROVE attach'[j] = Absent /\ ~\E call \in Stray : call \in failed'[j]
      BY <1>i, <1>l, <2>2 DEF JoinInv, Pristine, Failed, Stray
    <2>4. QED
      BY <2>1, <2>3 DEF Pristine, Failed
  <1>b. /\ rq'[t].pc \in CreatePC \ {"c_save"} => JoinBusy(t)'
        /\ (rq'[t].pc = "c_save" /\ rq'[t].id \in fresh) => JoinBusy(t)'
    BY <1>q
    DEF JoinBusy, Along, CreatePC, StartPC, StopPC, InspectPC, RemovePC, Launched, Joining, Stored,
        Undecided
  <1>k. ASSUME Asks(t)', f \in ContainerID => Tied(f)' /\ JoinRest(f)',
               rq'[t].id # NoID => \/ rq'[t].pc \in CreatePC \ {"c_save"}
                                   \/ rq'[t].pc = "c_save" /\ rq'[t].id \in fresh
        PROVE  JoinInv'
    BY <1>b, <1>f, <1>i, <1>k, <1>l, <1>q, JoinKept
  <1>n. ASSUME f \in ContainerID => ~Reg!Registered(f) /\ byID'[f] = Absent
        PROVE  /\ f \in ContainerID => Tied(f)' /\ JoinRest(f)' /\ SameFor(o)
               /\ \A p \in Owner \ {r} : SameFor(p)
    <2>1. f \in ContainerID => Tied(f)' /\ JoinRest(f)'
      BY <1>i, <1>l, <1>n DEF JoinInv, Tied, JoinRest, Reg!Registered
    <2>2. f \in ContainerID => SameFor(o)
      BY <1>n, <1>o DEF SameFor, Holding, Reg!Registered
    <2>3. QED
      BY <1>e, <1>o, <2>1, <2>2
  <1>d. ASSUME f \in ContainerID => ~Reg!Registered(f) /\ byID'[f] = Absent,
               Ports!Free(rq[t].c.data.ports), Reserving(t),
               \/ Leaves(t) \/ (Hops(t, "c_undo") /\ rq[t].id # NoID)
        PROVE  HoldMoves /\ JoinInv'
    <2>1. /\ ~Reserving(t)' /\ Asks(t)'
          /\ rq'[t].id # NoID => rq'[t].pc \in CreatePC \ {"c_save"}
      BY <1>d, <1>i DEF Reserving, Asks, Asked, CreatePC, Hops, Leaves
    <2>2. used' = used \ Asked(t)
      BY <1>d DEF Ports!Free, Asked
    <2>3. HoldDrops(r)
      BY <1>d, <1>l, <1>n, <1>r, <2>1, <2>2 DEF HoldDrops
    <2>4. QED
      BY <1>d, <1>k, <1>n, <1>r, <2>1, <2>3 DEF HoldMoves
  <1>1. ASSUME NEW n \in Name \cup {NoName}, NEW keys \in PortRequests, NEW net \in NetModes,
               CreateValidate(t, n, keys, net)
        PROVE  HoldMoves /\ JoinInv'
    <2>1. /\ rq'[t].pc = "c_alloc" /\ rq'[t].id = NoID /\ rq[t].id = NoID /\ rq[t].pc = "idle"
          /\ rq'[t].c = [name |-> n, data |-> [state |-> "created", ports |-> keys, net |-> net]]
      BY <1>1, <1>i DEF CreateValidate, At, Idle, RqTypeOK, Solo, NoIDYet
    <2>2. used' = used /\ f = NoID /\ (keys # {} => net)
      BY <1>1, <1>f, <2>1 DEF CreateValidate, Focus
    <2>3. Asks(t)' /\ ~Reserving(t) /\ ~Reserving(t)'
      BY <2>1, <2>2 DEF Asks, Asked, Reserving
    <2>4. HoldSame
      BY <1>e, <1>l, <1>o, <1>r, <2>2, <2>3 DEF HoldSame, SameFor
    <2>5. QED
      BY <1>i, <1>k, <2>1, <2>2, <2>3, <2>4 DEF HoldMoves
  <1>2. CASE CreateAllocate(t)
    <2>1. rq[t].pc = "c_alloc" /\ rq[t].id = NoID /\ ~Reserving(t)
      BY <1>2, <1>i DEF CreateAllocate, At, Solo, NoIDYet, Reserving
    <2>2. CASE Ports!ReserveAll(rq[t].c.data.ports) /\ Goto(t, "c_find")
      <3>1. Hops(t, "c_find")
        BY <1>i, <2>2, GotoHops
      <3>2. f = NoID /\ Reserving(t)' /\ Asked(t)' = Asked(t) /\ Asks(t)' /\ rq'[t].id = NoID
        BY <1>f, <1>i, <2>1, <3>1 DEF Hops, Focus, Reserving, Asked, Asks, CreatePC
      <3>3. Asked(t) \cap used = {} /\ used' = used \cup Asked(t)
        BY <2>2 DEF Ports!ReserveAll, Ports!Reservable, Ports!conflictsLocked, Ports!Overlap, Asked
      <3>4. HoldTakes(r)
        BY <1>e, <1>l, <1>o, <1>r, <2>1, <3>2, <3>3 DEF HoldTakes
      <3>5. QED
        BY <1>i, <1>k, <1>r, <3>2, <3>4 DEF HoldMoves
    <2>3. CASE UNCHANGED used /\ Return(t)
      <3>1. Leaves(t)
        BY <1>i, <2>3, ReturnLeaves
      <3>2. f = NoID /\ ~Reserving(t)' /\ Asks(t)' /\ rq'[t].id = NoID
        BY <1>f, <2>1, <3>1 DEF Leaves, Focus, Reserving, Asks, CreatePC
      <3>3. HoldSame
        BY <1>e, <1>l, <1>o, <1>r, <2>1, <2>3, <3>2 DEF HoldSame, SameFor
      <3>4. QED
        BY <1>i, <1>k, <3>2, <3>3 DEF HoldMoves
    <2>4. QED
      BY <1>2, <2>2, <2>3 DEF CreateAllocate
  <1>3. CASE CreateFind(t)
    <2>1. rq[t].pc = "c_find" /\ rq[t].id = NoID /\ Reserving(t)
      BY <1>3, <1>i DEF CreateFind, At, Solo, NoIDYet, Reserving
    <2>2. CASE UNCHANGED used /\ Goto(t, "c_new")
      <3>1. Hops(t, "c_new")
        BY <1>i, <2>2, GotoHops
      <3>2. f = NoID /\ Reserving(t)' /\ Asked(t)' = Asked(t) /\ Asks(t)' /\ rq'[t].id = NoID
        BY <1>f, <1>i, <2>1, <3>1 DEF Hops, Focus, Reserving, Asked, Asks, CreatePC
      <3>3. HoldSame
        BY <1>e, <1>l, <1>o, <1>r, <2>1, <2>2, <3>2 DEF HoldSame, SameFor
      <3>4. QED
        BY <1>i, <1>k, <3>2, <3>3 DEF HoldMoves
    <2>3. CASE Ports!Free(rq[t].c.data.ports) /\ Return(t)
      <3>1. Leaves(t)
        BY <1>i, <2>3, ReturnLeaves
      <3>2. f = NoID
        BY <1>f, <2>1, <3>1 DEF Leaves, Focus
      <3>3. QED
        BY <1>d, <1>i, <2>1, <2>3, <3>1, <3>2
    <2>4. QED
      BY <1>3, <2>2, <2>3 DEF CreateFind
  <1>4. CASE CreateNew(t)
    <2>1. /\ rq[t].pc = "c_new" /\ rq[t].id = NoID /\ Reserving(t)
          /\ UNCHANGED <<byID, attach>>
      BY <1>4, <1>i DEF CreateNew, At, Solo, NoIDYet, Reserving, regVars
    <2>2. CASE \E i \in fresh : UNCHANGED used /\ rq' = [rq EXCEPT ![t].pc = "c_save", ![t].id = i]
      <3>1. PICK i \in fresh : UNCHANGED used /\ rq' = [rq EXCEPT ![t].pc = "c_save", ![t].id = i]
        BY <2>2
      <3>2. rq'[t].pc = "c_save" /\ rq'[t].id = i /\ rq'[t].c = rq[t].c
        BY <1>i, <3>1 DEF RqTypeOK, Request
      <3>3. f = i /\ ~Reg!Registered(f) /\ byID'[f] = Absent
        BY <1>f, <1>i, <2>1, <3>1, <3>2 DEF Focus, Solo, Reg!Registered
      <3>4. Reserving(t)' /\ Asked(t)' = Asked(t) /\ Asks(t)'
        BY <1>i, <2>1, <3>2 DEF Reserving, Asked, Asks, CreatePC
      <3>5. HoldSame
        BY <1>l, <1>n, <1>o, <1>r, <2>1, <3>1, <3>3, <3>4 DEF HoldSame, SameFor
      <3>6. QED
        BY <1>k, <1>n, <2>1, <3>1, <3>2, <3>3, <3>4, <3>5 DEF HoldMoves
    <2>3. CASE Ports!Free(rq[t].c.data.ports) /\ Return(t)
      <3>1. Leaves(t)
        BY <1>i, <2>3, ReturnLeaves
      <3>2. f = NoID
        BY <1>f, <2>1, <3>1 DEF Leaves, Focus
      <3>3. QED
        BY <1>d, <1>i, <2>1, <2>3, <3>1, <3>2
    <2>4. QED
      BY <1>4, <2>2, <2>3 DEF CreateNew
  <1>5. CASE CreateSave(t)
    <2>1. /\ rq[t].pc = "c_save" /\ rq[t].id # NoID /\ Reserving(t) /\ attach' = attach
          /\ f = rq[t].id /\ f \in ContainerID
      BY <1>5, <1>f, <1>i DEF CreateSave, At, Solo, NoIDYet, Reserving, Focus
    <2>2. ~Reg!Registered(f) /\ attach[f] = Absent /\ ~Failed(f, Stray) /\ failed' = failed
      BY <1>5, <1>i, <2>1 DEF InStep, Busy, JoinInv, JoinBusy, Along, Pristine, CreateSave
    <2>3. CASE Reg!Save(f, rq[t].c) /\ Return(t) /\ UNCHANGED used
      <3>1. Leaves(t)
        BY <1>i, <2>3, ReturnLeaves
      <3>2. byID'[f] = rq[t].c /\ byID'[f] # Absent
        BY <1>i, <2>1, <2>3, RequestParts, SaveRegisters DEF Reg!Save, TypeOK, Reg!RegTypeOK
      <3>3. ~Reserving(t)' /\ Asks(t)' /\ rq'[t].id = NoID
        BY <3>1 DEF Reserving, Asks, CreatePC, Leaves
      <3>4. Bound(f)' = Asked(t) /\ Tied(f)' /\ JoinRest(f)'
        BY <1>i, <2>1, <2>2, <3>2
        DEF Bound, Asked, Asks, Tied, JoinRest, Untouched, CreatePC, Failed, Reg!Registered
      <3>5. ~Holding(f) /\ Holding(f)'
        <4>1. \A u \in Thread : rq'[u].id # f
          BY <1>f, <1>i, <2>1, <3>3 DEF Frame
        <4>2. QED
          BY <2>2, <3>2, <4>1 DEF Holding, Reg!Registered
      <3>6. HoldPasses(r, o)
        BY <1>e, <1>l, <1>o, <1>r, <2>1, <2>3, <3>3, <3>4, <3>5 DEF HoldPasses
      <3>7. QED
        BY <1>i, <1>k, <1>o, <1>r, <2>1, <3>3, <3>4, <3>6 DEF HoldMoves
    <2>4. CASE Ports!Free(rq[t].c.data.ports) /\ Goto(t, "c_undo") /\ UNCHANGED regVars
      <3>1. Hops(t, "c_undo")
        BY <1>i, <2>4, GotoHops
      <3>2. byID'[f] = Absent
        BY <2>2, <2>4 DEF regVars, Reg!Registered
      <3>3. QED
        BY <1>d, <2>1, <2>2, <2>4, <3>1, <3>2
    <2>5. QED
      BY <1>5, <2>1, <2>3, <2>4 DEF CreateSave
  <1>6. CASE CreateUndo(t)
    <2>1. /\ rq[t].pc = "c_undo" /\ rq[t].id # NoID /\ ~Reserving(t) /\ UNCHANGED <<byID, attach, used>>
          /\ f = rq[t].id /\ f \in ContainerID /\ Leaves(t)
      BY <1>6, <1>f, <1>i, ReturnLeaves DEF CreateUndo, At, Solo, NoIDYet, Reserving, Focus, regVars
    <2>2. ~Reg!Registered(f) /\ byID'[f] = Absent
      BY <1>i, <2>1 DEF InStep, Busy, Reg!Registered
    <2>3. ~Reserving(t)' /\ Asks(t)' /\ rq'[t].id = NoID
      BY <2>1 DEF Reserving, Asks, CreatePC, Leaves
    <2>4. HoldSame
      BY <1>l, <1>n, <1>o, <1>r, <2>1, <2>2, <2>3 DEF HoldSame, SameFor
    <2>5. QED
      BY <1>i, <1>k, <1>n, <2>1, <2>2, <2>3, <2>4 DEF HoldMoves
  <1>7. QED
    BY <1>1, <1>2, <1>3, <1>4, <1>5, <1>6 DEF Create

\* A use case that begins with resolveContainer changes no ports.
LEMMA ResolveHolds ==
    ASSUME PortInv, ~Overlapping, NEW t \in Thread, NEW id \in ContainerID, Resolves(t, id)
    PROVE  HoldMoves /\ JoinInv'
  <1>i. /\ TypeOK /\ Solo /\ JoinInv /\ FreshUnknown /\ NoID \notin ContainerID
    BY ServiceValues DEF PortInv, CalmInv, Inv, OwnerInv
  <1>1. /\ Frame(t, id) /\ rq[t].id = NoID /\ rq'[t].id = id
        /\ rq'[t].pc \in {"s_status", "p_stop", "r_status", "i_refresh"}
        /\ Settled(id) /\ Reg!Registered(id)
        /\ UNCHANGED <<byID, used, attach, task, fresh, failed, loose>>
    BY <1>i, ResolvesFrame
  <1>2. JoinRest(id) /\ Tied(id)' /\ rq[t].pc \in {"idle", "c_alloc", "c_find", "c_new"}
    BY <1>1, <1>i DEF JoinInv, Tied, Bound, Slack, Failed, Reg!Registered, Solo, NoIDYet
  <1>3. rq'[t].pc = "p_stop" => ~Untouched(id)
    <2>1. ASSUME StopResolve(t, id) PROVE ~Untouched(id)
      BY <1>1, <2>1 DEF StopResolve, Untouched, Reg!Registered
    <2>2. CASE ~StopResolve(t, id)
      <3>1. PICK pc \in {"s_status", "r_status", "i_refresh"}, force \in BOOLEAN,
                 op \in {"start", "remove", "inspect"} : Resolve(t, op, id, pc, force)
        BY <2>2 DEF Resolves, StartResolve, RemoveResolve, InspectResolve
      <3>2. pc \in PCs
        BY <3>1 DEF PCs, StartPC, RemovePC, InspectPC
      <3>3. rq'[t].pc = pc
        BY <1>i, <3>1, <3>2, ResolveCopies
      <3>4. QED
        BY <3>1, <3>3
    <2>3. QED
      BY <2>1, <2>2
  <1>4. JoinBusy(t)'
    BY <1>1, <1>2, <1>3
    DEF JoinBusy, Along, Steady, JoinRest, Ready, Untouched, Bound, Slack, StartPC, StopPC,
        InspectPC, Launched, Joining, Undecided, Done
  <1>5. Asks(t)' /\ ~Reserving(t)' /\ ~Released(t)'
    BY <1>1 DEF Asks, CreatePC, Reserving, Released
  <1>6. JoinInv'
    <2>1. \A j \in fresh' : Pristine(j)'
      BY <1>1, <1>i DEF JoinInv, Pristine, Failed
    <2>2. QED
      BY <1>1, <1>2, <1>4, <1>5, <1>i, <2>1, JoinKept DEF Settled
  <1>7. ~Reserving(t)
    <2>1. \E pc, force, op : Resolve(t, op, id, pc, force)
      BY DEF Resolves, StartResolve, StopResolve, RemoveResolve, InspectResolve
    <2>2. rq[t].pc = "idle"
      BY <2>1 DEF Resolve, At
    <2>3. QED
      BY <2>2 DEF Reserving
  <1>8. Holding(id) /\ Holding(id)' /\ Bound(id)' = Bound(id)
    BY <1>1, <1>5 DEF Holding, Settled, Frame, Bound, Reg!Registered
  <1>9. HoldSame
    <2>1. SameFor(<<"container", id>>) /\ SameFor(<<"request", t>>)
      BY <1>5, <1>7, <1>8 DEF SameFor, Holds, Keys
    <2>2. QED
      BY <1>1, <1>i, <2>1, ElsewhereSame DEF HoldSame
  <1>10. QED
    BY <1>6, <1>9 DEF HoldMoves

\* A process that ends after its start is over changes no ports.
LEMMA ExitHolds ==
    ASSUME PortInv, ~FastExit, NEW id \in ContainerID, TaskExit(id)
    PROVE  HoldMoves /\ JoinInv'
  <1>i. /\ TypeOK /\ Solo /\ JoinInv
    BY DEF PortInv, CalmInv, Inv
  <1>1. /\ UNCHANGED <<byID, used, attach, rq, fresh, failed, loose>> /\ ~Starting(id)
        /\ \A j \in ContainerID \ {id} : task'[j] = task[j]
    BY <1>i, ExitFrame DEF TaskExit
  <1>2. HoldSame
    BY <1>1 DEF HoldSame, SameFor, Holds, Keys, Holding, Reserving, Released, Bound, Asked, Reg!Registered
  <1>3. ASSUME NEW t \in Thread, rq[t].id # NoID PROVE JoinBusy(t)'
    <2>1. JoinBusy(t) /\ rq[t].id \in ContainerID
      BY <1>3, <1>i DEF JoinInv, TypeOK, Request
    <2>2. rq[t].pc \in Launched => task'[rq[t].id] = task[rq[t].id]
      BY <1>1, <2>1 DEF Starting, Launched
    <2>3. QED
      BY <1>1, <2>1, <2>2
      DEF JoinBusy, Along, Steady, Pristine, Failed, Slack, Ready, Untouched, Bound
  <1>4. JoinInv'
    BY <1>1, <1>3, <1>i
    DEF JoinInv, Asks, Asked, Tied, JoinRest, Ready, Untouched, Bound, Slack, Pristine, Failed,
        Settled, Reg!Registered
  <1>5. QED
    BY <1>2, <1>4 DEF HoldMoves

\* Neither does a context that expires.
LEMMA ExpireHolds ==
    ASSUME PortInv, NEW t \in Thread, Expire(t)
    PROVE  HoldMoves /\ JoinInv'
  <1>i. TypeOK /\ Solo /\ JoinInv
    BY DEF PortInv, CalmInv, Inv
  <1>1. /\ UNCHANGED <<byID, used, attach, task, fresh, failed, loose>>
        /\ \A u \in Thread : /\ rq'[u].pc = rq[u].pc /\ rq'[u].id = rq[u].id
                              /\ rq'[u].c = rq[u].c /\ rq'[u].st = rq[u].st
                              /\ rq'[u].al = rq[u].al
    BY <1>i, ExpireFrame
  <1>2. HoldSame
    BY <1>1
    DEF HoldSame, SameFor, Owner, Holds, Keys, Holding, Reserving, Released, Bound, Asked,
        Reg!Registered
  <1>3. ASSUME NEW u \in Thread, rq'[u].id # NoID PROVE JoinBusy(u)'
    <2>1. JoinBusy(u)
      BY <1>1, <1>3, <1>i DEF JoinInv
    <2>2. QED
      BY <1>1, <2>1 DEF JoinBusy, Along, Steady, Pristine, Failed, Slack, Ready, Untouched, Bound
  <1>4. JoinInv'
    BY <1>1, <1>3, <1>i
    DEF JoinInv, Asks, Asked, Tied, JoinRest, Ready, Untouched, Bound, Slack, Pristine, Failed,
        Settled, Reg!Registered
  <1>5. QED
    BY <1>2, <1>4 DEF HoldMoves

\* Every step keeps the division of the port table.
LEMMA PortStep ==
    ASSUME PortInv, ~Overlapping, ~FastExit, [Next]_vars
    PROVE  PortInv'
  <1>1. CalmInv' /\ AttachInv'
    BY CalmStep, AttachStep DEF PortInv, CalmInv, Inv
  <1>2. CASE UNCHANGED vars
    <2>1. UNCHANGED <<byID, used, attach, task, rq, fresh, failed, loose>>
      BY <1>2 DEF vars
    <2>2. JoinInv'
      BY <2>1
      DEF PortInv, JoinInv, JoinBusy, Along, Steady, Asks, Asked, Tied, JoinRest, Ready, Untouched,
          Bound, Slack, Pristine, Failed, Settled, Reg!Registered
    <2>3. HoldSame
      BY <2>1 DEF HoldSame, SameFor, Holds, Keys, Holding, Reserving, Released, Bound, Asked, Reg!Registered
    <2>4. QED
      BY <1>1, <2>2, <2>3, HoldKept DEF PortInv, HoldMoves
  <1>3. ASSUME ~(UNCHANGED vars) PROVE HoldMoves /\ JoinInv'
    <2>1. ASSUME NEW t \in Thread, Create(t) PROVE HoldMoves /\ JoinInv'
      BY <2>1, CreateHolds
    <2>2. ASSUME NEW t \in Thread, NEW id \in ContainerID, Resolves(t, id) PROVE HoldMoves /\ JoinInv'
      BY <2>2, ResolveHolds
    <2>3. ASSUME NEW t \in Thread, Start(t), \A id \in ContainerID : ~StartResolve(t, id)
          PROVE  HoldMoves /\ JoinInv'
      BY <2>3, StartHolds
    <2>4. ASSUME NEW t \in Thread, Stop(t) \/ Inspect(t),
                 \A id \in ContainerID : ~StopResolve(t, id) /\ ~InspectResolve(t, id)
          PROVE  HoldMoves /\ JoinInv'
      BY <2>4, LookHolds
    <2>5. ASSUME NEW t \in Thread, Remove(t), \A id \in ContainerID : ~RemoveResolve(t, id)
          PROVE  HoldMoves /\ JoinInv'
      BY <2>5, RemoveHolds
    <2>6. ASSUME NEW id \in ContainerID, TaskExit(id) PROVE HoldMoves /\ JoinInv'
      BY <2>6, ExitHolds
    <2>7. ASSUME NEW t \in Thread, Expire(t) PROVE HoldMoves /\ JoinInv'
      BY <2>7, ExpireHolds
    <2>8. QED
      BY <1>3, <2>1, <2>2, <2>3, <2>4, <2>5, <2>6, <2>7, StepCases
  <1>4. QED
    BY <1>1, <1>2, <1>3, HoldKept DEF PortInv

\* PortInv holds throughout.
LEMMA PortInvariant ==
    ASSUME ~Overlapping, ~FastExit
    PROVE  Spec => []PortInv
  <1>1. Init => PortInv
    <2> SUFFICES ASSUME Init PROVE PortInv
      OBVIOUS
    <2>1. \A t \in Thread : rq[t].pc = "idle" /\ rq[t].id = NoID
      BY IdleRequest DEF Init
    <2>2. AttachInv /\ JoinInv
      BY <2>1
      DEF Init, Reg!RegInit, AttachInv, JoinInv, Asks, CreatePC, Tied, JoinRest, Pristine, Failed,
          Reg!Registered, StartPC, Disconnected
    <2>3. HoldInv
      <3>1. \A o \in Owner : ~Holds(o)
        BY <2>1 DEF Init, Reg!RegInit, Owner, Holds, Holding, Reserving, Reg!Registered
      <3>2. QED
        BY <3>1 DEF HoldInv, Init
    <2>4. QED
      BY <2>2, <2>3, CalmInit DEF PortInv
  <1>2. PortInv /\ [Next]_vars => PortInv'
    BY PortStep
  <1>3. QED
    BY <1>1, <1>2, PTL DEF Spec

\* A container attached with a key that is not loose holds its ports.
LEMMA AttachedHolds ==
    ASSUME PortInv, NEW id \in ContainerID, attach[id] # Absent, ~(attach[id] \subseteq loose)
    PROVE  Holding(id) /\ attach[id] = Bound(id) /\ Bound(id) \ loose \subseteq used
  <1>1. Reg!Registered(id) /\ attach[id] = Bound(id) /\ ~Slack(id)
    BY DEF PortInv, JoinInv, Tied, Slack
  <1>2. ASSUME NEW t \in Thread, rq[t].id = id PROVE ~Released(t)
    <2>1. Busy(t) /\ JoinBusy(t)
      BY <1>2, ServiceValues DEF PortInv, CalmInv, InStep, JoinInv
    <2>2. rq[t].pc # "r_logs"
      BY <1>1, <1>2, <2>1 DEF Busy
    <2>3. rq[t].pc \notin {"r_free"} \cup Done
      BY <1>1, <1>2, <2>1 DEF JoinBusy, Steady, Done, Stored, RemovePC
    <2>4. QED
      BY <2>2, <2>3 DEF Released, Done
  <1>3. Holding(id)
    BY <1>1, <1>2 DEF Holding
  <1>4. <<"container", id>> \in Owner
    BY DEF Owner
  <1>5. QED
    BY <1>1, <1>3, <1>4 DEF PortInv, HoldInv, Holds, Keys

\* Ports that an attachment publishes, and ports promised to a container that
\* never ran, stay reserved, unless a failed call has set them loose: whatever
\* the requests for other containers release is their own (service.go:217-224,
\* cni/adapter.go:584-591).
THEOREM ServiceReservationsKept ==
    ASSUME ~Overlapping, ~FastExit
    PROVE  Spec => []ReservationsKept
  <1>1. PortInv => ReservationsKept
    <2> SUFFICES ASSUME PortInv PROVE ReservationsKept
      OBVIOUS
    <2>1. ASSUME NEW id \in ContainerID, Settled(id), Reg!Registered(id)
          PROVE  Bound(id) \ loose \subseteq used
      <3>1. Holding(id) /\ <<"container", id>> \in Owner
        BY <2>1 DEF Holding, Settled, Owner
      <3>2. QED
        BY <3>1 DEF PortInv, HoldInv, Holds, Keys
    <2>2. ASSUME NEW id \in ContainerID, attach[id] # Absent PROVE attach[id] \ loose \subseteq used
      BY <2>2, AttachedHolds
    <2>3. QED
      BY <2>1, <2>2 DEF ReservationsKept, Bound
  <1>2. QED
    BY <1>1, PortInvariant, PTL

\* Every reservation that no failed call has set loose belongs to a registered
\* container or to a request that is making one: none is left behind by a create
\* that fails, a start whose network attachment fails, or a removal that goes
\* through, also when CNI DEL fails (cni/adapter.go:537-538).
THEOREM ServiceNoPortLeak ==
    ASSUME ~Overlapping, ~FastExit
    PROVE  Spec => []NoPortLeak
  <1>1. PortInv => NoPortLeak
    <2> SUFFICES ASSUME PortInv, NEW k \in used \ loose
                 PROVE  \/ \E id \in ContainerID : Reg!Registered(id) /\ k \in byID[id].data.ports
                        \/ \E t \in Thread : k \in rq[t].c.data.ports
      BY DEF NoPortLeak
    <2>1. PICK o \in Owner : Holds(o) /\ k \in Keys(o)
      BY DEF PortInv, HoldInv
    <2>2. CASE \E id \in ContainerID : o = <<"container", id>>
      BY <2>1, <2>2 DEF Holds, Keys, Holding, Bound
    <2>3. CASE \E t \in Thread : o = <<"request", t>>
      BY <2>1, <2>3 DEF Keys, Asked
    <2>4. QED
      BY <2>2, <2>3 DEF Owner
  <1>2. QED
    BY <1>1, PortInvariant, PTL

\* No two containers are attached with host ports that overlap, but for keys set
\* loose: what CNI ADD publishes is reserved for that container
\* (cni/adapter.go:400-403, 452).
THEOREM ServicePublishedExclusive ==
    ASSUME ~Overlapping, ~FastExit
    PROVE  Spec => []PublishedExclusive
  <1>1. PortInv /\ ReservationsDisjoint => PublishedExclusive
    <2> SUFFICES ASSUME PortInv, Ports!NoOverlap, NEW i \in ContainerID, NEW j \in ContainerID,
                        i # j, attach[i] # Absent, attach[j] # Absent,
                        NEW a \in attach[i] \ loose, NEW b \in attach[j] \ loose
                 PROVE  ~Ports!Overlap(a, b)
      BY DEF PublishedExclusive, ReservationsDisjoint
    <2>1. /\ Holding(i) /\ a \in Bound(i) /\ a \in used
          /\ Holding(j) /\ b \in Bound(j) /\ b \in used
      BY AttachedHolds
    <2>2. Bound(i) \cap Bound(j) \subseteq loose
      <3>1. <<"container", i>> \in Owner /\ <<"container", j>> \in Owner
            /\ <<"container", i>> # <<"container", j>>
        BY DEF Owner
      <3>2. QED
        BY <2>1, <3>1 DEF PortInv, HoldInv, Holds, Keys
    <2>3. QED
      BY <2>1, <2>2 DEF Ports!NoOverlap
  <1>2. QED
    BY <1>1, PortInvariant, ServiceReservationsDisjoint, PTL

-----------------------------------------------------------------------------
(* The registry below the use cases.  Requests may overlap and expire and  *)
(* calls may fail here: what one Save or Remove does under the registry's  *)
(* lock is all that names depend on.                                       *)

\* Every step of a use case saves one record, removes one, or leaves the
\* registry alone (containers.go:100, 417, service.go:262-269).
RegMoves ==
    \/ \E id \in ContainerID, c \in Reg!Container : Reg!Save(id, c)
    \/ \E id \in ContainerID : Reg!Remove(id)
    \/ UNCHANGED <<byID, byName>>

\* Service.save writes one record or nothing.
LEMMA SaveAsMoves ==
    ASSUME TypeOK, NEW t \in Thread, NEW s \in State, rq[t].id \in ContainerID, SaveAs(t, s)
    PROVE  RegMoves
  <1> DEFINE c == [rq[t].c EXCEPT !.data.state = s]
  <1>1. rq[t].c \in Reg!Container
    BY DEF TypeOK, Request
  <1>2. c \in Reg!Container
    BY <1>1 DEF Reg!Container, Data
  <1>3. Reg!Save(rq[t].id, c) \/ UNCHANGED regVars
    BY DEF SaveAs
  <1> HIDE DEF c
  <1> QED
    BY <1>2, <1>3 DEF RegMoves, regVars

\* So does every step of a request.
LEMMA UseCaseMoves == ASSUME TypeOK, HasID, [Next]_vars PROVE RegMoves
  <1> USE DEF NoIDYet
  <1>0. ASSUME UNCHANGED regVars PROVE RegMoves
    BY <1>0 DEF RegMoves, regVars
  <1>1. ASSUME NEW t \in Thread, Create(t) PROVE RegMoves
    <2>1. ASSUME CreateSave(t), Reg!Save(rq[t].id, rq[t].c) PROVE RegMoves
      <3>1. rq[t].id \in ContainerID /\ rq[t].c \in Reg!Container
        BY <2>1, RequestParts DEF CreateSave, At, HasID
      <3> QED
        BY <2>1, <3>1 DEF RegMoves
    <2>2. CASE UNCHANGED regVars
      BY <2>2, <1>0
    <2>3. CASE CreateSave(t)
      BY <2>1, <2>2, <2>3 DEF CreateSave
    <2>4. ASSUME NEW n, NEW keys, NEW net, CreateValidate(t, n, keys, net) PROVE RegMoves
      BY <2>4, <1>0 DEF CreateValidate
    <2>5. CASE CreateAllocate(t) \/ CreateFind(t) \/ CreateNew(t) \/ CreateUndo(t)
      BY <2>2, <2>5 DEF CreateAllocate, CreateFind, CreateNew, CreateUndo
    <2> QED
      BY <1>1, <2>3, <2>4, <2>5 DEF Create
  <1>2. ASSUME NEW t \in Thread, Start(t) PROVE RegMoves
    <2>1. CASE StartSaveExited(t) \/ StartMark(t)
      <3>1. rq[t].id \in ContainerID /\ (SaveAs(t, "exited") \/ SaveAs(t, "running"))
        BY <2>1 DEF StartSaveExited, StartMark, At, HasID
      <3> QED
        BY <3>1, SaveAsMoves DEF State
    <2>2. CASE UNCHANGED regVars
      BY <2>2, <1>0
    <2> QED
      BY <1>2, <2>1, <2>2
      DEF Start, StartResolve, StartStatus, StartOpenLog, StartDiscard, StartNewTask, StartRun, StartPID,
          StartAdopt, StartAdd, StartRestore, StartJoinFailed, StartUndo, StartFinal
  <1>3. ASSUME NEW t \in Thread, Stop(t) PROVE RegMoves
    <2>1. CASE StopSave(t)
      <3>1. rq[t].id \in ContainerID /\ SaveAs(t, "exited")
        BY <2>1 DEF StopSave, At, HasID
      <3> QED
        BY <3>1, SaveAsMoves DEF State
    <2>2. CASE UNCHANGED regVars
      BY <2>2, <1>0
    <2> QED
      BY <1>3, <2>1, <2>2 DEF Stop, StopResolve, StopStop, StopRefresh, StopCloseLog
  <1>4. ASSUME NEW t \in Thread, Remove(t) PROVE RegMoves
    <2>1. CASE RemoveUnregister(t)
      <3>1. rq[t].id \in ContainerID /\ (Reg!Remove(rq[t].id) \/ UNCHANGED regVars)
        BY <2>1 DEF RemoveUnregister, At, HasID
      <3> QED
        BY <3>1, <1>0 DEF RegMoves
    <2>2. CASE UNCHANGED regVars
      BY <2>2, <1>0
    <2> QED
      BY <1>4, <2>1, <2>2
      DEF Remove, RemoveResolve, RemoveStatus, RemoveStop, RemoveDisconnect, RemoveForget, RemoveFree,
          RemoveTask, RemoveMeta, RemoveSnapshot, RemoveLogs
  <1>5. ASSUME NEW t \in Thread, Inspect(t) \/ Expire(t) PROVE RegMoves
    <2>1. CASE InspectSave(t)
      <3>1. rq[t].id \in ContainerID /\ rq[t].st \in State /\ SaveAs(t, rq[t].st)
        BY <2>1 DEF InspectSave, At, HasID, TypeOK, Request
      <3> QED
        BY <3>1, SaveAsMoves
    <2>2. CASE UNCHANGED regVars
      BY <2>2, <1>0
    <2> QED
      BY <1>5, <2>1, <2>2 DEF Inspect, InspectResolve, InspectRefresh, Expire
  <1>6. ASSUME NEW id \in ContainerID, TaskExit(id) PROVE RegMoves
    BY <1>6, <1>0 DEF TaskExit
  <1>7. CASE UNCHANGED vars
    BY <1>7, <1>0 DEF vars, regVars
  <1> QED
    BY <1>1, <1>2, <1>3, <1>4, <1>5, <1>6, <1>7 DEF Next

\* The types, the IDs of the requests and the index of names, together.
NamesInv == TypeOK /\ HasID /\ NameIndex

\* The index of names survives every overlap of use cases.
LEMMA NamesInvariant == Spec => []NamesInv
  <1>1. Init => NameIndex
    BY DEF Init, Reg!RegInit, NameIndex, Reg!Registered
  <1>2. TypeOK /\ HasID /\ NameIndex /\ [Next]_vars => NameIndex'
    <2> SUFFICES ASSUME TypeOK, HasID, NameIndex, [Next]_vars PROVE NameIndex'
      OBVIOUS
    <2>1. CASE UNCHANGED <<byID, byName>>
      BY <2>1 DEF NameIndex, Reg!Registered
    <2> QED
      BY <2>1, UseCaseMoves, SaveKeepsIndex, RemoveKeepsIndex DEF RegMoves
  <1>3. TypeOK /\ HasID /\ [Next]_vars => HasID'
    BY HasIDStep
  <1>4. Init => HasID
    BY InitInv DEF Inv, OwnerInv
  <1> QED
    BY <1>1, <1>2, <1>3, <1>4, ServiceTypeOK, PTL DEF Spec, NamesInv

\* The use cases drive the registry as its specification says, however they
\* overlap, so that all that is proved of RegSpec holds of the registry below
\* them (containers.go:100, 417, service.go:262-269).
THEOREM ServiceUsesRegistry == Spec => Reg!RegSpec
  <1>1. Init => Reg!RegInit
    BY DEF Init
  <1>2. NamesInv /\ [Next]_vars => [Reg!RegNext]_<<byID, byName>>
    BY UseCaseMoves DEF NamesInv, RegMoves, Reg!RegNext
  <1> QED
    BY <1>1, <1>2, NamesInvariant, PTL DEF Spec, Reg!RegSpec, Reg!regVars

\* Two registered containers never have the same name, whatever stale copies
\* overlapping starts, stops, inspections and removals save behind a create
\* that was granted the name (registry.go:126-128).
THEOREM ServiceNamesUnique == Spec => []Reg!RegistryNamesUnique
  <1>1. NamesInv => Reg!RegistryNamesUnique
    BY ServiceValues
    DEF NamesInv, TypeOK, Reg!RegTypeOK, NameIndex, Reg!Registered, Reg!RegistryNamesUnique,
        Reg!NS!NamesUnique
  <1> QED
    BY <1>1, NamesInvariant, PTL

\* The names the registry holds, as NameSpace sees them.
heldNames == [id \in ContainerID |-> IF byID[id] = Absent THEN Absent ELSE byID[id].name]

\* A Save that meets no conflict takes a name that nobody else holds, although
\* it looks at one entry of byName only (registry.go:126-136).
LEMMA SaveTakesFreeName ==
    ASSUME NamesInv, NEW id \in ContainerID, NEW c \in Reg!Container, Reg!Save(id, c)
    PROVE  Reg!NS!Put(id, c.name) /\ c.name \in Name \cup {NoName}
  <1>1. c.name \in Name \cup {NoName} /\ c # Absent
    BY ServiceValues DEF Reg!Container
  <1>2. ASSUME c.name # NoName, NEW other \in ContainerID \ {id}
        PROVE  heldNames[other] # c.name
    <2>1. CASE byID[other] = Absent
      BY <1>1, <1>2, <2>1, ServiceValues DEF heldNames
    <2>2. CASE byID[other] # Absent
      BY <1>1, <1>2, <2>2, ServiceValues
      DEF heldNames, NamesInv, NameIndex, Reg!Registered, Reg!Save, Reg!NameConflict, Reg!NameInUse
    <2> QED
      BY <2>1, <2>2
  <1>3. heldNames' = [heldNames EXCEPT ![id] = c.name]
    BY <1>1 DEF heldNames, Reg!Save, NamesInv, TypeOK, Reg!RegTypeOK
  <1> QED
    BY <1>1, <1>2, <1>3 DEF Reg!NS!Put, Reg!NS!FreeFor, heldNames

\* The use cases implement the abstract name space: whatever requests overlap,
\* a container gets a name only at a moment when no other container has it, and
\* a name is free again as soon as its container is gone (containers.go:100, 417,
\* registry.go:126-136).
THEOREM ServiceImplementsNameSpace == Spec => Reg!ImplementsNameSpace
  <1>1. Init => Reg!NS!NSInit
    BY DEF Init, Reg!RegInit, Reg!NS!NSInit
  <1>2. NamesInv /\ [Next]_vars =>
          [Reg!NS!NSNext]_[id \in ContainerID |->
              IF byID[id] = Absent THEN Absent ELSE byID[id].name]
    <2> SUFFICES ASSUME NamesInv, [Next]_vars PROVE [Reg!NS!NSNext]_heldNames
      BY DEF heldNames
    <2>1. ASSUME NEW id \in ContainerID, NEW c \in Reg!Container, Reg!Save(id, c)
          PROVE  Reg!NS!NSNext
      BY <2>1, SaveTakesFreeName DEF Reg!NS!NSNext
    <2>2. ASSUME NEW id \in ContainerID, Reg!Remove(id) PROVE Reg!NS!NSNext
      <3>1. heldNames' = [heldNames EXCEPT ![id] = Absent]
        BY <2>2 DEF heldNames, Reg!Remove, NamesInv, TypeOK, Reg!RegTypeOK
      <3> QED
        BY <3>1 DEF Reg!NS!NSNext, Reg!NS!Drop, heldNames
    <2>3. CASE UNCHANGED <<byID, byName>>
      BY <2>3 DEF heldNames
    <2> QED
      BY <2>1, <2>2, <2>3, UseCaseMoves DEF NamesInv, RegMoves
  <1> QED
    BY <1>1, <1>2, NamesInvariant, PTL DEF Spec, Reg!ImplementsNameSpace, Reg!NS!NSSpec

=============================================================================
