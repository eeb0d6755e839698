---------------------------- MODULE RestartProofs ----------------------------
(***************************************************************************)
(* What a restart of the daemon finds and restores, for any number of      *)
(* containers, names, requests and crashes.                                *)
(*                                                                         *)
(* CompleteRestore looks at one moment, the end of a reconciliation that   *)
(* succeeded.  BootInv follows the three loops that lead there and says    *)
(* after each of them what is already known; it needs that nothing but     *)
(* tasks changes while the daemon starts.                                  *)
(***************************************************************************)
EXTENDS Restart, TLAPS

\* Requests are served only once the socket is.
BootIdle == phase # "serve" => \A t \in Creator : rq[t].pc = "idle"

\* The registry is lost with the process and filled by the last loop only.
BootEmpty ==
    phase \in {"down", "read", "merge"} => \A id \in ContainerID : byID[id] = Absent

\* What was read is still so: the name, and that a task there was is not gone.
SeenTrue ==
    phase \in {"read", "merge", "save", "ready"} =>
        \A id \in ContainerID : seen[id] # Absent =>
            /\ meta[id] # Absent /\ seen[id].name = meta[id]
            /\ task[id] = "none" => seen[id].status = "none"

\* The first loop still has to read, or has read, every container; all it still
\* has to read are there.
ReadSoFar ==
    phase = "read" => \A id \in ContainerID : meta[id] # Absent => id \in todo \/ seen[id] # Absent

ListedStored == phase = "read" => \A id \in todo : meta[id] # Absent

Merged == phase = "save" \/ (phase = "ready" /\ ~failed)

AllSeen ==
    (phase = "merge" \/ Merged) => \A id \in ContainerID : meta[id] # Absent => seen[id] # Absent

\* The last loop has restored what it has visited, and nothing else.
SavedSoFar ==
    Merged =>
        /\ todo \subseteq Listed /\ (phase = "ready" => todo = {})
        /\ \A id \in ContainerID :
              /\ id \in Listed => seen[id].status \in SupportedStatus \cup {"none"}
              /\ id \in Listed \ todo => byID[id] = Restored(id)
              /\ id \notin Listed \ todo => byID[id] = Absent

BootInv == RTypeOK /\ BootIdle /\ BootEmpty /\ SeenTrue /\ ReadSoFar /\ ListedStored
           /\ AllSeen /\ SavedSoFar

-----------------------------------------------------------------------------
(* Types.                                                                  *)

ReqPlace == {"idle", "find", "new", "save", "undo", "delete", "unregister"}
RequestRec == [pc : ReqPlace, id : ContainerID \cup {NoID}, name : Name \cup {NoName}]

\* Goto keeps the container and the name of a request.
LEMMA GotoTyped ==
    ASSUME RTypeOK, NEW t \in Creator, NEW pc \in ReqPlace, Goto(t, pc)
    PROVE  rq' \in [Creator -> RequestRec]
  <1>1. rq[t] \in RequestRec
    BY DEF RTypeOK, RequestRec, ReqPlace
  <1>2. [rq[t] EXCEPT !.pc = pc] \in RequestRec
    BY <1>1 DEF RequestRec
  <1>3. rq' = [rq EXCEPT ![t] = [rq[t] EXCEPT !.pc = pc]]
    BY DEF Goto
  <1>4. QED
    BY <1>2, <1>3 DEF RTypeOK, RequestRec, ReqPlace

\* A request that is over holds nothing.
LEMMA ReturnTyped ==
    ASSUME RTypeOK, NEW t \in Creator, Return(t)
    PROVE  rq' \in [Creator -> RequestRec]
  BY DEF RTypeOK, Return, Idle, RequestRec, ReqPlace

\* A new request, or one that has got its container, is a request.
LEMMA BeginTyped ==
    ASSUME RTypeOK, NEW t \in Creator, NEW r \in RequestRec, rq' = [rq EXCEPT ![t] = r]
    PROVE  rq' \in [Creator -> RequestRec]
  BY DEF RTypeOK, RequestRec, ReqPlace

\* NewContainer's request is one.
LEMMA NewTyped ==
    ASSUME RTypeOK, NEW t \in Creator, NEW id \in ContainerID,
           rq' = [rq EXCEPT ![t].pc = "save", ![t].id = id]
    PROVE  rq' \in [Creator -> RequestRec]
  <1>1. rq[t] \in RequestRec
    BY DEF RTypeOK, RequestRec, ReqPlace
  <1> DEFINE r == [rq[t] EXCEPT !.pc = "save", !.id = id]
  <1>2. r \in RequestRec
    BY <1>1 DEF RequestRec, ReqPlace
  <1>3. rq' = [rq EXCEPT ![t] = r]
    OBVIOUS
  <1> HIDE DEF r
  <1>4. QED
    BY <1>2, <1>3, BeginTyped

\* Save and Remove keep the registry's types (registry.go:40-57, 109-124).
LEMMA RegistryTyped ==
    ASSUME RTypeOK
    PROVE  /\ \A id \in ContainerID \cup {NoID}, c \in Reg!Container : Reg!Save(id, c) => Reg!RegTypeOK'
           /\ \A id \in ContainerID \cup {NoID} : Reg!Remove(id) => Reg!RegTypeOK'
  <1>1. ASSUME NEW id \in ContainerID \cup {NoID}, NEW c \in Reg!Container, Reg!Save(id, c)
        PROVE  Reg!RegTypeOK'
    <2>1. byID' \in [ContainerID -> Reg!Container \cup {Absent}]
      BY <1>1 DEF RTypeOK, Reg!RegTypeOK, Reg!Save
    <2>2. \A n \in Name : c.name = n => id \in ContainerID \cup {NoID}
      OBVIOUS
    <2>3. byName' \in [Name -> ContainerID \cup {NoID}]
      BY <1>1 DEF RTypeOK, Reg!RegTypeOK, Reg!Save, Reg!Reindexed
    <2>4. QED
      BY <2>1, <2>3 DEF Reg!RegTypeOK
  <1>2. ASSUME NEW id \in ContainerID \cup {NoID}, Reg!Remove(id)
        PROVE  Reg!RegTypeOK'
    BY <1>2, RestartValues DEF RTypeOK, Reg!RegTypeOK, Reg!Remove, Reg!Reindexed
  <1>3. QED
    BY <1>1, <1>2

\* domain.Reconcile makes containers out of supported statuses (reconcile.go:97-116).
LEMMA RestoredTyped ==
    ASSUME RTypeOK, NEW id \in ContainerID, seen[id] # Absent,
           seen[id].status \in SupportedStatus \cup {"none"}
    PROVE  /\ Restored(id) \in Reg!Container /\ Restored(id).name = seen[id].name
           /\ Restored(id).data = DockerState(seen[id].status)
           /\ DockerState(seen[id].status) = "running" => seen[id].status = "running"
           /\ seen[id].status = "none" => DockerState(seen[id].status) = "exited"
  <1>1. seen[id] \in Snapshot
    BY DEF RTypeOK
  <1>2. /\ DockerState(seen[id].status) \in Data
        /\ DockerState(seen[id].status) = "running" => seen[id].status = "running"
        /\ seen[id].status = "none" => DockerState(seen[id].status) = "exited"
    BY DEF DockerState, SupportedStatus, Data
  <1>3. QED
    BY <1>1, <1>2 DEF Restored, Reg!Container, Snapshot

\* A request's step keeps the types, and only a serving daemon has requests.
LEMMA RequestTyped ==
    ASSUME RTypeOK, NEW t \in Creator, Request(t)
    PROVE  RTypeOK'
  <1> USE DEF regVars, ctdVars, bootVars
  <1>1. rq[t].id \in ContainerID \cup {NoID} /\ rq[t].name \in Name \cup {NoName}
    BY DEF RTypeOK
  <1>2. ASSUME NEW n \in Name \cup {NoName}, CreateBegin(t, n) PROVE RTypeOK'
    <2>1. [pc |-> "find", id |-> NoID, name |-> n] \in RequestRec
      BY DEF RequestRec, ReqPlace
    <2>2. rq' \in [Creator -> RequestRec]
      BY <1>2, <2>1, BeginTyped DEF CreateBegin
    <2>3. QED
      BY <1>2, <2>2 DEF CreateBegin, RTypeOK, Reg!RegTypeOK, RequestRec, ReqPlace
  <1>3. CASE CreateFind(t)
    <2>1. rq' \in [Creator -> RequestRec]
      BY <1>3, GotoTyped, ReturnTyped DEF CreateFind, ReqPlace
    <2>2. QED
      BY <1>3, <2>1 DEF CreateFind, RTypeOK, Reg!RegTypeOK, RequestRec, ReqPlace
  <1>4. CASE CreateNew(t)
    <2>1. rq' \in [Creator -> RequestRec]
      BY <1>4, NewTyped, ReturnTyped DEF CreateNew
    <2>2. meta' \in [ContainerID -> Name \cup {NoName, Absent}]
      BY <1>1, <1>4 DEF CreateNew, RTypeOK
    <2>3. QED
      BY <1>4, <2>1, <2>2 DEF CreateNew, RTypeOK, Reg!RegTypeOK, RequestRec, ReqPlace
  <1>5. CASE CreateSave(t)
    <2>1. rq' \in [Creator -> RequestRec]
      BY <1>5, GotoTyped, ReturnTyped DEF CreateSave, ReqPlace
    <2>2. [name |-> rq[t].name, data |-> "created"] \in Reg!Container
      BY <1>1 DEF Reg!Container, Data
    <2>3. Reg!RegTypeOK'
      BY <1>1, <1>5, <2>2, RegistryTyped DEF CreateSave, RTypeOK, Reg!RegTypeOK
    <2>4. QED
      BY <1>5, <2>1, <2>3 DEF CreateSave, RTypeOK, RequestRec, ReqPlace
  <1>6. CASE CreateUndo(t)
    <2>1. rq' \in [Creator -> RequestRec]
      BY <1>6, ReturnTyped DEF CreateUndo
    <2>2. QED
      BY <1>6, <2>1 DEF CreateUndo, RTypeOK, Reg!RegTypeOK, RequestRec, ReqPlace
  <1>7. ASSUME NEW id \in ContainerID, RemoveBegin(t, id) PROVE RTypeOK'
    <2>1. [pc |-> "delete", id |-> id, name |-> NoName] \in RequestRec
      BY DEF RequestRec, ReqPlace
    <2>2. rq' \in [Creator -> RequestRec]
      BY <1>7, <2>1, BeginTyped DEF RemoveBegin
    <2>3. QED
      BY <1>7, <2>2 DEF RemoveBegin, RTypeOK, Reg!RegTypeOK, RequestRec, ReqPlace
  <1>8. CASE RemoveDelete(t)
    <2>1. rq' \in [Creator -> RequestRec]
      BY <1>8, GotoTyped, ReturnTyped DEF RemoveDelete, ReqPlace
    <2>2. meta' \in [ContainerID -> Name \cup {NoName, Absent}] /\ task' \in [ContainerID -> TaskStatus \cup {"none"}]
      BY <1>8 DEF RemoveDelete, RTypeOK
    <2>3. QED
      BY <1>8, <2>1, <2>2 DEF RemoveDelete, RTypeOK, Reg!RegTypeOK, RequestRec, ReqPlace
  <1>9. CASE RemoveUnregister(t)
    <2>1. rq' \in [Creator -> RequestRec]
      BY <1>9, ReturnTyped DEF RemoveUnregister
    <2>2. Reg!RegTypeOK'
      BY <1>1, <1>9, RegistryTyped DEF RemoveUnregister, RTypeOK, Reg!RegTypeOK
    <2>3. QED
      BY <1>9, <2>1, <2>2 DEF RemoveUnregister, RTypeOK, RequestRec, ReqPlace
  <1>10. QED
    BY <1>2, <1>3, <1>4, <1>5, <1>6, <1>7, <1>8, <1>9 DEF Request

\* A step of the startup keeps the types.
LEMMA StartupTyped ==
    ASSUME BootInv, Startup
    PROVE  RTypeOK'
  <1> USE DEF RTypeOK, BootInv, regVars, ctdVars
  <1>1. CASE Boot
    BY <1>1 DEF Boot, Reg!RegTypeOK
  <1>2. CASE ReadFails
    BY <1>2 DEF ReadFails, GiveUp, Reg!RegTypeOK
  <1>3. CASE ReadDone
    BY <1>3 DEF ReadDone, Reg!RegTypeOK
  <1>4. CASE Merge
    BY <1>4 DEF Merge, GiveUp, Listed, Reg!RegTypeOK
  <1>5. CASE SaveDone
    BY <1>5 DEF SaveDone, Reg!RegTypeOK
  <1>6. CASE Serve
    BY <1>6 DEF Serve, Reg!RegTypeOK
  <1>7. ASSUME NEW id \in ContainerID, ReadContainer(id) PROVE RTypeOK'
    <2>1. phase = "read" /\ id \in todo /\ meta[id] \in Name \cup {NoName}
      BY <1>7 DEF ReadContainer, ListedStored
    <2>2. [name |-> meta[id], status |-> task[id]] \in Snapshot
      BY <2>1 DEF Snapshot
    <2>3. seen' \in [ContainerID -> Snapshot \cup {Absent}]
      BY <1>7, <2>2 DEF ReadContainer
    <2>4. QED
      BY <1>7, <2>3 DEF ReadContainer, Reg!RegTypeOK
  <1>8. ASSUME NEW id \in ContainerID, SaveRestored(id) PROVE RTypeOK'
    <2>1. Restored(id) \in Reg!Container
      BY <1>8, RestoredTyped DEF SaveRestored, SavedSoFar, Merged, Listed
    <2>2. Reg!RegTypeOK'
      BY <1>8, <2>1, RegistryTyped DEF SaveRestored, GiveUp, Reg!RegTypeOK
    <2>3. QED
      BY <1>8, <2>2 DEF SaveRestored, GiveUp
  <1>9. QED
    BY <1>1, <1>2, <1>3, <1>4, <1>5, <1>6, <1>7, <1>8 DEF Startup

-----------------------------------------------------------------------------
(* One restart.                                                            *)

\* Each loop of reconcileAtStartup establishes what the next one relies on
\* (reconciliation.go:60-111).
LEMMA StartupStep ==
    ASSUME BootInv, RTypeOK', Startup
    PROVE  BootInv'
  <1> USE DEF RTypeOK, BootInv, BootIdle, BootEmpty, SeenTrue, ListedStored, ReadSoFar, AllSeen, SavedSoFar,
              Merged, Listed, regVars, ctdVars
  <1>1. CASE Boot
    BY <1>1 DEF Boot
  <1>2. CASE ReadFails
    BY <1>2 DEF ReadFails, GiveUp
  <1>3. CASE ReadDone
    BY <1>3 DEF ReadDone
  <1>4. CASE Merge
    BY <1>4 DEF Merge, GiveUp
  <1>5. CASE SaveDone
    BY <1>5 DEF SaveDone, Restored
  <1>6. CASE Serve
    BY <1>6 DEF Serve
  <1>7. ASSUME NEW id \in ContainerID, ReadContainer(id) PROVE BootInv'
    <2>1. seen'[id] = [name |-> meta[id], status |-> task[id]]
      BY <1>7 DEF ReadContainer
    <2>2. \A i \in ContainerID \ {id} : seen'[i] = seen[i]
      BY <1>7 DEF ReadContainer
    <2>3. meta[id] # Absent
      BY <1>7 DEF ReadContainer
    <2>4. seen'[id] # Absent
      BY <2>1, <2>3, RestartValues DEF Snapshot
    <2>5. QED
      BY <1>7, <2>1, <2>2, <2>3, <2>4 DEF ReadContainer
  <1>8. ASSUME NEW id \in ContainerID, SaveRestored(id) PROVE BootInv'
    <2>1. CASE Reg!NameConflict(id, seen[id].name) /\ GiveUp
      BY <1>8, <2>1 DEF GiveUp, SaveRestored
    <2>2. CASE /\ Reg!Save(id, Restored(id)) /\ todo' = todo \ {id}
               /\ UNCHANGED <<ctdVars, phase, seen, failed, rq, crashes>>
      <3>1. byID'[id] = Restored(id) /\ \A i \in ContainerID \ {id} : byID'[i] = byID[i]
        BY <2>2 DEF Reg!Save, Reg!RegTypeOK
      <3>2. phase = "save" /\ id \in todo /\ Merged
        BY <1>8 DEF SaveRestored
      <3>3. SavedSoFar'
        BY <2>2, <3>1, <3>2 DEF Restored
      <3>4. QED
        BY <2>2, <3>2, <3>3
    <2>3. QED
      BY <1>8, <2>1, <2>2 DEF SaveRestored
  <1>9. QED
    BY <1>1, <1>2, <1>3, <1>4, <1>5, <1>6, <1>7, <1>8 DEF Startup

\* Nothing of the startup depends on what happens while the daemon serves.
LEMMA ServingStep ==
    ASSUME BootInv, NEW t \in Creator, Request(t)
    PROVE  BootInv'
  <1>1. RTypeOK'
    BY RequestTyped DEF BootInv
  <1>2. phase = "serve" /\ phase' = "serve"
    BY DEF BootInv, BootIdle, Request, bootVars, CreateBegin, CreateFind, CreateNew, CreateSave,
           CreateUndo, RemoveBegin, RemoveDelete, RemoveUnregister
  <1>3. QED
    BY <1>1, <1>2 DEF BootInv, BootIdle, BootEmpty, SeenTrue, ListedStored, ReadSoFar, AllSeen,
                      SavedSoFar, Merged

\* While the daemon is not serving, no task is created and none goes away.
LEMMA TaskStepKeeps ==
    ASSUME BootInv, NEW id \in ContainerID, NEW s \in Statuses, TaskStep(id, s)
    PROVE  BootInv'
  <1>1. RTypeOK'
    BY RestartAssumption DEF BootInv, RTypeOK, TaskStep, Reg!RegTypeOK, regVars, bootVars
  <1>2. \A i \in ContainerID : task'[i] = "none" => task[i] = "none"
    BY DEF BootInv, RTypeOK, TaskStep
  <1>3. QED
    BY <1>1, <1>2 DEF TaskStep, BootInv, BootIdle, BootEmpty, SeenTrue, ListedStored, ReadSoFar, AllSeen,
                      SavedSoFar, Merged, Listed, Restored, regVars, bootVars

\* A crash leaves containerd as it is and nothing of the process.
LEMMA CrashStep == ASSUME BootInv, Crash PROVE BootInv'
  <1>1. rq' \in [Creator -> RequestRec] /\ \A t \in Creator : rq'[t].pc = "idle"
    BY DEF Crash, Idle, RequestRec, ReqPlace
  <1>2. Reg!RegTypeOK' /\ \A id \in ContainerID : byID'[id] = Absent
    BY DEF Crash, Reg!RegTypeOK
  <1>3. crashes' \in 0..MaxCrashes
    BY RestartAssumption DEF Crash, BootInv, RTypeOK
  <1>4. RTypeOK'
    BY <1>1, <1>2, <1>3 DEF Crash, BootInv, RTypeOK, RequestRec, ReqPlace, ctdVars
  <1>5. QED
    BY <1>1, <1>2, <1>4 DEF Crash, BootInv, BootIdle, BootEmpty, SeenTrue, ListedStored, ReadSoFar,
                            AllSeen, SavedSoFar, Merged

\* The first start meets an empty containerd.
LEMMA BootInit == RInit => BootInv
  <1> SUFFICES ASSUME RInit PROVE BootInv
    OBVIOUS
  <1>1. RTypeOK
    <2>1. Reg!RegTypeOK
      BY DEF RInit, Reg!RegInit, Reg!RegTypeOK
    <2>2. rq \in [Creator -> RequestRec]
      BY DEF RInit, Idle, RequestRec, ReqPlace
    <2>3. crashes \in 0..MaxCrashes
      BY RestartAssumption DEF RInit
    <2>4. QED
      BY <2>1, <2>2, <2>3 DEF RInit, RTypeOK, RequestRec, ReqPlace
  <1>2. QED
    BY <1>1 DEF RInit, Reg!RegInit, Idle, BootInv, BootIdle, BootEmpty, SeenTrue, ListedStored,
                ReadSoFar, AllSeen, SavedSoFar, Merged

\* BootInv holds throughout.
LEMMA BootInvariant == RSpec => []BootInv
  <1>1. BootInv /\ [RNext]_rVars => BootInv'
    <2> SUFFICES ASSUME BootInv, [RNext]_rVars PROVE BootInv'
      OBVIOUS
    <2>1. CASE Startup
      BY <2>1, StartupTyped, StartupStep
    <2>2. CASE UNCHANGED rVars
      BY <2>2 DEF rVars, BootInv, RTypeOK, Reg!RegTypeOK, BootIdle, BootEmpty, SeenTrue,
                  ListedStored, ReadSoFar, AllSeen, SavedSoFar, Merged, Listed, Restored
    <2>3. QED
      BY <2>1, <2>2, CrashStep, ServingStep, TaskStepKeeps DEF RNext
  <1>2. QED
    BY <1>1, BootInit, PTL DEF RSpec

\* The variables keep their types through every crash and restart.
THEOREM RestartTypeCorrect == RSpec => []RTypeOK
  <1>1. BootInv => RTypeOK
    BY DEF BootInv
  <1>2. QED
    BY <1>1, BootInvariant, PTL

\* A reconciliation that reports no error has restored all of containerd's
\* containers and nothing else, while their tasks went on changing
\* (reconcile.go:97-116, reconciliation.go:60-111).
THEOREM RestoreComplete == RSpec => []CompleteRestore
  <1>1. BootInv => CompleteRestore
    <2> SUFFICES ASSUME BootInv, phase = "ready", ~failed, NEW id \in ContainerID
                 PROVE  /\ Reg!Registered(id) <=> meta[id] # Absent
                        /\ Reg!Registered(id) =>
                              /\ byID[id].name = meta[id]
                              /\ <<seen[id].status, byID[id].data>> \in
                                    {<<"created", "created">>, <<"running", "running">>,
                                     <<"paused", "paused">>, <<"stopped", "exited">>,
                                     <<"none", "exited">>}
                              /\ task[id] = "none" => byID[id].data = "exited"
      BY DEF CompleteRestore
    <2>1. CASE seen[id] = Absent
      BY <2>1 DEF BootInv, AllSeen, SavedSoFar, Merged, Listed, Reg!Registered
    <2>2. CASE seen[id] # Absent
      <3>1. byID[id] = Restored(id) /\ seen[id].status \in SupportedStatus \cup {"none"}
        BY <2>2 DEF BootInv, SavedSoFar, Merged, Listed
      <3>2. meta[id] # Absent /\ seen[id].name = meta[id]
            /\ (task[id] = "none" => seen[id].status = "none")
        BY <2>2 DEF BootInv, SeenTrue
      <3>3. byID[id] # Absent
        BY <2>2, <3>1, RestoredTyped, RestartValues DEF BootInv
      <3>4. byID[id].data = DockerState(seen[id].status) /\ byID[id].name = meta[id]
        BY <2>2, <3>1, <3>2, RestoredTyped DEF BootInv
      <3>5. /\ <<seen[id].status, DockerState(seen[id].status)>> \in
                  {<<"created", "created">>, <<"running", "running">>, <<"paused", "paused">>,
                   <<"stopped", "exited">>, <<"none", "exited">>}
            /\ seen[id].status = "none" => DockerState(seen[id].status) = "exited"
        BY <3>1 DEF DockerState, SupportedStatus
      <3>6. QED
        BY <3>2, <3>3, <3>4, <3>5 DEF Reg!Registered
    <2>3. QED
      BY <2>1, <2>2
  <1>2. QED
    BY <1>1, BootInvariant, PTL

-----------------------------------------------------------------------------
(* Names in containerd.                                                    *)

\* Creates come one at a time; removals and restarts may come at any time.
CreatesAlone ==
    \A t, u \in Creator :
        (rq[t].pc \in {"find", "new"} /\ rq[u].pc \in {"find", "new"}) => t = u

\* A create past its lookup found the name free in containerd, and it still is.
NameStillFree ==
    \A t \in Creator : rq[t].pc = "new" =>
        \A id \in ContainerID : meta[id] \in Name => meta[id] # rq[t].name

NamesInv == StoredNamesUnique /\ NameStillFree

\* Only NewContainer stores a name, and it stores one that was looked up
\* (adapter.go:116-122).
LEMMA NamesStep ==
    ASSUME RTypeOK, CreatesAlone, NamesInv, [RNext]_rVars
    PROVE  NamesInv'
  <1> USE DEF RTypeOK, NamesInv, StoredNamesUnique, NameStillFree, CreatesAlone
  <1>1. ASSUME NEW t \in Creator, Request(t) PROVE NamesInv'
    <2>1. ASSUME NEW n \in Name \cup {NoName}, CreateBegin(t, n) PROVE NamesInv'
      BY <2>1 DEF CreateBegin, ctdVars
    <2>2. CASE CreateFind(t)
      BY <2>2, RestartValues DEF CreateFind, Return, Goto, Idle, ctdVars
    <2>3. CASE CreateNew(t)
      <3>1. CASE Return(t) /\ UNCHANGED meta
        BY <3>1 DEF Return, Idle
      <3>2. ASSUME NEW id \in ContainerID, meta' = [meta EXCEPT ![id] = rq[t].name],
                   rq' = [rq EXCEPT ![t].pc = "save", ![t].id = id]
            PROVE  NamesInv'
        BY <2>3, <3>2 DEF CreateNew
      <3>3. QED
        BY <2>3, <3>1, <3>2 DEF CreateNew
    <2>4. CASE CreateSave(t)
      BY <2>4 DEF CreateSave, Return, Goto, Idle, ctdVars
    <2>5. CASE CreateUndo(t)
      BY <2>5, RestartValues DEF CreateUndo, Return, Idle
    <2>6. ASSUME NEW id \in ContainerID, RemoveBegin(t, id) PROVE NamesInv'
      BY <2>6 DEF RemoveBegin, ctdVars
    <2>7. CASE RemoveDelete(t)
      BY <2>7, RestartValues DEF RemoveDelete, Return, Goto, Idle, ctdVars
    <2>8. CASE RemoveUnregister(t)
      BY <2>8 DEF RemoveUnregister, Return, Idle, ctdVars
    <2>9. QED
      BY <1>1, <2>1, <2>2, <2>3, <2>4, <2>5, <2>6, <2>7, <2>8 DEF Request
  <1>2. CASE Startup
    BY <1>2 DEF Startup, Boot, ReadFails, ReadDone, Merge, SaveDone, Serve, ReadContainer,
                SaveRestored, GiveUp, ctdVars
  <1>3. CASE Crash
    BY <1>3 DEF Crash, Idle, ctdVars
  <1>4. CASE \E id \in ContainerID, s \in Statuses : TaskStep(id, s)
    BY <1>4 DEF TaskStep
  <1>5. CASE UNCHANGED rVars
    BY <1>5 DEF rVars
  <1>6. QED
    BY <1>1, <1>2, <1>3, <1>4, <1>5 DEF RNext

\* containerd never holds two containers of one name, when the lookup of one
\* create and the NewContainer of another do not cross: no crash between them,
\* no undone create and no partial restore makes a difference
\* (adapter.go:116-122).
THEOREM StoredNames == RSpec /\ []CreatesAlone => []StoredNamesUnique
  <1>1. RInit => NamesInv
    BY RestartValues DEF RInit, NamesInv, StoredNamesUnique, NameStillFree, Idle
  <1>2. NamesInv => StoredNamesUnique
    BY DEF NamesInv
  <1>3. QED
    BY <1>1, <1>2, NamesStep, RestartTypeCorrect, PTL DEF RSpec

=============================================================================
