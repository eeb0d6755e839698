---------------------------- MODULE ExecSessions ----------------------------
(***************************************************************************)
(* Concurrent exec sessions on one container: the handler and its stream   *)
(* limiter (internal/api/handlers_exec.go, errors.go), the service's table *)
(* of created execs (internal/app/exec.go) and the runtime adapter with    *)
(* its table of exec records (internal/adapters/containerd/exec.go).       *)
(*                                                                         *)
(* containerd is external: one process per exec ID until it is deleted, a  *)
(* deletion is refused while the process runs, no call succeeds on a       *)
(* context that has ended, and a handle is of no use once its task is      *)
(* gone.  A session's context may end at any time; what ends it (a client  *)
(* that leaves before its connection is hijacked) is left open.            *)
(***************************************************************************)
EXTENDS Naturals, FiniteSets

CONSTANTS
    Exec,          \* exec IDs
    Session,       \* POST /exec/{id}/start requests
    Detached,      \* the sessions that ask for a detached start
    Code,          \* exit codes
    Limit,         \* slots of the stream limiter (64 by default)
    MaxRestarts    \* restarts of the container (bound)

ASSUME ExecAssumption ==
    /\ IsFiniteSet(Session) /\ Detached \subseteq Session
    /\ Limit \in Nat \ {0} /\ MaxRestarts \in Nat

VARIABLES
    up,            \* is the container's task running?
    restarts,
    proc,          \* containerd's process of each exec ID
    run,           \* processes started under each exec ID so far
    exits,         \* history: <<exec, run, code>> of every process that exited
    pending,       \* Service.execs: the record of each created exec
    records,       \* Adapter.execs: the record of each exec that was run
    slots,         \* taken slots of the limiter
    sess           \* each session: place, exec, ctx (ended), run, code, ok

eVars == <<up, restarts, proc, run, exits, pending, records, slots, sess>>
taskVars == <<up, restarts, proc, run, exits>>
tableVars == <<pending, records>>

None == "none"
Record == [running : BOOLEAN, exit : Code \cup {None}]
Idle == [running |-> FALSE, exit |-> None]

Place == {"idle", "acquire", "lookup", "task", "exec", "start", "resize", "await",
          "finish", "record", "cancel", "publish", "release", "done"}

ETypeOK ==
    /\ up \in BOOLEAN /\ restarts \in 0..MaxRestarts
    /\ proc \in [Exec -> [st : {"none", "created", "kept", "running", "exited"}, code : Code \cup {None}]]
    /\ run \in [Exec -> Nat]
    /\ exits \subseteq (Exec \X Nat \X Code)
    /\ DOMAIN pending \subseteq Exec /\ \A e \in DOMAIN pending : pending[e] \in Record
    /\ DOMAIN records \subseteq Exec /\ \A e \in DOMAIN records : records[e] \in Record
    /\ slots \in 0..Limit
    /\ sess \in [Session -> [at : Place, e : Exec, ctx : BOOLEAN,
                             run : Nat, code : Code \cup {None}, ok : BOOLEAN]]

NoProc == [st |-> "none", code |-> None]

EInit ==
    /\ up = TRUE /\ restarts = 0
    /\ proc = [e \in Exec |-> NoProc] /\ run = [e \in Exec |-> 0] /\ exits = {}
    /\ pending = <<>> /\ records = <<>>
    /\ slots = 0
    /\ sess \in [Session -> [at : {"idle"}, e : Exec, ctx : {FALSE},
                             run : {0}, code : {None}, ok : {FALSE}]]

\* A table of records with e's entry set, under the table's mutex.
Put(table, e, record) ==
    [x \in DOMAIN table \cup {e} |-> IF x = e THEN record ELSE table[x]]

Go(s, place) == sess' = [sess EXCEPT ![s].at = place]

\* ExecCreate: a container that is known not to run is refused; one whose
\* status cannot be read is not.
ExecCreate(e) ==
    /\ e \notin DOMAIN pending
    /\ pending' = Put(pending, e, Idle)
    /\ UNCHANGED <<taskVars, records, slots, sess>>

-----------------------------------------------------------------------------
(* The limiter and the handler.                                            *)

Request(s) ==
    /\ sess[s].at = "idle"
    /\ Go(s, "acquire")
    /\ UNCHANGED <<taskVars, tableVars, slots>>

Acquire(s) ==
    /\ sess[s].at = "acquire" /\ slots < Limit
    /\ slots' = slots + 1
    /\ Go(s, "lookup")
    /\ UNCHANGED <<taskVars, tableVars>>

\* Mutant: the release is deferred before the result of acquire is known.
AcquireCanceledReleasing(s) ==
    /\ sess[s].at = "acquire" /\ sess[s].ctx
    /\ slots' = IF slots > 0 THEN slots - 1 ELSE 0
    /\ Go(s, "done")
    /\ UNCHANGED <<taskVars, tableVars>>

AcquireCanceled(s) ==
    /\ sess[s].at = "acquire" /\ sess[s].ctx
    /\ Go(s, "done")
    /\ UNCHANGED <<taskVars, tableVars, slots>>

\* The deferred release; it takes nothing from an empty limiter.
Release(s) ==
    /\ sess[s].at = "release"
    /\ slots' = IF slots > 0 THEN slots - 1 ELSE 0
    /\ Go(s, "done")
    /\ UNCHANGED <<taskVars, tableVars>>

ContextEnds(s) ==
    /\ sess[s].at \notin {"idle", "done"} /\ ~sess[s].ctx
    /\ sess' = [sess EXCEPT ![s].ctx = TRUE]
    /\ UNCHANGED <<taskVars, tableVars, slots>>

-----------------------------------------------------------------------------
(* ExecStart and Adapter.Exec.                                             *)

\* Service.pendingExec; whether the exec was started before is not asked.
Lookup(s) ==
    /\ sess[s].at = "lookup"
    /\ Go(s, IF sess[s].e \in DOMAIN pending THEN "task" ELSE "release")
    /\ UNCHANGED <<taskVars, tableVars, slots>>

\* validateExecConfig, runningTask and buildExecProcessSpec: any of them may
\* fail, and the task must be running.
RunningTask(s) ==
    /\ sess[s].at = "task"
    /\ \/ Go(s, "release")
       \/ up /\ ~sess[s].ctx /\ Go(s, "exec")
    /\ UNCHANGED <<taskVars, tableVars, slots>>

\* task.Exec registers the process; the ID must be free.
TaskExec(s) ==
    /\ sess[s].at = "exec"
    /\ \/ Go(s, "release") /\ UNCHANGED proc
       \/ /\ up /\ ~sess[s].ctx /\ proc[sess[s].e].st = "none"
          /\ proc' = [proc EXCEPT ![sess[s].e].st = "created"]
          /\ Go(s, "start")
    /\ UNCHANGED <<up, restarts, run, exits, tableVars, slots>>

\* process.Delete of a process that is not running ...
Deleted(e) == [proc EXCEPT ![e] = IF @.st = "running" THEN @ ELSE NoProc]

\* ... and a failing one, whose error is discarded: a process that was not
\* started is kept by containerd until its task goes.
Undeleted(e) == [proc EXCEPT ![e].st = IF @ = "created" THEN "kept" ELSE @]

\* process.Wait and process.Start; a detached exec is recorded as running.
Start(s) ==
    LET e == sess[s].e IN
    /\ sess[s].at = "start"
    /\ up /\ ~sess[s].ctx /\ proc[e].st = "created"
    /\ proc' = [proc EXCEPT ![e].st = "running"]
    /\ run' = [run EXCEPT ![e] = @ + 1]
    /\ IF s \in Detached
       THEN /\ records' = Put(records, e, [running |-> TRUE, exit |-> None])
            /\ sess' = [sess EXCEPT ![s].at = "publish", ![s].run = run[e] + 1]
       ELSE /\ sess' = [sess EXCEPT ![s].at = "resize", ![s].run = run[e] + 1]
            /\ UNCHANGED records
    /\ UNCHANGED <<up, restarts, exits, pending, slots>>

\* Mutant: a process that cannot be started stays registered.
StartFailsLeaving(s) ==
    /\ sess[s].at = "start"
    /\ Go(s, "release")
    /\ UNCHANGED <<taskVars, tableVars, slots>>

\* The process is deleted again, on the same context; that may fail as well.
StartFails(s) ==
    /\ sess[s].at = "start"
    /\ proc' = Undeleted(sess[s].e) \/ (~sess[s].ctx /\ proc' = Deleted(sess[s].e))
    /\ Go(s, "release")
    /\ UNCHANGED <<up, restarts, run, exits, tableVars, slots>>

\* resizeExecProcess: a terminal that cannot be resized ends the session, and
\* the deletion, whose error is discarded, fails unless the process has exited.
Resize(s) ==
    /\ sess[s].at = "resize"
    /\ \/ Go(s, "await") /\ UNCHANGED proc
       \/ /\ UNCHANGED proc \/ (~sess[s].ctx /\ proc' = Deleted(sess[s].e))
          /\ Go(s, "release")
    /\ UNCHANGED <<up, restarts, run, exits, tableVars, slots>>

\* The process that the session has started, as long as its task is there.
Mine(s) == run[sess[s].e] = sess[s].run /\ proc[sess[s].e].st \in {"running", "exited"}

\* Mutant: a task that is gone is not noticed.
AwaitExitForever(s) ==
    /\ sess[s].at = "await" /\ Mine(s) /\ proc[sess[s].e].st = "exited"
    /\ sess' = [sess EXCEPT ![s].at = "finish", ![s].code = proc[sess[s].e].code]
    /\ UNCHANGED <<taskVars, tableVars, slots>>

\* execAttached: the exit status, or an error when the task went away.
AwaitExit(s) ==
    /\ sess[s].at = "await"
    /\ \/ /\ Mine(s) /\ proc[sess[s].e].st = "exited"
          /\ sess' = [sess EXCEPT ![s].at = "finish", ![s].code = proc[sess[s].e].code]
       \/ ~Mine(s) /\ Go(s, "release")
    /\ UNCHANGED <<taskVars, tableVars, slots>>

\* The exit channel delivers an error instead, which leaves no record.
AwaitFails(s) ==
    /\ sess[s].at = "await"
    /\ Go(s, "release")
    /\ UNCHANGED <<taskVars, tableVars, slots>>

\* finishExec: the deletion is best effort.
Finish(s) ==
    /\ sess[s].at = "finish"
    /\ proc' \in {proc} \cup (IF sess[s].ctx \/ ~Mine(s) THEN {} ELSE {Deleted(sess[s].e)})
    /\ Go(s, "record")
    /\ UNCHANGED <<up, restarts, run, exits, tableVars, slots>>

FinishRecord(s) ==
    /\ sess[s].at = "record"
    /\ records' = Put(records, sess[s].e, [running |-> FALSE, exit |-> sess[s].code])
    /\ sess' = [sess EXCEPT ![s].at = "publish", ![s].ok = TRUE]
    /\ UNCHANGED <<taskVars, pending, slots>>

\* cancelExec: the exit code is known if the process can be deleted.
Cancel(s) ==
    /\ sess[s].at = "await" /\ sess[s].ctx
    /\ \/ /\ Mine(s) /\ proc[sess[s].e].st = "exited"
          /\ proc' = Deleted(sess[s].e)
          /\ sess' = [sess EXCEPT ![s].at = "cancel", ![s].code = proc[sess[s].e].code]
       \/ Go(s, "cancel") /\ UNCHANGED proc
    /\ UNCHANGED <<up, restarts, run, exits, tableVars, slots>>

\* Mutant: a code is reported for a process that was not seen to exit.
CancelRecordZero(s) ==
    /\ sess[s].at = "cancel"
    /\ LET code == IF sess[s].code = None THEN CHOOSE c \in Code : TRUE ELSE sess[s].code
       IN  records' = Put(records, sess[s].e, [running |-> FALSE, exit |-> code])
    /\ Go(s, "release")
    /\ UNCHANGED <<taskVars, pending, slots>>

CancelRecord(s) ==
    /\ sess[s].at = "cancel"
    /\ records' = Put(records, sess[s].e, [running |-> FALSE, exit |-> sess[s].code])
    /\ Go(s, "release")
    /\ UNCHANGED <<taskVars, pending, slots>>

\* recordExecStarted copies the adapter's record, whoever wrote it last.
Publish(s) ==
    /\ sess[s].at = "publish"
    /\ pending' = [pending EXCEPT ![sess[s].e] = records[sess[s].e]]
    /\ Go(s, "release")
    /\ UNCHANGED <<taskVars, records, slots>>

-----------------------------------------------------------------------------
(* The processes and the container.                                        *)

Exited(e, c) == [proc[e] EXCEPT !.st = "exited", !.code = c]

ProcessExits(e) ==
    /\ proc[e].st = "running"
    /\ \E c \in Code : /\ proc' = [proc EXCEPT ![e] = Exited(e, c)]
                       /\ exits' = exits \cup {<<e, run[e], c>>}
    /\ UNCHANGED <<up, restarts, run, tableVars, slots, sess>>

\* A stopped container takes its processes with it.
ContainerStops ==
    /\ up /\ restarts < MaxRestarts
    /\ up' = FALSE
    /\ \E c \in Code :
        LET killed == {e \in Exec : proc[e].st = "running"} IN
        /\ proc' = [e \in Exec |-> IF e \in killed THEN Exited(e, c) ELSE proc[e]]
        /\ exits' = exits \cup {<<e, run[e], c>> : e \in killed}
    /\ UNCHANGED <<restarts, run, tableVars, slots, sess>>

\* A new task knows nothing of the processes of the old one.
ContainerStarts ==
    /\ ~up
    /\ up' = TRUE /\ restarts' = restarts + 1
    /\ proc' = [e \in Exec |-> NoProc]
    /\ UNCHANGED <<run, exits, tableVars, slots, sess>>

\* What a session does by itself once it has been requested.
Step(s) ==
    \/ Acquire(s) \/ AcquireCanceled(s) \/ Lookup(s) \/ RunningTask(s) \/ TaskExec(s)
    \/ Start(s) \/ StartFails(s) \/ Resize(s) \/ AwaitExit(s) \/ Finish(s)
    \/ FinishRecord(s) \/ Cancel(s) \/ CancelRecord(s) \/ Publish(s) \/ Release(s)

ENext ==
    \/ \E e \in Exec : ExecCreate(e) \/ ProcessExits(e)
    \/ \E s \in Session : Request(s) \/ ContextEnds(s) \/ AwaitFails(s) \/ Step(s)
    \/ ContainerStops \/ ContainerStarts

\* Sessions are scheduled, and the processes they run end; that containerd reports
\* an error instead is not relied on.
ESpec ==
    /\ EInit /\ [][ENext]_eVars
    /\ \A s \in Session : WF_eVars(Step(s))
    /\ \A e \in Exec : WF_eVars(ProcessExits(e))

-----------------------------------------------------------------------------
(* Properties.                                                             *)

\* Every taken slot belongs to a session that is being served, whichever way
\* sessions fail or are canceled: no slot is lost and none is freed twice
\* (errors.go:213-230, handlers_exec.go:62-66).
SlotsCounted ==
    slots = Cardinality({s \in Session : sess[s].at \notin {"idle", "acquire", "done"}})

\* An exit code that inspect shows is the code of a process that ran under this
\* exec ID and exited, and an attached start returns the code of the very
\* process it started, also when the same exec is started again meanwhile or
\* the container restarts (exec.go:157-228).
ExitCodesReal ==
    /\ \A table \in {records, pending} : \A e \in DOMAIN table :
            table[e].exit # None => \E n \in 1..run[e] : <<e, n, table[e].exit>> \in exits
    /\ \A s \in Session :
            sess[s].ok => <<sess[s].e, sess[s].run, sess[s].code>> \in exits

\* A process that is registered and not started has a session that will start or
\* delete it, also when sessions of one exec overlap with each other and with a
\* restart of the container (exec.go:146-149, 160-167): otherwise it would block
\* its exec ID, as one does whose deletion failed.
NoResidue ==
    \A e \in Exec : proc[e].st = "created" =>
        \E s \in Session : sess[s].e = e /\ sess[s].at = "start"

\* Every session ends, also one that had to wait for a slot, when the processes
\* do (errors.go:213-221, exec.go:173-189).
SessionsEnd == \A s \in Session : sess[s].at = "acquire" ~> sess[s].at = "done"
=============================================================================
