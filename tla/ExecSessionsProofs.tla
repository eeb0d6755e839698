------------------------- MODULE ExecSessionsProofs -------------------------
(***************************************************************************)
(* Exec sessions, for any number of sessions, execs, slots and restarts of *)
(* the container.                                                          *)
(*                                                                         *)
(* A session's slot is counted from the place it is at.  Exit codes are    *)
(* followed from the process to the two tables: an exited process has its  *)
(* code in the history under the run it was, a session carries the code of *)
(* its own run, and a run's number is never used again.                    *)
(***************************************************************************)
EXTENDS ExecSessions, FiniteSetTheorems, TLAPS

Sess == [at : Place, e : Exec, ctx : BOOLEAN, run : Nat, code : Code \cup {None}, ok : BOOLEAN]
Proc == [st : {"none", "created", "kept", "running", "exited"}, code : Code \cup {None}]

\* A session moves, and the others stay where they are.
Moved(s) == sess' \in [Session -> Sess] /\ \A u \in Session \ {s} : sess'[u] = sess[u]

\* ... with nothing changed but its place.
MovedTo(s, place) ==
    /\ Moved(s) /\ sess'[s].at = place
    /\ sess'[s].e = sess[s].e /\ sess'[s].ctx = sess[s].ctx /\ sess'[s].run = sess[s].run
    /\ sess'[s].code = sess[s].code /\ sess'[s].ok = sess[s].ok

\* Go changes the place of one session.
LEMMA GoMoves ==
    ASSUME ETypeOK, NEW s \in Session, NEW place \in Place, Go(s, place)
    PROVE  MovedTo(s, place)
  <1> DEFINE r == [sess[s] EXCEPT !.at = place]
  <1>1. sess \in [Session -> Sess]
    BY DEF ETypeOK, Sess
  <1>2. /\ r \in Sess /\ r.at = place /\ r.e = sess[s].e /\ r.ctx = sess[s].ctx
        /\ r.run = sess[s].run /\ r.code = sess[s].code /\ r.ok = sess[s].ok
    BY <1>1 DEF Sess
  <1>3. sess' = [sess EXCEPT ![s] = r]
    BY DEF Go
  <1> HIDE DEF r
  <1>4. QED
    BY <1>1, <1>2, <1>3 DEF Moved, MovedTo

\* The end of a context is seen by its session only.
LEMMA ContextMoves ==
    ASSUME ETypeOK, NEW s \in Session, ContextEnds(s)
    PROVE  /\ Moved(s) /\ sess'[s].at = sess[s].at /\ sess'[s].e = sess[s].e /\ sess'[s].ctx = TRUE
           /\ sess'[s].run = sess[s].run /\ sess'[s].code = sess[s].code /\ sess'[s].ok = sess[s].ok
  <1> DEFINE r == [sess[s] EXCEPT !.ctx = TRUE]
  <1>1. sess \in [Session -> Sess]
    BY DEF ETypeOK, Sess
  <1>2. /\ r \in Sess /\ r.at = sess[s].at /\ r.e = sess[s].e /\ r.ctx = TRUE
        /\ r.run = sess[s].run /\ r.code = sess[s].code /\ r.ok = sess[s].ok
    BY <1>1 DEF Sess
  <1>3. sess' = [sess EXCEPT ![s] = r]
    BY DEF ContextEnds
  <1> HIDE DEF r
  <1>4. QED
    BY <1>1, <1>2, <1>3 DEF Moved

\* A start gives the session the number of its run (exec.go:157-171).
LEMMA StartMoves ==
    ASSUME ETypeOK, NEW s \in Session, Start(s)
    PROVE  /\ Moved(s) /\ sess'[s].at \in {"publish", "resize"}
           /\ (sess'[s].at = "publish" => s \in Detached)
           /\ sess'[s].e = sess[s].e /\ sess'[s].ctx = sess[s].ctx
           /\ sess'[s].run = run[sess[s].e] + 1
           /\ sess'[s].code = sess[s].code /\ sess'[s].ok = sess[s].ok
  <1> DEFINE place == IF s \in Detached THEN "publish" ELSE "resize"
             r == [sess[s] EXCEPT !.at = place, !.run = run[sess[s].e] + 1]
  <1>1. sess \in [Session -> Sess]
    BY DEF ETypeOK, Sess
  <1>2. run[sess[s].e] + 1 \in Nat /\ place \in Place
    BY <1>1 DEF ETypeOK, Sess, Place
  <1>3. /\ r \in Sess /\ r.at = place /\ r.e = sess[s].e /\ r.ctx = sess[s].ctx
        /\ r.run = run[sess[s].e] + 1 /\ r.code = sess[s].code /\ r.ok = sess[s].ok
    BY <1>1, <1>2 DEF Sess
  <1>4. sess' = [sess EXCEPT ![s] = r]
    BY <1>1 DEF Start
  <1>5. place \in {"publish", "resize"} /\ (place = "publish" => s \in Detached)
    OBVIOUS
  <1> HIDE DEF r, place
  <1>6. QED
    BY <1>1, <1>3, <1>4, <1>5 DEF Moved

\* A session that has seen its process exit carries the code along.
LEMMA CodeMoves ==
    ASSUME ETypeOK, NEW s \in Session, NEW place \in Place, NEW c \in Code \cup {None},
           sess' = [sess EXCEPT ![s].at = place, ![s].code = c]
    PROVE  /\ Moved(s) /\ sess'[s].at = place /\ sess'[s].e = sess[s].e
           /\ sess'[s].ctx = sess[s].ctx /\ sess'[s].run = sess[s].run
           /\ sess'[s].code = c /\ sess'[s].ok = sess[s].ok
  <1> DEFINE r == [sess[s] EXCEPT !.at = place, !.code = c]
  <1>1. sess \in [Session -> Sess]
    BY DEF ETypeOK, Sess
  <1>2. /\ r \in Sess /\ r.at = place /\ r.e = sess[s].e /\ r.ctx = sess[s].ctx
        /\ r.run = sess[s].run /\ r.code = c /\ r.ok = sess[s].ok
    BY <1>1 DEF Sess
  <1>3. sess' = [sess EXCEPT ![s] = r]
    OBVIOUS
  <1> HIDE DEF r
  <1>4. QED
    BY <1>1, <1>2, <1>3 DEF Moved

\* cancelExec learns the code of its process only if that has exited
\* (exec.go:206-218).
LEMMA CancelMoves ==
    ASSUME ETypeOK, NEW s \in Session, Cancel(s)
    PROVE  /\ Moved(s) /\ sess[s].at = "await" /\ sess'[s].at = "cancel" /\ sess'[s].e = sess[s].e
           /\ sess'[s].ctx = sess[s].ctx /\ sess'[s].run = sess[s].run /\ sess'[s].ok = sess[s].ok
           /\ \/ sess'[s].code = sess[s].code /\ proc' = proc
              \/ /\ Mine(s) /\ proc[sess[s].e].st = "exited"
                 /\ sess'[s].code = proc[sess[s].e].code /\ proc' = Deleted(sess[s].e)
  <1> DEFINE c == proc[sess[s].e].code
  <1>1. c \in Code \cup {None} /\ "cancel" \in Place /\ sess[s].at = "await"
    BY DEF ETypeOK, Place, Cancel
  <1>2. CASE Go(s, "cancel") /\ UNCHANGED proc
    BY <1>1, <1>2, GoMoves DEF MovedTo
  <1>3. CASE /\ Mine(s) /\ proc[sess[s].e].st = "exited" /\ proc' = Deleted(sess[s].e)
             /\ sess' = [sess EXCEPT ![s].at = "cancel", ![s].code = c]
    <2> HIDE DEF c
    <2>1. /\ Moved(s) /\ sess'[s].at = "cancel" /\ sess'[s].e = sess[s].e
          /\ sess'[s].ctx = sess[s].ctx /\ sess'[s].run = sess[s].run
          /\ sess'[s].code = c /\ sess'[s].ok = sess[s].ok
      BY <1>1, <1>3, CodeMoves
    <2>2. QED
      BY <1>1, <1>3, <2>1 DEF c
  <1>4. QED
    BY <1>2, <1>3 DEF Cancel

\* execAttached takes the code of its own process, or gives up
\* (exec.go:173-189).
LEMMA AwaitMoves ==
    ASSUME ETypeOK, NEW s \in Session, AwaitExit(s)
    PROVE  /\ Moved(s) /\ sess[s].at = "await" /\ sess'[s].e = sess[s].e
           /\ sess'[s].ctx = sess[s].ctx /\ sess'[s].run = sess[s].run /\ sess'[s].ok = sess[s].ok
           /\ \/ sess'[s].at = "release" /\ sess'[s].code = sess[s].code
              \/ /\ Mine(s) /\ proc[sess[s].e].st = "exited"
                 /\ sess'[s].at = "finish" /\ sess'[s].code = proc[sess[s].e].code
  <1> DEFINE c == proc[sess[s].e].code
  <1>1. c \in Code \cup {None} /\ "finish" \in Place /\ "release" \in Place /\ sess[s].at = "await"
    BY DEF ETypeOK, Place, AwaitExit
  <1>2. CASE Go(s, "release")
    BY <1>1, <1>2, GoMoves DEF MovedTo
  <1>3. CASE /\ Mine(s) /\ proc[sess[s].e].st = "exited"
             /\ sess' = [sess EXCEPT ![s].at = "finish", ![s].code = c]
    <2> HIDE DEF c
    <2>1. /\ Moved(s) /\ sess'[s].at = "finish" /\ sess'[s].e = sess[s].e
          /\ sess'[s].ctx = sess[s].ctx /\ sess'[s].run = sess[s].run
          /\ sess'[s].code = c /\ sess'[s].ok = sess[s].ok
      BY <1>1, <1>3, CodeMoves
    <2>2. QED
      BY <1>1, <1>3, <2>1 DEF c
  <1>4. QED
    BY <1>2, <1>3 DEF AwaitExit

\* An attached start that is about to return a code.
LEMMA RecordMoves ==
    ASSUME ETypeOK, NEW s \in Session, FinishRecord(s)
    PROVE  /\ Moved(s) /\ sess'[s].at = "publish" /\ sess'[s].e = sess[s].e
           /\ sess'[s].ctx = sess[s].ctx /\ sess'[s].run = sess[s].run
           /\ sess'[s].code = sess[s].code /\ sess'[s].ok = TRUE
  <1> DEFINE r == [sess[s] EXCEPT !.at = "publish", !.ok = TRUE]
  <1>1. sess \in [Session -> Sess]
    BY DEF ETypeOK, Sess
  <1>2. /\ r \in Sess /\ r.at = "publish" /\ r.e = sess[s].e /\ r.ctx = sess[s].ctx
        /\ r.run = sess[s].run /\ r.code = sess[s].code /\ r.ok = TRUE
    BY <1>1 DEF Sess, Place
  <1>3. sess' = [sess EXCEPT ![s] = r]
    BY DEF FinishRecord
  <1> HIDE DEF r
  <1>4. QED
    BY <1>1, <1>2, <1>3 DEF Moved

-----------------------------------------------------------------------------
(* The limiter.                                                            *)

Unserved == {"idle", "acquire", "done"}
Served == {s \in Session : sess[s].at \notin Unserved}

\* A session that goes from one place it is served at to another keeps its slot,
\* and so does one that waits.
LEMMA ServedSame ==
    ASSUME ETypeOK, NEW s \in Session, Moved(s), sess'[s].at \in Unserved <=> sess[s].at \in Unserved
    PROVE  Served' = Served
  BY DEF Served, Moved

\* A taken slot is one more served session.
LEMMA ServedMore ==
    ASSUME ETypeOK, NEW s \in Session, Moved(s), sess'[s].at \notin Unserved, sess[s].at \in Unserved
    PROVE  Cardinality(Served') = Cardinality(Served) + 1
  <1>1. Served' = Served \cup {s} /\ s \notin Served
    BY DEF Served, Moved
  <1>2. IsFiniteSet(Served)
    BY ExecAssumption, FS_Subset DEF Served
  <1>3. QED
    BY <1>1, <1>2, FS_AddElement

\* A release ends one served session, so there is a slot to give back.
LEMMA ServedLess ==
    ASSUME ETypeOK, NEW s \in Session, Moved(s), sess'[s].at \in Unserved, sess[s].at \notin Unserved
    PROVE  Cardinality(Served) \in Nat \ {0} /\ Cardinality(Served') = Cardinality(Served) - 1
  <1>1. Served' = Served \ {s} /\ s \in Served
    BY DEF Served, Moved
  <1>2. IsFiniteSet(Served)
    BY ExecAssumption, FS_Subset DEF Served
  <1>3. Cardinality(Served) \in Nat /\ Cardinality(Served) # 0
    BY <1>1, <1>2, FS_CardinalityType, FS_EmptySet
  <1>4. QED
    BY <1>1, <1>2, <1>3, FS_RemoveElement

-----------------------------------------------------------------------------
(* Types.                                                                  *)

\* Whoever is about to copy the adapter's record finds one.
PublishReady == \A s \in Session : sess[s].at = "publish" => sess[s].e \in DOMAIN records

\* A map store adds or replaces one record (exec.go:49, containerd/exec.go:262-266).
LEMMA PutTyped ==
    ASSUME NEW table, DOMAIN table \subseteq Exec, \A x \in DOMAIN table : table[x] \in Record,
           NEW e \in Exec, NEW r \in Record
    PROVE  /\ DOMAIN Put(table, e, r) \subseteq Exec
           /\ \A x \in DOMAIN Put(table, e, r) : Put(table, e, r)[x] \in Record
  BY DEF Put

\* A deletion leaves no process, or the one that runs (exec.go:146-149).
LEMMA DeletedTyped ==
    ASSUME proc \in [Exec -> Proc], NEW e \in Exec
    PROVE  /\ Deleted(e) \in [Exec -> Proc]
           /\ \A x \in Exec : Deleted(e)[x] = proc[x] \/ Deleted(e)[x] = NoProc
           /\ proc[e].st # "running" => Deleted(e)[e] = NoProc
  BY DEF Deleted, NoProc, Proc

\* A failed one leaves the process, marked if it was not started.
LEMMA UndeletedTyped ==
    ASSUME proc \in [Exec -> Proc], NEW e \in Exec
    PROVE  /\ Undeleted(e) \in [Exec -> Proc]
           /\ \A x \in Exec : Undeleted(e)[x] = proc[x] \/ Undeleted(e)[x].st = "kept"
           /\ Undeleted(e)[e].st # "created"
  BY DEF Undeleted, Proc

\* What a step of a session does to the processes, the runs and the tables.
LEMMA SessionTyped ==
    ASSUME ETypeOK, PublishReady, NEW s \in Session, Request(s) \/ ContextEnds(s) \/ AwaitFails(s) \/ Step(s)
    PROVE  /\ proc' \in [Exec -> Proc] /\ run' \in [Exec -> Nat] /\ UNCHANGED <<up, restarts, exits>>
           /\ DOMAIN pending' \subseteq Exec /\ \A x \in DOMAIN pending' : pending'[x] \in Record
           /\ DOMAIN records' \subseteq Exec /\ \A x \in DOMAIN records' : records'[x] \in Record
           /\ Moved(s)
  <1>0. /\ proc \in [Exec -> Proc] /\ run \in [Exec -> Nat] /\ sess[s] \in Sess /\ sess[s].e \in Exec
        /\ sess[s].code \in Code \cup {None}
        /\ DOMAIN pending \subseteq Exec /\ \A x \in DOMAIN pending : pending[x] \in Record
        /\ DOMAIN records \subseteq Exec /\ \A x \in DOMAIN records : records[x] \in Record
    BY DEF ETypeOK, Proc, Sess
  <1> USE <1>0 DEF taskVars, tableVars
  <1>1. CASE \/ Request(s) \/ Acquire(s) \/ AcquireCanceled(s) \/ Release(s) \/ Lookup(s)
             \/ RunningTask(s) \/ AwaitFails(s)
    <2>1. Moved(s)
      BY <1>1, GoMoves DEF Request, Acquire, AcquireCanceled, Release, Lookup, RunningTask, AwaitFails, MovedTo, Place
    <2>2. QED
      BY <1>1, <2>1 DEF Request, Acquire, AcquireCanceled, Release, Lookup, RunningTask, AwaitFails
  <1>2. CASE ContextEnds(s)
    BY <1>2, ContextMoves DEF ContextEnds
  <1>3. CASE TaskExec(s)
    <2>1. Moved(s)
      BY <1>3, GoMoves DEF TaskExec, MovedTo, Place
    <2>2. proc' \in [Exec -> Proc]
      BY <1>3 DEF TaskExec, Proc
    <2>3. QED
      BY <1>3, <2>1, <2>2 DEF TaskExec
  <1>4. CASE Start(s)
    <2>1. proc' \in [Exec -> Proc] /\ run' \in [Exec -> Nat]
      BY <1>4 DEF Start, Proc
    <2>2. DOMAIN records' \subseteq Exec /\ \A x \in DOMAIN records' : records'[x] \in Record
      <3>1. [running |-> TRUE, exit |-> None] \in Record
        BY DEF Record
      <3>2. CASE records' = Put(records, sess[s].e, [running |-> TRUE, exit |-> None])
        <4> DEFINE r == [running |-> TRUE, exit |-> None]
        <4> HIDE DEF r
        <4>1. records' = Put(records, sess[s].e, r) /\ r \in Record
          BY <3>1, <3>2 DEF r
        <4>2. QED
          BY <4>1, PutTyped
      <3>3. CASE UNCHANGED records
        BY <3>3
      <3>4. QED
        BY <1>4, <3>2, <3>3 DEF Start
    <2>3. QED
      BY <1>4, <2>1, <2>2, StartMoves DEF Start
  <1>5. CASE StartFails(s) \/ Resize(s)
    <2>1. Moved(s)
      BY <1>5, GoMoves DEF StartFails, Resize, MovedTo, Place
    <2>2. proc' \in [Exec -> Proc]
      BY <1>5, DeletedTyped, UndeletedTyped DEF StartFails, Resize
    <2>3. QED
      BY <1>5, <2>1, <2>2 DEF StartFails, Resize
  <1>6. CASE AwaitExit(s)
    <2>2. Moved(s)
      BY <1>6, AwaitMoves
    <2>3. QED
      BY <1>6, <2>2 DEF AwaitExit
  <1>7. CASE Finish(s)
    <2>1. Moved(s)
      BY <1>7, GoMoves DEF Finish, MovedTo, Place
    <2>2. proc' \in [Exec -> Proc]
      BY <1>7, DeletedTyped DEF Finish
    <2>3. QED
      BY <1>7, <2>1, <2>2 DEF Finish
  <1>8. CASE FinishRecord(s)
    <2> DEFINE r == [running |-> FALSE, exit |-> sess[s].code]
    <2>1. r \in Record /\ records' = Put(records, sess[s].e, r)
      BY <1>8 DEF Record, FinishRecord
    <2> HIDE DEF r
    <2>2. DOMAIN records' \subseteq Exec /\ \A x \in DOMAIN records' : records'[x] \in Record
      BY <2>1, PutTyped
    <2>3. QED
      BY <1>8, <2>2, RecordMoves DEF FinishRecord
  <1>9. CASE Cancel(s)
    <2>2. Moved(s)
      BY <1>9, CancelMoves
    <2>3. proc' \in [Exec -> Proc]
      BY <1>9, DeletedTyped DEF Cancel
    <2>4. QED
      BY <1>9, <2>2, <2>3 DEF Cancel
  <1>10. CASE CancelRecord(s)
    <2> DEFINE r == [running |-> FALSE, exit |-> sess[s].code]
    <2>1. r \in Record /\ records' = Put(records, sess[s].e, r)
      BY <1>10 DEF Record, CancelRecord
    <2> HIDE DEF r
    <2>2. Moved(s)
      BY <1>10, GoMoves DEF CancelRecord, MovedTo, Place
    <2>3. QED
      BY <1>10, <2>1, <2>2, PutTyped DEF CancelRecord
  <1>11. CASE Publish(s)
    <2>1. Moved(s)
      BY <1>11, GoMoves DEF Publish, MovedTo, Place
    <2>2. QED
      BY <1>11, <2>1 DEF Publish, PublishReady
  <1>12. QED
    BY <1>1, <1>2, <1>3, <1>4, <1>5, <1>6, <1>7, <1>8, <1>9, <1>10, <1>11 DEF Step

\* The container and its processes change nothing of the sessions.
RestartsLeft == ~up => restarts < MaxRestarts

External == (\E e \in Exec : ExecCreate(e) \/ ProcessExits(e)) \/ ContainerStops \/ ContainerStarts

\* What containerd and the clients do keeps the types.
LEMMA ExternalTyped ==
    ASSUME ETypeOK, RestartsLeft, External
    PROVE  ETypeOK' /\ RestartsLeft' /\ UNCHANGED <<slots, sess>>
  <1> USE DEF ETypeOK, RestartsLeft, tableVars, taskVars
  <1>1. ASSUME NEW e \in Exec, ExecCreate(e) PROVE ETypeOK' /\ RestartsLeft' /\ UNCHANGED <<slots, sess>>
    <2>1. Idle \in Record
      BY DEF Idle, Record
    <2>2. DOMAIN pending' \subseteq Exec /\ \A x \in DOMAIN pending' : pending'[x] \in Record
      BY <1>1, <2>1, PutTyped DEF ExecCreate
    <2>3. QED
      BY <1>1, <2>2 DEF ExecCreate
  <1>2. ASSUME NEW e \in Exec, ProcessExits(e) PROVE ETypeOK' /\ RestartsLeft' /\ UNCHANGED <<slots, sess>>
    <2>1. PICK c \in Code : proc' = [proc EXCEPT ![e] = Exited(e, c)] /\ exits' = exits \cup {<<e, run[e], c>>}
      BY <1>2 DEF ProcessExits
    <2>2. Exited(e, c) \in Proc
      BY DEF Exited, Proc
    <2>3. proc' \in [Exec -> Proc] /\ exits' \subseteq (Exec \X Nat \X Code)
      BY <2>1, <2>2 DEF Proc
    <2>4. QED
      BY <1>2, <2>3 DEF ProcessExits, Proc
  <1>3. CASE ContainerStops
    <2> DEFINE killed == {e \in Exec : proc[e].st = "running"}
    <2>1. PICK c \in Code :
            /\ proc' = [e \in Exec |-> IF e \in killed THEN Exited(e, c) ELSE proc[e]]
            /\ exits' = exits \cup {<<e, run[e], c>> : e \in killed}
      BY <1>3 DEF ContainerStops
    <2>2. \A e \in Exec : Exited(e, c) \in Proc
      BY DEF Exited, Proc
    <2>3. proc' \in [Exec -> Proc]
      BY <2>1, <2>2 DEF Proc
    <2>4. exits' \subseteq (Exec \X Nat \X Code)
      BY <2>1
    <2>5. QED
      BY <1>3, <2>3, <2>4 DEF ContainerStops, Proc
  <1>4. CASE ContainerStarts
    <2>1. restarts' \in 0..MaxRestarts
      BY <1>4, ExecAssumption DEF ContainerStarts
    <2>2. QED
      BY <1>4, <2>1 DEF ContainerStarts, NoProc
  <1>5. QED
    BY <1>1, <1>2, <1>3, <1>4 DEF External

\* Where a session may be early on: it has no code yet and returns none.
Early == {"idle", "acquire", "lookup", "task", "exec", "start", "resize", "await"}

Codeless == \A s \in Session : sess[s].at \in Early => sess[s].code = None /\ ~sess[s].ok

\* The history knows only runs there were, and every exited process is in it.
ExitsKnown == \A e \in Exec, n \in Nat, c \in Code : <<e, n, c>> \in exits => n \in 1..run[e]

ProcessesKnown ==
    \A e \in Exec :
        /\ proc[e].st \in {"running", "exited"} => run[e] # 0
        /\ proc[e].st = "exited" => proc[e].code \in Code /\ <<e, run[e], proc[e].code>> \in exits

\* A session's code is that of its own run.
Seen(s) == <<sess[s].e, sess[s].run, sess[s].code>> \in exits

SessionCodes ==
    \A s \in Session :
        /\ sess[s].code # None => Seen(s)
        /\ (sess[s].at \in {"finish", "record"} \/ sess[s].ok) => Seen(s)

TableCodes(table) ==
    \A e \in DOMAIN table :
        table[e].exit # None => \E n \in 1..run[e] : <<e, n, table[e].exit>> \in exits

CodeInv ==
    /\ PublishReady /\ Codeless /\ ExitsKnown /\ ProcessesKnown /\ SessionCodes
    /\ TableCodes(records) /\ TableCodes(pending)

-----------------------------------------------------------------------------
(* The slots.                                                              *)

SlotInv == slots = Cardinality(Served)

\* Only acquire takes a slot and only release gives one back, each for its own
\* session (errors.go:213-230, handlers_exec.go:62-66).
LEMMA SlotStep ==
    ASSUME ETypeOK, SlotInv, NEW s \in Session, Request(s) \/ ContextEnds(s) \/ AwaitFails(s) \/ Step(s), Moved(s)
    PROVE  SlotInv' /\ slots' \in 0..Limit
  <1> USE DEF Unserved, Place
  <1>0. slots \in 0..Limit
    BY DEF ETypeOK
  <1>1. CASE Acquire(s)
    <2>1. sess[s].at = "acquire" /\ sess'[s].at = "lookup"
      BY <1>1, GoMoves DEF Acquire, MovedTo
    <2>2. Cardinality(Served') = Cardinality(Served) + 1
      BY <2>1, ServedMore
    <2>3. QED
      BY <1>0, <1>1, <2>2, ExecAssumption DEF Acquire, SlotInv
  <1>2. CASE Release(s)
    <2>1. sess[s].at = "release" /\ sess'[s].at = "done"
      BY <1>2, GoMoves DEF Release, MovedTo
    <2>2. Cardinality(Served) \in Nat \ {0} /\ Cardinality(Served') = Cardinality(Served) - 1
      BY <2>1, ServedLess
    <2>3. QED
      BY <1>0, <1>2, <2>2, ExecAssumption DEF Release, SlotInv
  <1>3. CASE ~Acquire(s) /\ ~Release(s)
    <2>1. /\ slots' = slots
          /\ sess'[s].at \in Unserved <=> sess[s].at \in Unserved
      <3>1. CASE ContextEnds(s)
        BY <3>1, ContextMoves DEF ContextEnds
      <3>2. CASE Request(s) \/ AcquireCanceled(s) \/ Lookup(s) \/ RunningTask(s) \/ TaskExec(s) \/ AwaitFails(s)
        BY <3>2, GoMoves DEF Request, AcquireCanceled, Lookup, RunningTask, TaskExec, AwaitFails, MovedTo
      <3>3. CASE Start(s)
        BY <3>3, StartMoves DEF Start
      <3>4. CASE StartFails(s) \/ Resize(s) \/ Finish(s) \/ CancelRecord(s) \/ Publish(s)
        BY <3>4, GoMoves DEF StartFails, Resize, Finish, CancelRecord, Publish, MovedTo
      <3>5. CASE FinishRecord(s)
        BY <3>5, RecordMoves DEF FinishRecord
      <3>7. CASE AwaitExit(s)
        BY <3>7, AwaitMoves DEF AwaitExit
      <3>8. CASE Cancel(s)
        <4>1. sess'[s].at = "cancel"
          BY <3>8, CancelMoves
        <4>2. QED
          BY <3>8, <4>1 DEF Cancel
      <3>9. QED
        BY <1>3, <3>1, <3>2, <3>3, <3>4, <3>5, <3>7, <3>8 DEF Step
    <2>2. Served' = Served
      BY <2>1, ServedSame
    <2>3. QED
      BY <1>0, <2>1, <2>2 DEF SlotInv
  <1>4. QED
    BY <1>1, <1>2, <1>3

-----------------------------------------------------------------------------
(* The exit codes.                                                         *)

\* The exits of other processes and later runs leave what is known known.
LEMMA KnownStays ==
    ASSUME ETypeOK, ETypeOK', NEW table, TableCodes(table), DOMAIN table \subseteq Exec,
           exits \subseteq exits', \A e \in Exec : run[e] <= run'[e]
    PROVE  \A e \in DOMAIN table :
               table[e].exit # None => \E n \in 1..run'[e] : <<e, n, table[e].exit>> \in exits'
  <1> SUFFICES ASSUME NEW e \in DOMAIN table, table[e].exit # None
               PROVE  \E n \in 1..run'[e] : <<e, n, table[e].exit>> \in exits'
    OBVIOUS
  <1>1. PICK n \in 1..run[e] : <<e, n, table[e].exit>> \in exits
    BY DEF TableCodes
  <1>2. run[e] \in Nat /\ run'[e] \in Nat /\ run[e] <= run'[e]
    BY DEF ETypeOK
  <1>3. n \in 1..run'[e]
    BY <1>1, <1>2
  <1>4. QED
    BY <1>1, <1>3

\* Deletions and registrations make no process run or exit.
Tamed == \A e \in Exec : proc'[e] = proc[e] \/ proc'[e].st \in {"none", "created", "kept"}

\* A step that starts and ends no process leaves what is known of exits true.
LEMMA TamedKnown ==
    ASSUME ETypeOK, CodeInv, Tamed, UNCHANGED <<run, exits>>
    PROVE  ExitsKnown' /\ ProcessesKnown'
  BY DEF CodeInv, ExitsKnown, ProcessesKnown, Tamed

\* A session that just moves on brings no code into the tables.
LEMMA PlainCode ==
    ASSUME ETypeOK, CodeInv, NEW s \in Session, NEW place \in Place, MovedTo(s, place),
           place \in Early => sess[s].at \in Early, place = "record" => sess[s].at = "finish",
           place \notin {"finish", "publish"}, UNCHANGED <<run, exits, records, pending>>, Tamed
    PROVE  CodeInv'
  <1>1. ExitsKnown' /\ ProcessesKnown'
    BY TamedKnown
  <1>2. PublishReady' /\ Codeless'
    BY DEF CodeInv, PublishReady, Codeless, MovedTo, Moved
  <1>3. SessionCodes'
    BY DEF CodeInv, SessionCodes, Seen, MovedTo, Moved
  <1>4. TableCodes(records)' /\ TableCodes(pending)'
    BY DEF CodeInv, TableCodes
  <1>5. QED
    BY <1>1, <1>2, <1>3, <1>4 DEF CodeInv

\* Deletions are tame, and so is the registration of a process.
LEMMA DeletedTame ==
    ASSUME ETypeOK, NEW s \in Session,
           proc' \in {proc, Deleted(sess[s].e), Undeleted(sess[s].e)}
    PROVE  Tamed
  <1>1. proc \in [Exec -> Proc] /\ sess[s].e \in Exec
    BY DEF ETypeOK, Proc
  <1>2. QED
    BY <1>1, DeletedTyped, UndeletedTyped DEF Tamed, NoProc

\* A code that is put into a table is the code of a run.
LEMMA PutReal ==
    ASSUME ETypeOK, CodeInv, UNCHANGED <<run, exits>>, NEW s \in Session, NEW r \in Record,
           r.exit = sess[s].code, Seen(s) \/ sess[s].code = None,
           records' = Put(records, sess[s].e, r)
    PROVE  TableCodes(records)'
  <1>1. ASSUME NEW e \in DOMAIN records', records'[e].exit # None
        PROVE  \E n \in 1..run[e] : <<e, n, records'[e].exit>> \in exits
    <2>1. CASE e = sess[s].e
      <3>1. records'[e] = r
        BY <2>1 DEF Put
      <3>2. Seen(s) /\ r.exit # None
        BY <1>1, <3>1
      <3>3. sess[s].run \in 1..run[e]
        <4>1. <<sess[s].e, sess[s].run, sess[s].code>> \in Exec \X Nat \X Code
          BY <3>2 DEF Seen, ETypeOK
        <4>2. QED
          BY <2>1, <3>2, <4>1 DEF Seen, CodeInv, ExitsKnown
      <3>4. QED
        BY <2>1, <3>1, <3>2, <3>3 DEF Seen
    <2>2. CASE e # sess[s].e
      <3>1. e \in DOMAIN records /\ records'[e] = records[e]
        BY <1>1, <2>2 DEF Put
      <3>2. QED
        BY <1>1, <3>1 DEF CodeInv, TableCodes
    <2>3. QED
      BY <2>1, <2>2
  <1>2. QED
    BY <1>1 DEF TableCodes

\* The steps of a session keep every code real (exec.go:131-228).
LEMMA CodeSession ==
    ASSUME ETypeOK, ETypeOK', CodeInv, NEW s \in Session, Request(s) \/ ContextEnds(s) \/ AwaitFails(s) \/ Step(s)
    PROVE  CodeInv'
  <1> USE DEF taskVars, tableVars
  <1>1. CASE \/ Request(s) \/ Acquire(s) \/ AcquireCanceled(s) \/ Release(s) \/ Lookup(s)
             \/ RunningTask(s) \/ AwaitFails(s)
    <2>1. Tamed /\ UNCHANGED <<run, exits, records, pending>>
      BY <1>1 DEF Request, Acquire, AcquireCanceled, Release, Lookup, RunningTask, AwaitFails, Tamed
    <2>2. PICK place \in {"acquire", "lookup", "task", "exec", "release", "done"} :
                Go(s, place) /\ (place \in Early => sess[s].at \in Early)
      BY <1>1 DEF Request, Acquire, AcquireCanceled, Release, Lookup, RunningTask, AwaitFails, Early
    <2>3. place \in Place /\ place \notin {"finish", "publish", "record"}
      BY DEF Place
    <2>4. QED
      BY <2>1, <2>2, <2>3, GoMoves, PlainCode
  <1>2. CASE ContextEnds(s)
    <2>1. Tamed /\ UNCHANGED <<run, exits, records, pending>>
      BY <1>2 DEF ContextEnds, Tamed
    <2>2. ExitsKnown' /\ ProcessesKnown'
      BY <2>1, TamedKnown
    <2>3. PublishReady' /\ Codeless'
      <3>1. \A u \in Session : /\ sess'[u].at = sess[u].at /\ sess'[u].e = sess[u].e
                               /\ sess'[u].code = sess[u].code /\ sess'[u].ok = sess[u].ok
        BY <1>2, ContextMoves DEF Moved
      <3>2. QED
        BY <2>1, <3>1 DEF CodeInv, PublishReady, Codeless
    <2>4. SessionCodes'
      BY <1>2, <2>1, ContextMoves DEF CodeInv, SessionCodes, Seen, Moved
    <2>5. TableCodes(records)' /\ TableCodes(pending)'
      BY <2>1 DEF CodeInv, TableCodes
    <2>6. QED
      BY <2>2, <2>3, <2>4, <2>5 DEF CodeInv
  <1>3. CASE TaskExec(s)
    <2>1. Tamed /\ UNCHANGED <<run, exits, records, pending>>
      BY <1>3 DEF TaskExec, Tamed, ETypeOK
    <2>2. PICK place \in {"release", "start"} : Go(s, place) /\ sess[s].at = "exec"
      BY <1>3 DEF TaskExec
    <2>3. place \in Place /\ sess[s].at \in Early
      BY <2>2 DEF Place, Early
    <2>4. QED
      BY <2>1, <2>2, <2>3, GoMoves, PlainCode
  <1>4. CASE StartFails(s) \/ Resize(s) \/ Finish(s)
    <2>1. Tamed
      BY <1>4, DeletedTame DEF StartFails, Resize, Finish
    <2>2. UNCHANGED <<run, exits, records, pending>>
      BY <1>4 DEF StartFails, Resize, Finish
    <2>3. PICK place \in {"release", "await", "record"} :
                /\ Go(s, place) /\ (place \in Early => sess[s].at \in Early)
                /\ place = "record" => sess[s].at = "finish"
      BY <1>4 DEF StartFails, Resize, Finish, Early
    <2>4. place \in Place /\ place \notin {"finish", "publish"}
      BY DEF Place
    <2>5. QED
      BY <2>1, <2>2, <2>3, <2>4, GoMoves, PlainCode
  <1>5. CASE AwaitExit(s)
    <2>1. UNCHANGED <<proc, run, exits, records, pending>>
      BY <1>5 DEF AwaitExit
    <2>2. ExitsKnown' /\ ProcessesKnown' /\ TableCodes(records)' /\ TableCodes(pending)'
      BY <2>1 DEF CodeInv, ExitsKnown, ProcessesKnown, TableCodes
    <2>3. PublishReady' /\ Codeless'
      BY <1>5, <2>1, AwaitMoves DEF CodeInv, PublishReady, Codeless, Early, Moved
    <2>4. Mine(s) /\ proc[sess[s].e].st = "exited" =>
                <<sess[s].e, sess[s].run, proc[sess[s].e].code>> \in exits
      BY DEF Mine, CodeInv, ProcessesKnown, ETypeOK
    <2>5. sess[s].at = "await" => sess[s].code = None /\ ~sess[s].ok
      BY DEF CodeInv, Codeless, Early
    <2>6. SessionCodes'
      BY <1>5, <2>1, <2>4, <2>5, AwaitMoves DEF CodeInv, SessionCodes, Seen, Moved
    <2>7. QED
      BY <2>2, <2>3, <2>6 DEF CodeInv
  <1>6. CASE Cancel(s)
    <2>1. UNCHANGED <<run, exits, records, pending>>
      BY <1>6 DEF Cancel
    <2>2. Tamed
      BY <1>6, CancelMoves, DeletedTame
    <2>3. ExitsKnown' /\ ProcessesKnown'
      BY <2>1, <2>2, TamedKnown
    <2>4. TableCodes(records)' /\ TableCodes(pending)'
      BY <2>1 DEF CodeInv, TableCodes
    <2>5. PublishReady' /\ Codeless'
      BY <1>6, <2>1, CancelMoves DEF CodeInv, PublishReady, Codeless, Early, Moved
    <2>6. Mine(s) /\ proc[sess[s].e].st = "exited" =>
                <<sess[s].e, sess[s].run, proc[sess[s].e].code>> \in exits
      BY DEF Mine, CodeInv, ProcessesKnown, ETypeOK
    <2>7. sess[s].at = "await" => sess[s].code = None /\ ~sess[s].ok
      BY DEF CodeInv, Codeless, Early
    <2>8. SessionCodes'
      BY <1>6, <2>1, <2>6, <2>7, CancelMoves DEF CodeInv, SessionCodes, Seen, Moved
    <2>9. QED
      BY <2>3, <2>4, <2>5, <2>8 DEF CodeInv
  <1>7. CASE FinishRecord(s)
    <2> DEFINE r == [running |-> FALSE, exit |-> sess[s].code]
    <2>1. r \in Record /\ r.exit = sess[s].code /\ records' = Put(records, sess[s].e, r)
      BY <1>7 DEF FinishRecord, Record, ETypeOK
    <2> HIDE DEF r
    <2>2. UNCHANGED <<proc, run, exits, pending>> /\ sess[s].at = "record"
      BY <1>7 DEF FinishRecord
    <2>3. Seen(s)
      BY <2>2 DEF CodeInv, SessionCodes
    <2>4. TableCodes(records)'
      BY <2>1, <2>2, <2>3, PutReal
    <2>5. ExitsKnown' /\ ProcessesKnown' /\ TableCodes(pending)'
      BY <2>2 DEF CodeInv, ExitsKnown, ProcessesKnown, TableCodes
    <2>6. PublishReady'
      BY <1>7, <2>1, RecordMoves DEF CodeInv, PublishReady, Moved, Put
    <2>7. Codeless'
      BY <1>7, RecordMoves DEF CodeInv, Codeless, Early, Moved
    <2>8. SessionCodes'
      BY <1>7, <2>2, <2>3, RecordMoves DEF CodeInv, SessionCodes, Seen, Moved
    <2>9. QED
      BY <2>4, <2>5, <2>6, <2>7, <2>8 DEF CodeInv
  <1>8. CASE CancelRecord(s)
    <2> DEFINE r == [running |-> FALSE, exit |-> sess[s].code]
    <2>1. r \in Record /\ r.exit = sess[s].code /\ records' = Put(records, sess[s].e, r)
      BY <1>8 DEF CancelRecord, Record, ETypeOK
    <2> HIDE DEF r
    <2>2. UNCHANGED <<proc, run, exits, pending>> /\ Go(s, "release") /\ "release" \in Place
      BY <1>8 DEF CancelRecord, Place
    <2>3. Seen(s) \/ sess[s].code = None
      BY DEF CodeInv, SessionCodes
    <2>4. TableCodes(records)'
      BY <2>1, <2>2, <2>3, PutReal
    <2>5. ExitsKnown' /\ ProcessesKnown' /\ TableCodes(pending)'
      BY <2>2 DEF CodeInv, ExitsKnown, ProcessesKnown, TableCodes
    <2>6. MovedTo(s, "release")
      BY <2>2, GoMoves
    <2>7. PublishReady'
      BY <2>1, <2>6 DEF CodeInv, PublishReady, MovedTo, Moved, Put
    <2>8. Codeless' /\ SessionCodes'
      BY <2>2, <2>6 DEF CodeInv, Codeless, SessionCodes, Seen, Early, MovedTo, Moved
    <2>9. QED
      BY <2>4, <2>5, <2>7, <2>8 DEF CodeInv
  <1>9. CASE Publish(s)
    <2>1. UNCHANGED <<proc, run, exits, records>> /\ Go(s, "release") /\ "release" \in Place
      BY <1>9 DEF Publish, Place
    <2>2. MovedTo(s, "release")
      BY <2>1, GoMoves
    <2>3. ExitsKnown' /\ ProcessesKnown' /\ TableCodes(records)'
      BY <2>1 DEF CodeInv, ExitsKnown, ProcessesKnown, TableCodes
    <2>4. PublishReady' /\ Codeless' /\ SessionCodes'
      BY <2>1, <2>2 DEF CodeInv, PublishReady, Codeless, SessionCodes, Seen, Early, MovedTo, Moved
    <2>5. TableCodes(pending)'
      BY <1>9, <2>1 DEF Publish, CodeInv, PublishReady, TableCodes
    <2>6. QED
      BY <2>3, <2>4, <2>5 DEF CodeInv
  <1>10. CASE Start(s)
    <2> DEFINE e == sess[s].e
    <2>1. /\ e \in Exec /\ sess[s].at = "start" /\ proc[e].st = "created" /\ UNCHANGED <<exits, pending>>
          /\ proc' = [proc EXCEPT ![e].st = "running"] /\ run' = [run EXCEPT ![e] = run[e] + 1]
      BY <1>10 DEF Start, ETypeOK
    <2> HIDE DEF e
    <2>2. run \in [Exec -> Nat] /\ \A x \in Exec : run[x] <= run'[x] /\ run'[e] # 0 /\ run'[x] \in Nat
      BY <2>1 DEF ETypeOK
    <2>3. ExitsKnown'
      <3> SUFFICES ASSUME NEW x \in Exec, NEW n \in Nat, NEW c \in Code, <<x, n, c>> \in exits'
                   PROVE  n \in 1..run'[x]
        BY DEF ExitsKnown
      <3>1. n \in 1..run[x]
        BY <2>1 DEF CodeInv, ExitsKnown
      <3>2. QED
        BY <2>2, <3>1
    <2>4. ProcessesKnown'
      BY <2>1, <2>2 DEF CodeInv, ProcessesKnown, ETypeOK
    <2>5. TableCodes(pending)'
      BY <2>1, <2>2, KnownStays DEF CodeInv, TableCodes, ETypeOK
    <2>6. \A x \in DOMAIN records :
               records[x].exit # None => \E n \in 1..run'[x] : <<x, n, records[x].exit>> \in exits'
      BY <2>1, <2>2, KnownStays DEF CodeInv, ETypeOK
    <2>7. CASE s \in Detached
      <3> DEFINE r == [running |-> TRUE, exit |-> None]
      <3>1. records' = Put(records, e, r) /\ r.exit = None
        BY <1>10, <2>7 DEF Start, e
      <3> HIDE DEF r
      <3>2. TableCodes(records)'
        BY <2>6, <3>1 DEF TableCodes, Put
      <3>3. PublishReady'
        BY <1>10, <3>1, StartMoves DEF CodeInv, PublishReady, Moved, e, Put
      <3>4. Codeless' /\ SessionCodes'
        BY <1>10, <2>1, StartMoves DEF CodeInv, Codeless, SessionCodes, Seen, Early, Moved
      <3>5. QED
        BY <2>3, <2>4, <2>5, <3>2, <3>3, <3>4 DEF CodeInv
    <2>8. CASE s \notin Detached
      <3>1. records' = records
        BY <1>10, <2>8 DEF Start
      <3>2. TableCodes(records)'
        BY <2>6, <3>1 DEF TableCodes
      <3>3. PublishReady'
        BY <1>10, <2>8, <3>1, StartMoves DEF CodeInv, PublishReady, Moved
      <3>4. Codeless' /\ SessionCodes'
        BY <1>10, <2>1, StartMoves DEF CodeInv, Codeless, SessionCodes, Seen, Early, Moved
      <3>5. QED
        BY <2>3, <2>4, <2>5, <3>2, <3>3, <3>4 DEF CodeInv
    <2>9. QED
      BY <2>7, <2>8
  <1>11. QED
    BY <1>1, <1>2, <1>3, <1>4, <1>5, <1>6, <1>7, <1>8, <1>9, <1>10 DEF Step

\* An exit is in the history from the moment on that the process has exited.
LEMMA CodeExternal ==
    ASSUME ETypeOK, ETypeOK', CodeInv, External, UNCHANGED <<slots, sess>>
    PROVE  CodeInv'
  <1> USE DEF taskVars, tableVars
  <1>1. ASSUME NEW e \in Exec, ExecCreate(e) PROVE CodeInv'
    <2>1. UNCHANGED <<proc, run, exits, records>>
      BY <1>1 DEF ExecCreate
    <2>2. TableCodes(pending)'
      BY <1>1, <2>1 DEF ExecCreate, CodeInv, TableCodes, Put, Idle
    <2>3. QED
      BY <2>1, <2>2 DEF CodeInv, PublishReady, Codeless, ExitsKnown, ProcessesKnown, SessionCodes,
                        Seen, TableCodes
  <1>2. ASSUME NEW c \in Code, NEW K \in SUBSET Exec, \A e \in K : proc[e].st = "running",
               UNCHANGED <<run, records, pending>>,
               exits' = exits \cup {<<e, run[e], c>> : e \in K},
               \A e \in K : proc'[e].st = "exited" /\ proc'[e].code = c,
               \A e \in Exec \ K : proc'[e] = proc[e]
        PROVE  CodeInv'
    <2>1. run \in [Exec -> Nat] /\ \A e \in Exec : run[e] <= run'[e]
      BY <1>2 DEF ETypeOK
    <2>2. TableCodes(records)' /\ TableCodes(pending)'
      BY <1>2, <2>1, KnownStays DEF CodeInv, TableCodes, ETypeOK
    <2>3. ExitsKnown'
      <3> SUFFICES ASSUME NEW x \in Exec, NEW n \in Nat, NEW d \in Code, <<x, n, d>> \in exits'
                   PROVE  n \in 1..run'[x]
        BY DEF ExitsKnown
      <3>1. CASE <<x, n, d>> \in exits
        BY <1>2, <3>1 DEF CodeInv, ExitsKnown
      <3>2. CASE <<x, n, d>> \notin exits
        <4>1. PICK e \in K : <<x, n, d>> = <<e, run[e], c>>
          BY <1>2, <3>2
        <4>2. n = run[x] /\ run[x] # 0
          BY <1>2, <4>1 DEF CodeInv, ProcessesKnown
        <4>3. QED
          BY <1>2, <2>1, <4>2
      <3>3. QED
        BY <3>1, <3>2
    <2>4. ProcessesKnown'
      BY <1>2 DEF CodeInv, ProcessesKnown
    <2>5. PublishReady' /\ Codeless' /\ SessionCodes'
      BY <1>2 DEF CodeInv, PublishReady, Codeless, SessionCodes, Seen
    <2>6. QED
      BY <2>2, <2>3, <2>4, <2>5 DEF CodeInv
  <1>3. ASSUME NEW e \in Exec, ProcessExits(e) PROVE CodeInv'
    <2>1. PICK c \in Code : proc' = [proc EXCEPT ![e] = Exited(e, c)] /\ exits' = exits \cup {<<e, run[e], c>>}
      BY <1>3 DEF ProcessExits
    <2>2. Exited(e, c).st = "exited" /\ Exited(e, c).code = c
      BY DEF ETypeOK, Exited
    <2>3. exits' = exits \cup {<<x, run[x], c>> : x \in {e}}
      BY <2>1
    <2>4. /\ \A x \in {e} : proc'[x].st = "exited" /\ proc'[x].code = c
          /\ \A x \in Exec \ {e} : proc'[x] = proc[x]
      BY <2>1, <2>2 DEF ETypeOK
    <2>5. UNCHANGED <<run, records, pending>> /\ \A x \in {e} : proc[x].st = "running"
      BY <1>3 DEF ProcessExits
    <2> DEFINE K == {e}
    <2>6. /\ K \in SUBSET Exec /\ \A x \in K : proc[x].st = "running"
          /\ exits' = exits \cup {<<x, run[x], c>> : x \in K}
          /\ \A x \in K : proc'[x].st = "exited" /\ proc'[x].code = c
          /\ \A x \in Exec \ K : proc'[x] = proc[x]
      BY <2>3, <2>4, <2>5
    <2> HIDE DEF K
    <2>7. QED
      BY <1>2, <2>5, <2>6
  <1>4. CASE ContainerStops
    <2> DEFINE killed == {e \in Exec : proc[e].st = "running"}
    <2>1. PICK c \in Code :
            /\ proc' = [e \in Exec |-> IF e \in killed THEN Exited(e, c) ELSE proc[e]]
            /\ exits' = exits \cup {<<e, run[e], c>> : e \in killed}
      BY <1>4 DEF ContainerStops
    <2>2. \A e \in Exec : Exited(e, c).st = "exited" /\ Exited(e, c).code = c
      BY DEF ETypeOK, Exited
    <2>3. killed \in SUBSET Exec /\ \A e \in killed : proc[e].st = "running"
      OBVIOUS
    <2> HIDE DEF killed
    <2>4. /\ \A x \in killed : proc'[x].st = "exited" /\ proc'[x].code = c
          /\ \A x \in Exec \ killed : proc'[x] = proc[x]
      BY <2>1, <2>2, <2>3
    <2>5. UNCHANGED <<run, records, pending>>
      BY <1>4 DEF ContainerStops
    <2>6. QED
      BY <1>2, <2>1, <2>3, <2>4, <2>5
  <1>5. CASE ContainerStarts
    <2>1. Tamed /\ UNCHANGED <<run, exits, records, pending>>
      BY <1>5 DEF ContainerStarts, Tamed, NoProc
    <2>2. QED
      BY <2>1, TamedKnown DEF CodeInv, PublishReady, Codeless, SessionCodes, Seen, TableCodes
  <1>6. QED
    BY <1>1, <1>3, <1>4, <1>5 DEF External

-----------------------------------------------------------------------------
(* Residue.                                                                *)

\* A process that was not started is deleted by the session that registered it,
\* or that deletion fails (exec.go:146-149, 160-167).
LEMMA ResidueSession ==
    ASSUME ETypeOK, NoResidue, NEW s \in Session, Request(s) \/ ContextEnds(s) \/ AwaitFails(s) \/ Step(s), Moved(s)
    PROVE  NoResidue'
  <1> USE DEF taskVars, tableVars, Place
  <1>0. proc \in [Exec -> Proc] /\ sess[s].e \in Exec
    BY DEF ETypeOK, Proc
  <1>1. SUFFICES ASSUME NEW e \in Exec, proc'[e].st = "created"
                 PROVE  \E u \in Session : sess'[u].e = e /\ sess'[u].at = "start"
    BY DEF NoResidue
  <1>2. sess'[s].e = sess[s].e
    <2>1. CASE ContextEnds(s) \/ Start(s) \/ FinishRecord(s) \/ AwaitExit(s) \/ Cancel(s)
      BY <2>1, ContextMoves, StartMoves, RecordMoves, AwaitMoves, CancelMoves
    <2>2. CASE \/ Request(s) \/ Acquire(s) \/ AcquireCanceled(s) \/ Release(s) \/ Lookup(s)
               \/ RunningTask(s) \/ TaskExec(s) \/ StartFails(s) \/ Resize(s) \/ Finish(s)
               \/ AwaitFails(s) \/ CancelRecord(s) \/ Publish(s)
      <3>1. \E place \in Place : Go(s, place)
        BY <2>2 DEF Request, Acquire, AcquireCanceled, Release, Lookup, RunningTask, TaskExec,
                    StartFails, Resize, Finish, AwaitFails, CancelRecord, Publish
      <3>2. QED
        BY <3>1, GoMoves DEF MovedTo
    <2>3. QED
      BY <2>1, <2>2 DEF Step
  <1>3. CASE TaskExec(s) /\ proc' # proc /\ e = sess[s].e
    BY <1>2, <1>3, GoMoves DEF TaskExec, MovedTo
  <1>4. CASE ~(TaskExec(s) /\ proc' # proc /\ e = sess[s].e)
    <2>1. proc[e].st = "created"
      <3>1. CASE TaskExec(s)
        BY <1>0, <1>1, <1>4, <3>1 DEF TaskExec
      <3>2. CASE Start(s)
        BY <1>0, <1>1, <3>2 DEF Start, Proc
      <3>3. CASE StartFails(s) \/ Resize(s) \/ Finish(s) \/ Cancel(s)
        <4>1. proc' \in {proc, Deleted(sess[s].e), Undeleted(sess[s].e)}
          BY <3>3 DEF StartFails, Resize, Finish, Cancel
        <4>2. proc'[e] = proc[e] \/ proc'[e].st \in {"none", "kept"}
          BY <1>0, <4>1, DeletedTyped, UndeletedTyped DEF NoProc
        <4>3. QED
          BY <1>1, <4>2
      <3>4. CASE \/ Request(s) \/ ContextEnds(s) \/ Acquire(s) \/ AcquireCanceled(s) \/ Release(s)
                 \/ Lookup(s) \/ RunningTask(s) \/ AwaitExit(s) \/ FinishRecord(s)
                 \/ AwaitFails(s) \/ CancelRecord(s) \/ Publish(s)
        BY <1>1, <3>4 DEF Request, ContextEnds, Acquire, AcquireCanceled, Release, Lookup,
                          RunningTask, AwaitExit, FinishRecord, AwaitFails, CancelRecord, Publish
      <3>5. QED
        BY <3>1, <3>2, <3>3, <3>4 DEF Step
    <2>2. PICK u \in Session : sess[u].e = e /\ sess[u].at = "start"
      BY <2>1 DEF NoResidue
    <2>3. CASE u # s
      BY <1>2, <2>2, <2>3 DEF Moved
    <2>4. CASE u = s
      <3>1. CASE Start(s)
        <4>1. proc'[e].st = "running"
          BY <1>0, <2>2, <2>4, <3>1 DEF Start, Proc
        <4>2. QED
          BY <1>1, <4>1
      <3>2. CASE StartFails(s)
        <4>1. proc'[e].st # "created"
          BY <1>0, <2>1, <2>2, <2>4, <3>2, DeletedTyped, UndeletedTyped DEF StartFails, NoProc
        <4>2. QED
          BY <1>1, <4>1
      <3>3. CASE ContextEnds(s)
        BY <2>2, <2>4, <3>3, ContextMoves
      <3>4. QED
        BY <2>2, <2>4, <3>1, <3>2, <3>3 DEF Step, Request, Acquire, AcquireCanceled, Release, Lookup,
               RunningTask, TaskExec, Resize, AwaitExit, AwaitFails, Finish, FinishRecord, Cancel, CancelRecord,
               Publish
    <2>5. QED
      BY <2>2, <2>3, <2>4
  <1>5. QED
    BY <1>3, <1>4

\* Exits and restarts register no process.
LEMMA ResidueExternal ==
    ASSUME ETypeOK, NoResidue, External, UNCHANGED <<slots, sess>>
    PROVE  NoResidue'
  <1>1. \A e \in Exec : proc'[e].st = "created" => proc[e].st = "created"
    <2>1. ASSUME NEW e \in Exec, ExecCreate(e) \/ ProcessExits(e), NEW x \in Exec
          PROVE  proc'[x].st = "created" => proc[x].st = "created"
      BY <2>1 DEF ExecCreate, ProcessExits, Exited, ETypeOK, taskVars
    <2>2. CASE ContainerStops
      <3>1. \A e \in Exec, c \in Code : Exited(e, c).st = "exited"
        BY DEF Exited, ETypeOK
      <3>2. QED
        BY <2>2, <3>1 DEF ContainerStops
    <2>3. CASE ContainerStarts
      BY <2>3 DEF ContainerStarts, NoProc
    <2>4. QED
      BY <2>1, <2>2, <2>3 DEF External
  <1>2. QED
    BY <1>1 DEF NoResidue

-----------------------------------------------------------------------------
(* The theorems.                                                           *)

ExecInv == ETypeOK /\ RestartsLeft /\ SlotInv /\ CodeInv /\ NoResidue

\* At first no session was requested and no exec was created.
LEMMA ExecInit == EInit => ExecInv
  <1> SUFFICES ASSUME EInit PROVE ExecInv
    OBVIOUS
  <1>1. \A s \in Session : sess[s].at = "idle" /\ sess[s].code = None /\ sess[s].ok = FALSE
    BY DEF EInit
  <1>2. DOMAIN pending = {} /\ DOMAIN records = {}
    BY DEF EInit
  <1>3. sess \in [Session -> Sess]
    <2>1. ASSUME NEW r \in [at : {"idle"}, e : Exec, ctx : {FALSE}, run : {0}, code : {None}, ok : {FALSE}]
          PROVE  r \in Sess
      <3>1. r.at \in Place /\ r.e \in Exec /\ r.run \in Nat /\ r.code \in Code \cup {None}
        BY DEF Place
      <3>2. r.ctx \in BOOLEAN /\ r.ok \in BOOLEAN
        OBVIOUS
      <3>3. r = [at |-> r.at, e |-> r.e, ctx |-> r.ctx, run |-> r.run, code |-> r.code, ok |-> r.ok]
        OBVIOUS
      <3>4. QED
        BY <3>1, <3>2, <3>3 DEF Sess
    <2>2. QED
      BY <2>1 DEF EInit
  <1>4. ETypeOK /\ RestartsLeft
    BY <1>2, <1>3, ExecAssumption DEF EInit, ETypeOK, RestartsLeft, NoProc, Sess
  <1>5. SlotInv
    <2>1. Served = {}
      BY <1>1 DEF Served, Unserved
    <2>2. QED
      BY <2>1, FS_EmptySet DEF EInit, SlotInv
  <1>6. CodeInv
    BY <1>1, <1>2 DEF EInit, NoProc, CodeInv, PublishReady, Codeless, ExitsKnown, ProcessesKnown,
                      SessionCodes, Seen, TableCodes
  <1>7. NoResidue
    BY DEF EInit, NoProc, NoResidue
  <1>8. QED
    BY <1>4, <1>5, <1>6, <1>7 DEF ExecInv

\* No step breaks the invariant.
LEMMA ExecStep == ExecInv /\ [ENext]_eVars => ExecInv'
  <1> SUFFICES ASSUME ExecInv, [ENext]_eVars PROVE ExecInv'
    OBVIOUS
  <1> USE DEF ExecInv
  <1>1. ASSUME NEW s \in Session, Request(s) \/ ContextEnds(s) \/ AwaitFails(s) \/ Step(s) PROVE ExecInv'
    <2>1. /\ proc' \in [Exec -> Proc] /\ run' \in [Exec -> Nat] /\ UNCHANGED <<up, restarts, exits>>
          /\ DOMAIN pending' \subseteq Exec /\ \A x \in DOMAIN pending' : pending'[x] \in Record
          /\ DOMAIN records' \subseteq Exec /\ \A x \in DOMAIN records' : records'[x] \in Record
          /\ Moved(s)
      BY <1>1, SessionTyped DEF CodeInv
    <2>2. SlotInv' /\ slots' \in 0..Limit
      BY <1>1, <2>1, SlotStep
    <2>3. ETypeOK' /\ RestartsLeft'
      BY <2>1, <2>2 DEF ETypeOK, RestartsLeft, Proc, Moved, Sess
    <2>4. CodeInv' /\ NoResidue'
      BY <1>1, <2>1, <2>3, CodeSession, ResidueSession
    <2>5. QED
      BY <2>2, <2>3, <2>4
  <1>2. CASE External
    <2>1. ETypeOK' /\ RestartsLeft' /\ UNCHANGED <<slots, sess>>
      BY <1>2, ExternalTyped
    <2>2. SlotInv'
      BY <2>1 DEF SlotInv, Served
    <2>3. CodeInv' /\ NoResidue'
      BY <1>2, <2>1, CodeExternal, ResidueExternal
    <2>4. QED
      BY <2>1, <2>2, <2>3
  <1>3. CASE UNCHANGED eVars
    BY <1>3 DEF eVars, ETypeOK, RestartsLeft, SlotInv, Served, CodeInv, PublishReady, Codeless,
                ExitsKnown, ProcessesKnown, SessionCodes, Seen, TableCodes, NoResidue
  <1>4. QED
    BY <1>1, <1>2, <1>3 DEF ENext, External

\* ExecInv holds throughout.
LEMMA ExecInvariant == ESpec => []ExecInv
  BY ExecInit, ExecStep, PTL DEF ESpec

\* The variables keep their types; in particular the limiter never hands out more
\* slots than it has (errors.go:213-230).
THEOREM ExecTypeCorrect == ESpec => []ETypeOK
  <1>1. ExecInv => ETypeOK
    BY DEF ExecInv
  <1>2. QED
    BY <1>1, ExecInvariant, PTL

\* No way through a session loses a slot of the limiter or frees one twice
\* (errors.go:213-230, handlers_exec.go:62-66).
THEOREM SlotsAccounted == ESpec => []SlotsCounted
  <1>1. ExecInv => SlotsCounted
    BY DEF ExecInv, SlotInv, Served, Unserved, SlotsCounted
  <1>2. QED
    BY <1>1, ExecInvariant, PTL

\* Inspect and an attached start show exit codes of processes that ran under
\* the exec's ID, the start that of its own (exec.go:157-228).
THEOREM CodesReal == ESpec => []ExitCodesReal
  <1>1. ExecInv => ExitCodesReal
    BY DEF ExecInv, CodeInv, TableCodes, SessionCodes, Seen, ExitCodesReal
  <1>2. QED
    BY <1>1, ExecInvariant, PTL

\* No exec ID is blocked by a process that nobody will start or has tried to
\* delete (exec.go:146-149, 160-167).
THEOREM NothingLeftRegistered == ESpec => []NoResidue
  <1>1. ExecInv => NoResidue
    BY DEF ExecInv
  <1>2. QED
    BY <1>1, ExecInvariant, PTL

=============================================================================
