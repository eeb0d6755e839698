---------------------------- MODULE BuildStream ----------------------------
(***************************************************************************)
(* One POST /build or POST /images/create request: the handler and its     *)
(* lazy response stream (internal/api/handlers_images.go), the use case    *)
(* (internal/app/images.go) and the BuildKit adapter                       *)
(* (internal/adapters/buildkit/build.go, progress.go, client.go).          *)
(*                                                                         *)
(* A build has three actors: the request's goroutine, the translator that  *)
(* turns status batches into Docker messages, and the solver, which feeds  *)
(* a bounded channel and is external but for the wrapper in client.go.     *)
(* The client may go away at any time, which fails every later write.      *)
(***************************************************************************)
EXTENDS Naturals, Sequences, SequencesExt, FiniteSets

CONSTANTS
    Vertex,        \* build steps BuildKit reports
    ChanCap,       \* capacity of statusCh (32 in the code)
    MaxBatches     \* status batches of a solve (bound)

ASSUME BuildAssumption == Vertex # {} /\ ChanCap \in Nat /\ MaxBatches \in Nat

VARIABLES
    op,            \* "build" or "pull"
    main,          \* the request goroutine
    dir,           \* the temporary build context: none, made, or kept by a failed removal
    solver,        \* off, run, send, closed (the channel is), abandoned
    batch,         \* the batch the solver is sending
    chan,          \* statusCh
    sent,          \* batches sent so far
    trans,         \* the translator: off, run, exit
    seen,          \* translator: steps announced, steps finished, sawError
    tErr,          \* translateErr
    sErr,          \* the solver's or the registry's error
    err,           \* what the use case returns
    out,           \* the messages the client got
    http,          \* the status line: none, ok, error
    gone           \* has the client gone away?

bVars == <<op, main, dir, solver, batch, chan, sent, trans, seen, tErr, sErr, err, out, http, gone>>
solveVars == <<solver, batch, chan, sent>>
transVars == <<trans, seen, tErr>>

\* One update of a step: listed only, started, finished, taken from the cache,
\* failed; or output of the step (a log entry, a status, a warning).
Batch == [v : Vertex, kind : {"queued", "start", "done", "cached", "error", "output"}]
Message == {"progress", "error", "success"}
NoBatch == [v |-> CHOOSE v \in Vertex : TRUE, kind |-> "start"]

BTypeOK ==
    /\ op \in {"build", "pull"}
    /\ main \in {"begin", "prepare", "tag", "solve", "wait", "result", "cleanup", "fetch",
                 "report", "respond", "done"}
    /\ dir \in {"none", "made", "kept"}
    /\ tErr \in BOOLEAN /\ sErr \in BOOLEAN /\ err \in BOOLEAN /\ gone \in BOOLEAN
    /\ solver \in {"off", "run", "send", "closed", "abandoned"}
    /\ batch \in Batch /\ chan \in Seq(Batch) /\ Len(chan) <= ChanCap
    /\ sent \in 0..MaxBatches
    /\ trans \in {"off", "run", "exit"}
    /\ seen \in [announced : SUBSET Vertex, completed : SUBSET Vertex, error : BOOLEAN]
    /\ out \in Seq(Message)
    /\ http \in {"none", "ok", "error"}

BInit ==
    /\ op \in {"build", "pull"}
    /\ main = "begin" /\ dir = "none"
    /\ solver = "off" /\ batch = NoBatch /\ chan = <<>> /\ sent = 0
    /\ trans = "off" /\ seen = [announced |-> {}, completed |-> {}, error |-> FALSE] /\ tErr = FALSE
    /\ sErr = FALSE /\ err = FALSE
    /\ out = <<>> /\ http = "none" /\ gone = FALSE

-----------------------------------------------------------------------------
(* The response.                                                           *)

\* lazyStreamWriter: the first write sends the status line 200; a write to a
\* client that is gone delivers nothing, and fails once the server has noticed.
Write(messages) ==
    IF messages = <<>> THEN UNCHANGED <<out, http>>
    ELSE /\ http' = IF http = "none" THEN "ok" ELSE http
         /\ out' = IF gone THEN out ELSE out \o messages

WriteOutcomes(messages) == IF gone /\ messages # <<>> THEN BOOLEAN ELSE {FALSE}

\* Mutant: finishStream leaves a started stream alone.
RespondUnlessStarted ==
    /\ main = "respond"
    /\ http' = IF http = "none" THEN (IF err THEN "error" ELSE "ok") ELSE http
    /\ main' = "done"
    /\ UNCHANGED <<op, dir, solveVars, transVars, sErr, err, out, gone>>

\* finishStream: an error before the first byte is an error response, later
\* one more message of the stream.
Respond ==
    /\ main = "respond"
    /\ IF err /\ http # "none"
       THEN Write(<<"error">>)
       ELSE http' = (IF err THEN "error" ELSE "ok") /\ UNCHANGED out
    /\ main' = "done"
    /\ UNCHANGED <<op, dir, solveVars, transVars, sErr, err, gone>>

\* The client closes the connection: the request's context is canceled.
ClientGone ==
    /\ ~gone /\ main # "done"
    /\ gone' = TRUE
    /\ UNCHANGED <<op, main, dir, solveVars, transVars, sErr, err, out, http>>

-----------------------------------------------------------------------------
(* The request goroutine.                                                  *)

\* Header, reference and body checks that answer before anything is streamed.
Reject ==
    /\ main = "begin"
    /\ err' = TRUE
    /\ main' = "respond"
    /\ UNCHANGED <<op, dir, solveVars, transVars, sErr, out, http, gone>>

Accept ==
    /\ main = "begin"
    /\ IF op = "pull"
       THEN main' = "fetch" /\ Write(<<"progress">>)
       ELSE main' = "prepare" /\ UNCHANGED <<out, http>>
    /\ UNCHANGED <<op, dir, solveVars, transVars, sErr, err, gone>>

\* ImagePull: the registry answers or fails; then the digest and status lines.
PullFetch ==
    /\ main = "fetch"
    /\ \/ err' = TRUE /\ main' = "respond"
       \/ UNCHANGED err /\ main' = "report"
    /\ UNCHANGED <<op, dir, solveVars, transVars, sErr, out, http, gone>>

PullReport ==
    /\ main = "report"
    /\ Write(<<"progress", "success">>)
    /\ main' = "respond"
    /\ UNCHANGED <<op, dir, solveVars, transVars, sErr, err, gone>>

\* failBuild writes the errorDetail itself and returns the error as well.
FailBuild(next) ==
    /\ Write(<<"error">>)
    /\ err' = TRUE
    /\ main' = next

\* prepareBuildContext and materializeContext: no solver, no temporary
\* directory, a bad tar stream or no Dockerfile; all of them remove what they
\* had unpacked, if they can.
Prepare ==
    /\ main = "prepare"
    /\ \/ FailBuild("respond") /\ dir' \in {"none", "kept"}
       \/ main' = "tag" /\ dir' = "made" /\ UNCHANGED <<err, out, http>>
    /\ UNCHANGED <<op, solveVars, transVars, sErr, gone>>

\* resolveBuildTag.
ResolveTag ==
    /\ main = "tag"
    /\ \/ FailBuild("cleanup")
       \/ main' = "solve" /\ UNCHANGED <<err, out, http>>
    /\ UNCHANGED <<op, dir, solveVars, transVars, sErr, gone>>

\* solveBuild starts the translator and calls Solve.
Solve ==
    /\ main = "solve"
    /\ solver' = "run" /\ trans' = "run"
    /\ main' = "wait"
    /\ UNCHANGED <<op, dir, batch, chan, sent, seen, tErr, sErr, err, out, http, gone>>

\* Mutant: the result is reported without waiting for the translator.
TranslatorUnawaited ==
    /\ main = "wait" /\ solver \in {"closed", "abandoned"}
    /\ main' = "result"
    /\ UNCHANGED <<op, dir, solveVars, transVars, sErr, err, out, http, gone>>

\* Solve has returned and translator.Wait as well.
TranslatorDone ==
    /\ main = "wait" /\ solver \in {"closed", "abandoned"} /\ trans = "exit"
    /\ main' = "result"
    /\ UNCHANGED <<op, dir, solveVars, transVars, sErr, err, out, http, gone>>

\* The image ID and the tag are reported if there are any; a failed write of
\* the ID fails the build.
EmitBuildResult ==
    \E id, tag \in BOOLEAN :
        /\ Write(IF id \/ tag THEN <<"success">> ELSE <<>>)
        /\ err' \in IF id THEN WriteOutcomes(<<"success">>) ELSE {FALSE}

\* Mutant: the translator's error hides the solver's.
ResultOfTranslator ==
    /\ main = "result"
    /\ IF tErr
       THEN /\ Write(IF seen.error THEN <<>> ELSE <<"error">>)
            /\ err' = TRUE
       ELSE EmitBuildResult
    /\ main' = "cleanup"
    /\ UNCHANGED <<op, dir, solveVars, transVars, sErr, gone>>

\* solveFailed, unless neither the solver nor the translator failed
\* (emitBuildResult).
Result ==
    /\ main = "result"
    /\ IF sErr \/ tErr
       THEN /\ Write(IF seen.error THEN <<>> ELSE <<"error">>)
            /\ err' = TRUE
       ELSE EmitBuildResult
    /\ main' = "cleanup"
    /\ UNCHANGED <<op, dir, solveVars, transVars, sErr, gone>>

\* The deferred cleanupContext; a failed removal is logged.
Cleanup ==
    /\ main = "cleanup"
    /\ dir' \in {"none", "kept"}
    /\ main' = "respond"
    /\ UNCHANGED <<op, solveVars, transVars, sErr, err, out, http, gone>>

Main ==
    \/ Reject \/ Accept \/ PullFetch \/ PullReport \/ Prepare \/ ResolveTag
    \/ Solve \/ TranslatorDone \/ Result \/ Cleanup \/ Respond

-----------------------------------------------------------------------------
(* The solver.                                                             *)

\* BuildkitSolver.Solve returns before it has handed the channel to BuildKit:
\* the context directory cannot be opened.
SolveEarly ==
    /\ solver = "run" /\ sent = 0
    /\ solver' = "abandoned"
    /\ sErr' = TRUE
    /\ UNCHANGED <<op, main, dir, batch, chan, sent, transVars, err, out, http, gone>>

\* BuildKit has a batch to report ...
SolverReport ==
    /\ solver = "run" /\ sent < MaxBatches
    /\ batch' \in Batch
    /\ sent' = sent + 1
    /\ solver' = "send"
    /\ UNCHANGED <<op, main, dir, chan, transVars, sErr, err, out, http, gone>>

\* ... and blocks until the channel has room.
SolverSend ==
    /\ solver = "send" /\ Len(chan) < ChanCap
    /\ chan' = Append(chan, batch)
    /\ solver' = "run"
    /\ UNCHANGED <<op, main, dir, batch, sent, transVars, sErr, err, out, http, gone>>

\* BuildKit closes the channel and returns.
SolverReturn ==
    /\ solver = "run"
    /\ solver' = "closed"
    /\ sErr' \in BOOLEAN
    /\ UNCHANGED <<op, main, dir, batch, chan, sent, transVars, err, out, http, gone>>

Solver == SolverSend \/ SolverReturn

-----------------------------------------------------------------------------
(* The translator.                                                         *)

\* buildProgress.vertex, shouldAnnounce: what a batch says of its step that was
\* not said before.  Log entries, statuses and warnings are passed on.
Announces(b) == b.kind \in {"start", "done", "error"} /\ b.v \notin seen.announced
Finishes(b) == b.kind \in {"done", "cached", "error"} /\ b.v \notin seen.completed

Lines(b) ==
    (IF Announces(b) \/ b.kind = "output" THEN <<"progress">> ELSE <<>>)
    \o (IF ~Finishes(b) THEN <<>> ELSE IF b.kind = "error" THEN <<"error">> ELSE <<"progress">>)

\* The maps are updated before each line is written, and a line that cannot be
\* written ends the batch.
Noted(b, failed) ==
    LET cut == failed /\ Announces(b) IN
    [announced |-> seen.announced \cup (IF Announces(b) THEN {b.v} ELSE {}),
     completed |-> seen.completed \cup (IF Finishes(b) /\ ~cut THEN {b.v} ELSE {}),
     error |-> seen.error \/ (b.kind = "error" /\ Finishes(b) /\ ~cut)]

\* Mutant: a write error ends the translator, and nobody drains the channel.
TranslateStopping ==
    /\ trans = "run" /\ chan # <<>>
    /\ chan' = Tail(chan)
    /\ Write(Lines(Head(chan)))
    /\ tErr' \in WriteOutcomes(Lines(Head(chan)))
    /\ seen' = Noted(Head(chan), tErr')
    /\ trans' = IF tErr' THEN "exit" ELSE "run"
    /\ UNCHANGED <<op, main, dir, solver, batch, sent, sErr, err, gone>>

\* One batch; after the first write error batches are only drained.
Translate ==
    /\ trans = "run" /\ chan # <<>>
    /\ chan' = Tail(chan)
    /\ IF tErr THEN UNCHANGED <<seen, tErr, out, http>>
       ELSE /\ Write(Lines(Head(chan)))
            /\ tErr' \in WriteOutcomes(Lines(Head(chan)))
            /\ seen' = Noted(Head(chan), tErr')
    /\ UNCHANGED <<op, main, dir, solver, batch, sent, trans, sErr, err, gone>>

TranslatorExit ==
    /\ trans = "run" /\ chan = <<>> /\ solver = "closed"
    /\ trans' = "exit"
    /\ UNCHANGED <<op, main, dir, solveVars, seen, tErr, sErr, err, out, http, gone>>

Translator == Translate \/ TranslatorExit

BNext == Main \/ Solver \/ SolveEarly \/ SolverReport \/ Translator \/ ClientGone

\* Both goroutines are scheduled, and BuildKit finishes what it started; it
\* need not report anything.
BSpec ==
    /\ BInit /\ [][BNext]_bVars
    /\ WF_bVars(Main) /\ WF_bVars(Translator) /\ WF_bVars(Solver)

-----------------------------------------------------------------------------
(* Properties.                                                             *)

\* A request that failed tells its client so in the end: with an error response
\* if nothing was streamed, with an errorDetail as the last line otherwise,
\* although the translator may have reported an error and gone on
\* (build.go:80-83, handlers_images.go:118-130).
FailureIsLast ==
    (main = "done" /\ err /\ ~gone) =>
        IF http = "error" THEN out = <<>> ELSE out # <<>> /\ Last(out) = "error"

\* A success line is the last of its stream and is true: neither the solver nor
\* a write failed before it (build.go:159-166).
SuccessIsTrue ==
    "success" \in ToSet(out) =>
        /\ Last(out) = "success" /\ http = "ok"
        /\ ~sErr /\ ~tErr /\ (err => gone)

\* Whichever step failed, a build leaves nothing behind: from its clean-up on,
\* no translator can write to a response that the handler hands back to the
\* server, and when the request ends its temporary context is gone, or its
\* removal failed (build.go:80-91, 157, 230-237).
BuildLeavesNothing ==
    /\ main \in {"cleanup", "respond", "done"} => trans # "run"
    /\ main = "done" => dir # "made"

\* The request ends unless the solver gives up without closing the channel,
\* also when the client is gone and the channel was full (build.go:149-157).
BuildReturns == <>(main = "done" \/ solver = "abandoned")
=============================================================================
