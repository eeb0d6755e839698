----------------------------- MODULE LogFollow -----------------------------
(***************************************************************************)
(* The way of a container's output to a client of GET                      *)
(* /containers/{id}/logs: the copier that re-encodes it line by line into  *)
(* the container's log file (internal/app/logs.go), the reader that polls  *)
(* the file (internal/streams/logs.go) and the watcher that ends a follow  *)
(* when the container is no longer running (internal/app/containers.go).   *)
(*                                                                         *)
(* A log file is a sequence of bytes.  The k-th line the process prints is *)
(* one or two bytes k followed by NL; it is appended by one write(2), of   *)
(* which a reader may see a prefix.  Lines are numbered in the order of    *)
(* their timestamps.  The process, the log rotator and containerd are      *)
(* external.                                                               *)
(***************************************************************************)
EXTENDS Naturals, Sequences, SequencesExt, FiniteSets, FiniteSetsExt

CONSTANTS
    MaxLines,      \* lines the process prints (bound)
    MaxStarts,     \* starts of the container (bound)
    MaxRotations,  \* rotations of the log file by a log rotator (bound)
    Request        \* the requests considered: [follow, tail, since, until]

ASSUME LogAssumption ==
    /\ MaxLines \in Nat /\ MaxStarts \in Nat /\ MaxRotations \in Nat
    /\ \A r \in Request : /\ r.follow \in BOOLEAN /\ r.tail \in Nat
                          /\ r.since \in Nat /\ r.until \in Nat

VARIABLES
    status,     \* the container: none (no task), created, running, exited, gone
    starts,     \* starts begun; the next one waits for its task when launching
    launching,
    printed,    \* lines printed so far
    pipe,       \* printed lines that the copier has not taken
    files,      \* contents of every log file, by inode
    path,       \* the inode of <logDir>/<id>.log, or None
    sink,       \* the inode of the open logSink, or None
    rotations,
    req,        \* the request
    rd,         \* the reader's place in ReadLogs
    st,         \* logReadState, with the inode of the file it has open
    canceled,   \* is followCtx done?
    watch,      \* cancelFollowWhenExited: off, run, fired, exit
    client,     \* here or gone
    out,        \* the lines delivered: [line, whole]
    ghost       \* what the properties remember: [expect, skip, due]

lVars == <<status, starts, launching, printed, pipe, files, path, sink, rotations,
           req, rd, st, canceled, watch, client, out, ghost>>
procVars == <<status, starts, launching, printed, pipe>>
fileVars == <<files, path, sink, rotations>>
readVars == <<req, rd, st, canceled, watch, client, out, ghost>>

NL == 0
None == 0
Inode == 1..MaxStarts
Line == 1..MaxLines

\* The bytes of a line; lines differ in length.
Body(k) == IF k % 2 = 1 THEN <<k>> ELSE <<k, k>>

LTypeOK ==
    /\ status \in {"none", "created", "running", "exited", "gone"}
    /\ starts \in 0..MaxStarts /\ launching \in BOOLEAN
    /\ printed \in 0..MaxLines /\ pipe \in Seq(Line)
    /\ files \in [Inode -> Seq(Line \cup {NL})]
    /\ path \in Inode \cup {None} /\ sink \in Inode \cup {None}
    /\ rotations \in 0..MaxRotations
    /\ req \in Request
    /\ rd \in {"begin", "check", "open", "await", "emit", "sleep", "flush", "done"}
    /\ st \in [started : BOOLEAN, offset : 0..(3 * MaxLines), last : Inode \cup {None}]
    /\ canceled \in BOOLEAN
    /\ watch \in {"off", "run", "fired", "exit"}
    /\ client \in {"here", "gone"}
    /\ out \in Seq([line : Line, whole : BOOLEAN])
    /\ ghost \in [expect : SUBSET Line, skip : SUBSET Line, due : SUBSET Line]

LInit ==
    /\ status = "none" /\ starts = 0 /\ launching = FALSE
    /\ printed = 0 /\ pipe = <<>>
    /\ files = [i \in Inode |-> <<>>] /\ path = None /\ sink = None /\ rotations = 0
    /\ req \in Request /\ rd = "begin"
    /\ st = [started |-> FALSE, offset |-> 0, last |-> None]
    /\ canceled = FALSE /\ watch = "off" /\ client = "here"
    /\ out = <<>> /\ ghost = [expect |-> {}, skip |-> {}, due |-> {}]

-----------------------------------------------------------------------------
(* The container.                                                          *)

\* An appended line of which only the beginning has reached the file.
Torn(f) == f # <<>> /\ Last(f) # NL

Writing == sink # None /\ Torn(files[sink])

\* openLogSink: a sink that is open is used again; a file that exists is
\* appended to.
OpenLogSink ==
    /\ status \in {"none", "exited"} /\ ~launching /\ starts < MaxStarts
    /\ starts' = starts + 1 /\ launching' = TRUE
    /\ IF sink # None THEN UNCHANGED <<path, sink>>
       ELSE /\ path' = IF path # None THEN path ELSE starts + 1
            /\ sink' = path'
    /\ UNCHANGED <<status, printed, pipe, files, rotations, readVars>>

\* NewTask and Start; the pipes of an earlier task are closed with it.
StartTask ==
    /\ launching /\ ~Writing
    /\ status' = "created" /\ launching' = FALSE /\ pipe' = <<>>
    /\ UNCHANGED <<starts, printed, fileVars, readVars>>

RunTask ==
    /\ status = "created"
    /\ status' = "running"
    /\ UNCHANGED <<starts, launching, printed, pipe, fileVars, readVars>>

ProcessPrints ==
    /\ status = "running" /\ printed < MaxLines
    /\ printed' = printed + 1
    /\ pipe' = Append(pipe, printed + 1)
    /\ UNCHANGED <<status, starts, launching, fileVars, readVars>>

ProcessExits ==
    /\ status = "running"
    /\ status' = "exited"
    /\ UNCHANGED <<starts, launching, printed, pipe, fileVars, readVars>>

\* criLogWriter.Write: one appending write per line; the copy ends when the
\* sink has been closed.
CopyLine ==
    /\ pipe # <<>> /\ ~Writing
    /\ IF sink = None THEN pipe' = <<>> /\ UNCHANGED files
       ELSE pipe' = Tail(pipe) /\ files' = [files EXCEPT ![sink] = Append(@, Head(pipe))]
    /\ UNCHANGED <<status, starts, launching, printed, path, sink, rotations, readVars>>

CopyRest ==
    /\ Writing
    /\ files' = [files EXCEPT ![sink] = Append(@ \o Tail(Body(Last(@))), NL)]
    /\ UNCHANGED <<procVars, path, sink, rotations, readVars>>

\* closeLogSink, called when a refresh or a stop finds the container exited.
CloseLogSink ==
    /\ status = "exited" /\ sink # None /\ ~Writing
    /\ sink' = None
    /\ UNCHANGED <<procVars, files, path, rotations, readVars>>

\* The container is deleted, then its logs are discarded.
RemoveContainer ==
    /\ status \in {"none", "exited"} /\ ~launching
    /\ status' = "gone"
    /\ UNCHANGED <<starts, launching, printed, pipe, fileVars, readVars>>

DiscardLogs ==
    /\ status = "gone" /\ path # None /\ ~Writing
    /\ path' = None /\ sink' = None
    /\ UNCHANGED <<procVars, files, rotations, readVars>>

\* A log rotator moves the file away or truncates it in place.
Rotate ==
    /\ path # None /\ rotations < MaxRotations /\ ~Writing
    /\ rotations' = rotations + 1
    /\ \/ path' = None /\ UNCHANGED files
       \/ files' = [files EXCEPT ![path] = <<>>] /\ UNCHANGED path
    /\ UNCHANGED <<procVars, sink, readVars>>

-----------------------------------------------------------------------------
(* The reader.                                                             *)

NewlinesIn(f, from, to) == {i \in from..to : f[i] = NL}

\* Mutant: one newline too few is counted.
FindTailStartShort(f, n) ==
    LET starting == {i \in NewlinesIn(f, 1, Len(f)) :
                        Cardinality(NewlinesIn(f, i, Len(f))) = n}
    IN  IF n = 0 \/ starting = {} THEN 0 ELSE CHOOSE i \in starting : TRUE

\* FindTailStart counts newlines from the end; the last n complete lines begin
\* after the (n+1)-th.
FindTailStart(f, n) ==
    LET starting == {i \in NewlinesIn(f, 1, Len(f)) :
                        Cardinality(NewlinesIn(f, i, Len(f))) = n + 1}
    IN  IF n = 0 \/ starting = {} THEN 0 ELSE CHOOSE i \in starting : TRUE

\* Mutant: every open but the first starts over.
TrackRestarting(inode) ==
    IF ~st.started THEN FindTailStart(files[inode], req.tail) ELSE 0

\* track: the first open applies the tail, later ones start over on a file that
\* is not the last one or has become shorter.
Track(inode) ==
    IF ~st.started THEN FindTailStart(files[inode], req.tail)
    ELSE IF st.last # inode \/ Len(files[inode]) < st.offset THEN 0
    ELSE st.offset

\* The line that ends at position i of a file, and what a read from offset off
\* makes of it: the rest of a line cannot be decoded.
StartOf(f, i) == i - 1 - Len(Body(f[i - 1]))

Decoded(f, off, i) == IF StartOf(f, i) >= off THEN f[i - 1] ELSE NL

\* emitLogLines reads to the end of the file: the positions where the lines it
\* decodes end, cut off by Until, and the offset it leaves.  An incomplete last
\* line is left for later when following; otherwise it is decoded if it can be.
Ends(f, off) == {i \in NewlinesIn(f, off + 1, Len(f)) : Decoded(f, off, i) # NL}

TooNew(f, off) == {i \in Ends(f, off) : Decoded(f, off, i) > req.until}

Emitted(f, off) ==
    {i \in Ends(f, off) : /\ Decoded(f, off, i) >= req.since
                          /\ \A j \in TooNew(f, off) : i < j}

\* Mutant: an incomplete line is taken as it is when following, too.
NextOffsetTorn(f, off) ==
    IF TooNew(f, off) # {} THEN StartOf(f, Min(TooNew(f, off))) ELSE Max({off, Len(f)})

NextOffset(f, off) ==
    IF TooNew(f, off) # {} THEN StartOf(f, Min(TooNew(f, off)))
    ELSE IF req.follow THEN Max({off} \cup NewlinesIn(f, off + 1, Len(f)))
    ELSE Max({off, Len(f)})

\* The incomplete last line, if the read takes it and it can be decoded.
TornLines(f, off) ==
    LET taken == /\ Torn(f) /\ Len(f) > off /\ NextOffset(f, off) = Len(f)
                 /\ Last(f) \in req.since..req.until
    IN  IF taken THEN {<<>>, <<[line |-> Last(f), whole |-> FALSE]>>} ELSE {<<>>}

\* The members of a set of positions, in the order of the file.
InFileOrder(S) == {s \in SetToSeqs(S) : \A j, k \in DOMAIN s : j < k => s[j] < s[k]}

\* writeLogEntry for every emitted line.
Deliver(f, off) ==
    \E ends \in InFileOrder(Emitted(f, off)), torn \in TornLines(f, off) :
        LET lines == [k \in DOMAIN ends |-> [line |-> Decoded(f, off, ends[k]), whole |-> TRUE]]
        IN  out' = out \o lines \o torn

Complete(f) == {f[i - 1] : i \in NewlinesIn(f, 1, Len(f))}
Wanted(lines) == {l \in lines : l >= req.since /\ l <= req.until}

\* ContainerLogs: a file that does not exist is an empty log unless followed.
Begin ==
    /\ rd = "begin" /\ status # "gone"
    /\ rd' = IF path = None /\ ~req.follow THEN "done" ELSE "check"
    /\ watch' = IF req.follow THEN "run" ELSE "off"
    /\ UNCHANGED <<procVars, fileVars, req, st, canceled, client, out, ghost>>

Check ==
    /\ rd = "check"
    /\ rd' = IF canceled THEN "flush" ELSE "open"
    /\ UNCHANGED <<procVars, fileVars, req, st, canceled, watch, client, out, ghost>>

\* readLogsOnce opens the file and repositions; awaitLogFile if it is missing.
Open ==
    /\ rd = "open"
    /\ IF path = None
       THEN /\ rd' = IF req.follow THEN "await" ELSE "done"
            /\ UNCHANGED <<st, ghost>>
       ELSE /\ rd' = "emit"
            /\ st' = [started |-> TRUE, offset |-> Track(path), last |-> path]
            /\ IF st.started THEN UNCHANGED ghost
               ELSE LET all == Complete(files[path])
                        tail == {l \in all : req.tail = 0 \/
                                    Cardinality({m \in all : m >= l}) <= req.tail}
                    IN  ghost' = [ghost EXCEPT !.expect = Wanted(tail), !.skip = all \ tail]
    /\ UNCHANGED <<procVars, fileVars, req, canceled, watch, client, out>>

\* The file that was opened is read, whatever its name refers to by now.  A
\* client that is gone may be noticed by a failing write.
Emit ==
    /\ rd = "emit"
    /\ LET f == files[st.last] IN
       \/ /\ Deliver(f, st.offset)
          /\ st' = [st EXCEPT !.offset = NextOffset(f, st.offset)]
          /\ rd' = IF TooNew(f, st.offset) # {} \/ ~req.follow THEN "done" ELSE "sleep"
       \/ client = "gone" /\ rd' = "done" /\ UNCHANGED <<st, out>>
    /\ UNCHANGED <<procVars, fileVars, req, canceled, watch, client, ghost>>

\* Mutant: a cancellation ends the read at once.
SleepNoFlush ==
    /\ rd = "sleep"
    /\ \/ canceled /\ rd' = "done"
       \/ rd' = "check"
    /\ UNCHANGED <<procVars, fileVars, req, st, canceled, watch, client, out, ghost>>

\* sleepCtx: the timer or the cancellation, whichever comes first.
Sleep ==
    /\ rd = "sleep"
    /\ \/ canceled /\ rd' = "flush"
       \/ rd' = "check"
    /\ UNCHANGED <<procVars, fileVars, req, st, canceled, watch, client, out, ghost>>

Await ==
    /\ rd = "await"
    /\ \/ canceled /\ rd' = "done"
       \/ rd' = "check"
    /\ UNCHANGED <<procVars, fileVars, req, st, canceled, watch, client, out, ghost>>

\* flush and flushAvailableLogs: only a file that became shorter is read from
\* its start.
Flush ==
    /\ rd = "flush"
    /\ rd' = "done"
    /\ IF ~st.started \/ path = None THEN UNCHANGED <<st, out>>
       ELSE LET f == files[path]
                off == IF Len(f) < st.offset THEN 0 ELSE st.offset
            IN  Deliver(f, off) /\ st' = [st EXCEPT !.offset = NextOffset(f, off)]
    /\ UNCHANGED <<procVars, fileVars, req, canceled, watch, client, ghost>>

Reader == Begin \/ Check \/ Open \/ Emit \/ Sleep \/ Await \/ Flush

-----------------------------------------------------------------------------
(* The watcher and the client.                                             *)

\* Mutant: a status that cannot be read ends the watch and not the follow.
WatcherTickQuiet ==
    /\ watch = "run"
    /\ IF canceled \/ status = "gone"
       THEN watch' = "exit" /\ UNCHANGED <<canceled, ghost>>
       ELSE /\ status \in {"none", "exited"}
            /\ watch' = "fired" /\ canceled' = TRUE /\ UNCHANGED ghost
    /\ UNCHANGED <<procVars, fileVars, req, rd, st, client, out>>

\* cancelFollowWhenExited: Status is exited without a task as well, and fails
\* when the container is gone; both end the follow.
WatcherTick ==
    /\ watch = "run"
    /\ IF canceled \/ rd = "done"
       THEN watch' = "exit" /\ UNCHANGED <<canceled, ghost>>
       ELSE /\ status \notin {"created", "running"}
            /\ watch' = "fired" /\ canceled' = TRUE
            /\ ghost' = IF path = None \/ path # st.last THEN ghost
                        ELSE LET f == files[path] IN
                             [ghost EXCEPT !.due =
                                Wanted({Decoded(f, st.offset, i) : i \in Ends(f, st.offset)})]
    /\ UNCHANGED <<procVars, fileVars, req, rd, st, client, out>>

ClientGone ==
    /\ client = "here" /\ rd \notin {"begin", "done"}
    /\ client' = "gone" /\ canceled' = TRUE
    /\ UNCHANGED <<procVars, fileVars, req, rd, st, watch, out, ghost>>

Copier == CopyLine \/ CopyRest

LNext ==
    \/ OpenLogSink \/ StartTask \/ RunTask \/ ProcessPrints \/ ProcessExits
    \/ CloseLogSink \/ RemoveContainer \/ DiscardLogs \/ Rotate
    \/ Copier \/ Reader \/ WatcherTick \/ ClientGone

\* The goroutines of the daemon are scheduled; containers, clients and log
\* rotators may do nothing for ever.
LSpec ==
    /\ LInit /\ [][LNext]_lVars
    /\ WF_lVars(Reader) /\ WF_lVars(WatcherTick) /\ WF_lVars(Copier)

-----------------------------------------------------------------------------
(* Properties.                                                             *)

Delivered == {out[k].line : k \in DOMAIN out}

\* No line is delivered twice or before an earlier one, whatever is appended,
\* truncated, moved away or created between two polls (logs.go:223-236, 268).
InOrderOnce == \A j, k \in DOMAIN out : j < k => out[j].line < out[k].line

\* A follow never delivers a line of which it has seen only a part
\* (logs.go:277: the incomplete line is left for the next poll).
WholeLines == req.follow => \A k \in DOMAIN out : out[k].whole

\* The first read delivers the last complete lines the file had when it was
\* opened, as many as asked for, and never one before them (logs.go:107-144).
TailExact ==
    /\ Delivered \cap ghost.skip = {}
    /\ (rd \in {"check", "sleep", "flush"} /\ rotations = 0 /\ client = "here")
            => ghost.expect \subseteq Delivered

\* A follow that ends because the container is not running any more has
\* delivered every line that was complete in the file by then
\* (containers.go:474-477, logs.go:238-266).
FinalFlush ==
    (rd = "done" /\ watch = "fired" /\ client = "here" /\ rotations = 0 /\ status # "gone")
        => ghost.due \subseteq Delivered

\* A follow ends when its client goes away and when the container stops, is
\* removed or was never started (containers.go:457-479).
FollowEnds ==
    (<>(client = "gone") \/ <>[](status \in {"none", "exited", "gone"}))
        => [](rd # "begin" => <>(rd = "done"))
=============================================================================
