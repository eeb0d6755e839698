---------------------------- MODULE SocketServer ----------------------------
(***************************************************************************)
(* The daemon's Unix socket (internal/api/server.go, and its use by run in *)
(* cmd/dockerdless/main.go): several daemon processes with one configured  *)
(* path, each started, stopped, killed and started again.                  *)
(*                                                                         *)
(* No lock spans processes.  What is at the path is tested, changed and    *)
(* removed BY NAME in separate system calls, so a file may be another one  *)
(* than the one that was looked at.  The file system, connect and Go's net *)
(* and net/http packages are external: a listener's Close unlinks its      *)
(* path, whatever is there by then, and http.Server.Shutdown closes the    *)
(* listeners before it waits for the requests in flight.  The directory    *)
(* exists and every daemon may write to it: a system call fails only for   *)
(* what is at the path and who owns it.                                    *)
(***************************************************************************)
EXTENDS Naturals, FiniteSets

CONSTANTS
    Daemon,        \* daemon processes (a restarted one is started again)
    UID,           \* user IDs
    UidOf,         \* the uid each daemon runs under
    Superuser,     \* the uid that every access is granted
    NoFile,        \* nothing at the path
    MaxStarts,     \* starts of a daemon (bound)
    MaxCrashes     \* kills (bound)

ASSUME SocketAssumption ==
    /\ UidOf \in [Daemon -> UID]
    /\ MaxStarts \in Nat /\ MaxCrashes \in Nat

VARIABLES
    path,          \* the file at the socket path, or NoFile
    open,          \* inodes that a listener accepts connections on
    at,            \* each daemon's place
    info,          \* what its Lstat saw
    ino,           \* the inode it has bound (0: none)
    signalled,     \* is its context canceled?
    starts,        \* starts so far; the next inode is starts + 1
    crashes,
    calm,          \* history: no two daemons were starting or stopping at once,
                   \* and no probe missed a listener
    alone          \* history: the last start found nothing in its way, and nobody
                   \* was started or killed since

heldVars == <<info, ino, signalled>>
history == <<calm, alone>>
sVars == <<path, open, at, heldVars, starts, crashes, history>>

\* Modes as server.go tells them apart: exactly 0660, narrower but usable by
\* its owner, or unsafeSocketMode.
Mode == {"0660", "narrow", "unsafe"}
File == [kind : {"socket", "other"}, ino : 0..MaxStarts, mode : Mode, uid : UID]

ASSUME NoFileAssumption == NoFile \notin File

Starting == {"lstat", "probe", "repair", "unlink", "bind", "listen", "chmod", "verify"}
Stopping == {"close", "drain"}

STypeOK ==
    /\ path \in File \cup {NoFile}
    /\ open \subseteq 1..MaxStarts
    /\ at \in [Daemon -> {"down", "serve"} \cup Starting \cup Stopping]
    /\ info \in [Daemon -> File \cup {NoFile}]
    /\ ino \in [Daemon -> 0..MaxStarts]
    /\ signalled \in [Daemon -> BOOLEAN]
    /\ starts \in 0..MaxStarts /\ crashes \in 0..MaxCrashes
    /\ calm \in BOOLEAN /\ alone \in BOOLEAN

\* At first there is nothing, a leftover socket of anyone, or another file.
SInit ==
    /\ path \in {NoFile} \cup {f \in File : f.ino = 0 /\ (f.kind = "other" => f.mode = "0660")}
    /\ open = {}
    /\ at = [d \in Daemon |-> "down"] /\ info = [d \in Daemon |-> NoFile]
    /\ ino = [d \in Daemon |-> 0]
    /\ signalled = [d \in Daemon |-> FALSE]
    /\ starts = 0 /\ crashes = 0 /\ calm = TRUE /\ alone = FALSE

-----------------------------------------------------------------------------
(* The file system.                                                        *)

Owns(d, f) == UidOf[d] \in {f.uid, Superuser}

\* Someone accepts connections at the path.
Listening == path # NoFile /\ path.kind = "socket" /\ path.ino \in open

\* A connect can succeed when someone listens and the caller may write to the
\* socket; a canceled context does not even try.  It can always fail: the
\* backlog is full, or 200 ms pass.
Dial(d) == ~signalled[d] /\ Listening /\ Owns(d, path)

\* chmod follows the name.
CanChmod(d) == path # NoFile /\ Owns(d, path)
Chmod(d) == path' = [path EXCEPT !.mode = "0660"]

-----------------------------------------------------------------------------
(* A daemon's steps.                                                       *)

Go(d, place) == at' = [at EXCEPT ![d] = place]

\* The process ends: with it its listener.
Exit(d) ==
    /\ at' = [at EXCEPT ![d] = "down"] /\ info' = [info EXCEPT ![d] = NoFile]
    /\ ino' = [ino EXCEPT ![d] = 0] /\ signalled' = [signalled EXCEPT ![d] = FALSE]
    /\ open' = open \ {ino[d]}

\* Nobody else is starting or stopping.
Quiet(d) == \A e \in Daemon \ {d} : at[e] \in {"down", "serve"}

\* run has got to server.Run, which calls listen.
Start(d) ==
    /\ at[d] = "down" /\ starts < MaxStarts
    /\ Go(d, "lstat")
    /\ starts' = starts + 1
    /\ ino' = [ino EXCEPT ![d] = starts + 1]
    /\ calm' = (calm /\ Quiet(d))
    /\ alone' = /\ \A e \in Daemon \ {d} : at[e] = "down"
                /\ path # NoFile => path.kind = "socket" /\ path.uid = UidOf[d]
    /\ UNCHANGED <<path, open, info, signalled, crashes>>

\* removeStaleSocket: nothing there, or not a socket ...
Lstat(d) ==
    /\ at[d] = "lstat"
    /\ \/ path = NoFile /\ Go(d, "bind") /\ UNCHANGED <<open, heldVars>>
       \/ path # NoFile /\ path.kind = "other" /\ Exit(d)
       \/ /\ path # NoFile /\ path.kind = "socket"
          /\ info' = [info EXCEPT ![d] = path]
          /\ Go(d, "probe")
          /\ UNCHANGED <<open, ino, signalled>>
    /\ UNCHANGED <<path, starts, crashes, history>>

\* unsafeSocketMode of what Lstat saw, which nobody looks at again.
Judged(d) ==
    /\ Go(d, IF info[d].mode = "unsafe" THEN "repair" ELSE "unlink")
    /\ info' = [info EXCEPT ![d] = NoFile]
    /\ UNCHANGED <<open, ino, signalled>>

\* Mutant: ownership is not looked at.
ProbeAnyOwner(d) ==
    /\ at[d] = "probe"
    /\ \/ Dial(d) /\ Exit(d) /\ UNCHANGED calm
       \/ Judged(d) /\ calm' = (calm /\ ~Listening)
    /\ UNCHANGED <<path, starts, crashes, alone>>

\* Mutant: a socket of one's own user is taken for stale.
ProbeNobody(d) ==
    /\ at[d] = "probe"
    /\ \/ info[d].uid # UidOf[d] /\ Exit(d)
       \/ /\ info[d].uid = UidOf[d]
          /\ Judged(d)
    /\ UNCHANGED <<path, starts, crashes, history>>

\* ... or a socket: probeLiveSocket takes any error for "nobody listens", also
\* when somebody does; then ensureSocketOwnership and unsafeSocketMode judge by
\* what Lstat saw.
Probe(d) ==
    /\ at[d] = "probe"
    /\ \/ (Dial(d) \/ info[d].uid # UidOf[d]) /\ Exit(d) /\ UNCHANGED calm
       \/ /\ info[d].uid = UidOf[d]
          /\ Judged(d)
          /\ calm' = (calm /\ ~Listening)
    /\ UNCHANGED <<path, starts, crashes, alone>>

\* Mutant: a repaired socket is left in place.
RepairKeeping(d) ==
    /\ at[d] = "repair"
    /\ IF CanChmod(d) THEN /\ Chmod(d) /\ Go(d, "bind")
                           /\ UNCHANGED <<open, heldVars>>
       ELSE Exit(d) /\ UNCHANGED path
    /\ UNCHANGED <<starts, crashes, history>>

\* repairUnsafeSocketMode.
Repair(d) ==
    /\ at[d] = "repair"
    /\ IF CanChmod(d) THEN /\ Chmod(d) /\ Go(d, "unlink")
                           /\ UNCHANGED <<open, heldVars>>
       ELSE Exit(d) /\ UNCHANGED path
    /\ UNCHANGED <<starts, crashes, history>>

\* os.Remove of the path; here a file that is gone is an error.
Unlink(d) ==
    /\ at[d] = "unlink"
    /\ IF path = NoFile THEN Exit(d) /\ UNCHANGED path
       ELSE /\ path' = NoFile /\ Go(d, "bind")
            /\ UNCHANGED <<open, heldVars>>
    /\ UNCHANGED <<starts, crashes, history>>

\* net.ListenConfig.Listen: bind creates the file, with the mode that the umask
\* leaves, and fails if there is one ...
Bind(d) ==
    /\ at[d] = "bind"
    /\ IF path # NoFile THEN Exit(d) /\ UNCHANGED path
       ELSE /\ \E m \in Mode :
                  path' = [kind |-> "socket", ino |-> ino[d], mode |-> m, uid |-> UidOf[d]]
            /\ Go(d, "listen")
            /\ UNCHANGED <<open, heldVars>>
    /\ UNCHANGED <<starts, crashes, history>>

\* ... and only listen lets others connect.
Listen(d) ==
    /\ at[d] = "listen"
    /\ open' = open \cup {ino[d]}
    /\ Go(d, "chmod")
    /\ UNCHANGED <<path, heldVars, starts, crashes, history>>

\* Mutant: the umask is trusted to have made it 0660.
ChmodSocketTrusting(d) ==
    /\ at[d] = "chmod"
    /\ Go(d, "serve")
    /\ UNCHANGED <<path, open, heldVars, starts, crashes, history>>

\* A failing step closes the listener, which unlinks the path.
ChmodSocket(d) ==
    /\ at[d] = "chmod"
    /\ IF CanChmod(d) THEN /\ Chmod(d) /\ Go(d, "verify")
                           /\ UNCHANGED <<open, heldVars>>
       ELSE Exit(d) /\ path' = NoFile
    /\ UNCHANGED <<starts, crashes, history>>

\* verifySocketBinding, of whatever is at the path now.
Verified(d) == path # NoFile /\ path.kind = "socket" /\ path.mode = "0660" /\ path.uid = UidOf[d]

Verify(d) ==
    /\ at[d] = "verify"
    /\ IF Verified(d) THEN /\ Go(d, "serve")
                           /\ UNCHANGED <<path, open, heldVars>>
       ELSE Exit(d) /\ path' = NoFile
    /\ UNCHANGED <<starts, crashes, history>>

\* SIGTERM or SIGINT cancels the context that Run and listen were given; between
\* the probe and Run's select nothing looks at it.
Signal(d) ==
    /\ at[d] \in {"lstat", "probe", "serve"}
    /\ ~signalled[d]
    /\ signalled' = [signalled EXCEPT ![d] = TRUE]
    /\ UNCHANGED <<path, open, at, info, ino, starts, crashes, history>>

\* Serve fails: it closes its listener and Run returns the error.
ServeFails(d) ==
    /\ at[d] = "serve"
    /\ Exit(d) /\ path' = NoFile
    /\ UNCHANGED <<starts, crashes, history>>

\* Run turns to Shutdown, which takes the listener out of the server ...
BeginShutdown(d) ==
    /\ at[d] = "serve" /\ signalled[d]
    /\ Go(d, "close")
    /\ calm' = (calm /\ Quiet(d))
    /\ UNCHANGED <<path, open, heldVars, starts, crashes, alone>>

\* ... http.Server.Shutdown closes it, and the path is unlinked ...
CloseListener(d) ==
    /\ at[d] = "close"
    /\ path' = NoFile /\ open' = open \ {ino[d]}
    /\ Go(d, "drain")
    /\ UNCHANGED <<heldVars, starts, crashes, history>>

\* ... and when its requests have ended, or the timeout has, the path is removed
\* once more.  run returns and the process exits.
RemovePath(d) ==
    /\ at[d] = "drain"
    /\ path' = NoFile
    /\ Exit(d)
    /\ UNCHANGED <<starts, crashes, history>>

\* A killed daemon leaves its socket behind.
Kill(d) ==
    /\ at[d] # "down" /\ crashes < MaxCrashes
    /\ crashes' = crashes + 1
    /\ alone' = FALSE
    /\ Exit(d)
    /\ UNCHANGED <<path, starts, calm>>

\* What a daemon does by itself.
Step(d) ==
    \/ Lstat(d) \/ Probe(d) \/ Repair(d) \/ Unlink(d) \/ Bind(d) \/ Listen(d)
    \/ ChmodSocket(d) \/ Verify(d)
    \/ BeginShutdown(d) \/ CloseListener(d) \/ RemovePath(d)

SNext ==
    \E d \in Daemon :
        \/ Start(d) \/ Step(d) \/ ServeFails(d) \/ Signal(d) \/ Kill(d)

SSpec == SInit /\ [][SNext]_sVars /\ \A d \in Daemon : WF_sVars(Step(d))

-----------------------------------------------------------------------------
(* Properties.                                                             *)

\* A daemon that serves is the one clients find at the path, as long as starts
\* and stops of different daemons do not overlap and no probe misses a listener:
\* no other start, no signal and no kill at whatever point costs it its socket,
\* and so no two daemons ever serve (server.go:198-225).  A probe that misses
\* one (a dial error or its timeout, 266-276) does, although "the daemon never
\* unlinks a socket another process is serving" (docs/security.md:45-46).
ServedAtPath ==
    calm => \A d \in Daemon : at[d] = "serve" => path # NoFile /\ path.ino = ino[d]

\* Whatever overlaps, a socket that can be found and is served is exactly 0660
\* and belongs to the server's user: that chmod and the check may have met another
\* daemon's file does no harm (server.go:123-130, 281-300).
ServedSocketSafe ==
    \A d \in Daemon :
        (at[d] = "serve" /\ path # NoFile /\ path.ino = ino[d])
            => path.mode = "0660" /\ path.uid = UidOf[d]

\* What was at the path before any daemon is changed or removed only if it is a
\* socket, and only by a daemon of its user (server.go:209-238).
LeftoversOwned ==
    [][(path # NoFile /\ path.ino = 0 /\ path' # path) =>
            /\ path.kind = "socket"
            /\ \A d \in Daemon : at'[d] # at[d] => UidOf[d] = path.uid]_sVars

\* What a killed daemon left behind never keeps a daemon from serving: one that
\* starts alone, at a path that is free or its user's, serves unless it is
\* killed or another one is started (server.go:93-100, 241-257).
RestartServes ==
    (alone /\ \E d \in Daemon : at[d] = "lstat") ~> (~alone \/ \E d \in Daemon : at[d] = "serve")
=============================================================================
