---------------------------- MODULE DaemonProofs ----------------------------
(***************************************************************************)
(* The daemon process: its socket, and its configuration while it stops.   *)
(* The two parts share no state.                                           *)
(*                                                                         *)
(* What the daemons at one socket path may rely on, for any number of      *)
(* daemons, users, starts and kills.  The argument is about inodes.  A     *)
(* daemon's inode is its own and comes into being at its bind; a file that *)
(* has left the path never returns.  So what a daemon does BY NAME can     *)
(* meet its own file or another one, and in each case the inode tells what *)
(* is known of it.                                                         *)
(*                                                                         *)
(* For any number of edits of the configuration file, Close leaves nothing *)
(* running: that it has returned means that the watch loop has ended.      *)
(***************************************************************************)
EXTENDS SocketServer, ConfigStore, TLAPS

-----------------------------------------------------------------------------
(* The socket.                                                             *)


\* Places from the bind on, and from the chmod on.
Bound == {"listen", "chmod", "verify", "serve", "close", "drain"}
Tightened == {"verify", "serve", "close", "drain"}
Busy == Starting \cup Stopping

\* Every running daemon has an inode of its own, every other one none.
InodesOwn ==
    /\ \A d \in Daemon : IF at[d] = "down" THEN ino[d] = 0 ELSE ino[d] \in 1..starts
    /\ \A d, e \in Daemon : (d # e /\ at[d] # "down") => ino[d] # ino[e]
    /\ path # NoFile => path.ino \in 0..starts

\* A daemon's inode at the path is a socket of its user that it has bound, and
\* exactly 0660 once the daemon's chmod is behind it.
OwnFile ==
    \A d \in Daemon : (at[d] # "down" /\ path # NoFile /\ path.ino = ino[d]) =>
        /\ at[d] \in Bound
        /\ path.kind = "socket" /\ path.uid = UidOf[d]
        /\ at[d] \in Tightened => path.mode = "0660"

\* What was at the path before any daemon is still there only if nobody has got
\* to its bind; whoever is about to change it has found it a socket of its user.
LeftoverKnown ==
    (path # NoFile /\ path.ino = 0) =>
        \A d \in Daemon :
            /\ at[d] \notin Bound \cup {"bind"}
            /\ at[d] = "probe" => path.kind = "socket" /\ info[d].uid = path.uid
            /\ at[d] \in {"repair", "unlink"} => path.kind = "socket" /\ path.uid = UidOf[d]

FileInv == STypeOK /\ InodesOwn /\ OwnFile /\ LeftoverKnown

\* While starts and stops do not overlap and no probe misses a listener: one daemon at most is busy; nobody
\* else serves once it has probed or is stopping, and until then it has seen the
\* socket that is served; what it binds stays at the path; and whoever serves is
\* at the path and accepts connections.
OneBusy ==
    \A d, e \in Daemon : (d # e /\ at[d] \in Busy) => at[e] \in {"down", "serve"}

ServerUndisturbed ==
    \A d, e \in Daemon : (d # e /\ at[d] = "serve") =>
        /\ at[e] \in {"down", "lstat", "probe"}
        /\ at[e] = "probe" => info[e] = path

BoundStays ==
    \A d \in Daemon : at[d] \in {"listen", "chmod", "verify", "serve"} =>
        path # NoFile /\ path.ino = ino[d]

Accepting == \A d \in Daemon : at[d] \in {"chmod", "verify", "serve"} => ino[d] \in open

CalmInv == Accepting /\ (calm => OneBusy /\ ServerUndisturbed /\ BoundStays)

-----------------------------------------------------------------------------
(* Lemmas about the parts of a step.                                       *)

Place == {"down", "serve"} \cup Starting \cup Stopping

\* chmod changes nothing but the mode of the file at the path (server.go:123).
LEMMA ChmodKeeps ==
    ASSUME NEW d \in Daemon, path \in File \cup {NoFile}, CanChmod(d), Chmod(d)
    PROVE  /\ path' \in File /\ path' # NoFile /\ path'.mode = "0660"
           /\ path'.ino = path.ino /\ path'.kind = path.kind /\ path'.uid = path.uid
  <1>1. path \in File
    BY DEF CanChmod
  <1>2. path' \in File
    BY <1>1 DEF Chmod, File, Mode
  <1>3. QED
    BY <1>1, <1>2, NoFileAssumption DEF Chmod, File

\* What a bind creates is a file (server.go:107-110).
LEMMA BindMakes ==
    ASSUME STypeOK, NEW d \in Daemon, NEW m \in Mode
    PROVE  [kind |-> "socket", ino |-> ino[d], mode |-> m, uid |-> UidOf[d]] \in File
  BY SocketAssumption DEF STypeOK, File

\* The end of a process frees its inode and leaves the other daemons alone.
LEMMA ExitKeeps ==
    ASSUME STypeOK, NEW d \in Daemon, Exit(d)
    PROVE  /\ at' \in [Daemon -> Place] /\ info' \in [Daemon -> File \cup {NoFile}]
           /\ ino' \in [Daemon -> 0..MaxStarts] /\ signalled' \in [Daemon -> BOOLEAN]
           /\ open' \subseteq 1..MaxStarts /\ open' = open \ {ino[d]}
           /\ at'[d] = "down" /\ ino'[d] = 0
           /\ \A e \in Daemon \ {d} : at'[e] = at[e] /\ ino'[e] = ino[e] /\ info'[e] = info[e]
  <1>1. at' \in [Daemon -> Place] /\ info' \in [Daemon -> File \cup {NoFile}]
    BY DEF STypeOK, Exit, Place
  <1>2. ino' \in [Daemon -> 0..MaxStarts]
    BY SocketAssumption DEF STypeOK, Exit
  <1>3. signalled' \in [Daemon -> BOOLEAN]
    BY DEF STypeOK, Exit
  <1>4. open' \subseteq 1..MaxStarts /\ open' = open \ {ino[d]}
    BY DEF STypeOK, Exit
  <1>5. at'[d] = "down" /\ ino'[d] = 0
    BY DEF STypeOK, Exit
  <1>6. \A e \in Daemon \ {d} : at'[e] = at[e] /\ ino'[e] = ino[e] /\ info'[e] = info[e]
    BY DEF STypeOK, Exit
  <1>7. QED
    BY <1>1, <1>2, <1>3, <1>4, <1>5, <1>6

\* The variables keep their types, whatever a daemon does.
LEMMA TypeStep ==
    ASSUME STypeOK, InodesOwn, NEW d \in Daemon, Start(d) \/ Step(d) \/ ServeFails(d) \/ Signal(d) \/ Kill(d)
    PROVE  STypeOK'
  <1> USE SocketAssumption
  <1> USE DEF STypeOK, Place, Starting, Stopping
  <1>1. CASE Start(d)
    BY <1>1 DEF Start, Go
  <1>2. CASE Lstat(d)
    BY <1>2, ExitKeeps DEF Lstat, Go, heldVars, history
  <1>3. CASE Probe(d)
    BY <1>3, ExitKeeps DEF Probe, Judged, Go, heldVars, history
  <1>4. CASE Repair(d)
    BY <1>4, ExitKeeps, ChmodKeeps DEF Repair, Go, heldVars, history
  <1>5. CASE Unlink(d)
    BY <1>5, ExitKeeps DEF Unlink, Go, heldVars, history
  <1>6. CASE Bind(d)
    BY <1>6, ExitKeeps, BindMakes DEF Bind, Go, heldVars, history
  <1>7. CASE Listen(d)
    <2>1. ino[d] \in 1..starts
      BY <1>7 DEF InodesOwn, Listen
    <2>2. ino[d] \in 1..MaxStarts
      BY <2>1
    <2>3. QED
      BY <1>7, <2>2 DEF Listen, Go, heldVars, history
  <1>8. CASE ChmodSocket(d)
    BY <1>8, ExitKeeps, ChmodKeeps DEF ChmodSocket, Go, heldVars, history
  <1>9. CASE Verify(d)
    BY <1>9, ExitKeeps DEF Verify, Go, heldVars, history
  <1>10. CASE BeginShutdown(d)
    BY <1>10 DEF BeginShutdown, Go, heldVars
  <1>11. CASE CloseListener(d)
    BY <1>11 DEF CloseListener, Go, heldVars, history
  <1>12. CASE RemovePath(d)
    BY <1>12, ExitKeeps DEF RemovePath, history
  <1>13. CASE ServeFails(d)
    BY <1>13, ExitKeeps DEF ServeFails, history
  <1>14. CASE Signal(d)
    BY <1>14 DEF Signal, history
  <1>15. CASE Kill(d)
    <2>1. crashes' \in 0..MaxCrashes
      BY <1>15 DEF Kill
    <2>2. QED
      BY <1>15, <2>1, ExitKeeps DEF Kill
  <1>16. QED
    BY <1>1, <1>2, <1>3, <1>4, <1>5, <1>6, <1>7, <1>8, <1>9, <1>10, <1>11, <1>12, <1>13, <1>14, <1>15 DEF Step

-----------------------------------------------------------------------------
(* The file at the path.                                                *)

\* A start takes a new inode and an exit gives its own up; only a bind puts an
\* inode at the path (server.go:107-110).
LEMMA InodesStep ==
    ASSUME FileInv, STypeOK', NEW d \in Daemon,
           Start(d) \/ Step(d) \/ ServeFails(d) \/ Signal(d) \/ Kill(d)
    PROVE  InodesOwn'
  <1> USE DEF FileInv, STypeOK, InodesOwn, Starting, Stopping
  <1> USE SocketAssumption
  <1>1. CASE Start(d)
    BY <1>1 DEF Start, Go
  <1>2. CASE Lstat(d)
    BY <1>2, ExitKeeps DEF Lstat, Go, heldVars, history
  <1>3. CASE Probe(d)
    BY <1>3, ExitKeeps DEF Probe, Judged, Go, heldVars, history
  <1>4. CASE Repair(d)
    <2>1. CASE CanChmod(d)
      <3>1. Chmod(d) /\ UNCHANGED <<open, heldVars, starts, crashes, history>>
        BY <1>4, <2>1 DEF Repair
      <3>2. /\ path' \in File /\ path' # NoFile /\ path'.mode = "0660"
            /\ path'.ino = path.ino /\ path'.kind = path.kind /\ path'.uid = path.uid
        BY <2>1, <3>1, ChmodKeeps
      <3>3. QED
        BY <1>4, <2>1, <3>2 DEF Repair, CanChmod, Go, heldVars
    <2>2. CASE ~CanChmod(d)
      BY <1>4, <2>2, ExitKeeps DEF Repair
    <2>3. QED
      BY <2>1, <2>2
  <1>5. CASE Unlink(d)
    BY <1>5, ExitKeeps DEF Unlink, Go, heldVars, history
  <1>6. CASE Bind(d)
    BY <1>6, ExitKeeps, BindMakes, NoFileAssumption DEF Bind, Go, heldVars, history
  <1>7. CASE Listen(d)
    BY <1>7 DEF Listen, Go, heldVars, history
  <1>8. CASE ChmodSocket(d)
    <2>1. CASE CanChmod(d)
      <3>1. Chmod(d) /\ UNCHANGED <<open, heldVars, starts, crashes, history>>
        BY <1>8, <2>1 DEF ChmodSocket
      <3>2. /\ path' \in File /\ path' # NoFile /\ path'.mode = "0660"
            /\ path'.ino = path.ino /\ path'.kind = path.kind /\ path'.uid = path.uid
        BY <2>1, <3>1, ChmodKeeps
      <3>3. QED
        BY <1>8, <2>1, <3>2 DEF ChmodSocket, CanChmod, Go, heldVars
    <2>2. CASE ~CanChmod(d)
      BY <1>8, <2>2, ExitKeeps DEF ChmodSocket
    <2>3. QED
      BY <2>1, <2>2
  <1>9. CASE Verify(d)
    BY <1>9, ExitKeeps DEF Verify, Go, heldVars, history
  <1>10. CASE BeginShutdown(d)
    BY <1>10 DEF BeginShutdown, Go, heldVars
  <1>11. CASE CloseListener(d)
    BY <1>11 DEF CloseListener, Go, heldVars, history
  <1>12. CASE RemovePath(d)
    BY <1>12, ExitKeeps DEF RemovePath, history
  <1>13. CASE ServeFails(d)
    BY <1>13, ExitKeeps DEF ServeFails, history
  <1>14. CASE Signal(d)
    BY <1>14 DEF Signal, history
  <1>15. CASE Kill(d)
    BY <1>15, ExitKeeps DEF Kill
  <1>16. QED
    BY <1>1, <1>2, <1>3, <1>4, <1>5, <1>6, <1>7, <1>8, <1>9, <1>10, <1>11, <1>12, <1>13, <1>14, <1>15 DEF Step

\* What a daemon finds at the path under its own inode is its own socket: chmod,
\* by name, can only make it 0660 (server.go:107-130).
LEMMA OwnFileStep ==
    ASSUME FileInv, STypeOK', NEW d \in Daemon,
           Start(d) \/ Step(d) \/ ServeFails(d) \/ Signal(d) \/ Kill(d)
    PROVE  OwnFile'
  <1> USE DEF FileInv, STypeOK, InodesOwn, OwnFile, Starting, Stopping, Bound, Tightened
  <1> USE SocketAssumption
  <1>1. CASE Start(d)
    BY <1>1 DEF Start, Go
  <1>2. CASE Lstat(d)
    BY <1>2, ExitKeeps DEF Lstat, Go, heldVars, history
  <1>3. CASE Probe(d)
    BY <1>3, ExitKeeps DEF Probe, Judged, Go, heldVars, history
  <1>4. CASE Repair(d)
    <2>1. CASE CanChmod(d)
      <3>1. Chmod(d) /\ UNCHANGED <<open, heldVars, starts, crashes, history>>
        BY <1>4, <2>1 DEF Repair
      <3>2. /\ path' \in File /\ path' # NoFile /\ path'.mode = "0660"
            /\ path'.ino = path.ino /\ path'.kind = path.kind /\ path'.uid = path.uid
        BY <2>1, <3>1, ChmodKeeps
      <3>3. QED
        BY <1>4, <2>1, <3>2 DEF Repair, CanChmod, Go, heldVars
    <2>2. CASE ~CanChmod(d)
      BY <1>4, <2>2, ExitKeeps DEF Repair
    <2>3. QED
      BY <2>1, <2>2
  <1>5. CASE Unlink(d)
    BY <1>5, ExitKeeps DEF Unlink, Go, heldVars, history
  <1>6. CASE Bind(d)
    BY <1>6, ExitKeeps, BindMakes, NoFileAssumption DEF Bind, Go, heldVars, history
  <1>7. CASE Listen(d)
    BY <1>7 DEF Listen, Go, heldVars, history
  <1>8. CASE ChmodSocket(d)
    <2>1. CASE CanChmod(d)
      <3>1. Chmod(d) /\ UNCHANGED <<open, heldVars, starts, crashes, history>>
        BY <1>8, <2>1 DEF ChmodSocket
      <3>2. /\ path' \in File /\ path' # NoFile /\ path'.mode = "0660"
            /\ path'.ino = path.ino /\ path'.kind = path.kind /\ path'.uid = path.uid
        BY <2>1, <3>1, ChmodKeeps
      <3>3. QED
        BY <1>8, <2>1, <3>2 DEF ChmodSocket, CanChmod, Go, heldVars
    <2>2. CASE ~CanChmod(d)
      BY <1>8, <2>2, ExitKeeps DEF ChmodSocket
    <2>3. QED
      BY <2>1, <2>2
  <1>9. CASE Verify(d)
    BY <1>9, ExitKeeps DEF Verify, Go, heldVars, history
  <1>10. CASE BeginShutdown(d)
    BY <1>10 DEF BeginShutdown, Go, heldVars
  <1>11. CASE CloseListener(d)
    BY <1>11 DEF CloseListener, Go, heldVars, history
  <1>12. CASE RemovePath(d)
    BY <1>12, ExitKeeps DEF RemovePath, history
  <1>13. CASE ServeFails(d)
    BY <1>13, ExitKeeps DEF ServeFails, history
  <1>14. CASE Signal(d)
    BY <1>14 DEF Signal, history
  <1>15. CASE Kill(d)
    BY <1>15, ExitKeeps DEF Kill
  <1>16. QED
    BY <1>1, <1>2, <1>3, <1>4, <1>5, <1>6, <1>7, <1>8, <1>9, <1>10, <1>11, <1>12, <1>13, <1>14, <1>15 DEF Step

\* A file that was there before is removed before anybody binds, and its kind and
\* owner were looked at before (server.go:198-238).
LEMMA LeftoverStep ==
    ASSUME FileInv, STypeOK', NEW d \in Daemon,
           Start(d) \/ Step(d) \/ ServeFails(d) \/ Signal(d) \/ Kill(d)
    PROVE  LeftoverKnown'
  <1> USE DEF FileInv, STypeOK, InodesOwn, LeftoverKnown, Starting, Stopping, Bound
  <1> USE SocketAssumption
  <1>1. CASE Start(d)
    BY <1>1 DEF Start, Go
  <1>2. CASE Lstat(d)
    BY <1>2, ExitKeeps DEF Lstat, Go, heldVars, history
  <1>3. CASE Probe(d)
    BY <1>3, ExitKeeps DEF Probe, Judged, Go, heldVars, history
  <1>4. CASE Repair(d)
    <2>1. CASE CanChmod(d)
      <3>1. Chmod(d) /\ UNCHANGED <<open, heldVars, starts, crashes, history>>
        BY <1>4, <2>1 DEF Repair
      <3>2. /\ path' \in File /\ path' # NoFile /\ path'.mode = "0660"
            /\ path'.ino = path.ino /\ path'.kind = path.kind /\ path'.uid = path.uid
        BY <2>1, <3>1, ChmodKeeps
      <3>3. QED
        BY <1>4, <2>1, <3>2 DEF Repair, CanChmod, Go, heldVars
    <2>2. CASE ~CanChmod(d)
      BY <1>4, <2>2, ExitKeeps DEF Repair
    <2>3. QED
      BY <2>1, <2>2
  <1>5. CASE Unlink(d)
    BY <1>5, ExitKeeps DEF Unlink, Go, heldVars, history
  <1>6. CASE Bind(d)
    BY <1>6, ExitKeeps, BindMakes, NoFileAssumption DEF Bind, Go, heldVars, history
  <1>7. CASE Listen(d)
    BY <1>7 DEF Listen, Go, heldVars, history
  <1>8. CASE ChmodSocket(d)
    <2>1. CASE CanChmod(d)
      <3>1. Chmod(d) /\ UNCHANGED <<open, heldVars, starts, crashes, history>>
        BY <1>8, <2>1 DEF ChmodSocket
      <3>2. /\ path' \in File /\ path' # NoFile /\ path'.mode = "0660"
            /\ path'.ino = path.ino /\ path'.kind = path.kind /\ path'.uid = path.uid
        BY <2>1, <3>1, ChmodKeeps
      <3>3. QED
        BY <1>8, <2>1, <3>2 DEF ChmodSocket, CanChmod, Go, heldVars
    <2>2. CASE ~CanChmod(d)
      BY <1>8, <2>2, ExitKeeps DEF ChmodSocket
    <2>3. QED
      BY <2>1, <2>2
  <1>9. CASE Verify(d)
    BY <1>9, ExitKeeps DEF Verify, Go, heldVars, history
  <1>10. CASE BeginShutdown(d)
    BY <1>10 DEF BeginShutdown, Go, heldVars
  <1>11. CASE CloseListener(d)
    BY <1>11 DEF CloseListener, Go, heldVars, history
  <1>12. CASE RemovePath(d)
    BY <1>12, ExitKeeps DEF RemovePath, history
  <1>13. CASE ServeFails(d)
    BY <1>13, ExitKeeps DEF ServeFails, history
  <1>14. CASE Signal(d)
    BY <1>14 DEF Signal, history
  <1>15. CASE Kill(d)
    BY <1>15, ExitKeeps DEF Kill
  <1>16. QED
    BY <1>1, <1>2, <1>3, <1>4, <1>5, <1>6, <1>7, <1>8, <1>9, <1>10, <1>11, <1>12, <1>13, <1>14, <1>15 DEF Step

-----------------------------------------------------------------------------
(* The server at the path, when starts and stops do not overlap.           *)

\* A daemon listens on its inode until it closes its listener or exits, and no\nother daemon's end closes it (server.go:107-118).
LEMMA AcceptingStep ==
    ASSUME FileInv, Accepting, STypeOK', NEW d \in Daemon,
           Start(d) \/ Step(d) \/ ServeFails(d) \/ Signal(d) \/ Kill(d)
    PROVE  Accepting'
  <1> USE DEF FileInv, STypeOK, InodesOwn, Accepting, Starting, Stopping
  <1> USE SocketAssumption
  <1>1. CASE Start(d)
    BY <1>1 DEF Start, Go
  <1>2. CASE Lstat(d)
    BY <1>2, ExitKeeps DEF Lstat, Go, heldVars, history
  <1>3. CASE Probe(d)
    BY <1>3, ExitKeeps DEF Probe, Judged, Go, heldVars, history
  <1>4. CASE Repair(d)
    <2>1. CASE CanChmod(d)
      <3>1. Chmod(d) /\ UNCHANGED <<open, heldVars, starts, crashes, history>>
        BY <1>4, <2>1 DEF Repair
      <3>2. /\ path' \in File /\ path' # NoFile /\ path'.mode = "0660"
            /\ path'.ino = path.ino /\ path'.kind = path.kind /\ path'.uid = path.uid
        BY <2>1, <3>1, ChmodKeeps
      <3>3. QED
        BY <1>4, <2>1, <3>2 DEF Repair, CanChmod, Go, heldVars
    <2>2. CASE ~CanChmod(d)
      BY <1>4, <2>2, ExitKeeps DEF Repair
    <2>3. QED
      BY <2>1, <2>2
  <1>5. CASE Unlink(d)
    BY <1>5, ExitKeeps DEF Unlink, Go, heldVars, history
  <1>6. CASE Bind(d)
    BY <1>6, ExitKeeps, BindMakes, NoFileAssumption DEF Bind, Go, heldVars, history
  <1>7. CASE Listen(d)
    BY <1>7 DEF Listen, Go, heldVars, history
  <1>8. CASE ChmodSocket(d)
    <2>1. CASE CanChmod(d)
      <3>1. Chmod(d) /\ UNCHANGED <<open, heldVars, starts, crashes, history>>
        BY <1>8, <2>1 DEF ChmodSocket
      <3>2. /\ path' \in File /\ path' # NoFile /\ path'.mode = "0660"
            /\ path'.ino = path.ino /\ path'.kind = path.kind /\ path'.uid = path.uid
        BY <2>1, <3>1, ChmodKeeps
      <3>3. QED
        BY <1>8, <2>1, <3>2 DEF ChmodSocket, CanChmod, Go, heldVars
    <2>2. CASE ~CanChmod(d)
      BY <1>8, <2>2, ExitKeeps DEF ChmodSocket
    <2>3. QED
      BY <2>1, <2>2
  <1>9. CASE Verify(d)
    BY <1>9, ExitKeeps DEF Verify, Go, heldVars, history
  <1>10. CASE BeginShutdown(d)
    BY <1>10 DEF BeginShutdown, Go, heldVars
  <1>11. CASE CloseListener(d)
    BY <1>11 DEF CloseListener, Go, heldVars, history
  <1>12. CASE RemovePath(d)
    BY <1>12, ExitKeeps DEF RemovePath, history
  <1>13. CASE ServeFails(d)
    BY <1>13, ExitKeeps DEF ServeFails, history
  <1>14. CASE Signal(d)
    BY <1>14 DEF Signal, history
  <1>15. CASE Kill(d)
    BY <1>15, ExitKeeps DEF Kill
  <1>16. QED
    BY <1>1, <1>2, <1>3, <1>4, <1>5, <1>6, <1>7, <1>8, <1>9, <1>10, <1>11, <1>12, <1>13, <1>14, <1>15 DEF Step

\* A daemon starts, or begins to stop, only while no other does: that is what
\* calm says.
LEMMA OneBusyStep ==
    ASSUME FileInv, CalmInv, calm, calm', STypeOK', NEW d \in Daemon,
           Start(d) \/ Step(d) \/ ServeFails(d) \/ Signal(d) \/ Kill(d)
    PROVE  OneBusy'
  <1> USE DEF FileInv, STypeOK, CalmInv, OneBusy, Busy, Starting, Stopping
  <1> USE SocketAssumption
  <1>1. CASE Start(d)
    <2>1. \A e \in Daemon \ {d} : at[e] \in {"down", "serve"}
      BY <1>1 DEF Start, Quiet
    <2>2. at' = [at EXCEPT ![d] = "lstat"]
      BY <1>1 DEF Start, Go
    <2>3. QED
      BY <2>1, <2>2
  <1>2. CASE Lstat(d)
    BY <1>2, ExitKeeps DEF Lstat, Go, heldVars, history
  <1>3. CASE Probe(d)
    <2>1. CASE Exit(d)
      BY <1>3, <2>1, ExitKeeps DEF Probe
    <2>2. CASE Judged(d)
      BY <1>3, <2>2 DEF Probe, Judged, Go
    <2>3. QED
      BY <1>3, <2>1, <2>2 DEF Probe
  <1>4. CASE Repair(d)
    <2>1. CASE CanChmod(d)
      <3>1. Chmod(d) /\ UNCHANGED <<open, heldVars, starts, crashes, history>>
        BY <1>4, <2>1 DEF Repair
      <3>2. /\ path' \in File /\ path' # NoFile /\ path'.mode = "0660"
            /\ path'.ino = path.ino /\ path'.kind = path.kind /\ path'.uid = path.uid
        BY <2>1, <3>1, ChmodKeeps
      <3>3. QED
        BY <1>4, <2>1, <3>2 DEF Repair, CanChmod, Go, heldVars
    <2>2. CASE ~CanChmod(d)
      BY <1>4, <2>2, ExitKeeps DEF Repair
    <2>3. QED
      BY <2>1, <2>2
  <1>5. CASE Unlink(d)
    BY <1>5, ExitKeeps DEF Unlink, Go, heldVars, history
  <1>6. CASE Bind(d)
    BY <1>6, ExitKeeps, BindMakes, NoFileAssumption DEF Bind, Go, heldVars, history
  <1>7. CASE Listen(d)
    BY <1>7 DEF Listen, Go, heldVars, history
  <1>8. CASE ChmodSocket(d)
    <2>1. CASE CanChmod(d)
      <3>1. Chmod(d) /\ UNCHANGED <<open, heldVars, starts, crashes, history>>
        BY <1>8, <2>1 DEF ChmodSocket
      <3>2. /\ path' \in File /\ path' # NoFile /\ path'.mode = "0660"
            /\ path'.ino = path.ino /\ path'.kind = path.kind /\ path'.uid = path.uid
        BY <2>1, <3>1, ChmodKeeps
      <3>3. QED
        BY <1>8, <2>1, <3>2 DEF ChmodSocket, CanChmod, Go, heldVars
    <2>2. CASE ~CanChmod(d)
      BY <1>8, <2>2, ExitKeeps DEF ChmodSocket
    <2>3. QED
      BY <2>1, <2>2
  <1>9. CASE Verify(d)
    BY <1>9, ExitKeeps DEF Verify, Go, heldVars, history
  <1>10. CASE BeginShutdown(d)
    BY <1>10 DEF BeginShutdown, Go, heldVars, Quiet
  <1>11. CASE CloseListener(d)
    BY <1>11 DEF CloseListener, Go, heldVars, history
  <1>12. CASE RemovePath(d)
    BY <1>12, ExitKeeps DEF RemovePath, history
  <1>13. CASE ServeFails(d)
    BY <1>13, ExitKeeps DEF ServeFails, history
  <1>14. CASE Signal(d)
    BY <1>14 DEF Signal, history
  <1>15. CASE Kill(d)
    BY <1>15, ExitKeeps DEF Kill
  <1>16. QED
    BY <1>1, <1>2, <1>3, <1>4, <1>5, <1>6, <1>7, <1>8, <1>9, <1>10, <1>11, <1>12, <1>13, <1>14, <1>15 DEF Step

\* A start that meets a served socket of its user finds it live, unless its probe
\* misses the listener; of another user finds it foreign; and gives up
\* (server.go:216-225).
LEMMA ServerStep ==
    ASSUME FileInv, CalmInv, calm, calm', STypeOK', NEW d \in Daemon,
           Start(d) \/ Step(d) \/ ServeFails(d) \/ Signal(d) \/ Kill(d)
    PROVE  ServerUndisturbed'
  <1> USE DEF FileInv, STypeOK, InodesOwn, OwnFile, CalmInv, Accepting, OneBusy, ServerUndisturbed, BoundStays, Busy, Starting, Stopping
  <1> USE SocketAssumption
  <1>1. CASE Start(d)
    BY <1>1 DEF Start, Go, Quiet
  <1>2. CASE Lstat(d)
    BY <1>2, ExitKeeps DEF Lstat, Go, heldVars, history
  <1>3. CASE Probe(d)
    <2>1. SUFFICES ASSUME NEW s \in Daemon, NEW e \in Daemon, s # e, at'[s] = "serve"
                   PROVE  /\ at'[e] \in {"down", "lstat", "probe"}
                          /\ at'[e] = "probe" => info'[e] = path'
      OBVIOUS
    <2>2. s # d /\ at[s] = "serve"
      BY <1>3, <2>1, ExitKeeps DEF Probe, Judged, Go
    <2>3. info[d] = path /\ Listening
      BY <1>3, <2>2 DEF Probe, Bound, Listening
    <2>4. Exit(d)
      BY <1>3, <2>3 DEF Probe
    <2>5. QED
      BY <1>3, <2>1, <2>2, <2>4, ExitKeeps DEF Probe
  <1>4. CASE Repair(d)
    <2>1. CASE CanChmod(d)
      <3>1. Chmod(d) /\ UNCHANGED <<open, heldVars, starts, crashes, history>>
        BY <1>4, <2>1 DEF Repair
      <3>2. /\ path' \in File /\ path' # NoFile /\ path'.mode = "0660"
            /\ path'.ino = path.ino /\ path'.kind = path.kind /\ path'.uid = path.uid
        BY <2>1, <3>1, ChmodKeeps
      <3>3. QED
        BY <1>4, <2>1, <3>2 DEF Repair, CanChmod, Go, heldVars
    <2>2. CASE ~CanChmod(d)
      BY <1>4, <2>2, ExitKeeps DEF Repair
    <2>3. QED
      BY <2>1, <2>2
  <1>5. CASE Unlink(d)
    BY <1>5, ExitKeeps DEF Unlink, Go, heldVars, history
  <1>6. CASE Bind(d)
    BY <1>6, ExitKeeps, BindMakes, NoFileAssumption DEF Bind, Go, heldVars, history
  <1>7. CASE Listen(d)
    BY <1>7 DEF Listen, Go, heldVars, history
  <1>8. CASE ChmodSocket(d)
    <2>1. CASE CanChmod(d)
      <3>1. Chmod(d) /\ UNCHANGED <<open, heldVars, starts, crashes, history>>
        BY <1>8, <2>1 DEF ChmodSocket
      <3>2. /\ path' \in File /\ path' # NoFile /\ path'.mode = "0660"
            /\ path'.ino = path.ino /\ path'.kind = path.kind /\ path'.uid = path.uid
        BY <2>1, <3>1, ChmodKeeps
      <3>3. QED
        BY <1>8, <2>1, <3>2 DEF ChmodSocket, CanChmod, Go, heldVars
    <2>2. CASE ~CanChmod(d)
      BY <1>8, <2>2, ExitKeeps DEF ChmodSocket
    <2>3. QED
      BY <2>1, <2>2
  <1>9. CASE Verify(d)
    BY <1>9, ExitKeeps DEF Verify, Go, heldVars, history
  <1>10. CASE BeginShutdown(d)
    BY <1>10 DEF BeginShutdown, Go, heldVars, Quiet
  <1>11. CASE CloseListener(d)
    BY <1>11 DEF CloseListener, Go, heldVars, history
  <1>12. CASE RemovePath(d)
    BY <1>12, ExitKeeps DEF RemovePath, history
  <1>13. CASE ServeFails(d)
    BY <1>13, ExitKeeps DEF ServeFails, history
  <1>14. CASE Signal(d)
    BY <1>14 DEF Signal, history
  <1>15. CASE Kill(d)
    BY <1>15, ExitKeeps DEF Kill
  <1>16. QED
    BY <1>1, <1>2, <1>3, <1>4, <1>5, <1>6, <1>7, <1>8, <1>9, <1>10, <1>11, <1>12, <1>13, <1>14, <1>15 DEF Step

\* So nobody takes from the path what a daemon has bound and means to serve\n(server.go:107-130, 266-276).
LEMMA BoundStep ==
    ASSUME FileInv, CalmInv, calm, calm', STypeOK', NEW d \in Daemon,
           Start(d) \/ Step(d) \/ ServeFails(d) \/ Signal(d) \/ Kill(d)
    PROVE  BoundStays'
  <1> USE DEF FileInv, STypeOK, InodesOwn, OwnFile, CalmInv, Accepting, OneBusy, ServerUndisturbed, BoundStays, Busy, Starting, Stopping, Bound
  <1> USE SocketAssumption
  <1>1. CASE Start(d)
    BY <1>1 DEF Start, Go
  <1>2. CASE Lstat(d)
    BY <1>2, ExitKeeps DEF Lstat, Go, heldVars, history
  <1>3. CASE Probe(d)
    <2>1. CASE Exit(d)
      BY <1>3, <2>1, ExitKeeps DEF Probe
    <2>2. CASE Judged(d)
      BY <1>3, <2>2 DEF Probe, Judged, Go
    <2>3. QED
      BY <1>3, <2>1, <2>2 DEF Probe
  <1>4. CASE Repair(d)
    <2>1. CASE CanChmod(d)
      <3>1. Chmod(d) /\ UNCHANGED <<open, heldVars, starts, crashes, history>>
        BY <1>4, <2>1 DEF Repair
      <3>2. /\ path' \in File /\ path' # NoFile /\ path'.mode = "0660"
            /\ path'.ino = path.ino /\ path'.kind = path.kind /\ path'.uid = path.uid
        BY <2>1, <3>1, ChmodKeeps
      <3>3. QED
        BY <1>4, <2>1, <3>2 DEF Repair, CanChmod, Go, heldVars
    <2>2. CASE ~CanChmod(d)
      BY <1>4, <2>2, ExitKeeps DEF Repair
    <2>3. QED
      BY <2>1, <2>2
  <1>5. CASE Unlink(d)
    BY <1>5, ExitKeeps DEF Unlink, Go, heldVars, history
  <1>6. CASE Bind(d)
    BY <1>6, ExitKeeps, BindMakes, NoFileAssumption DEF Bind, Go, heldVars, history
  <1>7. CASE Listen(d)
    BY <1>7 DEF Listen, Go, heldVars, history
  <1>8. CASE ChmodSocket(d)
    <2>1. CASE CanChmod(d)
      <3>1. Chmod(d) /\ UNCHANGED <<open, heldVars, starts, crashes, history>>
        BY <1>8, <2>1 DEF ChmodSocket
      <3>2. /\ path' \in File /\ path' # NoFile /\ path'.mode = "0660"
            /\ path'.ino = path.ino /\ path'.kind = path.kind /\ path'.uid = path.uid
        BY <2>1, <3>1, ChmodKeeps
      <3>3. QED
        BY <1>8, <2>1, <3>2 DEF ChmodSocket, CanChmod, Go, heldVars
    <2>2. CASE ~CanChmod(d)
      BY <1>8, <2>2, ExitKeeps DEF ChmodSocket
    <2>3. QED
      BY <2>1, <2>2
  <1>9. CASE Verify(d)
    BY <1>9, ExitKeeps DEF Verify, Go, heldVars, history, Verified
  <1>10. CASE BeginShutdown(d)
    BY <1>10 DEF BeginShutdown, Go, heldVars
  <1>11. CASE CloseListener(d)
    BY <1>11 DEF CloseListener, Go, heldVars, history
  <1>12. CASE RemovePath(d)
    BY <1>12, ExitKeeps DEF RemovePath, history
  <1>13. CASE ServeFails(d)
    BY <1>13, ExitKeeps DEF ServeFails, history
  <1>14. CASE Signal(d)
    BY <1>14 DEF Signal, history
  <1>15. CASE Kill(d)
    BY <1>15, ExitKeeps DEF Kill
  <1>16. QED
    BY <1>1, <1>2, <1>3, <1>4, <1>5, <1>6, <1>7, <1>8, <1>9, <1>10, <1>11, <1>12, <1>13, <1>14, <1>15 DEF Step

-----------------------------------------------------------------------------
(* The theorems.                                                           *)

\* Both invariants hold at first and no step breaks them.
LEMMA SocketInit == SInit => FileInv /\ CalmInv
  <1> SUFFICES ASSUME SInit PROVE FileInv /\ CalmInv
    OBVIOUS
  <1>1. STypeOK
    <2>1. path \in File \cup {NoFile} /\ open \subseteq 1..MaxStarts
      BY DEF SInit
    <2>2. /\ at \in [Daemon -> {"down", "serve"} \cup Starting \cup Stopping]
          /\ info \in [Daemon -> File \cup {NoFile}]
          /\ signalled \in [Daemon -> BOOLEAN]
      BY DEF SInit
    <2>3. ino \in [Daemon -> 0..MaxStarts] /\ starts \in 0..MaxStarts /\ crashes \in 0..MaxCrashes
      BY SocketAssumption DEF SInit
    <2>4. QED
      BY <2>1, <2>2, <2>3 DEF SInit, STypeOK
  <1>2. InodesOwn /\ OwnFile /\ LeftoverKnown
    BY <1>1 DEF SInit, InodesOwn, OwnFile, LeftoverKnown, File, STypeOK, Bound
  <1>3. Accepting /\ OneBusy /\ ServerUndisturbed /\ BoundStays
    BY DEF SInit, Accepting, OneBusy, ServerUndisturbed, BoundStays, Busy, Starting, Stopping
  <1>4. QED
    BY <1>1, <1>2, <1>3 DEF FileInv, CalmInv

\* No step makes starts and stops calm again.
LEMMA CalmShrinks ==
    ASSUME NEW d \in Daemon, Start(d) \/ Step(d) \/ ServeFails(d) \/ Signal(d) \/ Kill(d),
           calm'
    PROVE  calm
  BY DEF Step, Start, Lstat, Probe, Repair, Unlink, Bind, Listen, ChmodSocket, Verify,
         BeginShutdown, CloseListener, RemovePath, ServeFails, Signal, Kill, history

\* Every step keeps both invariants.
LEMMA SocketStep == FileInv /\ CalmInv /\ [SNext]_sVars => (FileInv /\ CalmInv)'
  <1> SUFFICES ASSUME FileInv, CalmInv, [SNext]_sVars PROVE FileInv' /\ CalmInv'
    OBVIOUS
  <1>1. ASSUME NEW d \in Daemon, Start(d) \/ Step(d) \/ ServeFails(d) \/ Signal(d) \/ Kill(d)
        PROVE  FileInv' /\ CalmInv'
    <2>1. STypeOK'
      BY <1>1, TypeStep DEF FileInv
    <2>2. InodesOwn' /\ OwnFile' /\ LeftoverKnown'
      BY <1>1, <2>1, InodesStep, OwnFileStep, LeftoverStep
    <2>3. Accepting'
      BY <1>1, <2>1, AcceptingStep DEF CalmInv
    <2>4. ASSUME calm' PROVE OneBusy' /\ ServerUndisturbed' /\ BoundStays'
      BY <1>1, <2>1, <2>4, CalmShrinks, OneBusyStep, ServerStep, BoundStep
    <2>5. QED
      BY <2>1, <2>2, <2>3, <2>4 DEF FileInv, CalmInv
  <1>2. CASE UNCHANGED sVars
    BY <1>2 DEF sVars, heldVars, history, FileInv, CalmInv, STypeOK, InodesOwn, OwnFile,
                LeftoverKnown, Accepting, OneBusy, ServerUndisturbed, BoundStays
  <1>3. QED
    BY <1>1, <1>2 DEF SNext

\* Both hold throughout.
LEMMA SocketInvariant == SSpec => [](FileInv /\ CalmInv)
  BY SocketInit, SocketStep, PTL DEF SSpec

\* Whatever overlaps, a served socket that can be found at the path is 0660 and
\* its server's user's, although listen changes and checks the path by name
\* (server.go:123-130, 281-300).
THEOREM SocketSafe == SSpec => []ServedSocketSafe
  <1>1. FileInv => ServedSocketSafe
    BY DEF FileInv, OwnFile, ServedSocketSafe, Tightened
  <1>2. QED
    BY <1>1, SocketInvariant, PTL

\* Whoever serves is found at the path, when starts and stops do not overlap and
\* no probe misses a listener: removeStaleSocket then never removes a live
\* socket (server.go:198-225), whoever is killed or told to stop.
THEOREM ServerFound == SSpec => []ServedAtPath
  <1>1. CalmInv => ServedAtPath
    BY DEF CalmInv, BoundStays, ServedAtPath
  <1>2. QED
    BY <1>1, SocketInvariant, PTL

\* A daemon touches what it has not made itself only if it is a socket of its own
\* user, however many daemons start at once (server.go:209-238).
THEOREM LeftoversRespected == SSpec => LeftoversOwned
  <1> DEFINE Respects ==
        (path # NoFile /\ path.ino = 0 /\ path' # path) =>
            /\ path.kind = "socket"
            /\ \A d \in Daemon : at'[d] # at[d] => UidOf[d] = path.uid
  <1>1. ASSUME FileInv, NEW d \in Daemon,
               Start(d) \/ Step(d) \/ ServeFails(d) \/ Signal(d) \/ Kill(d)
        PROVE  Respects
    <2>1. \A e \in Daemon \ {d} : at'[e] = at[e]
      BY <1>1 DEF FileInv, STypeOK, Step, Start, Lstat, Probe, Judged, Repair, Unlink, Bind, Listen,
                  ChmodSocket, Verify, BeginShutdown, CloseListener, RemovePath, ServeFails,
                  Signal, Kill, Exit, Go
    <2>2. CASE path # NoFile /\ path.ino = 0 /\ path' # path
      <3>1. at[d] \notin Bound \cup {"bind"}
        BY <1>1, <2>2 DEF FileInv, LeftoverKnown
      <3>2. at[d] \in {"repair", "unlink"}
        BY <1>1, <2>2, <3>1 DEF Step, Start, Lstat, Probe, Repair, Unlink, Bind, Listen,
                  ChmodSocket, Verify, BeginShutdown, CloseListener, RemovePath, ServeFails,
                  Signal, Kill, Bound
      <3>3. QED
        BY <1>1, <2>1, <2>2, <3>2 DEF FileInv, LeftoverKnown
    <2>3. QED
      BY <2>2
  <1>2. FileInv /\ [SNext]_sVars => [Respects]_sVars
    BY <1>1 DEF SNext
  <1>3. QED
    BY <1>2, SocketInvariant, PTL DEF SSpec, LeftoversOwned

-----------------------------------------------------------------------------
(* The configuration store.                                                *)

\* An event that was not taken belongs to an edit, the loop exists while the
\* daemon runs, and Close has returned only if it has ended.
StoreInv ==
    /\ CTypeOK
    /\ events <= edits
    /\ loop # "none" => main \in {"run", "close", "wait", "done"}
    /\ main = "done" => loop = "gone"

\* The defaults are a valid configuration.
LEMMA StoreInit == CInit => StoreInv
  <1> SUFFICES ASSUME CInit PROVE StoreInv
    OBVIOUS
  <1>1. current.lvl \in Level \ Unparsable
    BY DEF CInit, Config
  <1>2. /\ file \in Config \cup {Bad} /\ current \in Config /\ previous \in Config
        /\ level \in Level \ Unparsable /\ closed \in BOOLEAN
    BY <1>1 DEF CInit
  <1>3. events = 0 /\ edits = 0 /\ main = "load" /\ loop = "none"
    BY DEF CInit
  <1>4. QED
    BY <1>2, <1>3, ConfigAssumption DEF StoreInv, CTypeOK

\* A snapshot is what the file held or what was published before, and so it is
\* a configuration.
LEMMA LoadKeeps ==
    ASSUME CTypeOK, Load
    PROVE  current' \in Config
  BY DEF CTypeOK, Load

\* Start-up, shutdown, the loop and the editors keep the invariant.
LEMMA StoreStep == StoreInv /\ [CNext]_cVars => StoreInv'
  <1> SUFFICES ASSUME StoreInv, [CNext]_cVars PROVE StoreInv'
    OBVIOUS
  <1> USE ConfigAssumption DEF StoreInv, CTypeOK
  <1>1. CASE MainLoad \/ MainWatchLoad \/ LoopLoad
    <2>1. current' \in Config
      BY <1>1, LoadKeeps DEF MainLoad, MainWatchLoad, LoopLoad
    <2>2. QED
      BY <1>1, <2>1 DEF MainLoad, MainWatchLoad, LoopLoad
  <1>2. CASE MainBoot
    BY <1>2 DEF MainBoot, Config
  <1>3. CASE MainWire \/ MainAdd \/ MainWait
    BY <1>3 DEF MainWire, MainAdd, MainWait
  <1>4. CASE MainClose
    BY <1>4 DEF MainClose
  <1>5. CASE MainCloseWatcher
    BY <1>5 DEF MainCloseWatcher
  <1>6. CASE LoopTake \/ LoopHook \/ LoopExit
    BY <1>6 DEF LoopTake, LoopHook, LoopExit
  <1>7. CASE LoopApply
    BY <1>7 DEF LoopApply, Config
  <1>8. ASSUME NEW c \in Config \cup {Bad}, Edit(c) PROVE StoreInv'
    BY <1>8 DEF Edit
  <1>9. CASE UNCHANGED cVars
    BY <1>9 DEF cVars
  <1>10. QED
    BY <1>1, <1>2, <1>3, <1>4, <1>5, <1>6, <1>7, <1>8, <1>9 DEF CNext, Startup, Shutdown, WatchLoop

\* The logger never has a level that it cannot parse, and snapshots are always
\* configurations that Validate accepts (store.go, reload.go:37-44).
THEOREM ConfigTypeCorrect == CSpec => []CTypeOK
  <1>1. StoreInv => CTypeOK
    BY DEF StoreInv
  <1>2. QED
    BY <1>1, StoreInit, StoreStep, PTL DEF CSpec

\* Once Close has returned, no reload publishes a snapshot and no hook applies
\* one, wherever the loop was when Close began (watch.go:117-131).
THEOREM CloseIsFinal == CSpec => CloseQuiesces
  <1>1. StoreInv /\ [CNext]_cVars =>
            [main = "done" => UNCHANGED <<current, previous, level>>]_cVars
    <2> SUFFICES ASSUME StoreInv, CNext, main = "done"
                 PROVE  UNCHANGED <<current, previous, level>>
      OBVIOUS
    <2>1. loop = "gone"
      BY DEF StoreInv
    <2>2. QED
      BY <2>1 DEF CNext, Startup, Shutdown, WatchLoop, MainLoad, MainBoot, MainWire,
          MainWatchLoad, MainAdd, MainClose, MainCloseWatcher, MainWait, LoopTake, LoopLoad,
          LoopHook, LoopApply, LoopExit, Edit
  <1>2. QED
    BY <1>1, StoreInit, StoreStep, PTL DEF CSpec, CloseQuiesces
=============================================================================
