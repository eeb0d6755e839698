---------------------------- MODULE ConfigStore ----------------------------
(***************************************************************************)
(* Configuration snapshots and their hot reload: config.Store              *)
(* (internal/config/store.go, watch.go), wired to the logger by            *)
(* cmd/dockerdless/reload.go.  Three actors: the daemon's main goroutine   *)
(* (start up, then close), the watch loop, and whoever edits the file.     *)
(*                                                                         *)
(* A configuration is its log level, the only setting a running daemon     *)
(* applies, and the rest.  A file whose content Load rejects (unreadable,  *)
(* undecodable, failing Validate) is Bad; an empty file decodes to the     *)
(* defaults like any other valid content.                                  *)
(***************************************************************************)
EXTENDS Naturals

CONSTANTS
    Level,         \* log levels Validate accepts
    Unparsable,    \* those of them zapcore.ParseLevel rejects (padded names)
    Rest,          \* values of all restart-only settings together
    Bad,           \* content that Load rejects
    EarlyEdits,    \* may the file change before the watcher is installed?
    MaxEdits       \* edits of the file (bound)

ASSUME ConfigAssumption ==
    /\ Unparsable \subseteq Level
    /\ EarlyEdits \in BOOLEAN
    /\ MaxEdits \in Nat

VARIABLES
    file,          \* the file's content
    current,       \* Store.current: the published snapshot
    previous,      \* the snapshot wireConfigReload's hook saw last
    level,         \* the logger's level
    closed,        \* Store.closed
    events,        \* fsnotify events of the config file not yet taken
    main,          \* main's position: load, boot, wire, watch, add, run, close, wait, done, exit
    loop,          \* the watch loop's: none, idle, load, hook, apply, gone
    edits

cVars == <<file, current, previous, level, closed, events, main, loop, edits>>

Config == [lvl : Level, rest : Rest]

CTypeOK ==
    /\ file \in Config \cup {Bad}
    /\ current \in Config
    /\ previous \in Config
    /\ level \in Level \ Unparsable
    /\ closed \in BOOLEAN
    /\ events \in 0..MaxEdits
    /\ main \in {"load", "boot", "wire", "watch", "add", "run", "close", "wait", "done", "exit"}
    /\ loop \in {"none", "idle", "load", "hook", "apply", "gone"}
    /\ edits \in 0..MaxEdits

\* NewStore publishes the defaults, whatever they are.
CInit ==
    /\ file \in Config \cup {Bad}
    /\ current \in Config /\ current.lvl \notin Unparsable
    /\ previous = current
    /\ level = current.lvl
    /\ closed = FALSE
    /\ events = 0
    /\ main = "load" /\ loop = "none"
    /\ edits = 0

-----------------------------------------------------------------------------

\* Load, under mu: a closed store and bad content leave the snapshot alone.
Load == current' = IF closed \/ file = Bad THEN current ELSE file

\* loadConfigStore: the daemon does not start on a bad file.
MainLoad ==
    /\ main = "load"
    /\ Load
    /\ main' = IF file = Bad THEN "exit" ELSE "boot"
    /\ UNCHANGED <<file, previous, level, closed, events, loop, edits>>

\* Bootstrap builds the logger with the level of the snapshot taken here.
MainBoot ==
    /\ main = "boot"
    /\ IF current.lvl \in Unparsable
       THEN main' = "exit" /\ UNCHANGED level
       ELSE main' = "wire" /\ level' = current.lvl
    /\ UNCHANGED <<file, current, previous, closed, events, loop, edits>>

\* wireConfigReload remembers the snapshot and registers the hook.
MainWire ==
    /\ main = "wire"
    /\ previous' = current
    /\ main' = "watch"
    /\ UNCHANGED <<file, current, level, closed, events, loop, edits>>

\* WatchConfig loads the file a second time; no hook runs after this load.
MainWatchLoad ==
    /\ main = "watch"
    /\ Load
    /\ main' = IF file = Bad THEN "exit" ELSE "add"
    /\ UNCHANGED <<file, previous, level, closed, events, loop, edits>>

\* ... and installs the watcher; edits are seen from here on.
MainAdd ==
    /\ main = "add"
    /\ main' = "run" /\ loop' = "idle"
    /\ UNCHANGED <<file, current, previous, level, closed, events, edits>>

\* Close, in three steps: mark the store closed, close the watcher (events that
\* were not taken are lost), wait for the loop.
MainClose ==
    /\ main = "run"
    /\ closed' = TRUE
    /\ main' = "close"
    /\ UNCHANGED <<file, current, previous, level, events, loop, edits>>

\* Mutant: Close does not wait for the loop.
MainCloseWatcherNoWait ==
    /\ main = "close"
    /\ events' = 0
    /\ main' = "done"
    /\ UNCHANGED <<file, current, previous, level, closed, loop, edits>>

MainCloseWatcher ==
    /\ main = "close"
    /\ events' = 0
    /\ main' = "wait"
    /\ UNCHANGED <<file, current, previous, level, closed, loop, edits>>

MainWait ==
    /\ main = "wait" /\ loop = "gone"
    /\ main' = "done"
    /\ UNCHANGED <<file, current, previous, level, closed, events, loop, edits>>

Startup == MainLoad \/ MainBoot \/ MainWire \/ MainWatchLoad \/ MainAdd
Shutdown == MainCloseWatcher \/ MainWait

-----------------------------------------------------------------------------

\* The loop takes an event that isConfigEvent accepts.
LoopTake ==
    /\ loop = "idle" /\ events > 0
    /\ events' = events - 1
    /\ loop' = "load"
    /\ UNCHANGED <<file, current, previous, level, closed, main, edits>>

\* handleConfigChange: reload; an error goes to the error handler only.
LoopLoad ==
    /\ loop = "load"
    /\ Load
    /\ loop' = "hook"
    /\ UNCHANGED <<file, previous, level, closed, events, main, edits>>

\* The hook is fetched under mu, unless the store is closed by now.
LoopHook ==
    /\ loop = "hook"
    /\ loop' = IF closed THEN "idle" ELSE "apply"
    /\ UNCHANGED <<file, current, previous, level, closed, events, main, edits>>

\* Mutant: the hook compares with the snapshot of start-up for ever.
LoopApplyForgetting ==
    /\ loop = "apply"
    /\ level' = IF current.lvl # previous.lvl /\ current.lvl \notin Unparsable
                THEN current.lvl ELSE level
    /\ loop' = "idle"
    /\ UNCHANGED <<file, current, previous, closed, events, main, edits>>

\* The hook: nothing to do for an equal snapshot; a new level is applied if it
\* parses; restart-only changes are only logged.
LoopApply ==
    /\ loop = "apply"
    /\ level' = IF current.lvl # previous.lvl /\ current.lvl \notin Unparsable
                THEN current.lvl ELSE level
    /\ previous' = current
    /\ loop' = "idle"
    /\ UNCHANGED <<file, current, closed, events, main, edits>>

\* Mutant: an idle loop that has nothing left to read stays.
LoopExitNever ==
    /\ FALSE
    /\ UNCHANGED cVars

\* The watcher's channels are closed.
LoopExit ==
    /\ loop = "idle" /\ main \in {"wait", "done"}
    /\ loop' = "gone"
    /\ UNCHANGED <<file, current, previous, level, closed, events, main, edits>>

WatchLoop == LoopTake \/ LoopLoad \/ LoopHook \/ LoopApply \/ LoopExit

-----------------------------------------------------------------------------

\* Someone writes or replaces the file; truncate-and-write is two edits.
Edit(c) ==
    /\ edits < MaxEdits
    /\ EarlyEdits \/ loop # "none"
    /\ c # file
    /\ file' = c
    /\ events' = IF main = "run" \/ main = "close" THEN events + 1 ELSE events
    /\ edits' = edits + 1
    /\ UNCHANGED <<current, previous, level, closed, main, loop>>

CNext ==
    \/ Startup \/ MainClose \/ Shutdown \/ WatchLoop
    \/ \E c \in Config \cup {Bad} : Edit(c)

\* Both goroutines are scheduled; nobody has to edit the file or to stop the
\* daemon.
CSpec ==
    /\ CInit /\ [][CNext]_cVars
    /\ WF_cVars(Startup) /\ WF_cVars(Shutdown) /\ WF_cVars(WatchLoop)

-----------------------------------------------------------------------------
(* Properties.                                                             *)

\* The last valid edit wins: while the daemon runs and the file has settled on a
\* configuration, its log level ends up applied, whatever bad or overtaken
\* edits came before (reload.go:37-44, watch.go:82-97).
EditsTakeEffect ==
    \A c \in Config : c.lvl \notin Unparsable =>
        (<>[](file = c /\ main = "run") => <>[](level = c.lvl))

\* Once Close has returned nothing is published or applied any more, although
\* the loop may have been anywhere when Close began (watch.go:117-131).
CloseQuiesces == [][main = "done" => UNCHANGED <<current, previous, level>>]_cVars

\* Close returns: the loop it waits for never waits for it (watch.go:128).
CloseReturns == (main = "close") ~> (main = "done")
=============================================================================
