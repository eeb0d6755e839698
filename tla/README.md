# A TLA+ model of dockerdless

dockerdless is a daemon that serves the Docker API on a Unix socket and maps it
to containerd (containers, tasks, execs), BuildKit (builds, images) and CNI
(networks, host ports). Its own state is small: a registry of containers, a table
of reserved host ports, a table of network attachments, a table of exec records,
open log files and a configuration snapshot. What makes it hard is that this state
is a copy of state that lives elsewhere and that no lock spans a request. Every
API request runs in its own goroutine, holds mutexes for single table
operations only, and makes a series of calls to containerd, CNI or the file system
between which other requests, process exits, context expiry or a crash can come.

This directory models those series call by call, checks them with TLC on small
instances and proves all of its safety properties with TLAPS for all instances.

## 1. Inventory

| component | state | operations | interacts with | what is hard | what makes it correct |
|---|---|---|---|---|---|
| container registry (`domain/registry.go`) | `byID`, `byName` | Save, Rename, Remove | every use case | callers save stale copies | indexes agree, names unique |
| host port allocator (`cni/portmap.go`) | `used` | Allocate, AllocateBindings, Release, AdoptBindings | create, network join, removal | one lock per binding; wildcard addresses; rollback | no overlap, nothing leaks, nobody's port is given away |
| container use cases (`app/containers.go`, `app/service.go`) | log sinks, registry copies | create, start, stop, remove, inspect | registry, allocator, containerd adapter, CNI adapter | overlapping requests, expiry, failing calls and undos, lost replies, fast exits | nothing in containerd is unknown to the registry; ports and attachments have owners |
| containerd adapter (`adapters/containerd/`) | stdin pipes, exec records | create, start, stop, remove, status, exec | containerd | each is several RPCs | steps can be repeated or undone |
| startup reconciliation (`cmd/dockerdless/reconciliation.go`, `domain/reconcile.go`) | the registry | read, merge, save | containerd, registry | a crash anywhere, unsupported statuses, failing reads | restores what containerd holds; the daemon always serves |
| configuration store (`config/`, `cmd/dockerdless/reload.go`) | snapshot, previous, log level | Load, WatchConfig, Close | file, fsnotify, logger | edits faster than reloads, Close during a reload | the last valid edit takes effect; Close returns and leaves nothing running |
| build and pull streams (`api/handlers_images.go`, `adapters/buildkit/`) | response, status channel, temporary context | build, pull | BuildKit, client | three goroutines, bounded channel, client that leaves | the stream tells the truth; the request ends; the context is removed |
| container logs (`app/logs.go`, `streams/logs.go`) | log file, offset | copy, read, follow | container, rotator, client | torn writes, rotation, exit between polls | lines once, in order, whole; the last ones arrive; a follow ends |
| exec sessions (`app/exec.go`, `containerd/exec.go`, `api/errors.go`) | pending execs, records, limiter | create, start, cancel | containerd, client | exit, cancellation and container stop race | real exit codes, no residue, slots returned |
| networks (`cni/adapter.go`, `cni/networkconfig.go`) | configuration files, attachments | create, ensure, remove, connect, disconnect | CNI, file system | check-then-act on a directory; crash | creation is exclusive; networks in use stay |
| image store and removal (`app/images.go`, `buildkit/adapter.go`, `buildkit/client.go`) | none of its own: containerd's tags | get, pull, remove by tag or ID | registry, containerd | tags move; checked, resolved and deleted in separate steps | an image in use stays; the pinned digest is the image's |
| API server and socket (`api/server.go`) | socket file, listener | listen, serve, shutdown | other daemons at the path | no lock between processes; files judged by name; kills leave sockets behind | the serving daemon is the one at the path, with a safe mode; a restart gets past a leftover |
| routing, encoding, framing, spec translation, authentication, observability, error mapping | none | pure functions of one request | | | |

The parts without a module and the reasons are at the end; `PROJECT.json` has
the complete list, and the hazards with the line where each of them bites.

## 2. Modules

| module | models |
|---|---|
| `NameSpace` | abstract: a name is granted only while nobody holds it |
| `Registry` | the registry; implements `NameSpace` |
| `PortTable` | the allocator's table as operators and predicates, shared by the next two |
| `PortAllocator` | callers of the allocator, one lock section per step |
| `ContainerService` | the use cases on one registry, port table, attachment table, log sinks, containerd metadata and tasks; instantiates `Registry` and `PortTable` |
| `Restart` | boot, reconciliation, serving and crashing; requests reduced to what changes containerd's names; instantiates `Registry` |
| `ConfigStore` | the configuration store, its watch loop and the daemon's main goroutine |
| `BuildStream` | one build or pull: request goroutine, translator, solver, client |
| `LogFollow` | copier, log file, reader, watcher, client |
| `ExecSessions` | sessions, limiter, exec records, processes and the container's task |
| `Networks` | network requests on the configuration directory, the CNI cache and the attachment table |
| `Images` | creation of containers from images against pulls and image removals; extends `Registry` |
| `SocketServer` | daemons that start, serve, stop and are killed at one socket path |
| `ContainerServiceProofs`, `RestartProofs`, `BuildStreamProofs`, `ExecSessionsProofs`, `LogFollowProofs` | theorems and proofs about the module of that name |
| `CNIProofs` | theorems and proofs about the CNI adapter: `PortAllocator` and `Networks` |
| `ImagesProofs` | theorems and proofs about `Registry` and about `Images`, which extends it |
| `DaemonProofs` | theorems and proofs about the daemon process: `SocketServer` and `ConfigStore` |
| `MC*` | model values; every configuration is named after its module or, for `MCContainerService`, after its question |

How code becomes actions. A request is a place (`pc`, `at`, `main`, `rd`) in
the series of calls its handler makes. An action is the code between one access
to shared state and the next: a lock section, an RPC or a file system call with
the local code that follows it. In `ContainerService`, `Restart`, `BuildStream` and `ExecSessions` a
call to containerd, BuildKit, CNI or the file system can fail at any time and for any reason: its
failure is a disjunct without a guard, with the code's error path, and that holds for undos and
deletions whose error the code discards as well; a call on a context that is done only fails. In `Networks`,
`Images` and `SocketServer` the writes, look-ups and probes whose failure the code turns into more than an error answer
fail likewise; system calls on the socket path fail for a missing file or a foreign owner, and any
other error of theirs ends the start as a kill or a `ServeFails` at that place does. Mutexes
do not appear, since each of them is held within one action, except the
watcher's and the log sinks', whose effects are in the actions' atomicity.
Definitions keep the names of the functions they model.

* **Registry**: `byID`, `byName` are the two maps. Callers may save any record
  at any time, which covers every stale copy.
* **PortAllocator**: a call of AllocateBindings takes its bindings one at a time
  and releases all of them when one fails. A dynamic binding may get any port that
  the probe could return.
* **ContainerService**: `c_*`, `s_*`, `p_*`, `r_*` and `i_*` places are create,
  start, stop, remove and inspect. `rq[t].c` is the copy of the registry record
  that the request works on, `rq[t].done` says that its context is done. Process exits
  (`TaskExit`) come at any time. Switches: `Overlapping` (several requests
  on one container), `FastExit` (a process may exit during its start), `Timeouts`
  (contexts expire). Most failures are answered by the caller, with a rollback or by leaving
  everything as it was. Those that nobody makes up for are remembered: `failed[id]` has the calls
  (`Call`) that failed for a container with an error that is discarded, logged, or
  returned with half of the work done, and `loose` the host-port keys of containers to which that
  happened in a way that concerns their reservations. They are history: no guard reads them. Every
  property names the calls whose failure it does not survive, and holds through the failure of all
  the others.
* **Restart**: `seen` is the snapshot under construction. `Crash` drops the registry
  and all requests; `meta` and `task` stay. The calls of a create and of a removal may fail, its
  undo too.
* **ConfigStore**: a file is `Bad` or a pair of log level and other settings.
  Events queue up; the loop loads the file as it is then.
* **BuildStream**: messages are progress, error or success; the channel has
  `ChanCap` places (32 in the code, 1 in the run, so that it fills up). `dir` says whether the
  temporary context was made, and whether a removal of it was tried and failed ("kept").
* **LogFollow**: files are sequences of bytes, so that torn lines, offsets and tails
  are real; a line of odd number has one byte, of even number two.
* **ExecSessions**: a session is one request to start an exec; `run` counts the
  processes started under one exec ID, so that an exit code can be traced to the
  process that had it. A deletion may fail: a process that was not started is then "kept".
* **Networks**: a file is absent, partial (created, not yet written) or
  complete. `gen` is the inode: a write to a file that was unlinked is lost.
* **Images**: a tag is a number, in the order in which names are sorted, and has a
  digest or none; `HexRef` are the tags whose name could be an abbreviated ID. A
  request keeps what it resolved; `calm` says that nothing it has seen was
  changed since. The other use cases appear as changes of a container's state.
* **SocketServer**: a file is a kind, an inode, a class of modes and an owner.
  Every system call is a step. A probe may fail whoever listens: by its timeout of 200 ms, a full
  backlog or a stop signal. `calm` remembers that no start or stop overlapped
  another daemon's and that no probe missed a listener, `alone` that the last start met nobody.

## 3. Runs

TLC finishes every run within two and a half minutes with two workers, most in seconds.

| run | question | instance |
|---|---|---|
| `images` | on one registry: do the indexes agree, is `NameSpace` implemented, is the pinned digest the image's, does an image in use stay? | 2 containers racing for a name, created by tag or ID, 2 tags (one looks like an ID) of 2 images, 2 requests |
| `port_allocator` | do concurrent allocations overlap, leak or steal? | 2 callers with up to 2 fixed, dynamic or wildcard bindings |
| `service_ports` | which failures make reservations overlap, get lost or leak, or attachments collide? | 2 containers on a bridge network, 2 requests, one per container, overlapping ports, any call failing |
| `service_expire` | which failures leave a container or an attachment that the registry does not know, a running container without a log file, or a registry that disagrees with containerd? | 2 containers on a bridge or the host network, 1 request, expiry between any two calls, any call failing, exits during a start |
| `port_leak` | a violation, see section 6 | 1 container, 1 request, `FastExit` |
| `restart` | are names stored twice, does a successful reconciliation restore everything, does the daemon serve again? | 2 containers, 2 crashes, all statuses, failing reads and undos |
| `config_reload` | does the last valid edit take effect, does Close return and leave nothing running? | edits valid and invalid at every point after the watcher is installed |
| `build_stream` | what does the client see, is everything removed, does the request end? | 2 steps, channel of 1, 3 batches, every failure |
| `log_follow` | are lines delivered once, in order, whole, the tail exact, the last ones flushed; does a follow end? | two starts, one rotation, three requests (follow, tail, window) |
| `exec_sessions` | slots, exit codes, residue, termination | 2 attached sessions and a detached one on one exec ID, 2 slots, a container restart, failing deletions |
| `networks` | exclusive creation, fresh subnets, networks in use stay | 2 networks, 2 subnets, 1 container, 3 requests in flight out of 6, 1 crash |
| `socket` | is the serving daemon the one at the path, with a safe socket, are foreign files left alone, does a restart serve? | 2 daemons of one user, 1 of another, 3 starts, 2 kills, stop signals, probes that miss a listener, every leftover |

Bounds. The tables are keyed and their operations touch one or two keys, so
two containers, a name they compete for and two overlapping port keys show every
collision; the registry alone, with any number of containers and with renames, which no
use case makes, is proved. Two requests at a time
show every pairwise interleaving; `networks` has three because a creation, a removal
and an attachment meet there, and six in all because a creation can fail after its file has been
removed and made again (section 6). Two crashes let a restart meet what an earlier restart
left behind. Three starts let a daemon meet one that serves or stops and what a killed
one left. In `service_ports` and `service_expire` one call fails without anybody making up
for it (`OneFailure`); failures that the caller answers are not bounded. Each exception of
a property is about one container and one such failure, so one is enough to reach what
follows from it, another container's loss of its port included; that more of them do no other harm is part of the
theorems, which have no such bound. The race of two creates for a name is in `service_ports` and in
`images`; that its loser leaves nothing behind (`NoOrphans`) is checked by TLC for a save that
fails by expiry and proved for the race. `inspect`, which moves no reservation, is left to `service_expire`.
Two tags let an image have two, and a pull take one from another. A channel of one place is full after one send. Two starts of a container
give a second log file; two lines let a tail be shorter than the log. In these
instances all actions and all their outcomes occur.

Deadlock checking is off where the system may stop: when the bounded requests,
edits, lines or starts are used up and nothing is in flight.

Fairness. Only goroutines of the daemon are assumed to be scheduled: the
startup sequence (`EventuallyServes`), the main goroutine and the watch loop
(`EditsTakeEffect`, `CloseReturns`), request goroutine and translator
(`BuildReturns`), reader, watcher and copier (`FollowEnds`), sessions
(`SessionsEnd`), the steps of a daemon that has been started or told to stop
(`RestartServes`; it need never be signalled, fail or be killed). Of the outside, BuildKit is assumed to make progress on a
solve it has accepted, and in `ExecSessions` every exec process to end (a hijacked
request does not notice that its client has left, so without this a session can last
for ever);
clients, editors and log rotators may do nothing for ever. This is weak fairness
throughout, as the Go scheduler and `select` give it. A slot of the limiter needs no
more: a request waits for one only while earlier sessions hold them, and those end.

Every property has at least one mutant of the code that breaks it
(`... Mutant:` in the modules, `PROJECT.json` for the list). Type invariants are
stated in every module; they are there for the proofs, where they are proved along with the
rest, and for whoever edits a module.

## 4. Proofs

All for arbitrary sets of containers, names, keys, requests and bounds. Every invariant and every action
property that a passing run checks is a theorem. Hypotheses beyond
the modules' `ASSUME`s are in the theorems' statements and are named here, with what goes wrong
without them.

* **Registry** (in `ImagesProofs`): `RegistryTypeCorrect`, `RegistryIndexConsistent`
  (`byName` holds n -> i exactly when container i is registered under n), from it
  `RegistryNameUniqueness`, and `RegistryImplementsNameSpace`: every save, rename
  and removal is a step of the abstract name space or a stutter. Uniqueness
  is not inductive: Save looks at one index entry, which tells about all containers
  only as long as the indexes agree. Index consistency is the strengthening.
* **Images** (in `ImagesProofs`): `ImagesUseRegistry` (every step of `ISpec` is an operation
  of the registry or none, so `ISpec` has all its properties), `ImagesDigestPinned` and the
  action property `ImagesSpared`. `RequestInv` says what a request may rely on by its place: a
  create that nobody disturbed finds its digest under the tag it chose, or nothing; a
  container that is made and not registered is its request's alone; after a check that
  nobody disturbed, the containers of the image do not run and the removal is forced.
  `QuietKeeps` says once that other requests' steps leave this true. `ImagesSpared` assumes
  `HexID = NoImage`: a tag whose name also abbreviates the ID of another image is checked as a
  tag and removed as an ID (section 6).
* **Port allocator** (in `CNIProofs`): `ReservationsNeverOverlap`, `AllocationsAccounted`
  (the table is the union of what callers hold and what calls in progress have taken)
  and `ClaimsExclusive`. A rollback releases keys by value; that it releases its own
  and nobody else's needs exclusiveness, which needs accounting, so the three are
  proved from one inductive invariant.
* **`ContainerServiceProofs`**, from the weakest hypothesis to the strongest.
  * *No hypothesis*: any overlap, expiry, exit and failure. `ServiceReservationsDisjoint` (use cases
    add to the table only through `ReserveAll` and `Adoptable`), `ServiceTypeOK`, and
    `ServiceUsesRegistry`: every step is a `Save`, a `Remove` or nothing to the registry, so the
    use cases refine `RegSpec` and its theorems hold below them. `ServiceImplementsNameSpace` and
    `ServiceNamesUnique` state what clients see of that: a name is granted only while nobody
    has it. They need `HasID`, that a request is at a place
    where it uses a container's ID only when it has one.
    `ServiceNoOrphans` too. `NoOrphans`
    speaks of containers no request works on, so it says nothing about the requests that
    still have to clean up; `OwnerInv` does: a task implies metadata; an ID that was not
    handed out is unknown everywhere; a container in creation belongs to one create and has
    no task; metadata without a registry entry has an owner that will still save or delete
    it, or is one of the two exceptions (a NewContainer whose reply was lost, an undo that
    failed), which no request can reach; a removal past the deletion of the metadata works on an ID without
    metadata, which no start can give a task again; the task that a start is about to run
    is there, created, and no other start is about to run it.
  * *`~Overlapping`* (`Solo`: at most one request per container): `ServiceAttachmentsOwned`,
    `ServiceRegistryMirrors` and `ServiceLogsWhileRunning`, with expiry, fast exits and all
    failures. `AttachInv` adds that the container of a start is registered, and that a removal past
    its disconnect has no attachment left unless the disconnect failed. The other two
    speak of containers at rest; `InStep` relates the container of every request in progress to
    the place the request is at (task, record, sink), or to the failed call by which they went apart, and
    carries the index of names. With `Overlapping`, see section 6.
  * *`~Overlapping`, `~FastExit`*: `ServiceReservationsKept`, `ServiceNoPortLeak` and
    `ServicePublishedExclusive`. `HoldInv` divides the table, without the loose keys, among its owners, registered
    containers that hold their ports and creates: owners' keys are disjoint and cover the table.
    A release is by value, so each is right only if it gives back exactly one
    owner's keys; `JoinInv` says at which places of a start and a removal a container still
    holds its ports and that an attachment publishes those of its record. A container
    for which a call failed that concerns its reservations may release what it no longer
    holds; then all of its keys are loose, so it can do so to no key that is not. With `FastExit` the
    first two are false (`port_leak` and section 6).
* **`DaemonProofs`**. *Socket*: `SocketSafe`, `ServerFound` and the action property
  `LeftoversRespected`. `FileInv` is about inodes: a daemon's is its own, and if it is at the path
  it has the daemon's user and, from its chmod on, mode 0660, since every other chmod sets the
  same mode. `CalmInv` adds, as long as starts and stops did not overlap and no probe missed a
  listener, that at most one daemon is busy and that what it does is not to the file of one that serves. *Configuration*: `ConfigTypeCorrect` and
  the action property `CloseIsFinal`: Close has returned only if the loop has ended.
* **`RestartProofs`**: `RestoreComplete` and `StoredNames`. `CompleteRestore` looks at the end of a
  reconciliation; `BootInv` follows the loops that read, merge and save, and needs that only
  tasks change while the daemon starts. `StoredNames` assumes `[]CreatesAlone`: no two
  creates are between the look-up of a name and NewContainer at once; otherwise a name can
  be stored twice (section 6).
* **Networks** (in `CNIProofs`): `AttachmentsKeepNetworks`, `FreshSubnets` and the action property
  `CreationExclusive`. An attachment that did not race is complete and nobody is in a position
  to remove its file (`AttachSafe`); what an allocation saw of a generation of a file is still
  so when it writes, because a generation is written once (`SubnetInv`).
* **`ExecSessionsProofs`**: `SlotsAccounted` (the slots in use are the cardinality of the set of
  sessions at a place that holds one), `CodesReal`, `NothingLeftRegistered` (a process that is registered
  and not started has a session that will start it or try to delete it). `CodeInv` follows an exit code
  from the process through its session to both tables; run numbers are never reused.
* **`LogFollowProofs`**: `LinesDeliveredInOrder`, `FollowDeliversWholeLines`, `TailDelivered` and
  `StopFlushesLog`, for any number of lines, starts and rotations and every request. None is
  inductive, since a property of what was delivered says nothing about what the next read finds. The
  invariant `LInv` has four parts. *What files look like* (`FilesOrdered`): whole lines in the order
  of their numbers and at most the beginning of one more, which only the sink's file can have; files made later
  hold later lines; what is in the pipe is later still. *Where the reader is* (`Handles`,
  `Places`, `Unrotated`): its file is never newer than the one at the path, and without a rotation
  its offset is inside. *What it may still read is new* (`Fresh`): every byte that a read could
  decode, behind the offset, in a file that became shorter than the offset or in a newer file, belongs
  to a line later than all that was delivered or skipped. This is what `track` has to preserve
  when it starts over. *What is owed* (`TailOwed`, `DueOwed`): a line of the tail, or one
  that was complete when the watcher fired, is delivered or lies behind the offset with its beginning, so that
  the next read decodes it. The lemmas below it are about positions: that the newlines of a file can be
  numbered from the end (`RankOnto`), that counting newlines counts complete lines (`LinesCounted`),
  that `FindTailStart` therefore separates the last n lines from the rest (`TailStart`), and what one read
  delivers (`DeliverFacts`, `DeliverInOrder`, `OffsetLeft`). `Deliver` takes the positions in the
  order of the file (`InFileOrder`); `FileOrderExists` shows that there is such an order, so that it never
  blocks the reader.
* **`BuildStreamProofs`**: `SuccessHolds`, `FailureTold`, `NothingLeft`. They are about the end of a
  request; `StreamInv` says what each actor may have done before.

Assumptions: `ASSUME`s of the modules, each of them evaluated by TLC in the
runs: sets of addresses contain the wildcards, bounds are natural numbers, sessions are finitely many,
a build has a step, there is a tag, marker values (`NoName`, `Absent`, `NoID`, `NoFile`, `NoImage`) are
outside the sets they mark.

Two corrections of the models came from proof attempts. `AttachedNetworksStay` was not inductive, and
false beyond five requests: a creation whose file is removed under it and whose
write then fails removes by name the file that a later creation has made; such an
attachment counts as raced now. And the image look-up of a create could fail only for
a missing image, where in the code it can fail for other reasons as well.

Only model-checked: the liveness properties (`EventuallyServes`, `EditsTakeEffect`,
`CloseReturns`, `BuildReturns`, `FollowEnds`, `SessionsEnd`, `RestartServes`). They need fairness
and `ENABLED`, which are beyond the prover.

## 5. What the checks show

The registry, the allocator, reconciliation, the configuration store and exclusive
creation of networks hold under all interleavings considered. For the use cases
the picture is divided. Reservations are disjoint and names unique under all interleavings and failures.
Nothing is orphaned in containerd under all interleavings, and attachments, log files, reservations and the
registry's picture are kept with one request per container at a time (reservations also need processes that
outlive their start), which is what the daemon's clients usually, but not necessarily, do. All of this holds
through expiry and through every failure that the code answers. It does not hold
after the ones it discards, logs, or returns with half of the work done. The
properties name them, which is the list of calls to look at in order to make them hold:

| what is lost | by the failure of |
|---|---|
| a containerd container no client can name (`NoOrphans`) | NewContainer with its reply lost; the undo of a create (`containers.go:102`) |
| an attachment no removal can tear down (`AttachmentsOwned`) | Disconnect before CNI DEL (`cni/adapter.go:540-555`) |
| the log of a running container (`LogsWhileRunning`) | Status at the beginning of a start (`containers.go:277`); task.Start; the Stop that undoes a start (`:312`) |
| an entry that can be removed (`RegistryMirrors`) | removeSnapshot or registry.Remove after the metadata is gone (`containerd/adapter.go:419-423`, `containers.go:417`) |
| a record that says running (`RegistryMirrors`) | task.Start with its reply lost; the Stop that undoes a start; the save at its end |
| the reservations of a container (`ReservationsKept`, `NoPortLeak`, `PublishedExclusive`) | Disconnect; Remove and what follows it, after the releases of `containers.go:411-413`; task.Start, its undo, and saves |

Images and the socket are check-then-act without a lock: what they promise holds as
long as nothing changes between check and act (`calm`, `raced`) and no probe misses a listener, and
`ServedSocketSafe`, `LeftoversOwned` and the registry's own properties hold regardless.
The log reader delivers lines in order, once and whole through every append, truncation,
rotation and restart; that it also delivers the whole tail and the last lines needs that nobody
rotates the file meanwhile.

## 6. Known divergences

Places where the code does something other than what a comment, a document or a test says.
The first is a run of its own; the others were met with the same modules, by
the change of configuration or the sequence given.

* `port_leak`: a container that exits during its start, fails its next start and
  is removed leaves its port reserved (`app/containers.go:308`). design/0001:322-327:
  "`Disconnect` always calls `PortAllocator.Release`, even when the CNI DEL itself
  fails, so no allocation leaks."
* `ReservationsKept` with `FastExit = TRUE`: a second start that exits at once releases
  the ports that the first attachment still publishes. design/0001:60-61: "A host-port
  reservation is released exactly once, even when CNI teardown fails."
* `LogsWhileRunning` with `Overlapping = TRUE`: of two overlapping starts the one that
  fails closes the log sink of the other (`app/containers.go:290`).
* `LogsWhileRunning` without its exceptions: a start that cannot read the status of a container
  counts it as not running (`app/containers.go:277-280`), fails on its task and closes the log
  of the container that runs (`:290`); a failed Stop (`:312`) leaves a task running with its log closed.
* `NoPortLeak` and `AttachmentsOwned` without their exceptions: a Disconnect that cannot resolve the network or load its file
  (`cni/adapter.go:540-555`) leaves the attachment and its ports, the removal only logs it
  (`app/containers.go:406-410`) and unregisters the container. `cni/adapter.go:537-538`: "always
  releases its port reservations, even when the CNI DEL itself fails, so no allocation leaks".
* `ReservationsKept` and `PublishedExclusive` without `loose`: a removal that fails in containerd after
  `app/containers.go:411-413` leaves a registered container without its reservation; a second removal
  releases the ports by value once more, by then perhaps another container's.
* `NoOrphans` without its exceptions: the error of the undo of a create (`app/containers.go:102`) is
  discarded; a NewContainer whose reply is lost is not undone. Either leaves a container with the name the
  client asked for, which rejects that name until the daemon restarts and reconciles.
* `RegistryMirrors` without its exceptions: a removal that fails after the metadata is
  deleted, in removeSnapshot or because its context is done, leaves an entry that cannot be removed, because
  Status fails before the part that ignores what is missing (`app/containers.go:394`), although
  `containerd/adapter.go:387-389` says that repeated removals stay idempotent.
* The same, for another reason: a start whose context is done when it
  saves, or whose undo fails, leaves a running container "created", which stop does not stop
  (`app/containers.go:365`). design/0001:48-49: "Containerd is the authority for
  runtime state; the registry mirrors it".
* A task that could neither be started nor deleted (`containerd/adapter.go:239-242`) stays created:
  every later start is a conflict, and every removal fails in `task.Delete`, after it has released the ports.
* `StoredNamesUnique` with two creators: a crash can cut two creates of one name short;
  the next reconciliation fails half way and serves a partly filled registry, although
  `main.go:110` says "starting with an empty registry".
* `EditsTakeEffect` with `EarlyEdits = TRUE`, for an edit between the two loads of start-up: it is published
  without the hook, so the logger keeps the old level (`config/watch.go:22`).
  README.md:101-102: "A valid `log-level` change is applied without restart."
* Builds: a failure that `failBuild` or `solveFailed` has reported is reported once
  more by `finishStream` (cf. `progress.go:265-267`, "Callers use it to avoid emitting
  a duplicate error for one failure"); a `Solve` that cannot open the context
  directory returns without closing the channel and the build hangs
  (`client.go:467-471`; excluded from `BuildReturns`); a temporary context that cannot be removed
  is only logged (`build.go:234-236`) and stays.
* Logs: a follow of a container that has not been started ends after one tick; a
  follow whose file appears in the poll in which the container exits delivers
  nothing; a refresh that closes the sink while the copier drains loses the last lines.
* Execs: nothing prevents a second start of one exec; a detached exec stays
  "running" for ever; a failed resize leaves a running process without a record; a process that could not be started and whose
  deletion failed (`containerd/exec.go:147`, `161`, `165` discard the error) blocks its exec ID; a
  hijacked session whose process never ends keeps its slot.
* Networks: overlapping creations can get one subnet (`SubnetsFresh` speaks of those
  that do not overlap); an attachment made in the middle of a removal loses its network
  (`raced`), and so does one made while an earlier creation of that name, whose file has been removed
  under it, fails to write (`networkconfig.go:115-122` removes by name); a crash between creation and writing of a file fails every later
  resolve; after a restart nothing disconnects cached attachments, so their networks
  can never be removed.
* Images: a pull that moves a tag between the inspection of an image and containerd's
  look-up of it makes the recorded digest one the container does not run
  (`app/containers.go:30-31`: "it resolves and pins the image digest"); a container
  created between the in-use check and the deletion loses its image
  (`app/images.go:53-55`); a tag whose name is 12 to 64 hexadecimal digits is inspected as a
  tag but removed as an ID; a removal by ID answers "Deleted" while other tags remain.
* Socket: `ServedAtPath` without its condition `calm`: any error of the probe, by its timeout of 200 ms
  (`server.go:268-276`), a full backlog or a stop signal that cancels the dial, makes a live socket
  count as stale, and it is unlinked.
  docs/security.md:45-46: "A live socket is refused untouched; the daemon never unlinks a
  socket another process is serving." When starts and stops overlap, the
  second removal of a shutdown, or the unlink after a stale probe, takes the socket
  of a daemon that has bound it since.
* After a restart the allocator is empty while running containers still publish their
  ports (`reconciliation.go:97` restores no bindings).
* Exec stdin (read, not modelled): `completeJSONPrefix` (`api/handlers_exec.go:235-243`)
  is never true for a truncated message, for which `json.Unmarshal` reports a
  syntax error, so a resize message that is split over two reads is passed on as input,
  contrary to the comment at 233-234; `decodeResize` (214-231) counts white space that
  follows a message as if it came before it; framing follows the `Tty` of the start request,
  the process that of the create request.

## 7. Not modelled

* Tar extraction, OCI specifications, image configuration, credentials, version
  negotiation, JSON, stream framing: pure functions of one request.
* Image list, container list, network list and inspect, system information: reads.
* Logging, metrics, tracing; the integration harness.
* containerd, BuildKit, CNI plugins, fsnotify, the file system and Go's `net/http` are
  external: modelled by what the code relies on, with the failures it handles.
* The second pipe of a container: `LogFollow` has one copier, the code one writer each for stdout and stderr
  (`app/logs.go:46-50`), which take a line's time before they write it, so that lines of the
  two may be in the file in another order than their times. That concerns only `until`, which ends a
  read at the first later line.
* Memory effects within one lock section, and the order of list results.
* Numbers: ports, offsets and counters are small and never overflow in the code.
* `Adapter.Stop` is one step: its signals and waits are seen by others only as
  the exit of the process, which may come at any time by itself.

## 8. Plan

Done: the modules above, in the order registry, ports, use cases, restart,
configuration, builds, logs, execs, networks, images, socket; the proofs of
section 4.

Open:

* How much of `ServiceReservationsKept` holds with `FastExit`, for containers that are started once.
* The containers that `NoOrphans` excepts are those that the next
  reconciliation restores; the statement belongs to a composition of `ContainerService` and `Restart`.
* The port bindings of containers that survive a restart (section 6, last but one): a model of
  them needs the CNI cache in `Restart`.
