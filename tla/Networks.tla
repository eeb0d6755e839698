------------------------------ MODULE Networks ------------------------------
(***************************************************************************)
(* Docker networks as CNI configuration files: the network use cases       *)
(* (internal/app/networks.go) on the CNI adapter                           *)
(* (internal/adapters/cni/adapter.go, networkconfig.go).  Host ports are   *)
(* the subject of PortTable and ContainerService and are left out here.    *)
(*                                                                         *)
(* The configuration directory and libcni's cache of attachments survive   *)
(* the daemon, its table of attachments does not.  No lock spans a         *)
(* request: requests interleave between any two accesses to the            *)
(* directory, the cache or the table.  libcni, its plugins and the file    *)
(* system are external.                                                    *)
(***************************************************************************)
EXTENDS Naturals, FiniteSets, FiniteSetsExt

CONSTANTS
    Net,           \* network names
    Default,       \* the network every container create ensures
    Con,           \* containers
    Thread,        \* requests in flight
    NSubnets,      \* /24 subnets in the pool (256 in the code)
    MaxRequests,   \* requests begun (bound)
    MaxCrashes     \* crashes and restarts of the daemon (bound)

ASSUME NetworksAssumption ==
    /\ Default \in Net
    /\ NSubnets \in Nat /\ MaxRequests \in Nat /\ MaxCrashes \in Nat

VARIABLES
    file,          \* each network's conflist: absent, partial (created, not yet written), ok
    subnet,        \* the subnet in the file
    gen,           \* creations of the file so far (its inode), and ...
    saw,           \* ... the networks that were there when its subnet was chosen
    cache,         \* libcni's cached attachments <<container, network>>
    tracked,       \* Adapter.attachments
    raced,         \* history: attachments made while somebody was past the checks of a
                   \* removal of their network, or held a file of it that was unlinked
    th,            \* requests: place, network, container, ...
    requests,
    crashes

nVars == <<file, subnet, gen, saw, cache, tracked, raced, th, requests, crashes>>
fileVars == <<file, subnet, gen, saw>>
attVars == <<cache, tracked, raced>>
bounds == <<requests, crashes>>

Pair == Con \X Net
Subnet == 1..NSubnets

Place == {"idle", "ensure", "alloc", "open", "write", "remove", "inuse", "unlink",
          "connect", "load", "add", "track", "disconnect", "next", "forget"}

NTypeOK ==
    /\ file \in [Net -> {"absent", "partial", "ok"}]
    /\ subnet \in [Net -> Subnet \cup {0}]
    /\ gen \in [Net -> 0..MaxRequests]
    /\ saw \in [Net -> SUBSET (Net \X (0..MaxRequests))]
    /\ cache \subseteq Pair /\ tracked \subseteq Pair /\ raced \subseteq Pair
    /\ th \in [Thread -> [at : Place, n : Net, c : Con, subnet : Subnet \cup {0}, gen : 0..MaxRequests,
                          saw : SUBSET (Net \X (0..MaxRequests)), keys : SUBSET Net]]
    /\ requests \in 0..MaxRequests /\ crashes \in 0..MaxCrashes

Resting == [at |-> "idle", n |-> Default, c |-> CHOOSE c \in Con : TRUE,
            subnet |-> 0, gen |-> 0, saw |-> {}, keys |-> {}]

NInit ==
    /\ file = [n \in Net |-> "absent"] /\ subnet = [n \in Net |-> 0]
    /\ gen = [n \in Net |-> 0] /\ saw = [n \in Net |-> {}]
    /\ cache = {} /\ tracked = {} /\ raced = {}
    /\ th = [t \in Thread |-> Resting]
    /\ requests = 0 /\ crashes = 0

Go(t, place) == th' = [th EXCEPT ![t].at = place]
Done(t) == th' = [th EXCEPT ![t] = Resting]

\* A request for a network or a container: POST /networks/create (which has
\* validated its parameters), DELETE /networks/{id}, POST /networks/{id}/connect
\* or a container start, a container removal; and every operation that needs
\* the default network.
Begin(t) ==
    /\ th[t].at = "idle" /\ requests < MaxRequests
    /\ requests' = requests + 1
    /\ \E n \in Net, c \in Con, op \in {"ensure", "alloc", "remove", "connect", "disconnect"} :
        /\ op = "ensure" => n = Default
        /\ th' = [th EXCEPT ![t] = [Resting EXCEPT !.at = op, !.n = n, !.c = c]]
    /\ UNCHANGED <<fileVars, attVars, crashes>>

-----------------------------------------------------------------------------
(* The directory.                                                          *)

Ok == {n \in Net : file[n] = "ok"}

\* List parses every file and fails on the first that it cannot parse.
ListFails == \E n \in Net : file[n] = "partial"

\* Resolve.
Found(n) == ~ListFails /\ file[n] = "ok"

\* EnsureDefaultNetwork: only a network that is not found is created.
Ensure(t) ==
    /\ th[t].at = "ensure"
    /\ IF ListFails \/ Found(th[t].n) THEN Done(t) ELSE Go(t, "alloc")
    /\ UNCHANGED <<fileVars, attVars, bounds>>

\* Mutant: the first subnet of the pool, taken or not.
AllocateFirst(t) ==
    /\ th[t].at = "alloc"
    /\ IF Subnet = {} THEN Done(t)
       ELSE th' = [th EXCEPT ![t].at = "open", ![t].subnet = Min(Subnet),
                             ![t].saw = {<<m, gen[m]>> : m \in Ok}]
    /\ UNCHANGED <<fileVars, attVars, bounds>>

\* allocateSubnet: the first subnet that no readable file uses.
Allocate(t) ==
    LET free == Subnet \ {subnet[m] : m \in Ok} IN
    /\ th[t].at = "alloc"
    /\ IF free = {} THEN Done(t)
       ELSE th' = [th EXCEPT ![t].at = "open", ![t].subnet = Min(free),
                             ![t].saw = {<<m, gen[m]>> : m \in Ok}]
    /\ UNCHANGED <<fileVars, attVars, bounds>>

\* Mutant: an existing file is opened and truncated.
OpenTruncating(t) ==
    /\ th[t].at = "open"
    /\ file' = [file EXCEPT ![th[t].n] = "partial"]
    /\ gen' = [gen EXCEPT ![th[t].n] = @ + 1]
    /\ th' = [th EXCEPT ![t].at = "write", ![t].gen = gen[th[t].n] + 1]
    /\ UNCHANGED <<subnet, saw, attVars, bounds>>

\* writeFileExclusive creates the file ...
Open(t) ==
    LET n == th[t].n IN
    /\ th[t].at = "open"
    /\ IF file[n] # "absent" THEN Done(t) /\ UNCHANGED <<file, gen>>
       ELSE /\ file' = [file EXCEPT ![n] = "partial"]
            /\ gen' = [gen EXCEPT ![n] = @ + 1]
            /\ th' = [th EXCEPT ![t].at = "write", ![t].gen = gen[n] + 1]
    /\ UNCHANGED <<subnet, saw, attVars, bounds>>

\* ... and writes it; the write is lost if the name was unlinked meanwhile,
\* whether or not another creation has taken it since.
Write(t) ==
    LET n == th[t].n IN
    /\ th[t].at = "write"
    /\ IF file[n] = "partial" /\ gen[n] = th[t].gen
       THEN /\ file' = [file EXCEPT ![n] = "ok"]
            /\ subnet' = [subnet EXCEPT ![n] = th[t].subnet]
            /\ saw' = [saw EXCEPT ![n] = th[t].saw]
       ELSE UNCHANGED <<file, subnet, saw>>
    /\ Done(t)
    /\ UNCHANGED <<gen, attVars, bounds>>

\* A file that cannot be written is removed again.
WriteFails(t) ==
    /\ th[t].at = "write"
    /\ file' = [file EXCEPT ![th[t].n] = "absent"]
    /\ Done(t)
    /\ UNCHANGED <<subnet, gen, saw, attVars, bounds>>

\* Remove: Resolve, networkInUse, then the bridge and the file.
Remove(t) ==
    /\ th[t].at = "remove"
    /\ IF Found(th[t].n) THEN Go(t, "inuse") ELSE Done(t)
    /\ UNCHANGED <<fileVars, attVars, bounds>>

\* Mutant: only the attachments of this process are looked at.
InUseTrackedOnly(t) ==
    /\ th[t].at = "inuse"
    /\ IF \E c \in Con : <<c, th[t].n>> \in tracked THEN Done(t) ELSE Go(t, "unlink")
    /\ UNCHANGED <<fileVars, attVars, bounds>>

\* Refused when in use, or when the cache cannot be read.
InUse(t) ==
    /\ th[t].at = "inuse"
    /\ \/ Done(t)
       \/ (\A c \in Con : <<c, th[t].n>> \notin tracked \cup cache) /\ Go(t, "unlink")
    /\ UNCHANGED <<fileVars, attVars, bounds>>

Unlink(t) ==
    /\ th[t].at = "unlink"
    /\ file' \in {file, [file EXCEPT ![th[t].n] = "absent"]}
    /\ Done(t)
    /\ UNCHANGED <<subnet, gen, saw, attVars, bounds>>

-----------------------------------------------------------------------------
(* Attachments.                                                            *)

Connect(t) ==
    /\ th[t].at = "connect"
    /\ IF Found(th[t].n) THEN Go(t, "load") ELSE Done(t)
    /\ UNCHANGED <<fileVars, attVars, bounds>>

\* libcni.NetworkConfFromFile.
Load(t) ==
    /\ th[t].at = "load"
    /\ IF file[th[t].n] = "ok" THEN Go(t, "add") ELSE Done(t)
    /\ UNCHANGED <<fileVars, attVars, bounds>>

\* AddNetworkList caches what it attached; it fails for an endpoint that
\* exists.  A result that cannot be decoded is deleted again.
Add(t) ==
    LET pair == <<th[t].c, th[t].n>>
        removing == \E u \in Thread : th[u].at \in {"unlink", "write"} /\ th[u].n = th[t].n
    IN
    /\ th[t].at = "add"
    /\ \/ Done(t) /\ UNCHANGED <<cache, raced>>
       \/ /\ pair \notin cache
          /\ cache' = cache \cup {pair}
          /\ raced' = IF removing \/ file[th[t].n] # "ok" THEN raced \cup {pair} ELSE raced
          /\ Go(t, "track")
    /\ UNCHANGED <<fileVars, tracked, bounds>>

Track(t) ==
    /\ th[t].at = "track"
    /\ tracked' = tracked \cup {<<th[t].c, th[t].n>>}
    /\ Done(t)
    /\ UNCHANGED <<fileVars, cache, raced, bounds>>

\* DisconnectAll takes the container's tracked attachments ...
Disconnect(t) ==
    /\ th[t].at = "disconnect"
    /\ th' = [th EXCEPT ![t].at = "next", ![t].keys = {n \in Net : <<th[t].c, n>> \in tracked}]
    /\ UNCHANGED <<fileVars, attVars, bounds>>

\* ... and disconnects each: one whose network cannot be resolved is left as it
\* is; otherwise DelNetworkList may fail, and the attachment is forgotten.
DisconnectNext(t) ==
    /\ th[t].at = "next"
    /\ \/ th[t].keys = {} /\ Done(t) /\ UNCHANGED <<cache, raced>>
       \/ \E n \in th[t].keys :
            IF ~Found(n) THEN /\ th' = [th EXCEPT ![t].keys = @ \ {n}]
                              /\ UNCHANGED <<cache, raced>>
            ELSE /\ th' = [th EXCEPT ![t].at = "forget", ![t].n = n, ![t].keys = @ \ {n}]
                 /\ \/ cache' = cache \ {<<th[t].c, n>>} /\ raced' = raced \ {<<th[t].c, n>>}
                    \/ UNCHANGED <<cache, raced>>
    /\ UNCHANGED <<fileVars, tracked, bounds>>

Forget(t) ==
    /\ th[t].at = "forget"
    /\ tracked' = tracked \ {<<th[t].c, th[t].n>>}
    /\ Go(t, "next")
    /\ UNCHANGED <<fileVars, cache, raced, bounds>>

\* The daemon dies and is started again: requests and its table are gone.
Crash ==
    /\ crashes < MaxCrashes
    /\ crashes' = crashes + 1
    /\ th' = [t \in Thread |-> Resting] /\ tracked' = {}
    /\ UNCHANGED <<fileVars, cache, raced, requests>>

Step(t) ==
    \/ Ensure(t) \/ Allocate(t) \/ Open(t) \/ Write(t) \/ WriteFails(t)
    \/ Remove(t) \/ InUse(t) \/ Unlink(t)
    \/ Connect(t) \/ Load(t) \/ Add(t) \/ Track(t)
    \/ Disconnect(t) \/ DisconnectNext(t) \/ Forget(t)

NNext == (\E t \in Thread : Begin(t) \/ Step(t)) \/ Crash

NSpec == NInit /\ [][NNext]_nVars

-----------------------------------------------------------------------------
(* Properties.                                                             *)

\* A network's subnet is not the one of a network that was there when it was
\* chosen: two networks share a subnet only if their creations overlapped
\* (networkconfig.go:212-248).
SubnetsFresh ==
    \A m, n \in Ok : <<m, gen[m]>> \in saw[n] => subnet[m] # subnet[n]

\* A network that a container is attached to is not removed, whether the
\* attachment is tracked or was made before a restart; only an attachment made
\* in the middle of a removal can lose its network, or one made while a creation
\* whose file was unlinked is still writing: if that fails it removes, by name,
\* the file of a later creation (adapter.go:335-383, networkconfig.go:115-122).
AttachedNetworksStay == \A c \in Con, n \in Net : <<c, n>> \in cache \ raced => file[n] = "ok"

\* The file of a network is never overwritten: of two creations one fails
\* (networkconfig.go:111, adapter.go:251-255).
ExclusiveCreate ==
    [][\A n \in Net : file[n] = "ok" =>
            file'[n] \in {"ok", "absent"} /\ (file'[n] = "ok" => gen'[n] = gen[n])]_nVars
=============================================================================
