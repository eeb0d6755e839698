----------------------------- MODULE PortTable -----------------------------
(***************************************************************************)
(* The reservation table of cni.PortAllocator                              *)
(* (internal/adapters/cni/portmap.go).  One method call holds the          *)
(* allocator's mutex from start to end, so each is one step on `used`.     *)
(* The OS bind probe is external: it may answer with any port, or fail.    *)
(***************************************************************************)
CONSTANTS
    Proto,         \* normalised protocols (normalizeProtocol: tcp, udp)
    HostIP,        \* normalised host addresses (normalizeHostIP)
    Wildcard,      \* the addresses isWildcardHost accepts
    Port           \* concrete host ports

ASSUME PortTableAssumption == Wildcard \subseteq HostIP

VARIABLE used      \* the reserved (protocol, address, port) keys

Key == [proto : Proto, ip : HostIP, port : Port]

\* Two keys cannot both be published: same protocol and port, and the same
\* address or a wildcard on either side.
Overlap(j, k) ==
    /\ j.proto = k.proto
    /\ j.port = k.port
    /\ \/ j.ip = k.ip
       \/ j.ip \in Wildcard
       \/ k.ip \in Wildcard

\* Mutant: a map lookup of the key, without the scan for overlapping keys.
conflictsExact(k) == k \in used

conflictsLocked(k) == \E j \in used : Overlap(j, k)

\* Allocate of one binding, when the table and the probe accept the key.
Reserve(k) ==
    /\ ~conflictsLocked(k)
    /\ used' = used \cup {k}

\* AllocateBindings of several bindings goes through: each is free when its
\* turn comes, the earlier ones of the same call being reserved by then.
Reservable(keys) ==
    /\ \A k \in keys : ~conflictsLocked(k)
    /\ \A j, k \in keys : j # k => ~Overlap(j, k)

ReserveAll(keys) ==
    /\ Reservable(keys)
    /\ used' = used \cup keys

\* Release deletes the entries; nothing records who reserved them.
Free(keys) == used' = used \ keys

\* AdoptBindings succeeds when every binding is reserved, by whomever.
Adoptable(keys) == keys \subseteq used

\* No two reservations overlap, so two published ports never collide
\* (portmap.go:117-156 under the mutex, whatever the probe answers).
NoOverlap == \A j, k \in used : j # k => ~Overlap(j, k)
=============================================================================
