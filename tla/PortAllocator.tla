--------------------------- MODULE PortAllocator ---------------------------
(***************************************************************************)
(* Callers of cni.PortAllocator that reserve several bindings at once.     *)
(* AllocateBindings takes the allocator's mutex once PER BINDING, so calls *)
(* of different goroutines interleave between bindings, and a failed       *)
(* binding gives back what the call had reserved so far.  The service's    *)
(* allocMu would serialise some of these callers; the CNI adapter calls    *)
(* the allocator without it, so the model does not rely on it.             *)
(***************************************************************************)
EXTENDS PortTable, Sequences, Naturals

CONSTANTS
    Caller,        \* goroutines that allocate and release
    MaxBindings    \* bindings per AllocateBindings call (bound)

ASSUME AllocatorAssumption == MaxBindings \in Nat

VARIABLES
    todo,          \* todo[c]: bindings c's AllocateBindings call still has to do
    got,           \* got[c]: what that call has reserved so far (allocs)
    held,          \* held[c]: reservations of c's finished calls
    busy           \* the callers inside AllocateBindings

pVars == <<used, todo, got, held, busy>>

\* A requested binding; port 0 asks the OS for a free port (Dynamic).
Dynamic == 0
Binding == [proto : Proto, ip : HostIP, port : Port \cup {Dynamic}]

PTypeOK ==
    /\ used \in SUBSET Key
    /\ todo \in [Caller -> Seq(Binding)]
    /\ got \in [Caller -> SUBSET Key]
    /\ held \in [Caller -> SUBSET Key]
    /\ busy \in SUBSET Caller

PInit ==
    /\ used = {}
    /\ todo = [c \in Caller |-> <<>>]
    /\ got = [c \in Caller |-> {}]
    /\ held = [c \in Caller |-> {}]
    /\ busy = {}

\* AllocateBindings is entered with the bindings of a create request.
BeginBindings(c, bindings) ==
    /\ c \notin busy
    /\ busy' = busy \cup {c}
    /\ todo' = [todo EXCEPT ![c] = bindings]
    /\ got' = [got EXCEPT ![c] = {}]
    /\ UNCHANGED <<used, held>>

\* The keys Allocate may reserve for the binding b: the requested port, or
\* whichever port the OS probe answers.
Candidates(b) ==
    {[proto |-> b.proto, ip |-> b.ip, port |-> p] :
        p \in IF b.port = Dynamic THEN Port ELSE {b.port}}

\* Allocate succeeds for the next binding.
AllocateNext(c) ==
    /\ c \in busy
    /\ todo[c] # <<>>
    /\ \E k \in Candidates(Head(todo[c])) :
          /\ Reserve(k)
          /\ got' = [got EXCEPT ![c] = @ \cup {k}]
    /\ todo' = [todo EXCEPT ![c] = Tail(@)]
    /\ UNCHANGED <<held, busy>>

\* Mutant: a failed call forgets to release its earlier reservations.
AllocateFailsWithoutRollback(c) ==
    /\ c \in busy
    /\ todo[c] # <<>>
    /\ UNCHANGED used
    /\ got' = [got EXCEPT ![c] = {}]
    /\ todo' = [todo EXCEPT ![c] = <<>>]
    /\ busy' = busy \ {c}
    /\ UNCHANGED held

\* Allocate fails for the next binding (the key is taken, the probe fails, or
\* no probe answer was free): everything this call reserved is released.
AllocateFails(c) ==
    /\ c \in busy
    /\ todo[c] # <<>>
    /\ Free(got[c])
    /\ got' = [got EXCEPT ![c] = {}]
    /\ todo' = [todo EXCEPT ![c] = <<>>]
    /\ busy' = busy \ {c}
    /\ UNCHANGED held

\* AllocateBindings returns the filled bindings to its caller.
Finish(c) ==
    /\ c \in busy
    /\ todo[c] = <<>>
    /\ held' = [held EXCEPT ![c] = @ \cup got[c]]
    /\ got' = [got EXCEPT ![c] = {}]
    /\ busy' = busy \ {c}
    /\ UNCHANGED <<used, todo>>

\* Release by a caller that gives back reservations it holds.
Release(c, keys) ==
    /\ c \notin busy
    /\ keys # {} /\ keys \subseteq held[c]
    /\ Free(keys)
    /\ held' = [held EXCEPT ![c] = @ \ keys]
    /\ UNCHANGED <<todo, got, busy>>

Requests == UNION {[1..n -> Binding] : n \in 1..MaxBindings}

PNext ==
    \E c \in Caller :
        \/ \E bindings \in Requests : BeginBindings(c, bindings)
        \/ AllocateNext(c)
        \/ AllocateFails(c)
        \/ Finish(c)
        \/ \E keys \in SUBSET held[c] : Release(c, keys)

PSpec == PInit /\ [][PNext]_pVars

\* What caller c has a claim to.
Claim(c) == got[c] \cup held[c]

\* The table holds exactly what its callers have a claim to: a call that failed
\* half way has left nothing behind and has taken nothing of another caller
\* with it (portmap.go:203-220).
Accounted == used = UNION {Claim(c) : c \in Caller}

\* Claims of different callers never overlap, wildcards included
\* (portmap.go:222-232), even while calls interleave binding by binding.
ExclusiveClaims ==
    \A c, d \in Caller : c # d =>
        \A j \in Claim(c), k \in Claim(d) : ~Overlap(j, k)
=============================================================================
