----------------------------- MODULE CNIProofs -----------------------------
(***************************************************************************)
(* What the CNI adapter promises for any number of requests: the host port *)
(* allocator (PortAllocator), and the configuration directory with the     *)
(* attachments (Networks).                                                 *)
(*                                                                         *)
(* Ports.  Reservations never overlap, a failed AllocateBindings leaves    *)
(* nothing behind, and different callers never hold overlapping ports.     *)
(* The inductive invariant adds Separate: what a running call has got is   *)
(* disjoint from what its caller already holds, and a caller outside       *)
(* AllocateBindings has got nothing.  Without it the rollback of a failed  *)
(* call could release a reservation the caller held from before.           *)
(*                                                                         *)
(* Networks.  A file is known by its name and its generation.  An          *)
(* attachment is safe because everybody who could still take the file away *)
(* would have to be past a check that the attachment, or the file, makes   *)
(* fail; a subnet is fresh because a generation of a file is written once, *)
(* so what an allocation saw of it is still true when the result is        *)
(* written.                                                                *)
(***************************************************************************)
EXTENDS PortAllocator, Networks, WellFoundedInduction, TLAPS

(* The port allocator.                                                     *)

Separate ==
    \A c \in Caller :
        /\ got[c] \cap held[c] = {}
        /\ c \notin busy => got[c] = {}

PInv == PTypeOK /\ NoOverlap /\ Accounted /\ ExclusiveClaims /\ Separate

\* Overlapping is reflexive and symmetric (portmap.go:222-240).
LEMMA OverlapFacts ==
  ASSUME NEW j \in Key, NEW k \in Key
  PROVE  /\ Overlap(j, j)
         /\ Overlap(j, k) <=> Overlap(k, j)
  BY DEF Overlap, Key

\* An allocator that has just been made has no reservations.
LEMMA InitPInv == PInit => PInv
  BY DEF PInit, PInv, PTypeOK, NoOverlap, Accounted, ExclusiveClaims, Separate, Claim

\* Another caller's claims are disjoint from c's.
LEMMA ClaimsDisjoint ==
  ASSUME PInv, NEW c \in Caller, NEW d \in Caller, c # d, NEW k \in Claim(c)
  PROVE  k \notin Claim(d)
  <1>1. k \in Key
    BY DEF PInv, PTypeOK, Claim
  <1> QED
    BY <1>1, OverlapFacts DEF PInv, ExclusiveClaims

\* What a binding may be given is a key of the table.
LEMMA CandidateIsKey ==
  ASSUME NEW b \in Binding, NEW k \in Candidates(b)
  PROVE  k \in Key
  BY DEF Candidates, Binding, Key, Dynamic

\* A call of AllocateBindings starts with nothing.
LEMMA BeginKeeps ==
  ASSUME PInv, NEW c \in Caller, NEW bindings \in Requests, BeginBindings(c, bindings)
  PROVE  PInv'
  <1> USE DEF PInv
  <1>1. bindings \in Seq(Binding)
    BY DEF Requests
  <1>2. got' = got
    BY DEF BeginBindings, Separate, PTypeOK
  <1>3. PTypeOK'
    BY <1>1 DEF BeginBindings, PTypeOK
  <1>4. NoOverlap' /\ Accounted' /\ ExclusiveClaims' /\ Separate'
    BY <1>2 DEF BeginBindings, NoOverlap, Accounted, ExclusiveClaims, Claim, Separate
  <1> QED
    BY <1>3, <1>4

\* One more binding of a running call.
LEMMA AllocateNextKeeps ==
  ASSUME PInv, NEW c \in Caller, AllocateNext(c)
  PROVE  PInv'
  <1> USE DEF PInv
  <1>1. Head(todo[c]) \in Binding /\ Tail(todo[c]) \in Seq(Binding)
    BY DEF AllocateNext, PTypeOK
  <1>2. PICK k \in Candidates(Head(todo[c])) :
          /\ ~conflictsLocked(k)
          /\ used' = used \cup {k}
          /\ got' = [got EXCEPT ![c] = @ \cup {k}]
    BY DEF AllocateNext, Reserve
  <1>3. k \in Key
    BY <1>1, <1>2, CandidateIsKey
  <1>4. held' = held /\ busy' = busy /\ c \in busy
    BY DEF AllocateNext
  <1>5. \A j \in used : ~Overlap(j, k) /\ ~Overlap(k, j) /\ j # k
    <2>1. \A j \in used : ~Overlap(j, k) /\ j \in Key
      BY <1>2 DEF conflictsLocked, PTypeOK
    <2> QED
      BY <2>1, <1>3, OverlapFacts
  <1>6. \A d \in Caller : got'[d] = IF d = c THEN got[c] \cup {k} ELSE got[d]
    BY <1>2 DEF PTypeOK
  <1>7. PTypeOK'
    BY <1>1, <1>2, <1>3 DEF AllocateNext, PTypeOK
  <1>8. NoOverlap'
    BY <1>2, <1>5 DEF NoOverlap
  <1>9. Accounted'
    BY <1>2, <1>4, <1>6 DEF Accounted, Claim
  <1>10. ExclusiveClaims'
    <2> SUFFICES ASSUME NEW d \in Caller, NEW e \in Caller, d # e,
                        NEW i \in Claim(d)', NEW j \in Claim(e)'
                 PROVE  ~Overlap(i, j)
      BY DEF ExclusiveClaims
    <2>1. Claim(d) \subseteq used /\ Claim(e) \subseteq used
      BY DEF Accounted
    <2>2. i \in Claim(d) \/ (i = k /\ d = c)
      BY <1>4, <1>6 DEF Claim
    <2>3. j \in Claim(e) \/ (j = k /\ e = c)
      BY <1>4, <1>6 DEF Claim
    <2> QED
      BY <1>5, <2>1, <2>2, <2>3 DEF ExclusiveClaims
  <1>11. Separate'
    <2>1. k \notin held[c]
      BY <1>5 DEF Accounted, Claim
    <2> QED
      BY <1>4, <1>6, <2>1 DEF Separate
  <1> QED
    BY <1>7, <1>8, <1>9, <1>10, <1>11

\* A call that fails gives back what it got, and no more.
LEMMA AllocateFailsKeeps ==
  ASSUME PInv, NEW c \in Caller, AllocateFails(c)
  PROVE  PInv'
  <1> USE DEF PInv
  <1>1. /\ used' = used \ got[c]
        /\ held' = held
        /\ busy' = busy \ {c}
    BY DEF AllocateFails, Free
  <1>2. \A d \in Caller : got'[d] = IF d = c THEN {} ELSE got[d]
    BY DEF AllocateFails, PTypeOK
  <1>3. PTypeOK'
    BY DEF AllocateFails, Free, PTypeOK
  <1>4. NoOverlap'
    BY <1>1 DEF NoOverlap
  <1>5. Accounted'
    <2>1. ASSUME NEW k \in used' PROVE \E d \in Caller : k \in got'[d] \/ k \in held'[d]
      BY <1>1, <1>2, <2>1 DEF Accounted, Claim
    <2>2. ASSUME NEW k, NEW d \in Caller, k \in got'[d] \/ k \in held'[d]
          PROVE  k \in used'
      <3>1. k \in used /\ k \in Claim(d)
        BY <1>1, <1>2, <2>2 DEF Accounted, Claim
      <3>2. k \notin got[c]
        <4>1. CASE d = c
          BY <1>1, <1>2, <2>2, <4>1 DEF Separate
        <4>2. CASE d # c
          BY <3>1, <4>2, ClaimsDisjoint DEF Claim
        <4> QED
          BY <4>1, <4>2
      <3> QED
        BY <1>1, <3>1, <3>2
    <2> QED
      BY <2>1, <2>2 DEF Accounted, Claim
  <1>6. ExclusiveClaims' /\ Separate'
    BY <1>1, <1>2 DEF ExclusiveClaims, Claim, Separate
  <1> QED
    BY <1>3, <1>4, <1>5, <1>6

\* A call that succeeds hands its keys to its caller.
LEMMA FinishKeeps ==
  ASSUME PInv, NEW c \in Caller, Finish(c)
  PROVE  PInv'
  <1> USE DEF PInv
  <1>1. used' = used /\ busy' = busy \ {c}
    BY DEF Finish
  <1>2. \A d \in Caller : /\ got'[d] = IF d = c THEN {} ELSE got[d]
                          /\ held'[d] = IF d = c THEN held[c] \cup got[c] ELSE held[d]
    BY DEF Finish, PTypeOK
  <1>3. PTypeOK'
    BY DEF Finish, PTypeOK
  <1>4. \A d \in Caller : Claim(d)' = Claim(d)
    BY <1>2 DEF Claim
  <1>5. NoOverlap' /\ ExclusiveClaims' /\ Separate'
    BY <1>1, <1>2, <1>4 DEF NoOverlap, ExclusiveClaims, Separate
  <1>6. Accounted'
    BY <1>1, <1>4 DEF Accounted
  <1> QED
    BY <1>3, <1>5, <1>6

\* A release takes what its caller holds.
LEMMA ReleaseKeeps ==
  ASSUME PInv, NEW c \in Caller, NEW keys \in SUBSET held[c], Release(c, keys)
  PROVE  PInv'
  <1> USE DEF PInv
  <1>1. used' = used \ keys /\ got' = got /\ busy' = busy /\ c \notin busy
    BY DEF Release, Free
  <1>2. \A d \in Caller : held'[d] = IF d = c THEN held[c] \ keys ELSE held[d]
    BY DEF Release, PTypeOK
  <1>3. PTypeOK'
    BY DEF Release, Free, PTypeOK
  <1>4. NoOverlap'
    BY <1>1 DEF NoOverlap
  <1>5. Accounted'
    <2>1. ASSUME NEW k \in used' PROVE \E d \in Caller : k \in got'[d] \/ k \in held'[d]
      BY <1>1, <1>2, <2>1 DEF Accounted, Claim
    <2>2. ASSUME NEW k, NEW d \in Caller, k \in got'[d] \/ k \in held'[d]
          PROVE  k \in used'
      <3>1. k \in used /\ k \in Claim(d)
        BY <1>1, <1>2, <2>2 DEF Accounted, Claim
      <3>2. k \notin keys
        <4>1. CASE d = c
          BY <1>1, <1>2, <2>2, <4>1 DEF Separate
        <4>2. CASE d # c
          BY <3>1, <4>2, ClaimsDisjoint DEF Claim
        <4> QED
          BY <4>1, <4>2
      <3> QED
        BY <1>1, <3>1, <3>2
    <2> QED
      BY <2>1, <2>2 DEF Accounted, Claim
  <1>6. ExclusiveClaims' /\ Separate'
    BY <1>1, <1>2 DEF ExclusiveClaims, Claim, Separate
  <1> QED
    BY <1>3, <1>4, <1>5, <1>6

\* Every step keeps the invariant.
LEMMA NextPInv == PInv /\ [PNext]_pVars => PInv'
  <1> SUFFICES ASSUME PInv, [PNext]_pVars PROVE PInv'
    OBVIOUS
  <1>1. CASE UNCHANGED pVars
    BY <1>1 DEF pVars, PInv, PTypeOK, NoOverlap, Accounted, ExclusiveClaims, Separate, Claim
  <1> QED
    BY <1>1, BeginKeeps, AllocateNextKeeps, AllocateFailsKeeps, FinishKeeps, ReleaseKeeps
    DEF PNext

\* Two published host ports never collide (portmap.go:114-157, 222-232).
THEOREM ReservationsNeverOverlap == PSpec => []NoOverlap
  BY InitPInv, NextPInv, PTL DEF PSpec, PInv

\* AllocateBindings is all or nothing, and nothing of another caller goes
\* with its rollback (portmap.go:203-220).
THEOREM AllocationsAccounted == PSpec => []Accounted
  BY InitPInv, NextPInv, PTL DEF PSpec, PInv

\* Concurrent callers never hold overlapping host ports (portmap.go:222-232).
THEOREM ClaimsExclusive == PSpec => []ExclusiveClaims
  BY InitPInv, NextPInv, PTL DEF PSpec, PInv

-----------------------------------------------------------------------------
(* Networks.                                                               *)

AnyCon == CHOOSE c \in Con : TRUE
Req == [at : Place, n : Net, c : Con \cup {AnyCon}, subnet : Nat, gen : Nat,
        saw : SUBSET (Net \X Nat), keys : SUBSET Net]

\* The types that the arguments need; they leave the bounds on generations out.
FileTypes ==
    /\ file \in [Net -> {"absent", "partial", "ok"}]
    /\ subnet \in [Net -> Nat] /\ gen \in [Net -> Nat]
    /\ saw \in [Net -> SUBSET (Net \X Nat)]

Types == FileTypes /\ th \in [Thread -> Req]

\* A request that could still take the file of n away, checks or no checks.
Removing(t, n) == th[t].at \in {"unlink", "write"} /\ th[t].n = n

\* An attachment that did not race with a removal has its file, and nobody is
\* in a position to remove it.
AttachSafe ==
    \A c \in Con, n \in Net : <<c, n>> \in cache \ raced =>
        file[n] = "ok" /\ \A t \in Thread : ~Removing(t, n)

\* Who has seen a generation of m has seen it written: it is over or still ok.
Settled(S) ==
    \A m \in Net, g \in Nat : <<m, g>> \in S => g <= gen[m] /\ (g = gen[m] => file[m] # "partial")

SawSettled ==
    /\ \A n \in Net : Settled(saw[n])
    /\ \A t \in Thread : Settled(th[t].saw)

\* The subnet a creation is about to write differs from those it saw.
PendingFresh ==
    \A t \in Thread : th[t].at \in {"open", "write"} =>
        \A m \in Ok : <<m, gen[m]>> \in th[t].saw => subnet[m] # th[t].subnet

SubnetInv == SawSettled /\ PendingFresh /\ SubnetsFresh

-----------------------------------------------------------------------------
(* Requests.                                                               *)

Below == {ss \in Nat \X Nat : ss[1] < ss[2]}

\* A set of numbers that is not empty has a least element, and Min finds it.
LEMMA MinIn ==
    ASSUME NEW S \in SUBSET Nat, S # {}
    PROVE  Min(S) \in S /\ \A y \in S : Min(S) <= y
  <1>1. OpToRel(<, Nat) = Below
    BY Zenon DEF OpToRel, Below
  <1>2. IsWellFoundedOn(Below, Nat)
    BY <1>1, NatLessThanWellFounded, Zenon
  <1>3. PICK x \in S : \A y \in S : ~(<<y, x>> \in Below)
    BY <1>2, WFMin
  <1>4. ASSUME NEW y \in S PROVE x <= y
    <2>1. x \in Nat /\ y \in Nat /\ ~(<<y, x>> \in Below)
      BY <1>3
    <2>2. y < x => <<y, x>> \in Below
      BY <2>1 DEF Below
    <2>3. QED
      BY <2>1, <2>2
  <1>5. QED
    BY <1>4, Zenon DEF Min

\* A request that is over.
LEMMA RestingTyped == Resting \in Req /\ Resting.at = "idle" /\ Resting.saw = {}
  BY NetworksAssumption DEF Resting, Req, Place, AnyCon

\* A request moves and the others stay where they are.
MovedTo(t, place) ==
    /\ th' \in [Thread -> Req] /\ th'[t].at = place /\ th'[t].n = th[t].n
    /\ th'[t].saw = th[t].saw /\ th'[t].subnet = th[t].subnet
    /\ \A u \in Thread \ {t} : th'[u] = th[u]

Moved(t, r) == th' \in [Thread -> Req] /\ th'[t] = r /\ \A u \in Thread \ {t} : th'[u] = th[u]

\* An update of one request moves it alone.
LEMMA MoveTyped ==
    ASSUME Types, NEW t \in Thread, NEW r \in Req, th' = [th EXCEPT ![t] = r]
    PROVE  Moved(t, r)
  BY DEF Types, Moved

\* Go changes a request's place only.
LEMMA GoMoves ==
    ASSUME Types, NEW t \in Thread, NEW place \in Place, Go(t, place)
    PROVE  MovedTo(t, place)
  <1> DEFINE r == [th[t] EXCEPT !.at = place]
  <1>1. /\ r \in Req /\ r.at = place
        /\ r.n = th[t].n /\ r.saw = th[t].saw /\ r.subnet = th[t].subnet
    BY DEF Types, Req
  <1>2. th' = [th EXCEPT ![t] = r]
    BY DEF Go
  <1> HIDE DEF r
  <1>3. QED
    BY <1>1, <1>2, MoveTyped DEF Moved, MovedTo

\* Done ends a request.
LEMMA DoneMoves ==
    ASSUME Types, NEW t \in Thread, Done(t)
    PROVE  Moved(t, Resting)
  BY RestingTyped, MoveTyped DEF Done

\* allocateSubnet chooses a subnet that no network it saw has
\* (networkconfig.go:212-248).
LEMMA AllocateMoves ==
    ASSUME Types, NEW t \in Thread, Allocate(t), ~Done(t)
    PROVE  \E r \in Req :
             /\ Moved(t, r) /\ r.at = "open" /\ r.saw = {<<m, gen[m]>> : m \in Ok}
             /\ \A m \in Ok : subnet[m] # r.subnet
  <1> DEFINE free == Subnet \ {subnet[m] : m \in Ok}
             r == [th[t] EXCEPT !.at = "open", !.subnet = Min(free), !.saw = {<<m, gen[m]>> : m \in Ok}]
  <1>1. free # {} /\ th' = [th EXCEPT ![t] = r]
    BY DEF Allocate
  <1>2. free \in SUBSET Nat
    BY DEF Subnet
  <1>3. Min(free) \in free
    BY <1>1, <1>2, MinIn
  <1>4. {<<m, gen[m]>> : m \in Ok} \in SUBSET (Net \X Nat)
    BY DEF Types, FileTypes, Ok
  <1>5. th[t] \in Req
    BY DEF Types
  <1>6. r \in Req /\ r.at = "open" /\ r.subnet = Min(free) /\ r.saw = {<<m, gen[m]>> : m \in Ok}
    BY <1>2, <1>3, <1>4, <1>5 DEF Req, Place
  <1>7. \A m \in Ok : subnet[m] # r.subnet
    BY <1>3, <1>6
  <1>8. Moved(t, r)
    BY <1>1, <1>6, MoveTyped
  <1>9. QED
    BY <1>6, <1>7, <1>8

\* writeFileExclusive opens a file that is not there: a new generation
\* (networkconfig.go:111).
LEMMA OpenMoves ==
    ASSUME Types, NEW t \in Thread, Open(t), ~(Done(t) /\ UNCHANGED <<file, gen>>)
    PROVE  /\ FileTypes' /\ file[th[t].n] = "absent"
           /\ file' = [file EXCEPT ![th[t].n] = "partial"]
           /\ gen' = [gen EXCEPT ![th[t].n] = gen[th[t].n] + 1]
           /\ UNCHANGED <<subnet, saw, cache, raced>>
           /\ MovedTo(t, "write")
  <1> DEFINE r == [th[t] EXCEPT !.at = "write", !.gen = gen[th[t].n] + 1]
  <1>1. th[t] \in Req /\ th[t].n \in Net /\ gen[th[t].n] + 1 \in Nat
    BY DEF Types, FileTypes, Req
  <1>2. /\ r \in Req /\ r.at = "write"
        /\ r.n = th[t].n /\ r.saw = th[t].saw /\ r.subnet = th[t].subnet
    BY <1>1 DEF Req, Place
  <1>3. th' = [th EXCEPT ![t] = r]
    BY DEF Open
  <1> HIDE DEF r
  <1>4. MovedTo(t, "write")
    BY <1>2, <1>3, MoveTyped DEF Moved, MovedTo
  <1>5. /\ file[th[t].n] = "absent" /\ file' = [file EXCEPT ![th[t].n] = "partial"]
        /\ gen' = [gen EXCEPT ![th[t].n] = gen[th[t].n] + 1]
        /\ UNCHANGED <<subnet, saw, cache, raced>>
    BY DEF Open, attVars
  <1>6. FileTypes'
    BY <1>1, <1>5 DEF Types, FileTypes
  <1>7. QED
    BY <1>4, <1>5, <1>6

\* Most steps leave the files alone, attach nothing, and bring their request to a
\* place where it can neither write nor unlink.
QuietStep(t) ==
    /\ UNCHANGED fileVars
    /\ cache' \ raced' \subseteq cache \ raced
    /\ \E r \in Req : Moved(t, r) /\ r.at \notin {"open", "write", "unlink"} /\ r.saw \subseteq th[t].saw

\* A request that ends is quiet.
LEMMA DoneQuiet ==
    ASSUME Types, NEW t \in Thread, Done(t), UNCHANGED fileVars,
           cache' \ raced' \subseteq cache \ raced
    PROVE  QuietStep(t)
  <1>1. Moved(t, Resting)
    BY DoneMoves
  <1>2. QED
    BY <1>1, RestingTyped DEF QuietStep

\* A request that goes on is quiet, except to the places it can write or unlink from.
LEMMA GoQuiet ==
    ASSUME Types, NEW t \in Thread, NEW place \in Place \ {"open", "write", "unlink"}, Go(t, place),
           UNCHANGED fileVars, cache' \ raced' \subseteq cache \ raced
    PROVE  QuietStep(t)
  <1>1. MovedTo(t, place)
    BY GoMoves
  <1>2. th'[t] \in Req /\ Moved(t, th'[t])
    BY <1>1 DEF MovedTo, Moved
  <1>3. QED
    BY <1>1, <1>2 DEF QuietStep, MovedTo

\* A new request has done nothing.
LEMMA BeginQuiet == ASSUME Types, NEW t \in Thread, Begin(t) PROVE QuietStep(t)
  <1>1. PICK n \in Net, c \in Con, op \in {"ensure", "alloc", "remove", "connect", "disconnect"} :
            th' = [th EXCEPT ![t] = [Resting EXCEPT !.at = op, !.n = n, !.c = c]]
    BY DEF Begin
  <1> DEFINE r == [Resting EXCEPT !.at = op, !.n = n, !.c = c]
  <1>2. r \in Req /\ r.at = op /\ r.saw = {}
    BY RestingTyped DEF Req, Place
  <1>3. th' = [th EXCEPT ![t] = r]
    BY <1>1
  <1> HIDE DEF r
  <1>4. Moved(t, r)
    BY <1>2, <1>3, MoveTyped
  <1>5. QED
    BY <1>2, <1>4 DEF QuietStep, Begin, attVars

\* DisconnectAll only looks at its table first (adapter.go:519-537).
LEMMA DisconnectQuiet == ASSUME Types, NEW t \in Thread, Disconnect(t) PROVE QuietStep(t)
  <1> DEFINE K == {n \in Net : <<th[t].c, n>> \in tracked}
             r == [th[t] EXCEPT !.at = "next", !.keys = K]
  <1>1. r \in Req /\ r.at = "next" /\ r.saw = th[t].saw
    BY DEF Types, Req, Place
  <1>2. th' = [th EXCEPT ![t] = r]
    BY DEF Disconnect
  <1> HIDE DEF r
  <1>3. Moved(t, r)
    BY <1>1, <1>2, MoveTyped
  <1>4. QED
    BY <1>1, <1>3 DEF QuietStep, Disconnect, attVars

\* A disconnect takes an attachment out of the cache and of the history together.
LEMMA NextQuiet == ASSUME Types, NEW t \in Thread, DisconnectNext(t) PROVE QuietStep(t)
  <1>1. UNCHANGED fileVars
    BY DEF DisconnectNext
  <1>2. CASE th[t].keys = {} /\ Done(t) /\ UNCHANGED <<cache, raced>>
    BY <1>1, <1>2, DoneQuiet
  <1>3. ASSUME NEW n \in th[t].keys, th' = [th EXCEPT ![t].keys = @ \ {n}], UNCHANGED <<cache, raced>>
        PROVE  QuietStep(t)
    <2> DEFINE r == [th[t] EXCEPT !.keys = th[t].keys \ {n}]
    <2>1. r \in Req /\ r.at = th[t].at /\ r.saw = th[t].saw
      BY DEF Types, Req
    <2>2. th' = [th EXCEPT ![t] = r]
      BY <1>3 DEF Types
    <2> HIDE DEF r
    <2>3. Moved(t, r)
      BY <2>1, <2>2, MoveTyped
    <2>4. th[t].at = "next"
      BY DEF DisconnectNext
    <2>5. QED
      BY <1>1, <1>3, <2>1, <2>3, <2>4 DEF QuietStep
  <1>4. ASSUME NEW n \in th[t].keys,
               th' = [th EXCEPT ![t].at = "forget", ![t].n = n, ![t].keys = @ \ {n}],
               \/ cache' = cache \ {<<th[t].c, n>>} /\ raced' = raced \ {<<th[t].c, n>>}
               \/ UNCHANGED <<cache, raced>>
        PROVE  QuietStep(t)
    <2> DEFINE r == [th[t] EXCEPT !.at = "forget", !.n = n, !.keys = th[t].keys \ {n}]
    <2>1. n \in Net
      BY DEF Types, Req
    <2>2. r \in Req /\ r.at = "forget" /\ r.saw = th[t].saw
      BY <2>1 DEF Types, Req, Place
    <2>3. th' = [th EXCEPT ![t] = r]
      BY <1>4 DEF Types
    <2> HIDE DEF r
    <2>4. Moved(t, r)
      BY <2>2, <2>3, MoveTyped
    <2>5. cache' \ raced' \subseteq cache \ raced
      BY <1>4
    <2>6. QED
      BY <1>1, <2>2, <2>4, <2>5 DEF QuietStep
  <1>5. QED
    BY <1>2, <1>3, <1>4 DEF DisconnectNext

\* The steps that are not quiet: a subnet chosen, a file created, written or
\* removed, a removal past its check, a container attached.
Chosen(t) == Allocate(t) /\ ~Done(t)
Opened(t) == Open(t) /\ ~(Done(t) /\ UNCHANGED <<file, gen>>)
Wrote(t) == Write(t) /\ file[th[t].n] = "partial" /\ gen[th[t].n] = th[t].gen
Removed(t) ==
    /\ th[t].at \in {"write", "unlink"} /\ file' = [file EXCEPT ![th[t].n] = "absent"]
    /\ Done(t) /\ UNCHANGED <<subnet, gen, saw, cache, raced>>
Passed(t) ==
    /\ (\A c \in Con : <<c, th[t].n>> \notin tracked \cup cache) /\ Go(t, "unlink")
    /\ UNCHANGED <<fileVars, cache, raced>>
Attached(t) == Add(t) /\ Go(t, "track")

\* Every step of a request is of one of these kinds.
LEMMA StepKinds ==
    ASSUME Types, NEW t \in Thread, Begin(t) \/ Step(t)
    PROVE  \/ QuietStep(t) \/ Chosen(t) \/ Opened(t) \/ Wrote(t) \/ Removed(t) \/ Passed(t)
           \/ Attached(t)
  <1> USE DEF Place
  <1>1. CASE Begin(t)
    BY <1>1, BeginQuiet
  <1>2. CASE Ensure(t)
    BY <1>2, DoneQuiet, GoQuiet DEF Ensure, attVars
  <1>3. CASE Allocate(t)
    BY <1>3, DoneQuiet DEF Allocate, Chosen, attVars
  <1>4. CASE Open(t)
    BY <1>4, DoneQuiet DEF Open, Opened, attVars, fileVars
  <1>5. CASE Write(t)
    BY <1>5, DoneQuiet DEF Write, Wrote, attVars, fileVars
  <1>6. CASE WriteFails(t)
    BY <1>6 DEF WriteFails, Removed, attVars
  <1>7. CASE Remove(t)
    BY <1>7, DoneQuiet, GoQuiet DEF Remove, attVars
  <1>8. CASE InUse(t)
    BY <1>8, DoneQuiet DEF InUse, Passed, attVars
  <1>9. CASE Unlink(t)
    BY <1>9, DoneQuiet DEF Unlink, Removed, attVars, fileVars
  <1>10. CASE Connect(t)
    BY <1>10, DoneQuiet, GoQuiet DEF Connect, attVars
  <1>11. CASE Load(t)
    BY <1>11, DoneQuiet, GoQuiet DEF Load, attVars
  <1>12. CASE Add(t)
    BY <1>12, DoneQuiet DEF Add, Attached
  <1>13. CASE Track(t)
    BY <1>13, DoneQuiet DEF Track
  <1>14. CASE Disconnect(t)
    BY <1>14, DisconnectQuiet
  <1>15. CASE DisconnectNext(t)
    BY <1>15, NextQuiet
  <1>16. CASE Forget(t)
    BY <1>16, GoQuiet DEF Forget
  <1>17. QED
    BY <1>1, <1>2, <1>3, <1>4, <1>5, <1>6, <1>7, <1>8, <1>9, <1>10, <1>11, <1>12, <1>13, <1>14,
       <1>15, <1>16 DEF Step

\* No step leaves the types.
LEMMA TypesStep == Types /\ [NNext]_nVars => Types'
  <1> SUFFICES ASSUME Types, [NNext]_nVars PROVE Types'
    OBVIOUS
  <1> USE DEF Types, FileTypes
  <1>1. ASSUME NEW t \in Thread, Begin(t) \/ Step(t) PROVE Types'
    <2>1. CASE QuietStep(t)
      BY <2>1 DEF QuietStep, Moved, fileVars
    <2>2. CASE Chosen(t)
      BY <2>2, AllocateMoves DEF Chosen, Moved, Allocate, fileVars
    <2>3. CASE Opened(t)
      BY <2>3, OpenMoves DEF Opened, MovedTo
    <2>4. CASE Wrote(t)
      <3>1. Moved(t, Resting) /\ th[t].n \in Net /\ th[t].subnet \in Nat /\ th[t].saw \in SUBSET (Net \X Nat)
        BY <2>4, DoneMoves DEF Wrote, Write, Req
      <3>2. QED
        BY <2>4, <3>1 DEF Wrote, Write, Moved
    <2>5. CASE Removed(t)
      BY <2>5, DoneMoves DEF Removed, Moved
    <2>6. CASE Passed(t)
      BY <2>6, GoMoves DEF Passed, MovedTo, Place, fileVars
    <2>7. CASE Attached(t)
      BY <2>7, GoMoves DEF Attached, Add, MovedTo, Place, fileVars
    <2>8. QED
      BY <1>1, <2>1, <2>2, <2>3, <2>4, <2>5, <2>6, <2>7, StepKinds
  <1>2. CASE Crash
    BY <1>2, RestingTyped DEF Crash, fileVars
  <1>3. CASE UNCHANGED nVars
    BY <1>3 DEF nVars
  <1>4. QED
    BY <1>1, <1>2, <1>3 DEF NNext

-----------------------------------------------------------------------------
(* Attachments and the files of their networks.                            *)

\* A file goes only through the hands of somebody who was past the check before
\* the container was attached, and a check made after that finds the attachment,
\* in the cache if not in the table (adapter.go:355-383).
LEMMA AttachStep == Types /\ AttachSafe /\ [NNext]_nVars => AttachSafe'
  <1> SUFFICES ASSUME Types, AttachSafe, [NNext]_nVars,
                      NEW c \in Con, NEW n \in Net, <<c, n>> \in cache' \ raced'
               PROVE  file'[n] = "ok" /\ \A u \in Thread : ~Removing(u, n)'
    BY DEF AttachSafe
  <1> USE DEF Types, FileTypes, AttachSafe, Removing
  <1>1. ASSUME NEW t \in Thread, Begin(t) \/ Step(t)
        PROVE  file'[n] = "ok" /\ \A u \in Thread : ~Removing(u, n)'
    <2>1. CASE QuietStep(t)
      BY <2>1 DEF QuietStep, Moved, fileVars
    <2>2. CASE Chosen(t)
      <3>1. PICK r \in Req : Moved(t, r) /\ r.at = "open"
        BY <2>2, AllocateMoves DEF Chosen
      <3>2. QED
        BY <2>2, <3>1 DEF Chosen, Moved, Allocate, fileVars, attVars
    <2>3. CASE Opened(t)
      <3>1. <<c, n>> \in cache \ raced /\ th[t].n # n
        BY <2>3, OpenMoves DEF Opened
      <3>2. /\ file' = [file EXCEPT ![th[t].n] = "partial"]
            /\ MovedTo(t, "write")
        BY <2>3, OpenMoves DEF Opened
      <3>3. th'[t].n = th[t].n
        BY <3>2 DEF MovedTo
      <3>4. QED
        BY <3>1, <3>2, <3>3 DEF MovedTo
    <2>4. CASE Wrote(t)
      BY <2>4, DoneMoves, RestingTyped DEF Wrote, Write, Moved, attVars
    <2>5. CASE Removed(t)
      BY <2>5, DoneMoves, RestingTyped DEF Removed, Moved
    <2>6. CASE Passed(t)
      <3>1. <<c, n>> \in cache /\ th[t].n # n
        BY <2>6 DEF Passed
      <3>2. MovedTo(t, "unlink")
        BY <2>6, GoMoves DEF Passed, Place
      <3>3. th'[t].n = th[t].n
        BY <3>2 DEF MovedTo
      <3>4. QED
        BY <2>6, <3>1, <3>2, <3>3 DEF Passed, MovedTo, fileVars
    <2>7. CASE Attached(t)
      <3>1. MovedTo(t, "track")
        BY <2>7, GoMoves DEF Attached, Place
      <3>2. th'[t].at = "track"
        BY <3>1 DEF MovedTo
      <3>3. CASE <<c, n>> \in cache \ raced
        BY <2>7, <3>1, <3>2, <3>3 DEF Attached, Add, MovedTo, fileVars
      <3>4. CASE <<c, n>> \notin cache \ raced
        <4>1. /\ <<c, n>> = <<th[t].c, th[t].n>> /\ file[th[t].n] = "ok"
              /\ ~\E u \in Thread : th[u].at \in {"unlink", "write"} /\ th[u].n = th[t].n
          BY <2>7, <3>2, <3>4, RestingTyped DEF Attached, Add, Done
        <4>2. n = th[t].n
          BY <4>1
        <4>3. QED
          BY <2>7, <3>1, <3>2, <4>1, <4>2 DEF Attached, Add, MovedTo, fileVars
      <3>5. QED
        BY <3>3, <3>4
    <2>8. QED
      BY <1>1, <2>1, <2>2, <2>3, <2>4, <2>5, <2>6, <2>7, StepKinds
  <1>2. CASE Crash
    BY <1>2, RestingTyped DEF Crash, fileVars
  <1>3. CASE UNCHANGED nVars
    BY <1>3 DEF nVars
  <1>4. QED
    BY <1>1, <1>2, <1>3 DEF NNext

-----------------------------------------------------------------------------
(* Subnets.                                                                *)

\* What was settled stays so, and what an allocation sees is settled.
LEMMA SettledStep ==
    ASSUME Types, Types', SawSettled, [NNext]_nVars
    PROVE  SawSettled'
  <1> USE DEF Types, FileTypes, SawSettled, Settled
  <1>1. ASSUME NEW t \in Thread, Begin(t) \/ Step(t) PROVE SawSettled'
    <2>1. CASE QuietStep(t)
      BY <2>1 DEF QuietStep, Moved, fileVars
    <2>2. CASE Chosen(t)
      <3>1. PICK r \in Req : Moved(t, r) /\ r.saw = {<<m, gen[m]>> : m \in Ok}
        BY <2>2, AllocateMoves DEF Chosen
      <3>2. UNCHANGED fileVars
        BY <2>2 DEF Chosen, Allocate
      <3>3. Settled(r.saw)
        BY <3>1 DEF Ok
      <3>4. QED
        BY <3>1, <3>2, <3>3 DEF Moved, fileVars
    <2>3. CASE Opened(t)
      <3>1. /\ file[th[t].n] = "absent"
            /\ file' = [file EXCEPT ![th[t].n] = "partial"]
            /\ gen' = [gen EXCEPT ![th[t].n] = gen[th[t].n] + 1]
            /\ UNCHANGED <<subnet, saw, cache, raced>>
            /\ MovedTo(t, "write")
        BY <2>3, OpenMoves DEF Opened
      <3>2. \A u \in Thread : th'[u].saw = th[u].saw
        BY <3>1 DEF MovedTo
      <3>3. ASSUME NEW m \in Net, NEW g \in Nat, g <= gen[m] /\ (g = gen[m] => file[m] # "partial")
            PROVE  g <= gen'[m] /\ (g = gen'[m] => file'[m] # "partial")
        <4>1. gen[m] \in Nat
          OBVIOUS
        <4>2. CASE m = th[t].n
          <5>1. gen'[m] = gen[m] + 1
            BY <3>1, <4>2
          <5>2. QED
            BY <3>3, <4>1, <5>1
        <4>3. CASE m # th[t].n
          BY <3>1, <3>3, <4>3
        <4>4. QED
          BY <4>2, <4>3
      <3>4. QED
        BY <3>1, <3>2, <3>3
    <2>4. CASE Wrote(t)
      <3>1. Moved(t, Resting)
        BY <2>4, DoneMoves DEF Wrote, Write
      <3>2. th[t].n \in Net /\ Settled(th[t].saw)
        BY DEF Req
      <3>3. QED
        BY <2>4, <3>1, <3>2, RestingTyped DEF Wrote, Write, Moved
    <2>5. CASE Removed(t)
      BY <2>5, DoneMoves, RestingTyped DEF Removed, Moved
    <2>6. CASE Passed(t)
      <3>1. MovedTo(t, "unlink")
        BY <2>6, GoMoves DEF Passed, Place
      <3>2. \A u \in Thread : th'[u].saw = th[u].saw
        BY <3>1 DEF MovedTo
      <3>3. QED
        BY <2>6, <3>2 DEF Passed, fileVars
    <2>7. CASE Attached(t)
      <3>1. MovedTo(t, "track")
        BY <2>7, GoMoves DEF Attached, Place
      <3>2. \A u \in Thread : th'[u].saw = th[u].saw
        BY <3>1 DEF MovedTo
      <3>3. QED
        BY <2>7, <3>2 DEF Attached, Add, fileVars
    <2>8. QED
      BY <1>1, <2>1, <2>2, <2>3, <2>4, <2>5, <2>6, <2>7, StepKinds
  <1>2. CASE Crash
    BY <1>2, RestingTyped DEF Crash, fileVars
  <1>3. CASE UNCHANGED nVars
    BY <1>3 DEF nVars
  <1>4. QED
    BY <1>1, <1>2, <1>3 DEF NNext

\* The generation an allocation saw is the one that is there, or it is gone.
LEMMA FreshStep ==
    ASSUME Types, Types', SubnetInv, [NNext]_nVars
    PROVE  PendingFresh' /\ SubnetsFresh'
  <1> USE DEF Types, FileTypes, SubnetInv, PendingFresh, SubnetsFresh, Ok
  <1>1. ASSUME NEW t \in Thread, Begin(t) \/ Step(t) PROVE PendingFresh' /\ SubnetsFresh'
    <2>1. CASE QuietStep(t)
      BY <2>1 DEF QuietStep, Moved, fileVars
    <2>2. CASE Chosen(t)
      <3>1. PICK r \in Req : Moved(t, r) /\ \A m \in Ok : subnet[m] # r.subnet
        BY <2>2, AllocateMoves DEF Chosen
      <3>2. UNCHANGED fileVars
        BY <2>2 DEF Chosen, Allocate
      <3>3. QED
        BY <3>1, <3>2 DEF Moved, fileVars
    <2>3. CASE Opened(t)
      <3>1. /\ file[th[t].n] = "absent"
            /\ file' = [file EXCEPT ![th[t].n] = "partial"]
            /\ gen' = [gen EXCEPT ![th[t].n] = gen[th[t].n] + 1]
            /\ UNCHANGED <<subnet, saw, cache, raced>>
            /\ MovedTo(t, "write")
        BY <2>3, OpenMoves DEF Opened
      <3>2. /\ \A u \in Thread : th'[u].saw = th[u].saw /\ th'[u].subnet = th[u].subnet
            /\ \A u \in Thread : th'[u].at \in {"open", "write"} => th[u].at \in {"open", "write"}
        BY <2>3, <3>1 DEF MovedTo, Opened, Open
      <3>3. \A m \in Net : file'[m] = "ok" => file[m] = "ok" /\ gen'[m] = gen[m]
        BY <3>1
      <3>4. QED
        BY <3>1, <3>2, <3>3
    <2>4. CASE Wrote(t)
      <3> DEFINE n == th[t].n
      <3>1. Moved(t, Resting) /\ n \in Net
        BY <2>4, DoneMoves DEF Wrote, Write, Req
      <3>2. /\ file[n] = "partial" /\ th[t].at = "write"
            /\ file' = [file EXCEPT ![n] = "ok"] /\ subnet' = [subnet EXCEPT ![n] = th[t].subnet]
            /\ saw' = [saw EXCEPT ![n] = th[t].saw] /\ gen' = gen
        BY <2>4 DEF Wrote, Write
      <3> HIDE DEF n
      <3>3. /\ \A m \in Net : <<n, gen[n]>> \notin saw[m]
            /\ \A u \in Thread : <<n, gen[n]>> \notin th[u].saw
        BY <3>1, <3>2 DEF SawSettled, Settled
      <3>4. PendingFresh'
        BY <3>1, <3>2, <3>3, RestingTyped DEF Moved
      <3>5. \A m \in Net : file[m] = "ok" /\ <<m, gen[m]>> \in th[t].saw => subnet[m] # th[t].subnet
        BY <3>2
      <3>6. SubnetsFresh'
        BY <3>1, <3>2, <3>3, <3>5
      <3>7. QED
        BY <3>4, <3>6
    <2>5. CASE Removed(t)
      BY <2>5, DoneMoves, RestingTyped DEF Removed, Moved
    <2>6. CASE Passed(t)
      <3>1. MovedTo(t, "unlink")
        BY <2>6, GoMoves DEF Passed, Place
      <3>2. th'[t].at = "unlink"
        BY <3>1 DEF MovedTo
      <3>3. QED
        BY <2>6, <3>1, <3>2 DEF Passed, fileVars, MovedTo
    <2>7. CASE Attached(t)
      <3>1. MovedTo(t, "track")
        BY <2>7, GoMoves DEF Attached, Place
      <3>2. th'[t].at = "track"
        BY <3>1 DEF MovedTo
      <3>3. QED
        BY <2>7, <3>1, <3>2 DEF Attached, Add, fileVars, MovedTo
    <2>8. QED
      BY <1>1, <2>1, <2>2, <2>3, <2>4, <2>5, <2>6, <2>7, StepKinds
  <1>2. CASE Crash
    BY <1>2, RestingTyped DEF Crash, fileVars
  <1>3. CASE UNCHANGED nVars
    BY <1>3 DEF nVars
  <1>4. QED
    BY <1>1, <1>2, <1>3 DEF NNext

-----------------------------------------------------------------------------
(* The theorems.                                                           *)

\* At first there are no files and no attachments.
LEMMA NetworksInit == NInit => Types /\ AttachSafe /\ SubnetInv
  BY RestingTyped DEF NInit, Types, FileTypes, AttachSafe, SubnetInv, SawSettled, Settled,
                      PendingFresh, SubnetsFresh, Ok

\* The types hold throughout.
LEMMA TypesInvariant == NSpec => []Types
  BY NetworksInit, TypesStep, PTL DEF NSpec

\* A network with a container attached is not removed, across restarts and
\* whatever requests overlap (adapter.go:335-383).
THEOREM AttachmentsKeepNetworks == NSpec => []AttachedNetworksStay
  <1>1. AttachSafe => AttachedNetworksStay
    BY DEF AttachSafe, AttachedNetworksStay
  <1>2. QED
    BY <1>1, NetworksInit, AttachStep, TypesInvariant, PTL DEF NSpec

\* No network gets the subnet of one that allocateSubnet saw
\* (networkconfig.go:212-248).
THEOREM FreshSubnets == NSpec => []SubnetsFresh
  <1>1. Types /\ Types' /\ SubnetInv /\ [NNext]_nVars => SubnetInv'
    BY SettledStep, FreshStep DEF SubnetInv
  <1>2. SubnetInv => SubnetsFresh
    BY DEF SubnetInv
  <1>3. QED
    BY <1>1, <1>2, NetworksInit, TypesInvariant, PTL DEF NSpec

\* O_EXCL is enough: no creation overwrites a network that is there, in whatever
\* state the requests are (networkconfig.go:111).
THEOREM CreationExclusive == NSpec => ExclusiveCreate
  <1> DEFINE Excl == \A n \in Net : file[n] = "ok" =>
                        file'[n] \in {"ok", "absent"} /\ (file'[n] = "ok" => gen'[n] = gen[n])
  <1>1. Types /\ [NNext]_nVars => [Excl]_nVars
    <2> SUFFICES ASSUME Types, NNext PROVE Excl
      OBVIOUS
    <2> USE DEF Types, FileTypes
    <2>1. ASSUME NEW t \in Thread, Begin(t) \/ Step(t) PROVE Excl
      <3>1. CASE QuietStep(t)
        BY <3>1 DEF QuietStep, fileVars
      <3>2. CASE Chosen(t) \/ Passed(t) \/ Attached(t)
        BY <3>2 DEF Chosen, Allocate, Passed, Attached, Add, fileVars
      <3>3. CASE Opened(t)
        BY <3>3, OpenMoves DEF Opened
      <3>4. CASE Wrote(t)
        BY <3>4 DEF Wrote, Write
      <3>5. CASE Removed(t)
        BY <3>5 DEF Removed
      <3>6. QED
        BY <2>1, <3>1, <3>2, <3>3, <3>4, <3>5, StepKinds
    <2>2. CASE Crash
      BY <2>2 DEF Crash, fileVars
    <2>3. QED
      BY <2>1, <2>2 DEF NNext
  <1>2. QED
    BY <1>1, TypesInvariant, PTL DEF NSpec, ExclusiveCreate
=============================================================================
