---------------------------- MODULE ImagesProofs ----------------------------
(***************************************************************************)
(* The registry's two indexes agree, and the registry implements the name  *)
(* space, for every set of IDs, names and data.  RegTypeOK /\              *)
(* IndexConsistent is inductive as it stands: the name check of Save reads *)
(* byName only, so the proof needs BOTH directions of IndexConsistent, one *)
(* to know that a free entry means a free name and one to know that the    *)
(* entry of the old name is the container's own.                           *)
(*                                                                         *)
(* On that registry, for any number of images, tags, containers and        *)
(* requests: the digest recorded for a container is that of its image, and *)
(* a removal that nothing disturbs spares the images in use.  Both need    *)
(* what a request has found out and may still rely on (RequestInv).        *)
(***************************************************************************)
EXTENDS Images, NaturalsInduction, WellFoundedInduction, TLAPS

-----------------------------------------------------------------------------
(* The registry.                                                           *)

RegInv == RegTypeOK /\ IndexConsistent

\* An empty registry is consistent.
LEMMA InitRegInv == RegInit => RegInv
  BY RegistryAssumption
  DEF RegInit, RegInv, RegTypeOK, IndexConsistent, Registered, Container

\* Storing a record with a name that is not indexed for another container
\* keeps the indexes consistent (Save and Rename share this argument).
LEMMA StoreKeepsInv ==
  ASSUME RegInv, NEW id \in ContainerID, NEW c \in Container,
         ~NameConflict(id, c.name),
         byID' = [byID EXCEPT ![id] = c],
         byName' = Reindexed(id, byID[id], c.name)
  PROVE  RegInv'
  <1> USE RegistryAssumption DEF RegInv, RegTypeOK
  <1>1. RegTypeOK'
    BY DEF Reindexed, Container
  <1>2. ASSUME NEW n \in Name, byName'[n] # NoID
        PROVE  Registered(byName[n])' /\ byID'[byName'[n]].name = n
    <2>1. CASE n = c.name
      BY <2>1 DEF Reindexed, Registered, Container
    <2>2. CASE n # c.name
      <3>1. byName'[n] = byName[n] /\ byName[n] # NoID
        BY <1>2, <2>2 DEF Reindexed
      <3>2. Registered(byName[n]) /\ byID[byName[n]].name = n
        BY <3>1 DEF IndexConsistent
      <3>3. byName[n] # id
        BY <1>2, <2>2, <3>2 DEF Reindexed, Registered
      <3>4. byName[n] \in ContainerID
        BY <3>1
      <3>5. byID'[byName[n]] = byID[byName[n]]
        BY <3>3, <3>4
      <3> QED
        BY <3>1, <3>2, <3>5 DEF Registered
    <2> QED
      BY <2>1, <2>2
  <1>3. ASSUME NEW i \in ContainerID, Registered(i)', byID'[i].name \in Name
        PROVE  byName'[byID'[i].name] = i
    <2>1. CASE i = id
      BY <1>3, <2>1 DEF Reindexed
    <2>2. CASE i # id
      <3>1. byID'[i] = byID[i]
        BY <2>2
      <3>2. byName[byID[i].name] = i
        BY <1>3, <3>1 DEF IndexConsistent, Registered
      <3>3. byID[i].name # c.name
        BY <1>3, <2>2, <3>1, <3>2 DEF NameConflict, NameInUse
      <3>4. ASSUME byID[id] # Absent PROVE byID[id].name # byID[i].name
        BY <1>3, <2>2, <3>1, <3>2, <3>4 DEF IndexConsistent, Registered
      <3> QED
        BY <1>3, <3>1, <3>2, <3>3, <3>4 DEF Reindexed
    <2> QED
      BY <2>1, <2>2
  <1> QED
    BY <1>1, <1>2, <1>3 DEF IndexConsistent

\* Dropping a container together with its own index entry keeps them consistent.
LEMMA RemoveKeepsInv ==
  ASSUME RegInv, NEW id \in ContainerID, Remove(id)
  PROVE  RegInv'
  <1> USE RegistryAssumption DEF RegInv, RegTypeOK
  <1>1. RegTypeOK'
    BY DEF Remove, Reindexed
  <1>2. ASSUME NEW n \in Name, byName'[n] # NoID
        PROVE  Registered(byName[n])' /\ byID'[byName'[n]].name = n
    <2>1. byName'[n] = byName[n] /\ n # byID[id].name
      BY <1>2 DEF Remove, Reindexed, Registered
    <2>2. Registered(byName[n]) /\ byID[byName[n]].name = n /\ byName[n] \in ContainerID
      BY <1>2, <2>1 DEF IndexConsistent
    <2>3. byName[n] # id
      BY <2>1, <2>2
    <2> QED
      BY <2>1, <2>2, <2>3 DEF Remove, Registered
  <1>3. ASSUME NEW i \in ContainerID, Registered(i)', byID'[i].name \in Name
        PROVE  byName'[byID'[i].name] = i
    <2>1. i # id /\ byID'[i] = byID[i]
      BY <1>3 DEF Remove, Registered
    <2>2. byName[byID[i].name] = i /\ byID[id].name # byID[i].name
      BY <1>3, <2>1 DEF IndexConsistent, Registered, Remove
    <2> QED
      BY <1>3, <2>1, <2>2 DEF Remove, Reindexed
  <1> QED
    BY <1>1, <1>2, <1>3 DEF IndexConsistent

\* A renamed container is a stored container with another name.
LEMMA RenameIsStore ==
  ASSUME RegInv, NEW id \in ContainerID, NEW n \in Name, Rename(id, n)
  PROVE  /\ [byID[id] EXCEPT !.name = n] \in Container
         /\ byID' = [byID EXCEPT ![id] = [byID[id] EXCEPT !.name = n]]
         /\ [byID[id] EXCEPT !.name = n].name = n
  BY RegistryAssumption DEF Rename, Registered, RegInv, RegTypeOK, Container

\* Every operation keeps the indexes consistent.
LEMMA NextRegInv == RegInv /\ [RegNext]_regVars => RegInv'
  <1> SUFFICES ASSUME RegInv, [RegNext]_regVars PROVE RegInv'
    OBVIOUS
  <1>1. ASSUME NEW id \in ContainerID, NEW c \in Container, Save(id, c)
        PROVE  RegInv'
    BY <1>1, StoreKeepsInv DEF Save
  <1>2. ASSUME NEW id \in ContainerID, NEW n \in Name, Rename(id, n)
        PROVE  RegInv'
    <2> DEFINE c == [byID[id] EXCEPT !.name = n]
    <2>1. c \in Container /\ byID' = [byID EXCEPT ![id] = c] /\ c.name = n
      BY <1>2, RenameIsStore
    <2>2. ~NameConflict(id, c.name) /\ byName' = Reindexed(id, byID[id], c.name)
      BY <1>2, <2>1 DEF Rename
    <2> HIDE DEF c
    <2> QED
      BY <2>1, <2>2, StoreKeepsInv
  <1>3. ASSUME NEW id \in ContainerID, Remove(id)
        PROVE  RegInv'
    BY <1>3, RemoveKeepsInv
  <1>4. CASE UNCHANGED regVars
    BY <1>4 DEF regVars, RegInv, RegTypeOK, IndexConsistent, Registered
  <1> QED
    BY <1>1, <1>2, <1>3, <1>4 DEF RegNext

\* Every reachable registry has well-typed indexes (registry.go:28-32).
THEOREM RegistryTypeCorrect == RegSpec => []RegTypeOK
  BY InitRegInv, NextRegInv, PTL DEF RegSpec, RegInv

\* GetByName and the name check of Save see exactly the names in use
\* (registry.go:59-68, 126-136).
THEOREM RegistryIndexConsistent == RegSpec => []IndexConsistent
  BY InitRegInv, NextRegInv, PTL DEF RegSpec, RegInv

-----------------------------------------------------------------------------
(* Refinement: [id |-> the name in byID] behaves like NameSpace.           *)

nameMap == [id \in ContainerID |->
              IF byID[id] = Absent THEN Absent ELSE byID[id].name]

\* Storing c under id is Put(id, c.name): the index check rules out every
\* other holder of the name.
LEMMA StoreIsPut ==
  ASSUME RegInv, NEW id \in ContainerID, NEW c \in Container,
         ~NameConflict(id, c.name),
         byID' = [byID EXCEPT ![id] = c]
  PROVE  NS!Put(id, c.name)
  <1> USE RegistryAssumption DEF RegInv, RegTypeOK
  <1>1. ASSUME c.name # NoName, NEW other \in ContainerID \ {id}
        PROVE  nameMap[other] # c.name
    <2>1. c.name \in Name
      BY <1>1 DEF Container
    <2>2. CASE byID[other] = Absent
      BY <2>1, <2>2 DEF nameMap
    <2>3. CASE byID[other] # Absent
      BY <1>1, <2>1, <2>3 DEF nameMap, IndexConsistent, Registered, NameConflict, NameInUse
    <2> QED
      BY <2>2, <2>3
  <1>2. nameMap' = [nameMap EXCEPT ![id] = c.name]
    BY DEF nameMap, Container
  <1> QED
    BY <1>1, <1>2 DEF NS!Put, NS!FreeFor, nameMap

\* Every operation is a step of the name space, or none.
LEMMA StepIsNameStep == RegInv /\ [RegNext]_regVars => [NS!NSNext]_nameMap
  <1> SUFFICES ASSUME RegInv, [RegNext]_regVars PROVE [NS!NSNext]_nameMap
    OBVIOUS
  <1> USE RegistryAssumption
  <1>1. ASSUME NEW id \in ContainerID, NEW c \in Container, Save(id, c)
        PROVE  NS!NSNext
    <2>1. NS!Put(id, c.name)
      BY <1>1, StoreIsPut DEF Save
    <2> QED
      BY <2>1 DEF NS!NSNext, Container
  <1>2. ASSUME NEW id \in ContainerID, NEW n \in Name, Rename(id, n)
        PROVE  NS!NSNext
    <2> DEFINE c == [byID[id] EXCEPT !.name = n]
    <2>1. c \in Container /\ byID' = [byID EXCEPT ![id] = c] /\ c.name = n
      BY <1>2, RenameIsStore
    <2>2. ~NameConflict(id, c.name)
      BY <1>2, <2>1 DEF Rename
    <2> HIDE DEF c
    <2>3. NS!Put(id, n)
      BY <2>1, <2>2, StoreIsPut
    <2> QED
      BY <2>3 DEF NS!NSNext
  <1>3. ASSUME NEW id \in ContainerID, Remove(id)
        PROVE  NS!NSNext
    <2>1. nameMap' = [nameMap EXCEPT ![id] = Absent]
      BY <1>3 DEF nameMap, Remove, RegInv, RegTypeOK
    <2> QED
      BY <2>1 DEF NS!NSNext, NS!Drop, nameMap
  <1>4. CASE UNCHANGED regVars
    BY <1>4 DEF regVars, nameMap
  <1> QED
    BY <1>1, <1>2, <1>3, <1>4 DEF RegNext

\* The registry implements the name space: consulting one entry of byName is
\* as good as asking every container (registry.go:126-128 and 96-98).
THEOREM RegistryImplementsNameSpace == RegSpec => ImplementsNameSpace
  <1>1. RegInit => NS!NSInit
    BY DEF RegInit, NS!NSInit
  <1>2. RegInv /\ [RegNext]_regVars =>
          [NS!NSNext]_[id \in ContainerID |->
              IF byID[id] = Absent THEN Absent ELSE byID[id].name]
    BY StepIsNameStep DEF nameMap
  <1> QED
    BY <1>1, <1>2, InitRegInv, NextRegInv, PTL
    DEF RegSpec, ImplementsNameSpace, NS!NSSpec

\* Two registered containers never share a name, however requests interleave
\* and whatever stale copies they save (registry.go:110-139).
THEOREM RegistryNameUniqueness == RegSpec => []RegistryNamesUnique
  <1>1. RegInv => RegistryNamesUnique
    BY RegistryAssumption
    DEF RegInv, RegTypeOK, IndexConsistent, Registered, Container,
        RegistryNamesUnique, NS!NamesUnique
  <1> QED
    BY <1>1, InitRegInv, NextRegInv, PTL DEF RegSpec

-----------------------------------------------------------------------------
(* Images.                                                                 *)

\* m < n, as a relation.
Below == {ss \in Nat \X Nat : ss[1] < ss[2]}

\* A set of numbers that is not empty has a least element, and Min finds it.
LEMMA MinIn ==
    ASSUME NEW S \in SUBSET Nat, S # {}
    PROVE  Min(S) \in S /\ \A y \in S : Min(S) <= y
  <1>1. OpToRel(<, Nat) = Below
    BY Zenon DEF OpToRel, Below
  <1>2. IsWellFoundedOn(Below, Nat)
    BY <1>1, NatLessThanWellFounded, Zenon
  <1>3. PICK x \in S : \A y \in S : ~(<<y, x>> \in Below)
    BY <1>2, WFMin
  <1>4. ASSUME NEW y \in S PROVE x <= y
    <2>1. x \in Nat /\ y \in Nat /\ ~(<<y, x>> \in Below)
      BY <1>3
    <2>2. y < x => <<y, x>> \in Below
      BY <2>1 DEF Below
    <2>3. QED
      BY <2>1, <2>2
  <1>5. QED
    BY <1>4, Zenon DEF Min

\* What is known of a request by its place.  A create that was not disturbed
\* finds the image that it resolved under the tag it chose, or no image.
Making(t) ==
    th[t].at = "c_make" =>
        th[t].dig \in Digest /\ (th[t].calm => tags[th[t].tag] \in {th[t].dig, NoImage})

\* A container that is made and not yet registered is its request's alone.
Saving(t) ==
    th[t].at = "c_save" =>
        /\ th[t].id \in ContainerID /\ th[t].dig \in Digest
        /\ ~Registered(th[t].id) /\ content[th[t].id] \in Digest
        /\ th[t].id \notin raced => content[th[t].id] = th[t].dig

\* The containers made from image d may lose a tag of it to request t.
Spared(t, d) ==
    \A c \in ContainerID :
        (Registered(c) /\ byID[c].data.dig = d) => byID[c].data.st # "running" /\ th[t].force

\* A removal that was not disturbed.
Checking(t) ==
    th[t].at = "r_check" =>
        /\ th[t].dig \in Digest
        /\ th[t].target \in Digest => th[t].dig = th[t].target
        /\ (th[t].calm /\ th[t].target \in Ref) => tags[th[t].target] \in {th[t].dig, NoImage}
Deleting(t) ==
    th[t].at = "r_delete" =>
        th[t].target \in Ref /\ (th[t].calm => Spared(t, tags[th[t].target]))
Dropping(t) ==
    /\ (th[t].at \in {"r_list", "r_drop"} /\ th[t].calm /\ th[t].target \in Digest) =>
          Spared(t, th[t].target)
    /\ (th[t].at = "r_drop" /\ th[t].calm) => tags[th[t].tag] \in {MeantID(th[t].target), NoImage}

RequestInv ==
    \A t \in Thread : Making(t) /\ Saving(t) /\ Checking(t) /\ Deleting(t) /\ Dropping(t)
ApartInv ==
    \A t, u \in Thread :
        (t # u /\ th[t].at = "c_save" /\ th[u].at = "c_save") => th[t].id # th[u].id
ContentInv == \A c \in ContainerID : Registered(c) => content[c] \in Digest

ImagesInv == ITypeOK /\ RequestInv /\ ApartInv /\ ContentInv /\ DigestPinned

Asking == [at : Place, target : Ref \cup Digest, name : Name \cup {NoName},
           force : BOOLEAN, dig : Digest \cup {NoImage}, tag : Ref,
           tags : SUBSET Ref, id : ContainerID \cup {NoID}, calm : BOOLEAN]

\* What the other steps may do to request u: they may disturb it, but then it
\* knows; if it is not disturbed, tags that it has seen only go away, and so do
\* containers; a container that it has made is left to it.
Eased(u) ==
    /\ th'[u].at = th[u].at /\ th'[u].target = th[u].target /\ th'[u].name = th[u].name
    /\ th'[u].force = th[u].force /\ th'[u].dig = th[u].dig /\ th'[u].tag = th[u].tag
    /\ th'[u].tags = th[u].tags /\ th'[u].id = th[u].id
    /\ th'[u].calm => th[u].calm

Quiet(u) ==
    /\ Eased(u)
    /\ (th[u].at \in Removing \cup {"c_make"} /\ th'[u].calm) =>
          \A r \in Ref : tags'[r] \in {tags[r], NoImage}
    /\ (th[u].at \in Removing /\ th'[u].calm) =>
          \A c \in ContainerID : byID'[c] # Absent => byID'[c] = byID[c]
    /\ th[u].at = "c_save" =>
          /\ byID'[th[u].id] = byID[th[u].id] /\ content'[th[u].id] = content[th[u].id]
          /\ th[u].id \in raced' <=> th[u].id \in raced

Known(u) == Making(u) /\ Saving(u) /\ Checking(u) /\ Deleting(u) /\ Dropping(u)

\* A registered container has a record with an image and a state.
LEMMA RecordParts ==
    ASSUME RegTypeOK, NEW c \in ContainerID, Registered(c)
    PROVE  /\ byID[c] \in Container /\ byID[c].data.dig \in Digest /\ byID[c].data.st \in State
           /\ byID[c].name \in Name \cup {NoName} /\ byID[c].data.ref \in Ref \cup Digest
  BY ImagesData DEF RegTypeOK, Registered, Container, ImageData

\* Such steps leave what u knows true.
LEMMA QuietKeeps ==
    ASSUME ITypeOK, RegTypeOK, RegTypeOK', NEW u \in Thread, Known(u), Quiet(u)
    PROVE  Known(u)'
  <1>0. th[u] \in Asking /\ NoImage \notin Digest
    BY ImagesAssumption DEF ITypeOK, Asking
  <1>e. Eased(u)
    BY DEF Quiet
  <1>1. Making(u)'
    BY <1>0, <1>e DEF Known, Making, Quiet, Eased, Asking
  <1>2. Saving(u)'
    BY <1>e DEF Known, Saving, Quiet, Eased, Registered
  <1>3. Checking(u)'
    BY <1>0, <1>e DEF Known, Checking, Quiet, Eased, Removing
  <1>4. ASSUME NEW d, Spared(u, d), th[u].at \in Removing, th'[u].calm
        PROVE  \A c \in ContainerID : (byID'[c] # Absent /\ byID'[c].data.dig = d) =>
                   byID'[c].data.st # "running" /\ th'[u].force
    BY <1>4, <1>e DEF Spared, Quiet, Eased, Registered
  <1>5. Deleting(u)'
    <2> SUFFICES ASSUME th'[u].at = "r_delete", th'[u].calm, NEW c \in ContainerID,
                        byID'[c] # Absent, byID'[c].data.dig = tags'[th'[u].target]
                 PROVE  byID'[c].data.st # "running" /\ th'[u].force
      BY <1>e DEF Known, Deleting, Spared, Eased, Registered
    <2>1. byID'[c].data.dig # NoImage
      BY <1>0, ImagesData DEF RegTypeOK, Container, ImageData
    <2>2. th[u].at = "r_delete" /\ th[u].target \in Ref /\ Spared(u, tags[th[u].target])
      BY <1>e DEF Known, Deleting, Eased
    <2>3. tags'[th[u].target] = tags[th[u].target]
      BY <1>e, <2>1, <2>2 DEF Quiet, Eased, Removing
    <2>4. QED
      BY <1>4, <1>e, <2>2, <2>3 DEF Eased, Removing
  <1>6. Dropping(u)'
    <2>1. (th'[u].at \in {"r_list", "r_drop"} /\ th'[u].calm /\ th'[u].target \in Digest) =>
              Spared(u, th[u].target)
      BY <1>e DEF Known, Dropping, Eased
    <2>2. (th'[u].at \in {"r_list", "r_drop"} /\ th'[u].calm /\ th'[u].target \in Digest) =>
              Spared(u, th[u].target)'
      BY <1>4, <1>e, <2>1 DEF Eased, Spared, Registered, Removing
    <2>3. (th'[u].at = "r_drop" /\ th'[u].calm) =>
              tags'[th'[u].tag] \in {MeantID(th'[u].target), NoImage}
      BY <1>0, <1>e DEF Known, Dropping, Quiet, Eased, Removing, Asking
    <2>4. QED
      BY <1>e, <2>2, <2>3 DEF Dropping, Eased, Spared, MeantID
  <1>7. QED
    BY <1>1, <1>2, <1>3, <1>5, <1>6 DEF Known

\* A request that is over knows nothing.
LEMMA RestingKnows ==
    ASSUME NEW t \in Thread, th'[t].at \in {"idle", "c_inspect"}
    PROVE  Known(t)'
  BY DEF Known, Making, Saving, Checking, Deleting, Dropping

\* A step keeps the invariant if it does so for its own request and container.
LEMMA ImagesKept ==
    ASSUME RegTypeOK, RegTypeOK', ImagesInv,
           th' \in [Thread -> Asking], tags' \in [Ref -> Digest \cup {NoImage}],
           content' \in [ContainerID -> Digest \cup {NoImage}], raced' \subseteq ContainerID,
           \A u \in Thread :
              \/ Quiet(u)
              \/ /\ Known(u)'
                 /\ th'[u].at = "c_save" => \A v \in Thread \ {u} :
                        Quiet(v) /\ (th[v].at = "c_save" => th[v].id # th'[u].id),
           \A c \in ContainerID : byID'[c] # Absent =>
              content'[c] \in Digest /\ (c \notin raced' => byID'[c].data.dig = content'[c])
    PROVE  ImagesInv'
  <1>1. ITypeOK'
    BY DEF ITypeOK, Asking
  <1>2. RequestInv'
    <2>1. ASSUME NEW u \in Thread PROVE Known(u)'
      BY QuietKeeps DEF ImagesInv, RequestInv, Known
    <2>2. QED
      BY <2>1 DEF RequestInv, Known
  <1>3. ApartInv'
    <2> SUFFICES ASSUME NEW u \in Thread, NEW v \in Thread, u # v,
                        th'[u].at = "c_save", th'[v].at = "c_save"
                 PROVE  th'[u].id # th'[v].id
      BY DEF ApartInv
    <2>1. Quiet(u) /\ Quiet(v) => th'[u].id # th'[v].id
      BY DEF Quiet, Eased, ImagesInv, ApartInv
    <2>2. QED
      BY <2>1 DEF Quiet, Eased
  <1>4. ContentInv' /\ DigestPinned'
    BY DEF ContentInv, DigestPinned, Registered
  <1>5. QED
    BY <1>1, <1>2, <1>3, <1>4 DEF ImagesInv

\* A step of request t that changes nothing but the request.
LEMMA OwnKept ==
    ASSUME RegTypeOK, ImagesInv, NEW t \in Thread, NEW r \in Asking,
           UNCHANGED <<byID, byName, tags, content, raced>>,
           th' = [th EXCEPT ![t] = r], r.at # "c_save", Known(t)'
    PROVE  ImagesInv'
  <1>1. RegTypeOK' /\ th \in [Thread -> Asking]
    BY DEF RegTypeOK, ImagesInv, ITypeOK, Asking
  <1>2. th' \in [Thread -> Asking] /\ th'[t] = r /\ \A u \in Thread \ {t} : th'[u] = th[u]
    BY <1>1
  <1>3. \A u \in Thread \ {t} : Quiet(u)
    BY <1>2 DEF Quiet, Eased
  <1>4. \A c \in ContainerID : byID'[c] # Absent =>
            content'[c] \in Digest /\ (c \notin raced' => byID'[c].data.dig = content'[c])
    BY DEF ImagesInv, ContentInv, DigestPinned, Registered
  <1>5. QED
    BY <1>1, <1>2, <1>3, <1>4, ImagesKept DEF ImagesInv, ITypeOK

\* A request that ends without having changed anything.
LEMMA DoneKept ==
    ASSUME RegTypeOK, ImagesInv, NEW t \in Thread, Done(t),
           UNCHANGED <<byID, byName, tags, content, raced>>
    PROVE  ImagesInv'
  <1>0. 1 \in Ref
    BY ImagesAssumption DEF Ref
  <1>1. Resting \in Asking /\ Resting.at = "idle"
    BY <1>0 DEF Resting, Asking, Place
  <1>2. th' = [th EXCEPT ![t] = Resting] /\ th'[t] = Resting
    BY DEF Done, ImagesInv, ITypeOK
  <1>3. Known(t)'
    BY <1>1, <1>2, RestingKnows
  <1>4. QED
    BY <1>1, <1>2, <1>3, OwnKept

\* What ContainerdStore.Get finds is an image that has a tag, and the tag it was
\* asked for if there is one (client.go:219-247).
LEMMA ResolvedFacts ==
    ASSUME ITypeOK, NEW x \in Ref \cup Digest, Resolved(x) # NoImage
    PROVE  /\ Resolved(x) \in Digest
           /\ x \in Digest => Resolved(x) = x
           /\ x \in Ref => tags[x] \in {Resolved(x), NoImage}
  BY ImagesAssumption DEF ITypeOK, Resolved, IsImageID, MeantID

\* ContainerCreate up to the image (containers.go:34-60, 576-588).
LEMMA LookUpKept ==
    ASSUME RegTypeOK, ImagesInv, NEW t \in Thread, Create(t) \/ CreateInspect(t)
    PROVE  ImagesInv'
  <1>0. th \in [Thread -> Asking] /\ th[t] \in Asking /\ ITypeOK
    BY DEF ImagesInv, ITypeOK, Asking
  <1>1. CASE Create(t)
    <2>1. PICK x \in CreateFrom, n \in CreateName :
              th' = [th EXCEPT ![t] = [Resting EXCEPT !.at = "c_inspect", !.target = x, !.name = n]]
      BY <1>1 DEF Create
    <2> DEFINE r == [Resting EXCEPT !.at = "c_inspect", !.target = x, !.name = n]
    <2>2. 1 \in Ref /\ x \in Ref \cup Digest /\ n \in Name \cup {NoName}
      BY ImagesAssumption DEF Ref
    <2>3. r \in Asking /\ r.at = "c_inspect"
      BY <2>2 DEF Resting, Asking, Place
    <2> HIDE DEF r
    <2>4. th' = [th EXCEPT ![t] = r] /\ th'[t] = r
      BY <1>0, <2>1 DEF r
    <2>5. Known(t)'
      BY <2>3, <2>4, RestingKnows
    <2>6. UNCHANGED <<byID, byName, tags, content, raced>>
      BY <1>1 DEF Create
    <2>7. QED
      BY <2>3, <2>4, <2>5, <2>6, OwnKept
  <1>2. CASE CreateInspect(t)
    <2>1. UNCHANGED <<byID, byName, tags, content, raced>> /\ th[t].at = "c_inspect"
      BY <1>2 DEF CreateInspect
    <2>2. CASE Done(t)
      BY <2>1, <2>2, DoneKept
    <2>3. CASE ~Done(t)
      <3> DEFINE d == Resolved(th[t].target)
                 m == Min(Siblings(d))
                 r == [th[t] EXCEPT !.at = "c_make", !.dig = d, !.tag = m]
      <3>1. d # NoImage /\ Siblings(d) # {} /\ th' = [th EXCEPT ![t] = r]
        BY <1>2, <2>3 DEF CreateInspect
      <3>2. Siblings(d) \in SUBSET Nat /\ Siblings(d) \subseteq Ref
        BY ImagesAssumption DEF Siblings, Ref
      <3>3. m \in Siblings(d)
        <4> HIDE DEF d
        <4> QED
          BY <3>1, <3>2, MinIn
      <3>4. m \in Ref /\ tags[m] = d
        <4> HIDE DEF d, m
        <4> QED
          BY <3>2, <3>3 DEF Siblings
      <3>5. d \in Digest
        BY <1>0, <3>1, <3>4 DEF ITypeOK
      <3> HIDE DEF d, m
      <3>6. r \in Asking /\ r.at = "c_make" /\ r.dig = d /\ r.tag = m
        BY <1>0, <3>4, <3>5 DEF Asking, Place
      <3> HIDE DEF r
      <3>7. th'[t] = r
        BY <1>0, <3>1
      <3>8. Known(t)'
        BY <2>1, <3>4, <3>5, <3>6, <3>7 DEF Known, Making, Saving, Checking, Deleting, Dropping
      <3>9. QED
        BY <2>1, <3>1, <3>6, <3>8, OwnKept
    <2>4. QED
      BY <2>2, <2>3
  <1>3. QED
    BY <1>1, <1>2

\* ImageRemove up to the deletion (images.go:56-105, adapter.go:183-200).
LEMMA CheckKept ==
    ASSUME RegTypeOK, ImagesInv, NEW t \in Thread,
           RemoveImage(t) \/ CheckImageInUse(t) \/ ListReferences(t)
    PROVE  ImagesInv'
  <1>0. th \in [Thread -> Asking] /\ th[t] \in Asking /\ ITypeOK /\ Known(t)
    BY DEF ImagesInv, ITypeOK, Asking, RequestInv, Known
  <1>u. UNCHANGED <<byID, byName, tags, content, raced>>
    BY DEF RemoveImage, CheckImageInUse, ListReferences
  <1>d. CASE Done(t)
    BY <1>d, <1>u, DoneKept
  <1>1. CASE RemoveImage(t)
    <2>1. PICK x \in Ref \cup Digest, f \in BOOLEAN :
            /\ Resolved(x) # NoImage
            /\ th' = [th EXCEPT ![t] = [Resting EXCEPT !.at = "r_check", !.target = x, !.force = f,
                                         !.dig = Resolved(x), !.tags = Siblings(Resolved(x))]]
      BY <1>1 DEF RemoveImage
    <2>2. /\ Resolved(x) \in Digest /\ (x \in Digest => Resolved(x) = x)
          /\ (x \in Ref => tags[x] \in {Resolved(x), NoImage})
      BY <1>0, <2>1, ResolvedFacts
    <2> DEFINE d == Resolved(x)
               s == Siblings(d)
               r == [Resting EXCEPT !.at = "r_check", !.target = x, !.force = f, !.dig = d, !.tags = s]
    <2>3. d \in Digest /\ s \in SUBSET Ref /\ 1 \in Ref
      BY <2>2, ImagesAssumption DEF Siblings, Ref
    <2>4. th' = [th EXCEPT ![t] = r]
      BY <2>1
    <2> HIDE DEF d, s
    <2>5. r \in Asking /\ r.at = "r_check" /\ r.target = x /\ r.dig = d
      BY <2>3 DEF Resting, Asking, Place, Removing
    <2> HIDE DEF r
    <2>6. th'[t] = r
      BY <1>0, <2>4
    <2>7. Known(t)'
      BY <1>u, <2>2, <2>5, <2>6 DEF Known, Making, Saving, Checking, Deleting, Dropping, d
    <2>8. QED
      BY <1>u, <2>4, <2>5, <2>7, OwnKept
  <1>2. CASE CheckImageInUse(t) /\ ~Done(t)
    <2> DEFINE p == IF IsImageID(th[t].target) THEN "r_list" ELSE "r_delete"
               r == [th[t] EXCEPT !.at = p, !.dig = NoImage, !.tags = {}]
    <2>1. /\ th' = [th EXCEPT ![t] = r] /\ th[t].at = "r_check"
          /\ ~ \E c \in {c \in ContainerID : ContainerUsesImage(c, t)} :
                 byID[c].data.st = "running" \/ ~th[t].force
      BY <1>2 DEF CheckImageInUse
    <2>2. Spared(t, th[t].dig)
      BY <2>1 DEF Spared, ContainerUsesImage
    <2>3. r \in Asking /\ r.at = p /\ r.target = th[t].target /\ r.force = th[t].force /\ r.calm = th[t].calm
      BY <1>0 DEF Asking, Place, Removing
    <2> HIDE DEF r
    <2>4. th'[t] = r
      BY <1>0, <2>1
    <2>5. p = "r_delete" => th[t].target \in Ref
      BY <1>0 DEF IsImageID, Asking
    <2>6. /\ th[t].target \in Digest => th[t].dig = th[t].target
          /\ (th[t].calm /\ th[t].target \in Ref) => tags[th[t].target] \in {th[t].dig, NoImage}
      BY <1>0, <2>1 DEF Known, Checking
    <2>7. Spared(t, NoImage)
      BY RecordParts, ImagesAssumption DEF Spared
    <2>8. (th[t].calm /\ th[t].target \in Ref) => Spared(t, tags[th[t].target])
      BY <2>2, <2>6, <2>7
    <2>9. \A x : Spared(t, x) => Spared(t, x)'
      BY <1>u, <2>3, <2>4 DEF Spared, Registered
    <2>10. Deleting(t)'
      BY <1>u, <2>3, <2>4, <2>5, <2>8, <2>9 DEF Deleting, Spared
    <2>11. Dropping(t)'
      BY <1>u, <2>2, <2>3, <2>4, <2>6, <2>9 DEF Dropping, Spared
    <2>12. Known(t)' /\ r.at # "c_save"
      BY <2>3, <2>4, <2>10, <2>11 DEF Known, Making, Saving, Checking
    <2>13. QED
      BY <1>u, <2>1, <2>3, <2>12, OwnKept
  <1>3. CASE ListReferences(t) /\ ~Done(t)
    <2> DEFINE S == {q \in Ref : tags[q] = MeantID(th[t].target)} \ {q \in Ref : tags[q] = NoImage}
               m == Min(S)
               r == [th[t] EXCEPT !.at = "r_drop", !.tag = m]
    <2>1. th' = [th EXCEPT ![t] = r] /\ th[t].at = "r_list" /\ S # {}
      BY <1>3 DEF ListReferences
    <2>2. S \in SUBSET Nat
      BY ImagesAssumption DEF Ref
    <2>3. m \in S
      <3> HIDE DEF S
      <3> QED
        BY <2>1, <2>2, MinIn
    <2> HIDE DEF m
    <2>4. m \in Ref /\ tags[m] = MeantID(th[t].target) /\ tags[m] # NoImage
      BY <2>3
    <2>6. /\ r \in Asking /\ r.at = "r_drop" /\ r.tag = m /\ r.target = th[t].target
          /\ r.force = th[t].force /\ r.calm = th[t].calm
      BY <1>0, <2>4 DEF Asking, Place, Removing
    <2> HIDE DEF r, S
    <2>7. th'[t] = r
      BY <1>0, <2>1
    <2>8. \A x : Spared(t, x) => Spared(t, x)'
      BY <1>u, <2>6, <2>7 DEF Spared, Registered
    <2>9. (th[t].calm /\ th[t].target \in Digest) => Spared(t, th[t].target)
      BY <1>0, <2>1 DEF Known, Dropping
    <2>10. Dropping(t)'
      BY <1>u, <2>4, <2>6, <2>7, <2>8, <2>9 DEF Dropping, Spared, MeantID
    <2>11. Known(t)'
      BY <2>6, <2>7, <2>10 DEF Known, Making, Saving, Checking, Deleting
    <2>12. QED
      BY <1>u, <2>1, <2>6, <2>11, OwnKept
  <1>4. QED
    BY <1>1, <1>2, <1>3, <1>d

\* A step that takes tags away and ends a request: the others find the tags gone
\* or as they were.
LEMMA UntagKept ==
    ASSUME RegTypeOK, ImagesInv, NEW t \in Thread, NEW r \in Ref,
           tags' = [tags EXCEPT ![r] = NoImage], Done(t),
           UNCHANGED <<byID, byName, content, raced>>
    PROVE  ImagesInv'
  <1>0. th \in [Thread -> Asking] /\ RegTypeOK' /\ 1 \in Ref
    BY ImagesAssumption DEF ImagesInv, ITypeOK, Asking, RegTypeOK, Ref
  <1>1. Resting \in Asking /\ Resting.at = "idle"
    BY <1>0 DEF Resting, Asking, Place
  <1>2. /\ th' \in [Thread -> Asking] /\ th'[t].at = "idle" /\ \A u \in Thread \ {t} : th'[u] = th[u]
    BY <1>0, <1>1 DEF Done
  <1>3. tags' \in [Ref -> Digest \cup {NoImage}] /\ \A q \in Ref : tags'[q] \in {tags[q], NoImage}
    BY DEF ImagesInv, ITypeOK
  <1>4. \A u \in Thread \ {t} : Quiet(u)
    BY <1>2, <1>3 DEF Quiet, Eased
  <1>5. Known(t)'
    BY <1>2, RestingKnows
  <1>6. \A c \in ContainerID : byID'[c] # Absent =>
            content'[c] \in Digest /\ (c \notin raced' => byID'[c].data.dig = content'[c])
    BY DEF ImagesInv, ContentInv, DigestPinned, Registered
  <1>7. QED
    BY <1>0, <1>2, <1>3, <1>4, <1>5, <1>6, ImagesKept DEF ImagesInv, ITypeOK

\* What Disturbed leaves of a request.
LEMMA DisturbedEases ==
    ASSUME th \in [Thread -> Asking], NEW places
    PROVE  /\ Disturbed(places) \in [Thread -> Asking]
           /\ \A u \in Thread :
                /\ Disturbed(places)[u].at = th[u].at /\ Disturbed(places)[u].target = th[u].target
                /\ Disturbed(places)[u].name = th[u].name /\ Disturbed(places)[u].force = th[u].force
                /\ Disturbed(places)[u].dig = th[u].dig /\ Disturbed(places)[u].tag = th[u].tag
                /\ Disturbed(places)[u].tags = th[u].tags /\ Disturbed(places)[u].id = th[u].id
                /\ Disturbed(places)[u].calm => th[u].calm /\ th[u].at \notin places
  <1> DEFINE e(u) == [th[u] EXCEPT !.calm = th[u].calm /\ th[u].at \notin places]
  <1>1. ASSUME NEW u \in Thread
        PROVE  /\ e(u) \in Asking /\ e(u).at = th[u].at /\ e(u).target = th[u].target
               /\ e(u).name = th[u].name /\ e(u).force = th[u].force /\ e(u).dig = th[u].dig
               /\ e(u).tag = th[u].tag /\ e(u).tags = th[u].tags /\ e(u).id = th[u].id
               /\ e(u).calm => th[u].calm /\ th[u].at \notin places
    <2>1. th[u] \in Asking /\ (th[u].calm /\ th[u].at \notin places) \in BOOLEAN
      BY DEF Asking
    <2>2. QED
      BY <2>1 DEF Asking
  <1>2. Disturbed(places) = [u \in Thread |-> e(u)]
    BY DEF Disturbed
  <1> HIDE DEF e
  <1>3. QED
    BY <1>1, <1>2

\* A pull disturbs whoever has looked at the tags.
LEMMA PullKept ==
    ASSUME RegTypeOK, ImagesInv, NEW r \in Ref, NEW d \in Digest, Pull(r, d)
    PROVE  ImagesInv'
  <1>0. th \in [Thread -> Asking] /\ RegTypeOK'
    BY DEF ImagesInv, ITypeOK, Asking, RegTypeOK, Pull
  <1>1. /\ th' = Disturbed(Removing \cup {"c_make"}) /\ UNCHANGED <<byID, content, raced>>
        /\ tags' \in [Ref -> Digest \cup {NoImage}]
    BY DEF Pull, ImagesInv, ITypeOK
  <1>2. th' \in [Thread -> Asking] /\ \A u \in Thread : Quiet(u)
    BY <1>0, <1>1, DisturbedEases DEF Quiet, Eased
  <1>3. \A c \in ContainerID : byID'[c] # Absent =>
            content'[c] \in Digest /\ (c \notin raced' => byID'[c].data.dig = content'[c])
    BY <1>1 DEF ImagesInv, ContentInv, DigestPinned, Registered
  <1>4. QED
    BY <1>0, <1>1, <1>2, <1>3, ImagesKept DEF ImagesInv, ITypeOK

\* Adapter.CreateContainer: a create that was not disturbed makes its container
\* from the image that it resolved.
LEMMA MakeKept ==
    ASSUME RegTypeOK, ImagesInv, NEW t \in Thread, CreateMake(t)
    PROVE  ImagesInv'
  <1>0. th \in [Thread -> Asking] /\ th[t] \in Asking /\ ITypeOK /\ Known(t) /\ NoImage \notin Digest
    BY ImagesAssumption DEF ImagesInv, ITypeOK, Asking, RequestInv, Known
  <1>1. CASE Done(t) /\ UNCHANGED <<content, raced>>
    BY <1>1, DoneKept DEF CreateMake
  <1>2. CASE ~(Done(t) /\ UNCHANGED <<content, raced>>)
    <2>1. PICK c \in ContainerID :
            /\ content[c] = NoImage /\ ~Registered(c)
            /\ content' = [content EXCEPT ![c] = tags[th[t].tag]]
            /\ raced' = IF th[t].calm THEN raced ELSE raced \cup {c}
            /\ th' = [th EXCEPT ![t].at = "c_save", ![t].id = c]
      BY <1>2 DEF CreateMake
    <2>2. tags[th[t].tag] \in Digest /\ th[t].at = "c_make" /\ UNCHANGED <<byID, byName, tags>>
      BY <1>0, <1>2 DEF CreateMake, ITypeOK, Asking
    <2> DEFINE r == [th[t] EXCEPT !.at = "c_save", !.id = c]
    <2>3. r \in Asking /\ r.at = "c_save" /\ r.id = c /\ r.dig = th[t].dig
      BY <1>0 DEF Asking, Place
    <2>4. th' = [th EXCEPT ![t] = r]
      BY <2>1
    <2> HIDE DEF r
    <2>5. th' \in [Thread -> Asking] /\ th'[t] = r /\ \A u \in Thread \ {t} : th'[u] = th[u]
      BY <1>0, <2>3, <2>4
    <2>6. /\ content' \in [ContainerID -> Digest \cup {NoImage}] /\ content'[c] = tags[th[t].tag]
          /\ \A i \in ContainerID \ {c} : content'[i] = content[i] /\ (i \in raced' <=> i \in raced)
          /\ raced' \subseteq ContainerID /\ (c \notin raced' => th[t].calm)
      BY <1>0, <2>1, <2>2 DEF ITypeOK
    <2>7. RegTypeOK' /\ tags' \in [Ref -> Digest \cup {NoImage}]
      BY <1>0, <2>2 DEF RegTypeOK, ITypeOK
    <2>8. \A u \in Thread \ {t} : Quiet(u) /\ (th[u].at = "c_save" => th[u].id # c)
      <3>1. ASSUME NEW u \in Thread \ {t} PROVE th[u].at = "c_save" => th[u].id \in ContainerID \ {c}
        BY <1>0, <2>1 DEF ImagesInv, RequestInv, Saving
      <3>2. QED
        BY <2>2, <2>5, <2>6, <3>1 DEF Quiet, Eased
    <2>9. Known(t)'
      <3>1. th[t].dig \in Digest /\ (th[t].calm => tags[th[t].tag] = th[t].dig)
        BY <1>0, <2>2 DEF Known, Making
      <3>2. QED
        BY <2>1, <2>2, <2>3, <2>5, <2>6, <3>1
        DEF Known, Making, Saving, Checking, Deleting, Dropping, Registered
    <2>10. \A i \in ContainerID : byID'[i] # Absent =>
              content'[i] \in Digest /\ (i \notin raced' => byID'[i].data.dig = content'[i])
      BY <2>1, <2>2, <2>6 DEF ImagesInv, ContentInv, DigestPinned, Registered
    <2>11. QED
      BY <2>3, <2>5, <2>6, <2>7, <2>8, <2>9, <2>10, ImagesKept
  <1>3. QED
    BY <1>1, <1>2

\* registry.Save of the record of a create.
LEMMA CreateSaves ==
    ASSUME ImagesInv, NEW t \in Thread, th[t].at = "c_save"
    PROVE  /\ th[t].id \in ContainerID
           /\ [name |-> th[t].name,
               data |-> [ref |-> th[t].target, dig |-> th[t].dig, st |-> "created"]] \in Container
  <1>1. th[t] \in Asking /\ Saving(t)
    BY DEF ImagesInv, ITypeOK, Asking, RequestInv
  <1>2. QED
    BY <1>1, ImagesData DEF Asking, Saving, Container, ImageData, State

\* ContainerCreate ends: the container is registered with the digest that was
\* resolved, or removed (containers.go:88-106).
LEMMA SaveKept ==
    ASSUME RegTypeOK, RegTypeOK', ImagesInv, NEW t \in Thread, CreateSave(t)
    PROVE  ImagesInv'
  <1> DEFINE i == th[t].id
             c == [name |-> th[t].name,
                   data |-> [ref |-> th[t].target, dig |-> th[t].dig, st |-> "created"]]
  <1>0. /\ th \in [Thread -> Asking] /\ ITypeOK /\ 1 \in Ref
        /\ th[t].at = "c_save" /\ i \in ContainerID /\ Saving(t) /\ tags' = tags
    BY ImagesAssumption DEF ImagesInv, ITypeOK, Asking, RequestInv, Saving, CreateSave, Ref
  <1>1. Resting \in Asking /\ Resting.at = "idle"
    BY <1>0 DEF Resting, Asking, Place
  <1>2. ASSUME NEW u \in Thread \ {t} PROVE th[u].at = "c_save" => th[u].id \in ContainerID \ {i}
    BY <1>0, <1>2 DEF ImagesInv, RequestInv, Saving, ApartInv
  <1>3. CASE Save(i, c) /\ th' = [Disturbed(Removing) EXCEPT ![t] = Resting] /\ UNCHANGED <<content, raced>>
    <2>1. c.data.dig = th[t].dig
      OBVIOUS
    <2>2. byID'[i] = c /\ \A j \in ContainerID \ {i} : byID'[j] = byID[j]
      <3> HIDE DEF c
      <3> QED
        BY <1>0, <1>3 DEF Save, RegTypeOK
    <2>3. /\ th' \in [Thread -> Asking] /\ th'[t] = Resting
          /\ \A u \in Thread \ {t} : th'[u] = Disturbed(Removing)[u]
      BY <1>0, <1>1, <1>3, DisturbedEases
    <2>4. ASSUME NEW u \in Thread \ {t} PROVE Quiet(u)
      <3>1. Eased(u) /\ (th'[u].calm => th[u].at \notin Removing)
        BY <1>0, <2>3, DisturbedEases DEF Eased
      <3>2. QED
        BY <1>0, <1>2, <1>3, <2>2, <3>1 DEF Quiet
    <2>5. Known(t)' /\ th'[t].at # "c_save"
      BY <1>1, <2>3, RestingKnows
    <2>6. \A j \in ContainerID : byID'[j] # Absent =>
              content'[j] \in Digest /\ (j \notin raced' => byID'[j].data.dig = content'[j])
      BY <1>0, <1>3, <2>1, <2>2 DEF ImagesInv, ContentInv, DigestPinned, Registered, Saving
    <2>7. QED
      BY <1>0, <1>3, <2>3, <2>4, <2>5, <2>6, ImagesKept DEF ITypeOK
  <1>4. CASE /\ content' = [content EXCEPT ![i] = NoImage] /\ raced' = raced \ {i}
             /\ Done(t) /\ UNCHANGED regVars
    <2>1. th' \in [Thread -> Asking] /\ th'[t] = Resting /\ \A u \in Thread \ {t} : th'[u] = th[u]
      BY <1>0, <1>1, <1>4 DEF Done
    <2>2. /\ byID' = byID /\ content' \in [ContainerID -> Digest \cup {NoImage}]
          /\ \A j \in ContainerID \ {i} : content'[j] = content[j] /\ (j \in raced' <=> j \in raced)
          /\ raced' \subseteq ContainerID
      BY <1>0, <1>4 DEF regVars, ITypeOK
    <2>3. \A u \in Thread \ {t} : Quiet(u)
      BY <1>0, <1>2, <2>1, <2>2 DEF Quiet, Eased
    <2>4. Known(t)' /\ th'[t].at # "c_save"
      BY <1>1, <2>1, RestingKnows
    <2>5. \A j \in ContainerID : byID'[j] # Absent =>
              content'[j] \in Digest /\ (j \notin raced' => byID'[j].data.dig = content'[j])
      BY <1>0, <2>2 DEF ImagesInv, ContentInv, DigestPinned, Registered, Saving
    <2>6. QED
      BY <1>0, <2>1, <2>2, <2>3, <2>4, <2>5, ImagesKept DEF ITypeOK
  <1>5. QED
    BY <1>3, <1>4 DEF CreateSave

\* A record whose state changes keeps its image.
LEMMA StateChanges ==
    ASSUME RegTypeOK, NEW c \in ContainerID, Registered(c), NEW s \in State
    PROVE  /\ [byID[c] EXCEPT !.data.st = s] \in Container
           /\ [byID[c] EXCEPT !.data.st = s].data.dig = byID[c].data.dig
  BY ImagesData DEF RegTypeOK, Registered, Container, ImageData

\* Containers that start, exit or are removed.
LEMMA ContainerKept ==
    ASSUME RegTypeOK, RegTypeOK', ImagesInv, NEW c \in ContainerID,
           StartContainer(c) \/ ContainerExits(c) \/ RemoveContainer(c)
    PROVE  ImagesInv'
  <1>0. th \in [Thread -> Asking] /\ ITypeOK /\ tags' = tags /\ Registered(c)
    BY DEF ImagesInv, ITypeOK, Asking, StartContainer, ContainerExits, ChangeState, RemoveContainer
  <1>1. ASSUME NEW u \in Thread PROVE th[u].at = "c_save" => th[u].id \in ContainerID \ {c}
    BY <1>0 DEF ImagesInv, RequestInv, Saving
  <1>2. ASSUME NEW s \in State, Save(c, [byID[c] EXCEPT !.data.st = s]),
               th' = Disturbed(Removing), UNCHANGED <<content, raced>>
        PROVE  ImagesInv'
    <2> DEFINE d == [byID[c] EXCEPT !.data.st = s]
    <2>1. d \in Container /\ d.data.dig = byID[c].data.dig
      BY <1>0, StateChanges
    <2>2. Save(c, d)
      BY <1>2
    <2> HIDE DEF d
    <2>3. byID'[c] = d /\ \A j \in ContainerID \ {c} : byID'[j] = byID[j]
      BY <2>2 DEF Save, RegTypeOK
    <2>4. th' \in [Thread -> Asking]
      BY <1>0, <1>2, DisturbedEases
    <2>5. ASSUME NEW u \in Thread PROVE Quiet(u)
      <3>1. Eased(u) /\ (th'[u].calm => th[u].at \notin Removing)
        BY <1>0, <1>2, DisturbedEases DEF Eased
      <3>2. QED
        BY <1>0, <1>1, <1>2, <2>3, <3>1 DEF Quiet
    <2>6. \A j \in ContainerID : byID'[j] # Absent =>
              content'[j] \in Digest /\ (j \notin raced' => byID'[j].data.dig = content'[j])
      BY <1>0, <1>2, <2>1, <2>3 DEF ImagesInv, ContentInv, DigestPinned, Registered
    <2>7. QED
      BY <1>0, <1>2, <2>4, <2>5, <2>6, ImagesKept DEF ITypeOK
  <1>3. CASE RemoveContainer(c)
    <2>1. /\ byID'[c] = Absent /\ \A j \in ContainerID \ {c} : byID'[j] = byID[j]
          /\ content' \in [ContainerID -> Digest \cup {NoImage}] /\ th' = th
          /\ \A j \in ContainerID \ {c} : content'[j] = content[j] /\ (j \in raced' <=> j \in raced)
          /\ raced' \subseteq ContainerID
      BY <1>0, <1>3 DEF RemoveContainer, Remove, RegTypeOK, ITypeOK
    <2>2. \A u \in Thread : Quiet(u)
      BY <1>0, <1>1, <2>1 DEF Quiet, Eased
    <2>3. \A j \in ContainerID : byID'[j] # Absent =>
              content'[j] \in Digest /\ (j \notin raced' => byID'[j].data.dig = content'[j])
      BY <2>1 DEF ImagesInv, ContentInv, DigestPinned, Registered
    <2>4. QED
      BY <1>0, <2>1, <2>2, <2>3, ImagesKept DEF ITypeOK
  <1>4. QED
    BY <1>2, <1>3 DEF StartContainer, ContainerExits, ChangeState, State

\* What the requests do to the registry are operations of the registry.
LEMMA StepIsRegStep ==
    ASSUME RegTypeOK, ImagesInv, [INext]_iVars
    PROVE  [RegNext]_regVars
  <1>1. ASSUME NEW t \in Thread, CreateSave(t) PROVE [RegNext]_regVars
    <2> DEFINE c == [name |-> th[t].name,
                     data |-> [ref |-> th[t].target, dig |-> th[t].dig, st |-> "created"]]
    <2>1. th[t].id \in ContainerID /\ c \in Container
      BY <1>1, CreateSaves DEF CreateSave
    <2>2. Save(th[t].id, c) \/ UNCHANGED regVars
      BY <1>1 DEF CreateSave
    <2> HIDE DEF c
    <2>3. QED
      BY <2>1, <2>2 DEF RegNext
  <1>2. ASSUME NEW c \in ContainerID, StartContainer(c) \/ ContainerExits(c)
        PROVE  RegNext
    <2>1. PICK s \in State : Registered(c) /\ Save(c, [byID[c] EXCEPT !.data.st = s])
      BY <1>2 DEF StartContainer, ContainerExits, ChangeState, State
    <2>2. [byID[c] EXCEPT !.data.st = s] \in Container
      BY <2>1, StateChanges
    <2>3. QED
      BY <2>1, <2>2 DEF RegNext
  <1>3. ASSUME NEW c \in ContainerID, RemoveContainer(c) PROVE RegNext
    BY <1>3 DEF RemoveContainer, RegNext
  <1>4. ASSUME NEW t \in Thread,
               \/ Create(t) \/ CreateInspect(t) \/ CreateMake(t) \/ RemoveImage(t)
               \/ CheckImageInUse(t) \/ DeleteReference(t) \/ ListReferences(t) \/ DropReference(t)
        PROVE  UNCHANGED regVars
    BY <1>4 DEF Create, CreateInspect, CreateMake, RemoveImage, CheckImageInUse,
                DeleteReference, ListReferences, DropReference, regVars
  <1>5. ASSUME NEW r \in Ref, NEW d \in Digest, Pull(r, d) PROVE UNCHANGED regVars
    BY <1>5 DEF Pull, regVars
  <1>6. CASE UNCHANGED iVars
    BY <1>6 DEF iVars, regVars
  <1>7. QED
    BY <1>1, <1>2, <1>3, <1>4, <1>5, <1>6 DEF INext

\* Nothing is known of resting requests and an empty store.
LEMMA InitImages == IInit => RegInv /\ ImagesInv
  <1> SUFFICES ASSUME IInit PROVE RegInv /\ ImagesInv
    OBVIOUS
  <1>0. RegInv /\ 1 \in Ref
    BY InitRegInv, ImagesAssumption DEF IInit, Ref
  <1>1. Resting \in Asking /\ Resting.at = "idle"
    BY <1>0 DEF Resting, Asking, Place
  <1>2. ITypeOK /\ \A t \in Thread : th[t].at = "idle"
    BY <1>1 DEF IInit, ITypeOK, Asking
  <1>3. \A c \in ContainerID : ~Registered(c)
    BY DEF IInit, RegInit, Registered
  <1>4. RequestInv /\ ApartInv
    BY <1>2 DEF RequestInv, Making, Saving, Checking, Deleting, Dropping, ApartInv
  <1>5. QED
    BY <1>0, <1>2, <1>3, <1>4 DEF ImagesInv, ContentInv, DigestPinned

\* Every step keeps both invariants.
LEMMA NextImages ==
    ASSUME RegInv, ImagesInv, [INext]_iVars
    PROVE  RegInv' /\ ImagesInv'
  <1>0. RegInv' /\ RegTypeOK /\ RegTypeOK'
    <2>1. RegTypeOK
      BY DEF RegInv
    <2>2. [RegNext]_regVars
      BY <2>1, StepIsRegStep
    <2>3. QED
      BY <2>1, <2>2, NextRegInv DEF RegInv
  <1>1. ASSUME NEW t \in Thread, DeleteReference(t) PROVE ImagesInv'
    <2>1. th[t].target \in Ref
      BY <1>1 DEF DeleteReference, ImagesInv, RequestInv, Deleting
    <2>2. QED
      BY <1>0, <1>1, <2>1, UntagKept DEF DeleteReference
  <1>2. ASSUME NEW t \in Thread, DropReference(t) PROVE ImagesInv'
    <2>1. th[t].tag \in Ref
      BY DEF ImagesInv, ITypeOK
    <2>2. QED
      BY <1>0, <1>2, <2>1, UntagKept DEF DropReference
  <1>3. ASSUME NEW t \in Thread,
               \/ Create(t) \/ CreateInspect(t) \/ CreateMake(t) \/ CreateSave(t)
               \/ RemoveImage(t) \/ CheckImageInUse(t) \/ ListReferences(t)
        PROVE  ImagesInv'
    BY <1>0, <1>3, LookUpKept, MakeKept, SaveKept, CheckKept
  <1>4. ASSUME NEW r \in Ref, NEW d \in Digest, Pull(r, d) PROVE ImagesInv'
    BY <1>0, <1>4, PullKept
  <1>5. ASSUME NEW c \in ContainerID,
               StartContainer(c) \/ ContainerExits(c) \/ RemoveContainer(c)
        PROVE  ImagesInv'
    BY <1>0, <1>5, ContainerKept
  <1>6. CASE UNCHANGED iVars
    <2>1. \A u \in Thread : Quiet(u)
      BY <1>6 DEF iVars, Quiet, Eased
    <2>2. \A c \in ContainerID : byID'[c] # Absent =>
              content'[c] \in Digest /\ (c \notin raced' => byID'[c].data.dig = content'[c])
      BY <1>6 DEF iVars, ImagesInv, ContentInv, DigestPinned, Registered
    <2>3. QED
      BY <1>0, <1>6, <2>1, <2>2, ImagesKept DEF iVars, ImagesInv, ITypeOK, Asking
  <1>7. QED
    BY <1>0, <1>1, <1>2, <1>3, <1>4, <1>5, <1>6 DEF INext

\* Only the removal itself ends it by taking a tag, and what it knows of the
\* tag's image (Deleting, Dropping) is what is asked of it.
LEMMA RemovalSpares ==
    ASSUME HexID = NoImage, RegTypeOK, ImagesInv, [INext]_iVars, NEW t \in Thread,
           th[t].at \in {"r_delete", "r_drop"}, th'[t].at = "idle", th[t].calm, tags' # tags
    PROVE  \E r \in Ref :
              /\ tags' = [tags EXCEPT ![r] = NoImage]
              /\ r = th[t].target \/ tags[r] = th[t].target
              /\ \A c \in ContainerID \ raced :
                   (Registered(c) /\ content[c] = tags[r]) => byID[c].data.st # "running" /\ th[t].force
  <1>0. th \in [Thread -> Asking] /\ Known(t) /\ tags \in [Ref -> Digest \cup {NoImage}]
    BY DEF ImagesInv, ITypeOK, Asking, RequestInv, Known
  <1>1. \A r \in Ref, d \in Digest : ~Pull(r, d)
    BY <1>0, DisturbedEases DEF Pull
  <1>2. PICK u \in Thread : DeleteReference(u) \/ DropReference(u)
    BY <1>1 DEF INext, iVars, Create, CreateInspect, CreateMake, CreateSave, RemoveImage,
                CheckImageInUse, ListReferences, StartContainer, ContainerExits, ChangeState,
                RemoveContainer
  <1>3. u = t
    BY <1>0, <1>2 DEF DeleteReference, DropReference, Done
  <1>4. PICK r \in Ref : /\ tags' = [tags EXCEPT ![r] = NoImage]
                         /\ r = th[t].target \/ tags[r] = th[t].target
                         /\ Spared(t, tags[r])
    <2>1. CASE DeleteReference(t)
      BY <1>0, <2>1 DEF DeleteReference, Known, Deleting
    <2>2. CASE DropReference(t)
      <3>1. /\ th[t].tag \in Ref /\ tags' = [tags EXCEPT ![th[t].tag] = NoImage]
            /\ tags[th[t].tag] \in {MeantID(th[t].target), NoImage}
            /\ th[t].target \in Digest => Spared(t, th[t].target)
        BY <1>0, <2>2 DEF DropReference, Known, Dropping, Asking
      <3>2. tags[th[t].tag] = MeantID(th[t].target) /\ MeantID(th[t].target) \in Digest
        BY <1>0, <3>1
      <3>3. MeantID(th[t].target) = th[t].target
        BY <3>2, ImagesAssumption DEF MeantID
      <3>4. QED
        BY <3>1, <3>2, <3>3
    <2>3. QED
      BY <1>2, <1>3, <2>1, <2>2
  <1>5. ASSUME NEW c \in ContainerID \ raced, Registered(c), content[c] = tags[r]
        PROVE  byID[c].data.st # "running" /\ th[t].force
    BY <1>4, <1>5 DEF Spared, ImagesInv, DigestPinned
  <1>6. QED
    BY <1>4, <1>5

-----------------------------------------------------------------------------
(* What is proved of ISpec.                                                *)

\* Whatever the image and container requests do, they use the registry as it is
\* meant to be used, so that all that is proved of it holds (containers.go:88-106).
THEOREM ImagesUseRegistry == ISpec => RegSpec /\ ImplementsNameSpace
  <1>1. IInit => RegInit
    BY DEF IInit
  <1>2. RegInv /\ ImagesInv /\ [INext]_iVars => [RegNext]_regVars
    BY StepIsRegStep DEF RegInv
  <1>3. RegInv /\ ImagesInv /\ [INext]_iVars => RegInv' /\ ImagesInv'
    BY NextImages
  <1>4. QED
    BY <1>1, <1>2, <1>3, InitImages, RegistryImplementsNameSpace, PTL DEF ISpec, RegSpec

\* The digest that a container is registered with is that of the image it was
\* made from, whatever tags it was found by, unless a tag moved in between
\* (containers.go:30-33, 576-588).
THEOREM ImagesDigestPinned == ISpec => []DigestPinned
  <1>1. RegInv /\ ImagesInv /\ [INext]_iVars => RegInv' /\ ImagesInv'
    BY NextImages
  <1>2. ImagesInv => DigestPinned
    BY DEF ImagesInv
  <1>3. QED
    BY <1>1, <1>2, InitImages, PTL DEF ISpec

\* A removal that nothing was changed under takes one tag, of the image that was
\* named, and spares the images of the containers (images.go:53-55,
\* adapter.go:158-161): what checkImageInUse has found still holds when the
\* reference is deleted.  No tag has a name that also abbreviates the ID of an
\* image: a removal of such a tag checks the image of the tag and then removes
\* one of the image of that ID.
THEOREM ImagesSpared ==
    ASSUME HexID = NoImage
    PROVE  ISpec => ImagesInUseStay
  <1>1. RegInv /\ ImagesInv /\ [INext]_iVars => RegInv' /\ ImagesInv'
    BY NextImages
  <1>2. RegInv /\ ImagesInv /\ [INext]_iVars =>
          [\A t \in Thread :
            (th[t].at \in {"r_delete", "r_drop"} /\ th'[t].at = "idle" /\ th[t].calm /\ tags' # tags) =>
                \E r \in Ref :
                    /\ tags' = [tags EXCEPT ![r] = NoImage]
                    /\ r = th[t].target \/ tags[r] = th[t].target
                    /\ \A c \in ContainerID \ raced :
                         (Registered(c) /\ content[c] = tags[r])
                             => byID[c].data.st # "running" /\ th[t].force]_iVars
    BY RemovalSpares DEF RegInv
  <1>3. QED
    BY <1>1, <1>2, InitImages, PTL DEF ISpec, ImagesInUseStay

=============================================================================
