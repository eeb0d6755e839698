------------------------------- MODULE Images -------------------------------
(***************************************************************************)
(* Images against the containers that use them: removal and resolution of  *)
(* images (internal/app/images.go, internal/adapters/buildkit/adapter.go   *)
(* and client.go) and the creation of containers from them                 *)
(* (internal/app/containers.go), on one registry (module Registry).        *)
(*                                                                         *)
(* The store has one record per tag; an image is what its digest names,    *)
(* under any number of tags.  The store, the registry and containerd are   *)
(* consulted one after the other, and nothing is locked in between.  The   *)
(* store and what pulls find are external.  The other container use cases  *)
(* are reduced to what the in-use check can see of them; they are the      *)
(* subject of ContainerService.                                            *)
(***************************************************************************)
EXTENDS Registry, Naturals, FiniteSetsExt

CONSTANTS
    Digest,        \* image digests, which are the image IDs
    NoImage,       \* no such image
    NRefs,         \* tags are 1..NRefs, in the order of their names
    HexRef,        \* the tags whose name could also be an abbreviated ID ...
    HexID,         \* ... and the image that it then abbreviates, or NoImage
    CreateFrom,    \* tags and IDs that containers are created from
    CreateName,    \* names that containers are created with
    Thread         \* requests in flight

Ref == 1..NRefs

ASSUME ImagesAssumption ==
    /\ NRefs \in Nat \ {0} /\ HexRef \subseteq Ref /\ NoImage \notin Digest
    /\ HexID \in Digest \cup {NoImage} /\ Digest \cap Ref = {}
    /\ CreateFrom \subseteq Ref \cup Digest /\ CreateName \subseteq Name \cup {NoName}

\* What the registry knows of a container: ImageReference, ImageDigest, State.
State == {"created", "running", "exited"}
ImageData == [ref : Ref \cup Digest, dig : Digest, st : State]

ASSUME ImagesData == Data = ImageData

VARIABLES
    tags,          \* the store: the digest of every tag, or NoImage
    content,       \* the image containerd has created each container from
    th,            \* requests: place, target, digest, tag, ...
    raced          \* history: containers created while a tag was moving

iVars == <<byID, byName, tags, content, th, raced>>

Removing == {"r_check", "r_delete", "r_list", "r_drop"}
Place == {"idle", "c_inspect", "c_make", "c_save"} \cup Removing

ITypeOK ==
    /\ tags \in [Ref -> Digest \cup {NoImage}]
    /\ content \in [ContainerID -> Digest \cup {NoImage}]
    /\ th \in [Thread -> [at : Place, target : Ref \cup Digest, name : Name \cup {NoName},
                          force : BOOLEAN, dig : Digest \cup {NoImage}, tag : Ref,
                          tags : SUBSET Ref, id : ContainerID \cup {NoID}, calm : BOOLEAN]]
    /\ raced \subseteq ContainerID

Resting == [at |-> "idle", target |-> 1, name |-> NoName, force |-> FALSE, dig |-> NoImage,
            tag |-> 1, tags |-> {}, id |-> NoID, calm |-> TRUE]

IInit ==
    /\ RegInit
    /\ tags = [r \in Ref |-> NoImage]
    /\ content = [c \in ContainerID |-> NoImage]
    /\ th = [t \in Thread |-> Resting]
    /\ raced = {}

-----------------------------------------------------------------------------
(* Resolution.                                                             *)

\* Mutant: the tags of all images are taken for this one's.
SiblingsUngrouped(d) == {r \in Ref : tags[r] # NoImage}

\* attachSiblingReferences: the tags that share a digest.
Siblings(d) == {r \in Ref : tags[r] = d}

\* isImageID and recordMatchesID.
IsImageID(x) == x \in Digest \cup HexRef
MeantID(x) == IF x \in HexRef THEN HexID ELSE x

\* ContainerdStore.Get: a tag of that name first, then an image of that ID.
Resolved(x) ==
    IF x \in Ref /\ tags[x] # NoImage THEN tags[x]
    ELSE IF IsImageID(x) /\ MeantID(x) \in Digest /\ Siblings(MeantID(x)) # {} THEN MeantID(x)
    ELSE NoImage

Done(t) == th' = [th EXCEPT ![t] = Resting]

\* Requests remember that what they have seen of tags or containers changed.
Disturbed(places) ==
    [t \in Thread |-> [th[t] EXCEPT !.calm = @ /\ th[t].at \notin places]]

\* A pull or a build gives a tag to an image and takes it from another.
Pull(r, d) ==
    /\ tags[r] # d
    /\ tags' = [tags EXCEPT ![r] = d]
    /\ th' = Disturbed(Removing \cup {"c_make"})
    /\ UNCHANGED <<byID, byName, content, raced>>

-----------------------------------------------------------------------------
(* ContainerCreate.                                                        *)

\* validateContainerCreate refuses a name that is taken.
Create(t) ==
    /\ th[t].at = "idle"
    /\ \E x \in CreateFrom, n \in CreateName :
        /\ ~NameInUse(n)
        /\ th' = [th EXCEPT ![t] = [Resting EXCEPT !.at = "c_inspect", !.target = x, !.name = n]]
    /\ UNCHANGED <<byID, byName, tags, content, raced>>

\* inspectCreateImage; runtimeImageReference is the first of the image's tags.
CreateInspect(t) ==
    LET d == Resolved(th[t].target) IN
    /\ th[t].at = "c_inspect"
    /\ IF d = NoImage \/ Siblings(d) = {} THEN Done(t)
       ELSE th' = [th EXCEPT ![t].at = "c_make", ![t].dig = d, ![t].tag = Min(Siblings(d))]
    /\ UNCHANGED <<byID, byName, tags, content, raced>>

\* Adapter.CreateContainer gets the image by that tag, whatever it is by now.
CreateMake(t) ==
    /\ th[t].at = "c_make"
    /\ IF tags[th[t].tag] = NoImage THEN Done(t) /\ UNCHANGED <<content, raced>>
       ELSE \E c \in ContainerID :
              /\ content[c] = NoImage /\ ~Registered(c)
              /\ content' = [content EXCEPT ![c] = tags[th[t].tag]]
              /\ raced' = IF th[t].calm THEN raced ELSE raced \cup {c}
              /\ th' = [th EXCEPT ![t].at = "c_save", ![t].id = c]
    /\ UNCHANGED <<byID, byName, tags>>

\* registry.Save pins the digest that was resolved; a conflict removes the
\* container again.
CreateSave(t) ==
    LET c == [name |-> th[t].name,
              data |-> [ref |-> th[t].target, dig |-> th[t].dig, st |-> "created"]]
    IN
    /\ th[t].at = "c_save"
    /\ \/ Save(th[t].id, c) /\ th' = [Disturbed(Removing) EXCEPT ![t] = Resting] /\ UNCHANGED <<content, raced>>
       \/ /\ NameConflict(th[t].id, th[t].name)
          /\ content' = [content EXCEPT ![th[t].id] = NoImage]
          /\ raced' = raced \ {th[t].id}
          /\ Done(t)
          /\ UNCHANGED regVars
    /\ UNCHANGED tags

\* A registered container starts or its process ends ...
ChangeState(c, from, to) ==
    /\ Registered(c) /\ byID[c].data.st \in from
    /\ Save(c, [byID[c] EXCEPT !.data.st = to])
    /\ th' = Disturbed(Removing)
    /\ UNCHANGED <<tags, content, raced>>

StartContainer(c) == ChangeState(c, {"created", "exited"}, "running")
ContainerExits(c) == ChangeState(c, {"running"}, "exited")

\* ... or is removed.
RemoveContainer(c) ==
    /\ Registered(c) /\ byID[c].data.st # "running"
    /\ Remove(c)
    /\ content' = [content EXCEPT ![c] = NoImage]
    /\ raced' = raced \ {c}
    /\ UNCHANGED <<tags, th>>

-----------------------------------------------------------------------------
(* ImageRemove.                                                            *)

\* ImageRemove begins with Adapter.Inspect.
RemoveImage(t) ==
    /\ th[t].at = "idle"
    /\ \E x \in Ref \cup Digest, f \in BOOLEAN :
        /\ Resolved(x) # NoImage
        /\ th' = [th EXCEPT ![t] = [Resting EXCEPT !.at = "r_check", !.target = x, !.force = f,
                                     !.dig = Resolved(x), !.tags = Siblings(Resolved(x))]]
    /\ UNCHANGED <<byID, byName, tags, content, raced>>

\* Mutant: the references are compared, the digests are not.
ContainerUsesImageByName(c, t) == Registered(c) /\ byID[c].data.ref \in th[t].tags

\* containerUsesImage: by digest, or by a reference that is one of its tags.
ContainerUsesImage(c, t) ==
    Registered(c) /\ (byID[c].data.dig = th[t].dig \/ byID[c].data.ref \in th[t].tags)

\* checkImageInUse.
CheckImageInUse(t) ==
    LET users == {c \in ContainerID : ContainerUsesImage(c, t)} IN
    /\ th[t].at = "r_check"
    /\ IF \E c \in users : byID[c].data.st = "running" \/ ~th[t].force THEN Done(t)
       ELSE th' = [th EXCEPT ![t].at = IF IsImageID(th[t].target) THEN "r_list" ELSE "r_delete",
                             ![t].dig = NoImage, ![t].tags = {}]
    /\ UNCHANGED <<byID, byName, tags, content, raced>>

\* Adapter.Remove of a reference untags it; a missing one is an error.
DeleteReference(t) ==
    /\ th[t].at = "r_delete"
    /\ tags' = [tags EXCEPT ![th[t].target] = NoImage]
    /\ Done(t)
    /\ UNCHANGED <<byID, byName, content, raced>>

\* removeByID lists the references that match now and picks the first ...
ListReferences(t) ==
    LET matches == {r \in Ref : tags[r] = MeantID(th[t].target)} \ {r \in Ref : tags[r] = NoImage} IN
    /\ th[t].at = "r_list"
    /\ IF matches = {} THEN Done(t)
       ELSE th' = [th EXCEPT ![t].at = "r_drop", ![t].tag = Min(matches)]
    /\ UNCHANGED <<byID, byName, tags, content, raced>>

\* ... and deletes it by its name.
DropReference(t) ==
    /\ th[t].at = "r_drop"
    /\ tags' = [tags EXCEPT ![th[t].tag] = NoImage]
    /\ Done(t)
    /\ UNCHANGED <<byID, byName, content, raced>>

INext ==
    \/ \E r \in Ref, d \in Digest : Pull(r, d)
    \/ \E t \in Thread :
        \/ Create(t) \/ CreateInspect(t) \/ CreateMake(t) \/ CreateSave(t)
        \/ RemoveImage(t) \/ CheckImageInUse(t)
        \/ DeleteReference(t) \/ ListReferences(t) \/ DropReference(t)
    \/ \E c \in ContainerID : StartContainer(c) \/ ContainerExits(c) \/ RemoveContainer(c)

ISpec == IInit /\ [][INext]_iVars

-----------------------------------------------------------------------------
(* Properties.                                                             *)

\* The digest recorded for a container is that of the image it was made from,
\* by whichever of the image's tags containerd was asked for it, unless a tag
\* moved while it was created (containers.go:30-33, 576-588).
DigestPinned ==
    \A c \in ContainerID \ raced : Registered(c) => byID[c].data.dig = content[c]

\* A removal of an image that nothing was changed under takes one tag, the one
\* that was named or one of the image that was named; never the image a running
\* container was made from, and that of another container only by force
\* (images.go:53-55, adapter.go:158-161).
ImagesInUseStay ==
    [][\A t \in Thread :
        (th[t].at \in {"r_delete", "r_drop"} /\ th'[t].at = "idle" /\ th[t].calm /\ tags' # tags) =>
            \E r \in Ref :
                /\ tags' = [tags EXCEPT ![r] = NoImage]
                /\ r = th[t].target \/ tags[r] = th[t].target
                /\ \A c \in ContainerID \ raced :
                     (Registered(c) /\ content[c] = tags[r])
                         => byID[c].data.st # "running" /\ th[t].force]_iVars
=============================================================================
