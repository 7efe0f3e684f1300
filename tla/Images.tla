------------------------------- MODULE Images -------------------------------
(***************************************************************************)
(* The image store (pkg/store/image) and its writers: PullImage,           *)
(* RemoveImage, the handler of image events (updateImage) and loadImages   *)
(* at start.  containerd is the source of truth: another client may change *)
(* a reference at any time, and the store only follows.                    *)
(***************************************************************************)
EXTENDS Naturals, Sequences, FiniteSets, Functions

CONSTANTS Callers,       \* goroutines that serve PullImage and RemoveImage
          Handler,       \* the event loop, and recover before it
          Tags,          \* references chosen by clients
          Contents,      \* image ids: digests of image configs
          RepoDigest,    \* [Contents -> reference or ""]: "" for a schema 1 manifest
          MaxCalls,      \* bound on calls and on changes by other clients
          MaxImageFaults, MaxImageRestarts    \* bounds

NoID == "none"
Digests == {RepoDigest[x] : x \in Contents} \ {""}
Refs == Tags \cup Contents \cup Digests
Procs == Callers \cup {Handler}

VARIABLES ctrImages,    \* containerd: the target of each reference and its managed label
          refCache,     \* Store.refCache
          imageRefs,    \* store.images: the References of each image; {} when it is absent
          imageEvents,  \* references with an unhandled image event
          serving,      \* the plugin serves calls and handles events
          toCheck,      \* images that loadImages has still to load
          at, refs, target,    \* progress of each goroutine
          subject,      \* the reference whose event is being handled
          skipped,      \* references that loadImages left out
          imageCalls, imageFaults, imageRestarts

procs == <<at, refs, target, subject>>
store == <<refCache, imageRefs>>
counts == <<imageCalls, imageFaults, imageRestarts>>
imageVars == <<ctrImages, store, imageEvents, serving, toCheck, procs, skipped, counts>>

NoImage == [id |-> NoID, managed |-> FALSE]
Image(x) == [id |-> x, managed |-> TRUE]

\* The plugin starts with nothing pulled, or with one image under one tag.
ImageInit ==
    /\ \/ ctrImages = [r \in Refs |-> NoImage]
       \/ \E t \in Tags, x \in Contents, managed \in BOOLEAN :
             ctrImages = [r \in Refs |-> IF r = t THEN [id |-> x, managed |-> managed]
                                        ELSE IF managed /\ r = x THEN Image(x) ELSE NoImage]
    /\ refCache = [r \in Refs |-> NoID] /\ imageRefs = [x \in Contents |-> {}]
    /\ imageEvents = {} /\ serving = FALSE /\ toCheck = {r \in Refs : ctrImages[r] # NoImage}
    /\ at = [p \in Procs |-> "idle"] /\ refs = [p \in Procs |-> <<>>]
    /\ target = [p \in Procs |-> NoID] /\ subject = NoID /\ skipped = {}
    /\ imageCalls = 0 /\ imageFaults = 0 /\ imageRestarts = 0

-----------------------------------------------------------------------------
(* Building blocks *)

ImageFine == UNCHANGED counts
ImageFault ==
    /\ imageFaults < MaxImageFaults /\ imageFaults' = imageFaults + 1
    /\ UNCHANGED <<imageCalls, imageRestarts>>
Called ==
    /\ imageCalls < MaxCalls /\ imageCalls' = imageCalls + 1
    /\ UNCHANGED <<imageFaults, imageRestarts>>

\* A change of containerd's image store publishes an event.
SetImage(r, img) ==
    /\ ctrImages' = [ctrImages EXCEPT ![r] = img]
    /\ imageEvents' = imageEvents \cup {r}
Untouched == UNCHANGED <<ctrImages, imageEvents>>

\* store.add and store.delete: the references an image has after a call of them.
add(x, r) == imageRefs[x] \cup {r}

\* Mutant: the image goes with the first of its references.
deleteAll(x, r) == {}

delete(x, r) == imageRefs[x] \ {r}

\* Store.update: x is the image of r in containerd, NoID if there is none.
update(r, x) ==
    LET oldID == refCache[r]
    IN  IF x = oldID THEN UNCHANGED store
        ELSE /\ refCache' = [refCache EXCEPT ![r] = x]
             /\ imageRefs' = [y \in Contents |-> IF y = x THEN add(y, r)
                                                ELSE IF y = oldID THEN delete(y, r) ELSE imageRefs[y]]

Begin(p, step, rs, x) ==
    /\ at' = [at EXCEPT ![p] = step] /\ refs' = [refs EXCEPT ![p] = rs]
    /\ target' = [target EXCEPT ![p] = x]
ImageGoto(p, step) == at' = [at EXCEPT ![p] = step] /\ UNCHANGED <<refs, target>>
Return(p) == Begin(p, "idle", <<>>, NoID)

\* A call returns an error; the event goes to back-off; loadImages goes on with the next image.
ImageFails(p) ==
    /\ Return(p) /\ UNCHANGED <<ctrImages, store>>
    /\ IF p = Handler /\ serving THEN imageEvents' = imageEvents \cup {subject}
                                 ELSE UNCHANGED imageEvents
    /\ skipped' = IF p = Handler /\ ~serving THEN skipped \cup {subject} ELSE skipped

-----------------------------------------------------------------------------
(* createImageReference and Store.Update for each of refs[p] in turn *)

CreateReference(p) ==
    /\ at[p] = "create"
    /\ LET r == Head(refs[p])
           old == ctrImages[r]
       IN \/ /\ old = NoImage /\ SetImage(r, Image(target[p])) /\ ImageGoto(p, "store") /\ ImageFine
             /\ UNCHANGED <<store, skipped>>
          \/ /\ old = Image(target[p]) /\ Untouched /\ ImageGoto(p, "store") /\ ImageFine
             /\ UNCHANGED <<store, skipped>>
          \/ /\ old \notin {NoImage, Image(target[p])} /\ Untouched /\ ImageGoto(p, "update") /\ ImageFine
             /\ UNCHANGED <<store, skipped>>
          \/ ImageFault /\ ImageFails(p)
    /\ UNCHANGED <<serving, toCheck, subject>>

\* The reference may have been deleted since Create found it.
UpdateReference(p) ==
    /\ at[p] = "update"
    /\ LET r == Head(refs[p])
       IN \/ /\ ctrImages[r] # NoImage /\ SetImage(r, Image(target[p])) /\ ImageGoto(p, "store") /\ ImageFine
             /\ UNCHANGED <<store, skipped>>
          \/ ctrImages[r] = NoImage /\ ImageFails(p) /\ ImageFine
          \/ ImageFault /\ ImageFails(p)
    /\ UNCHANGED <<serving, toCheck, subject>>

\* What the loop over the references does next.
Advance(p, step) ==
    IF Len(refs[p]) = 1 THEN Return(p) ELSE Begin(p, step, Tail(refs[p]), target[p])

\* Store.Update reads containerd and updates the store under one lock.
UpdateStore(p) ==
    /\ at[p] = "store"
    /\ LET r == Head(refs[p])
       IN \/ /\ update(r, ctrImages[r].id) /\ Advance(p, "create") /\ ImageFine /\ Untouched
             /\ skipped' = skipped \ {r}
          \/ ImageFault /\ ImageFails(p)
    /\ UNCHANGED <<serving, toCheck, subject>>

-----------------------------------------------------------------------------
(* PullImage *)

PullRefs(t, x) == IF RepoDigest[x] = "" THEN <<x, t>> ELSE <<x, t, RepoDigest[x]>>

\* client.Pull creates the reference that was asked for, with the managed label.
PullImage(p) ==
    /\ serving /\ at[p] = "idle"
    /\ \E t \in Tags, x \in Contents :
          SetImage(t, Image(x)) /\ Begin(p, "create", PullRefs(t, x), x)
    /\ Called /\ UNCHANGED <<store, serving, toCheck, subject, skipped>>

-----------------------------------------------------------------------------
(* RemoveImage *)

\* An id or a reference, resolved in the store alone.
localResolve(r) == IF r \in Contents THEN r ELSE refCache[r]
Exists(x) == x # NoID /\ imageRefs[x] # {}

\* The sequences of the elements of a set: the store keeps references in no particular order.
Lists(S) == Bijection(1 .. Cardinality(S), S)

\* The references are those the store held when the image was resolved; an image that does
\* not exist is no error and changes nothing.
RemoveImage(p) ==
    /\ serving /\ at[p] = "idle"
    /\ \E r \in Refs :
          /\ Exists(localResolve(r))
          /\ \E rs \in Lists(imageRefs[localResolve(r)]) : Begin(p, "delete", rs, NoID)
    /\ Called /\ Untouched /\ UNCHANGED <<store, serving, toCheck, subject, skipped>>

DeleteReference(p) ==
    /\ at[p] = "delete"
    /\ LET r == Head(refs[p])
       IN \/ /\ ImageGoto(p, "forget") /\ ImageFine /\ UNCHANGED <<store, skipped>>
             /\ IF ctrImages[r] = NoImage THEN Untouched ELSE SetImage(r, NoImage)
          \/ ImageFault /\ ImageFails(p)
    /\ UNCHANGED <<serving, toCheck, subject>>

ForgetReference(p) ==
    /\ at[p] = "forget"
    /\ LET r == Head(refs[p])
       IN \/ /\ update(r, ctrImages[r].id) /\ Advance(p, "delete") /\ ImageFine /\ Untouched
             /\ skipped' = skipped \ {r}
          \/ ImageFault /\ ImageFails(p)
    /\ UNCHANGED <<serving, toCheck, subject>>

-----------------------------------------------------------------------------
(* updateImage: image events, and loadImages after a restart *)

\* GetImage.  An image that is not managed gets a reference by its id and the label first.
updateImage(r) ==
    /\ subject' = r
    /\ LET img == ctrImages[r]
       IN IF img = NoImage \/ img.managed THEN Begin(Handler, "store", <<r>>, img.id)
                                          ELSE Begin(Handler, "create", <<img.id, r>>, img.id)

HandleImageEvent ==
    /\ serving /\ at[Handler] = "idle"
    /\ \E r \in imageEvents : imageEvents' = imageEvents \ {r} /\ updateImage(r)
    /\ ImageFine /\ UNCHANGED <<ctrImages, store, serving, toCheck, skipped>>

\* A new process subscribes to the events, then lists the images.
ImageRestart ==
    /\ imageRestarts < MaxImageRestarts /\ imageRestarts' = imageRestarts + 1
    /\ refCache' = [r \in Refs |-> NoID] /\ imageRefs' = [x \in Contents |-> {}]
    /\ at' = [p \in Procs |-> "idle"] /\ refs' = [p \in Procs |-> <<>>]
    /\ target' = [p \in Procs |-> NoID] /\ subject' = NoID
    /\ serving' = FALSE /\ imageEvents' = {} /\ skipped' = {}
    /\ toCheck' = {r \in Refs : ctrImages[r] # NoImage}
    /\ UNCHANGED <<ctrImages, imageCalls, imageFaults>>

\* An image whose content is not complete, or cannot be checked, is left out.
loadImages ==
    /\ ~serving /\ at[Handler] = "idle"
    /\ \E r \in toCheck :
          /\ toCheck' = toCheck \ {r}
          /\ \/ ImageFine /\ updateImage(r) /\ UNCHANGED skipped
             \/ ImageFault /\ skipped' = skipped \cup {r} /\ UNCHANGED procs
    /\ UNCHANGED <<ctrImages, store, imageEvents, serving>>

ImagesLoaded ==
    /\ ~serving /\ at[Handler] = "idle" /\ toCheck = {} /\ serving' = TRUE
    /\ ImageFine /\ UNCHANGED <<ctrImages, store, imageEvents, toCheck, procs, skipped>>

\* Another client tags or deletes an image.
OutsideChanges ==
    /\ Called
    /\ \/ \E r \in Tags, x \in Contents : SetImage(r, [id |-> x, managed |-> FALSE])
       \/ \E r \in Refs : ctrImages[r] # NoImage /\ SetImage(r, NoImage)
    /\ UNCHANGED <<store, serving, toCheck, procs, skipped>>

-----------------------------------------------------------------------------

ImageNext ==
    \/ \E p \in Callers : PullImage(p) \/ RemoveImage(p) \/ DeleteReference(p) \/ ForgetReference(p)
    \/ \E p \in Procs : CreateReference(p) \/ UpdateReference(p) \/ UpdateStore(p)
    \/ HandleImageEvent \/ ImageRestart \/ loadImages \/ ImagesLoaded \/ OutsideChanges

ImageSpec == ImageInit /\ [][ImageNext]_imageVars

ImageTypeOK ==
    /\ ctrImages \in [Refs -> [id : Contents \cup {NoID}, managed : BOOLEAN]]
    /\ refCache \in [Refs -> Contents \cup {NoID}] /\ imageRefs \in [Contents -> SUBSET Refs]
    /\ imageEvents \subseteq Refs /\ toCheck \subseteq Refs /\ skipped \subseteq Refs
    /\ \A p \in Procs : (at[p] = "idle") = (refs[p] = <<>>)

\* The two indexes of the store agree: an image holds exactly the references that resolve to
\* it, so it disappears with its last reference and not before.
ImageIndexed == \A x \in Contents : imageRefs[x] = {r \in Refs : refCache[r] = x}

\* When nothing is going on and no event is pending the store is what containerd holds,
\* whatever pulls, removals, changes of other clients, failures and restarts overlapped; only
\* what loadImages could not check is missing.
StoreCatchesUp ==
    serving /\ imageEvents = {} /\ (\A p \in Procs : at[p] = "idle")
    => \A r \in Refs \ skipped : refCache[r] = ctrImages[r].id

\* The store is consistent at all times (add, delete), and idle it has caught up.
ImagesCatchUp == ImageTypeOK /\ ImageIndexed /\ StoreCatchesUp

=============================================================================
