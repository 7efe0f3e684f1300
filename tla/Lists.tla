-------------------------------- MODULE Lists -------------------------------
(***************************************************************************)
(* One call of ListContainers, ListPodSandbox or ListContainerStats        *)
(* (server/container_list.go, sandbox_list.go, container_stats_list.go)    *)
(* beside calls that create, start, stop and remove containers and         *)
(* sandboxes.  The call takes the objects of a store at one moment, reads  *)
(* their statuses one by one, and looks up the ids of its filter, which    *)
(* may be shortened ones, at yet other moments.                            *)
(***************************************************************************)
EXTENDS Naturals

CONSTANTS
    Containers, Sandboxes,
    SandboxOf, LabelsOf,     \* the sandbox of a container, the labels of an object
    IdsWithPrefix,           \* the objects whose ids begin with a key: ids and short ids
    Filters,                 \* filters: id, sandbox ("" if not set), state ("" likewise), labels
    MaxChanges               \* bound on the changes of the stores during the call

VARIABLES
    inStore, statuses,       \* the stores and the statuses of their objects
    call, filter,            \* what is called, and its filter; NoFilter if there is none
    listing,                      \* what the call does next
    unread,                  \* listed objects whose statuses are to be read
    listed,                  \* listed objects, each with the status that was read
    byId, bySandbox,         \* the ids of the filter, once looked up
    changes,
    moments                  \* the stores at each moment of the call so far

listVars == <<inStore, statuses, call, filter, listing, unread, listed, byId, bySandbox,
              changes, moments>>

NotSet == ""     \* a field of a filter, or an id, that is not there
NoFilter == [id |-> "nil", sandbox |-> NotSet, state |-> NotSet, labels |-> {}]
Objects == Containers \cup Sandboxes
Calls == {"ListContainers", "ListPodSandbox", "ListContainerStats"}
Of(c) == IF c = "ListPodSandbox" THEN Sandboxes ELSE Containers
States == {"CREATED", "RUNNING", "EXITED", "Ready", "NotReady", "Unknown"}
Moment(objects, s) == [stored |-> objects, status |-> s]

ListTypeOK ==
    /\ inStore \subseteq Objects /\ statuses \in [Objects -> States] /\ call \in Calls
    /\ filter \in Filters \cup {NoFilter} /\ unread \subseteq Of(call)
    /\ DOMAIN listed \subseteq Of(call)
    /\ listing \in {"list", "status", "sandbox", "id", "normalize", "filter", "metrics", "returned",
              "failed"}

ListInit ==
    /\ call \in Calls /\ filter \in Filters \cup {NoFilter}
    /\ inStore \in SUBSET Objects
    /\ \E s \in {"Ready", "Unknown"} :
          statuses = [o \in Objects |-> IF o \in Containers THEN "RUNNING" ELSE s]
    /\ listing = IF call # "ListContainerStats" THEN "list"
            ELSE IF filter = NoFilter THEN "metrics" ELSE "id"
    /\ unread = {} /\ listed = <<>> /\ byId = NotSet /\ bySandbox = NotSet
    /\ changes = 0 /\ moments = {Moment(inStore, statuses)}

----------------------------------------------------------------------------
(* The other calls, as far as the stores show them. *)

Change(objects, s) ==
    /\ changes < MaxChanges /\ listing \notin {"returned", "failed"} /\ changes' = changes + 1
    /\ inStore' = objects /\ statuses' = s /\ moments' = moments \cup {Moment(objects, s)}
    /\ UNCHANGED <<call, filter, listing, unread, listed, byId, bySandbox>>

(* An id is used once. *)
New(o) == \A m \in moments : o \notin m.stored

Created(o) ==
    /\ New(o)
    /\ Change(inStore \cup {o},
              [statuses EXCEPT ![o] = IF o \in Containers THEN "CREATED" ELSE "Ready"])

Started(c) ==
    /\ c \in inStore /\ statuses[c] = "CREATED"
    /\ Change(inStore, [statuses EXCEPT ![c] = "RUNNING"])

Stopped(o) ==
    /\ o \in inStore
    /\ \/ statuses[o] = "RUNNING" /\ Change(inStore, [statuses EXCEPT ![o] = "EXITED"])
       \/ /\ statuses[o] \in {"Ready", "Unknown"}
          /\ Change(inStore, [statuses EXCEPT ![o] = "NotReady"])

Removed(o) ==
    /\ o \in inStore /\ statuses[o] \in {"CREATED", "EXITED", "NotReady"}
    /\ Change(inStore \ {o}, statuses)

----------------------------------------------------------------------------

Outside == UNCHANGED <<inStore, statuses, call, filter, changes, moments>>

(* A bug: of several objects that have the prefix, one is taken. *)
LookupAny(key, objects, in) ==
    LET found == IF key = NotSet THEN {} ELSE IdsWithPrefix[key] \cap objects \cap in
    IN  IF found # {} THEN CHOOSE o \in found : TRUE ELSE key

(* Store.Get, with the id of the one stored object that has the prefix: a key
   that no object has, or more than one, stays as it is. *)
Lookup(key, objects, in) ==
    LET found == IF key = NotSet THEN {} ELSE IdsWithPrefix[key] \cap objects \cap in
    IN  IF \E o \in found : found = {o} THEN CHOOSE o \in found : TRUE ELSE key

(* Store.List. *)
List ==
    /\ listing = "list" /\ unread' = inStore \cap Of(call) /\ listing' = "status"
    /\ UNCHANGED <<listed, byId, bySandbox>> /\ Outside

(* toCRISandbox shows a sandbox that is not ready or unknown as not ready. *)
toCRISandbox(s) == IF s = "Ready" THEN "Ready" ELSE "NotReady"

ReadStatus(o) ==
    /\ listing = "status" /\ o \in unread /\ unread' = unread \ {o}
    /\ listed' = [p \in DOMAIN listed \cup {o} |->
                    IF p # o THEN listed[p]
                    ELSE IF o \in Sandboxes THEN toCRISandbox(statuses[o]) ELSE statuses[o]]
    /\ UNCHANGED <<listing, byId, bySandbox>> /\ Outside

StatusesRead ==
    /\ listing = "status" /\ unread = {}
    /\ listing' = IF filter = NoFilter THEN "returned"
             ELSE IF call = "ListPodSandbox" THEN "id" ELSE "sandbox"
    /\ UNCHANGED <<unread, listed, byId, bySandbox>> /\ Outside

(* ListContainers looks the sandbox up before it normalizes the filter. *)
LookupSandbox ==
    /\ listing = "sandbox" /\ listing' = "id"
    /\ bySandbox' = Lookup(filter.sandbox, Sandboxes, inStore)
    /\ UNCHANGED <<unread, listed, byId>> /\ Outside

LookupId ==
    /\ listing = "id" /\ byId' = Lookup(filter.id, Of(call), inStore)
    /\ listing' = IF call = "ListContainerStats" THEN "normalize" ELSE "filter"
    /\ UNCHANGED <<unread, listed, bySandbox>> /\ Outside

(* ListContainerStats looks both up before it lists the containers. *)
NormalizeSandbox ==
    /\ listing = "normalize" /\ listing' = "filter"
    /\ bySandbox' = Lookup(filter.sandbox, Sandboxes, inStore)
    /\ UNCHANGED <<unread, listed, byId>> /\ Outside

matchLabelSelector(o) == filter.labels \subseteq LabelsOf[o]

Matches(o, s) ==
    /\ byId # NotSet => byId = o
    /\ call # "ListPodSandbox" /\ bySandbox # NotSet => bySandbox = SandboxOf[o]
    /\ call # "ListContainerStats" /\ filter.state # NotSet => filter.state = s
    /\ matchLabelSelector(o)

filterCRI ==
    /\ listing = "filter" /\ call # "ListContainerStats" /\ listing' = "returned"
    /\ listed' = [o \in {p \in DOMAIN listed : Matches(p, listed[p])} |-> listed[o]]
    /\ UNCHANGED <<unread, byId, bySandbox>> /\ Outside

(* The containers of the store that match, for which the metrics are asked for. *)
buildTaskMetricsRequest ==
    /\ listing = "filter" /\ call = "ListContainerStats" /\ listing' = "metrics"
    /\ unread' = {o \in inStore \cap Containers : Matches(o, NotSet)}
    /\ UNCHANGED <<listed, byId, bySandbox>> /\ Outside

(* An entry for every container of the request; one that has no task has no metrics. *)
toCRIContainerStats ==
    /\ listing = "metrics" /\ listing' = "returned" /\ unread' = {}
    /\ listed' = [o \in unread |-> statuses[o]]
    /\ UNCHANGED <<byId, bySandbox>> /\ Outside

(* The metrics cannot be fetched or decoded. *)
MetricsFail ==
    /\ listing = "metrics" /\ listing' = "failed"
    /\ UNCHANGED <<unread, listed, byId, bySandbox>> /\ Outside

ListNext ==
    \/ \E o \in Objects : Created(o) \/ Started(o) \/ Stopped(o) \/ Removed(o) \/ ReadStatus(o)
    \/ List \/ StatusesRead \/ LookupSandbox \/ LookupId \/ NormalizeSandbox
    \/ filterCRI \/ buildTaskMetricsRequest \/ toCRIContainerStats \/ MetricsFail

ListSpec == ListInit /\ [][ListNext]_listVars

----------------------------------------------------------------------------

(* What an object of a moment is reported as. *)
Shown(o, m) == IF o \in Sandboxes THEN toCRISandbox(m.status[o]) ELSE m.status[o]

(* The key is not set, or names that object, and no other, at a moment. *)
Denotes(key, in, o, m) == key = NotSet \/ (IdsWithPrefix[key] \cap in \cap m.stored = {o})

(* What a filter asks for at a moment. *)
Wanted(o, m) ==
    \/ filter = NoFilter
    \/ /\ Denotes(filter.id, Of(call), o, m)
       /\ call # "ListPodSandbox" => Denotes(filter.sandbox, Sandboxes, SandboxOf[o], m)
       /\ call # "ListContainerStats" /\ filter.state # NotSet => filter.state = Shown(o, m)
       /\ filter.labels \subseteq LabelsOf[o]

(* However the stores change during the call, what it returns was there: every
   listed object was stored at some moment of the call, in the state that is
   reported, with labels the filter allows and the one id, and sandbox, its keys
   stood for at some moment ("short ids so long as there is only one match",
   container_list.go).  And it misses nothing that did not change: an object
   stored at every moment of the call, and which the filter asks for at every
   one, is listed - though ids are looked up in other versions of the stores than
   the one that is listed.  (Without a filter ListContainerStats lists nothing.) *)
ListsRight ==
    /\ ListTypeOK
    /\ listing = "returned" =>
           /\ \A o \in DOMAIN listed :
                 /\ \E m \in moments :
                       o \in m.stored /\ (call = "ListContainerStats" \/ Shown(o, m) = listed[o])
                 /\ filter # NoFilter =>
                       /\ \E m \in moments : Denotes(filter.id, Of(call), o, m)
                       /\ filter.labels \subseteq LabelsOf[o]
                       /\ call # "ListPodSandbox" =>
                             \/ filter.sandbox = SandboxOf[o]
                             \/ \E m \in moments : Denotes(filter.sandbox, Sandboxes, SandboxOf[o], m)
                       /\ call # "ListContainerStats" /\ filter.state # NotSet =>
                             listed[o] = filter.state
           /\ (call = "ListContainerStats" /\ filter = NoFilter)
                \/ \A o \in Of(call) :
                      (\A m \in moments : o \in m.stored /\ Wanted(o, m)) => o \in DOMAIN listed
=============================================================================
