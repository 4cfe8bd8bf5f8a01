----------------------------- MODULE OciAdapter -----------------------------
(***************************************************************************)
(* The data plane of OciDistributionAdapter (adapter.py): put, delete and  *)
(* the digest-less or exact reads (get, stat, read_range), run by several  *)
(* threads of one Adapter process against one registry repository.         *)
(*                                                                         *)
(* One step is one registry request, or one local decision between two     *)
(* requests.  put and delete hold the Adapter's _write_lock from their     *)
(* first request to their return; reads take no lock.  A request may fail; *)
(* a write whose request failed may have been applied all the same, and,   *)
(* when LateWrites holds, may even be applied after the Adapter gave up on *)
(* it.  The process may crash between any two steps.                       *)
(***************************************************************************)
EXTENDS OciRegistry, Naturals

CONSTANTS
    Objects,       \* logical Object ids (equal ids <=> equal object_id_hash)
    Digests,       \* payload contents, identified by their SHA-256 digest
    Threads,       \* callers of execute()
    Requests,      \* the requests they may issue, a subset of Request
    MaxTime,       \* bound: the last value of the clock
    MaxOps,        \* bound: number of requests issued
    LateWrites     \* whether an abandoned write can still reach the registry

ASSUME BoundsAssumption == MaxTime \in Nat /\ MaxOps \in Nat
ASSUME LateAssumption == LateWrites \in BOOLEAN

-----------------------------------------------------------------------------
(* Stored data                                                             *)

\* A retention intent is the time it ends.  No intent ends at once; an intent
\* without retainUntil (a hold) ends at no time the clock can show.
NoRetention == 0
Hold == MaxTime + 1
Retention == 0 .. Hold

\* The private tags of an Object (_naming.py).
anchor_tag(o) == <<"m-a1", o>>
latest_tag(o) == <<"m-l1", o>>
version_tag(o, d) == <<"m-v1", o, d>>

Tags == {anchor_tag(o) : o \in Objects} \cup {latest_tag(o) : o \in Objects}
            \cup {version_tag(o, d) : o \in Objects, d \in Digests}

\* The canonical metadata config (StoredObject), as far as code looks at it.
StoredObject == [obj : Objects, digest : Digests, created : 0 .. MaxTime,
                 publishOnce : BOOLEAN, retention : Retention]

build_anchor_manifest(o) == [artifactType |-> "anchor", hash |-> o]

build_object_manifest(stored) ==
    [artifactType |-> "object", config |-> stored, payload |-> stored.digest,
     subject |-> build_anchor_manifest(stored.obj)]

AnchorManifests == {build_anchor_manifest(o) : o \in Objects}
ObjectManifests == {build_object_manifest(s) : s \in StoredObject}

PayloadBlob(d) == <<"payload", d>>
ConfigBlob(stored) == <<"config", stored>>
EmptyBlob == <<"empty">>

ASSUME NoneAssumption ==
    /\ None \notin Threads \cup Digests \cup Tags
    /\ None \notin AnchorManifests \cup ObjectManifests \cup StoredObject

\* A request to execute().  A read whose digest is None names the latest
\* version.  valid is FALSE for a put whose provenance uses the reserved field
\* or whose serialized metadata is too large, which only _commit_object finds.
Request == [op : {"put", "read", "delete"}, obj : Objects, digest : Digests \cup {None},
            createOnly : BOOLEAN, publishOnce : BOOLEAN, retention : Retention,
            valid : BOOLEAN]

ASSUME RequestsAssumption ==
    /\ Requests \subseteq Request
    /\ \A r \in Requests : r.op # "read" => r.digest \in Digests

-----------------------------------------------------------------------------
(* State                                                                   *)

VARIABLES
    lock,          \* holder of _write_lock, or None
    pc,            \* the next request or decision of each thread
    req,           \* the request each thread runs
    doc,           \* the Object manifest it has built or resolved
    outcome,       \* how its last request returned
    now,           \* the Adapter's clock
    ops,           \* requests issued so far
    late,          \* abandoned manifest writes the registry may still apply
    published      \* history: every manifest ever bound to a version tag

threadVars == <<lock, pc, req, doc, outcome>>
vars == <<blobs, manifests, tags, lock, pc, req, doc, outcome, now, ops, late, published>>

\* Where a put or delete holds the lock.
PutSteps == {"create", "payload", "recheck", "exact", "anchor", "empty", "putanchor",
             "config", "putexact", "putlatest"}
DeleteSteps == {"retention", "delete"}
ResolveSteps == {"resolve", "getconfig", "getanchor"}
Steps == {"idle", "acquire"} \cup PutSteps \cup DeleteSteps \cup ResolveSteps

Outcomes == {"none", "ok", "conflict", "notfound", "mismatch", "invalid", "denied",
             "unavailable"}

\* An abandoned write: a manifest to bind to a tag, or, with no tag, to delete.
LateWrite == [tag : Tags \cup {None}, manifest : AnchorManifests \cup ObjectManifests]

Init ==
    /\ blobs = {} /\ manifests = {}
    /\ tags = [tag \in Tags |-> None]
    /\ lock = None
    /\ pc = [t \in Threads |-> "idle"]
    /\ req = [t \in Threads |-> None]
    /\ doc = [t \in Threads |-> None]
    /\ outcome = [t \in Threads |-> "none"]
    /\ now = 0 /\ ops = 0
    /\ late = {} /\ published = {}

-----------------------------------------------------------------------------
(* Control: how a step ends                                                *)

\* The thread goes on to its next step.
Goto(t, step) ==
    /\ pc' = [pc EXCEPT ![t] = step]
    /\ UNCHANGED <<lock, req, outcome>>

\* Mutant of Return: the lock is released by hand, and not when the operation
\* raises.
Return_LeaksLock(t, result) ==
    /\ pc' = [pc EXCEPT ![t] = "idle"]
    /\ req' = [req EXCEPT ![t] = None]
    /\ doc' = [doc EXCEPT ![t] = None]
    /\ outcome' = [outcome EXCEPT ![t] = result]
    /\ lock' = IF lock = t /\ result = "ok" THEN None ELSE lock

\* The operation returns or raises; "with self._write_lock" releases the lock.
Return(t, result) ==
    /\ pc' = [pc EXCEPT ![t] = "idle"]
    /\ req' = [req EXCEPT ![t] = None]
    /\ doc' = [doc EXCEPT ![t] = None]
    /\ outcome' = [outcome EXCEPT ![t] = result]
    /\ lock' = IF lock = t THEN None ELSE lock

\* A write was applied: its caller goes on, or never sees the response.
AcknowledgedOrLost(t, step) ==
    \/ Goto(t, step) /\ UNCHANGED doc
    \/ Return(t, "unavailable")

CreateOnly(r) == r.createOnly \/ r.publishOnce

-----------------------------------------------------------------------------
(* execute() and the lock                                                  *)

\* execute(): a request that passed validation starts.  One that did not
\* changes nothing and is a stuttering step.
Invoke(t) == \E r \in Requests :
    /\ pc[t] = "idle" /\ ops < MaxOps
    /\ pc' = [pc EXCEPT ![t] = IF r.op = "read" THEN "resolve" ELSE "acquire"]
    /\ req' = [req EXCEPT ![t] = r]
    /\ outcome' = [outcome EXCEPT ![t] = "none"]
    /\ ops' = ops + 1
    /\ UNCHANGED <<registryVars, lock, doc, now, late, published>>

\* Mutant of Acquire: delete does not take the lock.
Acquire_DeleteUnlocked(t) ==
    /\ pc[t] = "acquire" /\ (req[t].op = "put" => lock = None)
    /\ lock' = IF req[t].op = "put" THEN t ELSE lock
    /\ pc' = [pc EXCEPT ![t] = IF req[t].op = "put" THEN "create" ELSE "resolve"]
    /\ UNCHANGED <<registryVars, req, doc, outcome, now, ops, late, published>>

\* Mutant of Acquire: nobody waits for the lock.
Acquire_Unlocked(t) ==
    /\ pc[t] = "acquire"
    /\ lock' = t
    /\ pc' = [pc EXCEPT ![t] = IF req[t].op = "put" THEN "create" ELSE "resolve"]
    /\ UNCHANGED <<registryVars, req, doc, outcome, now, ops, late, published>>

Acquire(t) ==
    /\ pc[t] = "acquire" /\ lock = None
    /\ lock' = t
    /\ pc' = [pc EXCEPT ![t] = IF req[t].op = "put" THEN "create" ELSE "resolve"]
    /\ UNCHANGED <<registryVars, req, doc, outcome, now, ops, late, published>>

-----------------------------------------------------------------------------
(* put                                                                     *)

\* _require_create_available: HEAD the anchor (publish once) or the latest tag.
CreateGate(r) == IF r.publishOnce THEN anchor_tag(r.obj) ELSE latest_tag(r.obj)

RequireCreateAvailable(t, next) ==
    /\ IF CreateOnly(req[t]) /\ ManifestFound(CreateGate(req[t]))
       THEN Return(t, "conflict")
       ELSE Goto(t, next) /\ UNCHANGED doc
    /\ UNCHANGED <<registryVars, now, ops, late, published>>

CheckCreate(t) == pc[t] = "create" /\ RequireCreateAvailable(t, "payload")
RecheckCreate(t) == pc[t] = "recheck" /\ RequireCreateAvailable(t, "exact")

\* _upload_payload: only the request that finishes the upload stores anything.
UploadPayload(t) ==
    /\ pc[t] = "payload"
    /\ StoreBlob(PayloadBlob(req[t].digest))
    /\ AcknowledgedOrLost(t, "recheck")
    /\ UNCHANGED <<now, ops, late, published>>

\* Mutant of FindExact: a version that exists is published again.
FindExact_Republishes(t) ==
    /\ pc[t] = "exact"
    /\ IF ManifestFound(version_tag(req[t].obj, req[t].digest)) /\ CreateOnly(req[t])
       THEN Return(t, "conflict")
       ELSE Goto(t, "anchor") /\ UNCHANGED doc
    /\ UNCHANGED <<registryVars, now, ops, late, published>>

\* The exact version may be published already: a conflict for a create-only
\* put; any other put resolves it and moves the latest tag to it.
FindExact(t) ==
    /\ pc[t] = "exact"
    /\ IF ManifestFound(version_tag(req[t].obj, req[t].digest))
       THEN IF CreateOnly(req[t])
            THEN Return(t, "conflict")
            ELSE Goto(t, "resolve") /\ UNCHANGED doc
       ELSE Goto(t, "anchor") /\ UNCHANGED doc
    /\ UNCHANGED <<registryVars, now, ops, late, published>>

\* _ensure_anchor: verify the anchor that is there, or create it.  (HEAD and
\* GET are one step: no operation removes an anchor.)
FindAnchor(t) ==
    /\ pc[t] = "anchor"
    /\ LET tag == anchor_tag(req[t].obj) IN
       IF ManifestFound(tag)
       THEN IF tags[tag] = build_anchor_manifest(req[t].obj)
            THEN Goto(t, "config") /\ UNCHANGED doc
            ELSE Return(t, "conflict")
       ELSE Goto(t, "empty") /\ UNCHANGED doc
    /\ UNCHANGED <<registryVars, now, ops, late, published>>

UploadEmpty(t) ==
    /\ pc[t] = "empty"
    /\ StoreBlob(EmptyBlob)
    /\ AcknowledgedOrLost(t, "putanchor")
    /\ UNCHANGED <<now, ops, late, published>>

PutAnchor(t) ==
    /\ pc[t] = "putanchor"
    /\ StoreManifest(anchor_tag(req[t].obj), build_anchor_manifest(req[t].obj))
    /\ AcknowledgedOrLost(t, "config")
    /\ UNCHANGED <<now, ops, late, published>>

\* Provenance and metadata size are checked once the anchor exists.
RejectMetadata(t) ==
    /\ pc[t] = "config" /\ ~req[t].valid
    /\ Return(t, "invalid")
    /\ UNCHANGED <<registryVars, now, ops, late, published>>

\* What _commit_object stores for a request, created at the current time.
StoredFor(r) == [obj |-> r.obj, digest |-> r.digest, created |-> now,
                 publishOnce |-> r.publishOnce, retention |-> r.retention]

\* Mutant of UploadConfig: the manifest is built from the metadata, not from
\* the descriptor of a stored config.
UploadConfig_NotStored(t) ==
    /\ pc[t] = "config" /\ req[t].valid
    /\ Goto(t, "putexact")
    /\ doc' = [doc EXCEPT ![t] = build_object_manifest(StoredFor(req[t]))]
    /\ UNCHANGED <<registryVars, now, ops, late, published>>

\* Mutant of UploadConfig: the stored metadata is used as the manifest.
UploadConfig_NoManifest(t) ==
    /\ pc[t] = "config" /\ req[t].valid
    /\ StoreBlob(ConfigBlob(StoredFor(req[t])))
    /\ Goto(t, "putexact")
    /\ doc' = [doc EXCEPT ![t] = StoredFor(req[t])]
    /\ UNCHANGED <<now, ops, late, published>>

UploadConfig(t) ==
    /\ pc[t] = "config" /\ req[t].valid
    /\ StoreBlob(ConfigBlob(StoredFor(req[t])))
    /\ \/ /\ Goto(t, "putexact")
          /\ doc' = [doc EXCEPT ![t] = build_object_manifest(StoredFor(req[t]))]
       \/ Return(t, "unavailable")
    /\ UNCHANGED <<now, ops, late, published>>

PutExact(t) ==
    /\ pc[t] = "putexact"
    /\ StoreManifest(version_tag(req[t].obj, req[t].digest), doc[t])
    /\ published' = published \cup {doc[t]}
    /\ AcknowledgedOrLost(t, "putlatest")
    /\ UNCHANGED <<now, ops, late>>

\* The last request of a put, with a new manifest or with the existing one.
PutLatest(t) ==
    /\ pc[t] = "putlatest"
    /\ StoreManifest(latest_tag(req[t].obj), doc[t])
    /\ \/ Return(t, "ok")
       \/ Return(t, "unavailable")
    /\ UNCHANGED <<now, ops, late, published>>

-----------------------------------------------------------------------------
(* _stored_for_reference: used by reads, by delete and by a repeated put   *)

ReferenceTag(r) == IF r.digest = None THEN latest_tag(r.obj) ELSE version_tag(r.obj, r.digest)

GetManifest(t) ==
    /\ pc[t] = "resolve"
    /\ LET tag == ReferenceTag(req[t]) IN
       IF ManifestFound(tag)
       THEN Goto(t, "getconfig") /\ doc' = [doc EXCEPT ![t] = tags[tag]]
       ELSE Return(t, "notfound")
    /\ UNCHANGED <<registryVars, now, ops, late, published>>

\* _stored_from_manifest, and the identity checks on what it returns.
GetConfig(t) ==
    /\ pc[t] = "getconfig"
    /\ LET stored == doc[t].config IN
       IF ConfigBlob(stored) \notin blobs THEN Return(t, "notfound")
       ELSE IF stored.digest # doc[t].payload THEN Return(t, "mismatch")
       ELSE IF stored.obj # req[t].obj \/ req[t].digest \notin {None, stored.digest}
            THEN Return(t, "notfound")
       ELSE Goto(t, "getanchor") /\ UNCHANGED doc
    /\ UNCHANGED <<registryVars, now, ops, late, published>>

\* What a resolved reference is for.
AfterResolve(t) ==
    \/ req[t].op = "read" /\ Return(t, "ok")
    \/ req[t].op = "delete" /\ Goto(t, "retention") /\ UNCHANGED doc
    \/ req[t].op = "put" /\ Goto(t, "putlatest") /\ UNCHANGED doc

GetAnchor(t) ==
    /\ pc[t] = "getanchor"
    /\ LET tag == anchor_tag(req[t].obj) IN
       IF ~ManifestFound(tag) THEN Return(t, "notfound")
       ELSE IF tags[tag] # doc[t].subject THEN Return(t, "mismatch")
       ELSE AfterResolve(t)
    /\ UNCHANGED <<registryVars, now, ops, late, published>>

-----------------------------------------------------------------------------
(* delete                                                                  *)

\* Mutant of require_delete_permitted: a hold is an intent without an end.
delete_permitted_unless_dated(retention) ==
    \/ retention \in {NoRetention, Hold}
    \/ retention <= now

require_delete_permitted(retention) ==
    \/ retention = NoRetention
    \/ retention # Hold /\ retention <= now

CheckRetention(t) ==
    /\ pc[t] = "retention"
    /\ IF require_delete_permitted(doc[t].config.retention)
       THEN Goto(t, "delete") /\ UNCHANGED doc
       ELSE Return(t, "denied")
    /\ UNCHANGED <<registryVars, now, ops, late, published>>

\* Mutant of DeleteManifest: the config blob is reclaimed with the manifest.
DeleteManifest_Reclaims(t) ==
    /\ pc[t] = "delete"
    /\ manifests' = manifests \ {doc[t]}
    /\ tags' = [tag \in DOMAIN tags |-> IF tags[tag] = doc[t] THEN None ELSE tags[tag]]
    /\ blobs' = blobs \ {ConfigBlob(doc[t].config)}
    /\ Return(t, "ok")
    /\ UNCHANGED <<now, ops, late, published>>

\* DELETE is retried: when it was applied but its response was lost, the retry
\* answers 404 and the Adapter raises ObjectNotFound.
DeleteManifest(t) ==
    /\ pc[t] = "delete"
    /\ RemoveManifest(doc[t])
    /\ \/ doc[t] \in manifests /\ Return(t, "ok")
       \/ Return(t, "notfound")
       \/ Return(t, "unavailable")
    /\ UNCHANGED <<now, ops, late, published>>

-----------------------------------------------------------------------------
(* Failures                                                                *)

\* Steps that are a registry request; the create checks are only for a
\* create-only put.
Requesting(t) ==
    /\ pc[t] \notin {"idle", "acquire", "retention"}
    /\ pc[t] \in {"create", "recheck"} => CreateOnly(req[t])
    /\ pc[t] = "config" => req[t].valid

\* A request fails without effect, after whatever retries it has.
RequestFails(t) ==
    /\ Requesting(t)
    /\ Return(t, "unavailable")
    /\ UNCHANGED <<registryVars, now, ops, late, published>>

\* The manifest write a thread has on the wire, if any.  (A late blob is only
\* one more blob.)
InFlight(t) ==
    CASE pc[t] = "putanchor" -> {[tag |-> anchor_tag(req[t].obj),
                                  manifest |-> build_anchor_manifest(req[t].obj)]}
      [] pc[t] = "putexact" -> {[tag |-> version_tag(req[t].obj, req[t].digest),
                                 manifest |-> doc[t]]}
      [] pc[t] = "putlatest" -> {[tag |-> latest_tag(req[t].obj), manifest |-> doc[t]]}
      [] pc[t] = "delete" -> {[tag |-> None, manifest |-> doc[t]]}
      [] OTHER -> {}

\* The Adapter gives up on a write that the registry has yet to apply.
AbandonWrite(t) ==
    /\ LateWrites
    /\ InFlight(t) # {}
    /\ late' = late \cup InFlight(t)
    /\ Return(t, "unavailable")
    /\ UNCHANGED <<registryVars, now, ops, published>>

\* The registry applies it after all.
LateArrival == \E w \in late :
    /\ IF w.tag = None THEN RemoveManifest(w.manifest) ELSE StoreManifest(w.tag, w.manifest)
    /\ late' = late \ {w}
    /\ published' = published \cup
           (IF w.tag = None \/ w.manifest.artifactType = "anchor" THEN {}
            ELSE {w.manifest})
    /\ UNCHANGED <<threadVars, now, ops>>

\* The process dies and is started again: every thread and the lock are gone.
Crash ==
    /\ \E t \in Threads : pc[t] # "idle"
    /\ lock' = None
    /\ pc' = [t \in Threads |-> "idle"]
    /\ req' = [t \in Threads |-> None]
    /\ doc' = [t \in Threads |-> None]
    /\ outcome' = [t \in Threads |-> "none"]
    /\ late' = IF LateWrites THEN late \cup UNION {InFlight(t) : t \in Threads} ELSE late
    /\ UNCHANGED <<registryVars, now, ops, published>>

Tick ==
    /\ now < MaxTime
    /\ now' = now + 1
    /\ UNCHANGED <<registryVars, threadVars, ops, late, published>>

\* The bounds are used up: nothing is left to do.
Quiesce ==
    /\ ops = MaxOps /\ \A t \in Threads : pc[t] = "idle"
    /\ UNCHANGED vars

-----------------------------------------------------------------------------
(* Specification                                                           *)

PutStep(t) ==
    \/ CheckCreate(t) \/ UploadPayload(t) \/ RecheckCreate(t) \/ FindExact(t)
    \/ FindAnchor(t) \/ UploadEmpty(t) \/ PutAnchor(t)
    \/ RejectMetadata(t) \/ UploadConfig(t) \/ PutExact(t) \/ PutLatest(t)

ResolveStep(t) == GetManifest(t) \/ GetConfig(t) \/ GetAnchor(t)

DeleteStep(t) == CheckRetention(t) \/ DeleteManifest(t)

FailureStep(t) == RequestFails(t) \/ AbandonWrite(t)

\* A thread inside execute() goes on: the lock is handed over, and a request
\* ends, with a response or with the HTTP client's timeout.
ThreadStep(t) == Acquire(t) \/ PutStep(t) \/ ResolveStep(t) \/ DeleteStep(t) \/ FailureStep(t)

Next ==
    \/ \E t \in Threads : Invoke(t) \/ ThreadStep(t)
    \/ LateArrival \/ Crash \/ Tick \/ Quiesce

Spec == Init /\ [][Next]_vars

FairSpec == Spec /\ \A t \in Threads : WF_vars(ThreadStep(t))

-----------------------------------------------------------------------------
(* Properties                                                              *)

\* Types: the registry holds only anchors and Object manifests of the Objects,
\* and what each thread of execute() works on has the shape its step needs.
TypeOK ==
    /\ manifests \subseteq AnchorManifests \cup ObjectManifests
    /\ tags \in [Tags -> AnchorManifests \cup ObjectManifests \cup {None}]
    /\ lock \in Threads \cup {None}
    /\ pc \in [Threads -> Steps]
    /\ req \in [Threads -> Requests \cup {None}]
    /\ doc \in [Threads -> ObjectManifests \cup {None}]
    /\ outcome \in [Threads -> Outcomes]
    /\ now \in 0 .. MaxTime
    /\ ops \in 0 .. MaxOps
    /\ late \subseteq LateWrite
    /\ published \subseteq ObjectManifests

\* The latest tag of an Object is bound only to a manifest that an exact
\* version tag is bound to as well: no digest-less read returns a version
\* that an exact read or a delete cannot name (_commit_object publishes the
\* version tag before the latest tag, _delete removes both at once).
LatestImpliesExact ==
    \A o \in Objects :
        tags[latest_tag(o)] # None =>
            tags[latest_tag(o)] = tags[version_tag(o, tags[latest_tag(o)].payload)]

\* A version is published with everything a reader needs: a manifest that a
\* version or latest tag shows describes that Object and digest, and its
\* config, its payload and its anchor are in the registry, whatever failed,
\* crashed or arrived late on the way.
PublishedVersionsComplete ==
    \A o \in Objects : \A d \in Digests \cup {None} :
        LET tag == ReferenceTag([obj |-> o, digest |-> d]) IN
        tags[tag] # None =>
            /\ tags[tag].config.obj = o
            /\ tags[tag].payload = tags[tag].config.digest
            /\ d \in {None, tags[tag].payload}
            /\ {ConfigBlob(tags[tag].config), PayloadBlob(tags[tag].payload), EmptyBlob}
                    \subseteq blobs
            /\ tags[anchor_tag(o)] = tags[tag].subject

\* A reader that got the manifest of a version can finish, although it holds
\* no lock and a delete may remove that version between its requests: the
\* config and the anchor it still has to fetch are there and match.
ResolvedReadsComplete ==
    \A t \in Threads :
        pc[t] \in {"getconfig", "getanchor"} =>
            /\ {ConfigBlob(doc[t].config), PayloadBlob(doc[t].payload)} \subseteq blobs
            /\ doc[t].config.obj = req[t].obj
            /\ ManifestFound(anchor_tag(req[t].obj))
            /\ tags[anchor_tag(req[t].obj)] = doc[t].subject

\* The operation of t returns, or raises, with this result in this step.
Returns(t, result) == pc[t] # "idle" /\ pc'[t] = "idle" /\ outcome'[t] = result

\* A create-only or publish-once put never moves a latest tag that another
\* put has bound, although its check and its write are many requests apart.
CreateOnlyNeverReplaces ==
    [][\A t \in Threads :
           (pc[t] \in PutSteps /\ pc'[t] # pc[t] /\ CreateOnly(req[t]))
               => LET tag == latest_tag(req[t].obj) IN tags'[tag] # tags[tag] => tags[tag] = None
      ]_vars

\* When a put returns metadata, the version it describes is published: it is
\* what both the exact and the digest-less read would now resolve.
PutReturnsPublished ==
    [][\A t \in Threads :
           (pc[t] \in PutSteps /\ Returns(t, "ok")) =>
               /\ doc[t].config.obj = req[t].obj /\ doc[t].payload = req[t].digest
               /\ tags'[latest_tag(req[t].obj)] = doc[t]
               /\ tags'[version_tag(req[t].obj, req[t].digest)] = doc[t]
      ]_vars

\* Recorded retention holds against deletion, and against replacement as far as
\* it can: a version tag is unbound only at a time the retention it shows
\* permits, even when the DELETE is applied after the Adapter gave up on it, and
\* is never bound to another manifest, unless manifest writes may be late.
\* Then a PUT of the same version replaces what was bound in the meantime, its
\* retention included: the content stays, a hold may be lost.
StoredRetentionHonoured ==
    [][\A o \in Objects, d \in Digests :
           LET was == tags[version_tag(o, d)]
               is == tags'[version_tag(o, d)]
           IN  (was # None /\ is # was) =>
                   \/ is = None /\ was.config.retention # Hold /\ was.config.retention <= now
                   \/ LateWrites /\ is # None /\ is.config.obj = o /\ is.config.digest = d
      ]_vars

\* Every operation returns or raises: no thread waits for ever on _write_lock.
OperationsReturn == \A t \in Threads : pc[t] # "idle" ~> pc[t] = "idle"

\* "logical Object id was already published" (_require_create_available): an
\* ImmutableObjectConflict means that some version of the Object has been
\* published.
ConflictMeansPublished ==
    [][\A t \in Threads :
           (pc[t] \in PutSteps /\ Returns(t, "conflict")) =>
               \E m \in published : m.config.obj = req[t].obj
      ]_vars

\* "The Adapter records retention intent": the version that a put returns is
\* retained at least as long as that put asked for.
RetentionIntentRecorded ==
    [][\A t \in Threads :
           (pc[t] \in PutSteps /\ Returns(t, "ok")) =>
               doc[t].config.retention >= req[t].retention
      ]_vars

\* The catalogue the callers see: a version is the manifest its tag shows.
StoredAt(tag) == IF tags[tag] = None THEN None ELSE tags[tag].config

Catalog == INSTANCE ObjectCatalog WITH
    Stored <- StoredObject,
    versions <- [o \in Objects |-> [d \in Digests |-> StoredAt(version_tag(o, d))]],
    latest <- [o \in Objects |-> StoredAt(latest_tag(o))],
    known <- {m.config.obj : m \in published},
    clock <- now

\* Without late writes the Adapter implements the catalogue: publication is
\* atomic at the version tag, versions are immutable, deletes respect
\* retention, and a publish-once version is the Object's first.
CatalogImplemented == Catalog!Spec

-----------------------------------------------------------------------------
(* Inductive invariant                                                     *)

\* The part of TypeOK that depends on where each thread is: its request has
\* the right operation, its document is an Object manifest where one is used,
\* and a tag, or a late write to it, is of the tag's own kind.
HoldsDoc == {"putexact", "putlatest", "getconfig", "getanchor", "retention", "delete"}

RequestShape ==
    \A t \in Threads :
        pc[t] # "idle" =>
            /\ req[t] \in Requests
            /\ pc[t] \in PutSteps => req[t].op = "put"
            /\ pc[t] \in DeleteSteps => req[t].op = "delete"
            /\ pc[t] = "acquire" => req[t].op # "read"

DocShape == \A t \in Threads : pc[t] \in HoldsDoc => doc[t] \in ObjectManifests

TagShape ==
    \A o \in Objects :
        /\ tags[anchor_tag(o)] \in AnchorManifests \cup {None}
        /\ tags[latest_tag(o)] \in ObjectManifests \cup {None}
        /\ \A d \in Digests : tags[version_tag(o, d)] \in ObjectManifests \cup {None}

LateShape ==
    \A w \in late :
        \/ w.tag = None
        \/ w.manifest \in AnchorManifests /\ \E o \in Objects : w.tag = anchor_tag(o)
        \/ w.manifest \in ObjectManifests /\ \E o \in Objects :
               w.tag = latest_tag(o) \/ \E d \in Digests : w.tag = version_tag(o, d)

TypeInv == TypeOK /\ RequestShape /\ DocShape /\ TagShape /\ LateShape

\* Only the holder of _write_lock is past its acquisition in put or delete.
Locked(t) == pc[t] \in PutSteps \cup DeleteSteps
                \/ (pc[t] \in ResolveSteps /\ req[t].op # "read")

LockHeld == \A t \in Threads : Locked(t) => lock = t

\* Every tag is bound to a stored manifest about the Object and digest the
\* tag is for, and an Object with a published version has an anchor.
TagsBound ==
    /\ \A tag \in Tags : tags[tag] # None => tags[tag] \in manifests
    /\ \A o \in Objects :
        /\ tags[latest_tag(o)] # None => tags[latest_tag(o)].config.obj = o
        /\ \A d \in Digests : tags[version_tag(o, d)] # None =>
               /\ tags[version_tag(o, d)].config.obj = o
               /\ tags[version_tag(o, d)].config.digest = d
               /\ tags[version_tag(o, d)] \in published
    /\ \A m \in published : tags[anchor_tag(m.config.obj)] # None

\* What the lock holder has learnt still holds when it acts on it.
Publishing == {"exact", "anchor", "empty", "putanchor", "config", "putexact"}

Knows(t) ==
    LET o == req[t].obj
        exact == version_tag(o, req[t].digest)
    IN
    /\ pc[t] \in Publishing \ {"exact"} => tags[exact] = None
    /\ pc[t] \in {"config", "putexact"} => tags[anchor_tag(o)] # None
    /\ pc[t] = "putexact" =>
           /\ doc[t].config.obj = o /\ doc[t].config.digest = req[t].digest
           /\ doc[t].config.publishOnce = req[t].publishOnce
    /\ pc[t] \in {"getconfig", "getanchor", "retention", "delete", "putlatest"} =>
           doc[t] = tags[exact]
    /\ pc[t] = "delete" => require_delete_permitted(doc[t].config.retention)
    /\ (pc[t] \in Publishing /\ req[t].publishOnce) => \A m \in published : m.config.obj # o
    /\ (pc[t] \in Publishing \cup {"putlatest"} /\ CreateOnly(req[t])) =>
           tags[latest_tag(o)] = None
    /\ (pc[t] \in ResolveSteps /\ req[t].op = "put") => ~CreateOnly(req[t])

LockedKnowledge == \A t \in Threads : Locked(t) => Knows(t)

\* The inductive invariant of the Adapter without late writes: TypeInv, the
\* lock, the tags, and what the lock holder knows.
SafetyInv ==
    /\ TypeInv
    /\ late = {}
    /\ LockHeld
    /\ TagsBound
    /\ LatestImpliesExact
    /\ LockedKnowledge

\* Every DELETE that is decided, or on the wire after its caller gave up, is
\* of a manifest whose retention permits it; time only adds to what it permits.
DeletesPermitted ==
    /\ \A t \in Threads : pc[t] = "delete" => require_delete_permitted(doc[t].config.retention)
    /\ \A w \in late : w.tag = None =>
           w.manifest \in ObjectManifests /\ require_delete_permitted(w.manifest.config.retention)

\* The inductive invariant behind StoredRetentionHonoured, with late writes.
RetentionInv == TypeInv /\ DeletesPermitted

=============================================================================
