-------------------------- MODULE OciAdapter_proofs --------------------------
(***************************************************************************)
(* Proofs about OciAdapter, for any Objects, Digests, Threads, Requests    *)
(* and bounds.                                                             *)
(***************************************************************************)
EXTENDS OciAdapter, TLAPS

-----------------------------------------------------------------------------
(* Tags, manifests and requests                                            *)

\* The tags of an Object are tags (anchor_tag, latest_tag, version_tag).
LEMMA TagsOfObject ==
    ASSUME NEW o \in Objects
    PROVE  /\ anchor_tag(o) \in Tags
           /\ latest_tag(o) \in Tags
           /\ \A d \in Digests : version_tag(o, d) \in Tags
BY DEF Tags

\* Tags of different kinds, Objects or digests are different tags.
LEMMA TagsDiffer ==
    ASSUME NEW o, NEW p, NEW d, NEW e
    PROVE  /\ anchor_tag(o) # latest_tag(p)
           /\ anchor_tag(o) # version_tag(p, e)
           /\ latest_tag(o) # version_tag(p, e)
           /\ anchor_tag(o) = anchor_tag(p) => o = p
           /\ latest_tag(o) = latest_tag(p) => o = p
           /\ version_tag(o, d) = version_tag(p, e) => o = p /\ d = e
BY DEF anchor_tag, latest_tag, version_tag

\* Every tag is an anchor, a latest or a version tag of some Object.
LEMMA TagKinds ==
    ASSUME NEW tag \in Tags
    PROVE  \E o \in Objects :
              tag = anchor_tag(o) \/ tag = latest_tag(o) \/ \E d \in Digests : tag = version_tag(o, d)
BY DEF Tags

\* What build_object_manifest puts into an Object manifest.
LEMMA ObjectManifestFields ==
    ASSUME NEW m \in ObjectManifests
    PROVE  /\ m.config \in StoredObject
           /\ m.payload = m.config.digest
           /\ m.subject = build_anchor_manifest(m.config.obj)
           /\ m.artifactType = "object"
           /\ m = build_object_manifest(m.config)
           /\ m # None /\ m \notin AnchorManifests
<1>1. PICK s \in StoredObject : m = build_object_manifest(s)
    BY DEF ObjectManifests
<1>2. \A a \in AnchorManifests : a.artifactType = "anchor"
    BY DEF AnchorManifests, build_anchor_manifest
<1>3. m.artifactType = "object" /\ m.config = s /\ m.payload = s.digest
        /\ m.subject = build_anchor_manifest(s.obj)
    BY <1>1 DEF build_object_manifest
<1> QED  BY <1>1, <1>2, <1>3, NoneAssumption

\* What build_anchor_manifest makes is no Object manifest.
LEMMA AnchorManifestFields ==
    ASSUME NEW m \in AnchorManifests
    PROVE  m # None /\ m.artifactType = "anchor" /\ m \notin ObjectManifests
<1>1. m.artifactType = "anchor"
    BY DEF AnchorManifests, build_anchor_manifest
<1> QED  BY <1>1, NoneAssumption, ObjectManifestFields

\* What StoredFor stores for a request is a StoredObject with its fields.
LEMMA StoredFields ==
    ASSUME NEW s \in StoredObject
    PROVE  /\ s.obj \in Objects /\ s.digest \in Digests /\ s.created \in 0 .. MaxTime
           /\ s.publishOnce \in BOOLEAN /\ s.retention \in Retention
           /\ s # None
BY NoneAssumption DEF StoredObject

\* What execute() may be asked.
LEMMA RequestFields ==
    ASSUME NEW r \in Requests
    PROVE  /\ r.obj \in Objects /\ r.op \in {"put", "read", "delete"}
           /\ r.digest \in Digests \cup {None}
           /\ r.op # "read" => r.digest \in Digests
           /\ r.createOnly \in BOOLEAN /\ r.publishOnce \in BOOLEAN /\ r.valid \in BOOLEAN
           /\ r.retention \in Retention
BY RequestsAssumption DEF Request

\* The metadata _commit_object stores for a put.
LEMMA StoredForType ==
    ASSUME now \in 0 .. MaxTime, NEW r \in Requests, r.op = "put"
    PROVE  /\ StoredFor(r) \in StoredObject
           /\ StoredFor(r).obj = r.obj /\ StoredFor(r).digest = r.digest
           /\ StoredFor(r).publishOnce = r.publishOnce
           /\ StoredFor(r).retention = r.retention
           /\ build_object_manifest(StoredFor(r)) \in ObjectManifests
           /\ build_object_manifest(StoredFor(r)).config = StoredFor(r)
           /\ build_object_manifest(StoredFor(r)).payload = r.digest
BY RequestFields DEF StoredFor, StoredObject, ObjectManifests, build_object_manifest

-----------------------------------------------------------------------------
(* Type correctness                                                        *)

\* The initial state has the types.
LEMMA TypeInit == Init => TypeInv
<1> SUFFICES ASSUME Init PROVE TypeInv
    OBVIOUS
<1>1. TypeOK
    BY BoundsAssumption DEF Init, TypeOK, Steps, Outcomes
<1>2. RequestShape /\ DocShape /\ LateShape
    BY DEF Init, RequestShape, DocShape, LateShape, HoldsDoc
<1>3. TagShape
    BY TagsOfObject DEF Init, TagShape
<1> QED  BY <1>1, <1>2, <1>3 DEF TypeInv

\* TypeInv, split by what a step changes: the threads, the registry and the
\* rest.
ThreadTypes ==
    /\ lock \in Threads \cup {None}
    /\ pc \in [Threads -> Steps]
    /\ req \in [Threads -> Requests \cup {None}]
    /\ doc \in [Threads -> ObjectManifests \cup {None}]
    /\ outcome \in [Threads -> Outcomes]
    /\ RequestShape
    /\ DocShape

RegistryTypes ==
    /\ manifests \subseteq AnchorManifests \cup ObjectManifests
    /\ tags \in [Tags -> AnchorManifests \cup ObjectManifests \cup {None}]
    /\ published \subseteq ObjectManifests
    /\ TagShape

LateTypes == late \subseteq LateWrite /\ LateShape

CounterTypes == now \in 0 .. MaxTime /\ ops \in 0 .. MaxOps

\* TypeInv by the part of the state it is about.
LEMMA TypeInvParts ==
    /\ TypeInv <=> ThreadTypes /\ RegistryTypes /\ LateTypes /\ CounterTypes
    /\ TypeInv' <=> ThreadTypes' /\ RegistryTypes' /\ LateTypes' /\ CounterTypes'
BY DEF TypeInv, TypeOK, ThreadTypes, RegistryTypes, LateTypes, CounterTypes

\* Control moves on: the thread keeps its request.
LEMMA GotoTypes ==
    ASSUME ThreadTypes, NEW t \in Threads, pc[t] # "idle",
           NEW s \in Steps \ {"idle", "acquire"}, Goto(t, s),
           s \in PutSteps => req[t].op = "put",
           s \in DeleteSteps => req[t].op = "delete",
           NEW m \in ObjectManifests \cup {None}, doc' = [doc EXCEPT ![t] = m],
           s \in HoldsDoc => m \in ObjectManifests
    PROVE  ThreadTypes'
<1>1. RequestShape'
    BY DEF ThreadTypes, RequestShape, Goto
<1>2. DocShape'
    BY DEF ThreadTypes, DocShape, Goto
<1> QED  BY <1>1, <1>2 DEF ThreadTypes, Goto

\* The same when the document is kept.
LEMMA GotoKeepsDoc ==
    ASSUME ThreadTypes, NEW t \in Threads, pc[t] # "idle",
           NEW s \in Steps \ {"idle", "acquire"}, Goto(t, s), UNCHANGED doc,
           s \in PutSteps => req[t].op = "put",
           s \in DeleteSteps => req[t].op = "delete",
           s \in HoldsDoc => doc[t] \in ObjectManifests
    PROVE  ThreadTypes'
<1>1. doc[t] \in ObjectManifests \cup {None} /\ doc' = [doc EXCEPT ![t] = doc[t]]
    BY DEF ThreadTypes
<1> QED  BY <1>1, GotoTypes

\* Returning from an operation keeps the types of the thread state.
LEMMA ReturnTypes ==
    ASSUME ThreadTypes, NEW t \in Threads, NEW result \in Outcomes, Return(t, result)
    PROVE  ThreadTypes'
<1>1. RequestShape'
    BY DEF ThreadTypes, RequestShape, Return
<1>2. DocShape'
    BY DEF ThreadTypes, DocShape, Return, HoldsDoc
<1>3. "idle" \in Steps
    BY DEF Steps
<1> QED  BY <1>1, <1>2, <1>3 DEF ThreadTypes, Return

\* A manifest of the tag's kind is bound to a tag.
OfTagKind(tag, m) ==
    \/ m \in AnchorManifests /\ \E o \in Objects : tag = anchor_tag(o)
    \/ m \in ObjectManifests /\ \E o \in Objects :
           tag = latest_tag(o) \/ \E d \in Digests : tag = version_tag(o, d)

\* PUT of a manifest of the tag's own kind keeps the types of the registry.
LEMMA StoreManifestTypes ==
    ASSUME RegistryTypes, NEW tag, NEW m, OfTagKind(tag, m), StoreManifest(tag, m),
           published' \subseteq ObjectManifests
    PROVE  RegistryTypes'
<1>1. tag \in Tags
    BY TagsOfObject DEF OfTagKind
<1>2. m \in AnchorManifests \cup ObjectManifests
    BY DEF OfTagKind
<1>3. TagShape'
    <2> SUFFICES ASSUME NEW o \in Objects
                 PROVE  /\ tags'[anchor_tag(o)] \in AnchorManifests \cup {None}
                        /\ tags'[latest_tag(o)] \in ObjectManifests \cup {None}
                        /\ \A d \in Digests :
                               tags'[version_tag(o, d)] \in ObjectManifests \cup {None}
        BY DEF TagShape
    <2>1. /\ anchor_tag(o) \in Tags /\ latest_tag(o) \in Tags
          /\ \A d \in Digests : version_tag(o, d) \in Tags
        BY TagsOfObject
    <2>2. \A x \in Tags : tags'[x] = IF x = tag THEN m ELSE tags[x]
        BY <1>1 DEF RegistryTypes, StoreManifest
    <2> QED  BY <2>1, <2>2, TagsDiffer DEF RegistryTypes, TagShape, OfTagKind
<1> QED  BY <1>1, <1>2, <1>3 DEF RegistryTypes, StoreManifest

\* DELETE of a manifest keeps the types of the registry.
LEMMA RemoveManifestTypes ==
    ASSUME RegistryTypes, NEW m, RemoveManifest(m), UNCHANGED published
    PROVE  RegistryTypes'
<1>1. \A x \in Tags : tags'[x] = tags[x] \/ tags'[x] = None
    BY DEF RegistryTypes, RemoveManifest
<1>2. TagShape'
    BY <1>1, TagsOfObject DEF RegistryTypes, TagShape
<1>3. tags' \in [Tags -> AnchorManifests \cup ObjectManifests \cup {None}]
    BY DEF RegistryTypes, RemoveManifest
<1> QED  BY <1>2, <1>3 DEF RegistryTypes, RemoveManifest

\* Each step of a thread, by what it does to the registry.
LEMMA StepNames ==
    /\ Steps = {"idle", "acquire", "create", "payload", "recheck", "exact", "anchor", "empty",
                "putanchor", "config", "putexact", "putlatest", "retention", "delete",
                "resolve", "getconfig", "getanchor"}
    /\ Outcomes = {"none", "ok", "conflict", "notfound", "mismatch", "invalid", "denied",
                   "unavailable"}
BY DEF Steps, PutSteps, DeleteSteps, ResolveSteps, Outcomes

\* Going on or giving up after a write keeps the types of the thread state.
LEMMA AcknowledgedOrLostTypes ==
    ASSUME ThreadTypes, NEW t \in Threads, pc[t] # "idle",
           NEW s \in Steps \ {"idle", "acquire"}, AcknowledgedOrLost(t, s),
           s \in PutSteps => req[t].op = "put",
           s \in DeleteSteps => req[t].op = "delete",
           s \in HoldsDoc => doc[t] \in ObjectManifests
    PROVE  ThreadTypes'
<1>1. CASE Goto(t, s) /\ UNCHANGED doc
    BY <1>1, GotoKeepsDoc
<1>2. CASE Return(t, "unavailable")
    BY <1>2, ReturnTypes, StepNames
<1> QED  BY <1>1, <1>2 DEF AcknowledgedOrLost

\* The thread part of each step.
LEMMA ThreadStepTypes ==
    ASSUME TypeInv, NEW t \in Threads, ThreadStep(t)
    PROVE  ThreadTypes'
<1> USE TypeInvParts
<1>1. ThreadTypes /\ RegistryTypes /\ CounterTypes
    OBVIOUS
<1>2. /\ pc[t] # "idle" => req[t] \in Requests
      /\ pc[t] \in PutSteps => req[t].op = "put"
      /\ pc[t] \in DeleteSteps => req[t].op = "delete"
      /\ pc[t] \in HoldsDoc => doc[t] \in ObjectManifests
    BY <1>1 DEF ThreadTypes, RequestShape, DocShape, PutSteps, DeleteSteps
<1>3. CASE Acquire(t)
    <2>1. RequestShape' /\ DocShape'
        BY <1>1, <1>2, <1>3, RequestFields
           DEF ThreadTypes, RequestShape, DocShape, Acquire, PutSteps, DeleteSteps, HoldsDoc
    <2> QED  BY <1>1, <1>3, <2>1, StepNames DEF ThreadTypes, Acquire
<1>4. CASE CheckCreate(t) \/ RecheckCreate(t)
    BY <1>1, <1>2, <1>4, GotoKeepsDoc, ReturnTypes, StepNames
       DEF CheckCreate, RecheckCreate, RequireCreateAvailable, PutSteps, DeleteSteps, HoldsDoc
<1>5. CASE UploadPayload(t) \/ UploadEmpty(t) \/ PutAnchor(t)
    BY <1>1, <1>2, <1>5, AcknowledgedOrLostTypes, StepNames
       DEF UploadPayload, UploadEmpty, PutAnchor, PutSteps, DeleteSteps, HoldsDoc
<1>6. CASE FindExact(t) \/ FindAnchor(t) \/ RejectMetadata(t)
    BY <1>1, <1>2, <1>6, GotoKeepsDoc, ReturnTypes, StepNames
       DEF FindExact, FindAnchor, RejectMetadata, PutSteps, DeleteSteps, HoldsDoc
<1>7. CASE UploadConfig(t)
    <2>1. build_object_manifest(StoredFor(req[t])) \in ObjectManifests
        BY <1>1, <1>2, <1>7, StoredForType DEF UploadConfig, CounterTypes, PutSteps
    <2> QED  BY <1>1, <1>2, <1>7, <2>1, GotoTypes, ReturnTypes, StepNames
                DEF UploadConfig, PutSteps, DeleteSteps, HoldsDoc
<1>8. CASE PutExact(t)
    BY <1>1, <1>2, <1>8, AcknowledgedOrLostTypes, StepNames
       DEF PutExact, PutSteps, DeleteSteps, HoldsDoc
<1>9. CASE PutLatest(t)
    BY <1>1, <1>9, ReturnTypes, StepNames DEF PutLatest
<1>10. CASE GetManifest(t)
    <2>1. ManifestFound(ReferenceTag(req[t])) => tags[ReferenceTag(req[t])] \in ObjectManifests
        BY <1>1, <1>2, <1>10, RequestFields
           DEF GetManifest, ManifestFound, ReferenceTag, RegistryTypes, TagShape
    <2> QED  BY <1>1, <1>2, <1>10, <2>1, GotoTypes, ReturnTypes, StepNames
                DEF GetManifest, PutSteps, DeleteSteps, HoldsDoc
<1>11. CASE GetConfig(t)
    BY <1>1, <1>2, <1>11, GotoKeepsDoc, ReturnTypes, StepNames
       DEF GetConfig, PutSteps, DeleteSteps, HoldsDoc
<1>12. CASE GetAnchor(t)
    BY <1>1, <1>2, <1>12, GotoKeepsDoc, ReturnTypes, StepNames
       DEF GetAnchor, AfterResolve, PutSteps, DeleteSteps, HoldsDoc
<1>13. CASE CheckRetention(t)
    BY <1>1, <1>2, <1>13, GotoKeepsDoc, ReturnTypes, StepNames
       DEF CheckRetention, PutSteps, DeleteSteps, HoldsDoc
<1>14. CASE DeleteManifest(t) \/ RequestFails(t) \/ AbandonWrite(t)
    BY <1>1, <1>14, ReturnTypes, StepNames DEF DeleteManifest, RequestFails, AbandonWrite
<1> QED  BY <1>3, <1>4, <1>5, <1>6, <1>7, <1>8, <1>9, <1>10, <1>11, <1>12, <1>13, <1>14
            DEF ThreadStep, PutStep, ResolveStep, DeleteStep, FailureStep

\* The registry part of each step: only four steps of a thread write tags.
NoTagWrite == UNCHANGED <<manifests, tags, published>>

\* Four steps of a thread write manifests and tags; the others write none.
LEMMA QuietSteps ==
    ASSUME NEW t, ThreadStep(t)
    PROVE  PutAnchor(t) \/ PutExact(t) \/ PutLatest(t) \/ DeleteManifest(t) \/ NoTagWrite
BY DEF ThreadStep, PutStep, ResolveStep, DeleteStep, FailureStep, NoTagWrite, registryVars,
       Acquire, CheckCreate, RecheckCreate, RequireCreateAvailable, UploadPayload, StoreBlob,
       FindExact, FindAnchor, UploadEmpty, RejectMetadata, UploadConfig, GetManifest,
       GetConfig, GetAnchor, CheckRetention, RequestFails, AbandonWrite

\* A step of a thread keeps the types of the registry.
LEMMA RegistryStepTypes ==
    ASSUME TypeInv, NEW t \in Threads, ThreadStep(t)
    PROVE  RegistryTypes'
<1>1. ThreadTypes /\ RegistryTypes
    BY TypeInvParts
<1>2. /\ pc[t] # "idle" => req[t] \in Requests
      /\ pc[t] \in PutSteps => req[t].op = "put"
      /\ pc[t] \in HoldsDoc => doc[t] \in ObjectManifests
    BY <1>1 DEF ThreadTypes, RequestShape, DocShape, PutSteps
<1>3. CASE PutAnchor(t)
    <2>1. OfTagKind(anchor_tag(req[t].obj), build_anchor_manifest(req[t].obj))
        BY <1>2, <1>3, RequestFields DEF PutAnchor, OfTagKind, AnchorManifests
    <2> QED  BY <1>1, <1>3, <2>1, StoreManifestTypes DEF PutAnchor, RegistryTypes
<1>4. CASE PutExact(t)
    <2>1. OfTagKind(version_tag(req[t].obj, req[t].digest), doc[t]) /\ doc[t] \in ObjectManifests
        BY <1>2, <1>4, RequestFields DEF PutExact, OfTagKind, HoldsDoc, PutSteps
    <2> QED  BY <1>1, <1>4, <2>1, StoreManifestTypes DEF PutExact, RegistryTypes
<1>5. CASE PutLatest(t)
    <2>1. OfTagKind(latest_tag(req[t].obj), doc[t])
        BY <1>2, <1>5, RequestFields DEF PutLatest, OfTagKind, HoldsDoc
    <2> QED  BY <1>1, <1>5, <2>1, StoreManifestTypes DEF PutLatest, RegistryTypes
<1>6. CASE DeleteManifest(t)
    BY <1>1, <1>6, RemoveManifestTypes DEF DeleteManifest
<1>7. CASE NoTagWrite
    BY <1>1, <1>7 DEF NoTagWrite, RegistryTypes, TagShape
<1> QED  BY <1>3, <1>4, <1>5, <1>6, <1>7, QuietSteps

\* What a thread has on the wire is of the kind of its tag.
LEMMA InFlightTypes ==
    ASSUME TypeInv, NEW t \in Threads, NEW w \in InFlight(t)
    PROVE  w \in LateWrite /\ (w.tag = None \/ OfTagKind(w.tag, w.manifest))
<1>1. /\ pc[t] # "idle" => req[t] \in Requests
      /\ pc[t] \in PutSteps => req[t].op = "put"
      /\ pc[t] \in HoldsDoc => doc[t] \in ObjectManifests
    BY DEF TypeInv, RequestShape, DocShape, PutSteps
<1>2. CASE pc[t] = "putanchor"
    <2>1. w = [tag |-> anchor_tag(req[t].obj), manifest |-> build_anchor_manifest(req[t].obj)]
        BY <1>2 DEF InFlight
    <2>2. req[t].obj \in Objects
        BY <1>1, <1>2, RequestFields
    <2> QED  BY <2>1, <2>2, TagsOfObject DEF LateWrite, OfTagKind, AnchorManifests
<1>3. CASE pc[t] = "putexact"
    <2>1. w = [tag |-> version_tag(req[t].obj, req[t].digest), manifest |-> doc[t]]
        BY <1>3 DEF InFlight
    <2>2. req[t].obj \in Objects /\ req[t].digest \in Digests /\ doc[t] \in ObjectManifests
        BY <1>1, <1>3, RequestFields DEF PutSteps, HoldsDoc
    <2> QED  BY <2>1, <2>2, TagsOfObject DEF LateWrite, OfTagKind
<1>4. CASE pc[t] = "putlatest"
    <2>1. w = [tag |-> latest_tag(req[t].obj), manifest |-> doc[t]]
        BY <1>4 DEF InFlight
    <2>2. req[t].obj \in Objects /\ doc[t] \in ObjectManifests
        BY <1>1, <1>4, RequestFields DEF HoldsDoc
    <2> QED  BY <2>1, <2>2, TagsOfObject DEF LateWrite, OfTagKind
<1>5. CASE pc[t] = "delete"
    <2>1. w = [tag |-> None, manifest |-> doc[t]]
        BY <1>5 DEF InFlight
    <2>2. doc[t] \in ObjectManifests
        BY <1>1, <1>5 DEF HoldsDoc
    <2> QED  BY <2>1, <2>2 DEF LateWrite
<1> QED  BY <1>2, <1>3, <1>4, <1>5 DEF InFlight

\* A late write binds a tag only to a manifest of the tag's own kind.
LEMMA LateTypesAlt ==
    /\ LateTypes <=> /\ late \subseteq LateWrite
                     /\ \A w \in late : w.tag = None \/ OfTagKind(w.tag, w.manifest)
    /\ LateTypes' <=> /\ late' \subseteq LateWrite
                      /\ \A w \in late' : w.tag = None \/ OfTagKind(w.tag, w.manifest)
BY DEF LateTypes, LateShape, OfTagKind

\* A step of a thread keeps the types of the late writes, the clock and the history.
LEMMA RestStepTypes ==
    ASSUME TypeInv, NEW t \in Threads, ThreadStep(t)
    PROVE  LateTypes' /\ CounterTypes'
<1>1. LateTypes /\ CounterTypes
    BY TypeInvParts
<1>2. UNCHANGED <<now, ops>> /\ (late' = late \/ late' = late \cup InFlight(t))
    BY DEF ThreadStep, PutStep, ResolveStep, DeleteStep, FailureStep,
       Acquire, CheckCreate, RecheckCreate, RequireCreateAvailable, UploadPayload,
       FindExact, FindAnchor, UploadEmpty, PutAnchor, RejectMetadata, UploadConfig, PutExact,
       PutLatest, GetManifest, GetConfig, GetAnchor, CheckRetention, DeleteManifest,
       RequestFails, AbandonWrite
<1> QED  BY <1>1, <1>2, InFlightTypes, LateTypesAlt DEF CounterTypes

\* Every step preserves TypeInv.
LEMMA TypeNext == TypeInv /\ [Next]_vars => TypeInv'
<1> SUFFICES ASSUME TypeInv, [Next]_vars PROVE TypeInv'
    OBVIOUS
<1>0. ThreadTypes /\ RegistryTypes /\ LateTypes /\ CounterTypes
    BY TypeInvParts
<1>1. CASE \E t \in Threads : ThreadStep(t)
    BY <1>1, ThreadStepTypes, RegistryStepTypes, RestStepTypes, TypeInvParts
<1>2. CASE \E t \in Threads : Invoke(t)
    <2>1. PICK t \in Threads : Invoke(t)
        BY <1>2
    <2>2. PICK r \in Requests :
            /\ pc[t] = "idle" /\ ops < MaxOps
            /\ pc' = [pc EXCEPT ![t] = IF r.op = "read" THEN "resolve" ELSE "acquire"]
            /\ req' = [req EXCEPT ![t] = r]
            /\ outcome' = [outcome EXCEPT ![t] = "none"]
            /\ ops' = ops + 1
            /\ UNCHANGED <<registryVars, lock, doc, now, late, published>>
        BY <2>1 DEF Invoke
    <2>3. RequestShape'
        BY <1>0, <2>2 DEF ThreadTypes, RequestShape, PutSteps, DeleteSteps
    <2>4. DocShape'
        BY <1>0, <2>2 DEF ThreadTypes, DocShape, HoldsDoc
    <2>5. ThreadTypes'
        BY <1>0, <2>2, <2>3, <2>4, StepNames DEF ThreadTypes
    <2>6. CounterTypes'
        BY <1>0, <2>2, BoundsAssumption DEF CounterTypes
    <2>7. RegistryTypes' /\ LateTypes'
        BY <1>0, <2>2 DEF registryVars, RegistryTypes, TagShape, LateTypes, LateShape
    <2> QED  BY <2>5, <2>6, <2>7, TypeInvParts
<1>3. CASE LateArrival
    <2>1. PICK w \in late :
            /\ IF w.tag = None THEN RemoveManifest(w.manifest) ELSE StoreManifest(w.tag, w.manifest)
            /\ late' = late \ {w}
            /\ published' = published \cup
                   (IF w.tag = None \/ w.manifest.artifactType = "anchor" THEN {}
                    ELSE {w.manifest})
            /\ UNCHANGED <<threadVars, now, ops>>
        BY <1>3 DEF LateArrival
    <2>2. w.tag = None \/ OfTagKind(w.tag, w.manifest)
        BY <1>0, LateTypesAlt
    <2>3. published' \subseteq ObjectManifests
        BY <1>0, <2>1, <2>2, AnchorManifestFields DEF OfTagKind, RegistryTypes
    <2>4. w.tag = None => RegistryTypes'
        BY <1>0, <2>1, RemoveManifestTypes
    <2>5. w.tag # None => RegistryTypes'
        BY <1>0, <2>1, <2>2, <2>3, StoreManifestTypes
    <2>6. LateTypes' /\ CounterTypes' /\ ThreadTypes'
        BY <1>0, <2>1 DEF LateTypes, LateShape, CounterTypes, ThreadTypes, RequestShape, DocShape,
                          threadVars
    <2> QED  BY <2>4, <2>5, <2>6, TypeInvParts
<1>4. CASE Crash
    <2>1. ThreadTypes'
        BY <1>0, <1>4, StepNames DEF Crash, ThreadTypes, RequestShape, DocShape, HoldsDoc
    <2>2. RegistryTypes' /\ CounterTypes'
        BY <1>0, <1>4 DEF Crash, RegistryTypes, TagShape, CounterTypes, registryVars
    <2>3. \A w \in late' : w \in late \/ \E t \in Threads : w \in InFlight(t)
        BY <1>4 DEF Crash
    <2>4. LateTypes'
        BY <1>0, <2>3, InFlightTypes, LateTypesAlt
    <2> QED  BY <2>1, <2>2, <2>4, TypeInvParts
<1>5. CASE Tick
    BY <1>0, <1>5, BoundsAssumption, TypeInvParts
       DEF Tick, ThreadTypes, RegistryTypes, LateTypes, CounterTypes, TagShape, LateShape,
           RequestShape, DocShape, threadVars, registryVars
<1>6. CASE UNCHANGED vars
    BY <1>0, <1>6, TypeInvParts
       DEF vars, ThreadTypes, RegistryTypes, LateTypes, CounterTypes, TagShape, LateShape,
           RequestShape, DocShape
<1> QED  BY <1>1, <1>2, <1>3, <1>4, <1>5, <1>6 DEF Next, Quiesce

\* The Adapter is type correct, with or without late writes.
THEOREM TypeCorrect == Spec => []TypeOK
<1>1. TypeInv => TypeOK
    BY DEF TypeInv
<1> QED  BY <1>1, TypeInit, TypeNext, PTL DEF Spec

-----------------------------------------------------------------------------
(* Safety without late writes                                              *)

\* The initial state satisfies the safety invariant.
LEMMA SafetyInit == Init => SafetyInv
<1> SUFFICES ASSUME Init PROVE SafetyInv
    OBVIOUS
<1>1. LockHeld /\ LockedKnowledge
    BY DEF Init, LockHeld, LockedKnowledge, Locked, PutSteps, DeleteSteps, ResolveSteps
<1>2. TagsBound /\ LatestImpliesExact
    BY TagsOfObject DEF Init, TagsBound, LatestImpliesExact
<1> QED  BY <1>1, <1>2, TypeInit DEF Init, SafetyInv

\* A step of a thread changes no other thread, and nothing abandoned exists.
LEMMA OtherThreads ==
    ASSUME TypeInv, NEW t \in Threads, ThreadStep(t) \/ Invoke(t), NEW u \in Threads, u # t
    PROVE  pc'[u] = pc[u] /\ req'[u] = req[u] /\ doc'[u] = doc[u]
<1>1. CASE Invoke(t)
    BY <1>1 DEF Invoke, TypeInv, TypeOK
<1>2. CASE ThreadStep(t)
    BY <1>2 DEF ThreadStep, PutStep, ResolveStep, DeleteStep, FailureStep, TypeInv, TypeOK,
       Goto, Return, AcknowledgedOrLost, AfterResolve,
       Acquire, CheckCreate, RecheckCreate, RequireCreateAvailable, UploadPayload,
       FindExact, FindAnchor, UploadEmpty, PutAnchor, RejectMetadata, UploadConfig, PutExact,
       PutLatest, GetManifest, GetConfig, GetAnchor, CheckRetention, DeleteManifest,
       RequestFails, AbandonWrite
<1> QED  BY <1>1, <1>2

\* How a step of the thread itself ends: it returns, it goes on, or it takes
\* the lock.
LEMMA StepEnds ==
    ASSUME NEW t, ThreadStep(t)
    PROVE  \/ \E result : Return(t, result)
           \/ \E s \in Steps : Goto(t, s)
           \/ Acquire(t)
BY StepNames DEF ThreadStep, PutStep, ResolveStep, DeleteStep, FailureStep,
       AcknowledgedOrLost, AfterResolve,
       CheckCreate, RecheckCreate, RequireCreateAvailable, UploadPayload,
       FindExact, FindAnchor, UploadEmpty, PutAnchor, RejectMetadata, UploadConfig, PutExact,
       PutLatest, GetManifest, GetConfig, GetAnchor, CheckRetention, DeleteManifest,
       RequestFails, AbandonWrite

\* A reader stays a reader, and a thread without the lock writes no tag.
LEMMA UnlockedSteps ==
    ASSUME TypeInv, NEW t \in Threads, ThreadStep(t), ~Locked(t)
    PROVE  /\ NoTagWrite
           /\ Acquire(t) \/ ~Locked(t)'
<1>1. CASE Acquire(t)
    BY <1>1 DEF Acquire, NoTagWrite, registryVars
<1>2. CASE ~Acquire(t)
    <2>1. /\ pc[t] \in ResolveSteps /\ req[t].op = "read"
          /\ ResolveStep(t) \/ RequestFails(t)
        BY <1>2 DEF Locked, PutSteps, DeleteSteps, ResolveSteps, ThreadStep, PutStep, DeleteStep,
           ResolveStep, FailureStep, CheckCreate, RecheckCreate, UploadPayload, FindExact,
           FindAnchor, UploadEmpty, PutAnchor, RejectMetadata, UploadConfig, PutExact, PutLatest,
           GetManifest, GetConfig, GetAnchor, CheckRetention, DeleteManifest, Requesting,
           RequestFails, AbandonWrite, InFlight, TypeInv, TypeOK, Steps
    <2>2. NoTagWrite
        BY <2>1 DEF NoTagWrite, ResolveStep, GetManifest, GetConfig, GetAnchor, RequestFails,
                    registryVars
    <2>3. ~Locked(t)'
        BY <2>1 DEF Locked, PutSteps, DeleteSteps, ResolveSteps, ResolveStep, GetManifest, GetConfig,
                    GetAnchor, AfterResolve, RequestFails, Goto, Return, TypeInv, TypeOK
    <2> QED  BY <2>2, <2>3
<1> QED  BY <1>1, <1>2

\* Mutual exclusion.
LEMMA LockNext ==
    ASSUME TypeInv, LockHeld, NEW t \in Threads, ThreadStep(t)
    PROVE  LockHeld'
<1> SUFFICES ASSUME NEW u \in Threads, Locked(u)' PROVE lock' = u
    BY DEF LockHeld
<1>0. t # None /\ u # None
    BY NoneAssumption
<1>1. u # t => Locked(u)
    BY OtherThreads DEF Locked
<1>2. CASE Acquire(t)
    BY <1>0, <1>1, <1>2 DEF Acquire, LockHeld
<1>3. CASE \E result : Return(t, result)
    <2>1. u # t
        BY <1>3 DEF Return, Locked, PutSteps, DeleteSteps, ResolveSteps, TypeInv, TypeOK
    <2> QED  BY <1>0, <1>1, <1>3, <2>1 DEF Return, LockHeld
<1>4. CASE (\E s \in Steps : Goto(t, s)) /\ ~Acquire(t)
    <2>1. lock' = lock
        BY <1>4 DEF Goto
    <2>2. u = t => Locked(t)
        BY <1>4, UnlockedSteps
    <2> QED  BY <1>1, <2>1, <2>2 DEF LockHeld
<1> QED  BY <1>2, <1>3, <1>4, StepEnds

\* The tags after each of the four writes.
LEMMA BoundVersions ==
    ASSUME SafetyInv, NEW o \in Objects, tags[latest_tag(o)] # None
    PROVE  LET m == tags[latest_tag(o)] IN
           /\ m \in ObjectManifests /\ m \in published /\ m.payload \in Digests
           /\ m.config.obj = o /\ m = tags[version_tag(o, m.payload)]
<1> DEFINE m == tags[latest_tag(o)]
<1>1. m \in ObjectManifests
    BY DEF SafetyInv, TypeInv, TagShape
<1>2. m.payload = m.config.digest /\ m.payload \in Digests
    BY <1>1, ObjectManifestFields, StoredFields
<1>3. m.config.obj = o /\ m = tags[version_tag(o, m.payload)]
    BY DEF SafetyInv, TagsBound, LatestImpliesExact
<1>4. m \in published
    BY <1>2, <1>3 DEF SafetyInv, TagsBound
<1> QED  BY <1>1, <1>2, <1>3, <1>4

\* Writing a missing anchor (_ensure_anchor) keeps every tag bound as it should be.
LEMMA AnchorWritten ==
    ASSUME SafetyInv, NEW t \in Threads, PutAnchor(t)
    PROVE  TagsBound' /\ LatestImpliesExact'
<1>1. /\ req[t].obj \in Objects /\ pc[t] = "putanchor"
      /\ anchor_tag(req[t].obj) \in Tags
      /\ build_anchor_manifest(req[t].obj) # None
    BY RequestFields, TagsOfObject, AnchorManifestFields
       DEF PutAnchor, SafetyInv, TypeInv, RequestShape, AnchorManifests
<1>2. /\ \A x \in Tags : tags'[x] = IF x = anchor_tag(req[t].obj)
                                 THEN build_anchor_manifest(req[t].obj) ELSE tags[x]
      /\ manifests' = manifests \cup {build_anchor_manifest(req[t].obj)}
      /\ published' = published
    BY DEF PutAnchor, StoreManifest, SafetyInv, TypeInv, TypeOK
<1>3. /\ \A o \in Objects : tags'[latest_tag(o)] = tags[latest_tag(o)]
      /\ \A o \in Objects, d \in Digests : tags'[version_tag(o, d)] = tags[version_tag(o, d)]
      /\ \A o \in Objects : tags[anchor_tag(o)] # None => tags'[anchor_tag(o)] # None
    BY <1>1, <1>2, TagsOfObject, TagsDiffer
<1>4. \A m \in published : m.config.obj \in Objects
    BY ObjectManifestFields, StoredFields DEF SafetyInv, TypeInv, TypeOK
<1>5. TagsBound'
    BY <1>2, <1>3, <1>4 DEF TagsBound, SafetyInv
<1>6. LatestImpliesExact'
    BY <1>3, BoundVersions DEF LatestImpliesExact
<1> QED  BY <1>5, <1>6

\* Binding a free version tag (_commit_object) keeps every tag bound as it should be.
LEMMA ExactWritten ==
    ASSUME SafetyInv, NEW t \in Threads, PutExact(t)
    PROVE  TagsBound' /\ LatestImpliesExact'
<1> DEFINE exact == version_tag(req[t].obj, req[t].digest)
<1>1. /\ req[t].obj \in Objects /\ req[t].digest \in Digests /\ exact \in Tags
      /\ doc[t] \in ObjectManifests /\ doc[t] # None /\ Locked(t)
    BY RequestFields, TagsOfObject, ObjectManifestFields
       DEF PutExact, SafetyInv, TypeInv, RequestShape, DocShape, PutSteps, HoldsDoc, Locked
<1>2. /\ tags[exact] = None /\ tags[anchor_tag(req[t].obj)] # None
      /\ doc[t].config.obj = req[t].obj /\ doc[t].config.digest = req[t].digest
    BY <1>1 DEF PutExact, SafetyInv, LockedKnowledge, Knows, Publishing
<1>3. /\ \A x \in Tags : tags'[x] = IF x = exact THEN doc[t] ELSE tags[x]
      /\ manifests' = manifests \cup {doc[t]}
      /\ published' = published \cup {doc[t]}
    BY DEF PutExact, StoreManifest, SafetyInv, TypeInv, TypeOK
<1>4. /\ \A o \in Objects : tags'[latest_tag(o)] = tags[latest_tag(o)]
      /\ \A o \in Objects : tags'[anchor_tag(o)] = tags[anchor_tag(o)]
      /\ \A o \in Objects, d \in Digests :
             tags'[version_tag(o, d)] = IF o = req[t].obj /\ d = req[t].digest THEN doc[t]
                                        ELSE tags[version_tag(o, d)]
    BY <1>1, <1>3, TagsOfObject, TagsDiffer
<1>5. \A m \in published : m.config.obj \in Objects
    BY ObjectManifestFields, StoredFields DEF SafetyInv, TypeInv, TypeOK
<1>6. TagsBound'
    BY <1>1, <1>2, <1>3, <1>4, <1>5 DEF TagsBound, SafetyInv
<1>7. LatestImpliesExact'
    BY <1>2, <1>4, BoundVersions DEF LatestImpliesExact
<1> QED  BY <1>6, <1>7

\* Moving the latest tag to a bound version keeps every tag bound as it should be.
LEMMA LatestWritten ==
    ASSUME SafetyInv, NEW t \in Threads, PutLatest(t)
    PROVE  TagsBound' /\ LatestImpliesExact'
<1> DEFINE latest == latest_tag(req[t].obj)
<1>1. /\ req[t].obj \in Objects /\ req[t].digest \in Digests /\ latest \in Tags
      /\ doc[t] \in ObjectManifests /\ doc[t] # None /\ Locked(t)
    BY RequestFields, TagsOfObject, ObjectManifestFields
       DEF PutLatest, SafetyInv, TypeInv, RequestShape, DocShape, PutSteps, HoldsDoc, Locked
<1>2. doc[t] = tags[version_tag(req[t].obj, req[t].digest)]
    BY <1>1 DEF PutLatest, SafetyInv, LockedKnowledge, Knows
<1>3. doc[t].config.obj = req[t].obj /\ doc[t].payload = req[t].digest
    BY <1>1, <1>2, ObjectManifestFields DEF SafetyInv, TagsBound
<1>4. /\ \A x \in Tags : tags'[x] = IF x = latest THEN doc[t] ELSE tags[x]
      /\ manifests' = manifests \cup {doc[t]}
      /\ published' = published
    BY DEF PutLatest, StoreManifest, SafetyInv, TypeInv, TypeOK
<1>5. /\ \A o \in Objects : tags'[latest_tag(o)] = IF o = req[t].obj THEN doc[t]
                                                  ELSE tags[latest_tag(o)]
      /\ \A o \in Objects : tags'[anchor_tag(o)] = tags[anchor_tag(o)]
      /\ \A o \in Objects, d \in Digests : tags'[version_tag(o, d)] = tags[version_tag(o, d)]
    BY <1>1, <1>4, TagsOfObject, TagsDiffer
<1>6. \A m \in published : m.config.obj \in Objects
    BY ObjectManifestFields, StoredFields DEF SafetyInv, TypeInv, TypeOK
<1>7. TagsBound'
    BY <1>1, <1>3, <1>4, <1>5, <1>6 DEF TagsBound, SafetyInv
<1>8. LatestImpliesExact'
    BY <1>1, <1>2, <1>3, <1>5, BoundVersions DEF LatestImpliesExact
<1> QED  BY <1>7, <1>8

\* Deleting an Object manifest (_delete) keeps every tag bound as it should be.
LEMMA ManifestRemoved ==
    ASSUME SafetyInv, NEW m \in ObjectManifests, RemoveManifest(m), UNCHANGED published
    PROVE  TagsBound' /\ LatestImpliesExact'
<1>1. /\ \A x \in Tags : tags'[x] = IF tags[x] = m THEN None ELSE tags[x]
      /\ manifests' = manifests \ {m}
    BY DEF RemoveManifest, SafetyInv, TypeInv, TypeOK
<1>2. \A o \in Objects : tags'[anchor_tag(o)] = tags[anchor_tag(o)]
    BY <1>1, TagsOfObject, AnchorManifestFields, ObjectManifestFields DEF SafetyInv, TypeInv, TagShape
<1>3. \A p \in published : p.config.obj \in Objects
    BY ObjectManifestFields, StoredFields DEF SafetyInv, TypeInv, TypeOK
<1>4. TagsBound'
    BY <1>1, <1>2, <1>3, TagsOfObject DEF TagsBound, SafetyInv
<1>5. LatestImpliesExact'
    BY <1>1, TagsOfObject, BoundVersions DEF LatestImpliesExact
<1> QED  BY <1>4, <1>5

\* What a thread knows depends only on itself, the tags and the clock, which
\* only makes a permitted delete stay permitted.
LEMMA KnowsKept ==
    ASSUME NEW t, Knows(t), NoTagWrite, pc'[t] = pc[t], req'[t] = req[t], doc'[t] = doc[t],
           now \in Nat, now' \in Nat, now <= now',
           pc[t] = "delete" => doc[t].config.retention \in Nat
    PROVE  Knows(t)'
<1>1. pc[t] = "delete" => require_delete_permitted(doc[t].config.retention)'
    BY DEF Knows, require_delete_permitted
<1> QED  BY <1>1 DEF Knows, NoTagWrite, CreateOnly

\* What the lock holder itself knows after each of its steps.
LEMMA KnowsNext ==
    ASSUME SafetyInv, NEW t \in Threads, ThreadStep(t), Locked(t), Locked(t)'
    PROVE  Knows(t)'
<1> DEFINE o == req[t].obj
           exact == version_tag(o, req[t].digest)
<1>1. /\ pc[t] \in Steps /\ pc[t] # "idle" /\ pc[t] # "acquire"
      /\ req[t] \in Requests /\ o \in Objects /\ req[t].digest \in Digests
      /\ pc[t] \in PutSteps => req[t].op = "put"
      /\ pc[t] \in DeleteSteps => req[t].op = "delete"
      /\ pc[t] \in HoldsDoc => doc[t] \in ObjectManifests
    BY RequestFields DEF SafetyInv, TypeInv, TypeOK, RequestShape, DocShape, Locked, PutSteps, DeleteSteps,
                         ResolveSteps
<1>2. Knows(t)
    BY DEF SafetyInv, LockedKnowledge
<1>3. /\ anchor_tag(o) \in Tags /\ latest_tag(o) \in Tags /\ exact \in Tags
      /\ \A x \in Tags : ManifestFound(x) <=> tags[x] # None
    BY <1>1, TagsOfObject DEF SafetyInv, TagsBound, ManifestFound
<1>4. /\ pc'[t] # "idle"
      /\ \A result : ~Return(t, result)
      /\ \A s : Goto(t, s) => pc'[t] = s /\ req'[t] = req[t]
    BY DEF Goto, Return, SafetyInv, TypeInv, TypeOK, Locked, PutSteps, DeleteSteps, ResolveSteps
<1>5. CASE CheckCreate(t) \/ UploadPayload(t)
    BY <1>4, <1>5 DEF CheckCreate, UploadPayload, RequireCreateAvailable, AcknowledgedOrLost, Knows,
                      Publishing, ResolveSteps
<1>6. CASE RecheckCreate(t)
    <2>1. /\ pc'[t] = "exact" /\ req'[t] = req[t]
          /\ ~(CreateOnly(req[t]) /\ ManifestFound(CreateGate(req[t])))
          /\ NoTagWrite
        BY <1>4, <1>6 DEF RecheckCreate, RequireCreateAvailable, NoTagWrite, registryVars
    <2>2. req[t].publishOnce => \A m \in published : m.config.obj # o
        BY <1>3, <2>1 DEF CreateOnly, CreateGate, SafetyInv, TagsBound
    <2>3. CreateOnly(req[t]) => tags[latest_tag(o)] = None
        BY <1>1, <1>3, <2>1, <2>2, BoundVersions DEF CreateGate
    <2> QED  BY <2>1, <2>2, <2>3 DEF Knows, Publishing, NoTagWrite, CreateOnly, ResolveSteps
<1>7. CASE FindExact(t)
    <2>1. /\ req'[t] = req[t] /\ NoTagWrite /\ pc[t] = "exact"
          /\ \/ pc'[t] = "resolve" /\ ~CreateOnly(req[t])
             \/ pc'[t] = "anchor" /\ tags[exact] = None
        BY <1>3, <1>4, <1>7 DEF FindExact, NoTagWrite, registryVars
    <2> QED  BY <1>2, <2>1 DEF Knows, Publishing, NoTagWrite, CreateOnly, ResolveSteps
<1>8. CASE FindAnchor(t)
    <2>1. /\ req'[t] = req[t] /\ NoTagWrite /\ pc[t] = "anchor"
          /\ \/ pc'[t] = "config" /\ tags[anchor_tag(o)] # None
             \/ pc'[t] = "empty"
        BY <1>3, <1>4, <1>8 DEF FindAnchor, NoTagWrite, registryVars
    <2> QED  BY <1>2, <2>1 DEF Knows, Publishing, NoTagWrite, CreateOnly, ResolveSteps
<1>9. CASE UploadEmpty(t)
    <2>1. req'[t] = req[t] /\ NoTagWrite /\ pc[t] = "empty" /\ pc'[t] = "putanchor"
        BY <1>4, <1>9 DEF UploadEmpty, AcknowledgedOrLost, NoTagWrite, StoreBlob
    <2> QED  BY <1>2, <2>1 DEF Knows, Publishing, NoTagWrite, CreateOnly, ResolveSteps
<1>10. CASE PutAnchor(t)
    <2>1. req'[t] = req[t] /\ pc[t] = "putanchor" /\ pc'[t] = "config" /\ published' = published
        BY <1>4, <1>10 DEF PutAnchor, AcknowledgedOrLost
    <2>2. /\ tags'[exact] = tags[exact] /\ tags'[latest_tag(o)] = tags[latest_tag(o)]
          /\ tags'[anchor_tag(o)] # None
        BY <1>1, <1>3, <1>10, TagsDiffer, AnchorManifestFields
           DEF PutAnchor, StoreManifest, SafetyInv, TypeInv, TypeOK, AnchorManifests
    <2> QED  BY <1>2, <2>1, <2>2 DEF Knows, Publishing, CreateOnly, ResolveSteps
<1>11. CASE UploadConfig(t)
    <2>1. /\ req'[t] = req[t] /\ NoTagWrite /\ pc[t] = "config" /\ pc'[t] = "putexact"
          /\ doc'[t] = build_object_manifest(StoredFor(req[t]))
        BY <1>4, <1>11 DEF UploadConfig, NoTagWrite, StoreBlob, SafetyInv, TypeInv, TypeOK
    <2>2. /\ doc'[t].config.obj = o /\ doc'[t].config.digest = req[t].digest
          /\ doc'[t].config.publishOnce = req[t].publishOnce
        BY <1>1, <2>1, StoredForType DEF SafetyInv, TypeInv, TypeOK, PutSteps
    <2> QED  BY <1>2, <2>1, <2>2 DEF Knows, Publishing, NoTagWrite, CreateOnly, ResolveSteps
<1>12. CASE PutExact(t)
    <2>1. /\ req'[t] = req[t] /\ doc'[t] = doc[t]
          /\ pc[t] = "putexact" /\ pc'[t] = "putlatest"
        BY <1>4, <1>12 DEF PutExact, AcknowledgedOrLost
    <2>2. tags'[exact] = doc[t] /\ tags'[latest_tag(o)] = tags[latest_tag(o)]
        BY <1>3, <1>12, TagsDiffer DEF PutExact, StoreManifest, SafetyInv, TypeInv, TypeOK
    <2> QED  BY <1>2, <2>1, <2>2 DEF Knows, Publishing, CreateOnly, ResolveSteps
<1>13. CASE GetManifest(t)
    <2>1. /\ req'[t] = req[t] /\ NoTagWrite /\ pc[t] = "resolve" /\ pc'[t] = "getconfig"
          /\ doc'[t] = tags[ReferenceTag(req[t])]
        BY <1>4, <1>13 DEF GetManifest, NoTagWrite, registryVars, SafetyInv, TypeInv, TypeOK
    <2>2. ReferenceTag(req[t]) = exact
        BY <1>1, NoneAssumption DEF ReferenceTag
    <2> QED  BY <1>2, <2>1, <2>2 DEF Knows, Publishing, NoTagWrite, CreateOnly, ResolveSteps
<1>14. CASE GetConfig(t)
    <2>1. /\ req'[t] = req[t] /\ doc'[t] = doc[t] /\ NoTagWrite
          /\ pc[t] = "getconfig" /\ pc'[t] = "getanchor"
        BY <1>4, <1>14 DEF GetConfig, NoTagWrite, registryVars
    <2> QED  BY <1>2, <2>1 DEF Knows, Publishing, NoTagWrite, CreateOnly, ResolveSteps
<1>15. CASE GetAnchor(t)
    <2>1. /\ req'[t] = req[t] /\ doc'[t] = doc[t] /\ NoTagWrite /\ pc[t] = "getanchor"
          /\ pc'[t] = "retention" \/ (pc'[t] = "putlatest" /\ req[t].op = "put")
        BY <1>4, <1>15 DEF GetAnchor, AfterResolve, NoTagWrite, registryVars
    <2> QED  BY <1>2, <2>1 DEF Knows, Publishing, NoTagWrite, CreateOnly, ResolveSteps
<1>16. CASE CheckRetention(t)
    <2>1. /\ req'[t] = req[t] /\ doc'[t] = doc[t] /\ NoTagWrite /\ now' = now
          /\ pc[t] = "retention" /\ pc'[t] = "delete"
          /\ require_delete_permitted(doc[t].config.retention)
        BY <1>4, <1>16 DEF CheckRetention, NoTagWrite, registryVars
    <2> QED  BY <1>2, <2>1 DEF Knows, Publishing, NoTagWrite, CreateOnly, ResolveSteps,
                               require_delete_permitted
<1> QED  BY <1>1, <1>4, <1>5, <1>6, <1>7, <1>8, <1>9, <1>10, <1>11, <1>12, <1>13, <1>14, <1>15, <1>16
            DEF ThreadStep, PutStep, ResolveStep, DeleteStep, FailureStep, Acquire, RejectMetadata,
                PutLatest, DeleteManifest, RequestFails, AbandonWrite

\* A recorded retention intent is a time that can be compared with the clock.
LEMMA RetentionNat ==
    ASSUME TypeInv, NEW t \in Threads, pc[t] = "delete"
    PROVE  doc[t].config.retention \in Nat
<1>1. doc[t] \in ObjectManifests
    BY DEF TypeInv, DocShape, HoldsDoc
<1> QED  BY <1>1, ObjectManifestFields, StoredFields, BoundsAssumption DEF Retention, Hold

\* SafetyInv is inductive.
LEMMA SafetyNext ==
    ASSUME ~LateWrites, SafetyInv, [Next]_vars
    PROVE  SafetyInv'
<1>0. TypeInv /\ TypeInv'
    BY TypeNext DEF SafetyInv
<1>1. now \in Nat /\ now' \in Nat
    BY <1>0, BoundsAssumption DEF TypeInv, TypeOK
<1>2. ASSUME NEW t \in Threads, ThreadStep(t)
      PROVE  SafetyInv'
    <2>1. late' = {}
        BY <1>2 DEF SafetyInv, ThreadStep, PutStep, ResolveStep, DeleteStep, FailureStep,
           Acquire, CheckCreate, RecheckCreate, RequireCreateAvailable, UploadPayload,
           FindExact, FindAnchor, UploadEmpty, PutAnchor, RejectMetadata, UploadConfig, PutExact,
           PutLatest, GetManifest, GetConfig, GetAnchor, CheckRetention, DeleteManifest,
           RequestFails, AbandonWrite
    <2>2. LockHeld'
        BY <1>2, LockNext DEF SafetyInv
    <2>3. TagsBound' /\ LatestImpliesExact'
        <3>1. DeleteManifest(t) => TagsBound' /\ LatestImpliesExact'
            BY <1>0, ManifestRemoved DEF DeleteManifest, TypeInv, DocShape, HoldsDoc
        <3>2. NoTagWrite => TagsBound' /\ LatestImpliesExact'
            BY DEF NoTagWrite, SafetyInv, TagsBound, LatestImpliesExact
        <3> QED  BY <1>2, <3>1, <3>2, QuietSteps, AnchorWritten, ExactWritten, LatestWritten
    <2>4. LockedKnowledge'
        <3> SUFFICES ASSUME NEW u \in Threads, Locked(u)' PROVE Knows(u)'
            BY DEF LockedKnowledge
        <3>1. now' = now
            BY <1>2 DEF ThreadStep, PutStep, ResolveStep, DeleteStep, FailureStep,
               Acquire, CheckCreate, RecheckCreate, RequireCreateAvailable, UploadPayload,
               FindExact, FindAnchor, UploadEmpty, PutAnchor, RejectMetadata, UploadConfig,
               PutExact, PutLatest, GetManifest, GetConfig, GetAnchor, CheckRetention,
               DeleteManifest, RequestFails, AbandonWrite
        <3>2. CASE u = t /\ Locked(t)
            BY <1>2, <3>2, KnowsNext
        <3>3. CASE u = t /\ ~Locked(t)
            <4>1. Acquire(t)
                BY <1>0, <1>2, <3>3, UnlockedSteps
            <4>2. /\ req'[t] = req[t]
                  /\ pc'[t] = "create" \/ (pc'[t] = "resolve" /\ req[t].op # "put")
                BY <1>0, <4>1 DEF Acquire, TypeInv, TypeOK
            <4> QED  BY <3>3, <4>2 DEF Knows, Publishing, ResolveSteps
        <3>4. CASE u # t
            <4>1. pc'[u] = pc[u] /\ req'[u] = req[u] /\ doc'[u] = doc[u] /\ Locked(u)
                BY <1>0, <1>2, <3>4, OtherThreads DEF Locked
            <4>2. lock = u /\ ~Locked(t)
                BY <3>4, <4>1 DEF SafetyInv, LockHeld
            <4>3. NoTagWrite
                BY <1>0, <1>2, <4>2, UnlockedSteps
            <4>4. Knows(u)
                BY <4>1 DEF SafetyInv, LockedKnowledge
            <4> QED  BY <1>0, <1>1, <3>1, <4>1, <4>3, <4>4, KnowsKept, RetentionNat
        <3> QED  BY <3>2, <3>3, <3>4
    <2> QED  BY <1>0, <2>1, <2>2, <2>3, <2>4 DEF SafetyInv
<1>3. ASSUME NEW t \in Threads, Invoke(t)
      PROVE  SafetyInv'
    <2>1. NoTagWrite /\ late' = late /\ lock' = lock /\ now' = now
        BY <1>3 DEF Invoke, NoTagWrite, registryVars
    <2>2. ~Locked(t)'
        BY <1>0, <1>3, RequestFields
           DEF Invoke, Locked, PutSteps, DeleteSteps, ResolveSteps, TypeInv, TypeOK
    <2>3. \A u \in Threads : Locked(u)' =>
              Locked(u) /\ pc'[u] = pc[u] /\ req'[u] = req[u] /\ doc'[u] = doc[u]
        BY <1>0, <1>3, <2>2, OtherThreads DEF Locked
    <2>4. LockHeld'
        BY <2>1, <2>3 DEF LockHeld, SafetyInv
    <2>5. LockedKnowledge'
        BY <1>0, <1>1, <2>1, <2>3, KnowsKept, RetentionNat DEF LockedKnowledge, SafetyInv
    <2>6. TagsBound' /\ LatestImpliesExact'
        BY <2>1 DEF NoTagWrite, SafetyInv, TagsBound, LatestImpliesExact
    <2> QED  BY <1>0, <2>1, <2>4, <2>5, <2>6 DEF SafetyInv
<1>4. CASE LateArrival
    BY <1>4 DEF LateArrival, SafetyInv
<1>5. CASE Crash
    <2>1. \A t \in Threads : ~Locked(t)'
        BY <1>5 DEF Crash, Locked, PutSteps, DeleteSteps, ResolveSteps
    <2>2. NoTagWrite /\ late' = late
        BY <1>5 DEF Crash, NoTagWrite, registryVars
    <2> QED  BY <1>0, <2>1, <2>2
                DEF SafetyInv, LockHeld, LockedKnowledge, NoTagWrite, TagsBound, LatestImpliesExact
<1>6. CASE Tick \/ UNCHANGED vars
    <2>1. /\ NoTagWrite /\ late' = late /\ now <= now' /\ UNCHANGED threadVars
        BY <1>1, <1>6 DEF Tick, vars, NoTagWrite, registryVars, threadVars
    <2>2. LockHeld'
        BY <2>1 DEF SafetyInv, LockHeld, Locked, threadVars
    <2>3. LockedKnowledge'
        BY <1>0, <1>1, <2>1, KnowsKept, RetentionNat DEF SafetyInv, LockedKnowledge, Locked, threadVars
    <2> QED  BY <1>0, <2>1, <2>2, <2>3 DEF SafetyInv, NoTagWrite, TagsBound, LatestImpliesExact
<1> QED  BY <1>2, <1>3, <1>4, <1>5, <1>6 DEF Next, Quiesce

\* SafetyInv holds of every run without late writes.
THEOREM SafetyInvariant == ASSUME ~LateWrites PROVE Spec => []SafetyInv
<1>1. SafetyInv /\ [Next]_vars => SafetyInv'
    BY SafetyNext
<1> QED  BY <1>1, SafetyInit, PTL DEF Spec

\* Without late writes the latest tag always names a published exact version.
THEOREM LatestConsistent == ASSUME ~LateWrites PROVE Spec => []LatestImpliesExact
<1>1. SafetyInv => LatestImpliesExact
    BY DEF SafetyInv
<1> QED  BY <1>1, SafetyInvariant, PTL

-----------------------------------------------------------------------------
(* Action properties without late writes                                   *)

\* A thread that moves, moves by one of its own steps or by a crash.
LEMMA WhoMoves ==
    ASSUME TypeInv, [Next]_vars, NEW t \in Threads, pc'[t] # pc[t], pc[t] # "idle"
    PROVE  ThreadStep(t) \/ Crash
<1>1. ASSUME NEW u \in Threads, ThreadStep(u) \/ Invoke(u)
      PROVE  ThreadStep(t)
    BY <1>1, OtherThreads DEF Invoke
<1> QED  BY <1>1 DEF Next, LateArrival, Tick, Quiesce, vars, threadVars

\* A create-only put never moves a latest tag that is bound: what it checked
\* before uploading still holds when it writes.
THEOREM CreateOnlyExclusive == ASSUME ~LateWrites PROVE Spec => CreateOnlyNeverReplaces
<1>1. ASSUME SafetyInv, [Next]_vars, NEW t \in Threads,
             pc[t] \in PutSteps, pc'[t] # pc[t], CreateOnly(req[t]),
             tags'[latest_tag(req[t].obj)] # tags[latest_tag(req[t].obj)]
      PROVE  tags[latest_tag(req[t].obj)] = None
    <2>1. TypeInv /\ pc[t] # "idle" /\ pc[t] # "delete" /\ Locked(t) /\ Knows(t)
        BY <1>1 DEF SafetyInv, PutSteps, Locked, LockedKnowledge
    <2>2. /\ tags \in [Tags -> AnchorManifests \cup ObjectManifests \cup {None}]
          /\ latest_tag(req[t].obj) \in Tags
        BY <2>1, RequestFields, TagsOfObject DEF TypeInv, TypeOK, RequestShape
    <2>3. ~NoTagWrite
        BY <1>1 DEF NoTagWrite
    <2>4. ThreadStep(t)
        BY <1>1, <2>1, <2>3, WhoMoves DEF Crash, NoTagWrite, registryVars
    <2>5. CASE PutAnchor(t) \/ PutExact(t)
        BY <1>1, <2>2, <2>5, TagsDiffer DEF PutAnchor, PutExact, StoreManifest
    <2>6. CASE PutLatest(t)
        BY <1>1, <2>1, <2>6 DEF PutLatest, Knows
    <2> QED  BY <2>1, <2>3, <2>4, <2>5, <2>6, QuietSteps DEF DeleteManifest
<1>2. SafetyInv /\ [Next]_vars => [\A t \in Threads :
           (pc[t] \in PutSteps /\ pc'[t] # pc[t] /\ CreateOnly(req[t]))
               => LET tag == latest_tag(req[t].obj) IN tags'[tag] # tags[tag] => tags[tag] = None
      ]_vars
    BY <1>1
<1> QED  BY <1>2, SafetyInvariant, PTL DEF Spec, CreateOnlyNeverReplaces

\* A put that returns metadata has published the version it describes.
THEOREM PutPublishes == ASSUME ~LateWrites PROVE Spec => PutReturnsPublished
<1>1. ASSUME SafetyInv, [Next]_vars, NEW t \in Threads, pc[t] \in PutSteps, Returns(t, "ok")
      PROVE  /\ doc[t].config.obj = req[t].obj /\ doc[t].payload = req[t].digest
             /\ tags'[latest_tag(req[t].obj)] = doc[t]
             /\ tags'[version_tag(req[t].obj, req[t].digest)] = doc[t]
    <2>1. TypeInv /\ pc'[t] # pc[t] /\ Locked(t) /\ Knows(t)
        BY <1>1 DEF SafetyInv, PutSteps, Locked, LockedKnowledge, Returns
    <2>2. ThreadStep(t)
        BY <1>1, <2>1, WhoMoves DEF Crash, Returns
    <2>3. PutLatest(t)
        BY <1>1, <2>1, <2>2 DEF Returns, ThreadStep, PutStep, ResolveStep, DeleteStep, FailureStep, PutSteps,
           TypeInv, TypeOK, Goto, Return, AcknowledgedOrLost,
           Acquire, CheckCreate, RecheckCreate, RequireCreateAvailable, UploadPayload,
           FindExact, FindAnchor, UploadEmpty, PutAnchor, RejectMetadata, UploadConfig, PutExact,
           GetManifest, GetConfig, GetAnchor, CheckRetention, DeleteManifest, RequestFails, AbandonWrite
    <2>4. /\ req[t].obj \in Objects /\ req[t].digest \in Digests
          /\ doc[t] \in ObjectManifests /\ doc[t] # None
        BY <2>1, <2>3, RequestFields, ObjectManifestFields
           DEF PutLatest, TypeInv, RequestShape, DocShape, PutSteps, HoldsDoc
    <2>5. doc[t] = tags[version_tag(req[t].obj, req[t].digest)]
        BY <2>1, <2>3 DEF PutLatest, Knows
    <2>6. doc[t].config.obj = req[t].obj /\ doc[t].payload = req[t].digest
        BY <1>1, <2>4, <2>5, ObjectManifestFields DEF SafetyInv, TagsBound
    <2>7. /\ tags'[latest_tag(req[t].obj)] = doc[t]
          /\ tags'[version_tag(req[t].obj, req[t].digest)] = doc[t]
        BY <2>1, <2>3, <2>4, <2>5, TagsOfObject, TagsDiffer DEF PutLatest, StoreManifest, TypeInv, TypeOK
    <2> QED  BY <2>6, <2>7
<1>2. SafetyInv /\ [Next]_vars => [\A t \in Threads :
           (pc[t] \in PutSteps /\ Returns(t, "ok")) =>
               /\ doc[t].config.obj = req[t].obj /\ doc[t].payload = req[t].digest
               /\ tags'[latest_tag(req[t].obj)] = doc[t]
               /\ tags'[version_tag(req[t].obj, req[t].digest)] = doc[t]
      ]_vars
    BY <1>1
<1> QED  BY <1>2, SafetyInvariant, PTL DEF Spec, PutReturnsPublished

-----------------------------------------------------------------------------
(* The Adapter implements the catalogue                                    *)

\* A stored version and its manifest determine each other.
LEMMA StoredAtFacts ==
    ASSUME TypeInv, NEW x \in Tags, NEW y \in Tags,
           tags[x] \in ObjectManifests \cup {None}, tags[y] \in ObjectManifests \cup {None}
    PROVE  /\ StoredAt(x) = None <=> tags[x] = None
           /\ StoredAt(x) = StoredAt(y) <=> tags[x] = tags[y]
BY ObjectManifestFields, StoredFields DEF StoredAt

\* A step that leaves the version and latest tags, the history and the clock
\* alone is a stuttering step of the catalogue.
LEMMA CatalogStutter ==
    ASSUME \A o \in Objects, d \in Digests : tags'[version_tag(o, d)] = tags[version_tag(o, d)],
           \A o \in Objects : tags'[latest_tag(o)] = tags[latest_tag(o)],
           UNCHANGED <<published, now>>
    PROVE  UNCHANGED Catalog!vars
<1>1. \A o \in Objects, d \in Digests : StoredAt(version_tag(o, d))' = StoredAt(version_tag(o, d))
    BY DEF StoredAt
<1>2. \A o \in Objects : StoredAt(latest_tag(o))' = StoredAt(latest_tag(o))
    BY DEF StoredAt
<1> QED  BY <1>1, <1>2 DEF Catalog!vars

\* The version tag is where a put takes effect.
LEMMA ExactPublishes ==
    ASSUME SafetyInv, NEW t \in Threads, PutExact(t)
    PROVE  \E s \in StoredObject : Catalog!Publish(s)
<1> DEFINE r == req[t]
           exact == version_tag(r.obj, r.digest)
<1>1. /\ r.obj \in Objects /\ r.digest \in Digests /\ exact \in Tags
      /\ doc[t] \in ObjectManifests /\ doc[t] # None /\ doc[t].config \in StoredObject /\ Locked(t)
    BY RequestFields, TagsOfObject, ObjectManifestFields
       DEF PutExact, SafetyInv, TypeInv, RequestShape, DocShape, PutSteps, HoldsDoc, Locked
<1>2. PICK s \in StoredObject : s = doc[t].config
    BY <1>1
<1>3. /\ tags[exact] = None /\ s.obj = r.obj /\ s.digest = r.digest
      /\ s.publishOnce = r.publishOnce
      /\ r.publishOnce => \A m \in published : m.config.obj # r.obj
    BY <1>1, <1>2 DEF PutExact, SafetyInv, LockedKnowledge, Knows, Publishing
<1>4. \A x \in Tags : tags'[x] = IF x = exact THEN doc[t] ELSE tags[x]
    BY DEF PutExact, StoreManifest, SafetyInv, TypeInv, TypeOK
<1>5. /\ \A o \in Objects : StoredAt(latest_tag(o))' = StoredAt(latest_tag(o))
      /\ \A o \in Objects, d \in Digests :
             StoredAt(version_tag(o, d))' = IF o = s.obj /\ d = s.digest THEN s
                                            ELSE StoredAt(version_tag(o, d))
    BY <1>1, <1>2, <1>3, <1>4, TagsOfObject, TagsDiffer DEF StoredAt
<1>6. [o \in Objects |-> [d \in Digests |-> StoredAt(version_tag(o, d))']]
        = [[o \in Objects |-> [d \in Digests |-> StoredAt(version_tag(o, d))]]
              EXCEPT ![s.obj][s.digest] = s]
    BY <1>1, <1>3, <1>5
<1>7. [o \in Objects |-> StoredAt(latest_tag(o))'] = [o \in Objects |-> StoredAt(latest_tag(o))]
    BY <1>5
<1>8. {m.config.obj : m \in published'} = {m.config.obj : m \in published} \cup {s.obj}
    BY <1>2 DEF PutExact
<1>9. /\ StoredAt(version_tag(s.obj, s.digest)) = None /\ s.obj \in Objects /\ s.digest \in Digests
      /\ s.publishOnce => s.obj \notin {m.config.obj : m \in published}
    BY <1>1, <1>3 DEF StoredAt
<1>10. Catalog!Publish(s)
    BY <1>6, <1>7, <1>8, <1>9 DEF Catalog!Publish, PutExact
<1> QED  BY <1>10

\* Moving the latest tag is the catalogue's Promote.
LEMMA LatestPromotes ==
    ASSUME SafetyInv, NEW t \in Threads, PutLatest(t)
    PROVE  \E o \in Objects, d \in Digests : Catalog!Promote(o, d)
<1> DEFINE r == req[t]
           exact == version_tag(r.obj, r.digest)
<1>1. /\ r.obj \in Objects /\ r.digest \in Digests /\ exact \in Tags /\ latest_tag(r.obj) \in Tags
      /\ doc[t] \in ObjectManifests /\ doc[t] # None /\ Locked(t)
    BY RequestFields, TagsOfObject, ObjectManifestFields
       DEF PutLatest, SafetyInv, TypeInv, RequestShape, DocShape, PutSteps, HoldsDoc, Locked
<1>2. doc[t] = tags[exact]
    BY <1>1 DEF PutLatest, SafetyInv, LockedKnowledge, Knows
<1>3. \A x \in Tags : tags'[x] = IF x = latest_tag(r.obj) THEN doc[t] ELSE tags[x]
    BY DEF PutLatest, StoreManifest, SafetyInv, TypeInv, TypeOK
<1>4. /\ \A o \in Objects : StoredAt(latest_tag(o))' = IF o = r.obj THEN StoredAt(exact)
                                                       ELSE StoredAt(latest_tag(o))
      /\ \A o \in Objects, d \in Digests :
             StoredAt(version_tag(o, d))' = StoredAt(version_tag(o, d))
    BY <1>1, <1>2, <1>3, TagsOfObject, TagsDiffer DEF StoredAt
<1>5. StoredAt(exact) # None
    BY <1>1, <1>2, ObjectManifestFields, StoredFields DEF StoredAt
<1>6. [o \in Objects |-> [d \in Digests |-> StoredAt(version_tag(o, d))']]
        = [o \in Objects |-> [d \in Digests |-> StoredAt(version_tag(o, d))]]
    BY <1>4
<1>7. [o \in Objects |-> StoredAt(latest_tag(o))']
        = [[o \in Objects |-> StoredAt(latest_tag(o))] EXCEPT ![r.obj] = StoredAt(exact)]
    BY <1>1, <1>4
<1>8. Catalog!Promote(r.obj, r.digest)
    BY <1>1, <1>5, <1>6, <1>7 DEF Catalog!Promote, PutLatest
<1> QED  BY <1>1, <1>8

\* A delete withdraws exactly the version it resolved, and the latest pointer
\* if that is what it points to.
LEMMA DeleteWithdraws ==
    ASSUME SafetyInv, NEW t \in Threads, DeleteManifest(t)
    PROVE  \E o \in Objects, d \in Digests : Catalog!Withdraw(o, d)
<1> DEFINE r == req[t]
           exact == version_tag(r.obj, r.digest)
<1>1. /\ r.obj \in Objects /\ r.digest \in Digests /\ exact \in Tags
      /\ doc[t] \in ObjectManifests /\ doc[t] # None /\ Locked(t) /\ TypeInv
    BY RequestFields, TagsOfObject, ObjectManifestFields
       DEF DeleteManifest, SafetyInv, TypeInv, RequestShape, DocShape, DeleteSteps, HoldsDoc, Locked
<1>2. doc[t] = tags[exact] /\ require_delete_permitted(doc[t].config.retention)
    BY <1>1 DEF DeleteManifest, SafetyInv, LockedKnowledge, Knows
<1>3. \A x \in Tags : tags'[x] = IF tags[x] = doc[t] THEN None ELSE tags[x]
    BY DEF DeleteManifest, RemoveManifest, SafetyInv, TypeInv, TypeOK
<1>4. /\ doc[t].config.obj = r.obj /\ doc[t].config.digest = r.digest
      /\ \A o \in Objects, d \in Digests :
             tags[version_tag(o, d)] = doc[t] <=> (o = r.obj /\ d = r.digest)
      /\ \A o \in Objects : tags[latest_tag(o)] = doc[t] => o = r.obj
    BY <1>1, <1>2 DEF SafetyInv, TagsBound
<1>5. \A o \in Objects, d \in Digests :
          StoredAt(version_tag(o, d))' = IF o = r.obj /\ d = r.digest THEN None
                                         ELSE StoredAt(version_tag(o, d))
    BY <1>3, <1>4, TagsOfObject DEF StoredAt
<1>6. \A o \in Objects : StoredAt(latest_tag(o)) = StoredAt(exact) <=> tags[latest_tag(o)] = tags[exact]
    BY <1>1, <1>2, TagsOfObject, StoredAtFacts DEF TypeInv, TagShape
<1>7. \A o \in Objects :
          StoredAt(latest_tag(o))' = IF o = r.obj /\ StoredAt(latest_tag(o)) = StoredAt(exact)
                                     THEN None ELSE StoredAt(latest_tag(o))
    <2> SUFFICES ASSUME NEW o \in Objects
                 PROVE  StoredAt(latest_tag(o))' = IF o = r.obj /\ tags[latest_tag(o)] = tags[exact]
                                                   THEN None ELSE StoredAt(latest_tag(o))
        BY <1>6
    <2>1. tags'[latest_tag(o)] = IF tags[latest_tag(o)] = doc[t] THEN None ELSE tags[latest_tag(o)]
        BY <1>3, TagsOfObject
    <2> QED  BY <1>2, <1>4, <2>1 DEF StoredAt
<1>8. /\ StoredAt(exact) # None
      /\ StoredAt(exact).retention = doc[t].config.retention
    BY <1>1, <1>2, ObjectManifestFields, StoredFields DEF StoredAt
<1>9. [o \in Objects |-> [d \in Digests |-> StoredAt(version_tag(o, d))']]
        = [[o \in Objects |-> [d \in Digests |-> StoredAt(version_tag(o, d))]]
              EXCEPT ![r.obj][r.digest] = None]
    BY <1>1, <1>5
<1>10. [o \in Objects |-> StoredAt(latest_tag(o))']
        = [[o \in Objects |-> StoredAt(latest_tag(o))]
              EXCEPT ![r.obj] = IF @ = StoredAt(exact) THEN None ELSE @]
    BY <1>1, <1>7
<1>11. Catalog!Withdraw(r.obj, r.digest)
    BY <1>1, <1>2, <1>8, <1>9, <1>10
       DEF Catalog!Withdraw, Catalog!RetentionEnded, DeleteManifest, require_delete_permitted
<1> QED  BY <1>1, <1>11

\* Every step of the Adapter is a step of the catalogue, or leaves it unchanged.
LEMMA CatalogNext ==
    ASSUME ~LateWrites, SafetyInv, [Next]_vars
    PROVE  [Catalog!Next]_(Catalog!vars)
<1>0. TypeInv /\ tags \in [Tags -> AnchorManifests \cup ObjectManifests \cup {None}]
    BY DEF SafetyInv, TypeInv, TypeOK
<1>1. ASSUME NoTagWrite, now' = now
      PROVE  UNCHANGED Catalog!vars
    BY <1>1, CatalogStutter DEF NoTagWrite
<1>2. ASSUME NEW t \in Threads, ThreadStep(t)
      PROVE  [Catalog!Next]_(Catalog!vars)
    <2>1. now' = now
        BY <1>2 DEF ThreadStep, PutStep, ResolveStep, DeleteStep, FailureStep,
           Acquire, CheckCreate, RecheckCreate, RequireCreateAvailable, UploadPayload,
           FindExact, FindAnchor, UploadEmpty, PutAnchor, RejectMetadata, UploadConfig, PutExact,
           PutLatest, GetManifest, GetConfig, GetAnchor, CheckRetention, DeleteManifest,
           RequestFails, AbandonWrite
    <2>2. CASE PutAnchor(t)
        <3>1. anchor_tag(req[t].obj) \in Tags
            BY <1>0, <2>2, RequestFields, TagsOfObject DEF PutAnchor, TypeInv, RequestShape
        <3>2. \A x \in Tags : x # anchor_tag(req[t].obj) => tags'[x] = tags[x]
            BY <1>0, <2>2, <3>1 DEF PutAnchor, StoreManifest
        <3>3. UNCHANGED Catalog!vars
            BY <2>1, <2>2, <3>2, TagsOfObject, TagsDiffer, CatalogStutter DEF PutAnchor
        <3> QED  BY <3>3
    <2>3. CASE PutExact(t)
        BY <2>3, ExactPublishes DEF Catalog!Next
    <2>4. CASE PutLatest(t)
        BY <2>4, LatestPromotes DEF Catalog!Next
    <2>5. CASE DeleteManifest(t)
        BY <2>5, DeleteWithdraws DEF Catalog!Next
    <2> QED  BY <1>1, <1>2, <2>1, <2>2, <2>3, <2>4, <2>5, QuietSteps
<1>3. CASE Tick
    <2>1. \A o \in Objects, d \in Digests : StoredAt(version_tag(o, d))' = StoredAt(version_tag(o, d))
        BY <1>3 DEF Tick, registryVars, StoredAt
    <2>2. \A o \in Objects : StoredAt(latest_tag(o))' = StoredAt(latest_tag(o))
        BY <1>3 DEF Tick, registryVars, StoredAt
    <2>3. Catalog!Tick
        BY <1>3, <2>1, <2>2 DEF Tick, Catalog!Tick
    <2> QED  BY <2>3 DEF Catalog!Next
<1>4. CASE (\E t \in Threads : Invoke(t)) \/ Crash \/ UNCHANGED vars
    BY <1>1, <1>4 DEF Invoke, Crash, vars, NoTagWrite, registryVars
<1>5. ~LateArrival
    BY DEF LateArrival, SafetyInv
<1> QED  BY <1>2, <1>3, <1>4, <1>5 DEF Next, Quiesce

\* The empty registry is the empty catalogue.
LEMMA CatalogInit == Init => Catalog!Init
<1> SUFFICES ASSUME Init PROVE Catalog!Init
    OBVIOUS
<1>1. \A x \in Tags : StoredAt(x) = None
    BY DEF Init, StoredAt
<1> QED  BY <1>1, TagsOfObject DEF Init, Catalog!Init

\* Without late writes every behaviour of the Adapter is a behaviour of the
\* catalogue of immutable, retained versions it promises.
THEOREM AdapterImplementsCatalog == ASSUME ~LateWrites PROVE Spec => CatalogImplemented
<1>1. SafetyInv /\ [Next]_vars => [Catalog!Next]_(Catalog!vars)
    BY CatalogNext
<1> QED  BY <1>1, CatalogInit, SafetyInvariant, PTL DEF Spec, CatalogImplemented, Catalog!Spec

\* What the refinement says of one version tag in one step.
VersionStep(o, d) ==
    LET was == StoredAt(version_tag(o, d))
        is == StoredAt(version_tag(o, d))'
    IN /\ was # None => is \in {was, None}
       /\ was = None /\ is # None => /\ is.obj = o /\ is.digest = d
                                     /\ is.publishOnce => \A m \in published : m.config.obj # o

\* What a put, a delete, a failure or a crash may do to a published version, read off
\* the catalogue: it is never replaced by another, not even by a put of the same
\* content, and a publish-once version appears only where no version has ever been.
THEOREM VersionsImmutable ==
    ASSUME ~LateWrites
    PROVE  Spec => [][\A o \in Objects, d \in Digests : VersionStep(o, d)]_vars
<1>1. ASSUME SafetyInv, [Next]_vars
      PROVE  [\A o \in Objects, d \in Digests : VersionStep(o, d)]_vars
    <2> SUFFICES ASSUME NEW o \in Objects, NEW d \in Digests PROVE VersionStep(o, d)
        OBVIOUS
    <2> DEFINE versions == [p \in Objects |-> [e \in Digests |-> StoredAt(version_tag(p, e))]]
    <2>0. /\ versions[o][d] = StoredAt(version_tag(o, d))
          /\ versions'[o][d] = StoredAt(version_tag(o, d))'
          /\ versions \in [Objects -> [Digests -> {StoredAt(version_tag(p, e)) : p \in Objects, e \in Digests}]]
        OBVIOUS
    <2>1. [Catalog!Next]_(Catalog!vars)
        BY <1>1, CatalogNext
    <2>2. CASE \E s \in StoredObject : Catalog!Publish(s)
        <3>1. PICK s \in StoredObject : Catalog!Publish(s)
            BY <2>2
        <3>2. /\ versions[s.obj][s.digest] = None
              /\ s.publishOnce => s.obj \notin {m.config.obj : m \in published}
              /\ versions' = [versions EXCEPT ![s.obj][s.digest] = s]
            BY <3>1 DEF Catalog!Publish
        <3>0. s.obj \in Objects /\ s.digest \in Digests
            BY StoredFields
        <3> HIDE DEF versions
        <3>3. CASE o = s.obj /\ d = s.digest
            <4>1. versions'[o][d] = s
                <5>1. versions' = [versions EXCEPT ![o] = [versions[o] EXCEPT ![d] = s]]
                    BY <3>2, <3>3
                <5> QED  BY <2>0, <5>1
            <4> QED  BY <2>0, <3>2, <3>3, <4>1 DEF VersionStep
        <3>4. CASE ~(o = s.obj /\ d = s.digest)
            <4>1. versions'[o][d] = versions[o][d]
                <5>1. CASE o # s.obj
                    BY <2>0, <3>0, <3>2, <5>1
                <5>2. CASE o = s.obj /\ d # s.digest
                    BY <2>0, <3>0, <3>2, <5>2
                <5> QED  BY <3>4, <5>1, <5>2
            <4> QED  BY <2>0, <4>1 DEF VersionStep
        <3> QED  BY <3>3, <3>4
    <2>3. CASE \E p \in Objects, e \in Digests : Catalog!Withdraw(p, e)
        <3>1. PICK p \in Objects, e \in Digests : versions' = [versions EXCEPT ![p][e] = None]
            BY <2>3 DEF Catalog!Withdraw
        <3> HIDE DEF versions
        <3>2. versions'[o][d] \in {versions[o][d], None}
            BY <2>0, <3>1
        <3> QED  BY <2>0, <3>2 DEF VersionStep
    <2>4. CASE versions' = versions
        BY <2>0, <2>4 DEF VersionStep
    <2> QED  BY <2>1, <2>2, <2>3, <2>4
                DEF Catalog!Next, Catalog!Promote, Catalog!Tick, Catalog!vars
<1> QED  BY <1>1, SafetyInvariant, PTL DEF Spec

-----------------------------------------------------------------------------
(* Retention, with late writes                                             *)

\* require_delete_permitted, once true, stays true as the clock moves on.
LEMMA PermittedLater ==
    ASSUME NEW m \in ObjectManifests, require_delete_permitted(m.config.retention),
           now \in Nat, now' \in Nat, now <= now'
    PROVE  require_delete_permitted(m.config.retention)'
<1>1. m.config.retention \in Nat
    BY ObjectManifestFields, StoredFields, BoundsAssumption DEF Retention, Hold
<1> QED  BY <1>1 DEF require_delete_permitted, Hold

\* A DELETE on the wire was permitted when it was sent.
LEMMA WiredDeletesPermitted ==
    ASSUME RetentionInv, NEW t \in Threads, NEW w \in InFlight(t), w.tag = None
    PROVE  w.manifest \in ObjectManifests /\ require_delete_permitted(w.manifest.config.retention)
<1>1. pc[t] # "idle" => req[t] \in Requests
    BY DEF RetentionInv, TypeInv, RequestShape
<1>2. pc[t] \notin {"putanchor", "putexact", "putlatest"}
    <2>1. ASSUME pc[t] \in {"putanchor", "putexact", "putlatest"}
          PROVE  w.tag \in Tags
        <3>1. req[t].obj \in Objects /\ (pc[t] = "putexact" => req[t].digest \in Digests)
            BY <1>1, <2>1, RequestFields DEF RetentionInv, TypeInv, RequestShape, PutSteps
        <3> QED  BY <2>1, <3>1, TagsOfObject DEF InFlight
    <2> QED  BY <2>1, NoneAssumption
<1>3. pc[t] = "delete" /\ w.manifest = doc[t]
    BY <1>2 DEF InFlight
<1> QED  BY <1>3 DEF RetentionInv, DeletesPermitted, TypeInv, DocShape, HoldsDoc

\* Only the retention check leads a thread to its DELETE.
LEMMA OnlyCheckedDelete ==
    ASSUME TypeInv, NEW t \in Threads, ThreadStep(t), pc'[t] = "delete"
    PROVE  /\ now' = now /\ doc'[t] = doc[t]
           /\ require_delete_permitted(doc[t].config.retention)
BY DEF ThreadStep, PutStep, ResolveStep, DeleteStep, FailureStep, TypeInv, TypeOK,
       Goto, Return, AcknowledgedOrLost, AfterResolve,
       Acquire, CheckCreate, RecheckCreate, RequireCreateAvailable, UploadPayload,
       FindExact, FindAnchor, UploadEmpty, PutAnchor, RejectMetadata, UploadConfig, PutExact,
       PutLatest, GetManifest, GetConfig, GetAnchor, CheckRetention, DeleteManifest,
       RequestFails, AbandonWrite

\* What a step may add to the late writes, and what it does to the clock.
LEMMA LateGrows ==
    ASSUME [Next]_vars, now \in Nat
    PROVE  /\ \A w \in late' : w \in late \/ \E t \in Threads : w \in InFlight(t)
           /\ now <= now'
<1>1. ASSUME NEW t \in Threads, ThreadStep(t)
      PROVE  now' = now /\ (late' = late \/ late' = late \cup InFlight(t))
    BY <1>1 DEF ThreadStep, PutStep, ResolveStep, DeleteStep, FailureStep,
       Acquire, CheckCreate, RecheckCreate, RequireCreateAvailable, UploadPayload,
       FindExact, FindAnchor, UploadEmpty, PutAnchor, RejectMetadata, UploadConfig, PutExact,
       PutLatest, GetManifest, GetConfig, GetAnchor, CheckRetention, DeleteManifest,
       RequestFails, AbandonWrite
<1>2. CASE \E t \in Threads : Invoke(t)
    BY <1>2 DEF Invoke
<1>3. CASE LateArrival \/ Crash
    BY <1>3 DEF LateArrival, Crash
<1>4. CASE Tick \/ UNCHANGED vars
    BY <1>4 DEF Tick, vars
<1> QED  BY <1>1, <1>2, <1>3, <1>4 DEF Next, Quiesce

\* RetentionInv is inductive.
LEMMA RetentionNext == RetentionInv /\ [Next]_vars => RetentionInv'
<1> SUFFICES ASSUME RetentionInv, [Next]_vars PROVE RetentionInv'
    OBVIOUS
<1>0. TypeInv /\ TypeInv'
    BY TypeNext DEF RetentionInv
<1>1. now \in Nat /\ now' \in Nat /\ now <= now'
    BY <1>0, BoundsAssumption, LateGrows DEF TypeInv, TypeOK
<1>2. ASSUME NEW t \in Threads, pc'[t] = "delete"
      PROVE  require_delete_permitted(doc[t].config.retention)' 
    <2>1. CASE ThreadStep(t)
        BY <1>0, <1>2, <2>1, OnlyCheckedDelete DEF require_delete_permitted
    <2>2. CASE pc[t] = "delete" /\ doc'[t] = doc[t]
        <3>1. doc[t] \in ObjectManifests /\ require_delete_permitted(doc[t].config.retention)
            BY <2>2 DEF RetentionInv, DeletesPermitted, TypeInv, DocShape, HoldsDoc
        <3> QED  BY <1>1, <2>2, <3>1, PermittedLater DEF require_delete_permitted
    <2>3. ThreadStep(t) \/ (pc[t] = "delete" /\ doc'[t] = doc[t])
        <3>1. ASSUME NEW u \in Threads, ThreadStep(u) \/ Invoke(u)
              PROVE  ThreadStep(t) \/ (pc[t] = "delete" /\ doc'[t] = doc[t])
            BY <1>0, <1>2, <3>1, OtherThreads DEF Invoke, TypeInv, TypeOK
        <3> QED  BY <1>2, <3>1 DEF Next, LateArrival, Crash, Tick, Quiesce, vars, threadVars
    <2> QED  BY <2>1, <2>2, <2>3
<1>3. ASSUME NEW w \in late', w.tag = None
      PROVE  w.manifest \in ObjectManifests /\ require_delete_permitted(w.manifest.config.retention)'
    <2>1. w.manifest \in ObjectManifests /\ require_delete_permitted(w.manifest.config.retention)
        BY <1>1, <1>3, LateGrows, WiredDeletesPermitted DEF RetentionInv, DeletesPermitted
    <2> QED  BY <1>1, <2>1, PermittedLater
<1> QED  BY <1>0, <1>2, <1>3 DEF RetentionInv, DeletesPermitted

\* A version tag is unbound only by a DELETE of the manifest it showed.
LEMMA WhoUnbinds ==
    ASSUME RetentionInv, [Next]_vars, NEW x \in Tags, tags[x] # None, tags'[x] = None
    PROVE  require_delete_permitted(tags[x].config.retention)
<1>0. TypeInv /\ ThreadTypes /\ RegistryTypes /\ LateTypes
    BY TypeInvParts DEF RetentionInv
<1>1. ASSUME NEW tag, NEW m, OfTagKind(tag, m), StoreManifest(tag, m)
      PROVE  FALSE
    <2>1. m # None
        BY <1>1, NoneAssumption DEF OfTagKind
    <2> QED  BY <1>0, <1>1, <2>1 DEF StoreManifest, RegistryTypes
<1>2. ASSUME NEW m, RemoveManifest(m) PROVE tags[x] = m
    BY <1>0, <1>2 DEF RemoveManifest, RegistryTypes
<1>3. ASSUME NEW t \in Threads, ThreadStep(t)
      PROVE  require_delete_permitted(tags[x].config.retention)
    <2>1. /\ pc[t] # "idle" => req[t] \in Requests
          /\ pc[t] \in PutSteps => req[t].op = "put"
          /\ pc[t] \in HoldsDoc => doc[t] \in ObjectManifests
        BY <1>0 DEF ThreadTypes, RequestShape, DocShape, PutSteps
    <2>2. CASE PutAnchor(t)
        BY <1>1, <2>1, <2>2, RequestFields DEF PutAnchor, OfTagKind, AnchorManifests
    <2>3. CASE PutExact(t)
        <3>1. OfTagKind(version_tag(req[t].obj, req[t].digest), doc[t])
            BY <2>1, <2>3, RequestFields DEF PutExact, OfTagKind, HoldsDoc, PutSteps
        <3> QED  BY <1>1, <2>3, <3>1 DEF PutExact
    <2>4. CASE PutLatest(t)
        <3>1. OfTagKind(latest_tag(req[t].obj), doc[t])
            BY <2>1, <2>4, RequestFields DEF PutLatest, OfTagKind, HoldsDoc
        <3> QED  BY <1>1, <2>4, <3>1 DEF PutLatest
    <2>5. CASE DeleteManifest(t)
        BY <1>2, <2>5 DEF DeleteManifest, RetentionInv, DeletesPermitted
    <2>6. CASE NoTagWrite
        BY <2>6 DEF NoTagWrite
    <2> QED  BY <1>3, <2>2, <2>3, <2>4, <2>5, <2>6, QuietSteps
<1>4. CASE LateArrival
    <2>1. PICK w \in late :
            IF w.tag = None THEN RemoveManifest(w.manifest) ELSE StoreManifest(w.tag, w.manifest)
        BY <1>4 DEF LateArrival
    <2>2. w.tag = None \/ OfTagKind(w.tag, w.manifest)
        BY <1>0, LateTypesAlt
    <2>3. w.tag = None
        BY <1>1, <2>1, <2>2
    <2> QED  BY <1>2, <2>1, <2>3 DEF RetentionInv, DeletesPermitted
<1>5. CASE UNCHANGED tags
    BY <1>5
<1> QED  BY <1>3, <1>4, <1>5 DEF Next, Invoke, Crash, Tick, Quiesce, vars, registryVars

\* The invariant of retention holds in every state.
LEMMA RetentionInvariant == Spec => []RetentionInv
<1>1. Init => RetentionInv
    BY TypeInit DEF Init, RetentionInv, DeletesPermitted
<1> QED  BY <1>1, RetentionNext, PTL DEF Spec

-----------------------------------------------------------------------------
(* Completeness, with late writes and without the lock                     *)

\* The anchor of an Object is in place, with the empty blob it refers to.
HasAnchor(o) ==
    /\ ManifestFound(anchor_tag(o)) /\ tags[anchor_tag(o)] = build_anchor_manifest(o)
    /\ EmptyBlob \in blobs

\* A manifest is about this Object, and everything it refers to is in place.
\* It stays whole: blobs are never removed, and anchors never deleted.
Whole(m, o) ==
    /\ m \in ObjectManifests /\ m.config.obj = o
    /\ {ConfigBlob(m.config), PayloadBlob(m.config.digest)} \subseteq blobs
    /\ HasAnchor(o)

\* What tags show is whole, and of the digest of the tag.
TagsWhole ==
    \A o \in Objects :
        /\ tags[anchor_tag(o)] # None => HasAnchor(o)
        /\ tags[latest_tag(o)] # None => Whole(tags[latest_tag(o)], o)
        /\ \A d \in Digests : tags[version_tag(o, d)] # None =>
               Whole(tags[version_tag(o, d)], o) /\ tags[version_tag(o, d)].config.digest = d

\* What a thread has stored on its way to a manifest, or has resolved, is there.
Uploaded == {"recheck", "exact", "anchor", "empty", "putanchor", "config"}

Prepared(t) ==
    /\ pc[t] \in Uploaded => PayloadBlob(req[t].digest) \in blobs
    /\ pc[t] = "putanchor" => EmptyBlob \in blobs
    /\ pc[t] = "config" => HasAnchor(req[t].obj)
    /\ pc[t] \in HoldsDoc =>
           Whole(doc[t], req[t].obj) /\ req[t].digest \in {None, doc[t].config.digest}

ThreadsWhole == \A t \in Threads : Prepared(t)

\* A write that may be applied at any later time, to whatever the registry
\* holds by then, leads to a whole manifest; and no anchor is ever deleted.
WholeWrite(w) ==
    \/ w.tag = None /\ w.manifest \in ObjectManifests
    \/ \E o \in Objects :
          \/ w.tag = anchor_tag(o) /\ w.manifest = build_anchor_manifest(o) /\ EmptyBlob \in blobs
          \/ w.tag \in {latest_tag(o), version_tag(o, w.manifest.config.digest)} /\ Whole(w.manifest, o)

LateWhole == \A w \in late : WholeWrite(w)

\* The inductive invariant behind PublishedVersionsComplete and
\* ResolvedReadsComplete, with late writes and without the lock.
CompletenessInv == TypeInv /\ TagsWhole /\ ThreadsWhole /\ LateWhole

\* No step takes anything away that a manifest refers to.
NothingLost == blobs \subseteq blobs' /\ \A o \in Objects : HasAnchor(o) => HasAnchor(o)'

\* Whole after a step, of a manifest that may itself be named by a primed tag.
WholeNext(m, o) ==
    /\ m \in ObjectManifests /\ m.config.obj = o
    /\ {ConfigBlob(m.config), PayloadBlob(m.config.digest)} \subseteq blobs'
    /\ HasAnchor(o)'

\* A manifest that is whole stays whole.
LEMMA WholeStays ==
    ASSUME NothingLost, NEW m, NEW o \in Objects, Whole(m, o)
    PROVE  WholeNext(m, o)
BY DEF NothingLost, Whole, WholeNext

\* A write that is harmless now is harmless whenever it is applied.
LEMMA WholeWriteStays ==
    ASSUME NothingLost, NEW w, WholeWrite(w)
    PROVE  WholeWrite(w)'
<1>1. CASE w.tag = None /\ w.manifest \in ObjectManifests
    BY <1>1 DEF WholeWrite
<1>2. ASSUME NEW o \in Objects, w.tag = anchor_tag(o), w.manifest = build_anchor_manifest(o),
             EmptyBlob \in blobs
      PROVE  WholeWrite(w)'
    BY <1>2 DEF WholeWrite, NothingLost
<1>3. ASSUME NEW o \in Objects, Whole(w.manifest, o),
             w.tag \in {latest_tag(o), version_tag(o, w.manifest.config.digest)}
      PROVE  WholeWrite(w)'
    <2>1. WholeNext(w.manifest, o)
        BY <1>3, WholeStays
    <2> QED  BY <1>3, <2>1 DEF WholeWrite, Whole, WholeNext
<1> QED  BY <1>1, <1>2, <1>3 DEF WholeWrite

\* The registry applies a manifest write or a DELETE.
Applied(w) == IF w.tag = None THEN RemoveManifest(w.manifest) ELSE StoreManifest(w.tag, w.manifest)

\* An anchor, once in place, survives every harmless write.
LEMMA AnchorSurvives ==
    ASSUME RegistryTypes, NEW w, WholeWrite(w), Applied(w)
    PROVE  NothingLost
<1>1. blobs' = blobs
    BY DEF Applied, RemoveManifest, StoreManifest
<1>2. ASSUME NEW o \in Objects, HasAnchor(o)
      PROVE  HasAnchor(o)'
    <2>1. /\ anchor_tag(o) \in Tags /\ build_anchor_manifest(o) \in AnchorManifests
          /\ tags[anchor_tag(o)] = build_anchor_manifest(o)
          /\ build_anchor_manifest(o) \in manifests /\ build_anchor_manifest(o) # None
        BY <1>2, TagsOfObject, NoneAssumption DEF HasAnchor, ManifestFound, AnchorManifests
    <2>2. CASE w.tag = None /\ w.manifest \in ObjectManifests
        <3>1. build_anchor_manifest(o) # w.manifest
            BY <2>1, <2>2, AnchorManifestFields
        <3>2. tags'[anchor_tag(o)] = tags[anchor_tag(o)] /\ build_anchor_manifest(o) \in manifests'
            BY <2>1, <2>2, <3>1 DEF Applied, RemoveManifest, RegistryTypes
        <3> QED  BY <1>1, <1>2, <2>1, <3>2 DEF HasAnchor, ManifestFound
    <2>3. ASSUME NEW p \in Objects, w.tag = anchor_tag(p), w.manifest = build_anchor_manifest(p)
          PROVE  HasAnchor(o)'
        <3>1. w.tag \in Tags /\ w.tag # None
            BY <2>3, TagsOfObject, NoneAssumption
        <3>2. tags'[anchor_tag(o)] = tags[anchor_tag(o)] /\ build_anchor_manifest(o) \in manifests'
            BY <2>1, <2>3, <3>1, TagsDiffer DEF Applied, StoreManifest, RegistryTypes
        <3> QED  BY <1>1, <1>2, <2>1, <3>2 DEF HasAnchor, ManifestFound
    <2>4. ASSUME NEW p \in Objects, Whole(w.manifest, p),
                 w.tag \in {latest_tag(p), version_tag(p, w.manifest.config.digest)}
          PROVE  HasAnchor(o)'
        <3>1. w.tag \in Tags /\ w.tag # None
            BY <2>4, TagsOfObject, NoneAssumption, ObjectManifestFields, StoredFields DEF Whole
        <3>2. tags'[anchor_tag(o)] = tags[anchor_tag(o)] /\ build_anchor_manifest(o) \in manifests'
            BY <2>1, <2>4, <3>1, TagsDiffer DEF Applied, StoreManifest, RegistryTypes
        <3> QED  BY <1>1, <1>2, <2>1, <3>2 DEF HasAnchor, ManifestFound
    <2> QED  BY <2>2, <2>3, <2>4 DEF WholeWrite
<1> QED  BY <1>1, <1>2 DEF NothingLost

\* TagsWhole after a step, tag by tag.
LEMMA TagsWholeNext ==
    ASSUME \A o \in Objects :
              /\ tags'[anchor_tag(o)] # None => HasAnchor(o)'
              /\ tags'[latest_tag(o)] # None => WholeNext(tags'[latest_tag(o)], o)
              /\ \A d \in Digests : tags'[version_tag(o, d)] # None =>
                    /\ WholeNext(tags'[version_tag(o, d)], o)
                    /\ tags'[version_tag(o, d)].config.digest = d
    PROVE  TagsWhole'
BY DEF TagsWhole, Whole, WholeNext

\* Tags that keep their manifest or lose it keep TagsWhole.
LEMMA KeptTagsWhole ==
    ASSUME NothingLost, TagsWhole, NEW o \in Objects
    PROVE  /\ (tags'[anchor_tag(o)] = tags[anchor_tag(o)] /\ tags'[anchor_tag(o)] # None) => HasAnchor(o)'
           /\ (tags'[latest_tag(o)] = tags[latest_tag(o)] /\ tags'[latest_tag(o)] # None) =>
                 WholeNext(tags'[latest_tag(o)], o)
           /\ \A d \in Digests :
                 (tags'[version_tag(o, d)] = tags[version_tag(o, d)] /\ tags'[version_tag(o, d)] # None) =>
                    /\ WholeNext(tags'[version_tag(o, d)], o)
                    /\ tags'[version_tag(o, d)].config.digest = d
<1>1. (tags'[anchor_tag(o)] = tags[anchor_tag(o)] /\ tags'[anchor_tag(o)] # None) => HasAnchor(o)'
    BY DEF TagsWhole, NothingLost
<1>2. (tags'[latest_tag(o)] = tags[latest_tag(o)] /\ tags'[latest_tag(o)] # None) =>
          WholeNext(tags'[latest_tag(o)], o)
    BY WholeStays DEF TagsWhole
<1>3. ASSUME NEW d \in Digests, tags'[version_tag(o, d)] = tags[version_tag(o, d)],
             tags'[version_tag(o, d)] # None
      PROVE  /\ WholeNext(tags'[version_tag(o, d)], o)
             /\ tags'[version_tag(o, d)].config.digest = d
    BY <1>3, WholeStays DEF TagsWhole
<1> QED  BY <1>1, <1>2, <1>3

\* After a harmless write every tag still shows a whole manifest.
LEMMA WriteKeepsTags ==
    ASSUME RegistryTypes, TagsWhole, NEW w, WholeWrite(w), Applied(w)
    PROVE  TagsWhole'
<1>0. NothingLost
    BY AnchorSurvives
<1>1. \A o \in Objects : /\ anchor_tag(o) \in Tags /\ latest_tag(o) \in Tags
                         /\ \A d \in Digests : version_tag(o, d) \in Tags
    BY TagsOfObject
<1>2. CASE w.tag = None
    <2>1. \A x \in Tags : tags'[x] = tags[x] \/ tags'[x] = None
        BY <1>2 DEF Applied, RemoveManifest, RegistryTypes
    <2> QED  BY <1>0, <1>1, <2>1, KeptTagsWhole, TagsWholeNext
<1>3. ASSUME NEW p \in Objects, w.tag = anchor_tag(p), w.manifest = build_anchor_manifest(p),
             EmptyBlob \in blobs
      PROVE  TagsWhole'
    <2>1. w.tag \in Tags /\ w.tag # None /\ w.manifest # None
        BY <1>1, <1>3, NoneAssumption DEF AnchorManifests
    <2>2. /\ \A x \in Tags \ {w.tag} : tags'[x] = tags[x]
          /\ tags'[w.tag] = w.manifest /\ w.manifest \in manifests' /\ blobs' = blobs
        BY <2>1 DEF Applied, StoreManifest, RegistryTypes
    <2>3. HasAnchor(p)'
        BY <1>3, <2>1, <2>2 DEF HasAnchor, ManifestFound
    <2>4. \A o \in Objects : tags'[anchor_tag(o)] # None => HasAnchor(o)'
        <3>1. ASSUME NEW o \in Objects, o # p
              PROVE  tags'[anchor_tag(o)] = tags[anchor_tag(o)]
            BY <1>1, <1>3, <2>2, <3>1, TagsDiffer
        <3> QED  BY <1>0, <2>3, <3>1, KeptTagsWhole
    <2>5. \A o \in Objects : /\ tags'[latest_tag(o)] = tags[latest_tag(o)]
                             /\ \A d \in Digests : tags'[version_tag(o, d)] = tags[version_tag(o, d)]
        BY <1>1, <1>3, <2>2, TagsDiffer
    <2> QED  BY <1>0, <2>4, <2>5, KeptTagsWhole, TagsWholeNext
<1>4. ASSUME NEW p \in Objects, Whole(w.manifest, p),
             w.tag \in {latest_tag(p), version_tag(p, w.manifest.config.digest)}
      PROVE  TagsWhole'
    <2>1. /\ w.tag \in Tags /\ w.tag # None /\ w.manifest.config.digest \in Digests
          /\ WholeNext(w.manifest, p)
        BY <1>0, <1>1, <1>4, WholeStays, NoneAssumption, ObjectManifestFields, StoredFields DEF Whole
    <2>2. (\A x \in Tags \ {w.tag} : tags'[x] = tags[x]) /\ tags'[w.tag] = w.manifest
        BY <2>1 DEF Applied, StoreManifest, RegistryTypes
    <2>3. \A o \in Objects : tags'[anchor_tag(o)] # None => HasAnchor(o)'
        <3>1. \A o \in Objects : tags'[anchor_tag(o)] = tags[anchor_tag(o)]
            BY <1>1, <1>4, <2>2, TagsDiffer
        <3> QED  BY <1>0, <3>1, KeptTagsWhole
    <2>4. \A o \in Objects : tags'[latest_tag(o)] # None => WholeNext(tags'[latest_tag(o)], o)
        <3>1. ASSUME NEW o \in Objects, tags'[latest_tag(o)] # None
              PROVE  WholeNext(tags'[latest_tag(o)], o)
            <4>1. CASE w.tag = latest_tag(o)
                BY <1>4, <2>1, <2>2, <4>1, TagsDiffer
            <4>2. CASE w.tag # latest_tag(o)
                BY <1>0, <1>1, <2>2, <3>1, <4>2, KeptTagsWhole
            <4> QED  BY <4>1, <4>2
        <3> QED  BY <3>1
    <2>5. ASSUME NEW o \in Objects, NEW d \in Digests, tags'[version_tag(o, d)] # None
          PROVE  WholeNext(tags'[version_tag(o, d)], o) /\ tags'[version_tag(o, d)].config.digest = d
        <3>1. CASE w.tag = version_tag(o, d)
            BY <1>4, <2>1, <2>2, <3>1, TagsDiffer
        <3>2. CASE w.tag # version_tag(o, d)
            BY <1>0, <1>1, <2>2, <2>5, <3>2, KeptTagsWhole
        <3> QED  BY <3>1, <3>2
    <2> QED  BY <2>3, <2>4, <2>5, TagsWholeNext
<1> QED  BY <1>2, <1>3, <1>4 DEF WholeWrite

\* What a thread has on the wire, also after it has given up on it, is harmless.
LEMMA WiredWhole ==
    ASSUME CompletenessInv, NEW t \in Threads, NEW w \in InFlight(t)
    PROVE  WholeWrite(w)
<1>1. /\ pc[t] # "idle" => req[t] \in Requests
      /\ pc[t] \in PutSteps => req[t].op = "put"
      /\ Prepared(t)
    BY DEF CompletenessInv, TypeInv, RequestShape, ThreadsWhole, PutSteps
<1>2. CASE pc[t] = "putanchor"
    <2>1. w = [tag |-> anchor_tag(req[t].obj), manifest |-> build_anchor_manifest(req[t].obj)]
        BY <1>2 DEF InFlight
    <2>2. req[t].obj \in Objects /\ EmptyBlob \in blobs
        BY <1>1, <1>2, RequestFields DEF Prepared
    <2> QED  BY <2>1, <2>2 DEF WholeWrite
<1>3. CASE pc[t] \in {"putexact", "putlatest"}
    <2>1. /\ w.tag \in {latest_tag(req[t].obj), version_tag(req[t].obj, req[t].digest)}
          /\ w.manifest = doc[t]
        BY <1>3 DEF InFlight
    <2>2. /\ req[t].obj \in Objects /\ req[t].digest \in Digests
          /\ Whole(doc[t], req[t].obj) /\ req[t].digest \in {None, doc[t].config.digest}
        BY <1>1, <1>3, RequestFields DEF Prepared, HoldsDoc, PutSteps
    <2>3. req[t].digest = doc[t].config.digest
        BY <2>2, NoneAssumption
    <2> QED  BY <2>1, <2>2, <2>3 DEF WholeWrite
<1>4. CASE pc[t] = "delete"
    <2>1. w = [tag |-> None, manifest |-> doc[t]]
        BY <1>4 DEF InFlight
    <2>2. doc[t] \in ObjectManifests
        BY <1>4 DEF CompletenessInv, TypeInv, DocShape, HoldsDoc
    <2> QED  BY <2>1, <2>2 DEF WholeWrite
<1> QED  BY <1>2, <1>3, <1>4 DEF InFlight

\* A step of a thread stores a blob, applies what the thread has on the wire, or
\* leaves the registry alone.
LEMMA StepEffect ==
    ASSUME CompletenessInv, NEW t \in Threads, ThreadStep(t)
    PROVE  \/ blobs \subseteq blobs' /\ UNCHANGED <<manifests, tags>>
           \/ \E w \in InFlight(t) : Applied(w)
<1>1. /\ pc[t] # "idle" => req[t] \in Requests
      /\ pc[t] \in PutSteps => req[t].op = "put"
    BY DEF CompletenessInv, TypeInv, RequestShape, PutSteps
<1>2. ASSUME NEW x \in Tags, NEW m, StoreManifest(x, m)
      PROVE  Applied([tag |-> x, manifest |-> m])
    BY <1>2, NoneAssumption DEF Applied
<1>3. CASE PutAnchor(t)
    <2>1. anchor_tag(req[t].obj) \in Tags
        BY <1>1, <1>3, RequestFields, TagsOfObject DEF PutAnchor
    <2>2. Applied([tag |-> anchor_tag(req[t].obj), manifest |-> build_anchor_manifest(req[t].obj)])
        BY <1>2, <1>3, <2>1 DEF PutAnchor
    <2> QED  BY <1>3, <2>2 DEF PutAnchor, InFlight
<1>4. CASE PutExact(t)
    <2>1. version_tag(req[t].obj, req[t].digest) \in Tags
        BY <1>1, <1>4, RequestFields, TagsOfObject DEF PutExact, PutSteps
    <2>2. Applied([tag |-> version_tag(req[t].obj, req[t].digest), manifest |-> doc[t]])
        BY <1>2, <1>4, <2>1 DEF PutExact
    <2> QED  BY <1>4, <2>2 DEF PutExact, InFlight
<1>5. CASE PutLatest(t)
    <2>1. latest_tag(req[t].obj) \in Tags
        BY <1>1, <1>5, RequestFields, TagsOfObject DEF PutLatest
    <2>2. Applied([tag |-> latest_tag(req[t].obj), manifest |-> doc[t]])
        BY <1>2, <1>5, <2>1 DEF PutLatest
    <2> QED  BY <1>5, <2>2 DEF PutLatest, InFlight
<1>6. CASE DeleteManifest(t)
    <2>1. Applied([tag |-> None, manifest |-> doc[t]])
        BY <1>6 DEF DeleteManifest, Applied
    <2> QED  BY <1>6, <2>1 DEF DeleteManifest, InFlight
<1>7. CASE ~(PutAnchor(t) \/ PutExact(t) \/ PutLatest(t) \/ DeleteManifest(t))
    BY <1>7 DEF ThreadStep, PutStep, ResolveStep, DeleteStep, FailureStep, registryVars,
       Acquire, CheckCreate, RecheckCreate, RequireCreateAvailable, UploadPayload, StoreBlob,
       FindExact, FindAnchor, UploadEmpty, RejectMetadata, UploadConfig, GetManifest,
       GetConfig, GetAnchor, CheckRetention, RequestFails, AbandonWrite
<1> QED  BY <1>3, <1>4, <1>5, <1>6, <1>7

\* No step loses anything, and tags keep showing whole manifests.
LEMMA RegistryStaysWhole ==
    ASSUME CompletenessInv, [Next]_vars
    PROVE  NothingLost /\ TagsWhole'
<1>0. RegistryTypes /\ TagsWhole
    BY TypeInvParts DEF CompletenessInv
<1>1. ASSUME blobs \subseteq blobs', UNCHANGED <<manifests, tags>>
      PROVE  NothingLost /\ TagsWhole'
    <2>1. NothingLost
        BY <1>1 DEF NothingLost, HasAnchor, ManifestFound
    <2> QED  BY <1>0, <1>1, <2>1, KeptTagsWhole, TagsWholeNext
<1>2. ASSUME NEW w, WholeWrite(w), Applied(w)
      PROVE  NothingLost /\ TagsWhole'
    BY <1>0, <1>2, AnchorSurvives, WriteKeepsTags
<1>3. ASSUME NEW t \in Threads, ThreadStep(t)
      PROVE  NothingLost /\ TagsWhole'
    BY <1>1, <1>2, <1>3, StepEffect, WiredWhole
<1>4. CASE LateArrival
    BY <1>2, <1>4 DEF LateArrival, Applied, CompletenessInv, LateWhole
<1>5. CASE (\E t \in Threads : Invoke(t)) \/ Crash \/ Tick \/ UNCHANGED vars
    BY <1>1, <1>5 DEF Invoke, Crash, Tick, vars, registryVars
<1> QED  BY <1>3, <1>4, <1>5 DEF Next, Quiesce

\* A thread that does not move keeps what it has prepared.
LEMMA PreparedStays ==
    ASSUME NothingLost, NEW t \in Threads, Prepared(t), RequestShape,
           pc'[t] = pc[t], req'[t] = req[t], doc'[t] = doc[t]
    PROVE  Prepared(t)'
<1>1. pc[t] # "idle" => req[t].obj \in Objects
    BY RequestFields DEF RequestShape
<1>2. pc[t] \in HoldsDoc => WholeNext(doc[t], req[t].obj)
    BY <1>1, WholeStays DEF Prepared, HoldsDoc
<1>3. pc[t] = "config" => HasAnchor(req[t].obj)'
    <2>1. \A o \in Objects : HasAnchor(o) => HasAnchor(o)'
        BY DEF NothingLost
    <2> QED  BY <1>1, <2>1 DEF Prepared, HasAnchor, ManifestFound
<1> QED  BY <1>2, <1>3 DEF Prepared, NothingLost, Whole, WholeNext

\* A thread that has returned needs nothing.
LEMMA ReturnPrepared ==
    ASSUME TypeInv, NEW t \in Threads, NEW result, Return(t, result)
    PROVE  Prepared(t)'
BY DEF Return, Prepared, Uploaded, HoldsDoc, TypeInv, TypeOK

\* A thread that goes on has prepared what its next step relies on.
LEMMA GotoPrepared ==
    ASSUME TypeInv, NEW t \in Threads, NEW s, Goto(t, s), NEW m, doc'[t] = m,
           s \in Uploaded => PayloadBlob(req[t].digest) \in blobs',
           s = "putanchor" => EmptyBlob \in blobs',
           s = "config" => HasAnchor(req[t].obj)',
           s \in HoldsDoc => WholeNext(m, req[t].obj) /\ req[t].digest \in {None, m.config.digest}
    PROVE  Prepared(t)'
<1>1. pc'[t] = s /\ req'[t] = req[t]
    BY DEF Goto, TypeInv, TypeOK
<1> QED  BY <1>1 DEF Prepared, Whole, WholeNext, HasAnchor, ManifestFound

\* Each step of a thread prepares what its next step relies on.
LEMMA PreparedNext ==
    ASSUME CompletenessInv, NothingLost, NEW t \in Threads, ThreadStep(t)
    PROVE  Prepared(t)'
<1>0. /\ TypeInv /\ Prepared(t) /\ TagsWhole
      /\ pc[t] # "idle" => req[t] \in Requests
      /\ pc[t] \in PutSteps => req[t].op = "put"
    BY DEF CompletenessInv, ThreadsWhole, TypeInv, RequestShape, PutSteps
<1> DEFINE o == req[t].obj
<1>1. /\ pc[t] # "idle" => o \in Objects
      /\ blobs \subseteq blobs'
      /\ pc[t] \in PutSteps => req[t].digest \in Digests
    BY <1>0, RequestFields DEF NothingLost, PutSteps
<1>2. ASSUME NEW result, Return(t, result) PROVE Prepared(t)'
    BY <1>0, <1>2, ReturnPrepared
<1>3. pc[t] \in HoldsDoc => /\ WholeNext(doc[t], o)
                            /\ req[t].digest \in {None, doc[t].config.digest}
    BY <1>0, <1>1, WholeStays DEF Prepared, HoldsDoc
<1>4. ASSUME NEW s \in {"create", "payload", "resolve", "getconfig", "getanchor", "retention",
                        "delete", "putlatest"},
             Goto(t, s), UNCHANGED doc, s \in HoldsDoc => pc[t] \in HoldsDoc
      PROVE  Prepared(t)'
    BY <1>0, <1>3, <1>4, GotoPrepared DEF Uploaded
<1>5. ASSUME NEW s \in {"recheck", "exact", "anchor", "empty"}, Goto(t, s), UNCHANGED doc,
             PayloadBlob(req[t].digest) \in blobs'
      PROVE  Prepared(t)'
    BY <1>0, <1>5, GotoPrepared DEF HoldsDoc
<1>6. CASE Acquire(t)
    BY <1>0, <1>6 DEF Acquire, Prepared, Uploaded, HoldsDoc, TypeInv, TypeOK
<1>7. CASE CheckCreate(t)
    BY <1>2, <1>4, <1>7 DEF CheckCreate, RequireCreateAvailable, HoldsDoc
<1>8. CASE UploadPayload(t)
    <2>1. PayloadBlob(req[t].digest) \in blobs'
        BY <1>8 DEF UploadPayload, StoreBlob
    <2> QED  BY <1>2, <1>5, <1>8, <2>1 DEF UploadPayload, AcknowledgedOrLost
<1>9. CASE RecheckCreate(t)
    BY <1>0, <1>1, <1>2, <1>5, <1>9
       DEF RecheckCreate, RequireCreateAvailable, Prepared, Uploaded
<1>10. CASE FindExact(t)
    BY <1>0, <1>1, <1>2, <1>4, <1>5, <1>10 DEF FindExact, Prepared, Uploaded, HoldsDoc
<1>11. CASE FindAnchor(t)
    <2>1. PayloadBlob(req[t].digest) \in blobs'
        BY <1>0, <1>1, <1>11 DEF FindAnchor, Prepared, Uploaded
    <2>2. ASSUME Goto(t, "config"), UNCHANGED doc, ManifestFound(anchor_tag(o))
          PROVE  Prepared(t)'
        <3>1. HasAnchor(o) /\ UNCHANGED <<manifests, tags, req>>
            BY <1>0, <1>1, <1>11, <2>2 DEF FindAnchor, TagsWhole, ManifestFound, registryVars, Goto
        <3>2. HasAnchor(req[t].obj)'
            BY <1>1, <3>1 DEF HasAnchor, ManifestFound
        <3> QED  BY <1>0, <2>1, <2>2, <3>2, GotoPrepared DEF HoldsDoc
    <2> QED  BY <1>2, <1>5, <1>11, <2>1, <2>2 DEF FindAnchor
<1>12. CASE UploadEmpty(t)
    <2>1. PayloadBlob(req[t].digest) \in blobs' /\ EmptyBlob \in blobs'
        BY <1>0, <1>1, <1>12 DEF UploadEmpty, StoreBlob, Prepared, Uploaded
    <2>2. ASSUME Goto(t, "putanchor"), UNCHANGED doc PROVE Prepared(t)'
        BY <1>0, <2>1, <2>2, GotoPrepared DEF HoldsDoc
    <2> QED  BY <1>2, <1>12, <2>2 DEF UploadEmpty, AcknowledgedOrLost
<1>13. CASE PutAnchor(t)
    <2>1. ASSUME Goto(t, "config"), UNCHANGED doc PROVE Prepared(t)'
        <3>1. /\ PayloadBlob(req[t].digest) \in blobs' /\ EmptyBlob \in blobs'
              /\ req' = req /\ anchor_tag(o) \in Tags /\ build_anchor_manifest(o) # None
            BY <1>0, <1>1, <1>13, <2>1, TagsOfObject, NoneAssumption
               DEF PutAnchor, Prepared, Uploaded, Goto, AnchorManifests
        <3>2. tags'[anchor_tag(o)] = build_anchor_manifest(o) /\ build_anchor_manifest(o) \in manifests'
            BY <1>0, <1>13, <3>1 DEF PutAnchor, StoreManifest, TypeInv, TypeOK
        <3>3. HasAnchor(req[t].obj)'
            BY <3>1, <3>2 DEF HasAnchor, ManifestFound
        <3> QED  BY <1>0, <2>1, <3>1, <3>3, GotoPrepared DEF HoldsDoc
    <2> QED  BY <1>2, <1>13, <2>1 DEF PutAnchor, AcknowledgedOrLost
<1>14. CASE UploadConfig(t)
    <2> DEFINE m == build_object_manifest(StoredFor(req[t]))
    <2>1. ASSUME Goto(t, "putexact"), doc' = [doc EXCEPT ![t] = m]
          PROVE  Prepared(t)'
        <3>1. /\ m \in ObjectManifests /\ m.config.obj = o /\ m.config.digest = req[t].digest
              /\ m.config = StoredFor(req[t])
            BY <1>0, <1>14, StoredForType DEF UploadConfig, PutSteps, TypeInv, TypeOK
        <3>2. {ConfigBlob(m.config), PayloadBlob(m.config.digest)} \subseteq blobs'
            BY <1>0, <1>1, <1>14, <3>1 DEF UploadConfig, StoreBlob, Prepared, Uploaded
        <3>3. HasAnchor(o) /\ o \in Objects
            BY <1>0, <1>1, <1>14 DEF UploadConfig, Prepared
        <3>4. WholeNext(m, o)
            <4>1. UNCHANGED <<manifests, tags, req>>
                BY <1>14, <2>1 DEF UploadConfig, StoreBlob, Goto
            <4> QED  BY <1>1, <3>1, <3>2, <3>3, <4>1 DEF WholeNext, HasAnchor, ManifestFound
        <3>5. doc'[t] = m
            BY <1>0, <2>1 DEF TypeInv, TypeOK
        <3> QED  BY <1>0, <2>1, <3>1, <3>4, <3>5, GotoPrepared DEF Uploaded
    <2> QED  BY <1>2, <1>14, <2>1 DEF UploadConfig
<1>15. CASE PutExact(t)
    BY <1>2, <1>4, <1>15 DEF PutExact, AcknowledgedOrLost, HoldsDoc
<1>16. CASE RejectMetadata(t) \/ PutLatest(t)
    BY <1>2, <1>16 DEF RejectMetadata, PutLatest
<1>17. CASE GetManifest(t)
    <2> DEFINE m == tags[ReferenceTag(req[t])]
    <2>1. ASSUME ManifestFound(ReferenceTag(req[t])), Goto(t, "getconfig"),
                 doc' = [doc EXCEPT ![t] = m]
          PROVE  Prepared(t)'
        <3>1. o \in Objects /\ req[t].digest \in Digests \cup {None} /\ m # None
            BY <1>0, <1>17, <2>1, RequestFields DEF GetManifest, ManifestFound
        <3>2. Whole(m, o) /\ req[t].digest \in {None, m.config.digest}
            BY <1>0, <3>1 DEF ReferenceTag, TagsWhole
        <3>3. WholeNext(m, o) /\ doc'[t] = m
            BY <1>0, <2>1, <3>1, <3>2, WholeStays DEF TypeInv, TypeOK
        <3> QED  BY <1>0, <2>1, <3>2, <3>3, GotoPrepared DEF Uploaded
    <2> QED  BY <1>2, <1>17, <2>1 DEF GetManifest
<1>18. CASE GetConfig(t) \/ GetAnchor(t)
    BY <1>2, <1>4, <1>18 DEF GetConfig, GetAnchor, AfterResolve, HoldsDoc
<1>19. CASE CheckRetention(t)
    BY <1>2, <1>4, <1>19 DEF CheckRetention, HoldsDoc
<1>20. CASE DeleteManifest(t) \/ RequestFails(t) \/ AbandonWrite(t)
    BY <1>2, <1>20 DEF DeleteManifest, RequestFails, AbandonWrite
<1> QED  BY <1>6, <1>7, <1>8, <1>9, <1>10, <1>11, <1>12, <1>13, <1>14, <1>15, <1>16, <1>17, <1>18,
            <1>19, <1>20 DEF ThreadStep, PutStep, ResolveStep, DeleteStep, FailureStep

\* CompletenessInv is inductive.
LEMMA CompletenessNext == CompletenessInv /\ [Next]_vars => CompletenessInv'
<1> SUFFICES ASSUME CompletenessInv, [Next]_vars PROVE CompletenessInv'
    OBVIOUS
<1>0. TypeInv /\ TypeInv' /\ NothingLost /\ TagsWhole'
    BY TypeNext, RegistryStaysWhole DEF CompletenessInv
<1>1. ASSUME NEW t \in Threads PROVE Prepared(t)'
    <2>0. Prepared(t) /\ RequestShape
        BY DEF CompletenessInv, ThreadsWhole, TypeInv
    <2>1. CASE ThreadStep(t)
        BY <1>0, <2>1, PreparedNext
    <2>2. CASE Invoke(t)
        BY <1>0, <2>2 DEF Invoke, Prepared, Uploaded, HoldsDoc, TypeInv, TypeOK
    <2>3. ASSUME NEW u \in Threads, u # t, ThreadStep(u) \/ Invoke(u) PROVE Prepared(t)'
        BY <1>0, <2>0, <2>3, OtherThreads, PreparedStays
    <2>4. CASE Crash
        BY <2>4 DEF Crash, Prepared, Uploaded, HoldsDoc
    <2>5. CASE LateArrival \/ Tick \/ UNCHANGED vars
        <3>1. pc'[t] = pc[t] /\ req'[t] = req[t] /\ doc'[t] = doc[t]
            BY <2>5 DEF LateArrival, Tick, vars, threadVars
        <3> QED  BY <1>0, <2>0, <3>1, PreparedStays
    <2> QED  BY <2>1, <2>2, <2>3, <2>4, <2>5 DEF Next, Quiesce
<1>2. ASSUME NEW w \in late' PROVE WholeWrite(w)'
    <2>1. w \in late \/ \E t \in Threads : w \in InFlight(t)
        BY <1>0, <1>2, BoundsAssumption, LateGrows DEF TypeInv, TypeOK
    <2>2. WholeWrite(w)
        BY <2>1, WiredWhole DEF CompletenessInv, LateWhole
    <2> QED  BY <1>0, <2>2, WholeWriteStays
<1> QED  BY <1>0, <1>1, <1>2 DEF CompletenessInv, ThreadsWhole, LateWhole

\* Whatever fails, crashes or arrives late, with or without the lock: what a tag
\* shows, a thread has resolved or built, or is on the wire is whole.
THEOREM CompletenessInvariant == Spec => []CompletenessInv
<1>1. Init => CompletenessInv
    <2> SUFFICES ASSUME Init PROVE CompletenessInv
        OBVIOUS
    <2>1. TagsWhole
        BY TagsOfObject DEF Init, TagsWhole
    <2> QED  BY <2>1, TypeInit
                DEF Init, CompletenessInv, ThreadsWhole, LateWhole, Prepared, Uploaded, HoldsDoc
<1> QED  BY <1>1, CompletenessNext, PTL DEF Spec

\* A version or latest tag shows only a manifest of that Object and digest, whose
\* config, payload and anchor the registry holds, with and without late writes.
THEOREM VersionsComplete == Spec => []PublishedVersionsComplete
<1>1. CompletenessInv => PublishedVersionsComplete
    <2> SUFFICES ASSUME CompletenessInv, NEW o \in Objects, NEW d \in Digests \cup {None}
                 PROVE  LET tag == ReferenceTag([obj |-> o, digest |-> d]) IN
                        tags[tag] # None =>
                            /\ tags[tag].config.obj = o
                            /\ tags[tag].payload = tags[tag].config.digest
                            /\ d \in {None, tags[tag].payload}
                            /\ {ConfigBlob(tags[tag].config), PayloadBlob(tags[tag].payload), EmptyBlob}
                                    \subseteq blobs
                            /\ tags[anchor_tag(o)] = tags[tag].subject
        BY DEF PublishedVersionsComplete
    <2> DEFINE tag == ReferenceTag([obj |-> o, digest |-> d])
    <2> SUFFICES ASSUME tags[tag] # None
                 PROVE  /\ tags[tag].config.obj = o
                        /\ tags[tag].payload = tags[tag].config.digest
                        /\ d \in {None, tags[tag].payload}
                        /\ {ConfigBlob(tags[tag].config), PayloadBlob(tags[tag].payload), EmptyBlob}
                                \subseteq blobs
                        /\ tags[anchor_tag(o)] = tags[tag].subject
        OBVIOUS
    <2>1. Whole(tags[tag], o) /\ d \in {None, tags[tag].config.digest}
        <3>1. CASE d = None
            BY <3>1 DEF ReferenceTag, CompletenessInv, TagsWhole
        <3>2. CASE d # None
            <4>1. d \in Digests /\ tag = version_tag(o, d)
                BY <3>2 DEF ReferenceTag
            <4> QED  BY <4>1 DEF CompletenessInv, TagsWhole
        <3> QED  BY <3>1, <3>2
    <2>2. tags[tag].payload = tags[tag].config.digest /\ tags[tag].subject = build_anchor_manifest(o)
        BY <2>1, ObjectManifestFields DEF Whole
    <2> QED  BY <2>1, <2>2 DEF Whole, HasAnchor
<1> QED  BY <1>1, CompletenessInvariant, PTL

\* A reader that got a manifest finds its config, its payload and its anchor,
\* although it takes no lock and the version may be deleted meanwhile.
THEOREM ReadsComplete == Spec => []ResolvedReadsComplete
<1>1. CompletenessInv => ResolvedReadsComplete
    <2> SUFFICES ASSUME CompletenessInv, NEW t \in Threads, pc[t] \in {"getconfig", "getanchor"}
                 PROVE  /\ {ConfigBlob(doc[t].config), PayloadBlob(doc[t].payload)} \subseteq blobs
                        /\ doc[t].config.obj = req[t].obj
                        /\ ManifestFound(anchor_tag(req[t].obj))
                        /\ tags[anchor_tag(req[t].obj)] = doc[t].subject
        BY DEF ResolvedReadsComplete
    <2>1. Whole(doc[t], req[t].obj)
        BY DEF CompletenessInv, ThreadsWhole, Prepared, HoldsDoc
    <2>2. doc[t].payload = doc[t].config.digest /\ doc[t].subject = build_anchor_manifest(req[t].obj)
        BY <2>1, ObjectManifestFields DEF Whole
    <2> QED  BY <2>1, <2>2 DEF Whole, HasAnchor
<1> QED  BY <1>1, CompletenessInvariant, PTL

-----------------------------------------------------------------------------
(* Retention: deletion and replacement                                     *)

\* What retention lets happen to a version tag in one step.
RetentionStep(o, d) ==
    LET was == tags[version_tag(o, d)]
        is == tags'[version_tag(o, d)]
    IN  (was # None /\ is # was) =>
            \/ is = None /\ was.config.retention # Hold /\ was.config.retention <= now
            \/ LateWrites /\ is # None /\ is.config.obj = o /\ is.config.digest = d

\* A version tag is unbound only when its retention permits.
LEMMA UnboundWhenPermitted ==
    ASSUME RetentionInv, [Next]_vars, NEW o \in Objects, NEW d \in Digests,
           tags[version_tag(o, d)] # None, tags'[version_tag(o, d)] = None
    PROVE  RetentionStep(o, d)
<1>1. /\ require_delete_permitted(tags[version_tag(o, d)].config.retention)
      /\ now \in Nat
    BY WhoUnbinds, TagsOfObject, BoundsAssumption DEF RetentionInv, TypeInv, TypeOK
<1> QED  BY <1>1, BoundsAssumption DEF RetentionStep, require_delete_permitted, NoRetention, Hold

\* With late writes a version tag that is bound again shows the same version.
LEMMA ReboundToSameVersion ==
    ASSUME LateWrites, CompletenessInv', NEW o \in Objects, NEW d \in Digests,
           tags'[version_tag(o, d)] # None
    PROVE  RetentionStep(o, d)
<1>1. /\ tags'[version_tag(o, d)].config.obj = o
      /\ tags'[version_tag(o, d)].config.digest = d
    BY DEF CompletenessInv, TagsWhole, Whole
<1> QED  BY <1>1 DEF RetentionStep

\* Without them it is never bound to another manifest.
LEMMA NeverRebound ==
    ASSUME CompletenessInv, CompletenessInv', NEW o \in Objects, NEW d \in Digests,
           VersionStep(o, d), tags[version_tag(o, d)] # None, tags'[version_tag(o, d)] # None
    PROVE  tags'[version_tag(o, d)] = tags[version_tag(o, d)]
<1> DEFINE was == tags[version_tag(o, d)]
           is == tags'[version_tag(o, d)]
<1>1. was \in ObjectManifests /\ is \in ObjectManifests
    BY DEF CompletenessInv, TagsWhole, Whole
<1>2. /\ was = build_object_manifest(was.config) /\ was.config \in StoredObject
      /\ is = build_object_manifest(is.config) /\ is.config \in StoredObject
    BY <1>1, ObjectManifestFields DEF ObjectManifests, build_object_manifest
<1>3. was.config # None /\ is.config # None
    BY <1>2, NoneAssumption
<1>4. is.config = was.config
    BY <1>3 DEF VersionStep, StoredAt
<1> QED  BY <1>2, <1>4

\* Recorded retention is honoured: no version is deleted before its retention has
\* ended, even by a DELETE whose caller gave up on it, and none is replaced, but
\* for late writes, which may replace a manifest by another of the same version.
THEOREM RetentionHonoured == Spec => StoredRetentionHonoured
<1>1. ASSUME RetentionInv, CompletenessInv, CompletenessInv', [Next]_vars,
             ~LateWrites => [\A o \in Objects, d \in Digests : VersionStep(o, d)]_vars
      PROVE  [\A o \in Objects, d \in Digests : RetentionStep(o, d)]_vars
    <2> SUFFICES ASSUME NEW o \in Objects, NEW d \in Digests, vars' # vars,
                        tags[version_tag(o, d)] # None
                 PROVE  RetentionStep(o, d)
        BY DEF RetentionStep
    <2>1. CASE tags'[version_tag(o, d)] = None
        BY <1>1, <2>1, UnboundWhenPermitted
    <2>2. CASE tags'[version_tag(o, d)] # None /\ LateWrites
        BY <1>1, <2>2, ReboundToSameVersion
    <2>3. CASE tags'[version_tag(o, d)] # None /\ ~LateWrites
        BY <1>1, <2>3, NeverRebound DEF RetentionStep
    <2> QED  BY <2>1, <2>2, <2>3
<1>2. StoredRetentionHonoured <=> [][\A o \in Objects, d \in Digests : RetentionStep(o, d)]_vars
    BY DEF StoredRetentionHonoured, RetentionStep
<1>3. CASE LateWrites
    <2>1. RetentionInv /\ CompletenessInv /\ CompletenessInv' /\ [Next]_vars
              => [\A o \in Objects, d \in Digests : RetentionStep(o, d)]_vars
        BY <1>1, <1>3
    <2> QED  BY <1>2, <2>1, RetentionInvariant, CompletenessInvariant, PTL DEF Spec
<1>4. CASE ~LateWrites
    <2>1. RetentionInv /\ CompletenessInv /\ CompletenessInv' /\ [Next]_vars
              /\ [\A o \in Objects, d \in Digests : VersionStep(o, d)]_vars
              => [\A o \in Objects, d \in Digests : RetentionStep(o, d)]_vars
        BY <1>1
    <2>2. Spec => [][\A o \in Objects, d \in Digests : VersionStep(o, d)]_vars
        BY <1>4, VersionsImmutable
    <2> QED  BY <1>2, <2>1, <2>2, RetentionInvariant, CompletenessInvariant, PTL DEF Spec
<1> QED  BY <1>3, <1>4

=============================================================================
