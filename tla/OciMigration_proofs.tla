------------------------- MODULE OciMigration_proofs -------------------------
(***************************************************************************)
(* Whatever a source registry answers, a migration leaves at the target    *)
(* the version that was asked for; and the uploads it and the other puts   *)
(* make are those of module OciUpload.                                     *)
(***************************************************************************)
EXTENDS OciMigration, OciUpload_proofs

outer == <<step, exportVars, createOnly, target, prior>>

LEMMA MigrationStart == MigrationInit => MigrationInv
<1> SUFFICES ASSUME MigrationInit PROVE MigrationInv
  OBVIOUS
<1>1. UploadInv
  BY UploadInit DEF MigrationInit
<1>2. TargetStored
  BY TargetsAssumption DEF MigrationInit, TargetStored
<1> QED BY <1>1, <1>2 DEF MigrationInit, MigrationInv, Resolved, Importing, ImportFaithful

\* An exported Object can be put.
LEMMA ExportedPayload ==
    ASSUME MigrationInv, step = "exported"
    PROVE  CallPayload(Exported)
<1>1. resolved.payload \in Contents /\ resolved.size \in Nat
  BY ContentFacts DEF MigrationInv, Resolved, Metadata, Lengths
<1> QED BY <1>1 DEF CallPayload, PayloadType, Exported

\* What a step does to the upload.
LEMMA UploadPart == ASSUME MigrationInv, [MigrationNext]_allVars PROVE [AnyNext]_vars
<1>1. CASE UNCHANGED allVars
  BY <1>1 DEF allVars
<1>2. ASSUME NEW p \in Payloads, StartPut(p) PROVE AnyNext
  BY <1>2, PayloadsAssumption DEF StartPut, AnyNext, CallPayload
<1>3. ASSUME NEW create \in BOOLEAN, StartImport(create) PROVE [AnyNext]_vars
  BY <1>3, ExportedPayload DEF StartImport, AnyNext
<1>4. CASE UploadStep \/ LateStep
  BY <1>4 DEF UploadStep, LateStep, AnyNext
<1>5. CASE \/ \E ref \in References : StartExport(ref)
           \/ GetManifest \/ GetConfig \/ GetAnchor \/ ExportFails \/ CommitImport \/ PutEnds
  BY <1>5 DEF StartExport, GetManifest, GetConfig, GetAnchor, ExportFails, CommitImport, PutEnds
<1> QED BY <1>1, <1>2, <1>3, <1>4, <1>5 DEF MigrationNext, Work, Quiesce

\* The registry never forgets a blob, and a call keeps its payload.
LEMMA BlobsGrow ==
    ASSUME [AnyNext]_vars
    PROVE  blobs \subseteq blobs' /\ (pc # "idle" => payload' = payload /\ pc' # "idle")
<1>1. CASE FinishUpload \/ LateFinish
  BY <1>1 DEF FinishUpload, LateFinish, Finalises, Raise, locals
<1>2. CASE ~(FinishUpload \/ LateFinish)
  BY <1>2 DEF AnyNext, Begin, CallStep, HeadBlob, HeadFails, StartUpload, RequestFails, OpenPayload,
     ReadPiece, ReadEnd, StreamBreaks, TakeChunk, EndPayload, PatchUpload, FinishFails, Except,
     Raise, vars, locals, registry, Reading, ReadReturns
<1> QED BY <1>1, <1>2

\* Steps of the upload leave the migration where it is.
LEMMA UploadOnly ==
    ASSUME MigrationInv, [AnyNext]_vars, UNCHANGED outer
    PROVE  MigrationInv'
<1>1. UploadInv' /\ blobs \subseteq blobs' /\ (pc # "idle" => payload' = payload /\ pc' # "idle")
  BY UploadStepInv, BlobsGrow DEF MigrationInv
<1>2. Resolved' /\ Importing'
  BY <1>1 DEF MigrationInv, Resolved, Importing, stored_for_reference, outer, exportVars
<1>3. TargetStored' /\ ImportFaithful'
  BY <1>1 DEF MigrationInv, TargetStored, ImportFaithful, outer, exportVars
<1> QED BY <1>1, <1>2, <1>3 DEF MigrationInv

\* The export accepts one consistent document only (_stored_for_reference).
LEMMA ExportSteps ==
    ASSUME MigrationInv, UNCHANGED vars,
           \/ \E ref \in References : StartExport(ref)
           \/ GetManifest \/ GetConfig \/ GetAnchor \/ ExportFails
    PROVE  MigrationInv'
<1> USE DEF MigrationInv
<1>1. UploadInv' /\ blobs' = blobs
  BY UploadStepInv DEF vars, registry
<1>2. target' = target /\ step' \in {"manifest", "config", "anchor", "exported", "failed"}
  BY DEF StartExport, GetManifest, GetConfig, GetAnchor, ExportFails
<1>3. TargetStored' /\ ImportFaithful' /\ Importing'
  BY <1>1, <1>2 DEF TargetStored, ImportFaithful, Importing
<1>4. Resolved'
  <2>1. CASE GetConfig
    <3>1. PICK body \in Metadata :
              /\ get_blob_bytes(manifest.config, body)
              /\ stored_from_manifest(manifest, body)
              /\ stored_for_reference(reference, body)
              /\ resolved' = [metadata |-> body, config |-> manifest.config,
                              payload |-> manifest.payload, size |-> manifest.size]
              /\ step' = "anchor" /\ UNCHANGED <<reference, manifest>> /\ step = "config"
      BY <2>1 DEF GetConfig
    <3> QED BY <3>1 DEF Resolved, get_blob_bytes, stored_from_manifest, stored_for_reference
  <2>2. CASE GetAnchor
    BY <2>2 DEF GetAnchor, Resolved, stored_for_reference
  <2>3. CASE (\E ref \in References : StartExport(ref)) \/ GetManifest \/ ExportFails
    BY <2>3 DEF StartExport, GetManifest, ExportFails, Resolved
  <2> QED BY <2>1, <2>2, <2>3
<1> QED BY <1>1, <1>3, <1>4

\* The import begins with the exported payload.
LEMMA StartImportStep ==
    ASSUME MigrationInv, NEW create \in BOOLEAN, StartImport(create)
    PROVE  MigrationInv'
<1> USE DEF MigrationInv, StartImport
<1>1. [AnyNext]_vars
  BY ExportedPayload DEF AnyNext
<1>2. UploadInv' /\ blobs \subseteq blobs' /\ target' = target
  BY <1>1, UploadStepInv, BlobsGrow
<1>3. TargetStored' /\ ImportFaithful'
  BY <1>2 DEF TargetStored, ImportFaithful
<1>4. Resolved' /\ Importing'
  BY DEF Resolved, Importing, stored_for_reference, exportVars, Begin, Exported
<1> QED BY <1>2, <1>3, <1>4

\* The commit publishes the uploaded content under the exported description.
LEMMA CommitImportStep == ASSUME MigrationInv, CommitImport PROVE MigrationInv'
<1>1. /\ UNCHANGED <<vars, exportVars, createOnly, prior>> /\ step = "import" /\ pc = "returned"
      /\ step' \in {"committed", "failed"}
      /\ target' \in {target, IF Exists THEN target ELSE target \cup {Published}}
  BY DEF CommitImport
<1>2. UploadInv' /\ UNCHANGED <<blobs, hasher>>
  BY <1>1, UploadStepInv DEF MigrationInv, vars, registry, locals
<1>3. hasher = resolved.metadata.digest /\ hasher \in blobs
  <2>1. /\ payload.digest \in {None, hasher} /\ hasher \in blobs
        /\ payload.digest = resolved.metadata.digest
    BY <1>1 DEF MigrationInv, UploadInv, Streaming, Wanted, Admissible, Importing, Resolved
  <2>2. resolved.metadata.digest # None
    BY <1>1, ContentFacts DEF MigrationInv, Resolved, Metadata
  <2> QED BY <2>1, <2>2
<1>4. TargetStored'
  BY <1>1, <1>2, <1>3 DEF MigrationInv, TargetStored, Published
<1>5. ImportFaithful'
  <2> SUFFICES ASSUME step' = "committed" PROVE ImportFaithful'
    BY DEF ImportFaithful
  <2>1. /\ target' = (IF Exists THEN target ELSE target \cup {Published})
        /\ UNCHANGED <<reference, resolved, createOnly, prior>> /\ (Exists => ~createOnly)
    BY DEF CommitImport, exportVars
  <2>2. /\ Published.obj = reference.obj /\ reference.digest \in {None, Published.digest}
        /\ Published.intent = resolved.config.intent /\ Published.digest = hasher
        /\ Published.length = Len(Published.digest)
    BY <1>1, <1>3 DEF MigrationInv, Resolved, stored_for_reference, Published
  <2>3. prior = target
    BY <1>1 DEF MigrationInv, Importing
  <2>4. CASE Exists
    <3>1. PICK v \in target : v.obj = Published.obj /\ v.digest = Published.digest
      BY <2>4 DEF Exists
    <3> QED BY <1>2, <2>1, <2>2, <2>3, <2>4, <3>1 DEF MigrationInv, TargetStored, ImportFaithful
  <2>5. CASE ~Exists
    <3>1. Published \notin prior /\ Published \in target'
      BY <2>1, <2>3, <2>5 DEF Exists
    <3> QED BY <1>2, <1>3, <2>1, <2>2, <3>1 DEF ImportFaithful
  <2> QED BY <2>4, <2>5
<1> QED BY <1>1, <1>2, <1>4, <1>5 DEF MigrationInv, Resolved, Importing

LEMMA OuterSteps ==
    ASSUME MigrationInv, PutEnds \/ \E p \in Payloads : StartPut(p)
    PROVE  MigrationInv'
<1> USE DEF MigrationInv
<1>1. [AnyNext]_vars
  BY PayloadsAssumption DEF PutEnds, StartPut, AnyNext, CallPayload
<1>2. UploadInv' /\ blobs \subseteq blobs' /\ target' = target
  BY <1>1, UploadStepInv, BlobsGrow DEF PutEnds, StartPut
<1>3. step' \in {"put", "done", "failed"}
  BY DEF PutEnds, StartPut
<1>4. TargetStored'
  BY <1>2 DEF TargetStored
<1> QED BY <1>2, <1>3, <1>4 DEF Resolved, Importing, ImportFaithful

LEMMA MigrationStep == MigrationInv /\ [MigrationNext]_allVars => MigrationInv'
<1> SUFFICES ASSUME MigrationInv, [MigrationNext]_allVars PROVE MigrationInv'
  OBVIOUS
<1>1. CASE UNCHANGED allVars
  BY <1>1, UploadOnly DEF allVars, outer
<1>2. CASE UploadStep \/ LateStep
  BY <1>2, UploadOnly DEF UploadStep, LateStep, AnyNext, outer
<1>3. CASE \/ \E ref \in References : StartExport(ref)
           \/ GetManifest \/ GetConfig \/ GetAnchor \/ ExportFails
  <2>1. UNCHANGED vars
    BY <1>3 DEF StartExport, GetManifest, GetConfig, GetAnchor, ExportFails
  <2> QED BY <1>3, <2>1, ExportSteps
<1> QED BY <1>1, <1>2, <1>3, StartImportStep, CommitImportStep, OuterSteps
       DEF MigrationNext, Work, Quiesce

\* The invariant of export_logical, import_logical and the uploads.
THEOREM MigrationInvariant == MigrationSpec => []MigrationInv
<1> QED BY MigrationStart, MigrationStep, PTL DEF MigrationSpec

\* Whatever the source answers and delivers, a successful import_logical leaves the
\* Object and version that were asked for at the target, stored and described.
THEOREM ImportIsFaithful == MigrationSpec => []ImportFaithful
<1>1. MigrationInv => ImportFaithful
  BY DEF MigrationInv
<1> QED BY MigrationInvariant, <1>1, PTL

\* The values of _upload_payload have their types at every step.
THEOREM UploadTypes == MigrationSpec => []TypeOK
<1>1. MigrationInv => TypeOK
  BY DEF MigrationInv, UploadInv
<1> QED BY MigrationInvariant, <1>1, PTL

\* Every upload that a finished call leaves open is one whose POST was not answered
\* or whose abort failed.
THEOREM UploadsAreAccounted == MigrationSpec => []UploadsAccounted
<1>1. MigrationInv => UploadsAccounted
  BY InvImplies DEF MigrationInv
<1> QED BY MigrationInvariant, <1>1, PTL

\* _upload_payload starts over only for replayable payloads and transient errors.
THEOREM TransientReplayed == MigrationSpec => OnlyTransientReplayed
<1>1. ASSUME MigrationInv, [MigrationNext]_allVars
      PROVE  [attempt > 0 /\ attempt' # attempt => payload.replayable /\ error \in Transient]_vars
  BY <1>1, UploadPart, AttemptStep DEF MigrationInv
<1> QED BY MigrationInvariant, <1>1, PTL DEF MigrationSpec, OnlyTransientReplayed

\* _upload_payload and upload_blob_bytes implement PayloadStore: for every content,
\* chunk size and limit, only whole admissible contents are ever stored, also by
\* requests that arrive after the call, and success means that the content is stored.
THEOREM StoreIsImplemented == MigrationSpec => StoreImplemented
<1>1. MigrationInit => Store!Init
  BY StoreInit DEF MigrationInit
<1>2. MigrationInv /\ [MigrationNext]_allVars => [Store!Next]_(Store!vars)
  BY UploadPart, StoreStep DEF MigrationInv
<1> QED BY <1>1, <1>2, MigrationInvariant, PTL DEF MigrationSpec, StoreImplemented, Store!Spec

=============================================================================
