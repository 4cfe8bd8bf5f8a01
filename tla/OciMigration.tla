----------------------------- MODULE OciMigration -----------------------------
(***************************************************************************)
(* Logical migration (migration.py): export_logical resolves an Object at  *)
(* a source registry, import_logical puts it at a target.  The payload the *)
(* export registers is read from the source only when the import uploads   *)
(* it (module OciUpload).                                                  *)
(*                                                                         *)
(* The source may answer each request with any document: the tag moved,    *)
(* its store is damaged, a proxy is misconfigured.  What stands between it *)
(* and the target are the checks of _stored_for_reference, which get, stat *)
(* and delete make too, and those of the upload.                           *)
(***************************************************************************)
EXTENDS OciUpload

CONSTANTS
    Objects,       \* object ids
    Anchors,       \* digests of anchor manifests
    Intents,       \* what metadata say of immutability and retention
    References,    \* the references that are exported: obj, and digest or None
    Targets        \* the versions that may be at the target already

Lengths == {Len(d) : d \in Contents}

\* Stored metadata, the content of a config blob (StoredObject), and the three
\* descriptors of an Object manifest: config, payload with its size, and subject.
\* The payload's media type is checked as its size is, and is left out.
Metadata == [obj : Objects, digest : Contents, length : Lengths, intent : Intents]
Manifests == [config : Metadata, payload : Contents, size : Lengths, subject : Anchors]

ASSUME TargetsAssumption ==
    \A versions \in Targets : \A v \in versions : v \in Metadata /\ v.length = Len(v.digest)

VARIABLES
    step,          \* of the call around the upload
    reference,     \* the ObjectReference
    manifest,      \* the document the source answered for its tag, while it is resolved
    resolved,      \* the _ResolvedObject: metadata, their digest, and the payload's descriptor
    createOnly,    \* of the import
    target,        \* the versions at the target, as metadata
    prior          \* history: the ones that were there when the import began

exportVars == <<reference, manifest, resolved>>
allVars == <<vars, step, exportVars, createOnly, target, prior>>

MigrationInit ==
    /\ Init
    /\ step = "idle" /\ reference = None /\ manifest = None /\ resolved = None
    /\ createOnly = TRUE
    /\ target \in {versions \in Targets : \A v \in versions : v.digest \in blobs}
    /\ prior = {}

\* A put of its own, of a stream or a document.
StartPut(p) ==
    /\ step = "idle" /\ step' = "put"
    /\ Begin(p)
    /\ UNCHANGED <<exportVars, createOnly, target, prior>>

-----------------------------------------------------------------------------
(* export_logical: _stored_for_reference                                   *)

StartExport(ref) ==
    /\ step = "idle" /\ step' = "manifest"
    /\ reference' = ref
    /\ UNCHANGED <<vars, manifest, resolved, createOnly, target, prior>>

\* get_manifest of the version's tag or the latest.
GetManifest ==
    /\ step = "manifest" /\ step' = "config"
    /\ manifest' \in Manifests
    /\ UNCHANGED <<vars, reference, resolved, createOnly, target, prior>>

\* The body must have the descriptor's size and digest.
get_blob_bytes(descriptor, body) == body = descriptor

\* Mutant of stored_from_manifest: only the lengths are compared.
stored_from_manifest_Lengths(m, metadata) == metadata.length = m.size

\* The payload descriptor must be the one the metadata describe.
stored_from_manifest(m, metadata) == metadata.digest = m.payload /\ metadata.length = m.size

\* The metadata must be those of the Object, and the version, that was asked for.
stored_for_reference(ref, metadata) ==
    metadata.obj = ref.obj /\ ref.digest \in {None, metadata.digest}

GetConfig == \E body \in Metadata :
    /\ step = "config" /\ step' = "anchor"
    /\ get_blob_bytes(manifest.config, body)
    /\ stored_from_manifest(manifest, body)
    /\ stored_for_reference(reference, body)
    /\ resolved' = [metadata |-> body, config |-> manifest.config,
                    payload |-> manifest.payload, size |-> manifest.size]
    /\ UNCHANGED <<vars, reference, manifest, createOnly, target, prior>>

\* get_manifest of the Object's anchor tag: it must be the manifest's subject.
GetAnchor == \E anchor \in Anchors :
    /\ step = "anchor" /\ step' = "exported"
    /\ manifest.subject = anchor
    /\ manifest' = None
    /\ UNCHANGED <<vars, reference, resolved, createOnly, target, prior>>

\* A request fails, or its answer does not pass the checks of its step.
ExportFails ==
    /\ step \in {"manifest", "config", "anchor"} /\ step' = "failed"
    /\ manifest' = None /\ resolved' = None
    /\ UNCHANGED <<vars, reference, createOnly, target, prior>>

-----------------------------------------------------------------------------
(* import_logical: a put of the exported payload at the target             *)

\* The payload is opened at the source, again for each attempt, and is whatever
\* the source then delivers.
Exported ==
    [bytes |-> FALSE, offers |-> Contents, replayable |-> TRUE,
     length |-> resolved.size, digest |-> resolved.payload]

\* _require_create_available, before the upload and again in the commit: the
\* latest tag of the Object, or its anchor, is there, and a create-only import
\* fails.  Neither tag tells which versions exist: the latest tag is gone with
\* the version it showed, and an anchor may be alone.  (publish_once makes an
\* import create-only.)
StartImport(create) ==
    /\ step = "exported"
    /\ createOnly' = create /\ prior' = target
    /\ \/ create /\ step' = "failed" /\ UNCHANGED vars
       \/ step' = "import" /\ Begin(Exported)
    /\ UNCHANGED <<exportVars, target>>

Published == [obj |-> resolved.metadata.obj, digest |-> hasher, length |-> Len(hasher),
              intent |-> resolved.metadata.intent]
Exists == \E v \in target : v.obj = Published.obj /\ v.digest = Published.digest

\* _commit_object (module OciAdapter): an existing version is a conflict for a
\* create-only import and is kept as it is by another; a new one is published, and
\* the call may still fail, or nothing is.
CommitImport ==
    /\ step = "import" /\ pc = "returned"
    /\ \/ /\ Exists => ~createOnly
          /\ target' = IF Exists THEN target ELSE target \cup {Published}
          /\ step' \in {"committed", "failed"}
       \/ step' = "failed" /\ UNCHANGED target
    /\ UNCHANGED <<vars, exportVars, createOnly, prior>>

PutEnds ==
    /\ \/ step = "put" /\ Over /\ step' = "done"
       \/ step = "import" /\ pc = "raised" /\ step' = "failed"
    /\ UNCHANGED <<vars, exportVars, createOnly, target, prior>>

-----------------------------------------------------------------------------
InCall == step \in {"put", "manifest", "config", "anchor", "import"}

UploadStep == CallStep /\ UNCHANGED <<step, exportVars, createOnly, target, prior>>
LateStep == LateFinish /\ UNCHANGED <<step, exportVars, createOnly, target, prior>>

Work == GetManifest \/ GetConfig \/ GetAnchor \/ ExportFails \/ CommitImport \/ PutEnds \/ UploadStep

Quiesce == ~InCall /\ UNCHANGED allVars

MigrationNext ==
    \/ \E p \in Payloads : StartPut(p)
    \/ \E ref \in References : StartExport(ref)
    \/ \E create \in BOOLEAN : StartImport(create)
    \/ Work \/ LateStep \/ Quiesce

\* A thread inside a call runs, and every request ends (HTTP timeout).
MigrationSpec == MigrationInit /\ [][MigrationNext]_allVars /\ WF_allVars(Work)

-----------------------------------------------------------------------------
(* Properties                                                              *)

\* "Digests, descriptor sizes, ... metadata shape, subject links ... are verified
\* at every resolution boundary" (ARCHITECTURE.md): whatever the source answered
\* and delivered, a successful import leaves at the target a stored content of
\* the Object and version that were asked for, under a length that is its own, and
\* with the exported intent unless the version was there when the import began.
\* For a create-only import it was not.  (Another import keeps the intent that
\* such a version has, although docs/migration.md says that an import "preserves
\* ... immutability, and retention intent": see RetentionIntentRecorded of
\* OciAdapter.)
ImportFaithful ==
    step = "committed" => \E v \in target :
        /\ v.obj = reference.obj /\ reference.digest \in {None, v.digest}
        /\ v.digest \in blobs /\ v.length = Len(v.digest)
        /\ v \in prior \/ v.intent = resolved.config.intent
        /\ createOnly => v \notin prior

\* Every put, export and import returns or raises.
CallsReturn == InCall ~> ~InCall

-----------------------------------------------------------------------------
(* Inductive invariant                                                     *)

\* What was resolved is one document, and the one that was asked for.
Resolved ==
    /\ step \in {"config", "anchor"} => manifest \in Manifests
    /\ step \in {"anchor", "exported", "import"} =>
          /\ resolved.metadata \in Metadata /\ resolved.config = resolved.metadata
          /\ resolved.payload = resolved.metadata.digest /\ resolved.size = resolved.metadata.length
          /\ stored_for_reference(reference, resolved.metadata)

\* The import uploads what was resolved, and nobody else writes to the target.
Importing ==
    step = "import" =>
        /\ pc # "idle" /\ payload.digest = resolved.payload
        /\ prior = target

\* A version at the target describes a stored content.
TargetStored == \A v \in target : v.digest \in blobs /\ v.length = Len(v.digest)

\* The inductive invariant behind ImportFaithful.
MigrationInv == UploadInv /\ Resolved /\ Importing /\ TargetStored /\ ImportFaithful

=============================================================================
