# Verification of the Meridian OCI Adapter

TLA+ specifications, TLC configurations and TLAPS proofs for the
`meridian_storage.adapters.oci` package: an Object Common adapter that stores
logical Objects as OCI artifacts in a registry repository.  Paths below are
relative to `src/meridian_storage/adapters/oci/` unless they name a document.

## 1. The system

An Object version is an OCI image manifest whose config blob is the canonical
Object metadata, whose only layer is the payload, and whose `subject` is a small
*anchor* manifest, one per logical Object.  Three private tags lead to them:
`m-a1…` (the anchor), `m-v1…` (one exact version, by Object and payload digest)
and `m-l1…` (the latest version).  There are no transactions: a commit is a
sequence of up to ten registry requests, each of which may fail, or may be applied
although its caller was told that it failed.

| Component | State it keeps | Operations | What makes it hard | What makes it correct |
|---|---|---|---|---|
| Object data plane (`adapter.py`) | `_write_lock`; everything else is in the registry | put, get, stat, read_range, delete | check and write are requests apart; reads take no lock; failures and crashes between the requests of a commit | versions appear whole and are immutable; latest implies exact; create-only never replaces; retention is honoured |
| OCI registry (external) | blobs, manifests, tags | PUT/GET/HEAD/DELETE | may apply a write after the client gave up on it | content addressing; a deleted manifest takes its tags with it |
| HTTP client (`transport/client.py`) | one `httpx.Client` | one method per registry request, all but `open_blob` through `_request` | lost responses, transient statuses, broken and oversized bodies, redirects, Locations at other origins | writes are applied at most once; errors tell the truth; attempts are bounded; credentials stay with the endpoint; nothing is taken from plain http elsewhere |
| Payload upload (`adapter.py` `_upload_payload`, `client.py` `upload_blob_bytes`, `transport/stream.py`) | an upload, a hasher, a reader's buffer | HEAD, POST, PATCH per chunk, final PUT, abort, start over | any of them raises, or is applied unanswered; chunks, network pieces and limits do not line up | only whole, declared contents are stored; no upload is left open; only what may be repeated is |
| Multipart uploads (`multipart/__init__.py`) | table of sessions; per session an upload, a hasher, a length, the parts and a state machine | begin, upload_part, complete, abort | the manager's lock guards only the table; a session's state is shared by its callers | what is published is what was recorded; a clean end published nothing; sessions end |
| Maintenance inventory and cursors (`adapter.py` `_list`, `client.py` `list_tags`, `_naming.py` `CursorCodec`) | none; the position is in the signed cursor | list | tags move while a window is resolved; four ways for a page to end; the serving process is replaced | nothing that stays is missed, nothing is returned twice, the inventory ends, cursors outlive a process that has a configured key |
| Runtime and sessions (`_factory.py`) | adapter, probe report, verification, CA directory | open, verify_physical, open_session, execute, close | no lock: close may fall between any two reads or requests of a worker; open fails half-way | nothing leaks, nothing is half open, verification is not carried over, an overtaken operation stops |
| Probe (`probe/__init__.py`) | none; canaries in the registry | `authenticated`, `deep` | it may be interrupted anywhere, and so may its clean-up; a DELETE that is sent again is answered 404 | a report that passes is true, one that fails has a reason; canaries are removed or accounted for |
| Logical migration (`migration.py`) | the exported payload, read later | `export_logical`, `import_logical` | the source may answer, and later deliver, anything | what is imported is what was asked for |
| Binding, capabilities, documents, naming | none | validation and encoding | pure functions | — |

Interaction: a `_Session` of the runtime calls `execute` of the adapter, which
calls the multipart manager or its own operations; these call the HTTP client,
which talks to the registry.  The multipart manager calls back into the adapter:
`complete_multipart` takes the adapter's `_write_lock` and runs its
`_commit_object`.  An import is a `put` of the target adapter whose payload is
read from the source adapter's client while it is uploaded.

## 2. Modules

| Module | Models | State ↔ code | Actions ↔ code |
|---|---|---|---|
| `OciRegistry` | the registry, from how the client uses it and from the fake registry of the tests | `blobs`, `manifests`, `tags` | `StoreBlob`, `StoreManifest`, `RemoveManifest`, `ManifestFound` |
| `OciAdapter` | the data plane | `lock` is `_write_lock`; `pc`, `req`, `doc` are a caller's position, request and manifest; `late` the writes given up on that may still arrive; `published` is a history variable | one action per request or decision: `CheckCreate`, `UploadPayload`, `RecheckCreate`, `FindExact`, `FindAnchor`, `UploadEmpty`, `PutAnchor`, `RejectMetadata`, `UploadConfig`, `PutExact`, `PutLatest`; `GetManifest`, `GetConfig`, `GetAnchor`; `CheckRetention`, `DeleteManifest`; failures `RequestFails`, `AbandonWrite`, `LateArrival`, `Crash` |
| `ObjectCatalog` | the promise: an atomic catalogue of immutable versions | `versions`, `latest`, `known`, `clock` | `Publish`, `Promote`, `Withdraw`, `Tick` |
| `RegistryHttpClient` | `_request`, what each method passes to it and checks of the response, `open_blob`, `_location`, `_raise_response` | `attempt` is the loop variable; `location` the UploadLocation a caller holds, `url` where the call goes, both as origins; `request` is what is on the wire, where it has come to and whether it carries the credentials (`headers`); `reply` the response; `effects` counts what the registry applied | `Start`, `Send`, `Receive`; environment: `Redirect`, `Accept`, `Refuse`, `Mismatch`, `AppliedButLost`, `Lost` |
| `OciUpload` | `_upload_payload` and `upload_blob_bytes` | `attempt`, `existing`, `upload`, `hasher`, `chunk` are locals; `buffer`, `ended` are fields of `IteratorReader`, `left` what its source has still to deliver; `uploads` is the registry's | `HeadBlob`, `StartUpload`, `OpenPayload`, `ReadPiece`, `ReadEnd`, `TakeChunk`, `EndPayload`, `PatchUpload`, `FinishUpload`, `Except`; failures `HeadFails`, `RequestFails`, `StreamBreaks`, `FinishFails`, `LateFinish` |
| `PayloadStore` | the promise of an upload: contents are stored whole | `blobs`, `wanted`, `outcome`, `identity` | `Begin`, `Store`, `Succeed`, `Fail` |
| `OciMigration` | `export_logical`, `import_logical`, and puts of their own; extends `OciUpload` | `manifest` and `resolved` are locals of the resolution; `target` the versions at the target, `prior` those it had when the import began | `StartExport`, `GetManifest`, `GetConfig`, `GetAnchor`, `StartImport`, `CommitImport`, `StartPut`, `PutEnds` |
| `OciProbe` | `OciDistributionProbe` | `known` stands for the locals `anchor` and `version`, `checks` for the four flags; `canaries` is the registry's; `abandoned`, `unanswered`, `trouble` are history | one action per request: `Request`, `ListTags`, `PutManifest`, `PullManifest`, `ReadRange`, `GetReferrers`, `DeleteManifest`, `DeleteRefused`, `DeleteLost`, `NothingToDelete`, `RequestFails` |
| `OciMultipart` | the manager | the fields of `_MultipartState`, one function per field; the table; the threads' local variables | the steps of `upload_part`, `complete_multipart`, `abort_multipart` between which threads can interleave |
| `OciListing` | one inventory of many `list` calls | `window`, `rel`, `scanned`, `items` are locals of `_list`; `cursor` and `signedBy` are the cursor, `key` and `configured` the binding's signing key; `steady`, `delivered` are history | `ListTags`, `ScanTag`, `ReturnPage`; the caller: `Repeat`, `StartOver`; environment: `Change`, `RequestFails`, `Replace` |
| `OciRuntime` | `_Runtime` and `_Session` | `_adapter`, `_probe`, `_verified`, `_ca_directory`; adapters are numbered; `clients` are the open HTTP clients; `late` counts the requests a worker sends after its client was closed | `Open`, `ProbeStartup`, the five steps of `close`, `VerifyPhysical`, `VerifyRequests`; of `execute`: `FetchAdapter`, for each request `CheckClient`, `SendRequest`, `AnswerRequest`, and `ReportResult` |

`OciAdapter` extends `OciRegistry` and instantiates `ObjectCatalog` under a
refinement mapping; `OciUpload` does the same with `PayloadStore`, and
`OciMigration` extends it, so that its run and its proofs cover both.  `OciMultipart` represents the commit of `OciAdapter` by its
three possible outcomes; `OciRuntime` represents an operation by any number of requests
without content; `OciListing` represents put and delete by a tag that appears or
disappears; `OciMigration` represents the commit at the target by a version that
appears there or does not.  `OciAdapter` takes an upload as one step: what justifies
that is `StoreImplemented`.  `MC_*` modules give the request sets and symmetry of the runs,
`*_proofs` modules hold the theorems.

Abstractions common to all: a SHA-256 digest is represented by what it is the
digest of (no collisions); JSON, formatting and header details are left out; an
argument that validation rejects before any state is touched is no step; a step is a
request or a Python statement on shared state, and a single statement is atomic; operators
named `X_Something` directly before an operator `X`, and introduced by "Mutant of",
are plausible wrong versions of `X`, used to confirm that a property can fail.

## 3. Runs

| Run | Config | Checks | What it shows |
|---|---|---|---|
| commit | `MC_OciAdapter_commit` | `SafetyInv`, `LatestImpliesExact`, `CreateOnlyNeverReplaces`, `PutReturnsPublished`, `CatalogImplemented`, `OperationsReturn` | two threads, three calls out of retained, create-only, publish-once and rejected puts and deletes, with failures and crashes: every intermediate state of the commit is one a reader may see, and every operation returns and releases the lock |
| late | `MC_OciAdapter_late` | `TypeOK`, `PublishedVersionsComplete`, `ResolvedReadsComplete`, `StoredRetentionHonoured` | puts with no, dated and indefinite retention, deletes and unlocked reads, while time passes and writes that were given up on are applied later: what is published is complete; a version is unbound only when the retention it shows permits, and rebound only by a late PUT, to a manifest of the same version |
| http | `MC_HttpClient` | `TypeOK`, `AppliedAtMostOnce`, `WriteErrorsTruthful`, `CredentialsStayHome`, `PlainHttpContained`, `CallReturns` | all methods in any order, all refusals, all kinds of loss, success answers that do not match what was sent, three attempts, redirects and Locations to two hosts by https and http, three bindings |
| multipart | `MC_OciMultipart` | `TypeOK`, `PublishedPartsExactly`, `CleanEndPublishesNothing`, `PublishedContentStored`, `CallsReturn` | two threads and two sessions, one of which (`Exclusive`) is used by one thread at a time: what it publishes is exactly the recorded parts, and a clean end published nothing.  Of the shared one: what was published is stored, and nobody is stuck.  That a content is its parts in order is stated by the cuts between them (`Concatenation`), which the MC module compares with `FlattenSeq` |
| listing | `MC_OciListing` | `ListingInv`, `InventoryComplete`, `ReturnedOnce`, `CursorsSurvive`, `InventoryEnds` | all subsets of five tags, three changes, failures or replaced processes, with and without a configured key, windows cut by the client and by the registry |
| runtime | `MC_OciRuntime` | `RuntimeInv`, `ClosedLeavesNothing`, `SessionsVerified`, `OvertakenStops` | two openings, two sessions and two workers, request by request, against one lifecycle thread |
| migration | `MC_OciMigration` | `UploadsAccounted`, `ImportFaithful`, `OnlyTransientReplayed`, `StoreImplemented`, `CallsReturn` | puts of eight payloads, with right, wrong and no declarations, and exports of the latest or an exact version, each followed by an import: every cut of the stream, every failure, and final PUTs that arrive late |
| probe | `MC_OciProbe` | `ReportTruthful`, `FailuresExplained`, `CanariesAccounted`, `NoDanglingSubject`, `ProbeEnds` | both probes, all four bindings, all sixteen sets of registry features, every request failing or unanswered, three attempts per DELETE: what a report says, when it fails, and which canaries stay |

Four runs show that the code does something else than a document or message says:

| Run | Config | Violated | Finding |
|---|---|---|---|
| once | `MC_OciAdapter_once` | `ConflictMeansPublished` | a publish-once put that fails after `_ensure_anchor` leaves an anchor that blocks every later publish-once put with "logical Object id was already published" |
| intent | `MC_OciAdapter_intent` | `RetentionIntentRecorded` | a put of content that is stored already drops its own retention and succeeds; README.md:61 says the Adapter records retention intent |
| http_reads | `MC_HttpClient_reads` | `OnlyReadsRetried` | `abort_upload` and `delete_manifest` are retried; ARCHITECTURE.md:96 speaks of read-only requests. A delete whose answer was lost ends in ObjectNotFound |
| multipart_race | `MC_OciMultipart_race` | `PublishedLengthMatches` | completing a session while another thread uploads a part publishes a length that is not the content's; ARCHITECTURE.md:60 says the identity is checked |

Four more disagreements are met by the models and stated where they bite, without a
run of their own:

* *Plain http.*  ARCHITECTURE.md:91 says "HTTPS is mandatory unless loopback or another
  explicitly trusted HTTP endpoint is enabled".  The HTTP library follows redirects
  (`client.py` 407), and `_require_safe_response_url` (414) looks at the answer: a redirect
  to plain http at another host is requested, without credentials, and only its answer
  is refused (`test_transport_rejects_https_downgrade_redirects` shows it).  With a 307
  or 308 this goes for the body of a PUT or PATCH too.  `PlainHttpContained` states what
  the code keeps to: such a request is made by a redirect only, never for a Location of
  an upload, and nothing comes back from it but ObjectUnavailable.
* *Retries of definitive failures.*  ARCHITECTURE.md:98 says "Validation, digest, and
  authorization failures are never retried".  A 401, 403 or 400 whose body breaks off
  is tried again (`client.py` 436-441) and ends in ObjectUnavailable.  `ReceiveBody` does
  the same.
* *A hold that a late PUT removes.*  An unretained put gives up on the PUT of its version
  tag, a put of the same content with a retention or hold is published and answered,
  and then the first PUT arrives: the tag now shows the unretained manifest, and the version may
  be deleted.  README.md:61 says "enforces `retainUntil` before delete".
  `StoredRetentionHonoured` allows exactly this, with `LateWrites`, and nothing else; TLC
  finds the behaviour when the second disjunct is left out.
* *The intent of an import.*  docs/migration.md:22 says that an import "preserves ...
  immutability, and retention intent".  With `create_only=False`, onto a version that is
  there, it keeps the target's (`adapter.py` 301-305, the finding of the run intent).
  `ImportFaithful` requires the exported intent of every version that was not there.

### Bounds, and why they are enough

`MaxOps` bounds the calls, `MaxTime` the clock, `MaxChanges` the environment,
`MaxOpens` the openings.  The adapter serialises its writers, so that the
interesting conflicts are between two callers of one Object: one Object, two digests
(a version and a different one) and two threads give every pair of overlapping
operations, and the third call follows what a failed one left.  The
clock needs the values before and at the end of a retention.  The late run has one
digest: with late writes several manifests of the same version (different
creation times) already compete for its tags.  For multipart, parts of zero, one,
two and three chunks lie below, at and above `MinPart = PartSize = 2`, and
`MaxObject = 3` is reached by two parts.  For the listing, five tags and windows of
one and two make up to five calls per inventory.  For the
migration, `ChunkSize = 2` and `MaxObject = 3` with contents of zero, two, three and
four bytes: nothing, exactly a chunk, a chunk and a rest, and one over the limit; two
Objects, two anchors and two intents let every field of the source's answers be
wrong.  The client's four origins are the endpoint, another host, and plain http for
either.  The probe has no bound but its DELETE attempts.  What the bounds cannot show is
what the theorems of section 4 show without them.

Symmetry is used only in runs without liveness properties; the permuted sets
are not compared in any definition.

### Fairness

`FairSpec` of the adapter, the multipart manager, the probe and the HTTP client, and
the specification of the migration, assume weak fairness of a thread that is inside a call: the operating system runs it, and every
request ends because the client passes a timeout to httpx.  No fairness is
assumed of callers, of the environment or of any single outcome: a thread may
fail at every request.  Weak fairness of a thread waiting for the lock is enough in
these runs because the number of calls is bounded; under an endless stream of callers
Python's locks do not promise a turn.  The listing assumes that the caller goes
on until there is no cursor; the environment's
changes, failures and replaced processes are bounded.

## 4. Proofs

TLAPS checks these for every value of the constants, that is, for any
number of Objects, digests, threads, calls, tags, workers and openings.  An inductive
invariant is defined in the component's module, or, when no run and no other module uses it
(`CompletenessInv`, `MultipartInv`), beside its proof; TLC found these two to hold with the
constants of the late and multipart runs.

`OciAdapter_proofs`:

* `TypeCorrect`: `Spec => []TypeOK`, with and without late writes.  `TypeOK` is not
  inductive; `TypeInv` adds what a thread's step says of its request and manifest,
  and that tags and late writes are of their own kind.
* `SafetyInvariant`: `Spec => []SafetyInv`, under `~LateWrites`.  The argument is
  the lock's: only its holder writes (`LockHeld`), so what the holder has learnt from
  earlier requests still holds when it acts on it (`LockedKnowledge`).  For
  instance, past `RecheckCreate` a create-only put knows that the latest tag is
  unbound, and past `FindExact` any put that publishes knows that its version tag is.
  `TagsBound` says that a tag's manifest is stored and is about the tag's Object and
  digest.
* `LatestConsistent`, `CreateOnlyExclusive`, `PutPublishes`: the properties of the
  commit run, from that invariant.
* `AdapterImplementsCatalog`: `Spec => Catalog!Spec`.  `PutExact` is the step
  `Publish`, `PutLatest` is `Promote`, `DeleteManifest` is `Withdraw`, and every
  other step, failures and crashes included, is a stutter.

* `RetentionHonoured`: `Spec => StoredRetentionHonoured`, with and without late
  writes.  `RetentionInv` adds `DeletesPermitted` to the types: every DELETE that a
  thread has decided on, or that is on the wire after its caller gave up, is of an
  Object manifest whose retention permits it.  It stays so because the clock only
  moves forward and stored metadata never changes (`UnboundWhenPermitted`).  That a tag
  is rebound only to a manifest of its own version is `TagsWhole` of `CompletenessInv`
  (`ReboundToSameVersion`), and that without late writes it is not rebound at all comes from
  `VersionsImmutable` (`NeverRebound`).

* `VersionsComplete`, `ReadsComplete`: `PublishedVersionsComplete` and
  `ResolvedReadsComplete`, with and without late writes, from `CompletenessInvariant`.
  No lock is needed: a manifest is *whole* (`Whole`) when it is about the Object and its
  config, payload and anchor are in the registry, and because blobs and anchors are only
  ever added, what is whole stays whole whoever runs in between.  `CompletenessInv` says
  it of what the tags show (`TagsWhole`), of what a put has prepared or a reader holds
  (`Prepared`) and of what is on the wire (`LateWhole`).  A step that writes a tag takes
  its manifest from one of the last two.
* `VersionsImmutable`: under `~LateWrites`, no step replaces a published version, and a
  publish-once version appears only where none ever was.  It is read off the
  catalogue through `AdapterImplementsCatalog`'s step lemma, and says in the Adapter's own
  tags what the refinement is worth to a caller.

Where `~LateWrites` is assumed it is needed: a PUT that arrives after its caller has
gone moves a tag outside the lock, and `LatestImpliesExact` is then false.

`OciMultipart_proofs`: `MultipartInvariant`, `MultipartTypes`, `PartsExactly`, `CleanEnds`,
`ContentIsStored`, `CompletionsExclude`, for any sessions, threads, payloads and limits,
and any set of sessions that are not shared.  `MultipartInv` has three parts.  `TypeInv` says
that a call is about a session that was begun.  `ContentStored` holds of all sessions, shared
ones too: past its finish a completion commits a digest that the registry accepted.
`SessionInv` is about one unshared session: its only call (`Engaged`) has, in
`upload_part`, hashed the recorded parts followed by what it has read of the next one, with
`state.length` and the upload's offset one step behind (`Receiving`), and in
`complete_multipart` it carries the hash and length of exactly the recorded parts
(`Committing`); a session in the table without a call has hashed its parts (`Resting`).  The
frame lemmas `StepAboutOther` and `StartAboutOther` show that a step about one session
changes nothing `SessionInv` says of another, so that sessions shared by any number of
threads run beside it.  That a chunk hashed is a chunk of the last part is
`ConcatenationGrows`.  `CompletionsExclude` needs only the lock (`LockHeld`).

`OciListing_proofs`: `ListingInvariant`, `InventoryIsComplete`, `VersionsReturnedOnce`,
`CursorsAreKept`.  The invariant relates the cursor and the place of the scan to what
was returned and collected: steady versions up to the place are collected, those
beyond it are in the window or behind its end, and in the latter case `has_more` holds.
`KeyKept` adds that a configured key is the one every cursor is signed with.

`OciRuntime_proofs`: `RuntimeInvariant`, `CloseReleasesAll`, `OpenOrClosed`,
`SessionsNeedVerification`, `OvertakenOperationsStop`.  The invariant says that each
resource is held by the current adapter or by the `close` that is releasing it (`Held`),
and that a worker that has sent a request with a closed client is past its last one: the next
check of the client raises, because a closed client is never opened again (`Overtaken`).

`RegistryHttpClient_proofs`: `ClientInvariant`, `ClientTypes`, `WritesApplyOnce`,
`ErrorsAreTruthful`, `CredentialsKept`, `PlainHttpIsContained`, for any number of attempts,
any origins and any bindings.  `AppliedAtMostOnce` is not inductive: `Effects` adds that
a write that is sent once has had no effect before it is answered, and that a DELETE
which had its effect left nothing for its next attempt.  `Answers` says what the answer
to an applied write can be, from which the translation makes `ObjectUnavailable` or
success and the methods' own checks `DigestMismatch` or `IncompleteUpload`: a success answer that
identifies something else (`Mismatch`) leaves open whether the write was applied.
`Addressed` says that the Location a caller holds has passed the checks, `OnTheWire` what
redirects can have made of a request.  `CredentialsStayHome` is inductive because the HTTP
library drops the Authorization header at every change of origin but the one from http to
https of one host.  That the table of methods retries no write but DELETE is a lemma
(`TableWellFormed`), one case per method.

`OciUpload_proofs` and `OciMigration_proofs`: `UploadInvariant`, `MigrationInvariant`,
`UploadTypes`, `UploadsAreAccounted`, `TransientReplayed`, `StoreIsImplemented`,
`ImportIsFaithful`, for any bytes, chunk size, limit, contents, payloads and source
answers.  The invariant of the upload, `UploadInv`, has two parts: `Holding` (every open
upload is the one the call holds, or is accounted for) and `Streaming` (what was hashed,
what the reader holds and what the source has still to deliver are together one content
of the source, and a final PUT, late ones included, names only a content that the
declarations admit).  `MigrationInv` adds that what was resolved is one document about
the reference (`Resolved`), that the import uploads it (`Importing`) and that every
version at the target has its content (`TargetStored`).  `StoreIsImplemented` maps
`FinishUpload` and `LateFinish` to `Store` or `Succeed` and every other step to `Begin`,
`Fail` or a stutter.

`OciProbe_proofs`: `ProbeInvariant`, `ProbeTypes`, `ReportsAreTruthful`,
`FailuresAreExplained`, `CanariesAreAccounted`, `SubjectsKept`.  `CanaryInv` says that a
canary in the registry is either known to the probe, with its clean-up still to come, or
abandoned; `CheckInv` that the flags so far are what the registry provides, and that a canary
not yet deleted is there, unless its DELETE was applied and the answer lost.  From the
latter follows the one false alarm that `FailuresExplained` allows: the retry of that
DELETE is answered 404 and deletion, nothing else, is reported as missing.

Only model-checked: the liveness properties `OperationsReturn`, `CallReturns`, `CallsReturn`
(of the multipart manager and of the migration), `InventoryEnds` and `ProbeEnds`, because the
prover handles neither fairness nor ENABLED.  Every other property of a passing run is a
theorem.

## 5. Not modelled, and why

* Binding, capabilities, canonical documents, naming and `OciAdapterFactory.create`: pure
  functions of frozen values.  The factory has no setting for the cursor key, so that
  the adapters it makes are the unconfigured ones of `OciListing`.
* The encoding of cursors and their HMAC: a cursor is the tag and the key.
* The URLs of requests beyond their origin, and their headers but for Authorization.  Of
  the HTTP library: what a redirect does to a request, that a closed client refuses
  to send, and that waits end, as the code relies on them.
* `IteratorReader.read(-1)`, and the streaming body of get at its consumer: the reads of
  `OciAdapter` end when the metadata is verified.
* Registry garbage collection and immutable-tag policies: external.  ARCHITECTURE.md
  leaves them to the deployment.
* Expiry of idle multipart sessions: no code does it.
* Release scripts and examples.

## 6. Plan

Done: the data plane, its promise and its proof; the client, the multipart manager,
the inventory and the runtime; then cursors, the payload upload and its promise, the
migration, the probe, and the client's responses and Locations; the proofs of every safety
property that the runs check.

Next, in this order:

1. Multipart completion composed with the commit steps of `OciAdapter`, instead of
   its three outcomes, under the shared `_write_lock`.
2. Several lifecycle threads on one runtime: `open`, `verify_physical` and `close`
   take no lock, and nothing says whether Core calls them from one thread.
