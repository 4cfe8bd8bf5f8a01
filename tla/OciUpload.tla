------------------------------ MODULE OciUpload ------------------------------
(***************************************************************************)
(* How a payload becomes a blob: _upload_payload of the Adapter, which     *)
(* streams a payload through a resumable upload and may start over once,   *)
(* and upload_blob_bytes of the client, which sends a short document.      *)
(* One call: each of its requests may fail, or be applied although the     *)
(* caller is told that it failed, even after the caller has gone on.       *)
(*                                                                         *)
(* Content is a sequence of bytes; a SHA-256 digest is represented by the  *)
(* content it is the digest of.                                            *)
(***************************************************************************)
EXTENDS Naturals, Sequences

CONSTANTS
    Bytes,
    Contents,      \* what payload sources may deliver
    Payloads,      \* what callers put
    Stores,        \* what earlier calls may have stored: sets of contents
    ChunkSize,     \* binding.chunk_size
    MaxObject,     \* binding.max_object_bytes
    None

\* A payload: a short document (bytes) or a stream, what its source may deliver,
\* whether it can be opened again, and its declared length and digest.
PayloadType ==
    [bytes : BOOLEAN, offers : SUBSET Contents, replayable : BOOLEAN,
     length : Nat \cup {None}, digest : Contents \cup {None}]

Document(d) ==
    [bytes |-> TRUE, offers |-> {d}, replayable |-> FALSE, length |-> None, digest |-> d]

ASSUME SizesAssumption == ChunkSize \in Nat \ {0} /\ MaxObject \in Nat
ASSUME ContentsAssumption ==
    /\ Contents \subseteq Seq(Bytes) /\ Stores \subseteq SUBSET Contents
    /\ None \notin Seq(Bytes) \cup Nat
ASSUME PayloadsAssumption ==
    \A p \in Payloads :
        p \in PayloadType /\ (p.bytes => \E d \in Contents : p = Document(d))

VARIABLES
    pc,            \* the next step of the call
    payload,       \* its argument
    attempt,       \* of the loop of _upload_payload, from 1
    existing,      \* the size HEAD answered for the declared digest, or None
    upload,        \* the UploadLocation it holds, or None; uploads are numbered by attempt
    hasher,        \* the content hashed so far
    chunk,         \* the chunk being sent
    buffer, ended, \* of the IteratorReader
    left,          \* what the source has still to deliver
    error,         \* class of the exception being handled
    blobs,         \* registry: stored contents
    uploads,       \* registry: data of the open uploads, None for the others
    late,          \* final PUTs that were given up on and are still on their way
    abandoned      \* history: uploads nobody holds or whose abort failed

locals == <<payload, attempt, existing, upload, hasher, chunk, buffer, ended, left>>
registry == <<blobs, uploads, late, abandoned>>
vars == <<pc, locals, error, registry>>

\* Object Common errors that the loop of _upload_payload retries, and the others.
Transient == {"Unavailable", "RateLimited"}
Errors == Transient \cup {"Other"}

Init ==
    /\ pc = "idle" /\ payload = None /\ attempt = 0
    /\ existing = None /\ upload = None
    /\ hasher = <<>> /\ chunk = <<>> /\ buffer = <<>> /\ ended = FALSE /\ left = <<>>
    /\ error = "none"
    /\ blobs \in Stores
    /\ uploads = [i \in 1 .. 2 |-> None] /\ late = {} /\ abandoned = {}

attempts == IF payload.replayable THEN 2 ELSE 1

\* upload_blob_bytes hashes its argument first.
Begin(p) ==
    /\ pc = "idle" /\ pc' = "head"
    /\ payload' = p /\ attempt' = 1
    /\ hasher' = IF p.bytes THEN p.digest ELSE <<>>
    /\ UNCHANGED <<existing, upload, chunk, buffer, ended, left, error, registry>>

Raise(e) == pc' = "except" /\ error' = e

-----------------------------------------------------------------------------
(* HEAD of the declared digest, and POST                                   *)

\* The size is what the registry or a proxy answers.
HeadBlob ==
    /\ pc = "head"
    /\ \/ /\ payload.digest = None \/ payload.digest \notin blobs
          /\ existing' = None /\ pc' = "start"
       \/ /\ payload.digest # None /\ payload.digest \in blobs
          /\ existing' \in {Len(payload.digest), Len(payload.digest) + 1}
          /\ pc' = IF ~payload.bytes THEN "open"
                   ELSE IF existing' = Len(payload.digest) THEN "returned" ELSE "raised"
    /\ UNCHANGED <<payload, attempt, upload, hasher, chunk, buffer, ended, left, error, registry>>

\* The HEAD is outside the try statement: its failure is never retried.
HeadFails ==
    /\ pc = "head" /\ payload.digest # None
    /\ pc' = "raised"
    /\ UNCHANGED <<locals, error, registry>>

\* The answer may be lost, or have no acceptable Location (_location).
StartUpload ==
    /\ pc = "start"
    /\ uploads' = [uploads EXCEPT ![attempt] = <<>>]
    /\ \/ /\ upload' = attempt
          /\ pc' = IF payload.bytes THEN "finish" ELSE "open"
          /\ UNCHANGED <<error, abandoned>>
       \/ /\ Raise("Unavailable")
          /\ abandoned' = abandoned \cup {attempt}
          /\ UNCHANGED upload
    /\ UNCHANGED <<payload, attempt, existing, hasher, chunk, buffer, ended, left, blobs, late>>

\* A request, or the opening of the payload, fails without effect.
RequestFails ==
    /\ pc \in {"start", "open", "patch"}
    /\ \E e \in Errors : Raise(e)
    /\ UNCHANGED <<locals, registry>>

-----------------------------------------------------------------------------
(* The payload stream: IteratorReader.read(ChunkSize), called until it     *)
(* returns nothing                                                         *)

OpenPayload ==
    /\ pc = "open" /\ pc' = "read"
    /\ left' \in payload.offers /\ buffer' = <<>> /\ ended' = FALSE
    /\ UNCHANGED <<payload, attempt, existing, upload, hasher, chunk, error, registry>>

Reading == pc = "read" /\ Len(buffer) < ChunkSize /\ ~ended

\* The network cuts the body into pieces of any length.
ReadPiece ==
    /\ Reading
    /\ \E n \in 1 .. Len(left) :
          /\ buffer' = buffer \o SubSeq(left, 1, n)
          /\ left' = SubSeq(left, n + 1, Len(left))
    /\ UNCHANGED <<pc, payload, attempt, existing, upload, hasher, chunk, ended, error, registry>>

ReadEnd ==
    /\ Reading /\ left = <<>>
    /\ ended' = TRUE
    /\ UNCHANGED <<pc, payload, attempt, existing, upload, hasher, chunk, buffer, left, error, registry>>

\* The body breaks off: an httpx exception, which is no Object Common error.
StreamBreaks ==
    /\ Reading
    /\ Raise("Other")
    /\ UNCHANGED <<locals, registry>>

\* Mutant of verify_identity: a declared length is enough.
verify_identity_LengthOnly(p, d) ==
    IF p.length # None THEN Len(d) = p.length ELSE p.digest # None => d = p.digest

\* _verify_identity
verify_identity(p, d) ==
    /\ p.length # None => Len(d) = p.length
    /\ p.digest # None => d = p.digest

ReadReturns == pc = "read" /\ (Len(buffer) >= ChunkSize \/ ended)
Shorter(a, b) == IF a < b THEN a ELSE b

\* A chunk: the limits, the hash, and the PATCH unless the blob exists already.
TakeChunk ==
    LET n == Shorter(ChunkSize, Len(buffer))
        length == Len(hasher) + n
    IN
    /\ ReadReturns /\ n > 0
    /\ IF length > MaxObject \/ (payload.length # None /\ length > payload.length)
       THEN Raise("Other") /\ UNCHANGED <<hasher, chunk, buffer>>
       ELSE /\ chunk' = SubSeq(buffer, 1, n)
            /\ buffer' = SubSeq(buffer, n + 1, Len(buffer))
            /\ hasher' = hasher \o chunk'
            /\ pc' = IF upload # None THEN "patch" ELSE "read"
            /\ UNCHANGED error
    /\ UNCHANGED <<payload, attempt, existing, upload, ended, left, registry>>

\* Nothing is left: the identity must be the declared one, and the length that
\* of the blob that exists already.
EndPayload ==
    /\ ReadReturns /\ buffer = <<>>
    /\ IF verify_identity(payload, hasher) /\ existing \in {None, Len(hasher)}
       THEN pc' = (IF existing = None THEN "finish" ELSE "returned") /\ UNCHANGED error
       ELSE Raise("Other")
    /\ UNCHANGED <<locals, registry>>

-----------------------------------------------------------------------------
(* PATCH and the final PUT                                                 *)

\* Applied at the end of an open upload only.  The answer may be lost, or
\* acknowledge another range.
PatchUpload ==
    /\ pc = "patch"
    /\ uploads[upload] # None /\ Len(uploads[upload]) = Len(hasher) - Len(chunk)
    /\ uploads' = [uploads EXCEPT ![upload] = @ \o chunk]
    /\ \/ pc' = "read" /\ UNCHANGED error
       \/ \E e \in {"Unavailable", "Other"} : Raise(e)
    /\ UNCHANGED <<locals, blobs, late, abandoned>>

\* The final PUT: upload_blob_bytes sends the content with it.
FinalPut == [id |-> upload, body |-> IF payload.bytes THEN hasher ELSE <<>>, digest |-> hasher]

\* The registry compares the content with the digest, and closes the upload.
Finalises(put) ==
    /\ uploads[put.id] # None
    /\ uploads[put.id] \o put.body = put.digest
    /\ blobs' = blobs \cup {put.digest}
    /\ uploads' = [uploads EXCEPT ![put.id] = None]

\* The answer may be lost, or name another digest.
FinishUpload ==
    /\ pc = "finish"
    /\ Finalises(FinalPut)
    /\ \/ pc' = "returned" /\ UNCHANGED error
       \/ \E e \in {"Unavailable", "Other"} : Raise(e)
    /\ UNCHANGED <<locals, late, abandoned>>

\* Refused, lost, or given up on: the request may still arrive.
FinishFails ==
    /\ pc = "finish"
    /\ \E e \in Errors :
          /\ Raise(e)
          /\ late' = late \/ (e = "Unavailable" /\ late' = late \cup {FinalPut})
    /\ UNCHANGED <<locals, blobs, uploads, abandoned>>

LateFinish == \E put \in late :
    /\ late' = late \ {put}
    /\ Finalises(put) \/ UNCHANGED <<blobs, uploads>>
    /\ UNCHANGED <<pc, locals, error, abandoned>>

-----------------------------------------------------------------------------
(* The except clauses                                                      *)

\* Mutant of AbortUpload: only a call that is tried again aborts its upload.
AbortUpload_RetryOnly ==
    IF upload # None /\ error \in Transient
    THEN \/ uploads' = [uploads EXCEPT ![upload] = None] /\ UNCHANGED abandoned
         \/ abandoned' = abandoned \cup {upload} /\ UNCHANGED uploads
    ELSE UNCHANGED <<uploads, abandoned>>

\* _abort_safely: the DELETE may fail, silently.
AbortUpload ==
    IF upload # None
    THEN \/ uploads' = [uploads EXCEPT ![upload] = None] /\ UNCHANGED abandoned
         \/ abandoned' = abandoned \cup {upload} /\ UNCHANGED uploads
    ELSE UNCHANGED <<uploads, abandoned>>

\* Mutant of Retries: whatever failed is tried again.
Retries_All == attempt < attempts

Retries == error \in Transient /\ attempt < attempts

\* Mutant of Except: the next attempt is not counted.
Except_Uncounted ==
    /\ pc = "except"
    /\ AbortUpload
    /\ IF Retries
       THEN pc' = "head" /\ existing' = None /\ upload' = None /\ hasher' = <<>>
       ELSE pc' = "raised" /\ UNCHANGED <<existing, upload, hasher>>
    /\ UNCHANGED <<payload, attempt, chunk, buffer, ended, left, error, blobs, late>>

Except ==
    /\ pc = "except"
    /\ AbortUpload
    /\ IF Retries
       THEN /\ pc' = "head" /\ attempt' = attempt + 1
            /\ existing' = None /\ upload' = None /\ hasher' = <<>>
       ELSE pc' = "raised" /\ UNCHANGED <<attempt, existing, upload, hasher>>
    /\ UNCHANGED <<payload, chunk, buffer, ended, left, error, blobs, late>>

-----------------------------------------------------------------------------
CallStep ==
    \/ HeadBlob \/ HeadFails \/ StartUpload \/ RequestFails
    \/ OpenPayload \/ ReadPiece \/ ReadEnd \/ StreamBreaks \/ TakeChunk \/ EndPayload
    \/ PatchUpload \/ FinishUpload \/ FinishFails \/ Except

Over == pc \in {"returned", "raised"}

Next == (\E p \in Payloads : Begin(p)) \/ CallStep \/ LateFinish

Spec == Init /\ [][Next]_vars

-----------------------------------------------------------------------------
(* Properties                                                              *)

TypeOK ==
    /\ pc \in {"idle", "head", "start", "open", "read", "patch", "finish", "except",
               "returned", "raised"}
    /\ payload \in PayloadType \cup {None}
    /\ attempt \in 0 .. 2 /\ existing \in Nat \cup {None} /\ upload \in {1, 2, None}
    /\ hasher \in Seq(Bytes) /\ chunk \in Seq(Bytes) /\ buffer \in Seq(Bytes) /\ left \in Seq(Bytes)
    /\ ended \in BOOLEAN /\ error \in Errors \cup {"none"}
    /\ blobs \subseteq Contents
    /\ uploads \in [1 .. 2 -> Seq(Bytes) \cup {None}]
    /\ late \subseteq [id : {1, 2}, body : Seq(Bytes), digest : Seq(Bytes)]
    /\ abandoned \subseteq {1, 2}

\* A call leaves no open upload behind, but for one whose POST was not answered
\* or whose DELETE failed: every exception, of the registry, of the payload source
\* or of a check, reaches _abort_safely.
UploadsAccounted ==
    Over => \A i \in 1 .. 2 : uploads[i] # None => i \in abandoned

\* "A streaming put is retried only when the payload source is replayable and
\* the failure is a stable transient Object error" (ARCHITECTURE.md): whatever
\* was raised where, and whether or not the upload could be aborted.
OnlyTransientReplayed ==
    [][attempt > 0 /\ attempt' # attempt => payload.replayable /\ error \in Transient]_vars

\* What the size limit and the payload's declarations admit.
Admissible(p, d) ==
    /\ p.length \in {None, Len(d)} /\ p.digest \in {None, d}
    /\ ~p.bytes => Len(d) <= MaxObject

\* The upload refines PayloadStore: what the registry stores, by this call's
\* requests or by those that arrive late, is a whole content that the source
\* delivered and that the declarations and the limit admit, never a part of one;
\* and an identity is returned only for a content that is stored.
Store == INSTANCE PayloadStore WITH
    wanted <- IF pc = "idle" THEN {} ELSE {d \in payload.offers : Admissible(payload, d)},
    outcome <- CASE pc = "returned" -> "returned" [] pc = "raised" -> "failed" [] OTHER -> "none",
    identity <- IF pc = "returned" THEN hasher ELSE None

StoreImplemented == Store!Spec

-----------------------------------------------------------------------------
(* Inductive invariant                                                     *)

\* What the call holds at each step: an upload of this attempt from its start on,
\* unless the blob exists already.
Holding ==
    /\ upload \in {None, attempt}
    /\ existing # None => payload.digest \in blobs
    /\ pc = "idle" => late = {} /\ upload = None /\ attempt = 0
    /\ pc # "idle" =>
          payload \in PayloadType /\ attempt > 0 /\ (payload.bytes => ~payload.replayable)
    /\ pc \in {"head", "start"} => upload = None
    /\ pc \in {"idle", "start"} => existing = None
    /\ pc \in {"open", "read", "patch"} => ~payload.bytes /\ (existing = None <=> upload # None)
    /\ pc \in {"patch", "finish"} => upload # None
    /\ \A i \in 1 .. 2 : uploads[i] # None => i \in abandoned \/ (i = upload /\ ~Over)

Wanted(d) == d \in payload.offers /\ Admissible(payload, d)

\* Where the content is: hashed, in the reader, or still to be delivered.
Streaming ==
    /\ (pc \in {"head", "start"} /\ payload.bytes) => hasher = payload.digest /\ Wanted(hasher)
    /\ (pc \in {"head", "start"} /\ ~payload.bytes) => hasher = <<>>
    /\ pc = "open" => hasher = <<>>
    /\ pc \in {"read", "patch"} =>
          /\ hasher \o (buffer \o left) \in payload.offers
          /\ ended => left = <<>>
          /\ Len(hasher) <= MaxObject
    /\ pc \in {"finish", "returned"} => Wanted(hasher)
    /\ pc = "returned" => hasher \in blobs
    /\ \A put \in late : Wanted(put.digest)

\* The inductive invariant behind UploadsAccounted and StoreImplemented.
UploadInv == TypeOK /\ Holding /\ Streaming

=============================================================================
