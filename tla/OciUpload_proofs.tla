--------------------------- MODULE OciUpload_proofs ---------------------------
(***************************************************************************)
(* For every payload, chunk size and size limit: an upload stores whole    *)
(* contents only (PayloadStore), leaves no upload that is not accounted    *)
(* for, and starts over only after a transient error.                      *)
(***************************************************************************)
EXTENDS OciUpload, SequenceTheorems, TLAPS

-----------------------------------------------------------------------------
(* The data                                                                *)

\* Cutting a sequence in two loses nothing (IteratorReader.read).
LEMMA Cut ==
    ASSUME NEW s \in Seq(Bytes), NEW n \in 0 .. Len(s)
    PROVE  /\ SubSeq(s, 1, n) \in Seq(Bytes) /\ SubSeq(s, n + 1, Len(s)) \in Seq(Bytes)
           /\ Len(SubSeq(s, 1, n)) = n
           /\ SubSeq(s, 1, n) \o SubSeq(s, n + 1, Len(s)) = s
<1>1. Len(s) \in Nat /\ \A i \in 1 .. Len(s) : s[i] \in Bytes
  BY LenProperties, ElementOfSeq
<1>2. /\ SubSeq(s, 1, n) \in Seq(Bytes) /\ Len(SubSeq(s, 1, n)) = n
      /\ SubSeq(s, n + 1, Len(s)) \in Seq(Bytes)
  <2>1. \A i \in 1 .. n : s[i] \in Bytes
    BY <1>1
  <2>2. \A i \in n + 1 .. Len(s) : s[i] \in Bytes
    BY <1>1
  <2>3. /\ SubSeq(s, 1, n) \in Seq(Bytes)
        /\ Len(SubSeq(s, 1, n)) = IF 1 <= n THEN n - 1 + 1 ELSE 0
    BY <1>1, <2>1, SubSeqProperties, 1 \in Int, n \in Int
  <2>4. SubSeq(s, n + 1, Len(s)) \in Seq(Bytes)
    BY <1>1, <2>2, SubSeqProperties, n + 1 \in Int, Len(s) \in Int
  <2> QED BY <1>1, <2>3, <2>4
<1>3. 1 \in 1 .. Len(s) + 1 /\ n \in 1 - 1 .. Len(s) /\ Len(s) \in n .. Len(s)
  BY <1>1
<1>4. SubSeq(s, 1, n) \o SubSeq(s, n + 1, Len(s)) = SubSeq(s, 1, Len(s))
  BY <1>3, ConcatAdjacentSubSeq, Zenon
<1> QED BY <1>2, <1>4, SubSeqFull

LEMMA Associative ==
    ASSUME NEW b \in Seq(Bytes), NEW x \in Seq(Bytes), NEW y \in Seq(Bytes)
    PROVE  (b \o x) \o y = b \o (x \o y)
<1> QED OBVIOUS

\* Declared contents are sequences, and None is no content, length or upload.
LEMMA PayloadFacts ==
    ASSUME NEW p \in PayloadType
    PROVE  /\ p.offers \subseteq Contents /\ p.offers \subseteq Seq(Bytes)
           /\ p.digest \in Contents \cup {None} /\ p.length \in Nat \cup {None}
           /\ p.bytes \in BOOLEAN /\ p.replayable \in BOOLEAN
<1> QED BY ContentsAssumption DEF PayloadType

LEMMA ContentFacts ==
    /\ Contents \subseteq Seq(Bytes) /\ None \notin Contents /\ None \notin Nat
    /\ \A d \in Contents : Len(d) \in Nat
<1> QED BY ContentsAssumption, LenProperties

\* A document is the payload that upload_blob_bytes sends.
LEMMA DocumentFacts ==
    ASSUME NEW p \in PayloadType, NEW d \in Contents, p = Document(d)
    PROVE  p.digest \in p.offers /\ p.bytes /\ ~p.replayable /\ p.length = None
<1> QED BY DEF Document

-----------------------------------------------------------------------------
(* The invariant                                                           *)

LEMMA UploadInit == Init => UploadInv
<1> SUFFICES ASSUME Init PROVE UploadInv
  OBVIOUS
<1>1. <<>> \in Seq(Bytes)
  BY EmptySeq
<1>2. TypeOK
  <2>1. uploads \in [1 .. 2 -> Seq(Bytes) \cup {None}] /\ blobs \subseteq Contents
    BY ContentsAssumption DEF Init
  <2>2. pc \in {"idle"} /\ attempt \in 0 .. 2 /\ late = {} /\ abandoned = {}
    BY DEF Init
  <2>3. /\ hasher \in Seq(Bytes) /\ chunk \in Seq(Bytes) /\ buffer \in Seq(Bytes)
        /\ left \in Seq(Bytes) /\ ended \in BOOLEAN
    BY <1>1 DEF Init
  <2>4. payload = None /\ existing = None /\ upload = None /\ error = "none"
    BY DEF Init
  <2> QED BY <2>1, <2>2, <2>3, <2>4, Zenon DEF TypeOK
<1>3. Holding
  BY DEF Init, Holding
<1>4. Streaming
  BY DEF Init, Streaming
<1> QED BY <1>2, <1>3, <1>4 DEF UploadInv

\* The payloads a call may begin with: streams and documents.
CallPayload(p) == p \in PayloadType /\ (p.bytes => \E d \in Contents : p = Document(d))

LEMMA BeginStep == ASSUME UploadInv, NEW p, CallPayload(p), Begin(p) PROVE UploadInv'
<1> USE DEF Begin, registry
<1>1. p \in PayloadType /\ (p.bytes => p.digest \in p.offers /\ ~p.replayable /\ p.length = None)
  BY DocumentFacts DEF CallPayload
<1>2. p.digest \in Contents \cup {None} /\ p.offers \subseteq Contents
  BY <1>1, PayloadFacts
<1>3. p.bytes => p.digest \in Contents
  BY <1>1, <1>2
<1>4. hasher' \in Seq(Bytes)
  BY <1>3, ContentFacts, EmptySeq
<1>5. TypeOK'
  BY <1>1, <1>4 DEF UploadInv, TypeOK
<1>6. Holding'
  BY <1>1, ContentFacts DEF UploadInv, TypeOK, Holding, Over
<1>7. p.bytes => Admissible(p, p.digest)
  BY <1>1 DEF Admissible
<1>8. Streaming'
  BY <1>1, <1>7 DEF UploadInv, Holding, Streaming, Wanted
<1> QED BY <1>5, <1>6, <1>8 DEF UploadInv

\* What the invariant says of a call that has begun.
LEMMA Begun ==
    ASSUME UploadInv, pc # "idle"
    PROVE  /\ payload \in PayloadType /\ attempt \in {1, 2} /\ upload \in {None, attempt}
           /\ payload.offers \subseteq Contents /\ payload.digest \in Contents \cup {None}
           /\ payload.length \in Nat \cup {None} /\ payload.bytes \in BOOLEAN
           /\ None \notin {1, 2} /\ hasher \in Seq(Bytes) /\ Len(hasher) \in Nat
<1> QED BY PayloadFacts, ContentFacts, LenProperties DEF UploadInv, TypeOK, Holding

LEMMA HeadStep == ASSUME UploadInv, HeadBlob \/ HeadFails PROVE UploadInv'
<1> USE Begun, ContentFacts
<1>1. CASE HeadFails
  <2>1. TypeOK'
    BY <1>1 DEF UploadInv, HeadFails, TypeOK, locals, registry
  <2>2. Holding' /\ Streaming'
    BY <1>1 DEF UploadInv, HeadFails, Holding, Streaming, Wanted, locals, registry, Over
  <2> QED BY <2>1, <2>2 DEF UploadInv
<1>2. CASE HeadBlob
  <2>1. TypeOK'
    BY <1>2 DEF UploadInv, HeadBlob, TypeOK, registry
  <2>2. Holding'
    BY <1>2 DEF UploadInv, HeadBlob, TypeOK, Holding, registry, Over
  <2>3. Streaming'
    BY <1>2 DEF UploadInv, HeadBlob, TypeOK, Streaming, Wanted, registry
  <2> QED BY <2>1, <2>2, <2>3 DEF UploadInv
<1> QED BY <1>1, <1>2

LEMMA StartUploadStep == ASSUME UploadInv, StartUpload PROVE UploadInv'
<1> USE Begun, ContentFacts, EmptySeq DEF StartUpload, Raise
<1>1. TypeOK'
  BY DEF UploadInv, TypeOK, Errors, Transient
<1>2. Holding'
  BY DEF UploadInv, TypeOK, Holding, Over
<1>3. Streaming'
  BY DEF UploadInv, TypeOK, Streaming, Wanted
<1> QED BY <1>1, <1>2, <1>3 DEF UploadInv

\* Requests and streams that fail change nothing but where the call goes on.
LEMMA FailureSteps == ASSUME UploadInv, RequestFails \/ StreamBreaks PROVE UploadInv'
<1> USE DEF RequestFails, StreamBreaks, Reading, Raise, locals, registry
<1>1. TypeOK'
  BY DEF UploadInv, TypeOK, Errors, Transient
<1>2. Holding' /\ Streaming'
  BY DEF UploadInv, TypeOK, Holding, Streaming, Wanted, Over
<1> QED BY <1>1, <1>2 DEF UploadInv

LEMMA OpenPayloadStep == ASSUME UploadInv, OpenPayload PROVE UploadInv'
<1> USE Begun, ContentFacts DEF OpenPayload, registry
<1>1. /\ left' \in payload.offers /\ left' \in Seq(Bytes) /\ <<>> \in Seq(Bytes)
      /\ hasher = <<>> /\ buffer' = <<>> /\ MaxObject \in Nat
  BY EmptySeq, SizesAssumption DEF UploadInv, Streaming
<1>2. <<>> \o (<<>> \o left') = left'
  BY <1>1, ConcatEmptySeq
<1>3. TypeOK'
  BY <1>1 DEF UploadInv, TypeOK
<1>4. Holding'
  BY DEF UploadInv, TypeOK, Holding, Over
<1>5. Len(<<>>) <= MaxObject
  BY <1>1, EmptySeq
<1>6. Streaming'
  BY <1>1, <1>2, <1>5 DEF UploadInv, Streaming, Wanted
<1> QED BY <1>3, <1>4, <1>6 DEF UploadInv

LEMMA ReadStep == ASSUME UploadInv, ReadPiece \/ ReadEnd PROVE UploadInv'
<1> USE DEF Reading, registry
<1>1. CASE ReadPiece
  <2>1. PICK n \in 1 .. Len(left) :
            /\ buffer' = buffer \o SubSeq(left, 1, n)
            /\ left' = SubSeq(left, n + 1, Len(left))
    BY <1>1 DEF ReadPiece
  <2> DEFINE first == SubSeq(left, 1, n)
             rest == SubSeq(left, n + 1, Len(left))
  <2>2. left \in Seq(Bytes) /\ buffer \in Seq(Bytes) /\ n \in 0 .. Len(left)
    BY <2>1, LenProperties DEF UploadInv, TypeOK
  <2>3. first \in Seq(Bytes) /\ rest \in Seq(Bytes) /\ left = first \o rest
    BY <2>2, Cut
  <2>4. buffer' = buffer \o first /\ left' = rest
    BY <2>1
  <2> HIDE DEF first, rest
  <2>5. buffer' \in Seq(Bytes) /\ left' \in Seq(Bytes) /\ buffer' \o left' = buffer \o left
    <3>1. buffer \o first \in Seq(Bytes)
      BY <2>2, <2>3, ConcatProperties
    <3>2. (buffer \o first) \o rest = buffer \o (first \o rest)
      BY <2>2, <2>3, Associative
    <3> QED BY <2>3, <2>4, <3>1, <3>2, Zenon
  <2>6. TypeOK'
    BY <1>1, <2>5 DEF ReadPiece, UploadInv, TypeOK
  <2>7. Holding'
    BY <1>1 DEF ReadPiece, UploadInv, Holding, Over
  <2>8. Streaming'
    BY <1>1, <2>5 DEF ReadPiece, UploadInv, Streaming, Wanted
  <2> QED BY <2>6, <2>7, <2>8 DEF UploadInv
<1>2. CASE ReadEnd
  <2>1. TypeOK'
    BY <1>2 DEF ReadEnd, UploadInv, TypeOK
  <2>2. Holding' /\ Streaming'
    BY <1>2 DEF ReadEnd, UploadInv, Holding, Streaming, Wanted, Over
  <2> QED BY <2>1, <2>2 DEF UploadInv
<1> QED BY <1>1, <1>2

\* A chunk moves from the reader to the hash.
LEMMA TakeChunkStep == ASSUME UploadInv, TakeChunk PROVE UploadInv'
<1> DEFINE n == Shorter(ChunkSize, Len(buffer))
           length == Len(hasher) + n
           first == SubSeq(buffer, 1, n)
           rest == SubSeq(buffer, n + 1, Len(buffer))
           Refused == length > MaxObject \/ (payload.length # None /\ length > payload.length)
<1>1. /\ hasher \in Seq(Bytes) /\ buffer \in Seq(Bytes) /\ left \in Seq(Bytes) /\ pc = "read"
      /\ Len(hasher) \in Nat /\ ChunkSize \in Nat /\ MaxObject \in Nat
      /\ n \in 0 .. Len(buffer)
  BY LenProperties, SizesAssumption DEF UploadInv, TypeOK, TakeChunk, ReadReturns, Shorter
<1>2. /\ first \in Seq(Bytes) /\ rest \in Seq(Bytes) /\ Len(first) = n
      /\ buffer = first \o rest
  BY <1>1, Cut
<1>3. CASE Refused
  <2>1. Raise("Other") /\ UNCHANGED <<locals, registry>>
    BY <1>3 DEF TakeChunk, locals
  <2>2. TypeOK'
    BY <1>1, <2>1 DEF UploadInv, TypeOK, Raise, Errors, locals, registry
  <2>3. Holding' /\ Streaming'
    BY <1>1, <2>1 DEF UploadInv, Holding, Streaming, Wanted, Over, Raise, locals, registry
  <2> QED BY <2>2, <2>3 DEF UploadInv
<1>4. CASE ~Refused
  <2>1. /\ chunk' = first /\ buffer' = rest /\ hasher' = hasher \o chunk'
        /\ pc' = (IF upload # None THEN "patch" ELSE "read")
        /\ length <= MaxObject
        /\ UNCHANGED <<payload, attempt, existing, upload, ended, left, error, registry>>
    BY <1>1, <1>4 DEF TakeChunk
  <2> HIDE DEF first, rest
  <2>2. hasher' \in Seq(Bytes) /\ chunk' \in Seq(Bytes) /\ buffer' \in Seq(Bytes)
    BY <1>1, <1>2, <2>1, ConcatProperties
  <2>3. Len(hasher') <= MaxObject
    <3>1. Len(hasher \o first) = Len(hasher) + n
      BY <1>1, <1>2, ConcatProperties
    <3> QED BY <2>1, <3>1
  <2>4. hasher' \o (buffer' \o left') = hasher \o (buffer \o left)
    <3>1. rest \o left \in Seq(Bytes)
      BY <1>1, <1>2, ConcatProperties
    <3> DEFINE tail == rest \o left
    <3>2. (hasher \o first) \o tail = hasher \o (first \o tail)
      <4>1. hasher \in Seq(Bytes) /\ first \in Seq(Bytes) /\ tail \in Seq(Bytes)
        BY <1>1, <1>2, <3>1
      <4> HIDE DEF tail
      <4> QED BY <4>1, Associative
    <3>3. (first \o rest) \o left = first \o (rest \o left)
      BY <1>1, <1>2, Associative
    <3> QED BY <1>2, <2>1, <3>2, <3>3, Zenon
  <2>5. TypeOK'
    BY <2>1, <2>2 DEF UploadInv, TypeOK, registry
  <2>6. Holding'
    BY <1>1, <2>1 DEF UploadInv, Holding, Over, registry
  <2>7. Streaming'
    BY <1>1, <2>1, <2>3, <2>4 DEF UploadInv, Streaming, Wanted, registry
  <2> QED BY <2>5, <2>6, <2>7 DEF UploadInv
<1> QED BY <1>3, <1>4

\* When the reader is empty, the hash covers a whole content of the source.
LEMMA EndPayloadStep == ASSUME UploadInv, EndPayload PROVE UploadInv'
<1>1. /\ hasher \in Seq(Bytes) /\ pc = "read" /\ buffer = <<>> /\ Len(hasher) \in Nat
      /\ payload \in PayloadType /\ ~payload.bytes /\ Len(hasher) <= MaxObject
      /\ hasher \o (buffer \o left) \in payload.offers
  BY LenProperties DEF UploadInv, TypeOK, Holding, Streaming, EndPayload, ReadReturns
<1>2. left = <<>>
  <2>1. Len(<<>>) = 0 /\ ChunkSize \in Nat \ {0}
    BY EmptySeq, SizesAssumption
  <2>2. ended
    BY <1>1, <2>1 DEF EndPayload, ReadReturns
  <2> QED BY <1>1, <2>2 DEF UploadInv, Streaming
<1>3. hasher \in payload.offers
  <2>1. <<>> \o <<>> = <<>> /\ hasher \o <<>> = hasher
    BY <1>1, EmptySeq, ConcatEmptySeq
  <2> QED BY <1>1, <1>2, <2>1
<1>4. CASE verify_identity(payload, hasher) /\ existing \in {None, Len(hasher)}
  <2>1. /\ pc' = (IF existing = None THEN "finish" ELSE "returned")
        /\ UNCHANGED <<locals, error, registry>>
    BY <1>4 DEF EndPayload
  <2>2. TypeOK'
    BY <2>1 DEF UploadInv, TypeOK, locals, registry
  <2>3. Wanted(hasher)
    BY <1>1, <1>3, <1>4 DEF Wanted, Admissible, verify_identity
  <2>4. existing # None => hasher \in blobs
    <3>1. SUFFICES ASSUME existing # None PROVE hasher \in blobs
      OBVIOUS
    <3>2. payload.digest \in blobs /\ blobs \subseteq Contents
      BY <3>1 DEF UploadInv, TypeOK, Holding
    <3>3. payload.digest # None
      BY <3>2, ContentFacts
    <3> QED BY <1>4, <3>2, <3>3 DEF verify_identity
  <2>5. Holding'
    BY <1>1, <2>1, ContentFacts DEF UploadInv, Holding, Over, locals, registry
  <2>6. Streaming'
    BY <2>1, <2>3, <2>4 DEF UploadInv, Streaming, Wanted, locals, registry
  <2> QED BY <2>2, <2>5, <2>6 DEF UploadInv
<1>5. CASE ~(verify_identity(payload, hasher) /\ existing \in {None, Len(hasher)})
  <2>1. Raise("Other") /\ UNCHANGED <<locals, registry>>
    BY <1>5 DEF EndPayload
  <2>2. TypeOK'
    BY <2>1 DEF UploadInv, TypeOK, Raise, Errors, locals, registry
  <2>3. Holding' /\ Streaming'
    BY <1>1, <2>1 DEF UploadInv, Holding, Streaming, Wanted, Over, Raise, locals, registry
  <2> QED BY <2>2, <2>3 DEF UploadInv
<1> QED BY <1>4, <1>5

LEMMA PatchUploadStep == ASSUME UploadInv, PatchUpload PROVE UploadInv'
<1> USE DEF PatchUpload, Raise, locals
<1>1. /\ upload \in {1, 2} /\ chunk \in Seq(Bytes) /\ uploads[upload] \in Seq(Bytes)
      /\ uploads \in [1 .. 2 -> Seq(Bytes) \cup {None}]
  BY DEF UploadInv, TypeOK, Holding
<1>2. uploads[upload] \o chunk \in Seq(Bytes)
  BY <1>1, ConcatProperties
<1>3. uploads' = [uploads EXCEPT ![upload] = uploads[upload] \o chunk]
  OBVIOUS
<1>4. uploads' \in [1 .. 2 -> Seq(Bytes) \cup {None}]
  BY <1>1, <1>2, <1>3
<1>5. TypeOK'
  BY <1>4 DEF UploadInv, TypeOK, Errors, Transient
<1>6. Holding'
  BY <1>1, <1>3 DEF UploadInv, Holding, Over
<1>7. Streaming'
  BY DEF UploadInv, Streaming, Wanted
<1> QED BY <1>5, <1>6, <1>7 DEF UploadInv

\* A final PUT of this call's own upload.
LEMMA FinalPutFacts ==
    ASSUME UploadInv, pc = "finish"
    PROVE  /\ FinalPut \in [id : {1, 2}, body : Seq(Bytes), digest : Seq(Bytes)]
           /\ FinalPut.digest = hasher /\ FinalPut.id = upload /\ upload \in {1, 2}
           /\ Wanted(hasher)
<1>1. upload \in {1, 2} /\ hasher \in Seq(Bytes) /\ <<>> \in Seq(Bytes) /\ Wanted(hasher)
  BY EmptySeq DEF UploadInv, TypeOK, Holding, Streaming
<1> QED BY <1>1 DEF FinalPut

\* A finished upload is closed and its content is stored.
LEMMA FinalisesFacts ==
    ASSUME NEW put \in [id : {1, 2}, body : Seq(Bytes), digest : Seq(Bytes)],
           UploadInv, pc # "idle", Wanted(put.digest), Finalises(put)
    PROVE  /\ blobs' = blobs \cup {put.digest} /\ blobs' \subseteq Contents
           /\ uploads' = [uploads EXCEPT ![put.id] = None]
           /\ uploads' \in [1 .. 2 -> Seq(Bytes) \cup {None}]
<1>1. payload.offers \subseteq Contents
  BY Begun
<1> QED BY <1>1 DEF UploadInv, TypeOK, Wanted, Finalises

LEMMA FinishStep == ASSUME UploadInv, FinishUpload \/ FinishFails PROVE UploadInv'
<1>1. pc = "finish" /\ pc # "idle"
  BY DEF FinishUpload, FinishFails
<1> USE FinalPutFacts, <1>1
<1>2. CASE FinishUpload
  <2>1. /\ blobs' = blobs \cup {hasher} /\ blobs' \subseteq Contents
        /\ uploads' = [uploads EXCEPT ![upload] = None]
        /\ uploads' \in [1 .. 2 -> Seq(Bytes) \cup {None}]
    BY <1>2, FinalisesFacts DEF FinishUpload
  <2>2. TypeOK'
    BY <1>2, <2>1 DEF UploadInv, TypeOK, FinishUpload, Raise, Errors, Transient, locals
  <2>3. Holding'
    BY <1>2, <2>1 DEF UploadInv, TypeOK, Holding, Over, FinishUpload, Raise, locals
  <2>4. Streaming'
    BY <1>2, <2>1 DEF UploadInv, Streaming, Wanted, FinishUpload, Raise, locals
  <2> QED BY <2>2, <2>3, <2>4 DEF UploadInv
<1>3. CASE FinishFails
  <2>1. PICK e \in Errors :
            /\ Raise(e)
            /\ late' = late \/ (e = "Unavailable" /\ late' = late \cup {FinalPut})
    BY <1>3 DEF FinishFails
  <2>2. TypeOK'
    BY <1>3, <2>1 DEF UploadInv, TypeOK, FinishFails, Raise, locals
  <2>3. Holding'
    BY <1>3, <2>1 DEF UploadInv, Holding, Over, FinishFails, Raise, locals
  <2>4. Streaming'
    BY <1>3, <2>1 DEF UploadInv, Streaming, Wanted, FinishFails, Raise, locals
  <2> QED BY <2>2, <2>3, <2>4 DEF UploadInv
<1> QED BY <1>2, <1>3

LEMMA LateFinishStep == ASSUME UploadInv, LateFinish PROVE UploadInv'
<1>1. PICK put \in late :
          /\ late' = late \ {put}
          /\ Finalises(put) \/ UNCHANGED <<blobs, uploads>>
          /\ UNCHANGED <<pc, locals, error, abandoned>>
  BY DEF LateFinish
<1>2. /\ pc # "idle" /\ Wanted(put.digest)
      /\ put \in [id : {1, 2}, body : Seq(Bytes), digest : Seq(Bytes)]
  BY DEF UploadInv, TypeOK, Holding, Streaming
<1>3. /\ blobs \subseteq blobs' /\ blobs' \subseteq Contents
      /\ uploads' \in [1 .. 2 -> Seq(Bytes) \cup {None}]
      /\ \A i \in 1 .. 2 : uploads'[i] # None => uploads[i] # None
  <2>1. CASE Finalises(put)
    BY <1>2, <2>1, FinalisesFacts DEF UploadInv, TypeOK
  <2>2. CASE UNCHANGED <<blobs, uploads>>
    BY <2>2 DEF UploadInv, TypeOK
  <2> QED BY <1>1, <2>1, <2>2
<1>4. TypeOK'
  BY <1>1, <1>3 DEF UploadInv, TypeOK, locals
<1>5. Holding'
  BY <1>1, <1>2, <1>3 DEF UploadInv, Holding, Over, locals
<1>6. Streaming'
  BY <1>1, <1>3 DEF UploadInv, Streaming, Wanted, locals
<1> QED BY <1>4, <1>5, <1>6 DEF UploadInv

\* The except clauses end the attempt's upload, or give it up.
LEMMA ExceptStep == ASSUME UploadInv, Except PROVE UploadInv'
<1> USE Begun, ContentFacts DEF Except
<1>1. /\ uploads' \in [1 .. 2 -> Seq(Bytes) \cup {None}] /\ abandoned' \subseteq {1, 2}
      /\ \A i \in 1 .. 2 : uploads'[i] # None => i \in abandoned'
  <2>1. /\ uploads \in [1 .. 2 -> Seq(Bytes) \cup {None}] /\ abandoned \subseteq {1, 2}
        /\ upload \in {None, 1, 2} /\ \A i \in 1 .. 2 : i # None
        /\ \A i \in 1 .. 2 : uploads[i] # None => i \in abandoned \/ i = upload
    BY DEF UploadInv, TypeOK, Holding
  <2>2. CASE upload = None
    <3>1. UNCHANGED <<uploads, abandoned>>
      BY <2>2 DEF AbortUpload
    <3> QED BY <2>1, <2>2, <3>1
  <2>3. CASE uploads' = [uploads EXCEPT ![upload] = None] /\ UNCHANGED abandoned /\ upload # None
    BY <2>1, <2>3
  <2>4. CASE abandoned' = abandoned \cup {upload} /\ UNCHANGED uploads /\ upload # None
    BY <2>1, <2>4
  <2> QED BY <2>2, <2>3, <2>4 DEF AbortUpload
<1>2. CASE Retries
  <2>1. attempt = 1 /\ payload.replayable /\ ~payload.bytes
    BY <1>2 DEF UploadInv, TypeOK, Holding, Retries, attempts
  <2>2. TypeOK'
    BY <1>1, <1>2, <2>1, EmptySeq DEF UploadInv, TypeOK
  <2>3. Holding'
    BY <1>1, <1>2, <2>1 DEF UploadInv, Holding
  <2>4. Streaming'
    BY <1>2, <2>1 DEF UploadInv, Streaming, Wanted
  <2> QED BY <2>2, <2>3, <2>4 DEF UploadInv
<1>3. CASE ~Retries
  <2>1. TypeOK'
    BY <1>1, <1>3 DEF UploadInv, TypeOK
  <2>2. Holding'
    BY <1>1, <1>3 DEF UploadInv, Holding
  <2>3. Streaming'
    BY <1>3 DEF UploadInv, Streaming, Wanted
  <2> QED BY <2>1, <2>2, <2>3 DEF UploadInv
<1> QED BY <1>2, <1>3

\* A step of a call, with any payload.
AnyNext == (\E p : CallPayload(p) /\ Begin(p)) \/ CallStep \/ LateFinish

LEMMA UploadStepInv == UploadInv /\ [AnyNext]_vars => UploadInv'
<1> SUFFICES ASSUME UploadInv, [AnyNext]_vars PROVE UploadInv'
  OBVIOUS
<1>1. CASE UNCHANGED vars
  <2>1. TypeOK'
    BY <1>1 DEF UploadInv, TypeOK, vars, locals, registry
  <2>2. Holding' /\ Streaming'
    BY <1>1 DEF UploadInv, Holding, Streaming, Wanted, Over, vars, locals, registry
  <2> QED BY <2>1, <2>2 DEF UploadInv
<1> QED BY <1>1, BeginStep, HeadStep, StartUploadStep, FailureSteps, OpenPayloadStep, ReadStep,
       TakeChunkStep, EndPayloadStep, PatchUploadStep, FinishStep, LateFinishStep, ExceptStep
       DEF AnyNext, CallStep

LEMMA NextIsAny == [Next]_vars => [AnyNext]_vars
<1> QED BY PayloadsAssumption DEF Next, AnyNext, CallPayload

-----------------------------------------------------------------------------
(* Properties of the upload                                                *)

LEMMA InvImplies == UploadInv => TypeOK /\ UploadsAccounted
<1> QED BY DEF UploadInv, Holding, UploadsAccounted

\* Only the except clauses of _upload_payload count an attempt.
LEMMA AttemptStep ==
    ASSUME UploadInv, [AnyNext]_vars, attempt > 0, attempt' # attempt
    PROVE  payload.replayable /\ error \in Transient
<1>1. CASE \E p : CallPayload(p) /\ Begin(p)
  BY <1>1
     DEF Begin, UploadInv, Holding
<1>2. CASE Except
  BY <1>2 DEF Except, Retries, attempts, UploadInv, TypeOK
<1>3. CASE ~Except /\ ~(\E p : CallPayload(p) /\ Begin(p))
  <2>1. attempt' = attempt
    BY <1>3 DEF AnyNext, CallStep, HeadBlob, HeadFails, StartUpload, RequestFails, OpenPayload,
       ReadPiece, ReadEnd, StreamBreaks, TakeChunk, EndPayload, PatchUpload, FinishUpload,
       FinishFails, LateFinish, vars, locals
  <2> QED BY <2>1
<1> QED BY <1>1, <1>2, <1>3

\* A step that only moves the call on is no step of the store.
LEMMA StoreStutter ==
    ASSUME UNCHANGED <<payload, blobs>>, pc # "idle", pc' # "idle",
           pc \notin {"returned", "raised"}, pc' \notin {"returned", "raised"}
    PROVE  UNCHANGED Store!vars
<1> QED BY DEF Store!vars

\* Every step of an upload is a step of the store, or none.
LEMMA StoreStep == UploadInv /\ [AnyNext]_vars => [Store!Next]_(Store!vars)
<1> SUFFICES ASSUME UploadInv, [AnyNext]_vars PROVE [Store!Next]_(Store!vars)
  OBVIOUS
<1> DEFINE wanted == {d \in payload.offers : Admissible(payload, d)}
<1>1. CASE UNCHANGED vars
  BY <1>1 DEF vars, locals, registry, Store!vars
<1>2. ASSUME NEW p, CallPayload(p), Begin(p) PROVE Store!Next
  <2>1. {d \in p.offers : Admissible(p, d)} \in SUBSET Contents
    BY <1>2, PayloadFacts DEF CallPayload
  <2> QED BY <1>2, <2>1 DEF Begin, registry, Store!Next, Store!Begin
<1>3. CASE HeadBlob \/ HeadFails
  <2>1. pc = "head" /\ UNCHANGED <<payload, blobs, hasher>> /\ pc' \in {"start", "open", "returned", "raised"}
    BY <1>3 DEF HeadBlob, HeadFails, locals, registry
  <2>2. CASE pc' = "returned"
    <3>1. hasher \in wanted /\ hasher \in blobs
      BY <1>3, <2>2 DEF HeadBlob, HeadFails, UploadInv, Streaming, Wanted
    <3> QED BY <2>1, <2>2, <3>1 DEF Store!Next, Store!Succeed
  <2>3. CASE pc' = "raised"
    BY <2>1, <2>3 DEF Store!Next, Store!Fail
  <2> QED BY <2>1, <2>2, <2>3, StoreStutter
<1>4. CASE EndPayload
  <2>1. pc = "read" /\ UNCHANGED <<payload, blobs, hasher>> /\ pc' \in {"finish", "returned", "except"}
    BY <1>4 DEF EndPayload, ReadReturns, Raise, locals, registry
  <2>2. CASE pc' = "returned"
    <3>1. Wanted(hasher)' /\ (hasher \in blobs)'
      BY <1>4, <2>2, EndPayloadStep DEF UploadInv, Streaming
    <3>2. hasher \in wanted /\ hasher \in blobs
      BY <2>1, <3>1 DEF Wanted, Admissible
    <3> QED BY <2>1, <2>2, <3>2 DEF Store!Next, Store!Succeed
  <2> QED BY <2>1, <2>2, StoreStutter
<1>5. CASE FinishUpload
  <2>1. pc = "finish" /\ UNCHANGED <<payload, hasher>> /\ hasher \in wanted
    BY <1>5, FinalPutFacts DEF FinishUpload, locals, Wanted
  <2>2. blobs' = blobs \cup {hasher}
    BY <1>5, FinalPutFacts DEF FinishUpload, Finalises
  <2>3. CASE pc' = "returned"
    BY <2>1, <2>2, <2>3 DEF Store!Next, Store!Succeed
  <2>4. CASE pc' = "except"
    BY <2>1, <2>2, <2>4 DEF Store!Next, Store!Store
  <2> QED BY <1>5, <2>3, <2>4 DEF FinishUpload, Raise
<1>6. CASE LateFinish
  <2>1. PICK put \in late :
            /\ Finalises(put) \/ UNCHANGED <<blobs, uploads>>
            /\ UNCHANGED <<pc, locals>>
    BY <1>6 DEF LateFinish
  <2>2. pc # "idle" /\ put.digest \in wanted
    BY DEF UploadInv, Holding, Streaming, Wanted
  <2>3. CASE Finalises(put)
    BY <2>1, <2>2, <2>3 DEF Finalises, locals, Store!Next, Store!Store
  <2>4. CASE UNCHANGED blobs
    BY <2>1, <2>2, <2>4 DEF locals, Store!vars
  <2> QED BY <2>1, <2>3, <2>4
<1>7. CASE Except
  <2>1. pc = "except" /\ UNCHANGED <<payload, blobs>> /\ pc' \in {"head", "raised"}
    BY <1>7 DEF Except
  <2>2. CASE pc' = "raised"
    BY <2>1, <2>2 DEF Store!Next, Store!Fail
  <2> QED BY <2>1, <2>2, StoreStutter
<1>8. CASE \/ StartUpload \/ RequestFails \/ OpenPayload \/ ReadPiece \/ ReadEnd \/ StreamBreaks
           \/ TakeChunk \/ PatchUpload \/ FinishFails
  <2>1. /\ UNCHANGED <<payload, blobs>>
        /\ pc \in {"start", "open", "read", "patch", "finish"}
        /\ pc' \in {"open", "read", "patch", "finish", "except"}
    BY <1>8 DEF StartUpload, RequestFails, OpenPayload, ReadPiece, ReadEnd, StreamBreaks,
       TakeChunk, PatchUpload, FinishFails, Raise, Reading, ReadReturns, locals, registry
  <2> QED BY <2>1, StoreStutter
<1> QED BY <1>1, <1>2, <1>3, <1>4, <1>5, <1>6, <1>7, <1>8 DEF AnyNext, CallStep

LEMMA StoreInit == Init => Store!Init
<1> QED BY ContentsAssumption DEF Init, Store!Init

\* The invariant of _upload_payload and upload_blob_bytes.
THEOREM UploadInvariant == Spec => []UploadInv
<1> QED BY UploadInit, UploadStepInv, NextIsAny, PTL DEF Spec

=============================================================================
