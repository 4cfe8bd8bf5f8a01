---------------------------- MODULE OciMultipart ----------------------------
(***************************************************************************)
(* OciMultipartManager (multipart/__init__.py): resumable uploads that     *)
(* begin, receive ordered parts chunk by chunk, and complete or abort, on  *)
(* behalf of several threads.  The manager's lock guards only its table of *)
(* sessions; a session's state is shared by every thread that looked it up *)
(* and outlives its table entry.  Completion runs under the Adapter's      *)
(* _write_lock.                                                            *)
(*                                                                         *)
(* Content is a sequence of chunks of one length unit each; the SHA-256    *)
(* digest of a content is represented by the content itself.               *)
(***************************************************************************)
EXTENDS Naturals, Sequences

CONSTANTS
    Sessions,      \* session ids, each begun at most once
    Threads,       \* callers
    Chunks,        \* chunk contents
    Payloads,      \* part payloads: content, a sequence of chunks, and whether it is as declared
    PartSize,      \* session.part_size, in chunks
    MinPart,       \* limits.min_part_bytes, in chunks
    MaxParts,      \* binding.max_multipart_parts
    MaxObject,     \* binding.max_object_bytes, in chunks
    MaxOps,        \* bound: number of calls
    Exclusive,     \* the sessions whose callers use them from one thread at a time
    None

\* A put may declare its digest; here one session's declaration may not match.
Declared == {"nothing", "mismatch"}

ASSUME LimitsAssumption == {PartSize, MinPart, MaxParts, MaxObject, MaxOps} \subseteq Nat
ASSUME ExclusiveAssumption == Exclusive \subseteq Sessions
ASSUME PayloadsAssumption == Payloads \subseteq [content : Seq(Chunks), good : BOOLEAN]

\* What the published metadata says of the content.
Identity == [digest : Seq(Chunks), len : Nat]

ASSUME NoneAssumption == None \notin Threads \cup Sessions \cup Declared \cup Identity

VARIABLES
    table,         \* _sessions: ids of the sessions that can be looked up
    declared,      \* declared[s]: the operation's declaration, None before begin
    upload,        \* registry: upload[s].data received so far, and whether it is open
    offset,        \* state.upload.offset
    hasher,        \* state.hasher: the content hashed so far
    length,        \* state.length
    nextPart,      \* state.next_part
    parts,         \* state.parts: the contents of the recorded parts
    machine,       \* state.machine (Object Common's PutStateMachine)
    blobs,         \* registry: finished uploads
    published,     \* published[s]: the identity in the published metadata, or None
    writeLock,     \* holder of the Adapter's _write_lock, or None
    pc, cur,       \* control and local variables of each thread
    ops            \* calls so far

sessionVars == <<table, declared, offset, hasher, length, nextPart, parts, machine>>
registryVars == <<upload, blobs, published>>
vars == <<sessionVars, registryVars, writeLock, pc, cur, ops>>

NoUpload == [data |-> <<>>, open |-> FALSE]
NoCall == [s |-> None, payload |-> <<>>, at |-> 0, good |-> TRUE, digest |-> <<>>, len |-> 0]

Init ==
    /\ table = {} /\ blobs = {} /\ writeLock = None /\ ops = 0
    /\ declared = [s \in Sessions |-> None]
    /\ upload = [s \in Sessions |-> NoUpload]
    /\ offset = [s \in Sessions |-> 0]
    /\ hasher = [s \in Sessions |-> <<>>]
    /\ length = [s \in Sessions |-> 0]
    /\ nextPart = [s \in Sessions |-> 1]
    /\ parts = [s \in Sessions |-> <<>>]
    /\ machine = [s \in Sessions |-> "NEW"]
    /\ published = [s \in Sessions |-> None]
    /\ pc = [t \in Threads |-> "idle"]
    /\ cur = [t \in Threads |-> NoCall]

-----------------------------------------------------------------------------
(* Calls                                                                   *)

Busy(s) == \E t \in Threads : pc[t] # "idle" /\ cur[t].s = s

MayCall(t, s) ==
    /\ pc[t] = "idle" /\ ops < MaxOps
    /\ declared[s] # None
    /\ s \in Exclusive => ~Busy(s)

Enter(t, step, c) ==
    /\ pc' = [pc EXCEPT ![t] = step]
    /\ cur' = [cur EXCEPT ![t] = c]
    /\ ops' = ops + 1

Goto(t, step) == pc' = [pc EXCEPT ![t] = step] /\ UNCHANGED cur

Leave(t) ==
    /\ pc' = [pc EXCEPT ![t] = "idle"]
    /\ cur' = [cur EXCEPT ![t] = NoCall]

\* begin_multipart: the create check and the POST run under the write lock;
\* then the state is put into the table.
Begin(t, s) ==
    /\ pc[t] = "idle" /\ ops < MaxOps /\ writeLock = None
    /\ declared[s] = None
    /\ ops' = ops + 1
    /\ \E d \in Declared : declared' = [declared EXCEPT ![s] = d]
    /\ upload' = [upload EXCEPT ![s].open = TRUE]
    /\ machine' = [machine EXCEPT ![s] = "UPLOADING"]
    /\ table' = table \cup {s}
    /\ UNCHANGED <<offset, hasher, length, nextPart, parts, blobs, published, writeLock, pc, cur>>

-----------------------------------------------------------------------------
(* upload_part                                                             *)

\* Mutant of StartPart: the part count is not limited.
StartPart_Unlimited(t, s) == \E p \in Payloads :
    /\ MayCall(t, s) /\ s \in table
    /\ Enter(t, "chunk", [NoCall EXCEPT !.s = s, !.payload = p.content, !.good = p.good])
    /\ UNCHANGED <<sessionVars, registryVars, writeLock>>

\* The state is looked up and the part number checked; a wrong or excessive
\* number, or an unknown session, raises and changes nothing.
StartPart(t, s) == \E p \in Payloads :
    /\ MayCall(t, s) /\ s \in table
    /\ nextPart[s] <= MaxParts
    /\ Enter(t, "chunk", [NoCall EXCEPT !.s = s, !.payload = p.content, !.good = p.good])
    /\ UNCHANGED <<sessionVars, registryVars, writeLock>>

\* One chunk: the size limits, then the hash.  Any failure goes to abort.
HashChunk(t) ==
    LET c == cur[t]
        s == c.s
        n == c.at + 1
    IN
    /\ pc[t] = "chunk" /\ c.at < Len(c.payload)
    /\ IF n > PartSize \/ length[s] + n > MaxObject
       THEN Goto(t, "pop") /\ UNCHANGED hasher
       ELSE /\ hasher' = [hasher EXCEPT ![s] = Append(@, c.payload[n])]
            /\ cur' = [cur EXCEPT ![t].at = n]
            /\ pc' = [pc EXCEPT ![t] = "patch"]
    /\ UNCHANGED <<table, declared, offset, length, nextPart, parts, machine, registryVars, writeLock, ops>>

\* PATCH at state.upload.offset: applied only at the end of an open upload.
PatchApplies(s) == upload[s].open /\ offset[s] = Len(upload[s].data)

PatchChunk(t) ==
    LET s == cur[t].s IN
    /\ pc[t] = "patch"
    /\ PatchApplies(s)
    /\ upload' = [upload EXCEPT ![s].data = Append(@, cur[t].payload[cur[t].at])]
    /\ \/ pc' = [pc EXCEPT ![t] = "store"] /\ cur' = [cur EXCEPT ![t].len = offset[s] + 1]
       \/ Goto(t, "pop")                                    \* the response is lost
    /\ UNCHANGED <<sessionVars, blobs, published, writeLock, ops>>

\* The registry refuses it (416, 404), or the request fails.
PatchFails(t) ==
    /\ pc[t] = "patch"
    /\ Goto(t, "pop")
    /\ UNCHANGED <<sessionVars, registryVars, writeLock, ops>>

\* state.upload = the location and offset that the response gave.
StoreUpload(t) ==
    /\ pc[t] = "store"
    /\ offset' = [offset EXCEPT ![cur[t].s] = cur[t].len]
    /\ Goto(t, "chunk")
    /\ UNCHANGED <<table, declared, hasher, length, nextPart, parts, machine, registryVars, writeLock, ops>>

\* After the last chunk: an empty part, or one that is not what its payload
\* declares, fails; else state.length grows.
FinishPart(t) ==
    LET c == cur[t] IN
    /\ pc[t] = "chunk" /\ c.at = Len(c.payload)
    /\ IF c.at = 0 \/ ~c.good
       THEN Goto(t, "pop") /\ UNCHANGED length
       ELSE Goto(t, "record") /\ length' = [length EXCEPT ![c.s] = @ + c.at]
    /\ UNCHANGED <<table, declared, offset, hasher, nextPart, parts, machine, registryVars, writeLock, ops>>

\* The append to parts and the increment of next_part are one step here: no other
\* call reads both.
RecordPart(t) ==
    LET s == cur[t].s IN
    /\ pc[t] = "record"
    /\ parts' = [parts EXCEPT ![s] = Append(@, cur[t].payload)]
    /\ nextPart' = [nextPart EXCEPT ![s] = @ + 1]
    /\ Leave(t)
    /\ UNCHANGED <<table, declared, offset, hasher, length, machine, registryVars, writeLock, ops>>

-----------------------------------------------------------------------------
(* abort_multipart, also called by the failure paths of the other two      *)

StartAbort(t, s) ==
    /\ MayCall(t, s)
    /\ Enter(t, "pop", [NoCall EXCEPT !.s = s])
    /\ UNCHANGED <<sessionVars, registryVars, writeLock>>

\* Nothing to do when another thread has already taken the session out.
PopSession(t) ==
    /\ pc[t] = "pop"
    /\ IF cur[t].s \in table THEN Goto(t, "release") ELSE Leave(t)
    /\ table' = table \ {cur[t].s}
    /\ UNCHANGED <<declared, offset, hasher, length, nextPart, parts, machine, registryVars, writeLock, ops>>

\* _abort_safely: the DELETE may fail, silently.
Released(s) == \/ upload' = [upload EXCEPT ![s] = NoUpload]
               \/ UNCHANGED upload

ReleaseUpload(t) ==
    /\ pc[t] = "release"
    /\ Released(cur[t].s)
    /\ Goto(t, "look")
    /\ UNCHANGED <<sessionVars, blobs, published, writeLock, ops>>

\* PutStateMachine, which is external: transition follows these edges and
\* raises otherwise, and fail ends an upload that is not over.
Edges == {<<"UPLOADING", "VERIFYING">>, <<"UPLOADING", "ABORTED">>, <<"VERIFYING", "COMMITTED">>}
MayMove(s, state) == <<machine[s], state>> \in Edges

Failed(s, state) ==
    machine' = [machine EXCEPT ![s] = IF @ \in {"UPLOADING", "VERIFYING"} THEN state ELSE @]

\* The machine is looked at, and then moved; another thread may come between.
LookBeforeAbort(t) ==
    /\ pc[t] = "look"
    /\ IF machine[cur[t].s] = "UPLOADING" THEN Goto(t, "mark") ELSE Leave(t)
    /\ UNCHANGED <<sessionVars, registryVars, writeLock, ops>>

MarkAborted(t) ==
    LET s == cur[t].s IN
    /\ pc[t] = "mark"
    /\ machine' = IF MayMove(s, "ABORTED") THEN [machine EXCEPT ![s] = "ABORTED"] ELSE machine
    /\ Leave(t)
    /\ UNCHANGED <<table, declared, offset, hasher, length, nextPart, parts, registryVars, writeLock, ops>>

-----------------------------------------------------------------------------
(* complete_multipart                                                      *)

\* The supplied parts must be the recorded ones, and every part but the last
\* must have the minimum size; otherwise the call raises and changes nothing.
\* (MultipartCompletion, which is external, refuses a completion without parts.)
PartsAcceptable(s) == \A i \in 1 .. Len(parts[s]) - 1 : Len(parts[s][i]) >= MinPart

\* The aggregate identity is read from the shared state.  It must match the
\* put's declaration, or the session is aborted.
StartComplete(t, s) ==
    /\ MayCall(t, s) /\ s \in table
    /\ parts[s] # <<>> /\ PartsAcceptable(s)
    /\ Enter(t, IF declared[s] = "mismatch" THEN "pop" ELSE "lock",
             [NoCall EXCEPT !.s = s, !.digest = hasher[s], !.len = length[s]])
    /\ UNCHANGED <<sessionVars, registryVars, writeLock>>

TakeWriteLock(t) ==
    /\ pc[t] = "lock" /\ writeLock = None
    /\ writeLock' = t
    /\ Goto(t, "finish")
    /\ UNCHANGED <<sessionVars, registryVars, ops>>

\* An exception leaves the with block, which releases the lock, and only then
\* reaches the except clause.
Raise(t) == Goto(t, "raise") /\ writeLock' = None
Proceed(t, step) == Goto(t, step) /\ UNCHANGED writeLock

\* PUT of the upload with the digest: the registry compares.
FinishUpload(t) ==
    LET s == cur[t].s IN
    /\ pc[t] = "finish"
    /\ upload[s].open /\ upload[s].data = cur[t].digest
    /\ blobs' = blobs \cup {upload[s].data}
    /\ upload' = [upload EXCEPT ![s] = NoUpload]
    /\ Proceed(t, "verify") \/ Raise(t)                     \* or the response is lost
    /\ UNCHANGED <<sessionVars, published, ops>>

\* Mutant of FinishFails: the completion goes on.
FinishFails_Ignored(t) ==
    /\ pc[t] = "finish"
    /\ Proceed(t, "verify")
    /\ UNCHANGED <<sessionVars, registryVars, ops>>

\* The Object exists already (create only), the digest or the upload is
\* refused, or the request fails.
FinishFails(t) ==
    /\ pc[t] = "finish"
    /\ Raise(t)
    /\ UNCHANGED <<sessionVars, registryVars, ops>>

EnterVerifying(t) ==
    LET s == cur[t].s IN
    /\ pc[t] = "verify"
    /\ IF MayMove(s, "VERIFYING")
       THEN machine' = [machine EXCEPT ![s] = "VERIFYING"] /\ Proceed(t, "commit")
       ELSE Raise(t) /\ UNCHANGED machine
    /\ UNCHANGED <<table, declared, offset, hasher, length, nextPart, parts, registryVars, ops>>

\* _commit_object (module OciAdapter): it publishes the identity and returns,
\* publishes it and raises, or raises without having published.
CommitObject(t) ==
    LET s == cur[t].s IN
    /\ pc[t] = "commit"
    /\ \/ /\ published' = [published EXCEPT ![s] = [digest |-> cur[t].digest, len |-> cur[t].len]]
          /\ Proceed(t, "committed") \/ Raise(t)
       \/ Raise(t) /\ UNCHANGED published
    /\ UNCHANGED <<sessionVars, upload, blobs, ops>>

\* Mutant of EnterCommitted: the lock is not released.
EnterCommitted_KeepsLock(t) ==
    /\ pc[t] = "committed"
    /\ machine' = [machine EXCEPT ![cur[t].s] = "COMMITTED"]
    /\ Proceed(t, "cleanup")
    /\ UNCHANGED <<table, declared, offset, hasher, length, nextPart, parts, registryVars, ops>>

\* The call returns its metadata and leaves the with block, unless a failed
\* completion of the same session has ended the machine meanwhile.
EnterCommitted(t) ==
    LET s == cur[t].s IN
    /\ pc[t] = "committed"
    /\ IF MayMove(s, "COMMITTED")
       THEN machine' = [machine EXCEPT ![s] = "COMMITTED"] /\ Goto(t, "cleanup") /\ writeLock' = None
       ELSE Raise(t) /\ UNCHANGED machine
    /\ UNCHANGED <<table, declared, offset, hasher, length, nextPart, parts, registryVars, ops>>

\* Mutant of LookBeforeFail: every failure is reported as clean.
LookBeforeFail_Clean(t) ==
    /\ pc[t] = "raise"
    /\ Goto(t, "discard")
    /\ UNCHANGED <<sessionVars, registryVars, writeLock, ops>>

\* except: what fails before the blob is final is a clean failure and the
\* upload is released; after that a physical commit is possible.
LookBeforeFail(t) ==
    /\ pc[t] = "raise"
    /\ Goto(t, CASE machine[cur[t].s] = "UPLOADING" -> "discard"
                 [] machine[cur[t].s] = "VERIFYING" -> "uncertain"
                 [] OTHER -> "cleanup")
    /\ UNCHANGED <<sessionVars, registryVars, writeLock, ops>>

DiscardUpload(t) ==
    /\ pc[t] = "discard"
    /\ Released(cur[t].s)
    /\ Goto(t, "fail")
    /\ UNCHANGED <<sessionVars, blobs, published, writeLock, ops>>

FailMachine(t) ==
    /\ pc[t] \in {"fail", "uncertain"}
    /\ Failed(cur[t].s, IF pc[t] = "fail" THEN "FAILED" ELSE "UNCERTAIN")
    /\ Goto(t, "cleanup")
    /\ UNCHANGED <<table, declared, offset, hasher, length, nextPart, parts, registryVars, writeLock, ops>>

\* finally: the session leaves the table.
CleanUp(t) ==
    /\ pc[t] = "cleanup"
    /\ table' = table \ {cur[t].s}
    /\ Leave(t)
    /\ UNCHANGED <<declared, offset, hasher, length, nextPart, parts, machine, registryVars, writeLock, ops>>

-----------------------------------------------------------------------------
PartStep(t) == HashChunk(t) \/ PatchChunk(t) \/ PatchFails(t) \/ StoreUpload(t) \/ FinishPart(t)
                  \/ RecordPart(t)
AbortStep(t) == PopSession(t) \/ ReleaseUpload(t) \/ LookBeforeAbort(t) \/ MarkAborted(t)
CompleteStep(t) == TakeWriteLock(t) \/ FinishUpload(t) \/ FinishFails(t) \/ EnterVerifying(t)
                      \/ CommitObject(t) \/ EnterCommitted(t) \/ LookBeforeFail(t) \/ DiscardUpload(t)
                      \/ FailMachine(t) \/ CleanUp(t)
ThreadStep(t) == PartStep(t) \/ AbortStep(t) \/ CompleteStep(t)

\* All calls are made and have returned.
Quiesce == ops = MaxOps /\ (\A t \in Threads : pc[t] = "idle") /\ UNCHANGED vars

Next ==
    \/ \E t \in Threads, s \in Sessions :
          Begin(t, s) \/ StartPart(t, s) \/ StartAbort(t, s) \/ StartComplete(t, s)
    \/ \E t \in Threads : ThreadStep(t)
    \/ Quiesce

Spec == Init /\ [][Next]_vars

\* A thread inside a call runs, and every request ends (HTTP timeout).
FairSpec == Spec /\ \A t \in Threads : WF_vars(ThreadStep(t))

-----------------------------------------------------------------------------
(* Properties                                                              *)

Steps == {"idle", "chunk", "patch", "store", "record", "pop", "release", "look", "mark", "lock",
          "finish", "verify", "commit", "committed", "raise", "discard", "fail", "uncertain", "cleanup"}

\* The local variables of a call.
Call == [s : Sessions \cup {None}, payload : Seq(Chunks), at : Nat, good : BOOLEAN,
         digest : Seq(Chunks), len : Nat]

Types ==
    /\ table \subseteq Sessions /\ declared \in [Sessions -> Declared \cup {None}]
    /\ offset \in [Sessions -> Nat] /\ length \in [Sessions -> Nat] /\ nextPart \in [Sessions -> Nat]
    /\ hasher \in [Sessions -> Seq(Chunks)] /\ parts \in [Sessions -> Seq(Seq(Chunks))]
    /\ machine \in [Sessions -> {"NEW", "UPLOADING", "VERIFYING", "COMMITTED", "ABORTED", "FAILED",
                                 "UNCERTAIN"}]
    /\ upload \in [Sessions -> [data : Seq(Chunks), open : BOOLEAN]] /\ blobs \subseteq Seq(Chunks)
    /\ published \in [Sessions -> Identity \cup {None}]
    /\ writeLock \in Threads \cup {None} /\ pc \in [Threads -> Steps] /\ cur \in [Threads -> Call]
    /\ ops \in 0 .. MaxOps

\* The session's parts and bytes are within max_multipart_parts and max_object_bytes.
WithinLimits(s) == Len(parts[s]) <= MaxParts /\ offset[s] <= MaxObject

\* Types, and the limits of a session that its callers do not share: upload_part
\* checks them before it sends anything.
TypeOK == Types /\ \A s \in Exclusive : WithinLimits(s)

\* The content is these pieces, one after the other: the i-th begins where the
\* cut before it is and ends at the next one.
Concatenation(content, pieces) ==
    \E cuts \in [1 .. Len(pieces) + 1 -> 0 .. Len(content)] :
        /\ cuts[1] = 0 /\ cuts[Len(pieces) + 1] = Len(content)
        /\ \A i \in 1 .. Len(pieces) :
              /\ cuts[i + 1] = cuts[i] + Len(pieces[i])
              /\ \A j \in 1 .. Len(pieces[i]) : content[cuts[i] + j] = pieces[i][j]

\* "The final aggregate identity is checked before manifest publication": a
\* published length is the length of the published content.
PublishedLengthMatches ==
    \A s \in Sessions : published[s] # None => published[s].len = Len(published[s].digest)

\* What the completion of an unshared session publishes is a blob of the
\* registry and is exactly the recorded parts, in order, whatever requests
\* failed before and whatever happens to the sessions beside it.
PublishedPartsExactly ==
    \A s \in Exclusive : published[s] # None =>
        /\ published[s].digest \in blobs
        /\ Concatenation(published[s].digest, parts[s])
        /\ published[s].len = Len(published[s].digest)

\* An aborted or cleanly failed unshared session has published nothing, whichever
\* request of its completion failed, was lost, or was applied and then lost.
CleanEndPublishesNothing ==
    \A s \in Exclusive : machine[s] \in {"ABORTED", "FAILED"} => published[s] = None

\* Whatever the threads that share a session do to it, what is published is a
\* blob the registry holds: complete_multipart commits only after the registry
\* has accepted the upload under that digest.
PublishedContentStored ==
    \A s \in Sessions : published[s] # None => published[s].digest \in blobs

\* Every call returns: nobody waits for ever on the Adapter's _write_lock.
CallsReturn == \A t \in Threads : pc[t] # "idle" ~> pc[t] = "idle"

=============================================================================
