------------------------ MODULE OciMultipart_proofs ------------------------
(***************************************************************************)
(* Proofs about OciMultipart: what an unshared session publishes is its    *)
(* recorded parts, whatever the sessions beside it do, and what any        *)
(* session publishes the registry holds.                                   *)
(***************************************************************************)
EXTENDS OciMultipart, TLAPS

-----------------------------------------------------------------------------
(* Inductive invariant                                                     *)

Serving(t, s) == pc[t] # "idle" /\ cur[t].s = s

\* A call is about a session that was begun, and has sent no more of its part
\* than there is.
CallShape ==
    \A t \in Threads : pc[t] # "idle" =>
        /\ cur[t].s \in Sessions /\ declared[cur[t].s] # None
        /\ cur[t].at <= Len(cur[t].payload)
        /\ pc[t] = "patch" => cur[t].at > 0

\* The next part number counts the recorded parts.
PartsCounted == \A s \in Sessions : nextPart[s] = Len(parts[s]) + 1

\* What completions commit, and what is published, the registry has accepted.
ContentStored ==
    /\ \A t \in Threads : pc[t] \in {"verify", "commit"} => cur[t].digest \in blobs
    /\ PublishedContentStored

TypeInv == Types /\ CallShape /\ PartsCounted

\* The Adapter's _write_lock is held by the thread between a completion's finish and
\* the end of its with block, and by nobody else.
LockHeld ==
    \A t \in Threads : writeLock = t <=> pc[t] \in {"finish", "verify", "commit", "committed"}

\* Nothing of the session is final.
Fresh(s) == machine[s] = "UPLOADING" /\ published[s] = None

Untouched(s) == parts[s] = <<>> /\ hasher[s] = <<>> /\ length[s] = 0 /\ offset[s] = 0 /\ published[s] = None

\* Between calls, a session that can be looked up has hashed exactly its parts.
Resting(s) ==
    /\ Fresh(s)
    /\ Concatenation(hasher[s], parts[s])
    /\ length[s] = Len(hasher[s]) /\ offset[s] = length[s]

\* upload_part has hashed the recorded parts and what it has read of the next one,
\* and state.length and the upload's offset follow behind.
Receiving(t, s) ==
    LET c == cur[t] IN
    /\ Fresh(s) /\ Len(parts[s]) < MaxParts
    /\ Concatenation(hasher[s], Append(parts[s], SubSeq(c.payload, 1, c.at)))
    /\ Len(hasher[s]) <= MaxObject
    /\ Len(hasher[s]) = IF pc[t] = "record" THEN length[s] ELSE length[s] + c.at
    /\ pc[t] = "record" => c.at = Len(c.payload)
    /\ pc[t] \in {"chunk", "record"} => offset[s] = Len(hasher[s])
    /\ pc[t] = "patch" => offset[s] + 1 = Len(hasher[s])
    /\ pc[t] = "store" => c.len = Len(hasher[s])

\* What a completion has read of the session is its recorded parts.
Committing(t, s) ==
    Concatenation(cur[t].digest, parts[s]) /\ cur[t].len = Len(cur[t].digest)

\* The only call on a session, by where it is.
Engaged(t, s) ==
    /\ pc[t] \in {"chunk", "patch", "store", "record"} => Receiving(t, s)
    /\ pc[t] = "pop" => (s \in table => Fresh(s))
    /\ pc[t] \in {"release", "look", "mark"} => s \notin table /\ Fresh(s)
    /\ pc[t] \in {"lock", "finish", "verify", "commit", "committed"} => Committing(t, s)
    /\ pc[t] \in {"lock", "finish", "verify", "discard", "fail"} => Fresh(s)
    /\ pc[t] \in {"commit", "committed", "uncertain"} => machine[s] = "VERIFYING"
    /\ pc[t] = "raise" => Fresh(s) \/ machine[s] = "VERIFYING"

\* A session that its callers use from one thread at a time.
SessionInv(s) ==
    /\ WithinLimits(s)
    /\ \A t, u \in Threads : Serving(t, s) /\ Serving(u, s) => t = u
    /\ \A t \in Threads : Serving(t, s) => Engaged(t, s)
    /\ declared[s] = None => Untouched(s) /\ s \notin table
    /\ (s \in table /\ ~Busy(s)) => Resting(s)
    /\ published[s] # None => /\ Concatenation(published[s].digest, parts[s])
                              /\ published[s].len = Len(published[s].digest)
    /\ machine[s] \in {"ABORTED", "FAILED"} => published[s] = None

\* The inductive invariant of the manager.
MultipartInv == TypeInv /\ ContentStored /\ \A s \in Exclusive : SessionInv(s)

-----------------------------------------------------------------------------
(* Concatenation                                                           *)

\* No pieces make an empty content.
LEMMA ConcatenationOfNothing == Concatenation(<<>>, <<>>)
<1> DEFINE cuts == [i \in 1 .. 1 |-> 0]
<1>1. Len(<<>>) = 0
    OBVIOUS
<1>2. cuts \in [1 .. 1 -> 0 .. 0] /\ cuts[1] = 0
    OBVIOUS
<1> HIDE DEF cuts
<1> QED  BY <1>1, <1>2 DEF Concatenation

\* An empty piece adds nothing.
LEMMA ConcatenationWithEmpty ==
    ASSUME NEW h \in Seq(Chunks), NEW ps \in Seq(Seq(Chunks)), Concatenation(h, ps)
    PROVE  Concatenation(h, Append(ps, <<>>))
<1> DEFINE n == Len(ps)
           qs == Append(ps, <<>>)
<1>1. PICK cuts \in [1 .. n + 1 -> 0 .. Len(h)] :
        /\ cuts[1] = 0 /\ cuts[n + 1] = Len(h)
        /\ \A i \in 1 .. n : /\ cuts[i + 1] = cuts[i] + Len(ps[i])
                             /\ \A j \in 1 .. Len(ps[i]) : h[cuts[i] + j] = ps[i][j]
    BY DEF Concatenation
<1> DEFINE more == [i \in 1 .. n + 2 |-> IF i <= n + 1 THEN cuts[i] ELSE Len(h)]
<1>2. n \in Nat /\ Len(qs) = n + 1 /\ qs[n + 1] = <<>> /\ \A i \in 1 .. n : qs[i] = ps[i]
    OBVIOUS
<1>3. more \in [1 .. Len(qs) + 1 -> 0 .. Len(h)]
    BY <1>2
<1>4. more[1] = 0 /\ more[Len(qs) + 1] = Len(h)
    BY <1>1, <1>2
<1>5. ASSUME NEW i \in 1 .. Len(qs)
      PROVE  /\ more[i + 1] = more[i] + Len(qs[i])
             /\ \A j \in 1 .. Len(qs[i]) : h[more[i] + j] = qs[i][j]
    <2>1. CASE i = n + 1
        BY <1>1, <1>2, <2>1
    <2>2. CASE i \in 1 .. n
        <3>1. more[i] = cuts[i] /\ more[i + 1] = cuts[i + 1] /\ qs[i] = ps[i]
            BY <1>2, <2>2
        <3> QED  BY <1>1, <2>2, <3>1
    <2>3. i \in 1 .. n \/ i = n + 1
        <3> HIDE DEF n, qs
        <3>1. Len(qs) = n + 1 /\ n \in Nat
            BY <1>2
        <3> QED  BY <3>1
    <2> QED  BY <2>1, <2>2, <2>3
<1> HIDE DEF more, qs
<1>6. Concatenation(h, qs)
    BY <1>3, <1>4, <1>5 DEF Concatenation
<1> QED  BY <1>6 DEF qs

\* What a part has read of its payload.
LEMMA Prefixes ==
    ASSUME NEW p \in Seq(Chunks), NEW n \in 0 .. Len(p)
    PROVE  /\ SubSeq(p, 1, n) \in Seq(Chunks) /\ Len(SubSeq(p, 1, n)) = n
           /\ \A j \in 1 .. n : SubSeq(p, 1, n)[j] = p[j]
           /\ n = 0 => SubSeq(p, 1, n) = <<>>
           /\ n = Len(p) => SubSeq(p, 1, n) = p
<1>1. SubSeq(p, 1, n) \in Seq(Chunks) /\ Len(SubSeq(p, 1, n)) = n
    OBVIOUS
<1>2. \A j \in 1 .. n : SubSeq(p, 1, n)[j] = p[j]
    OBVIOUS
<1>3. ASSUME n = 0 PROVE SubSeq(p, 1, n) = <<>>
    BY <1>1, <1>3
<1>4. ASSUME n = Len(p) PROVE SubSeq(p, 1, n) = p
    BY <1>1, <1>2, <1>4
<1> QED  BY <1>1, <1>2, <1>3, <1>4

LEMMA Positions ==
    ASSUME NEW from \in Nat, NEW size \in Nat, NEW total \in Nat, from + size <= total
    PROVE  /\ \A j \in 1 .. size : from + j \in 1 .. total
           /\ from + size = total => total + 1 = from + (size + 1)
OBVIOUS

\* One chunk more at the end of the content is one chunk more of the last piece.
LEMMA ConcatenationGrows ==
    ASSUME NEW h \in Seq(Chunks), NEW ps \in Seq(Seq(Chunks)), NEW p \in Seq(Chunks),
           NEW n \in Nat, n < Len(p), Concatenation(h, Append(ps, SubSeq(p, 1, n)))
    PROVE  Concatenation(Append(h, p[n + 1]), Append(ps, SubSeq(p, 1, n + 1)))
<1> DEFINE k == Len(ps)
           q == SubSeq(p, 1, n)
           r == SubSeq(p, 1, n + 1)
           qs == Append(ps, q)
           rs == Append(ps, r)
           g == Append(h, p[n + 1])
<1>1. /\ q \in Seq(Chunks) /\ Len(q) = n /\ \A j \in 1 .. n : q[j] = p[j]
      /\ r \in Seq(Chunks) /\ Len(r) = n + 1 /\ \A j \in 1 .. n + 1 : r[j] = p[j]
    BY Prefixes
<1> HIDE DEF q, r
<1>2. /\ k \in Nat /\ Len(qs) = k + 1 /\ qs[k + 1] = q /\ \A i \in 1 .. k : qs[i] = ps[i]
      /\ Len(rs) = k + 1 /\ rs[k + 1] = r /\ \A i \in 1 .. k : rs[i] = ps[i]
    BY <1>1
<1>3. p[n + 1] \in Chunks
    OBVIOUS
<1>4. Len(g) = Len(h) + 1 /\ g[Len(h) + 1] = p[n + 1] /\ \A j \in 1 .. Len(h) : g[j] = h[j]
    BY <1>3
<1>5. PICK cuts \in [1 .. Len(qs) + 1 -> 0 .. Len(h)] :
        /\ cuts[1] = 0 /\ cuts[Len(qs) + 1] = Len(h)
        /\ \A i \in 1 .. Len(qs) : /\ cuts[i + 1] = cuts[i] + Len(qs[i])
                                   /\ \A j \in 1 .. Len(qs[i]) : h[cuts[i] + j] = qs[i][j]
    BY DEF Concatenation, q
<1> DEFINE more == [i \in 1 .. k + 2 |-> IF i <= k + 1 THEN cuts[i] ELSE Len(h) + 1]
<1> HIDE DEF qs, rs, g
<1>6. cuts \in [1 .. k + 2 -> 0 .. Len(h)]
    BY <1>2, <1>5
<1>7. /\ more \in [1 .. Len(rs) + 1 -> 0 .. Len(g)]
      /\ more[1] = 0 /\ more[Len(rs) + 1] = Len(g)
    BY <1>2, <1>4, <1>5, <1>6
<1>8. more[k + 2] = Len(h) + 1 /\ \A i \in 1 .. k + 1 : more[i] = cuts[i]
    BY <1>2
<1> HIDE DEF k, more
<1>9. ASSUME NEW i \in 1 .. Len(rs)
      PROVE  /\ more[i + 1] = more[i] + Len(rs[i])
             /\ \A j \in 1 .. Len(rs[i]) : g[more[i] + j] = rs[i][j]
    <2>1. CASE i = k + 1
        <3>1. more[i] = cuts[k + 1] /\ more[i + 1] = Len(h) + 1 /\ rs[i] = r
            BY <1>2, <1>8, <2>1
        <3>2. /\ Len(h) = cuts[k + 1] + n
              /\ \A j \in 1 .. n : h[cuts[k + 1] + j] = q[j]
            <4>1. k + 1 \in 1 .. Len(qs) /\ (k + 1) + 1 = Len(qs) + 1
                BY <1>2
            <4>2. /\ cuts[(k + 1) + 1] = cuts[k + 1] + Len(qs[k + 1])
                  /\ \A j \in 1 .. Len(qs[k + 1]) : h[cuts[k + 1] + j] = qs[k + 1][j]
                BY <1>5, <4>1
            <4> QED  BY <1>1, <1>2, <1>5, <4>1, <4>2
        <3>3. cuts[k + 1] \in 0 .. Len(h)
            BY <1>2, <1>6
        <3>4. ASSUME NEW j \in 1 .. n + 1 PROVE g[cuts[k + 1] + j] = r[j]
            <4>1. CASE j = n + 1
                BY <1>1, <1>4, <3>2, <3>3, <4>1
            <4>2. CASE j \in 1 .. n
                <5>1. cuts[k + 1] + j \in 1 .. Len(h)
                    BY <3>2, <3>3, <4>2
                <5> QED  BY <1>1, <1>4, <3>2, <4>2, <5>1
            <4>3. j \in 1 .. n \/ j = n + 1
                OBVIOUS
            <4> QED  BY <4>1, <4>2, <4>3
        <3>5. Len(r) = n + 1
            BY <1>1
        <3>6. Len(h) + 1 = cuts[k + 1] + (n + 1)
            <4>1. cuts[k + 1] \in Nat /\ Len(h) \in Nat /\ Len(h) = cuts[k + 1] + n
                BY <3>2, <3>3
            <4> QED  BY <4>1, Positions
        <3> QED  BY <3>1, <3>4, <3>5, <3>6
    <2>2. CASE i \in 1 .. k
        <3>1. more[i] = cuts[i] /\ more[i + 1] = cuts[i + 1] /\ rs[i] = ps[i] /\ qs[i] = ps[i]
            BY <1>2, <1>8, <2>2
        <3>2. /\ cuts[i + 1] = cuts[i] + Len(ps[i])
              /\ \A j \in 1 .. Len(ps[i]) : h[cuts[i] + j] = ps[i][j]
            <4>1. i \in 1 .. Len(qs)
                BY <1>2, <2>2
            <4> QED  BY <1>5, <3>1, <4>1
        <3>3. cuts[i] \in 0 .. Len(h) /\ cuts[i + 1] \in 0 .. Len(h) /\ Len(ps[i]) \in Nat
            BY <1>2, <1>6, <2>2
        <3>4. \A j \in 1 .. Len(ps[i]) : g[cuts[i] + j] = h[cuts[i] + j]
            <4>1. cuts[i] \in Nat /\ Len(h) \in Nat /\ cuts[i] + Len(ps[i]) <= Len(h)
                BY <3>2, <3>3
            <4>2. \A j \in 1 .. Len(ps[i]) : cuts[i] + j \in 1 .. Len(h)
                BY <3>3, <4>1, Positions
            <4> QED  BY <1>4, <4>2
        <3> QED  BY <3>1, <3>2, <3>4
    <2>3. i \in 1 .. k \/ i = k + 1
        <3>1. Len(rs) = k + 1 /\ k \in Nat
            BY <1>2
        <3> QED  BY <3>1
    <2> QED  BY <2>1, <2>2, <2>3
<1>10. Concatenation(g, rs)
    BY <1>7, <1>9 DEF Concatenation
<1> QED  BY <1>10 DEF g, rs, r

-----------------------------------------------------------------------------
(* Types                                                                   *)

ThreadsTyped == pc \in [Threads -> Steps] /\ cur \in [Threads -> Call] /\ CallShape

LEMMA NoCallFields ==
    /\ NoCall \in Call /\ NoUpload \in [data : Seq(Chunks), open : BOOLEAN]
    /\ NoUpload.data = <<>> /\ NoUpload.open = FALSE
    /\ NoCall.at = 0 /\ NoCall.payload = <<>>
BY DEF NoCall, NoUpload, Call

\* A call on a session that was begun, before its part has been read.
LEMMA EnterTyped ==
    ASSUME TypeInv, NEW t \in Threads, NEW s \in Sessions, declared[s] # None, declared' = declared,
           NEW step \in Steps \ {"patch"}, NEW c \in Call, c.s = s, c.at = 0, Enter(t, step, c)
    PROVE  ThreadsTyped'
<1>1. pc' \in [Threads -> Steps] /\ cur' \in [Threads -> Call]
    BY DEF Enter, TypeInv, Types
<1>2. ASSUME NEW u \in Threads, pc'[u] # "idle"
      PROVE  /\ cur'[u].s \in Sessions /\ declared'[cur'[u].s] # None
             /\ cur'[u].at <= Len(cur'[u].payload)
             /\ pc'[u] = "patch" => cur'[u].at > 0
    <2>1. CASE u = t
        <3>1. cur'[u] = c /\ pc'[u] = step /\ c.payload \in Seq(Chunks)
            BY <2>1 DEF Enter, TypeInv, Types, Call
        <3> QED  BY <3>1
    <2>2. CASE u # t
        <3>1. cur'[u] = cur[u] /\ pc'[u] = pc[u]
            BY <2>2 DEF Enter, TypeInv, Types
        <3> QED  BY <1>2, <3>1 DEF TypeInv, CallShape
    <2> QED  BY <2>1, <2>2
<1> QED  BY <1>1, <1>2 DEF ThreadsTyped, CallShape

\* A step that reads nothing of the part, or the last step of a call.
LEMMA MoveTyped ==
    ASSUME TypeInv, NEW t \in Threads, pc[t] # "idle", declared' = declared,
           (\E step \in Steps \ {"patch"} : Goto(t, step)) \/ Leave(t)
    PROVE  ThreadsTyped'
<1>1. pc' \in [Threads -> Steps] /\ cur' \in [Threads -> Call]
    <2>1. CASE \E step \in Steps : Goto(t, step)
        BY <2>1 DEF Goto, TypeInv, Types
    <2>2. CASE Leave(t)
        BY <2>2, NoCallFields DEF Leave, TypeInv, Types, Steps
    <2> QED  BY <2>1, <2>2
<1>2. ASSUME NEW u \in Threads, pc'[u] # "idle"
      PROVE  /\ cur'[u].s \in Sessions /\ declared'[cur'[u].s] # None
             /\ cur'[u].at <= Len(cur'[u].payload)
             /\ pc'[u] = "patch" => cur'[u].at > 0
    <2>1. cur'[u] = cur[u] /\ pc[u] # "idle" /\ (pc'[u] = "patch" => pc[u] = "patch")
        BY <1>2 DEF Goto, Leave, TypeInv, Types
    <2> QED  BY <2>1 DEF TypeInv, CallShape
<1> QED  BY <1>1, <1>2 DEF ThreadsTyped, CallShape

SessionsTyped ==
    /\ table \subseteq Sessions /\ declared \in [Sessions -> Declared \cup {None}]
    /\ offset \in [Sessions -> Nat] /\ length \in [Sessions -> Nat] /\ nextPart \in [Sessions -> Nat]
    /\ hasher \in [Sessions -> Seq(Chunks)] /\ parts \in [Sessions -> Seq(Seq(Chunks))]
    /\ machine \in [Sessions -> {"NEW", "UPLOADING", "VERIFYING", "COMMITTED", "ABORTED", "FAILED",
                                 "UNCERTAIN"}]
    /\ PartsCounted

RegistryTyped ==
    /\ upload \in [Sessions -> [data : Seq(Chunks), open : BOOLEAN]] /\ blobs \subseteq Seq(Chunks)
    /\ published \in [Sessions -> Identity \cup {None}]

LEMMA TypesInParts ==
    /\ TypeInv <=> /\ SessionsTyped /\ RegistryTyped /\ ThreadsTyped
                   /\ writeLock \in Threads \cup {None} /\ ops \in 0 .. MaxOps
    /\ TypeInv' <=> /\ SessionsTyped' /\ RegistryTyped' /\ ThreadsTyped'
                    /\ writeLock' \in Threads \cup {None} /\ ops' \in 0 .. MaxOps
BY DEF TypeInv, Types, SessionsTyped, RegistryTyped, ThreadsTyped

\* What a call of a thread is made of.
LEMMA CallFields ==
    ASSUME TypeInv, NEW t \in Threads
    PROVE  /\ cur[t] \in Call /\ pc[t] \in Steps
           /\ cur[t].s \in Sessions \cup {None} /\ cur[t].payload \in Seq(Chunks) /\ cur[t].at \in Nat
           /\ cur[t].digest \in Seq(Chunks) /\ cur[t].len \in Nat
           /\ pc[t] # "idle" => /\ cur[t].s \in Sessions /\ declared[cur[t].s] # None
                                /\ cur[t].at <= Len(cur[t].payload)
BY DEF TypeInv, Types, CallShape, Call

\* Starting a call changes neither a session nor the registry, but for begin.
LEMMA StartTypes ==
    ASSUME TypeInv, NEW t \in Threads, NEW s \in Sessions,
           Begin(t, s) \/ StartPart(t, s) \/ StartAbort(t, s) \/ StartComplete(t, s)
    PROVE  TypeInv'
<1>1. CASE Begin(t, s)
    <2>1. SessionsTyped'
        BY <1>1 DEF Begin, TypeInv, Types, SessionsTyped, PartsCounted, Declared
    <2>2. RegistryTyped'
        BY <1>1 DEF Begin, TypeInv, Types, RegistryTyped
    <2>3. ThreadsTyped'
        <3>1. \A r \in Sessions : declared[r] # None => declared'[r] # None
            BY <1>1, NoneAssumption DEF Begin, TypeInv, Types
        <3> QED  BY <1>1, <3>1 DEF Begin, TypeInv, Types, ThreadsTyped, CallShape
    <2>4. writeLock' \in Threads \cup {None} /\ ops' \in 0 .. MaxOps
        BY <1>1, LimitsAssumption DEF Begin, TypeInv, Types
    <2> QED  BY <2>1, <2>2, <2>3, <2>4, TypesInParts
<1>2. ASSUME StartPart(t, s) \/ StartAbort(t, s) \/ StartComplete(t, s), ThreadsTyped' PROVE TypeInv'
    <2>1. SessionsTyped' /\ RegistryTyped' /\ writeLock' = writeLock /\ ops' = ops + 1 /\ ops < MaxOps
        BY <1>2 DEF StartPart, StartAbort, StartComplete, MayCall, Enter, sessionVars, registryVars,
                    TypeInv, Types, SessionsTyped, RegistryTyped, PartsCounted
    <2>2. ops' \in 0 .. MaxOps
        BY <2>1, LimitsAssumption DEF TypeInv, Types
    <2> QED  BY <1>2, <2>1, <2>2, TypesInParts
<1>3. CASE StartPart(t, s)
    <2>1. PICK p \in Payloads :
            /\ MayCall(t, s) /\ declared' = declared
            /\ Enter(t, "chunk", [NoCall EXCEPT !.s = s, !.payload = p.content, !.good = p.good])
        BY <1>3 DEF StartPart, sessionVars
    <2> DEFINE c == [NoCall EXCEPT !.s = s, !.payload = p.content, !.good = p.good]
    <2>2. p.content \in Seq(Chunks) /\ p.good \in BOOLEAN
        BY PayloadsAssumption
    <2>3. c \in Call /\ c.s = s /\ c.at = 0
        BY <2>2, NoCallFields DEF Call
    <2> QED  BY <1>2, <1>3, <2>1, <2>3, EnterTyped DEF MayCall, Steps
<1>4. CASE StartAbort(t, s)
    <2> DEFINE c == [NoCall EXCEPT !.s = s]
    <2>1. c \in Call /\ c.s = s /\ c.at = 0
        BY NoCallFields DEF Call
    <2> QED  BY <1>2, <1>4, <2>1, EnterTyped DEF StartAbort, MayCall, Steps, sessionVars
<1>5. CASE StartComplete(t, s)
    <2> DEFINE c == [NoCall EXCEPT !.s = s, !.digest = hasher[s], !.len = length[s]]
               step == IF declared[s] = "mismatch" THEN "pop" ELSE "lock"
    <2>1. c \in Call /\ c.s = s /\ c.at = 0
        <3>1. hasher[s] \in Seq(Chunks) /\ length[s] \in Nat
            BY DEF TypeInv, Types
        <3> QED  BY <3>1, NoCallFields DEF Call
    <2>2. step \in Steps \ {"patch"}
        BY DEF Steps
    <2>3. MayCall(t, s) /\ Enter(t, step, c) /\ declared' = declared
        BY <1>5 DEF StartComplete, sessionVars
    <2> QED  BY <1>2, <1>5, <2>1, <2>2, <2>3, EnterTyped DEF MayCall
<1> QED  BY <1>1, <1>3, <1>4, <1>5

\* What a step inside a call leaves alone unless it says otherwise.
LEMMA MoveTypes ==
    ASSUME TypeInv, ThreadsTyped', SessionsTyped', RegistryTyped', ops' = ops,
           writeLock' \in Threads \cup {None}
    PROVE  TypeInv'
BY TypesInParts

LEMMA SameSessionsTyped == ASSUME TypeInv, UNCHANGED sessionVars PROVE SessionsTyped'
BY DEF TypeInv, Types, SessionsTyped, PartsCounted, sessionVars

LEMMA SameRegistryTyped == ASSUME TypeInv, UNCHANGED registryVars PROVE RegistryTyped'
BY DEF TypeInv, Types, RegistryTyped, registryVars

\* The DELETE of an upload.
LEMMA ReleasedTyped ==
    ASSUME TypeInv, NEW s \in Sessions, Released(s), UNCHANGED <<blobs, published>>
    PROVE  RegistryTyped'
<1>1. RegistryTyped
    BY DEF TypeInv, Types, RegistryTyped
<1>2. upload' \in [Sessions -> [data : Seq(Chunks), open : BOOLEAN]]
    BY <1>1, NoCallFields DEF RegistryTyped, Released
<1> QED  BY <1>1, <1>2 DEF RegistryTyped

LEMMA PartTypes ==
    ASSUME TypeInv, NEW t \in Threads, PartStep(t)
    PROVE  TypeInv'
<1> DEFINE c == cur[t]
           s == c.s
<1>0. /\ pc[t] # "idle" /\ s \in Sessions /\ c.at \in Nat /\ c.at <= Len(c.payload)
      /\ c.payload \in Seq(Chunks) /\ c.len \in Nat /\ c \in Call
    BY CallFields DEF PartStep, HashChunk, PatchChunk, PatchFails, StoreUpload, FinishPart, RecordPart
<1>1. CASE HashChunk(t)
    <2> DEFINE n == c.at + 1
    <2>0. n \in Nat /\ n > 0 /\ n <= Len(c.payload) /\ c.payload[n] \in Chunks
        BY <1>0, <1>1 DEF HashChunk
    <2>1. SessionsTyped'
        <3>1. hasher' \in [Sessions -> Seq(Chunks)]
            <4>1. hasher \in [Sessions -> Seq(Chunks)]
                BY DEF TypeInv, Types
            <4>2. Append(hasher[s], c.payload[n]) \in Seq(Chunks)
                BY <1>0, <2>0, <4>1
            <4>3. hasher' = hasher \/ hasher' = [hasher EXCEPT ![s] = Append(hasher[s], c.payload[n])]
                BY <1>1 DEF HashChunk
            <4> HIDE DEF n
            <4> QED  BY <4>1, <4>2, <4>3
        <3> QED  BY <1>1, <3>1 DEF HashChunk, TypeInv, Types, SessionsTyped, PartsCounted
    <2>2. RegistryTyped' /\ writeLock' \in Threads \cup {None} /\ ops' = ops /\ declared' = declared
        BY <1>1, SameRegistryTyped DEF HashChunk, TypeInv, Types
    <2>3. ThreadsTyped'
        <3>1. CASE Goto(t, "pop")
            BY <1>0, <2>2, <3>1, MoveTyped DEF Steps
        <3>2. CASE cur' = [cur EXCEPT ![t].at = n] /\ pc' = [pc EXCEPT ![t] = "patch"]
            <4>1. pc' \in [Threads -> Steps] /\ cur' \in [Threads -> Call]
                BY <1>0, <2>0, <3>2 DEF TypeInv, Types, Steps, Call
            <4>2. /\ cur'[t].s = s /\ cur'[t].at = n /\ cur'[t].payload = c.payload
                  /\ \A u \in Threads \ {t} : cur'[u] = cur[u] /\ pc'[u] = pc[u]
                BY <1>0, <3>2 DEF TypeInv, Types, Call
            <4>3. declared[s] # None
                BY <1>0, CallFields
            <4>4. CallShape'
                BY <1>0, <2>0, <2>2, <4>2, <4>3 DEF CallShape, TypeInv
            <4> QED  BY <4>1, <4>4 DEF ThreadsTyped
        <3> QED  BY <1>1, <3>1, <3>2 DEF HashChunk
    <2> QED  BY <2>1, <2>2, <2>3, MoveTypes
<1>2. CASE PatchChunk(t)
    <2>0. c.at > 0 /\ c.payload[c.at] \in Chunks
        BY <1>0, <1>2 DEF PatchChunk, TypeInv, CallShape
    <2>1. RegistryTyped'
        <3>1. upload \in [Sessions -> [data : Seq(Chunks), open : BOOLEAN]]
            BY DEF TypeInv, Types
        <3>2. Append(upload[s].data, c.payload[c.at]) \in Seq(Chunks)
            BY <1>0, <2>0, <3>1
        <3>3. upload' = [upload EXCEPT ![s].data = Append(upload[s].data, c.payload[c.at])]
            BY <1>2 DEF PatchChunk
        <3>4. upload' \in [Sessions -> [data : Seq(Chunks), open : BOOLEAN]]
            BY <3>1, <3>2, <3>3
        <3> QED  BY <1>2, <3>4 DEF PatchChunk, TypeInv, Types, RegistryTyped
    <2>2. SessionsTyped' /\ writeLock' \in Threads \cup {None} /\ ops' = ops /\ declared' = declared
        BY <1>2, SameSessionsTyped DEF PatchChunk, TypeInv, Types, sessionVars
    <2>3. ThreadsTyped'
        <3>1. CASE Goto(t, "pop")
            BY <1>0, <2>2, <3>1, MoveTyped DEF Steps
        <3>2. CASE pc' = [pc EXCEPT ![t] = "store"] /\ cur' = [cur EXCEPT ![t].len = offset[s] + 1]
            <4>0. offset[s] + 1 \in Nat
                BY <1>0 DEF TypeInv, Types
            <4>1. pc' \in [Threads -> Steps] /\ cur' \in [Threads -> Call]
                BY <1>0, <4>0, <3>2 DEF TypeInv, Types, Steps, Call
            <4>2. /\ cur'[t].s = s /\ cur'[t].at = c.at /\ cur'[t].payload = c.payload
                  /\ pc'[t] = "store"
                  /\ \A u \in Threads \ {t} : cur'[u] = cur[u] /\ pc'[u] = pc[u]
                BY <1>0, <3>2 DEF TypeInv, Types, Call
            <4>3. declared[s] # None
                BY <1>0, CallFields
            <4>4. CallShape'
                BY <1>0, <2>2, <4>2, <4>3 DEF CallShape, TypeInv
            <4> QED  BY <4>1, <4>4 DEF ThreadsTyped
        <3> QED  BY <1>2, <3>1, <3>2 DEF PatchChunk
    <2> QED  BY <2>1, <2>2, <2>3, MoveTypes
<1>3. CASE PatchFails(t)
    <2>1. SessionsTyped' /\ RegistryTyped'
        BY <1>3, SameSessionsTyped, SameRegistryTyped DEF PatchFails
    <2>2. ThreadsTyped'
        BY <1>0, <1>3, MoveTyped DEF PatchFails, Steps, sessionVars
    <2> QED  BY <1>3, <2>1, <2>2, MoveTypes DEF PatchFails, TypeInv, Types
<1>4. CASE StoreUpload(t)
    <2>1. SessionsTyped' /\ RegistryTyped'
        <3>1. offset' \in [Sessions -> Nat]
            BY <1>0, <1>4 DEF StoreUpload, TypeInv, Types
        <3> QED  BY <1>4, <3>1, SameRegistryTyped
                    DEF StoreUpload, TypeInv, Types, SessionsTyped, PartsCounted
    <2>2. ThreadsTyped'
        BY <1>0, <1>4, MoveTyped DEF StoreUpload, Steps
    <2> QED  BY <1>4, <2>1, <2>2, MoveTypes DEF StoreUpload, TypeInv, Types
<1>5. CASE FinishPart(t)
    <2>1. SessionsTyped' /\ RegistryTyped'
        <3>1. length' \in [Sessions -> Nat]
            <4>1. length \in [Sessions -> Nat]
                BY DEF TypeInv, Types
            <4>2. length' = length \/ length' = [length EXCEPT ![s] = length[s] + c.at]
                BY <1>5 DEF FinishPart
            <4>3. length[s] + c.at \in Nat
                BY <1>0, <4>1
            <4> QED  BY <4>1, <4>2, <4>3
        <3> QED  BY <1>5, <3>1, SameRegistryTyped
                    DEF FinishPart, TypeInv, Types, SessionsTyped, PartsCounted
    <2>2. ThreadsTyped'
        BY <1>0, <1>5, MoveTyped DEF FinishPart, Steps
    <2> QED  BY <1>5, <2>1, <2>2, MoveTypes DEF FinishPart, TypeInv, Types
<1>6. CASE RecordPart(t)
    <2>1. parts[s] \in Seq(Seq(Chunks)) /\ nextPart[s] = Len(parts[s]) + 1
        BY <1>0 DEF TypeInv, Types, PartsCounted
    <2>2. /\ Append(parts[s], c.payload) \in Seq(Seq(Chunks))
          /\ Len(Append(parts[s], c.payload)) = Len(parts[s]) + 1
        BY <1>0, <2>1
    <2>3. SessionsTyped'
        <3>1. parts \in [Sessions -> Seq(Seq(Chunks))] /\ nextPart \in [Sessions -> Nat] /\ PartsCounted
            BY DEF TypeInv, Types
        <3>2. /\ parts' = [parts EXCEPT ![s] = Append(parts[s], c.payload)]
              /\ nextPart' = [nextPart EXCEPT ![s] = nextPart[s] + 1]
            BY <1>6 DEF RecordPart
        <3>3. parts' \in [Sessions -> Seq(Seq(Chunks))] /\ nextPart' \in [Sessions -> Nat]
            BY <1>0, <2>2, <3>1, <3>2
        <3>4. ASSUME NEW r \in Sessions PROVE nextPart'[r] = Len(parts'[r]) + 1
            <4>1. CASE r = s
                BY <2>1, <2>2, <3>1, <3>2, <4>1
            <4>2. CASE r # s
                BY <3>1, <3>2, <4>2 DEF PartsCounted
            <4> QED  BY <4>1, <4>2
        <3> QED  BY <1>6, <3>3, <3>4 DEF RecordPart, TypeInv, Types, SessionsTyped, PartsCounted
    <2>4. ThreadsTyped'
        BY <1>0, <1>6, MoveTyped DEF RecordPart
    <2> QED  BY <1>6, <2>3, <2>4, SameRegistryTyped, MoveTypes DEF RecordPart, TypeInv, Types
<1> QED  BY <1>1, <1>2, <1>3, <1>4, <1>5, <1>6 DEF PartStep

LEMMA AbortTypes ==
    ASSUME TypeInv, NEW t \in Threads, AbortStep(t)
    PROVE  TypeInv'
<1> DEFINE s == cur[t].s
<1>0. pc[t] # "idle" /\ s \in Sessions
    BY CallFields DEF AbortStep, PopSession, ReleaseUpload, LookBeforeAbort, MarkAborted
<1>1. ThreadsTyped'
    BY <1>0, MoveTyped
       DEF AbortStep, PopSession, ReleaseUpload, LookBeforeAbort, MarkAborted, Steps, sessionVars
<1>2. RegistryTyped'
    BY <1>0, ReleasedTyped, SameRegistryTyped
       DEF AbortStep, PopSession, ReleaseUpload, LookBeforeAbort, MarkAborted
<1>3. SessionsTyped'
    <2>1. CASE PopSession(t)
        BY <2>1 DEF PopSession, TypeInv, Types, SessionsTyped, PartsCounted
    <2>2. CASE ReleaseUpload(t) \/ LookBeforeAbort(t)
        BY <2>2, SameSessionsTyped DEF ReleaseUpload, LookBeforeAbort
    <2>3. CASE MarkAborted(t)
        BY <1>0, <2>3 DEF MarkAborted, TypeInv, Types, SessionsTyped, PartsCounted
    <2> QED  BY <2>1, <2>2, <2>3 DEF AbortStep
<1>4. writeLock' = writeLock /\ ops' = ops
    BY DEF AbortStep, PopSession, ReleaseUpload, LookBeforeAbort, MarkAborted
<1> QED  BY <1>1, <1>2, <1>3, <1>4, MoveTypes DEF TypeInv, Types

LEMMA CompleteTypes ==
    ASSUME TypeInv, NEW t \in Threads, CompleteStep(t)
    PROVE  TypeInv'
<1> DEFINE s == cur[t].s
<1>0. pc[t] # "idle" /\ s \in Sessions
    BY CallFields DEF CompleteStep, TakeWriteLock, FinishUpload, FinishFails, EnterVerifying, CommitObject,
                      EnterCommitted, LookBeforeFail, DiscardUpload, FailMachine, CleanUp
<1>1. declared' = declared /\ ops' = ops
    BY DEF CompleteStep, TakeWriteLock, FinishUpload, FinishFails, EnterVerifying, CommitObject,
           EnterCommitted, LookBeforeFail, DiscardUpload, FailMachine, CleanUp, sessionVars
<1>2. writeLock' \in {writeLock, t, None}
    BY DEF CompleteStep, TakeWriteLock, FinishUpload, FinishFails, EnterVerifying, CommitObject, Raise,
           Proceed, EnterCommitted, LookBeforeFail, DiscardUpload, FailMachine, CleanUp
<1>3. ThreadsTyped'
    <2>1. \/ \E step \in Steps \ {"patch"} : Goto(t, step)
          \/ Leave(t)
        BY DEF CompleteStep, TakeWriteLock, FinishUpload, FinishFails, EnterVerifying, CommitObject, Raise,
               Proceed, EnterCommitted, LookBeforeFail, DiscardUpload, FailMachine, CleanUp, Steps
    <2> QED  BY <1>0, <1>1, <2>1, MoveTyped
<1>4. RegistryTyped'
    <2>1. CASE FinishUpload(t)
        <3>1. RegistryTyped /\ upload[s].data \in Seq(Chunks)
            BY <1>0 DEF TypeInv, Types, RegistryTyped
        <3>2. /\ upload' = [upload EXCEPT ![s] = NoUpload] /\ blobs' = blobs \cup {upload[s].data}
              /\ published' = published
            BY <2>1 DEF FinishUpload
        <3> QED  BY <3>1, <3>2, NoCallFields DEF RegistryTyped
    <2>2. CASE CommitObject(t)
        <3> DEFINE id == [digest |-> cur[t].digest, len |-> cur[t].len]
        <3>1. id \in Identity
            BY CallFields DEF Identity
        <3>2. /\ published' = published \/ published' = [published EXCEPT ![s] = id]
              /\ upload' = upload /\ blobs' = blobs
            BY <2>2 DEF CommitObject
        <3> HIDE DEF id
        <3> QED  BY <3>1, <3>2 DEF RegistryTyped, TypeInv, Types
    <2>3. CASE DiscardUpload(t)
        BY <1>0, <2>3, ReleasedTyped DEF DiscardUpload
    <2> QED  BY <2>1, <2>2, <2>3, SameRegistryTyped
                DEF CompleteStep, TakeWriteLock, FinishFails, EnterVerifying, EnterCommitted,
                    LookBeforeFail, FailMachine, CleanUp
<1>5. SessionsTyped'
    <2>1. CASE EnterVerifying(t) \/ EnterCommitted(t) \/ FailMachine(t)
        <3>1. \/ machine' = machine
              \/ \E to \in {"VERIFYING", "COMMITTED", "FAILED", "UNCERTAIN"} :
                    machine' = [machine EXCEPT ![s] = to]
              \/ \E to \in {"FAILED", "UNCERTAIN"} : Failed(s, to)
            BY <2>1 DEF EnterVerifying, EnterCommitted, FailMachine
        <3>2. machine' \in [Sessions -> {"NEW", "UPLOADING", "VERIFYING", "COMMITTED", "ABORTED", "FAILED",
                                         "UNCERTAIN"}]
            BY <1>0, <3>1 DEF Failed, TypeInv, Types
        <3> QED  BY <2>1, <3>2 DEF EnterVerifying, EnterCommitted, FailMachine, TypeInv, Types, SessionsTyped,
                                   PartsCounted
    <2>2. CASE CleanUp(t)
        BY <2>2 DEF CleanUp, TypeInv, Types, SessionsTyped, PartsCounted
    <2> QED  BY <2>1, <2>2, SameSessionsTyped
                DEF CompleteStep, TakeWriteLock, FinishUpload, FinishFails, CommitObject, LookBeforeFail,
                    DiscardUpload
<1> QED  BY <1>1, <1>2, <1>3, <1>4, <1>5, MoveTypes DEF TypeInv, Types

\* TypeInv is inductive.
LEMMA TypeNext == TypeInv /\ [Next]_vars => TypeInv'
<1> SUFFICES ASSUME TypeInv, [Next]_vars PROVE TypeInv'
    OBVIOUS
<1>1. ASSUME NEW t \in Threads, ThreadStep(t) PROVE TypeInv'
    BY <1>1, PartTypes, AbortTypes, CompleteTypes DEF ThreadStep
<1>2. CASE UNCHANGED vars
    BY <1>2 DEF vars, sessionVars, registryVars, TypeInv, Types, CallShape, PartsCounted
<1> QED  BY <1>1, <1>2, StartTypes DEF Next, Quiesce

LEMMA TypeInit == Init => TypeInv
<1> SUFFICES ASSUME Init PROVE TypeInv
    OBVIOUS
<1>1. Types
    BY NoCallFields, LimitsAssumption DEF Init, Types, Steps
<1>2. CallShape /\ PartsCounted
    BY DEF Init, CallShape, PartsCounted
<1> QED  BY <1>1, <1>2 DEF TypeInv

-----------------------------------------------------------------------------
(* What is published is stored                                             *)

\* What a step of a thread inside a call does to the threads.
LEMMA StepMoves ==
    ASSUME TypeInv, NEW t \in Threads, ThreadStep(t)
    PROVE  /\ pc[t] # "idle"
           /\ pc'[t] = "idle" \/ (cur'[t].s = cur[t].s /\ cur'[t].digest = cur[t].digest)
           /\ \A u \in Threads \ {t} : pc'[u] = pc[u] /\ cur'[u] = cur[u]
<1>1. CASE HashChunk(t) \/ PatchChunk(t)
    BY <1>1 DEF HashChunk, PatchChunk, Goto, TypeInv, Types, Call
<1>2. ASSUME pc[t] # "idle", (\E step \in Steps : Goto(t, step)) \/ Leave(t)
      PROVE  /\ pc[t] # "idle"
             /\ pc'[t] = "idle" \/ (cur'[t].s = cur[t].s /\ cur'[t].digest = cur[t].digest)
             /\ \A u \in Threads \ {t} : pc'[u] = pc[u] /\ cur'[u] = cur[u]
    BY <1>2 DEF Goto, Leave, TypeInv, Types
<1>3. CASE PatchFails(t) \/ StoreUpload(t) \/ FinishPart(t) \/ RecordPart(t)
    BY <1>2, <1>3 DEF PatchFails, StoreUpload, FinishPart, RecordPart, Steps
<1>4. CASE AbortStep(t)
    BY <1>2, <1>4 DEF AbortStep, PopSession, ReleaseUpload, LookBeforeAbort, MarkAborted, Steps
<1>5. CASE CompleteStep(t)
    BY <1>2, <1>5 DEF CompleteStep, TakeWriteLock, FinishUpload, FinishFails, EnterVerifying, CommitObject,
                      Raise, Proceed, EnterCommitted, LookBeforeFail, DiscardUpload, FailMachine, CleanUp,
                      Steps
<1> QED  BY <1>1, <1>3, <1>4, <1>5 DEF ThreadStep, PartStep

\* What a step of a thread inside a call does to the registry.
LEMMA StepStores ==
    ASSUME TypeInv, NEW t \in Threads, ThreadStep(t)
    PROVE  /\ blobs \subseteq blobs'
           /\ \/ published' = published
              \/ /\ pc[t] = "commit"
                 /\ published' = [published EXCEPT ![cur[t].s] =
                                    [digest |-> cur[t].digest, len |-> cur[t].len]]
           /\ pc'[t] = "verify" => cur[t].digest \in blobs'
           /\ pc'[t] = "commit" => pc[t] = "verify"
<1>0. pc \in [Threads -> Steps]
    BY DEF TypeInv, Types
<1>1. CASE PartStep(t)
    BY <1>0, <1>1 DEF PartStep, HashChunk, PatchChunk, PatchFails, StoreUpload, FinishPart, RecordPart, Goto,
                Leave, registryVars
<1>2. CASE AbortStep(t)
    BY <1>0, <1>2 DEF AbortStep, PopSession, ReleaseUpload, LookBeforeAbort, MarkAborted, Goto, Leave,
                registryVars
<1>3. CASE FinishUpload(t) \/ CommitObject(t)
    BY <1>0, <1>3 DEF FinishUpload, CommitObject, Proceed, Raise, Goto
<1>4. CASE TakeWriteLock(t) \/ FinishFails(t) \/ EnterVerifying(t) \/ EnterCommitted(t)
    BY <1>0, <1>4 DEF TakeWriteLock, FinishFails, EnterVerifying, EnterCommitted, Proceed, Raise, Goto,
                registryVars
<1>5. CASE LookBeforeFail(t) \/ DiscardUpload(t) \/ FailMachine(t) \/ CleanUp(t)
    BY <1>0, <1>5 DEF LookBeforeFail, DiscardUpload, FailMachine, CleanUp, Goto, Leave, registryVars
<1> QED  BY <1>1, <1>2, <1>3, <1>4, <1>5 DEF ThreadStep, CompleteStep

\* What a new call does to the threads and the registry.
LEMMA StartMoves ==
    ASSUME TypeInv, NEW t \in Threads, NEW s \in Sessions,
           StartPart(t, s) \/ StartAbort(t, s) \/ StartComplete(t, s)
    PROVE  /\ MayCall(t, s)
           /\ pc'[t] \in {"chunk", "pop", "lock"} /\ cur'[t].s = s /\ cur'[t].at = 0
           /\ \A u \in Threads \ {t} : pc'[u] = pc[u] /\ cur'[u] = cur[u]
           /\ UNCHANGED <<sessionVars, registryVars, writeLock>>
<1>1. PICK step \in {"chunk", "pop", "lock"} :
        \E c : Enter(t, step, c) /\ c.s = s /\ c.at = 0
    <2>1. CASE StartPart(t, s)
        <3>1. PICK p : Enter(t, "chunk", [NoCall EXCEPT !.s = s, !.payload = p.content, !.good = p.good])
            BY <2>1 DEF StartPart
        <3> DEFINE c == [NoCall EXCEPT !.s = s, !.payload = p.content, !.good = p.good]
        <3>2. c.s = s /\ c.at = 0
            BY NoCallFields DEF Call
        <3> HIDE DEF c
        <3> QED  BY <3>1, <3>2 DEF c
    <2>2. CASE StartAbort(t, s)
        BY <2>2, NoCallFields DEF StartAbort, Call
    <2>3. CASE StartComplete(t, s)
        <3> DEFINE c == [NoCall EXCEPT !.s = s, !.digest = hasher[s], !.len = length[s]]
        <3>1. c.s = s /\ c.at = 0
            BY NoCallFields DEF Call
        <3>2. Enter(t, "pop", c) \/ Enter(t, "lock", c)
            BY <2>3 DEF StartComplete
        <3> HIDE DEF c
        <3> QED  BY <3>1, <3>2
    <2> QED  BY <2>1, <2>2, <2>3
<1>2. MayCall(t, s) /\ UNCHANGED <<sessionVars, registryVars, writeLock>>
    BY DEF StartPart, StartAbort, StartComplete
<1> QED  BY <1>1, <1>2 DEF Enter, TypeInv, Types

\* ContentStored is inductive.
LEMMA StoredNext ==
    ASSUME TypeInv, ContentStored, [Next]_vars
    PROVE  ContentStored'
<1>1. ASSUME NEW t \in Threads, ThreadStep(t) PROVE ContentStored'
    <2>1. ASSUME NEW u \in Threads, pc'[u] \in {"verify", "commit"} PROVE cur'[u].digest \in blobs'
        <3>1. CASE u = t
            <4>1. cur'[t].digest = cur[t].digest /\ pc'[t] \in {"verify", "commit"}
                BY <1>1, <2>1, <3>1, StepMoves
            <4> QED  BY <1>1, <3>1, <4>1, StepStores DEF ContentStored
        <3>2. CASE u # t
            BY <1>1, <2>1, <3>2, StepMoves, StepStores DEF ContentStored
        <3> QED  BY <3>1, <3>2
    <2>2. ASSUME NEW s \in Sessions, published'[s] # None PROVE published'[s].digest \in blobs'
        <3>1. CASE published'[s] = published[s]
            BY <1>1, <2>2, <3>1, StepStores DEF ContentStored, PublishedContentStored
        <3>2. CASE pc[t] = "commit" /\ published'[s] = [digest |-> cur[t].digest, len |-> cur[t].len]
            BY <1>1, <3>2, StepStores DEF ContentStored
        <3> QED  BY <1>1, <3>1, <3>2, StepStores DEF TypeInv, Types
    <2> QED  BY <2>1, <2>2 DEF ContentStored, PublishedContentStored
<1>2. ASSUME NEW t \in Threads, NEW s \in Sessions,
             StartPart(t, s) \/ StartAbort(t, s) \/ StartComplete(t, s)
      PROVE  ContentStored'
    <2>1. /\ pc'[t] \notin {"verify", "commit"} /\ UNCHANGED <<blobs, published>>
          /\ \A u \in Threads \ {t} : pc'[u] = pc[u] /\ cur'[u] = cur[u]
        BY <1>2, StartMoves DEF registryVars
    <2> QED  BY <2>1 DEF ContentStored, PublishedContentStored
<1>3. ASSUME NEW t \in Threads, NEW s \in Sessions, Begin(t, s) PROVE ContentStored'
    BY <1>3 DEF Begin, ContentStored, PublishedContentStored
<1>4. CASE UNCHANGED vars
    BY <1>4 DEF vars, registryVars, ContentStored, PublishedContentStored
<1> QED  BY <1>1, <1>2, <1>3, <1>4 DEF Next, Quiesce

-----------------------------------------------------------------------------
(* Steps about another session                                             *)

SameSession(s) ==
    /\ declared'[s] = declared[s] /\ offset'[s] = offset[s] /\ hasher'[s] = hasher[s]
    /\ length'[s] = length[s] /\ parts'[s] = parts[s] /\ machine'[s] = machine[s]
    /\ published'[s] = published[s] /\ (s \in table' <=> s \in table)

\* The threads inside a call on the session are where they were.
SameServing(s) ==
    \A t \in Threads : \/ pc'[t] = pc[t] /\ cur'[t] = cur[t]
                       \/ ~Serving(t, s) /\ ~Serving(t, s)'

\* What is said of a session depends on nothing but the session and the calls on it.
LEMMA OtherSession ==
    ASSUME NEW s \in Sessions, SameSession(s), SameServing(s), SessionInv(s)
    PROVE  SessionInv(s)'
<1>1. ASSUME NEW t \in Threads
      PROVE  /\ Serving(t, s)' <=> Serving(t, s)
             /\ Serving(t, s) => pc'[t] = pc[t] /\ cur'[t] = cur[t]
    BY DEF SameServing, Serving
<1>2. Busy(s)' <=> Busy(s)
    BY <1>1 DEF Busy, Serving
<1>3. Fresh(s)' <=> Fresh(s)
    BY DEF Fresh, SameSession
<1>4. ASSUME NEW t \in Threads, Serving(t, s)' PROVE Engaged(t, s)'
    <2>1. Engaged(t, s) /\ pc'[t] = pc[t] /\ cur'[t] = cur[t]
        BY <1>1, <1>4 DEF SessionInv
    <2>2. Receiving(t, s) => Receiving(t, s)'
        BY <1>3, <2>1 DEF Receiving, SameSession
    <2>3. Committing(t, s) => Committing(t, s)'
        BY <2>1 DEF Committing, SameSession
    <2> QED  BY <1>3, <2>1, <2>2, <2>3 DEF Engaged, SameSession
<1>5. WithinLimits(s)' /\ (Untouched(s) => Untouched(s)')
    BY DEF SessionInv, WithinLimits, Untouched, SameSession
<1>6. Resting(s) => Resting(s)'
    BY <1>3 DEF Resting, SameSession
<1> QED  BY <1>1, <1>2, <1>4, <1>5, <1>6 DEF SessionInv, SameSession

\* A step of a call changes only the session of the call.
LEMMA StepAboutOther ==
    ASSUME TypeInv, NEW t \in Threads, ThreadStep(t), NEW s \in Sessions, s # cur[t].s
    PROVE  SameSession(s) /\ SameServing(s)
<1>1. SameServing(s)
    <2>1. ~Serving(t, s) /\ ~Serving(t, s)'
        BY StepMoves DEF Serving
    <2> QED  BY <2>1, StepMoves DEF SameServing
<1>2. published'[s] = published[s]
    BY StepStores DEF TypeInv, Types
<1>3. CASE PartStep(t)
    BY <1>1, <1>2, <1>3 DEF PartStep, HashChunk, PatchChunk, PatchFails, StoreUpload, FinishPart, RecordPart,
                            sessionVars, SameSession, TypeInv, Types
<1>4. CASE AbortStep(t)
    BY <1>1, <1>2, <1>4 DEF AbortStep, PopSession, ReleaseUpload, LookBeforeAbort, MarkAborted, sessionVars,
                            SameSession, TypeInv, Types
<1>5. CASE EnterVerifying(t) \/ EnterCommitted(t) \/ FailMachine(t) \/ CleanUp(t)
    BY <1>1, <1>2, <1>5 DEF EnterVerifying, EnterCommitted, FailMachine, Failed, CleanUp, SameSession,
                            TypeInv, Types
<1>6. CASE UNCHANGED sessionVars
    BY <1>1, <1>2, <1>6 DEF sessionVars, SameSession
<1> QED  BY <1>3, <1>4, <1>5, <1>6
            DEF ThreadStep, CompleteStep, TakeWriteLock, FinishUpload, FinishFails, CommitObject,
                LookBeforeFail, DiscardUpload

\* So does the start of a call.
LEMMA StartAboutOther ==
    ASSUME TypeInv, NEW t \in Threads, NEW r \in Sessions, NEW s \in Sessions, s # r,
           Begin(t, r) \/ StartPart(t, r) \/ StartAbort(t, r) \/ StartComplete(t, r)
    PROVE  SameSession(s) /\ SameServing(s)
<1>1. CASE Begin(t, r)
    BY <1>1 DEF Begin, SameSession, SameServing, TypeInv, Types
<1>2. CASE StartPart(t, r) \/ StartAbort(t, r) \/ StartComplete(t, r)
    <2>1. ~Serving(t, s) /\ ~Serving(t, s)'
        BY <1>2, StartMoves DEF Serving, MayCall
    <2> QED  BY <1>2, <2>1, StartMoves DEF SameServing, SameSession, sessionVars, registryVars
<1> QED  BY <1>1, <1>2

-----------------------------------------------------------------------------
(* Steps about an unshared session                                         *)

\* The invariant of a session whose only call, if any, is this thread's.
Alone(t, s) ==
    /\ WithinLimits(s)
    /\ Serving(t, s) => Engaged(t, s)
    /\ declared[s] # None
    /\ (s \in table /\ ~Serving(t, s)) => Resting(s)
    /\ published[s] # None => /\ Concatenation(published[s].digest, parts[s])
                              /\ published[s].len = Len(published[s].digest)
    /\ machine[s] \in {"ABORTED", "FAILED"} => published[s] = None

LEMMA AloneSuffices ==
    ASSUME TypeInv, NEW s \in Sessions, SessionInv(s), NEW t \in Threads, Serving(t, s), ThreadStep(t)
    PROVE  Alone(t, s) /\ (Alone(t, s)' => SessionInv(s)')
<1>1. \A u \in Threads : Serving(u, s)' => u = t
    BY StepMoves DEF SessionInv, Serving
<1>2. Busy(s)' <=> Serving(t, s)'
    BY <1>1 DEF Busy, Serving
<1>3. declared[s] # None
    BY CallFields DEF Serving
<1>4. Alone(t, s)
    BY <1>3 DEF SessionInv, Alone
<1>5. Alone(t, s)' => SessionInv(s)'
    BY <1>1, <1>2 DEF SessionInv, Alone
<1> QED  BY <1>4, <1>5

\* Where the thread is after the step.
LEMMA GotoServing ==
    ASSUME TypeInv, NEW t \in Threads, pc[t] # "idle", NEW step \in Steps \ {"idle"}, Goto(t, step)
    PROVE  pc'[t] = step /\ cur'[t] = cur[t] /\ Serving(t, cur[t].s)'
BY DEF Goto, Serving, TypeInv, Types

LEMMA LeaveServing ==
    ASSUME TypeInv, NEW t \in Threads, NEW s, Leave(t)
    PROVE  ~Serving(t, s)'
BY DEF Leave, Serving, TypeInv, Types

\* A step that leaves alone what the limits and the outcome of the session are about.
SameOutcome(s) ==
    /\ declared'[s] = declared[s] /\ offset'[s] = offset[s] /\ parts'[s] = parts[s]
    /\ machine'[s] = machine[s] /\ published'[s] = published[s]

LEMMA StillEngaged ==
    ASSUME NEW t \in Threads, NEW s \in Sessions, Alone(t, s), SameOutcome(s), Serving(t, s)', Engaged(t, s)'
    PROVE  Alone(t, s)'
BY DEF Alone, SameOutcome, WithinLimits

\* A failure of upload_part, or a completion that does not match: abort_multipart.
LEMMA GoesToAbort ==
    ASSUME TypeInv, NEW t \in Threads, NEW s \in Sessions, Serving(t, s), Alone(t, s), SameOutcome(s),
           Fresh(s), Goto(t, "pop")
    PROVE  Alone(t, s)'
<1>1. pc'[t] = "pop" /\ Serving(t, s)'
    BY GotoServing DEF Serving, Steps
<1>2. Fresh(s)'
    BY DEF Fresh, SameOutcome
<1>3. Engaged(t, s)'
    BY <1>1, <1>2 DEF Engaged
<1> QED  BY <1>1, <1>3, StillEngaged

LEMMA HashKeeps ==
    ASSUME TypeInv, NEW t \in Threads, NEW s \in Sessions, Serving(t, s), Alone(t, s), HashChunk(t)
    PROVE  Alone(t, s)'
<1> DEFINE c == cur[t]
           n == c.at + 1
           h == hasher[s]
<1>0. /\ pc[t] = "chunk" /\ c.s = s /\ c.at < Len(c.payload) /\ c.at \in Nat /\ c.payload \in Seq(Chunks)
      /\ c \in Call /\ SameOutcome(s)
    BY CallFields DEF HashChunk, Serving, SameOutcome, registryVars
<1>1. Receiving(t, s)
    BY <1>0 DEF Alone, Engaged
<1>2. CASE Goto(t, "pop")
    BY <1>0, <1>1, <1>2, GoesToAbort DEF Receiving
<1>3. CASE /\ ~(n > PartSize \/ length[s] + n > MaxObject)
           /\ hasher' = [hasher EXCEPT ![s] = Append(@, c.payload[n])]
           /\ cur' = [cur EXCEPT ![t].at = n]
           /\ pc' = [pc EXCEPT ![t] = "patch"]
    <2>1. h \in Seq(Chunks) /\ parts[s] \in Seq(Seq(Chunks)) /\ length[s] \in Nat /\ offset[s] \in Nat
        BY DEF TypeInv, Types
    <2>2. /\ hasher'[s] = Append(h, c.payload[n]) /\ pc'[t] = "patch"
          /\ cur'[t].s = s /\ cur'[t].at = n /\ cur'[t].payload = c.payload
        BY <1>0, <1>3 DEF TypeInv, Types, Call
    <2>3. length'[s] = length[s] /\ parts'[s] = parts[s] /\ offset'[s] = offset[s]
        BY DEF HashChunk
    <2>4. Concatenation(hasher'[s], Append(parts'[s], SubSeq(cur'[t].payload, 1, cur'[t].at)))
        <3>1. Concatenation(h, Append(parts[s], SubSeq(c.payload, 1, c.at)))
            BY <1>1 DEF Receiving
        <3>2. Concatenation(Append(h, c.payload[n]), Append(parts[s], SubSeq(c.payload, 1, n)))
            BY <1>0, <2>1, <3>1, ConcatenationGrows
        <3> QED  BY <2>2, <2>3, <3>2
    <2>5. Len(hasher'[s]) = Len(h) + 1 /\ Len(h) \in Nat
        BY <1>0, <2>1, <2>2
    <2>6. /\ Len(parts[s]) < MaxParts /\ Len(h) = length[s] + c.at /\ offset[s] = Len(h)
        BY <1>0, <1>1 DEF Receiving
    <2>7. Len(hasher'[s]) = length[s] + n /\ length[s] + n <= MaxObject
        BY <1>0, <1>3, <2>1, <2>5, <2>6, LimitsAssumption
    <2>8. Fresh(s)'
        BY <1>0, <1>1 DEF Receiving, Fresh, SameOutcome
    <2>9. Receiving(t, s)'
        BY <2>2, <2>3, <2>4, <2>5, <2>6, <2>7, <2>8 DEF Receiving
    <2>10. Serving(t, s)' /\ Engaged(t, s)'
        BY <2>2, <2>9 DEF Serving, Engaged
    <2> QED  BY <1>0, <2>10, StillEngaged
<1> QED  BY <1>0, <1>2, <1>3 DEF HashChunk

LEMMA PatchKeeps ==
    ASSUME TypeInv, NEW t \in Threads, NEW s \in Sessions, Serving(t, s), Alone(t, s),
           PatchChunk(t) \/ PatchFails(t)
    PROVE  Alone(t, s)'
<1> DEFINE c == cur[t]
<1>0. /\ pc[t] = "patch" /\ c.s = s /\ c \in Call /\ SameOutcome(s)
      /\ length'[s] = length[s] /\ hasher'[s] = hasher[s]
    BY CallFields DEF PatchChunk, PatchFails, Serving, SameOutcome, sessionVars, registryVars
<1>1. Receiving(t, s)
    BY <1>0 DEF Alone, Engaged
<1>2. CASE Goto(t, "pop")
    BY <1>0, <1>1, <1>2, GoesToAbort DEF Receiving
<1>3. CASE pc' = [pc EXCEPT ![t] = "store"] /\ cur' = [cur EXCEPT ![t].len = offset[s] + 1]
    <2>1. /\ pc'[t] = "store" /\ cur'[t].s = s /\ cur'[t].len = offset[s] + 1
          /\ cur'[t].payload = c.payload /\ cur'[t].at = c.at
        BY <1>0, <1>3 DEF TypeInv, Types, Call
    <2>2. Receiving(t, s)'
        BY <1>0, <1>1, <2>1 DEF Receiving, Fresh, SameOutcome
    <2>3. Serving(t, s)' /\ Engaged(t, s)'
        BY <2>1, <2>2 DEF Serving, Engaged
    <2> QED  BY <1>0, <2>3, StillEngaged
<1> QED  BY <1>0, <1>2, <1>3 DEF PatchChunk, PatchFails

LEMMA StoreKeeps ==
    ASSUME TypeInv, NEW t \in Threads, NEW s \in Sessions, Serving(t, s), Alone(t, s), StoreUpload(t)
    PROVE  Alone(t, s)'
<1> DEFINE c == cur[t]
<1>0. pc[t] = "store" /\ c.s = s /\ Goto(t, "chunk")
    BY DEF StoreUpload, Serving
<1>1. Receiving(t, s)
    BY <1>0 DEF Alone, Engaged
<1>2. pc'[t] = "chunk" /\ cur'[t] = c /\ Serving(t, s)'
    BY <1>0, GotoServing DEF Steps
<1>3. /\ offset'[s] = c.len /\ length'[s] = length[s] /\ hasher'[s] = hasher[s] /\ parts'[s] = parts[s]
      /\ machine'[s] = machine[s] /\ published'[s] = published[s] /\ declared'[s] = declared[s]
    BY <1>0 DEF StoreUpload, registryVars, TypeInv, Types
<1>4. c.len = Len(hasher[s]) /\ Len(hasher[s]) <= MaxObject
    BY <1>0, <1>1 DEF Receiving
<1>5. Receiving(t, s)'
    BY <1>0, <1>1, <1>2, <1>3, <1>4 DEF Receiving, Fresh
<1>6. Engaged(t, s)'
    BY <1>2, <1>5 DEF Engaged
<1> QED  BY <1>2, <1>3, <1>4, <1>6 DEF Alone, WithinLimits

LEMMA FinishKeeps ==
    ASSUME TypeInv, NEW t \in Threads, NEW s \in Sessions, Serving(t, s), Alone(t, s), FinishPart(t)
    PROVE  Alone(t, s)'
<1> DEFINE c == cur[t]
<1>0. /\ pc[t] = "chunk" /\ c.s = s /\ c.at = Len(c.payload) /\ SameOutcome(s) /\ hasher'[s] = hasher[s]
    BY DEF FinishPart, Serving, SameOutcome, registryVars
<1>1. Receiving(t, s)
    BY <1>0 DEF Alone, Engaged
<1>2. CASE Goto(t, "pop")
    BY <1>0, <1>1, <1>2, GoesToAbort DEF Receiving
<1>3. CASE Goto(t, "record") /\ length' = [length EXCEPT ![s] = @ + c.at]
    <2>1. pc'[t] = "record" /\ cur'[t] = c /\ Serving(t, s)'
        BY <1>0, <1>3, GotoServing DEF Steps
    <2>2. length'[s] = length[s] + c.at
        BY <1>3 DEF TypeInv, Types
    <2>3. Receiving(t, s)'
        BY <1>0, <1>1, <2>1, <2>2 DEF Receiving, Fresh, SameOutcome
    <2>4. Engaged(t, s)'
        BY <2>1, <2>3 DEF Engaged
    <2> QED  BY <1>0, <2>1, <2>4, StillEngaged
<1> QED  BY <1>0, <1>2, <1>3 DEF FinishPart

LEMMA RecordKeeps ==
    ASSUME TypeInv, NEW t \in Threads, NEW s \in Sessions, Serving(t, s), Alone(t, s), RecordPart(t)
    PROVE  Alone(t, s)'
<1> DEFINE c == cur[t]
<1>0. pc[t] = "record" /\ c.s = s /\ Leave(t) /\ c.payload \in Seq(Chunks)
    BY CallFields DEF RecordPart, Serving
<1>1. Receiving(t, s) /\ Fresh(s) /\ c.at = Len(c.payload)
    BY <1>0 DEF Alone, Engaged, Receiving
<1>2. ~Serving(t, s)'
    BY <1>0, LeaveServing
<1>3. /\ parts[s] \in Seq(Seq(Chunks)) /\ parts'[s] = Append(parts[s], c.payload)
      /\ offset'[s] = offset[s] /\ length'[s] = length[s] /\ hasher'[s] = hasher[s]
      /\ machine'[s] = machine[s] /\ published'[s] = published[s] /\ declared'[s] = declared[s]
    BY <1>0 DEF RecordPart, registryVars, TypeInv, Types
<1>4. Concatenation(hasher'[s], parts'[s])
    <2>1. SubSeq(c.payload, 1, c.at) = c.payload
        BY <1>0, <1>1, Prefixes
    <2> QED  BY <1>1, <1>3, <2>1 DEF Receiving
<1>5. WithinLimits(s)'
    <2>1. Len(parts'[s]) = Len(parts[s]) + 1 /\ Len(parts[s]) < MaxParts /\ Len(parts[s]) \in Nat
        BY <1>0, <1>1, <1>3 DEF Receiving
    <2> QED  BY <1>3, <2>1, LimitsAssumption DEF Alone, WithinLimits
<1>6. Fresh(s)' /\ published'[s] = None /\ machine'[s] = "UPLOADING"
    BY <1>1, <1>3 DEF Fresh
<1>7. Resting(s)'
    BY <1>0, <1>1, <1>3, <1>4, <1>6 DEF Resting, Receiving
<1> QED  BY <1>2, <1>3, <1>5, <1>6, <1>7 DEF Alone

LEMMA AbortKeeps ==
    ASSUME TypeInv, NEW t \in Threads, NEW s \in Sessions, Serving(t, s), Alone(t, s), AbortStep(t)
    PROVE  Alone(t, s)'
<1>0. pc[t] # "idle" /\ cur[t].s = s
    BY DEF Serving
<1>1. CASE PopSession(t)
    <2>1. SameOutcome(s) /\ s \notin table' /\ pc[t] = "pop"
        BY <1>0, <1>1 DEF PopSession, SameOutcome, registryVars
    <2>2. CASE s \in table
        <3>1. pc'[t] = "release" /\ Serving(t, s)'
            BY <1>0, <1>1, <2>2, GotoServing DEF PopSession, Steps
        <3>2. Fresh(s)'
            BY <2>1, <2>2 DEF Alone, Engaged, Fresh, SameOutcome, Serving
        <3>3. Engaged(t, s)'
            BY <2>1, <3>1, <3>2 DEF Engaged
        <3> QED  BY <2>1, <3>1, <3>3, StillEngaged
    <2>3. CASE s \notin table
        BY <1>0, <1>1, <2>1, <2>3, LeaveServing DEF PopSession, Alone, SameOutcome, WithinLimits
    <2> QED  BY <2>2, <2>3
<1>2. CASE ReleaseUpload(t)
    <2>1. SameOutcome(s) /\ table' = table /\ pc[t] = "release"
        BY <1>2 DEF ReleaseUpload, SameOutcome, sessionVars
    <2>2. pc'[t] = "look" /\ Serving(t, s)'
        BY <1>0, <1>2, GotoServing DEF ReleaseUpload, Steps
    <2>3. Engaged(t, s)'
        BY <2>1, <2>2 DEF Alone, Engaged, Fresh, SameOutcome
    <2> QED  BY <2>1, <2>2, <2>3, StillEngaged
<1>3. CASE LookBeforeAbort(t)
    <2>1. SameOutcome(s) /\ table' = table /\ pc[t] = "look" /\ machine[s] = "UPLOADING"
        BY <1>3 DEF LookBeforeAbort, SameOutcome, sessionVars, registryVars, Alone, Engaged, Fresh
    <2>2. pc'[t] = "mark" /\ Serving(t, s)'
        BY <1>0, <1>3, <2>1, GotoServing DEF LookBeforeAbort, Steps
    <2>3. Engaged(t, s)'
        BY <2>1, <2>2 DEF Alone, Engaged, Fresh, SameOutcome
    <2> QED  BY <2>1, <2>2, <2>3, StillEngaged
<1>4. CASE MarkAborted(t)
    <2>1. s \notin table' /\ Fresh(s)
        BY <1>4 DEF MarkAborted, Alone, Engaged
    <2>2. ~Serving(t, s)'
        BY <1>4, LeaveServing DEF MarkAborted
    <2>3. /\ declared'[s] = declared[s] /\ offset'[s] = offset[s] /\ parts'[s] = parts[s]
          /\ published'[s] = None
        BY <1>4, <2>1 DEF MarkAborted, registryVars, Fresh
    <2> QED  BY <2>1, <2>2, <2>3 DEF Alone, WithinLimits
<1> QED  BY <1>1, <1>2, <1>3, <1>4 DEF AbortStep

\* A step of a completion that changes neither the session nor what is published.
LEMMA CompletionMoves ==
    ASSUME TypeInv, NEW t \in Threads, NEW s \in Sessions, Serving(t, s), Alone(t, s), SameOutcome(s),
           NEW step \in {"finish", "verify", "commit", "committed", "raise", "discard", "fail", "uncertain",
                         "cleanup"},
           Goto(t, step),
           step \in {"finish", "verify", "commit", "committed"} => Committing(t, s),
           step \in {"finish", "verify", "discard", "fail"} => Fresh(s),
           step \in {"commit", "committed", "uncertain"} => machine[s] = "VERIFYING",
           step = "raise" => Fresh(s) \/ machine[s] = "VERIFYING"
    PROVE  Alone(t, s)'
<1>1. pc'[t] = step /\ cur'[t] = cur[t] /\ Serving(t, s)'
    BY GotoServing DEF Serving, Steps
<1>2. (Fresh(s) => Fresh(s)') /\ (Committing(t, s) => Committing(t, s)') /\ machine'[s] = machine[s]
    BY <1>1 DEF Fresh, Committing, SameOutcome
<1>3. Engaged(t, s)'
    BY <1>1, <1>2 DEF Engaged
<1> QED  BY <1>1, <1>3, StillEngaged

LEMMA FinishUploadKeeps ==
    ASSUME TypeInv, NEW t \in Threads, NEW s \in Sessions, Serving(t, s), Alone(t, s),
           TakeWriteLock(t) \/ FinishUpload(t) \/ FinishFails(t)
    PROVE  Alone(t, s)'
<1>1. SameOutcome(s)
    BY DEF TakeWriteLock, FinishUpload, FinishFails, SameOutcome, sessionVars, registryVars
<1>2. Committing(t, s) /\ Fresh(s)
    BY DEF TakeWriteLock, FinishUpload, FinishFails, Alone, Engaged
<1>3. Goto(t, "finish") \/ Goto(t, "verify") \/ Goto(t, "raise")
    BY DEF TakeWriteLock, FinishUpload, FinishFails, Proceed, Raise
<1> QED  BY <1>1, <1>2, <1>3, CompletionMoves

LEMMA VerifyingKeeps ==
    ASSUME TypeInv, NEW t \in Threads, NEW s \in Sessions, Serving(t, s), Alone(t, s), EnterVerifying(t)
    PROVE  Alone(t, s)'
<1>1. Committing(t, s) /\ Fresh(s) /\ cur[t].s = s /\ pc[t] = "verify"
    BY DEF EnterVerifying, Alone, Engaged, Serving
<1>2. machine' = [machine EXCEPT ![s] = "VERIFYING"] /\ Goto(t, "commit")
    BY <1>1 DEF EnterVerifying, MayMove, Edges, Fresh, Proceed
<1>3. pc'[t] = "commit" /\ cur'[t] = cur[t] /\ Serving(t, s)'
    BY <1>1, <1>2, GotoServing DEF Steps
<1>4. /\ declared'[s] = declared[s] /\ offset'[s] = offset[s] /\ parts'[s] = parts[s]
      /\ published'[s] = published[s] /\ machine'[s] = "VERIFYING"
    BY <1>2 DEF EnterVerifying, registryVars, TypeInv, Types
<1>5. Engaged(t, s)'
    BY <1>1, <1>3, <1>4 DEF Engaged, Committing
<1> QED  BY <1>3, <1>4, <1>5 DEF Alone, WithinLimits

LEMMA CommitKeeps ==
    ASSUME TypeInv, NEW t \in Threads, NEW s \in Sessions, Serving(t, s), Alone(t, s), CommitObject(t)
    PROVE  Alone(t, s)'
<1> DEFINE id == [digest |-> cur[t].digest, len |-> cur[t].len]
<1>1. Committing(t, s) /\ machine[s] = "VERIFYING" /\ cur[t].s = s /\ pc[t] = "commit"
    BY DEF CommitObject, Alone, Engaged, Serving
<1>2. PICK step \in {"committed", "raise"} : Goto(t, step)
    BY DEF CommitObject, Proceed, Raise
<1>3. pc'[t] = step /\ cur'[t] = cur[t] /\ Serving(t, s)'
    BY <1>1, <1>2, GotoServing DEF Steps
<1>4. /\ declared'[s] = declared[s] /\ offset'[s] = offset[s] /\ parts'[s] = parts[s]
      /\ machine'[s] = "VERIFYING"
    BY <1>1 DEF CommitObject, sessionVars
<1>5. Engaged(t, s)'
    BY <1>1, <1>3, <1>4 DEF Engaged, Committing
<1>6. published'[s] # None => /\ Concatenation(published'[s].digest, parts'[s])
                              /\ published'[s].len = Len(published'[s].digest)
    <2>1. published'[s] = published[s] \/ published'[s] = id
        BY <1>1 DEF CommitObject, TypeInv, Types
    <2>2. id.digest = cur[t].digest /\ id.len = cur[t].len
        OBVIOUS
    <2> HIDE DEF id
    <2> QED  BY <1>1, <1>4, <2>1, <2>2 DEF Committing, Alone
<1> QED  BY <1>3, <1>4, <1>5, <1>6 DEF Alone, WithinLimits

LEMMA CommittedKeeps ==
    ASSUME TypeInv, NEW t \in Threads, NEW s \in Sessions, Serving(t, s), Alone(t, s), EnterCommitted(t)
    PROVE  Alone(t, s)'
<1>1. machine[s] = "VERIFYING" /\ cur[t].s = s /\ pc[t] = "committed"
    BY DEF EnterCommitted, Alone, Engaged, Serving
<1>2. machine' = [machine EXCEPT ![s] = "COMMITTED"] /\ Goto(t, "cleanup")
    BY <1>1 DEF EnterCommitted, MayMove, Edges
<1>3. pc'[t] = "cleanup" /\ Serving(t, s)'
    BY <1>1, <1>2, GotoServing DEF Steps
<1>4. /\ declared'[s] = declared[s] /\ offset'[s] = offset[s] /\ parts'[s] = parts[s]
      /\ published'[s] = published[s] /\ machine'[s] = "COMMITTED"
    BY <1>2 DEF EnterCommitted, registryVars, TypeInv, Types
<1>5. Engaged(t, s)'
    BY <1>3 DEF Engaged
<1> QED  BY <1>3, <1>4, <1>5 DEF Alone, WithinLimits

\* The except and finally clauses.
LEMMA FailureKeeps ==
    ASSUME TypeInv, NEW t \in Threads, NEW s \in Sessions, Serving(t, s), Alone(t, s),
           LookBeforeFail(t) \/ DiscardUpload(t) \/ FailMachine(t) \/ CleanUp(t)
    PROVE  Alone(t, s)'
<1>0. cur[t].s = s /\ pc[t] # "idle"
    BY DEF Serving
<1>1. CASE LookBeforeFail(t)
    <2>1. SameOutcome(s) /\ (Fresh(s) \/ machine[s] = "VERIFYING")
        BY <1>1 DEF LookBeforeFail, SameOutcome, sessionVars, registryVars, Alone, Engaged
    <2>2. CASE Fresh(s)
        <3>1. Goto(t, "discard")
            BY <1>0, <1>1, <2>2 DEF LookBeforeFail, Fresh
        <3> QED  BY <2>1, <2>2, <3>1, CompletionMoves
    <2>3. CASE machine[s] = "VERIFYING"
        <3>1. Goto(t, "uncertain")
            BY <1>0, <1>1, <2>3 DEF LookBeforeFail
        <3> QED  BY <2>1, <2>3, <3>1, CompletionMoves
    <2> QED  BY <2>1, <2>2, <2>3
<1>2. CASE DiscardUpload(t)
    <2>1. SameOutcome(s) /\ Fresh(s) /\ Goto(t, "fail")
        BY <1>2 DEF DiscardUpload, SameOutcome, sessionVars, Alone, Engaged
    <2> QED  BY <2>1, CompletionMoves
<1>3. CASE FailMachine(t)
    <2>1. pc'[t] = "cleanup" /\ Serving(t, s)'
        BY <1>0, <1>3, GotoServing DEF FailMachine, Steps
    <2>2. Engaged(t, s)'
        BY <2>1 DEF Engaged
    <2>3. /\ declared'[s] = declared[s] /\ offset'[s] = offset[s] /\ parts'[s] = parts[s]
          /\ published'[s] = published[s]
        BY <1>3 DEF FailMachine, registryVars
    <2>4. machine'[s] \in {"ABORTED", "FAILED"} => published[s] = None
        <3>1. CASE pc[t] = "fail"
            BY <3>1 DEF Alone, Engaged, Fresh
        <3>2. CASE pc[t] = "uncertain"
            <4>1. machine'[s] = "UNCERTAIN"
                BY <1>0, <1>3, <3>2 DEF FailMachine, Failed, Alone, Engaged, TypeInv, Types
            <4> QED  BY <4>1
        <3> QED  BY <1>3, <3>1, <3>2 DEF FailMachine
    <2> QED  BY <2>1, <2>2, <2>3, <2>4 DEF Alone, WithinLimits
<1>4. CASE CleanUp(t)
    <2>1. ~Serving(t, s)' /\ s \notin table' /\ SameOutcome(s)
        BY <1>0, <1>4, LeaveServing DEF CleanUp, SameOutcome, registryVars
    <2> QED  BY <2>1 DEF Alone, SameOutcome, WithinLimits
<1> QED  BY <1>1, <1>2, <1>3, <1>4

\* A step of the only call on a session keeps the invariant of that session.
LEMMA StepAboutOwn ==
    ASSUME TypeInv, NEW t \in Threads, NEW s \in Sessions, cur[t].s = s, ThreadStep(t), SessionInv(s)
    PROVE  SessionInv(s)'
<1>1. Serving(t, s) /\ Alone(t, s)
    BY StepMoves, AloneSuffices DEF Serving
<1>2. Alone(t, s)'
    BY <1>1, HashKeeps, PatchKeeps, StoreKeeps, FinishKeeps, RecordKeeps, AbortKeeps, FinishUploadKeeps,
       VerifyingKeeps, CommitKeeps, CommittedKeeps, FailureKeeps DEF ThreadStep, PartStep, CompleteStep
<1> QED  BY <1>1, <1>2, AloneSuffices

\* A new call on an idle session keeps the invariant of that session.
LEMMA StartAboutOwn ==
    ASSUME TypeInv, NEW t \in Threads, NEW s \in Exclusive, SessionInv(s),
           StartPart(t, s) \/ StartAbort(t, s) \/ StartComplete(t, s)
    PROVE  SessionInv(s)'
<1>0. s \in Sessions /\ declared[s] # None /\ ~Busy(s)
    BY ExclusiveAssumption, StartMoves DEF MayCall
<1>1. /\ Serving(t, s)' /\ Busy(s)' /\ pc'[t] \in {"chunk", "pop", "lock"} /\ cur'[t].at = 0
      /\ \A u \in Threads : Serving(u, s)' => u = t
    BY <1>0, StartMoves DEF Serving, Busy
<1>2. SameSession(s)
    BY <1>0, StartMoves DEF SameSession, sessionVars, registryVars
<1>3. s \in table => Resting(s) /\ Fresh(s)
    BY <1>0 DEF SessionInv, Resting
<1>4. Fresh(s) => Fresh(s)'
    BY <1>2 DEF Fresh, SameSession
<1>5. Engaged(t, s)'
    <2>1. CASE StartPart(t, s)
        <3>1. PICK p \in Payloads :
                Enter(t, "chunk", [NoCall EXCEPT !.s = s, !.payload = p.content, !.good = p.good])
            BY <2>1 DEF StartPart
        <3>2. pc'[t] = "chunk" /\ s \in table /\ nextPart[s] <= MaxParts
            BY <2>1, <3>1 DEF StartPart, Enter, TypeInv, Types
        <3>3. cur'[t].payload \in Seq(Chunks)
            BY <2>1, <1>0, StartTypes, CallFields DEF TypeInv, Types, Call
        <3>4. Len(parts[s]) < MaxParts
            <4>1. nextPart[s] = Len(parts[s]) + 1 /\ Len(parts[s]) \in Nat
                BY <1>0 DEF TypeInv, Types, PartsCounted
            <4> QED  BY <3>2, <4>1, LimitsAssumption
        <3>5. hasher[s] \in Seq(Chunks) /\ parts[s] \in Seq(Seq(Chunks)) /\ length[s] \in Nat
            BY <1>0 DEF TypeInv, Types
        <3>6. /\ Concatenation(hasher[s], parts[s]) /\ Fresh(s)'
              /\ length[s] = Len(hasher[s]) /\ offset[s] = Len(hasher[s]) /\ offset[s] <= MaxObject
            BY <1>3, <1>4, <3>2 DEF Resting, SessionInv, WithinLimits
        <3>7. SubSeq(cur'[t].payload, 1, cur'[t].at) = <<>>
            BY <1>1, <3>3, Prefixes
        <3>8. Concatenation(hasher[s], Append(parts[s], SubSeq(cur'[t].payload, 1, cur'[t].at)))
            BY <3>5, <3>6, <3>7, ConcatenationWithEmpty
        <3>9. Receiving(t, s)'
            BY <1>1, <1>2, <3>2, <3>4, <3>5, <3>6, <3>8 DEF Receiving, SameSession
        <3> QED  BY <3>2, <3>9 DEF Engaged
    <2>2. CASE StartAbort(t, s)
        <3>1. pc'[t] = "pop"
            BY <2>2 DEF StartAbort, Enter, TypeInv, Types
        <3> QED  BY <1>2, <1>3, <1>4, <3>1 DEF Engaged, SameSession
    <2>3. CASE StartComplete(t, s)
        <3> DEFINE c == [NoCall EXCEPT !.s = s, !.digest = hasher[s], !.len = length[s]]
        <3>1. c.digest = hasher[s] /\ c.len = length[s]
            BY NoCallFields DEF Call
        <3>2. pc'[t] \in {"pop", "lock"} /\ cur'[t] = c /\ s \in table
            BY <2>3 DEF StartComplete, Enter, TypeInv, Types
        <3> HIDE DEF c
        <3>3. Committing(t, s)' /\ Fresh(s)'
            BY <1>2, <1>3, <1>4, <3>1, <3>2 DEF Committing, Resting, SameSession
        <3> QED  BY <3>2, <3>3 DEF Engaged
    <2> QED  BY <2>1, <2>2, <2>3
<1> QED  BY <1>0, <1>1, <1>2, <1>5 DEF SessionInv, SameSession, WithinLimits

\* A session that begins has received nothing.
LEMMA BeginAboutOwn ==
    ASSUME TypeInv, NEW t \in Threads, NEW s \in Sessions, SessionInv(s), Begin(t, s)
    PROVE  SessionInv(s)'
<1>1. Untouched(s) /\ declared[s] = None
    BY DEF SessionInv, Begin
<1>2. ~Busy(s) /\ ~Busy(s)'
    BY <1>1 DEF Begin, Busy, TypeInv, CallShape
<1>3. \A u \in Threads : ~Serving(u, s)'
    BY <1>2 DEF Busy, Serving
<1>4. /\ UNCHANGED <<offset, hasher, length, parts, published>>
      /\ machine'[s] = "UPLOADING" /\ declared'[s] # None
    BY NoneAssumption DEF Begin, TypeInv, Types
<1>5. Resting(s)'
    BY <1>1, <1>4, ConcatenationOfNothing DEF Untouched, Resting, Fresh
<1> QED  BY <1>1, <1>3, <1>4, <1>5 DEF SessionInv, WithinLimits, Untouched

-----------------------------------------------------------------------------
(* Theorems                                                                *)

\* MultipartInv is inductive.
LEMMA MultipartNext == MultipartInv /\ [Next]_vars => MultipartInv'
<1> SUFFICES ASSUME MultipartInv, [Next]_vars PROVE MultipartInv'
    OBVIOUS
<1>1. TypeInv /\ TypeInv' /\ ContentStored'
    BY TypeNext, StoredNext DEF MultipartInv
<1>2. ASSUME NEW s \in Exclusive PROVE SessionInv(s)'
    <2>0. s \in Sessions /\ SessionInv(s)
        BY ExclusiveAssumption DEF MultipartInv
    <2>1. ASSUME NEW t \in Threads, ThreadStep(t) PROVE SessionInv(s)'
        <3>1. CASE cur[t].s = s
            BY <1>1, <2>0, <2>1, <3>1, StepAboutOwn
        <3>2. CASE cur[t].s # s
            BY <1>1, <2>0, <2>1, <3>2, StepAboutOther, OtherSession
        <3> QED  BY <3>1, <3>2
    <2>2. ASSUME NEW t \in Threads, NEW r \in Sessions,
                 Begin(t, r) \/ StartPart(t, r) \/ StartAbort(t, r) \/ StartComplete(t, r)
          PROVE  SessionInv(s)'
        <3>1. CASE r = s
            BY <1>1, <2>0, <2>2, <3>1, StartAboutOwn, BeginAboutOwn
        <3>2. CASE r # s
            BY <1>1, <2>0, <2>2, <3>2, StartAboutOther, OtherSession
        <3> QED  BY <3>1, <3>2
    <2>3. CASE UNCHANGED vars
        <3>1. SameSession(s) /\ SameServing(s)
            BY <2>3 DEF vars, sessionVars, registryVars, SameSession, SameServing
        <3> QED  BY <2>0, <3>1, OtherSession
    <2> QED  BY <2>1, <2>2, <2>3 DEF Next, Quiesce
<1> QED  BY <1>1, <1>2 DEF MultipartInv

\* Whatever the threads do to the sessions they share, and whichever requests
\* fail or are applied and lost: every call works on a session that was begun, what
\* is committed the registry holds, and an unshared session has hashed, counted and
\* sent exactly the parts it has recorded and what it has read of the next.
THEOREM MultipartInvariant == Spec => []MultipartInv
<1>1. Init => MultipartInv
    <2> SUFFICES ASSUME Init PROVE MultipartInv
        OBVIOUS
    <2>1. ContentStored
        BY DEF Init, ContentStored, PublishedContentStored
    <2>2. ASSUME NEW s \in Exclusive PROVE SessionInv(s)
        <3>1. s \in Sessions
            BY ExclusiveAssumption
        <3>2. WithinLimits(s) /\ Untouched(s) /\ s \notin table /\ machine[s] = "NEW"
            BY <3>1, LimitsAssumption DEF Init, WithinLimits, Untouched
        <3>3. \A t \in Threads : ~Serving(t, s)
            BY DEF Init, Serving
        <3> QED  BY <3>2, <3>3 DEF SessionInv, Untouched
    <2> QED  BY <2>1, <2>2, TypeInit DEF MultipartInv
<1> QED  BY <1>1, MultipartNext, PTL DEF Spec

\* The types, and the limits of an unshared session: its parts and the bytes it
\* has sent stay within max_multipart_parts and max_object_bytes.
THEOREM MultipartTypes == Spec => []TypeOK
<1>1. MultipartInv => TypeOK
    BY DEF MultipartInv, TypeInv, TypeOK, SessionInv
<1> QED  BY <1>1, MultipartInvariant, PTL

\* What the completion of an unshared session publishes is stored and is exactly
\* its recorded parts, in order, with their length.
THEOREM PartsExactly == Spec => []PublishedPartsExactly
<1>1. MultipartInv => PublishedPartsExactly
    BY ExclusiveAssumption DEF MultipartInv, SessionInv, ContentStored, PublishedContentStored,
                               PublishedPartsExactly
<1> QED  BY <1>1, MultipartInvariant, PTL

\* An unshared session that ended ABORTED or FAILED has published nothing.
THEOREM CleanEnds == Spec => []CleanEndPublishesNothing
<1>1. MultipartInv => CleanEndPublishesNothing
    BY DEF MultipartInv, SessionInv, CleanEndPublishesNothing
<1> QED  BY <1>1, MultipartInvariant, PTL

\* What any session publishes, shared or not, is a blob of the registry.
THEOREM ContentIsStored == Spec => []PublishedContentStored
<1>1. MultipartInv => PublishedContentStored
    BY DEF MultipartInv, ContentStored
<1> QED  BY <1>1, MultipartInvariant, PTL

\* Completions exclude each other: who is between a completion's finish and the end
\* of its with block holds the Adapter's _write_lock, every way out of the block
\* gives it back, and so two completions never commit at once.
THEOREM CompletionsExclude ==
    Spec => [](/\ LockHeld
               /\ \A t, u \in Threads :
                     pc[t] = "commit" /\ pc[u] \in {"finish", "verify", "commit", "committed"} => t = u)
<1> DEFINE Inv == TypeInv /\ LockHeld
<1>1. Init => Inv
    BY TypeInit, NoneAssumption DEF Init, LockHeld
<1>2. Inv /\ [Next]_vars => Inv'
    <2> SUFFICES ASSUME TypeInv, LockHeld, [Next]_vars PROVE LockHeld'
        BY TypeNext
    <2> DEFINE Inside(step) == step \in {"finish", "verify", "commit", "committed"}
    <2>1. ASSUME NEW t \in Threads, ThreadStep(t) PROVE LockHeld'
        <3>0. pc \in [Threads -> Steps] /\ t # None /\ None \notin Threads
            BY NoneAssumption DEF TypeInv, Types
        <3>1. \/ writeLock' = writeLock /\ (Inside(pc'[t]) <=> Inside(pc[t]))
              \/ writeLock = None /\ writeLock' = t /\ Inside(pc'[t])
              \/ Inside(pc[t]) /\ writeLock' = None /\ ~Inside(pc'[t])
            <4>1. CASE PartStep(t)
                BY <3>0, <4>1 DEF PartStep, HashChunk, PatchChunk, PatchFails, StoreUpload, FinishPart,
                                  RecordPart, Goto, Leave
            <4>2. CASE AbortStep(t)
                BY <3>0, <4>2 DEF AbortStep, PopSession, ReleaseUpload, LookBeforeAbort, MarkAborted, Goto,
                                  Leave
            <4>3. CASE TakeWriteLock(t) \/ FinishUpload(t) \/ FinishFails(t) \/ EnterVerifying(t)
                BY <3>0, <4>3 DEF TakeWriteLock, FinishUpload, FinishFails, EnterVerifying, Proceed, Raise,
                                  Goto
            <4>4. CASE CommitObject(t) \/ EnterCommitted(t)
                BY <3>0, <4>4 DEF CommitObject, EnterCommitted, Proceed, Raise, Goto
            <4>5. CASE LookBeforeFail(t) \/ DiscardUpload(t) \/ FailMachine(t) \/ CleanUp(t)
                BY <3>0, <4>5 DEF LookBeforeFail, DiscardUpload, FailMachine, CleanUp, Goto, Leave
            <4> QED  BY <2>1, <4>1, <4>2, <4>3, <4>4, <4>5 DEF ThreadStep, CompleteStep
        <3>2. \A u \in Threads \ {t} : pc'[u] = pc[u]
            BY <2>1, StepMoves
        <3> QED  BY <3>0, <3>1, <3>2 DEF LockHeld
    <2>2. ASSUME NEW t \in Threads, NEW s \in Sessions,
                 StartPart(t, s) \/ StartAbort(t, s) \/ StartComplete(t, s)
          PROVE  LockHeld'
        <3>1. pc[t] = "idle" /\ ~Inside(pc'[t]) /\ writeLock' = writeLock
            BY <2>2, StartMoves DEF MayCall
        <3>2. \A u \in Threads \ {t} : pc'[u] = pc[u]
            BY <2>2, StartMoves
        <3> QED  BY <3>1, <3>2 DEF LockHeld
    <2>3. ASSUME NEW t \in Threads, NEW s \in Sessions, Begin(t, s) PROVE LockHeld'
        BY <2>3 DEF Begin, LockHeld
    <2>4. CASE UNCHANGED vars
        BY <2>4 DEF vars, LockHeld
    <2> QED  BY <2>1, <2>2, <2>3, <2>4 DEF Next, Quiesce
<1>3. Inv => /\ LockHeld
             /\ \A t, u \in Threads :
                   pc[t] = "commit" /\ pc[u] \in {"finish", "verify", "commit", "committed"} => t = u
    BY DEF LockHeld
<1> QED  BY <1>1, <1>2, <1>3, PTL DEF Spec

=============================================================================
