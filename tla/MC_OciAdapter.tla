--------------------------- MODULE MC_OciAdapter ---------------------------
(***************************************************************************)
(* Small instances of OciAdapter: the requests of each run.                *)
(***************************************************************************)
EXTENDS OciAdapter, TLC

Put(o, d, create, once, retention, valid) ==
    [op |-> "put", obj |-> o, digest |-> d, createOnly |-> create, publishOnce |-> once,
     retention |-> retention, valid |-> valid]

Bare(op, o, d) ==
    [op |-> op, obj |-> o, digest |-> d, createOnly |-> FALSE, publishOnce |-> FALSE,
     retention |-> NoRetention, valid |-> TRUE]

Deletes == {Bare("delete", o, d) : o \in Objects, d \in Digests}
LatestReads == {Bare("read", o, None) : o \in Objects}
Reads == LatestReads \cup {Bare("read", o, d) : o \in Objects, d \in Digests}
PlainPuts == {Put(o, d, FALSE, FALSE, NoRetention, TRUE) : o \in Objects, d \in Digests}
CreatePuts == {Put(o, d, TRUE, FALSE, NoRetention, TRUE) : o \in Objects, d \in Digests}
OncePuts == {Put(o, d, FALSE, TRUE, NoRetention, TRUE) : o \in Objects, d \in Digests}
RetainedPuts == {Put(o, d, FALSE, FALSE, r, TRUE) : o \in Objects, d \in Digests, r \in {1, Hold}}
DatedPuts == {Put(o, d, FALSE, FALSE, 1, TRUE) : o \in Objects, d \in Digests}
InvalidPuts == {Put(o, d, FALSE, TRUE, NoRetention, FALSE) : o \in Objects, d \in Digests}

CommitRequests == DatedPuts \cup CreatePuts \cup OncePuts \cup InvalidPuts \cup Deletes \cup LatestReads
LateRequests == PlainPuts \cup RetainedPuts \cup Deletes \cup Reads
IntentRequests == PlainPuts \cup RetainedPuts
OnceRequests == OncePuts \cup InvalidPuts

Symmetry == Permutations(Threads) \cup Permutations(Digests) \cup Permutations(Objects)

=============================================================================
