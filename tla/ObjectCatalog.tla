--------------------------- MODULE ObjectCatalog ---------------------------
(***************************************************************************)
(* What the Adapter promises its callers: a catalogue of immutable Object  *)
(* versions, with a latest pointer per Object.  A version appears and      *)
(* disappears in one step, is never replaced by a different one, leaves    *)
(* only when its retention intent has ended, and takes the latest pointer  *)
(* with it.  A publish-once version is the first the Object ever had.      *)
(***************************************************************************)
EXTENDS Naturals

CONSTANTS
    None,          \* no version
    Objects, Digests,
    Stored,        \* stored versions: records with obj, digest, publishOnce, retention
    NoRetention,   \* the retention of a version that may be deleted at once
    Hold,          \* the retention that no time ends
    MaxTime        \* bound: the last value of the clock

VARIABLES
    versions,      \* versions[o][d]: the stored version, or None
    latest,        \* latest[o]: the version a digest-less read returns, or None
    known,         \* Objects that ever had a version
    clock

vars == <<versions, latest, known, clock>>

Init ==
    /\ versions = [o \in Objects |-> [d \in Digests |-> None]]
    /\ latest = [o \in Objects |-> None]
    /\ known = {}
    /\ clock = 0

Publish(s) ==
    /\ versions[s.obj][s.digest] = None
    /\ s.publishOnce => s.obj \notin known
    /\ versions' = [versions EXCEPT ![s.obj][s.digest] = s]
    /\ known' = known \cup {s.obj}
    /\ UNCHANGED <<latest, clock>>

Promote(o, d) ==
    /\ versions[o][d] # None
    /\ latest' = [latest EXCEPT ![o] = versions[o][d]]
    /\ UNCHANGED <<versions, known, clock>>

RetentionEnded(s) == s.retention = NoRetention \/ (s.retention # Hold /\ s.retention <= clock)

Withdraw(o, d) ==
    /\ versions[o][d] # None
    /\ RetentionEnded(versions[o][d])
    /\ versions' = [versions EXCEPT ![o][d] = None]
    /\ latest' = [latest EXCEPT ![o] = IF @ = versions[o][d] THEN None ELSE @]
    /\ UNCHANGED <<known, clock>>

Tick ==
    /\ clock < MaxTime
    /\ clock' = clock + 1
    /\ UNCHANGED <<versions, latest, known>>

Next ==
    \/ \E s \in Stored : Publish(s)
    \/ \E o \in Objects, d \in Digests : Promote(o, d) \/ Withdraw(o, d)
    \/ Tick

Spec == Init /\ [][Next]_vars

=============================================================================
