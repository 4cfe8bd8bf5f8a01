----------------------------- MODULE PayloadStore -----------------------------
(***************************************************************************)
(* What an upload promises the commit that follows it: the registry's      *)
(* blobs grow only by whole contents that the caller's payload delivers    *)
(* and that its declarations and the size limit admit, and a call succeeds *)
(* only with a content that is stored.                                     *)
(***************************************************************************)
CONSTANTS Contents, None

VARIABLES
    blobs,      \* the stored contents
    wanted,     \* the contents the call may store, none before it begins
    outcome,    \* "none", "failed" or "returned"
    identity    \* the content a successful call returned the identity of

vars == <<blobs, wanted, outcome, identity>>

Init ==
    /\ blobs \in SUBSET Contents /\ wanted = {}
    /\ outcome = "none" /\ identity = None

Begin ==
    /\ wanted = {} /\ outcome = "none"
    /\ wanted' \in SUBSET Contents
    /\ UNCHANGED <<blobs, outcome, identity>>

\* Also after the call has failed: its last request may still be on its way.
Store ==
    /\ \E d \in wanted : blobs' = blobs \cup {d}
    /\ UNCHANGED <<wanted, outcome, identity>>

\* With a content that is stored already, or by storing it.
Succeed ==
    /\ outcome = "none"
    /\ \E d \in wanted :
          /\ identity' = d
          /\ blobs' = blobs \/ blobs' = blobs \cup {d}
          /\ d \in blobs'
    /\ outcome' = "returned"
    /\ UNCHANGED wanted

Fail ==
    /\ outcome = "none"
    /\ outcome' = "failed"
    /\ UNCHANGED <<blobs, wanted, identity>>

Next == Begin \/ Store \/ Succeed \/ Fail

Spec == Init /\ [][Next]_vars

=============================================================================
