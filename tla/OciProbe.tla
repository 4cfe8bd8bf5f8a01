------------------------------- MODULE OciProbe -------------------------------
(***************************************************************************)
(* OciDistributionProbe (probe/__init__.py): authenticated, which only     *)
(* reads, and deep, which writes two canary manifests (an anchor and a     *)
(* version whose subject it is), reads them back and, if the binding       *)
(* enables deletion, removes them again.                                   *)
(*                                                                         *)
(* One probe of a registry that may lack the optional features.  Every     *)
(* request may fail; a PUT or DELETE may be applied although its caller is *)
(* told that it failed, and a DELETE whose answer is lost is sent again.   *)
(* The canaries' tags are unique, so that probes do not meet.              *)
(***************************************************************************)
EXTENDS Naturals

CONSTANTS MaxReadAttempts    \* attempts of the HTTP client for each DELETE

ASSUME AttemptsAssumption == MaxReadAttempts \in Nat \ {0}

VARIABLES
    binding,       \* of referrers_required and deletion_enabled, those that are set
    features,      \* what the registry provides
    mode,          \* "authenticated" or "deep"
    step,          \* the next request, or "idle" and "done"
    tries,         \* lost attempts of the current DELETE
    known,         \* the locals anchor and version: the canaries it has the descriptor of
    checks,        \* the locals push_pull, range_read, referrers, deletion: those that are true
    report,        \* the OciProbeReport: "none", "passed" or "failed"
    canaries,      \* registry: the canary manifests it stores
    abandoned,     \* history: canaries with an unanswered PUT, or whose clean-up failed
    unanswered,    \* history: canaries whose DELETE before the report was applied, its answer lost
    trouble        \* history: a request raised before the report

fixed == <<binding, features, mode>>
vars == <<fixed, step, tries, known, checks, report, canaries, abandoned, unanswered, trouble>>

Init ==
    /\ binding \in SUBSET {"referrers", "deletion"}
    /\ features \in SUBSET {"pushPull", "rangeRead", "referrers", "deletion"}
    /\ mode \in {"authenticated", "deep"}
    /\ step = "idle" /\ tries = 0 /\ known = {} /\ checks = {} /\ report = "none"
    /\ canaries = {} /\ abandoned = {} /\ unanswered = {} /\ trouble = FALSE

Start ==
    /\ step = "idle" /\ step' = "ping"
    /\ UNCHANGED <<fixed, tries, known, checks, report, canaries, abandoned, unanswered, trouble>>

\* Mutant of Passed: the bytes of the range are not looked at.
Passed_WithoutRange(c) == {"pushPull"} \cup binding \subseteq c

\* Mutant of Passed: every feature is required.
Passed_AllFeatures(c) == {"pushPull", "rangeRead", "referrers", "deletion"} \subseteq c

Passed(c) == {"pushPull", "rangeRead"} \cup binding \subseteq c

\* The return statement is evaluated, and then the finally clause runs.
Finally(r) ==
    /\ report' = r
    /\ step' = IF mode = "deep" /\ "deletion" \in binding THEN "cleanversion" ELSE "done"

Conclude(c) == checks' = c /\ Finally(IF Passed(c) THEN "passed" ELSE "failed")

\* The except clause.
Except == Finally("failed") /\ UNCHANGED checks

-----------------------------------------------------------------------------
(* Requests that leave no manifest behind.  The uploads of the payload, the *)
(* empty document and the config are upload_blob_bytes (module OciUpload);  *)
(* their blobs are the same in every probe and stay.                        *)

Following == [ping |-> IF mode = "deep" THEN "payload" ELSE "tags",
              payload |-> "empty", empty |-> "anchor", config |-> "version"]

Request ==
    /\ step \in DOMAIN Following
    /\ step' = Following[step]
    /\ UNCHANGED <<fixed, tries, known, checks, report, canaries, abandoned, unanswered, trouble>>

ListTags ==
    /\ step = "tags"
    /\ Finally("passed")
    /\ UNCHANGED <<fixed, tries, known, checks, canaries, abandoned, unanswered, trouble>>

RequestFails ==
    /\ step \in {"ping", "tags", "payload", "empty", "anchor", "config", "version", "pull", "range",
                 "referrers"}
    /\ Except
    /\ trouble' = TRUE
    /\ UNCHANGED <<fixed, tries, known, canaries, abandoned, unanswered>>

\* A registry that converts manifests returns another digest; one without the
\* referrers API, nothing.
Check(feature) ==
    checks' = IF feature \in features THEN checks \cup {feature} ELSE checks

PullManifest ==
    /\ step = "pull" /\ step' = "range"
    /\ Check("pushPull")
    /\ UNCHANGED <<fixed, tries, known, report, canaries, abandoned, unanswered, trouble>>

\* A registry that ignores ranges answers 200, for which open_blob raises, or it
\* delivers other bytes.
ReadRange ==
    /\ step = "range"
    /\ \/ step' = "referrers" /\ Check("rangeRead") /\ UNCHANGED report
       \/ "rangeRead" \notin features /\ Except
    /\ UNCHANGED <<fixed, tries, known, canaries, abandoned, unanswered, trouble>>

\* Missing referrers that are required raise an exception.
GetReferrers ==
    /\ step = "referrers"
    /\ Check("referrers")
    /\ IF "referrers" \in binding \ checks' THEN Finally("failed")
       ELSE IF "deletion" \in binding THEN step' = "delversion" /\ UNCHANGED report
       ELSE Conclude(checks')
    /\ UNCHANGED <<fixed, tries, known, canaries, abandoned, unanswered, trouble>>

-----------------------------------------------------------------------------
(* The canaries                                                            *)

\* If the answer is lost, the local variable stays None.
PutManifest ==
    /\ step \in {"anchor", "version"}
    /\ canaries' = canaries \cup {step}
    /\ \/ /\ known' = known \cup {step}
          /\ step' = IF step = "anchor" THEN "config" ELSE "pull"
          /\ UNCHANGED <<checks, report, abandoned, unanswered, trouble>>
       \/ /\ Except
          /\ abandoned' = abandoned \cup {step} /\ trouble' = TRUE
          /\ UNCHANGED known
    /\ UNCHANGED <<fixed, tries, unanswered>>

Deleting == step \in {"delversion", "delanchor", "cleanversion", "cleananchor"}
Cleaning == step \in {"cleanversion", "cleananchor"}

\* Mutant of Canary: the clean-up takes the anchor first.
Canary_Swapped == IF step \in {"delversion", "cleananchor"} THEN "version" ELSE "anchor"

Canary == IF step \in {"delversion", "cleanversion"} THEN "version" ELSE "anchor"
GoOn == step' = IF step = "cleanversion" THEN "cleananchor" ELSE "done"

\* delete_manifest returns whether there was something to delete.
Deleted(found) ==
    /\ tries' = 0
    /\ CASE step = "delversion" ->
              /\ checks' = IF found THEN checks \cup {"deletion"} ELSE checks
              /\ known' = known \ {"version"}
              /\ step' = "delanchor" /\ UNCHANGED report
         [] step = "delanchor" ->
              /\ Conclude(IF found THEN checks ELSE checks \ {"deletion"})
              /\ known' = known \ {"anchor"}
         [] OTHER -> GoOn /\ UNCHANGED <<checks, known, report>>

\* An exception: in the try statement it fails the probe, in _delete_safely it
\* is swallowed.
DeleteRaises ==
    /\ tries' = 0
    /\ IF Cleaning
       THEN GoOn /\ abandoned' = abandoned \cup {Canary} /\ UNCHANGED <<checks, report, trouble>>
       ELSE Except /\ trouble' = TRUE /\ UNCHANGED abandoned
    /\ UNCHANGED known

Held == Cleaning => Canary \in known

DeleteManifest ==
    /\ Deleting /\ Held
    /\ "deletion" \in features
    /\ canaries' = canaries \ {Canary}
    /\ Deleted(Canary \in canaries)
    /\ UNCHANGED <<fixed, abandoned, unanswered, trouble>>

\* A definitive refusal, of a registry without deletion or of this request.
DeleteRefused ==
    /\ Deleting /\ Held
    /\ DeleteRaises
    /\ UNCHANGED <<fixed, canaries, unanswered>>

\* Mutant of DeleteLost: after the last attempt the count starts again.
DeleteLost_Endless ==
    /\ Deleting /\ Held
    /\ tries' = (tries + 1) % MaxReadAttempts
    /\ UNCHANGED <<fixed, canaries, step, known, checks, report, abandoned, unanswered, trouble>>

\* No answer: the request may have been applied, and is sent again.
DeleteLost ==
    /\ Deleting /\ Held
    /\ \/ /\ "deletion" \in features
          /\ canaries' = canaries \ {Canary}
          /\ unanswered' = IF Cleaning THEN unanswered ELSE unanswered \cup {Canary}
       \/ UNCHANGED <<canaries, unanswered>>
    /\ IF tries + 1 < MaxReadAttempts
       THEN tries' = tries + 1 /\ UNCHANGED <<step, known, checks, report, abandoned, trouble>>
       ELSE DeleteRaises
    /\ UNCHANGED fixed

\* Mutant of NothingToDelete: the clean-up ends with the first canary it lacks.
NothingToDelete_Ends ==
    /\ Cleaning /\ ~Held
    /\ step' = "done"
    /\ UNCHANGED <<fixed, tries, known, checks, report, canaries, abandoned, unanswered, trouble>>

NothingToDelete ==
    /\ Cleaning /\ ~Held
    /\ GoOn
    /\ UNCHANGED <<fixed, tries, known, checks, report, canaries, abandoned, unanswered, trouble>>

-----------------------------------------------------------------------------
ProbeStep ==
    \/ Request \/ ListTags \/ RequestFails \/ PullManifest \/ ReadRange \/ GetReferrers
    \/ PutManifest \/ DeleteManifest \/ DeleteRefused \/ DeleteLost \/ NothingToDelete

Next == Start \/ ProbeStep \/ (step = "done" /\ UNCHANGED vars)

Spec == Init /\ [][Next]_vars

\* The probing thread runs, and every request ends (HTTP timeout).
FairSpec == Spec /\ WF_vars(ProbeStep)

-----------------------------------------------------------------------------
(* Properties                                                              *)

TypeOK ==
    /\ binding \subseteq {"referrers", "deletion"}
    /\ features \subseteq {"pushPull", "rangeRead", "referrers", "deletion"}
    /\ mode \in {"authenticated", "deep"} /\ report \in {"none", "passed", "failed"}
    /\ step \in {"idle", "ping", "tags", "payload", "empty", "anchor", "config", "version", "pull", "range",
                 "referrers", "delversion", "delanchor", "cleanversion", "cleananchor", "done"}
    /\ tries \in 0 .. MaxReadAttempts - 1
    /\ known \subseteq {"anchor", "version"}
    /\ canaries \subseteq {"anchor", "version"} /\ abandoned \subseteq {"anchor", "version"}
    /\ unanswered \subseteq {"anchor", "version"}
    /\ checks \subseteq {"pushPull", "rangeRead", "referrers", "deletion"} /\ trouble \in BOOLEAN

\* "Probe features continue to reflect real operations" (docs/configuration.md):
\* whatever failed or was lost, a report claims no check that the registry does
\* not really provide, and one that passed has what the binding requires and, with
\* deletion enabled, has removed what it wrote.
ReportTruthful ==
    /\ checks \subseteq features
    /\ (report = "passed" /\ mode = "deep") =>
          /\ {"pushPull", "rangeRead"} \cup binding \subseteq features
          /\ "deletion" \in binding => canaries = {}

\* deep() fails for a feature that the registry lacks or because a request raised.
\* There is one false alarm, and it is this one only: the DELETE of a canary was
\* applied and its answer lost, the client's retry was answered 404, and deletion
\* alone is reported as missing.  A DELETE lost on its way raises no alarm.
FailuresExplained ==
    (report = "failed" /\ mode = "deep") =>
        \/ ~({"pushPull", "rangeRead"} \cup binding \subseteq features)
        \/ trouble
        \/ /\ unanswered # {}
           /\ {"pushPull", "rangeRead"} \cup binding \subseteq checks \cup {"deletion"}

\* "Write and remove canary manifests": with deletion enabled, deep() leaves behind
\* only a canary whose PUT was not answered or whose own clean-up failed, at
\* whichever request it was interrupted.
CanariesAccounted ==
    (step = "done" /\ "deletion" \in binding) => canaries \subseteq abandoned

\* deep() and its clean-up take the version before the anchor that is its subject:
\* a version canary outlives its anchor only if it is one of those.
NoDanglingSubject ==
    ("version" \in canaries /\ "anchor" \notin canaries) => "version" \in abandoned

\* The probe, its clean-up included, ends.
ProbeEnds == step = "ping" ~> step = "done"

-----------------------------------------------------------------------------
(* Inductive invariant                                                     *)

Reported == report # "none"

\* authenticated only reads, and only a binding with deletion deletes.
ModeInv ==
    /\ mode = "authenticated" => step \in {"idle", "ping", "tags", "done"} /\ canaries = {}
    /\ step = "tags" => mode = "authenticated"
    /\ Deleting => "deletion" \in binding
    /\ Reported <=> step \in {"cleanversion", "cleananchor", "done"}

\* A canary is known as long as its clean-up is still to come.
CanaryInv ==
    /\ \A c \in canaries :
          \/ c \in abandoned
          \/ /\ c \in known
             /\ "deletion" \in binding => step # "done"
             /\ step = "cleananchor" => c # "version"
    /\ step \in {"config", "version", "pull", "range", "referrers", "delversion"} =>
          "anchor" \in canaries
    /\ step = "delanchor" => "version" \notin canaries

\* What has been tried so far is what the registry provides, but for a DELETE that
\* was applied without an answer.
CheckInv ==
    /\ step \in {"range", "referrers", "delversion", "delanchor"} =>
          features \cap {"pushPull"} \subseteq checks
    /\ step \in {"referrers", "delversion", "delanchor"} =>
          features \cap {"rangeRead"} \subseteq checks
    /\ step \in {"delversion", "delanchor"} => binding \cap {"referrers"} \subseteq checks
    /\ step \in {"pull", "range", "referrers", "delversion"} =>
          "version" \in canaries \cup unanswered
    /\ step = "delanchor" =>
          /\ "anchor" \in canaries \cup unanswered
          /\ "deletion" \in checks \/ "version" \in unanswered

\* The inductive invariant behind the probe's properties.
ProbeInv ==
    /\ TypeOK /\ ModeInv /\ CanaryInv /\ CheckInv
    /\ ReportTruthful /\ FailuresExplained /\ NoDanglingSubject

=============================================================================
