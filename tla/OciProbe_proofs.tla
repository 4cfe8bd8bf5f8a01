--------------------------- MODULE OciProbe_proofs ---------------------------
(***************************************************************************)
(* The probe's report is truthful and its canaries are accounted for,      *)
(* whatever the registry provides, for every number of attempts.           *)
(***************************************************************************)
EXTENDS OciProbe, TLAPS

LEMMA ProbeInit == Init => ProbeInv
<1> SUFFICES ASSUME Init PROVE ProbeInv
  OBVIOUS
<1>1. TypeOK
  <2>1. tries \in 0 .. MaxReadAttempts - 1
    BY AttemptsAssumption DEF Init
  <2> QED BY <2>1 DEF Init, TypeOK
<1>2. ModeInv /\ CanaryInv /\ CheckInv
  BY DEF Init, ModeInv, CanaryInv, CheckInv, Reported, Deleting
<1>3. ReportTruthful /\ FailuresExplained /\ NoDanglingSubject
  BY DEF Init, ReportTruthful, FailuresExplained, NoDanglingSubject
<1> QED BY <1>1, <1>2, <1>3 DEF ProbeInv

\* The requests that neither write a manifest nor end the probe.
LEMMA RequestStep == ASSUME ProbeInv, Start \/ Request PROVE ProbeInv'
<1>0. /\ step \in {"idle", "ping", "payload", "empty", "config"}
      /\ step' \in {"ping", "payload", "tags", "empty", "anchor", "version"}
      /\ step' = "version" => step = "config"
      /\ step' = "tags" => mode # "deep"
      /\ step = "idle" => step' = "ping"
      /\ step = "ping" => step' \in {IF mode = "deep" THEN "payload" ELSE "tags"}
      /\ UNCHANGED <<fixed, tries, known, checks, report, canaries, abandoned, unanswered, trouble>>
  BY DEF Start, Request, Following
<1> USE <1>0 DEF fixed
<1>1. TypeOK'
  BY DEF ProbeInv, TypeOK
<1>2. ModeInv'
  BY DEF ProbeInv, TypeOK, ModeInv, Reported, Deleting
<1>4. CanaryInv' /\ CheckInv'
  BY DEF ProbeInv, TypeOK, CanaryInv, CheckInv
<1>3. ReportTruthful' /\ FailuresExplained' /\ NoDanglingSubject'
  BY DEF ProbeInv, ReportTruthful, FailuresExplained, NoDanglingSubject
<1> QED BY <1>1, <1>2, <1>3, <1>4 DEF ProbeInv

LEMMA CheckStep == ASSUME ProbeInv, PullManifest \/ ReadRange PROVE ProbeInv'
<1> USE DEF PullManifest, ReadRange, Check, Except, Finally, fixed
<1>1. TypeOK'
  BY DEF ProbeInv, TypeOK
<1>2. ModeInv'
  BY DEF ProbeInv, TypeOK, ModeInv, Reported, Deleting
<1>3. CanaryInv' /\ CheckInv'
  BY DEF ProbeInv, TypeOK, ModeInv, CanaryInv, CheckInv
<1>4. ReportTruthful' /\ FailuresExplained' /\ NoDanglingSubject'
  BY DEF ProbeInv, TypeOK, ModeInv, ReportTruthful, FailuresExplained, NoDanglingSubject, Reported
<1> QED BY <1>1, <1>2, <1>3, <1>4 DEF ProbeInv

\* The steps that report a failure, or end authenticated.
LEMMA EndStep == ASSUME ProbeInv, ListTags \/ RequestFails PROVE ProbeInv'
<1> USE DEF ListTags, RequestFails, Except, Finally, fixed
<1>1. TypeOK'
  BY DEF ProbeInv, TypeOK
<1>2. ModeInv'
  BY DEF ProbeInv, TypeOK, ModeInv, Reported, Deleting
<1>3. CanaryInv' /\ CheckInv'
  BY DEF ProbeInv, TypeOK, ModeInv, CanaryInv, CheckInv
<1>4. ReportTruthful' /\ FailuresExplained' /\ NoDanglingSubject'
  BY DEF ProbeInv, TypeOK, ModeInv, ReportTruthful, FailuresExplained, NoDanglingSubject
<1> QED BY <1>1, <1>2, <1>3, <1>4 DEF ProbeInv

LEMMA GetReferrersStep == ASSUME ProbeInv, GetReferrers PROVE ProbeInv'
<1> USE DEF GetReferrers, Check, Conclude, Passed, Finally, fixed
<1>1. TypeOK'
  BY DEF ProbeInv, TypeOK
<1>2. ModeInv'
  BY DEF ProbeInv, TypeOK, ModeInv, Reported, Deleting
<1>3. CanaryInv' /\ CheckInv'
  BY DEF ProbeInv, TypeOK, ModeInv, CanaryInv, CheckInv
<1>4. ReportTruthful' /\ FailuresExplained' /\ NoDanglingSubject'
  BY DEF ProbeInv, TypeOK, CheckInv, ReportTruthful, FailuresExplained, NoDanglingSubject
<1> QED BY <1>1, <1>2, <1>3, <1>4 DEF ProbeInv

LEMMA PutManifestStep == ASSUME ProbeInv, PutManifest PROVE ProbeInv'
<1> USE DEF PutManifest, Except, Finally, fixed
<1>1. TypeOK'
  BY DEF ProbeInv, TypeOK
<1>2. ModeInv'
  BY DEF ProbeInv, TypeOK, ModeInv, Reported, Deleting
<1>3. CanaryInv' /\ CheckInv'
  BY DEF ProbeInv, TypeOK, ModeInv, CanaryInv, CheckInv
<1>4. ReportTruthful' /\ FailuresExplained' /\ NoDanglingSubject'
  BY DEF ProbeInv, TypeOK, ModeInv, CanaryInv, ReportTruthful, FailuresExplained, NoDanglingSubject, Reported
<1> QED BY <1>1, <1>2, <1>3, <1>4 DEF ProbeInv

LEMMA NothingToDeleteStep == ASSUME ProbeInv, NothingToDelete PROVE ProbeInv'
<1> USE DEF NothingToDelete, Cleaning, Held, GoOn, Canary, fixed
<1>1. TypeOK'
  BY DEF ProbeInv, TypeOK
<1>2. ModeInv' /\ CanaryInv' /\ CheckInv'
  BY DEF ProbeInv, TypeOK, ModeInv, CanaryInv, CheckInv, Reported, Deleting
<1>3. ReportTruthful' /\ FailuresExplained' /\ NoDanglingSubject'
  BY DEF ProbeInv, ReportTruthful, FailuresExplained, NoDanglingSubject
<1> QED BY <1>1, <1>2, <1>3 DEF ProbeInv

-----------------------------------------------------------------------------
(* Deletion                                                                *)

LEMMA DeleteManifestStep == ASSUME ProbeInv, DeleteManifest PROVE ProbeInv'
<1>0. /\ "deletion" \in features /\ "deletion" \in binding /\ mode = "deep"
      /\ step \in {"delversion", "delanchor", "cleanversion", "cleananchor"}
  BY DEF ProbeInv, TypeOK, ModeInv, DeleteManifest, Deleting
<1> USE <1>0, AttemptsAssumption DEF DeleteManifest, Deleted, Held, Cleaning, Canary, GoOn,
    Conclude, Passed, Finally, fixed
<1>1. TypeOK'
  BY DEF ProbeInv, TypeOK
<1>2. ModeInv'
  BY DEF ProbeInv, TypeOK, ModeInv, Reported, Deleting
<1>3. CanaryInv'
  BY DEF ProbeInv, TypeOK, ModeInv, CanaryInv
<1>4. CheckInv'
  BY DEF ProbeInv, TypeOK, CanaryInv, CheckInv
<1>5. ReportTruthful'
  BY DEF ProbeInv, TypeOK, ModeInv, CanaryInv, ReportTruthful, Reported
<1>6. FailuresExplained'
  BY DEF ProbeInv, TypeOK, ModeInv, CheckInv, FailuresExplained, Reported
<1>7. NoDanglingSubject'
  BY DEF ProbeInv, TypeOK, CanaryInv, NoDanglingSubject
<1> QED BY <1>1, <1>2, <1>3, <1>4, <1>5, <1>6, <1>7 DEF ProbeInv

\* An exception of delete_manifest, after the last attempt or for good.
LEMMA DeleteRaisesStep ==
    ASSUME ProbeInv, Deleting, Held, DeleteRaises, UNCHANGED fixed,
           canaries' \in {canaries, canaries \ {Canary}},
           unanswered' \in {unanswered, unanswered \cup {Canary}}
    PROVE  ProbeInv'
<1>0. /\ "deletion" \in binding /\ mode = "deep"
      /\ step \in {"delversion", "delanchor", "cleanversion", "cleananchor"}
  BY DEF ProbeInv, TypeOK, ModeInv, Deleting
<1> USE <1>0, AttemptsAssumption DEF DeleteRaises, Except, Finally, Held, Cleaning, Canary, GoOn, fixed
<1>1. TypeOK'
  <2>1. /\ tries' \in 0 .. MaxReadAttempts - 1 /\ report' \in {"none", "passed", "failed"}
        /\ step' \in {"cleanversion", "cleananchor", "done"} /\ known' = known
        /\ checks' = checks /\ UNCHANGED <<binding, features, mode>>
    BY DEF ProbeInv, TypeOK
  <2>2. canaries' \subseteq {"anchor", "version"} /\ abandoned' \subseteq {"anchor", "version"}
    BY DEF ProbeInv, TypeOK
  <2> QED BY <2>1, <2>2 DEF ProbeInv, TypeOK
<1>2. ModeInv'
  BY DEF ProbeInv, TypeOK, ModeInv, Reported, Deleting
<1>3. CanaryInv' /\ CheckInv'
  BY DEF ProbeInv, TypeOK, ModeInv, CanaryInv, CheckInv
<1>4. ReportTruthful' /\ FailuresExplained'
  BY DEF ProbeInv, TypeOK, ModeInv, ReportTruthful, FailuresExplained, Reported
<1>5. NoDanglingSubject'
  BY DEF ProbeInv, TypeOK, CanaryInv, NoDanglingSubject
<1> QED BY <1>1, <1>2, <1>3, <1>4, <1>5 DEF ProbeInv

\* A DELETE that is sent again, after the first may have been applied.
LEMMA DeleteAgainStep ==
    ASSUME ProbeInv, Deleting, tries + 1 < MaxReadAttempts, tries' = tries + 1,
           \/ UNCHANGED <<canaries, unanswered>>
           \/ /\ canaries' = canaries \ {Canary}
              /\ Cleaning \/ Canary \in unanswered'
              /\ unanswered' \in {unanswered, unanswered \cup {Canary}},
           UNCHANGED <<fixed, step, known, checks, report, abandoned, trouble>>
    PROVE  ProbeInv'
<1>0. /\ step \in {"delversion", "delanchor", "cleanversion", "cleananchor"}
      /\ canaries' \subseteq canaries
      /\ \A c \in canaries \ canaries' : c = Canary
      /\ unanswered \subseteq unanswered' /\ unanswered' \subseteq {"anchor", "version"}
      /\ canaries \ canaries' # {} => Cleaning \/ Canary \in unanswered'
  BY DEF ProbeInv, TypeOK, Deleting, Canary
<1> USE DEF Canary, fixed
<1>1. TypeOK'
  <2>1. tries' \in 0 .. MaxReadAttempts - 1
    BY AttemptsAssumption DEF ProbeInv, TypeOK
  <2> QED BY <1>0, <2>1 DEF ProbeInv, TypeOK
<1>2. ModeInv' /\ CanaryInv'
  BY <1>0 DEF ProbeInv, TypeOK, ModeInv, CanaryInv, Reported, Deleting
<1>3. CheckInv'
  BY <1>0 DEF ProbeInv, TypeOK, CanaryInv, CheckInv, Cleaning
<1>4. ReportTruthful' /\ FailuresExplained' /\ NoDanglingSubject'
  BY <1>0 DEF ProbeInv, TypeOK, CanaryInv, ReportTruthful, FailuresExplained, NoDanglingSubject
<1> QED BY <1>1, <1>2, <1>3, <1>4 DEF ProbeInv

LEMMA DeleteFailsStep == ASSUME ProbeInv, DeleteRefused \/ DeleteLost PROVE ProbeInv'
<1>1. CASE DeleteRefused
  BY <1>1, DeleteRaisesStep DEF DeleteRefused, ProbeInv, TypeOK
<1>2. CASE DeleteLost
  BY <1>2, DeleteRaisesStep, DeleteAgainStep DEF DeleteLost
<1> QED BY <1>1, <1>2

-----------------------------------------------------------------------------
LEMMA ProbeStutter == ASSUME ProbeInv, UNCHANGED vars PROVE ProbeInv'
<1>1. TypeOK' /\ ModeInv' /\ CanaryInv' /\ CheckInv'
  BY DEF ProbeInv, TypeOK, ModeInv, CanaryInv, CheckInv, Reported, Deleting, vars, fixed
<1>2. ReportTruthful' /\ FailuresExplained' /\ NoDanglingSubject'
  BY DEF ProbeInv, ReportTruthful, FailuresExplained, NoDanglingSubject, vars, fixed
<1> QED BY <1>1, <1>2 DEF ProbeInv

\* The invariant of OciDistributionProbe.
THEOREM ProbeInvariant == Spec => []ProbeInv
<1>1. ProbeInv /\ [Next]_vars => ProbeInv'
  BY RequestStep, CheckStep, EndStep, GetReferrersStep, PutManifestStep, NothingToDeleteStep,
     DeleteManifestStep, DeleteFailsStep, ProbeStutter DEF Next, ProbeStep
<1> QED BY ProbeInit, <1>1, PTL DEF Spec

\* The values of a probe have their types: no DELETE is attempted too often.
THEOREM ProbeTypes == Spec => []TypeOK
<1>1. ProbeInv => TypeOK
  BY DEF ProbeInv
<1> QED BY ProbeInvariant, <1>1, PTL

\* A report claims only what the registry provides, and a deep() that passed with
\* deletion enabled has removed both canaries.
THEOREM ReportsAreTruthful == Spec => []ReportTruthful
<1>1. ProbeInv => ReportTruthful
  BY DEF ProbeInv
<1> QED BY ProbeInvariant, <1>1, PTL

\* deep() fails for a missing feature, because a request raised, or, as the one
\* false alarm, over the deletion check alone after an applied DELETE whose answer
\* was lost.
THEOREM FailuresAreExplained == Spec => []FailuresExplained
<1>1. ProbeInv => FailuresExplained
  BY DEF ProbeInv
<1> QED BY ProbeInvariant, <1>1, PTL

\* With deletion enabled, deep() leaves only canaries with an unanswered PUT or a
\* failed clean-up.
THEOREM CanariesAreAccounted == Spec => []CanariesAccounted
<1>1. ProbeInv => CanariesAccounted
  BY DEF ProbeInv, CanaryInv, CanariesAccounted
<1> QED BY ProbeInvariant, <1>1, PTL

\* No version canary is left without its anchor, unless it is one of those.
THEOREM SubjectsKept == Spec => []NoDanglingSubject
<1>1. ProbeInv => NoDanglingSubject
  BY DEF ProbeInv
<1> QED BY ProbeInvariant, <1>1, PTL

=============================================================================
