CONSTANTS
    MaxReadAttempts = 3
SPECIFICATION FairSpec
INVARIANTS
    ReportTruthful
    FailuresExplained
    CanariesAccounted
    NoDanglingSubject
PROPERTIES
    ProbeEnds
