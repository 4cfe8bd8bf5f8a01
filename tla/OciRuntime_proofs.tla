------------------------- MODULE OciRuntime_proofs -------------------------
(***************************************************************************)
(* The runtime's lifecycle, for any number of sessions, workers, openings  *)
(* and operations.                                                         *)
(***************************************************************************)
EXTENDS OciRuntime, TLAPS

\* A runtime that was never opened holds nothing.
LEMMA RuntimeInit == Init => RuntimeInv
BY RuntimeAssumption DEF Init, RuntimeInv, TypeOK, FieldsAgree, Held, Overtaken, Releasing

\* open() takes the CA directory and the client together with the adapter.
LEMMA OpenPreserves == ASSUME RuntimeInv, OpenStep PROVE RuntimeInv'
<1> USE RuntimeAssumption DEF RuntimeInv
<1>1. CASE Open
  <2>1. opens + 1 \in 1 .. MaxOpens /\ opens' = opens + 1
    BY <1>1 DEF Open, TypeOK
  <2>2. caDirectory' \in {"present", "none"} /\ clients = {} /\ verified = "no" /\ adapter = 0
    BY <1>1 DEF Open, TypeOK, FieldsAgree, Held, Releasing
  <2>3. /\ ctl = "idle"
        /\ UNCHANGED <<probe, verified, physical, closing, session, pc, local, outcome, late, ops>>
    BY <1>1 DEF Open, workerVars
  <2>4. \/ adapter' = opens' /\ clients' = clients \cup {opens'} /\ ctl' = "probing"
        \/ ctl' = "close" /\ adapter' = adapter /\ clients' = clients
    BY <1>1, Zenon DEF Open
  <2>5. CASE adapter' = opens' /\ clients' = clients \cup {opens'} /\ ctl' = "probing"
    <3>1. adapter' = opens + 1 /\ clients' = {opens + 1} /\ adapter' # 0
      BY <2>1, <2>2, <2>5
    <3>2. clients' \subseteq 1 .. MaxOpens /\ adapter' \in 0 .. MaxOpens /\ opens' \in 0 .. MaxOpens
      BY <2>1, <3>1
    <3>3. Overtaken'
      <4> SUFFICES ASSUME NEW w \in Workers
                   PROVE  /\ local[w] <= opens'
                          /\ late[w] # 0 => late[w] = 1 /\ local[w] \notin clients' /\ pc[w] \notin {"fetch", "checked"}
        BY <2>3 DEF Overtaken
      <4>1. local[w] \in Nat /\ local[w] <= opens /\ opens \in Nat
        BY DEF TypeOK, Overtaken
      <4> QED BY <2>1, <3>1, <4>1 DEF Overtaken
    <3> QED BY <2>1, <2>2, <2>3, <2>5, <3>1, <3>2, <3>3 DEF TypeOK, FieldsAgree, Held, Releasing
  <2>6. CASE ctl' = "close" /\ adapter' = adapter /\ clients' = clients
    <3>1. Overtaken'
      BY <2>1, <2>3, <2>6 DEF TypeOK, Overtaken
    <3> QED BY <2>1, <2>2, <2>3, <2>6, <3>1 DEF TypeOK, FieldsAgree, Held, Releasing
  <2> QED BY <2>4, <2>5, <2>6
<1>2. CASE ProbeStartup
  BY <1>2 DEF ProbeStartup, TypeOK, FieldsAgree, Held, Overtaken, Releasing, workerVars
<1> QED BY <1>1, <1>2 DEF OpenStep

\* Every step of close() keeps the fields and what they hold consistent.
LEMMA ClosePreserves == ASSUME RuntimeInv, Close \/ CloseStep PROVE RuntimeInv'
<1> USE RuntimeAssumption DEF RuntimeInv, TypeOK, FieldsAgree, Held, Overtaken, Releasing, workerVars
<1>1. CASE Close
  BY <1>1 DEF Close
<1>2. CASE TakeAdapter
  BY <1>2 DEF TakeAdapter
<1>3. CASE ForgetProbe
  BY <1>3 DEF ForgetProbe
<1>4. CASE ForgetVerified
  BY <1>4 DEF ForgetVerified
<1>5. CASE CloseClient
  BY <1>5 DEF CloseClient
<1>6. CASE CleanUpCa
  BY <1>6 DEF CleanUpCa
<1> QED BY <1>1, <1>2, <1>3, <1>4, <1>5, <1>6 DEF CloseStep

\* verify_physical records a verification of the current adapter only.
LEMMA VerifyPreserves == ASSUME RuntimeInv, VerifyPhysical \/ VerifyRequests PROVE RuntimeInv'
<1> USE RuntimeAssumption DEF RuntimeInv, TypeOK, FieldsAgree, Held, Overtaken, Releasing, workerVars
<1>1. CASE VerifyPhysical
  <2>1. ctl = "idle" /\ ctl' \in {"verifying", "idle"} /\ verified' = "no" /\ adapter # 0
    BY <1>1 DEF VerifyPhysical, RuntimeOpen
  <2> QED BY <1>1, <2>1 DEF VerifyPhysical
<1>2. CASE VerifyRequests
  <2>1. adapter \in 1 .. MaxOpens
    BY <1>2 DEF VerifyRequests
  <2>2. CASE verified' = "yes" /\ physical' = physical \cup {adapter}
    <3>1. physical' \subseteq 1 .. MaxOpens /\ adapter \in physical'
      BY <2>1, <2>2
    <3> QED BY <1>2, <2>1, <2>2, <3>1 DEF VerifyRequests
  <2>3. CASE UNCHANGED <<verified, physical>>
    BY <1>2, <2>1, <2>3 DEF VerifyRequests
  <2> QED BY <1>2, <2>2, <2>3 DEF VerifyRequests
<1> QED BY <1>1, <1>2

\* Sessions and workers leave the lifecycle alone.
LEMMA WorkersPreserve ==
    ASSUME RuntimeInv,
           \/ \E s \in Sessions : OpenSession(s) \/ CloseSession(s)
           \/ \E w \in Workers : WorkerStep(w) \/ \E s \in Sessions : Execute(w, s)
           \/ UNCHANGED vars
    PROVE  RuntimeInv'
<1>1. UNCHANGED lifecycleVars
  BY DEF OpenSession, CloseSession, WorkerStep, FetchAdapter, CheckClient, SendRequest,
         AnswerRequest, ReportResult, Execute, vars
<1>2. FieldsAgree' /\ Held'
  BY <1>1 DEF RuntimeInv, FieldsAgree, Held, lifecycleVars
<1>3. TypeOK' /\ Overtaken'
  <2> USE RuntimeAssumption DEF RuntimeInv, TypeOK, lifecycleVars, workerVars, Return, Goto
  <2>1. CASE \E s \in Sessions : OpenSession(s) \/ CloseSession(s)
    BY <2>1, <1>1 DEF OpenSession, CloseSession, Overtaken
  <2>2. ASSUME NEW w \in Workers, FetchAdapter(w)
        PROVE  TypeOK' /\ Overtaken'
    BY <2>2, <1>1 DEF FetchAdapter, Overtaken, FieldsAgree, Held
  <2>3. ASSUME NEW w \in Workers, CheckClient(w)
        PROVE  TypeOK' /\ Overtaken'
    BY <2>3, <1>1 DEF CheckClient, Overtaken
  <2>4. ASSUME NEW w \in Workers, SendRequest(w)
        PROVE  TypeOK' /\ Overtaken'
    BY <2>4, <1>1 DEF SendRequest, Overtaken
  <2>5. ASSUME NEW w \in Workers, AnswerRequest(w)
        PROVE  TypeOK' /\ Overtaken'
    BY <2>5, <1>1 DEF AnswerRequest, Overtaken
  <2>6. ASSUME NEW w \in Workers, ReportResult(w)
        PROVE  TypeOK' /\ Overtaken'
    BY <2>6, <1>1 DEF ReportResult, Overtaken
  <2>7. ASSUME NEW w \in Workers, NEW s \in Sessions, Execute(w, s)
        PROVE  TypeOK' /\ Overtaken'
    BY <2>7, <1>1 DEF Execute, Overtaken
  <2>8. CASE UNCHANGED vars
    BY <2>8, <1>1 DEF vars, Overtaken
  <2> QED BY <2>1, <2>2, <2>3, <2>4, <2>5, <2>6, <2>7, <2>8 DEF WorkerStep
<1> QED BY <1>2, <1>3 DEF RuntimeInv

\* The invariant of the runtime (_Runtime and _Session).
THEOREM RuntimeInvariant == Spec => []RuntimeInv
<1>1. RuntimeInv /\ [Next]_vars => RuntimeInv'
  BY OpenPreserves, ClosePreserves, VerifyPreserves, WorkersPreserve DEF Next, Quiesce
<1> QED BY RuntimeInit, <1>1, PTL DEF Spec

\* A closed runtime, or one whose open() raised, has left neither the CA
\* directory nor an HTTP client behind.
THEOREM CloseReleasesAll == Spec => []ClosedLeavesNothing
<1>1. RuntimeInv => ClosedLeavesNothing
  BY DEF RuntimeInv, TypeOK, Held, Releasing, ClosedLeavesNothing, IsClosed
<1> QED BY RuntimeInvariant, <1>1, PTL

\* The runtime is never half open between lifecycle calls.
THEOREM OpenOrClosed == Spec => []NeverHalfOpen
<1>1. RuntimeInv => NeverHalfOpen
  BY DEF RuntimeInv, FieldsAgree, NeverHalfOpen
<1> QED BY RuntimeInvariant, <1>1, PTL

\* Sessions are handed out only for adapters that were verified.
THEOREM SessionsNeedVerification == Spec => SessionsVerified
<1>1. ASSUME RuntimeInv, [Next]_vars, NEW s \in Sessions,
             session[s] = "unused", session'[s] # "unused"
      PROVE  adapter # 0 /\ adapter \in physical
  <2>1. \E r \in Sessions : OpenSession(r)
    <3>1. session' # session
      BY <1>1
    <3>2. CASE \E r \in Sessions : CloseSession(r)
      BY <3>2, <1>1 DEF CloseSession, RuntimeInv, TypeOK
    <3> QED BY <3>1, <3>2, <1>1
           DEF Next, OpenStep, Open, ProbeStartup, Close, CloseStep, TakeAdapter, ForgetProbe,
               ForgetVerified, CloseClient, CleanUpCa, VerifyPhysical, VerifyRequests,
               WorkerStep, FetchAdapter, CheckClient, SendRequest, AnswerRequest, ReportResult,
               Execute, Quiesce, vars
  <2> QED BY <2>1, <1>1 DEF OpenSession, RuntimeInv, FieldsAgree, RuntimeOpen
<1>2. RuntimeInv /\ [Next]_vars =>
        [\A s \in Sessions : session[s] = "unused" /\ session'[s] # "unused" =>
             adapter # 0 /\ adapter \in physical]_vars
  BY <1>1
<1> QED BY RuntimeInvariant, <1>2, PTL DEF Spec, SessionsVerified

\* An operation that close() overtakes sends at most the request that had passed
\* the check of the client, and succeeds only if the runtime was opened again.
THEOREM OvertakenOperationsStop == Spec => OvertakenStops
<1>1. ASSUME RuntimeInv, RuntimeInv', NEW w \in Workers
      PROVE  late'[w] <= 1
  BY <1>1 DEF RuntimeInv, TypeOK, Overtaken
<1>2. ASSUME RuntimeInv, [Next]_vars, NEW w \in Workers,
             late[w] = 1, pc[w] # "idle", pc'[w] = "idle", outcome'[w] = "ok"
      PROVE  adapter > local[w]
  <2>1. ReportResult(w)
    <3>1. pc' # pc
      BY <1>2
    <3>2. ASSUME NEW v \in Workers,
                 FetchAdapter(v) \/ CheckClient(v) \/ AnswerRequest(v) \/ SendRequest(v)
          PROVE  FALSE
      BY <3>2, <1>2 DEF FetchAdapter, CheckClient, SendRequest, AnswerRequest, Return, Goto,
                        RuntimeInv, TypeOK
    <3>3. ASSUME NEW v \in Workers, NEW s \in Sessions, Execute(v, s)
          PROVE  FALSE
      BY <3>3, <1>2 DEF Execute, RuntimeInv, TypeOK
    <3>4. ASSUME NEW v \in Workers, ReportResult(v)
          PROVE  v = w
      BY <3>4, <1>2 DEF ReportResult, Return, RuntimeInv, TypeOK
    <3> QED BY <3>1, <3>2, <3>3, <3>4, <1>2
           DEF Next, OpenStep, Open, ProbeStartup, Close, CloseStep, TakeAdapter, ForgetProbe,
               ForgetVerified, CloseClient, CleanUpCa, VerifyPhysical, VerifyRequests,
               OpenSession, CloseSession, WorkerStep, Quiesce, vars, workerVars
  <2>2. adapter # 0
    BY <2>1, <1>2 DEF ReportResult, Return, RuntimeOpen, RuntimeInv, TypeOK
  <2>3. adapter = opens /\ adapter \in clients /\ local[w] \notin clients /\ local[w] <= opens
    BY <2>2, <1>2 DEF RuntimeInv, FieldsAgree, Held, Overtaken
  <2> QED BY <2>3, <1>2 DEF RuntimeInv, TypeOK
<1>3. RuntimeInv /\ RuntimeInv' /\ [Next]_vars =>
        [\A w \in Workers :
             /\ late'[w] <= 1
             /\ late[w] = 1 /\ pc[w] # "idle" /\ pc'[w] = "idle" /\ outcome'[w] = "ok" =>
                    adapter > local[w]]_vars
  BY <1>1, <1>2
<1> QED BY RuntimeInvariant, <1>3, PTL DEF Spec, OvertakenStops

=============================================================================
