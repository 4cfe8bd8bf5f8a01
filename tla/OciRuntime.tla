----------------------------- MODULE OciRuntime -----------------------------
(***************************************************************************)
(* _Runtime and _Session (_factory.py): one lifecycle thread opens,        *)
(* verifies and closes the runtime and hands out sessions, while worker    *)
(* threads execute operations through them.  The runtime has no lock, so a *)
(* close may fall between any two reads of a worker.                       *)
(*                                                                         *)
(* Adapters are numbered in the order they are created; 0 is None.  What   *)
(* an operation does to the registry is the subject of OciAdapter: here it *)
(* is a number of requests, each of which the HTTP client checks, sends    *)
(* and waits for.                                                          *)
(***************************************************************************)
EXTENDS Naturals

CONSTANTS
    Sessions,      \* session objects, each handed out at most once
    Workers,       \* threads that call session.execute
    TlsCa,         \* whether the binding brings CA material
    MaxOpens,      \* bound: calls of open that create an adapter
    MaxOps         \* bound: calls of execute

ASSUME RuntimeAssumption == TlsCa \in BOOLEAN /\ MaxOpens \in Nat /\ MaxOps \in Nat

VARIABLES
    adapter,       \* _adapter: the current adapter, or 0
    probe,         \* _probe: the adapter whose report it holds, or 0
    verified,      \* _verified: "yes" or "no"
    caDirectory,   \* _ca_directory: "present" or "none"
    opens,         \* adapters created so far
    clients,       \* adapters whose HTTP client is open
    physical,      \* history: adapters verify_physical has succeeded with
    ctl, closing,  \* the lifecycle thread's step, and the adapter it closes
    session,       \* unused, open or closed
    pc, local,     \* each worker's step, and the adapter it executes on
    outcome,       \* how its last execute ended
    late,          \* history: requests it sent on a client that was closed
    ops

lifecycleVars == <<adapter, probe, verified, caDirectory, opens, clients, physical, ctl, closing>>
workerVars == <<pc, local, outcome, late, ops>>
vars == <<lifecycleVars, session, workerVars>>

Init ==
    /\ adapter = 0 /\ probe = 0 /\ verified = "no" /\ caDirectory = "none"
    /\ opens = 0 /\ clients = {} /\ physical = {}
    /\ ctl = "idle" /\ closing = 0
    /\ session = [s \in Sessions |-> "unused"]
    /\ pc = [w \in Workers |-> "idle"]
    /\ local = [w \in Workers |-> 0]
    /\ outcome = [w \in Workers |-> "none"]
    /\ late = [w \in Workers |-> 0]
    /\ ops = 0

-----------------------------------------------------------------------------
(* open                                                                    *)

\* The CA file, then the adapter with its client.  Either may raise, which
\* leads to close.  (An open runtime returns at once; the constructor does
\* nothing after the client that can raise with a validated binding.)
Open ==
    /\ ctl = "idle" /\ adapter = 0 /\ opens < MaxOpens
    /\ opens' = opens + 1
    /\ caDirectory' \in IF TlsCa THEN {"present", "none"} ELSE {"none"}
    /\ \/ /\ TlsCa => caDirectory' = "present"
          /\ adapter' = opens' /\ clients' = clients \cup {opens'} /\ ctl' = "probing"
       \/ ctl' = "close" /\ UNCHANGED <<adapter, clients>>
    /\ UNCHANGED <<probe, verified, physical, closing, session, workerVars>>

\* The authenticated startup probe passes, or the runtime is closed again.
ProbeStartup ==
    /\ ctl = "probing"
    /\ \/ ctl' = "idle" /\ probe' = adapter
       \/ ctl' = "close" /\ UNCHANGED probe
    /\ UNCHANGED <<adapter, verified, caDirectory, opens, clients, physical, closing, session,
                   workerVars>>

-----------------------------------------------------------------------------
(* close, also called by a failed open                                     *)

Close ==
    /\ ctl = "idle" /\ adapter # 0
    /\ ctl' = "close"
    /\ UNCHANGED <<adapter, probe, verified, caDirectory, opens, clients, physical, closing,
                   session, workerVars>>

TakeAdapter ==
    /\ ctl = "close"
    /\ closing' = adapter /\ adapter' = 0
    /\ ctl' = "unprobe"
    /\ UNCHANGED <<probe, verified, caDirectory, opens, clients, physical, session, workerVars>>

ForgetProbe ==
    /\ ctl = "unprobe"
    /\ probe' = 0 /\ ctl' = "unverify"
    /\ UNCHANGED <<adapter, verified, caDirectory, opens, clients, physical, closing, session,
                   workerVars>>

\* Mutant of ForgetVerified: the verification survives.
ForgetVerified_Kept ==
    /\ ctl = "unverify"
    /\ ctl' = "client"
    /\ UNCHANGED <<adapter, probe, verified, caDirectory, opens, clients, physical, closing,
                   session, workerVars>>

ForgetVerified ==
    /\ ctl = "unverify"
    /\ verified' = "no" /\ ctl' = "client"
    /\ UNCHANGED <<adapter, probe, caDirectory, opens, clients, physical, closing, session,
                   workerVars>>

\* adapter.close(); httpx marks a client closed before anything can raise.
CloseClient ==
    /\ ctl = "client"
    /\ clients' = clients \ {closing} /\ ctl' = "cleanup"
    /\ UNCHANGED <<adapter, probe, verified, caDirectory, opens, physical, closing, session,
                   workerVars>>

\* Mutant of CleanUpCa: only a runtime that had an adapter cleans up.
CleanUpCa_IfOpened ==
    /\ ctl = "cleanup"
    /\ caDirectory' = IF closing # 0 THEN "none" ELSE caDirectory
    /\ closing' = 0 /\ ctl' = "idle"
    /\ UNCHANGED <<adapter, probe, verified, opens, clients, physical, session, workerVars>>

\* finally: the directory with the CA file is removed.
CleanUpCa ==
    /\ ctl = "cleanup"
    /\ caDirectory' = "none"
    /\ closing' = 0 /\ ctl' = "idle"
    /\ UNCHANGED <<adapter, probe, verified, opens, clients, physical, session, workerVars>>

-----------------------------------------------------------------------------
(* verify_physical and open_session                                        *)

RuntimeOpen == adapter # 0 /\ probe # 0

\* The old verification is dropped before anything can raise.
VerifyPhysical ==
    /\ ctl = "idle" /\ RuntimeOpen
    /\ verified' = "no"
    /\ ctl' = "verifying" \/ ctl' = "idle"                  \* wrong resources raise
    /\ UNCHANGED <<adapter, probe, caDirectory, opens, clients, physical, closing, session,
                   workerVars>>

\* ping and list_tags succeed, or one of them raises.
VerifyRequests ==
    /\ ctl = "verifying"
    /\ ctl' = "idle"
    /\ \/ verified' = "yes" /\ physical' = physical \cup {adapter}
       \/ UNCHANGED <<verified, physical>>
    /\ UNCHANGED <<adapter, probe, caDirectory, opens, clients, closing, session, workerVars>>

OpenSession(s) ==
    /\ ctl = "idle" /\ RuntimeOpen /\ verified = "yes"
    /\ session[s] = "unused"
    /\ session' = [session EXCEPT ![s] = "open"]
    /\ UNCHANGED <<lifecycleVars, workerVars>>

CloseSession(s) ==
    /\ session[s] = "open"
    /\ session' = [session EXCEPT ![s] = "closed"]
    /\ UNCHANGED <<lifecycleVars, workerVars>>

-----------------------------------------------------------------------------
(* session.execute                                                         *)

\* A closed session or runtime raises before anything is done: no step.  The
\* adapter is read once more after the checks, and may be gone by then.
Execute(w, s) ==
    /\ pc[w] = "idle" /\ ops < MaxOps
    /\ session[s] = "open" /\ RuntimeOpen
    /\ ops' = ops + 1
    /\ pc' = [pc EXCEPT ![w] = "fetch"]
    /\ outcome' = [outcome EXCEPT ![w] = "none"]
    /\ late' = [late EXCEPT ![w] = 0]
    /\ UNCHANGED <<lifecycleVars, session, local>>

Return(w, result) ==
    /\ pc' = [pc EXCEPT ![w] = "idle"]
    /\ local' = [local EXCEPT ![w] = 0]
    /\ outcome' = [outcome EXCEPT ![w] = result]

FetchAdapter(w) ==
    /\ pc[w] = "fetch"
    /\ IF adapter = 0 THEN Return(w, "failed")
       ELSE /\ local' = [local EXCEPT ![w] = adapter]
            /\ pc' = [pc EXCEPT ![w] = "run"]
            /\ UNCHANGED outcome
    /\ UNCHANGED <<lifecycleVars, session, late, ops>>

Goto(w, step) == pc' = [pc EXCEPT ![w] = step] /\ UNCHANGED <<local, outcome>>

\* Mutant of CheckClient: the client is not looked at.
CheckClient_Detached(w) ==
    /\ pc[w] = "run"
    /\ Goto(w, "checked") \/ Return(w, "failed")
    /\ UNCHANGED <<lifecycleVars, session, late, ops>>

\* The next request of adapter.execute, or the next attempt at one: a client
\* that is closed raises.  The operation may also end here with an error.
CheckClient(w) ==
    /\ pc[w] = "run"
    /\ \/ local[w] \in clients /\ Goto(w, "checked")
       \/ Return(w, "failed")
    /\ UNCHANGED <<lifecycleVars, session, late, ops>>

\* The request goes out, also when the client was closed after the check.  The
\* registry may apply it at any time from now on.
SendRequest(w) ==
    /\ pc[w] = "checked"
    /\ Goto(w, "wire")
    /\ late' = IF local[w] \in clients THEN late ELSE [late EXCEPT ![w] = @ + 1]
    /\ UNCHANGED <<lifecycleVars, session, ops>>

\* An answer, or none: the operation goes on with another request, has its
\* result, or raises.
AnswerRequest(w) ==
    /\ pc[w] = "wire"
    /\ Goto(w, "run") \/ Goto(w, "report") \/ Return(w, "failed")
    /\ UNCHANGED <<lifecycleVars, session, late, ops>>

\* The provenance is taken from the runtime's probe, which raises when the
\* runtime was closed meanwhile, although the operation took effect.
ReportResult(w) ==
    /\ pc[w] = "report"
    /\ Return(w, IF RuntimeOpen THEN "ok" ELSE "effective")
    /\ UNCHANGED <<lifecycleVars, session, late, ops>>

-----------------------------------------------------------------------------
OpenStep == Open \/ ProbeStartup
CloseStep == TakeAdapter \/ ForgetProbe \/ ForgetVerified \/ CloseClient \/ CleanUpCa
WorkerStep(w) ==
    FetchAdapter(w) \/ CheckClient(w) \/ SendRequest(w) \/ AnswerRequest(w) \/ ReportResult(w)

\* The bounds are used up.
Quiesce ==
    /\ ctl = "idle" /\ adapter = 0 /\ opens = MaxOpens
    /\ \A w \in Workers : pc[w] = "idle"
    /\ UNCHANGED vars

Next ==
    \/ OpenStep \/ Close \/ CloseStep \/ VerifyPhysical \/ VerifyRequests
    \/ \E s \in Sessions : OpenSession(s) \/ CloseSession(s)
    \/ \E w \in Workers : WorkerStep(w) \/ \E s \in Sessions : Execute(w, s)
    \/ Quiesce

Spec == Init /\ [][Next]_vars

-----------------------------------------------------------------------------
(* Properties                                                              *)

\* Types: numbers of adapters, and the steps of the lifecycle and the workers.
TypeOK ==
    /\ adapter \in 0 .. MaxOpens /\ probe \in 0 .. MaxOpens /\ closing \in 0 .. MaxOpens
    /\ opens \in 0 .. MaxOpens /\ ops \in 0 .. MaxOps
    /\ verified \in {"yes", "no"} /\ caDirectory \in {"present", "none"}
    /\ clients \subseteq 1 .. MaxOpens /\ physical \subseteq 1 .. MaxOpens
    /\ ctl \in {"idle", "probing", "verifying", "close", "unprobe", "unverify", "client", "cleanup"}
    /\ session \in [Sessions -> {"unused", "open", "closed"}]
    /\ pc \in [Workers -> {"idle", "fetch", "run", "checked", "wire", "report"}]
    /\ local \in [Workers -> 0 .. MaxOpens]
    /\ outcome \in [Workers -> {"none", "ok", "failed", "effective"}]
    /\ late \in [Workers -> Nat]

\* close() has returned, or open() has raised, and open() has not been called
\* since.
IsClosed == ctl = "idle" /\ adapter = 0

\* "A private temporary file removed on close or failed startup": a closed
\* runtime has left neither the CA directory nor an open HTTP client behind,
\* wherever open() failed.
ClosedLeavesNothing == IsClosed => caDirectory = "none" /\ clients = {}

\* A session is handed out only for an adapter that verify_physical has
\* succeeded with: neither a close and reopening nor a failed repetition
\* keeps an old verification.
SessionsVerified ==
    [][\A s \in Sessions : session[s] = "unused" /\ session'[s] # "unused" =>
           adapter # 0 /\ adapter \in physical]_vars

\* close() does not wait for workers.  An operation it overtakes, however many
\* requests it has still to make, sends at most the one that had passed the
\* check of the client (with its redirects), and is reported as a success only if the runtime was
\* opened again in the meantime.
OvertakenStops ==
    [][\A w \in Workers :
           /\ late'[w] <= 1
           /\ late[w] = 1 /\ pc[w] # "idle" /\ pc'[w] = "idle" /\ outcome'[w] = "ok" =>
                  adapter > local[w]]_vars

\* Between lifecycle calls the runtime is open or closed, never half open: an
\* open() that returns early, because there is an adapter, leaves a runtime
\* that works, and one that raised can be called again.
NeverHalfOpen == ctl = "idle" => probe = adapter

-----------------------------------------------------------------------------
(* Inductive invariant                                                     *)

\* Where close() is: it has taken the adapter but not yet closed the client.
Releasing == {"unprobe", "unverify", "client"}

\* The fields agree with each other, except while close() is clearing them.
FieldsAgree ==
    /\ ctl \in {"idle", "verifying"} => probe = adapter
    /\ ctl \in {"unverify", "client", "cleanup"} => probe = 0
    /\ verified = "yes" => (adapter # 0 /\ adapter \in physical) \/ ctl \in {"unprobe", "unverify"}
    /\ ctl \in {"probing", "verifying"} => adapter # 0
    /\ ctl \in Releasing \cup {"cleanup"} => adapter = 0
    /\ adapter \in {0, opens}

\* Every open client and the CA directory are held by the current adapter or
\* by the close() that is releasing them.
Held ==
    /\ adapter # 0 => adapter \in clients
    /\ clients \subseteq {adapter, closing} \ {0}
    /\ clients \subseteq {adapter} \/ ctl \in Releasing
    /\ caDirectory = "present" => adapter # 0 \/ ctl \in Releasing \cup {"close", "cleanup"}

\* A worker's adapter is not newer than the last one; once its client is closed
\* the worker has at most one request to send, and none after that.
Overtaken ==
    \A w \in Workers :
        /\ local[w] <= opens
        /\ late[w] # 0 => late[w] = 1 /\ local[w] \notin clients /\ pc[w] \notin {"fetch", "checked"}

\* The inductive invariant of the runtime.
RuntimeInv == TypeOK /\ FieldsAgree /\ Held /\ Overtaken

=============================================================================
