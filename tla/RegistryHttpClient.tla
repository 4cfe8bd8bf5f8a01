-------------------------- MODULE RegistryHttpClient --------------------------
(***************************************************************************)
(* One call of RegistryHttpClient (transport/client.py) after another: the *)
(* attempt loop of _request, what each public method passes to it and      *)
(* checks of the response, the Location that an upload goes on with, and   *)
(* the translation of a response into an Object Common error.              *)
(*                                                                         *)
(* The network may lose a request or a response; a proxy may answer 5xx    *)
(* for a request that was applied; redirects, which the HTTP library       *)
(* follows hop by hop before the client sees an answer, may lead anywhere. *)
(* A URL is represented by its origin.                                      *)
(***************************************************************************)
EXTENDS Naturals

CONSTANTS
    Calls,             \* the methods callers use, a subset of DOMAIN CallTable
    MaxReadAttempts,   \* max_read_attempts
    Origins,           \* scheme, host and port of the URLs that occur
    Https,             \* the ones whose scheme is https; the others are plain http
    Upgrades,          \* pairs of origins: port 80 and port 443 of one host
    Bindings,          \* the bindings: endpoint and allow_insecure_http
    None

\* What each method passes to _request (method, retry, and the success status,
\* beside which 404 may be expected), and the errors it raises itself when the
\* response does not identify what was asked for or sent.
Call(method, success, missing, retry, checks) ==
    [method |-> method, success |-> success, retry |-> retry, checks |-> checks,
     expected |-> IF missing THEN {success, 404} ELSE {success}]

CallTable == [
    ping            |-> Call("GET", 200, FALSE, TRUE, {}),
    head_blob       |-> Call("HEAD", 200, TRUE, TRUE, {"DigestMismatch", "Unavailable"}),
    start_upload    |-> Call("POST", 202, FALSE, FALSE, {}),
    patch_upload    |-> Call("PATCH", 202, FALSE, FALSE, {"IncompleteUpload"}),
    finish_upload   |-> Call("PUT", 201, FALSE, FALSE, {"DigestMismatch"}),
    abort_upload    |-> Call("DELETE", 204, TRUE, TRUE, {}),
    upload_status   |-> Call("GET", 204, FALSE, TRUE, {}),
    upload_blob     |-> Call("PUT", 201, FALSE, FALSE, {"DigestMismatch"}),
    get_blob_bytes  |-> Call("GET", 200, FALSE, TRUE, {"DigestMismatch"}),
    open_blob       |-> Call("GET", 200, FALSE, FALSE, {"DigestMismatch", "RangeNotSatisfiable"}),
    get_manifest    |-> Call("GET", 200, FALSE, TRUE, {"DigestMismatch"}),
    manifest_exists |-> Call("HEAD", 200, TRUE, TRUE, {}),
    put_manifest    |-> Call("PUT", 201, FALSE, FALSE, {"DigestMismatch"}),
    delete_manifest |-> Call("DELETE", 202, TRUE, TRUE, {}),
    list_tags       |-> Call("GET", 200, TRUE, TRUE, {"Unavailable"}),
    get_referrers   |-> Call("GET", 200, TRUE, TRUE, {"Unavailable"})]

\* The methods that send to the URL of an UploadLocation, and those that return
\* a new one.
UsesLocation == {"patch_upload", "finish_upload", "abort_upload", "upload_status", "upload_blob"}
GivesLocation == {"start_upload", "patch_upload", "upload_status"}

\* A binding (_endpoint of descriptor/config.py) is plain only if that is allowed.
ASSUME AttemptsAssumption == MaxReadAttempts \in Nat \ {0}
ASSUME CallsAssumption == Calls \subseteq DOMAIN CallTable
ASSUME OriginsAssumption == Https \subseteq Origins /\ None \notin Origins
ASSUME UpgradesAssumption == Upgrades \subseteq (Origins \ Https) \X Https
ASSUME BindingsAssumption ==
    \A b \in Bindings :
        /\ b \in [endpoint : Origins, insecure : BOOLEAN]
        /\ b.endpoint \in Https \/ b.insecure

RetriableStatus == {408, 425, 500, 502, 503, 504}

\* Responses: the status, the OCI error code in the body, whether the body
\* exceeds its bound, breaks off or identifies something else, and the origin of
\* the Location header (None for one without a host).
Codes == {"HTTP_ERROR", "UNAUTHORIZED", "DENIED", "BLOB_UNKNOWN", "MANIFEST_UNKNOWN",
          "NAME_UNKNOWN", "TOOMANYREQUESTS", "DIGEST_INVALID", "BLOB_UPLOAD_INVALID",
          "BLOB_UPLOAD_UNKNOWN"}
Deliveries == {"whole", "oversized", "broken"}
Responses == [status : 0 .. 599, code : Codes, delivery : Deliveries \cup {"mismatched"},
              location : Origins \cup {None}]

\* A request on the wire: the origin it has come to, its method, and whether it
\* carries the Authorization header of the registry.
Requests == [at : Origins, method : {"GET", "HEAD", "POST", "PATCH", "PUT", "DELETE"},
             auth : BOOLEAN]

Errors == {"Unavailable", "AuthenticationFailed", "AuthorizationFailed", "NotFound",
           "ConditionalConflict", "RangeNotSatisfiable", "RateLimited", "QuotaExceeded",
           "DigestMismatch", "IncompleteUpload", "InvalidRequest"}

VARIABLES
    binding,    \* self.binding
    phase,      \* idle, send (build and send the request), wait, answered
    call,       \* the method being called
    url,        \* the origin it sends its requests to
    location,   \* the origin of the UploadLocation the caller holds, or None
    attempt,    \* the loop variable of _request
    request,    \* the request on the wire or just answered, or None
    reply,      \* the last response, or NoReply for a transport error
    result,     \* "none", "returned" or the error the call raised
    present,    \* registry: the manifest, blob or upload the URL names exists
    effects     \* history: how often the registry applied this call's write

vars == <<binding, phase, call, url, location, attempt, request, reply, result, present, effects>>

NoReply == [status |-> 0, code |-> "HTTP_ERROR", delivery |-> "whole", location |-> None]

Init ==
    /\ binding \in Bindings
    /\ phase = "idle" /\ call \in Calls /\ url = binding.endpoint /\ location = None
    /\ attempt = 0 /\ request = None /\ reply = NoReply /\ result = "none"
    /\ present \in BOOLEAN /\ effects = 0

Current == CallTable[call]
IsWrite(m) == m \notin {"GET", "HEAD"}

\* Mutant of attempts: every request is retried.
attempts_always == MaxReadAttempts
attempts == IF Current.retry THEN MaxReadAttempts ELSE 1

Start(c) ==
    /\ phase = "idle" /\ (c \in UsesLocation => location # None)
    /\ phase' = "send" /\ call' = c
    /\ url' = IF c \in UsesLocation THEN location ELSE binding.endpoint
    /\ attempt' = 0 /\ reply' = NoReply /\ result' = "none" /\ effects' = 0
    /\ UNCHANGED <<binding, location, request, present>>

\* Mutant of headers: the registry's credentials go with every request.
headers_always(origin) == TRUE

\* _headers: whether a request to this origin gets the Authorization header.
headers(origin) == origin = binding.endpoint

Send ==
    /\ phase = "send"
    /\ phase' = "wait"
    /\ request' = [at |-> url, method |-> Current.method, auth |-> headers(url)]
    /\ UNCHANGED <<binding, call, url, location, attempt, reply, result, present, effects>>

-----------------------------------------------------------------------------
(* The registry and the network                                            *)

\* A redirect, which the HTTP library follows wherever it leads: with 307 and 308
\* the request stays as it is, with 301 and 302 it becomes a GET.  The library
\* drops the Authorization header when the origin changes, unless the redirect
\* is from http to https of one host.  A server that redirects applies nothing.
Redirect ==
    /\ phase = "wait"
    /\ \E o \in Origins, m \in {request.method, IF request.method = "HEAD" THEN "HEAD" ELSE "GET"} :
          request' = [at |-> o, method |-> m,
                      auth |-> request.auth /\ (o = request.at \/ <<request.at, o>> \in Upgrades)]
    /\ UNCHANGED <<binding, phase, call, url, location, attempt, reply, result, present, effects>>

\* What the registry does with a request it accepts, and its status.
Applies ==
    CASE request.method = "DELETE" -> present' = FALSE /\ effects' = IF present THEN effects + 1 ELSE effects
      [] request.method \in {"POST", "PATCH", "PUT"} -> present' = TRUE /\ effects' = effects + 1
      [] OTHER -> UNCHANGED <<present, effects>>

AcceptedStatus ==
    IF request.method # Current.method THEN 200
    ELSE IF request.method \in {"GET", "HEAD", "DELETE"} /\ ~present THEN 404 ELSE Current.success

\* A request the registry refuses: status and code, nothing applied.
Refusals == {<<401, "UNAUTHORIZED">>, <<403, "DENIED">>, <<404, "MANIFEST_UNKNOWN">>,
             <<409, "HTTP_ERROR">>, <<416, "HTTP_ERROR">>, <<429, "TOOMANYREQUESTS">>,
             <<413, "HTTP_ERROR">>, <<400, "DIGEST_INVALID">>, <<400, "BLOB_UPLOAD_INVALID">>,
             <<404, "BLOB_UPLOAD_UNKNOWN">>, <<400, "HTTP_ERROR">>, <<408, "HTTP_ERROR">>, <<503, "HTTP_ERROR">>}

Answered(r) ==
    /\ phase' = "answered" /\ reply' = r
    /\ UNCHANGED <<binding, call, url, location, attempt, request, result>>

Accept ==
    /\ phase = "wait" /\ Applies
    /\ \E delivery \in Deliveries, next \in Origins \cup {None} :
          /\ call \notin GivesLocation \/ delivery # "whole" => next = None
          /\ Answered([status |-> AcceptedStatus, code |-> "HTTP_ERROR", delivery |-> delivery,
                       location |-> next])

Refuse ==
    /\ phase = "wait"
    /\ \E r \in Refusals, delivery \in Deliveries :
          Answered([status |-> r[1], code |-> r[2], delivery |-> delivery, location |-> None])
    /\ UNCHANGED <<present, effects>>

\* The answer has the success status and identifies another blob, manifest or
\* range: whether the write was applied is open.
Mismatch ==
    /\ phase = "wait" /\ Current.checks # {} /\ request.method = Current.method
    /\ Answered([status |-> Current.success, code |-> "HTTP_ERROR", delivery |-> "mismatched",
                 location |-> None])
    /\ Applies \/ UNCHANGED <<present, effects>>

\* The request was applied, and a proxy timed out or the connection broke.
AppliedButLost ==
    /\ phase = "wait" /\ Applies
    /\ \/ Answered(NoReply)
       \/ Answered([status |-> 504, code |-> "HTTP_ERROR", delivery |-> "whole", location |-> None])

\* The request or its answer is lost, or the HTTP library gives up on redirects.
Lost ==
    /\ phase = "wait"
    /\ Answered(NoReply)
    /\ UNCHANGED <<present, effects>>

-----------------------------------------------------------------------------
(* The client on a response                                                *)

\* _raise_response.  The body of an oversized response is dropped, so is its
\* code.
raise_response(status, code) ==
    IF status = 401 \/ code = "UNAUTHORIZED" THEN "AuthenticationFailed"
    ELSE IF status = 403 \/ code = "DENIED" THEN "AuthorizationFailed"
    ELSE IF status = 404 \/ code \in {"BLOB_UNKNOWN", "MANIFEST_UNKNOWN", "NAME_UNKNOWN"}
         THEN "NotFound"
    ELSE IF status = 409 THEN "ConditionalConflict"
    ELSE IF status = 416 THEN "RangeNotSatisfiable"
    ELSE IF status = 429 \/ code = "TOOMANYREQUESTS" THEN "RateLimited"
    ELSE IF status \in {413, 507} THEN "QuotaExceeded"
    ELSE IF code = "DIGEST_INVALID" THEN "DigestMismatch"
    ELSE IF code \in {"BLOB_UPLOAD_INVALID", "BLOB_UPLOAD_UNKNOWN"} THEN "IncompleteUpload"
    ELSE IF status >= 400 /\ status < 500 THEN "InvalidRequest"
    ELSE "Unavailable"

\* A response is used if it came by https, or from the endpoint of a binding
\* that allows http (_require_safe_response_url); a Location must be of that
\* kind as well (_location).
Safe(origin) == origin \in Https \/ (binding.insecure /\ origin = binding.endpoint)

Finish(r) ==
    /\ phase' = "idle" /\ result' = r /\ reply' = NoReply /\ request' = None
    /\ UNCHANGED <<binding, call, url, attempt, present, effects>>

Raise(e) == Finish(e) /\ UNCHANGED location

\* Mutant of Deliver: any Location with a host will do.
Deliver_AnyLocation ==
    IF reply.delivery = "mismatched" THEN \E e \in Current.checks : Raise(e)
    ELSE IF call \notin GivesLocation THEN Raise("returned")
    ELSE IF reply.location # None
         THEN Finish("returned") /\ location' = reply.location
         ELSE Raise("Unavailable")

\* What the method makes of a response with an expected status.
Deliver ==
    IF reply.delivery = "mismatched" THEN \E e \in Current.checks : Raise(e)
    ELSE IF call \notin GivesLocation THEN Raise("returned")
    ELSE IF reply.location # None /\ Safe(reply.location)
         THEN Finish("returned") /\ location' = reply.location
         ELSE Raise("Unavailable")

NextAttempt ==
    /\ phase' = "send" /\ attempt' = attempt + 1 /\ request' = None
    /\ UNCHANGED <<binding, call, url, location, reply, result, present, effects>>

\* Mutant of TransportError: one attempt too many.
TransportError_OffByOne ==
    IF attempt = attempts THEN Raise("Unavailable") ELSE NextAttempt

\* A transport error, when sending or while reading the body: sleep and try
\* again, or give up after the last attempt.
TransportError ==
    IF attempt + 1 = attempts THEN Raise("Unavailable") ELSE NextAttempt

\* Mutant of Receive: a lost answer to the last attempt is an invalid request.
Receive_Misreports ==
    /\ phase = "answered"
    /\ IF reply.status \in Current.expected THEN Deliver ELSE Raise("InvalidRequest")

\* Mutant of Receive: the attempts are not counted.
Receive_NeverGivesUp ==
    /\ phase = "answered"
    /\ IF reply.status = 0
       THEN phase' = "send" /\ UNCHANGED <<binding, call, url, location, attempt, request, reply, result, present, effects>>
       ELSE Raise("returned")

Translated(code) == Raise(raise_response(reply.status, code))

\* The stream of open_blob is handed out unread, and an unexpected response is
\* read in whole; when that breaks off, the HTTP library's exception escapes.
ReceiveStream ==
    IF ~Safe(request.at) THEN Raise("Unavailable")
    ELSE IF reply.status \in Current.expected THEN Deliver
    ELSE IF reply.delivery = "broken" THEN Raise("HTTPError")
    ELSE Translated(reply.code)

\* _request: an answer is refused, tried again, or handed on in this order.
ReceiveBody ==
    IF ~Safe(request.at) THEN Raise("Unavailable")
    ELSE IF reply.status \in RetriableStatus /\ attempt + 1 < attempts THEN NextAttempt
    ELSE IF reply.delivery = "oversized"
         THEN IF reply.status \in Current.expected THEN Raise("Unavailable")
              ELSE Translated("HTTP_ERROR")
    ELSE IF reply.delivery = "broken" THEN TransportError
    ELSE IF reply.status \in Current.expected THEN Deliver
    ELSE Translated(reply.code)

Receive ==
    /\ phase = "answered"
    /\ IF reply.status = 0 THEN TransportError
       ELSE IF call = "open_blob" THEN ReceiveStream ELSE ReceiveBody

Next ==
    \/ \E c \in Calls : Start(c)
    \/ Send \/ Redirect \/ Accept \/ Refuse \/ Mismatch \/ AppliedButLost \/ Lost \/ Receive

Spec == Init /\ [][Next]_vars

\* The HTTP client bounds every wait with its timeout, and the caller's thread
\* runs; whether a next call is made is up to the caller.
FairSpec == Spec /\ WF_vars(Send) /\ WF_vars(Lost) /\ WF_vars(Receive)

-----------------------------------------------------------------------------
(* Properties                                                              *)

\* Types; above all, a call makes at most max_read_attempts attempts.
TypeOK ==
    /\ binding \in Bindings
    /\ phase \in {"idle", "send", "wait", "answered"}
    /\ call \in Calls /\ attempt \in 0 .. MaxReadAttempts - 1
    /\ url \in Origins /\ location \in Origins \cup {None}
    /\ result \in Errors \cup {"none", "returned", "HTTPError"}
    /\ request \in Requests \cup {None} /\ reply \in Responses
    /\ present \in BOOLEAN /\ effects \in Nat

\* Whatever is lost and however often _request sends it, the registry applies
\* a call's write at most once.
AppliedAtMostOnce == effects <= 1

\* The errors that leave open whether a write was applied: ObjectUnavailable, and
\* the two that a method raises itself when it finds that a success answer does
\* not match what it sent.
OpenErrors == {"Unavailable", "DigestMismatch", "IncompleteUpload"}

\* The error of a write that is sent once tells its caller the truth, whichever
\* of the loop, the translation and the method's own checks raised it and
\* wherever redirects took the request: every error but the OpenErrors means
\* that nothing was applied.
WriteErrorsTruthful ==
    (phase = "idle" /\ IsWrite(Current.method) /\ ~Current.retry
        /\ result \in Errors \ OpenErrors) => effects = 0

\* A request is on the wire, or was just answered.
OnWire == phase \in {"wait", "answered"}

\* "Cross-origin upload locations and blob redirects do not receive the registry
\* Authorization header" (ARCHITECTURE.md): through any sequence of Locations,
\* redirects and attempts, only the bound endpoint sees the credentials, or the
\* https port of its host when it is bound by http and redirects there.
CredentialsStayHome ==
    OnWire /\ request.auth =>
        request.at = binding.endpoint \/ <<binding.endpoint, request.at>> \in Upgrades

\* A request comes to plain http elsewhere than at the endpoint only by a
\* redirect, never by the Locations of an upload, however many of them are
\* followed; and whatever is answered there, the call tries again from its own
\* URL or ends in ObjectUnavailable, and the caller gets no Location from it.
PlainHttpContained ==
    [][OnWire /\ ~Safe(request.at) =>
           /\ request.at # url
           /\ result' # result => result' = "Unavailable"
           /\ location' = location]_vars

\* "Read-only HTTP requests have bounded retries": what is sent more than once
\* is a read.
OnlyReadsRetried == attempt > 0 => ~IsWrite(Current.method)

\* Every call returns or raises.
CallReturns == phase # "idle" ~> phase = "idle"

-----------------------------------------------------------------------------
(* Inductive invariant                                                     *)

\* Requests and the Locations they will follow.
Addressed ==
    /\ phase # "idle" => Safe(url)
    /\ location # None => Safe(location)

\* A write that is sent once has no effect before it is sent; a DELETE that had
\* its effect leaves nothing that its next attempt could delete.
Effects ==
    /\ attempt < attempts
    /\ ~IsWrite(Current.method) => effects = 0
    /\ Current.method = "DELETE" => effects <= 1 /\ (effects = 1 => ~present)
    /\ IsWrite(Current.method) /\ ~Current.retry =>
          effects <= 1 /\ (phase \in {"send", "wait"} => effects = 0)

\* What is on the wire: the call's own request or the GET that a redirect made
\* of it.
OnTheWire ==
    IF OnWire
    THEN request \in Requests /\ request.method \in {Current.method, "GET"}
    ELSE request = None

\* What the answer to an applied write can be.
Answers ==
    (phase = "answered" /\ IsWrite(Current.method) /\ ~Current.retry /\ effects # 0) =>
        \/ reply.status = 0
        \/ reply.status = 504 /\ reply.code = "HTTP_ERROR"
        \/ reply.status = Current.success

\* The inductive invariant behind AppliedAtMostOnce, WriteErrorsTruthful,
\* CredentialsStayHome and PlainHttpContained.
ClientInv ==
    TypeOK /\ Addressed /\ OnTheWire /\ Effects /\ Answers /\ WriteErrorsTruthful /\ CredentialsStayHome

=============================================================================
