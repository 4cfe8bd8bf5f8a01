---------------------- MODULE RegistryHttpClient_proofs ----------------------
(***************************************************************************)
(* Proofs for RegistryHttpClient, for every number of attempts, every set  *)
(* of origins and every binding.                                           *)
(***************************************************************************)
EXTENDS RegistryHttpClient, TLAPS

Methods == {"GET", "HEAD", "POST", "PATCH", "PUT", "DELETE"}

\* What the table says of each method: only reads and DELETE are sent again.
WellFormed(c) ==
    /\ c.method \in Methods
    /\ c.success \in 200 .. 204
    /\ c.retry \in BOOLEAN
    /\ c.checks \subseteq Errors
    /\ c.success \in c.expected /\ c.expected \subseteq {c.success, 404}
    /\ c.method \in {"POST", "PATCH", "PUT"} => ~c.retry
    /\ c.method = "DELETE" => c.retry
    /\ IsWrite(c.method) => c.checks \subseteq OpenErrors

\* Every entry of the table of methods is well formed.
LEMMA TableWellFormed ==
    ASSUME NEW c \in DOMAIN CallTable
    PROVE  WellFormed(CallTable[c])
<1>1. c \in {"ping", "head_blob", "start_upload", "patch_upload",
             "finish_upload", "abort_upload", "upload_status", "upload_blob",
             "get_blob_bytes", "open_blob", "get_manifest", "manifest_exists",
             "put_manifest", "delete_manifest", "list_tags", "get_referrers"}
  BY DEF CallTable
<1>2. CASE c = "ping"
  <2>1. CallTable[c] = Call("GET", 200, FALSE, TRUE, {})  BY <1>2 DEF CallTable
  <2> QED  BY <2>1 DEF WellFormed, Call, Methods, Errors, OpenErrors, IsWrite
<1>3. CASE c = "head_blob"
  <2>1. CallTable[c] = Call("HEAD", 200, TRUE, TRUE, {"DigestMismatch", "Unavailable"})  BY <1>3 DEF CallTable
  <2> QED  BY <2>1 DEF WellFormed, Call, Methods, Errors, OpenErrors, IsWrite
<1>4. CASE c = "start_upload"
  <2>1. CallTable[c] = Call("POST", 202, FALSE, FALSE, {})  BY <1>4 DEF CallTable
  <2> QED  BY <2>1 DEF WellFormed, Call, Methods, Errors, OpenErrors, IsWrite
<1>5. CASE c = "patch_upload"
  <2>1. CallTable[c] = Call("PATCH", 202, FALSE, FALSE, {"IncompleteUpload"})  BY <1>5 DEF CallTable
  <2> QED  BY <2>1 DEF WellFormed, Call, Methods, Errors, OpenErrors, IsWrite
<1>6. CASE c = "finish_upload"
  <2>1. CallTable[c] = Call("PUT", 201, FALSE, FALSE, {"DigestMismatch"})  BY <1>6 DEF CallTable
  <2> QED  BY <2>1 DEF WellFormed, Call, Methods, Errors, OpenErrors, IsWrite
<1>7. CASE c = "abort_upload"
  <2>1. CallTable[c] = Call("DELETE", 204, TRUE, TRUE, {})  BY <1>7 DEF CallTable
  <2> QED  BY <2>1 DEF WellFormed, Call, Methods, Errors, OpenErrors, IsWrite
<1>8. CASE c = "upload_status"
  <2>1. CallTable[c] = Call("GET", 204, FALSE, TRUE, {})  BY <1>8 DEF CallTable
  <2> QED  BY <2>1 DEF WellFormed, Call, Methods, Errors, OpenErrors, IsWrite
<1>9. CASE c = "upload_blob"
  <2>1. CallTable[c] = Call("PUT", 201, FALSE, FALSE, {"DigestMismatch"})  BY <1>9 DEF CallTable
  <2> QED  BY <2>1 DEF WellFormed, Call, Methods, Errors, OpenErrors, IsWrite
<1>10. CASE c = "get_blob_bytes"
  <2>1. CallTable[c] = Call("GET", 200, FALSE, TRUE, {"DigestMismatch"})  BY <1>10 DEF CallTable
  <2> QED  BY <2>1 DEF WellFormed, Call, Methods, Errors, OpenErrors, IsWrite
<1>11. CASE c = "open_blob"
  <2>1. CallTable[c] = Call("GET", 200, FALSE, FALSE, {"DigestMismatch", "RangeNotSatisfiable"})  BY <1>11 DEF CallTable
  <2> QED  BY <2>1 DEF WellFormed, Call, Methods, Errors, OpenErrors, IsWrite
<1>12. CASE c = "get_manifest"
  <2>1. CallTable[c] = Call("GET", 200, FALSE, TRUE, {"DigestMismatch"})  BY <1>12 DEF CallTable
  <2> QED  BY <2>1 DEF WellFormed, Call, Methods, Errors, OpenErrors, IsWrite
<1>13. CASE c = "manifest_exists"
  <2>1. CallTable[c] = Call("HEAD", 200, TRUE, TRUE, {})  BY <1>13 DEF CallTable
  <2> QED  BY <2>1 DEF WellFormed, Call, Methods, Errors, OpenErrors, IsWrite
<1>14. CASE c = "put_manifest"
  <2>1. CallTable[c] = Call("PUT", 201, FALSE, FALSE, {"DigestMismatch"})  BY <1>14 DEF CallTable
  <2> QED  BY <2>1 DEF WellFormed, Call, Methods, Errors, OpenErrors, IsWrite
<1>15. CASE c = "delete_manifest"
  <2>1. CallTable[c] = Call("DELETE", 202, TRUE, TRUE, {})  BY <1>15 DEF CallTable
  <2> QED  BY <2>1 DEF WellFormed, Call, Methods, Errors, OpenErrors, IsWrite
<1>16. CASE c = "list_tags"
  <2>1. CallTable[c] = Call("GET", 200, TRUE, TRUE, {"Unavailable"})  BY <1>16 DEF CallTable
  <2> QED  BY <2>1 DEF WellFormed, Call, Methods, Errors, OpenErrors, IsWrite
<1>17. CASE c = "get_referrers"
  <2>1. CallTable[c] = Call("GET", 200, TRUE, TRUE, {"Unavailable"})  BY <1>17 DEF CallTable
  <2> QED  BY <2>1 DEF WellFormed, Call, Methods, Errors, OpenErrors, IsWrite
<1> QED  BY <1>1, <1>2, <1>3, <1>4, <1>5, <1>6, <1>7, <1>8, <1>9, <1>10, <1>11, <1>12, <1>13, <1>14, <1>15, <1>16, <1>17

\* A stream is a read.
LEMMA StreamReads == CallTable["open_blob"].method = "GET"
  BY DEF CallTable, Call

\* The current call's entry is well formed.
LEMMA CurrentWellFormed ==
    ASSUME call \in Calls
    PROVE  WellFormed(Current)
  BY TableWellFormed, CallsAssumption DEF Current

\* Every response is translated to an Object Common error.
LEMMA TranslationTyped ==
    ASSUME NEW status \in Nat, NEW code
    PROVE  raise_response(status, code) \in Errors
  BY DEF raise_response, Errors

\* A proxy's timeout leaves open what happened.
LEMMA TimeoutOpen == raise_response(504, "HTTP_ERROR") = "Unavailable"
  BY DEF raise_response

-----------------------------------------------------------------------------
\* The invariant holds in every initial state.
LEMMA InitInv ==
    ASSUME Init
    PROVE  ClientInv
<1>0. binding \in [endpoint : Origins, insecure : BOOLEAN] /\ (binding.endpoint \in Https \/ binding.insecure)
  BY BindingsAssumption DEF Init
<1>1. NoReply \in Responses
  BY DEF NoReply, Responses, Codes, Deliveries
<1>2. TypeOK
  BY <1>0, <1>1, AttemptsAssumption DEF Init, TypeOK
<1>3. attempt < attempts
  BY AttemptsAssumption DEF Init, attempts
<1>4. Addressed /\ OnTheWire /\ Effects /\ Answers /\ WriteErrorsTruthful /\ CredentialsStayHome
  BY <1>3 DEF Init, Addressed, OnTheWire, OnWire, Effects, Answers, WriteErrorsTruthful, CredentialsStayHome
<1> QED  BY <1>2, <1>4 DEF ClientInv

\* A call goes to the endpoint or to a Location that was found safe.
LEMMA StartKeepsInv ==
    ASSUME ClientInv, NEW c \in Calls, Start(c)
    PROVE  ClientInv'
<1> USE DEF ClientInv
<1>0. binding \in [endpoint : Origins, insecure : BOOLEAN] /\ (binding.endpoint \in Https \/ binding.insecure)
  BY BindingsAssumption DEF TypeOK
<1>1. NoReply \in Responses
  BY DEF NoReply, Responses, Codes, Deliveries
<1>2. TypeOK'
  BY <1>0, <1>1, AttemptsAssumption DEF Start, TypeOK
<1>3. (attempt < attempts)'
  BY AttemptsAssumption DEF Start, attempts
<1>4. Addressed'
  BY <1>0 DEF Start, Addressed, Safe
<1>5. OnTheWire' /\ Effects' /\ Answers' /\ WriteErrorsTruthful' /\ CredentialsStayHome'
  BY <1>3 DEF Start, OnTheWire, OnWire, Effects, Answers, WriteErrorsTruthful, CredentialsStayHome
<1> QED  BY <1>2, <1>4, <1>5

\* A request gets the credentials only when it is addressed to the endpoint.
LEMMA SendKeepsInv ==
    ASSUME ClientInv, Send
    PROVE  ClientInv'
<1> USE DEF ClientInv
<1>1. WellFormed(Current) /\ url \in Origins
  BY CurrentWellFormed DEF TypeOK
<1>2. request' \in Requests /\ request'.method = Current.method /\ request'.at = url
      /\ (request'.auth => url = binding.endpoint)
  BY <1>1 DEF Send, headers, Requests, WellFormed, Methods
<1>3. TypeOK'
  BY <1>2 DEF Send, TypeOK
<1>4. Addressed' /\ Answers' /\ WriteErrorsTruthful'
  BY DEF Send, Addressed, Safe, Answers, WriteErrorsTruthful
<1>5. OnTheWire' /\ CredentialsStayHome'
  BY <1>2 DEF Send, OnTheWire, OnWire, Current, CredentialsStayHome
<1>6. Effects'
  BY DEF Send, Effects, attempts, Current
<1> QED  BY <1>3, <1>4, <1>5, <1>6

\* A redirect takes the credentials along only to the https port of the endpoint.
LEMMA RedirectKeepsInv ==
    ASSUME ClientInv, Redirect
    PROVE  ClientInv'
<1> USE DEF ClientInv
<1>1. PICK o \in Origins, m \in {request.method, IF request.method = "HEAD" THEN "HEAD" ELSE "GET"} :
          request' = [at |-> o, method |-> m,
                      auth |-> request.auth /\ (o = request.at \/ <<request.at, o>> \in Upgrades)]
  BY DEF Redirect
<1>2. phase = "wait" /\ request \in Requests /\ request.method \in {Current.method, "GET"}
  BY DEF Redirect, OnTheWire, OnWire
<1>3. m \in {request.method, "GET"} /\ m \in {"GET", "HEAD", "POST", "PATCH", "PUT", "DELETE"}
  BY <1>2 DEF Requests
<1>4. request' \in Requests /\ request'.method \in {Current.method, "GET"}
  BY <1>1, <1>2, <1>3 DEF Requests
<1>5. TypeOK'
  BY <1>4 DEF Redirect, TypeOK
<1>6. CredentialsStayHome'
  <2> SUFFICES ASSUME request'.auth
               PROVE  o = binding.endpoint \/ <<binding.endpoint, o>> \in Upgrades
    BY <1>1 DEF Redirect, CredentialsStayHome, OnWire
  <2>1. request.auth /\ (o = request.at \/ <<request.at, o>> \in Upgrades)
    BY <1>1
  <2>2. request.at = binding.endpoint \/ <<binding.endpoint, request.at>> \in Upgrades
    BY <1>2, <2>1 DEF CredentialsStayHome, OnWire
  <2>3. ~(<<binding.endpoint, request.at>> \in Upgrades /\ <<request.at, o>> \in Upgrades)
    BY UpgradesAssumption
  <2> QED  BY <2>1, <2>2, <2>3
<1>7. Addressed' /\ Answers' /\ WriteErrorsTruthful'
  BY <1>2 DEF Redirect, Addressed, Safe, Answers, WriteErrorsTruthful
<1>8. Effects' /\ OnTheWire'
  BY <1>2, <1>4 DEF Redirect, Effects, OnTheWire, OnWire, attempts, Current
<1> QED  BY <1>5, <1>6, <1>7, <1>8

\* What an accepted request does to the registry, and at most once.
LEMMA AppliesOnce ==
    ASSUME ClientInv, phase = "wait", Applies
    PROVE  /\ present' \in BOOLEAN /\ effects' \in Nat
           /\ ~IsWrite(Current.method) => effects' = 0
           /\ Current.method = "DELETE" => effects' <= 1 /\ (effects' = 1 => ~present')
           /\ IsWrite(Current.method) /\ ~Current.retry => effects' <= 1
<1>1. Current.method \in Methods /\ WellFormed(Current)
  BY CurrentWellFormed DEF ClientInv, TypeOK, WellFormed
<1>2. present \in BOOLEAN /\ effects \in Nat
  BY DEF ClientInv, TypeOK
<1>3. request.method = Current.method \/ request.method = "GET"
  BY DEF ClientInv, OnTheWire, OnWire
<1>4. CASE Current.method = "DELETE" /\ request.method = "DELETE"
  <2>1. present' = FALSE /\ effects' = IF present THEN effects + 1 ELSE effects
    BY <1>4 DEF Applies
  <2>2. effects <= 1 /\ (effects = 1 => ~present) /\ Current.retry
    BY <1>1, <1>4 DEF ClientInv, Effects, WellFormed
  <2>3. effects' \in Nat /\ effects' <= 1
    <3>1. CASE present  BY <1>2, <2>1, <2>2, <3>1
    <3>2. CASE ~present  BY <1>2, <2>1, <2>2, <3>2
    <3> QED  BY <3>1, <3>2
  <2>4. present' \in BOOLEAN /\ ~present' /\ IsWrite(Current.method)
    BY <1>4, <2>1 DEF IsWrite
  <2> QED  BY <2>2, <2>3, <2>4
<1>5. CASE Current.method \in {"POST", "PATCH", "PUT"} /\ request.method = Current.method
  <2>1. present' = TRUE /\ effects' = effects + 1
    BY <1>5 DEF Applies
  <2>2. effects = 0
    BY <1>1, <1>5 DEF ClientInv, Effects, WellFormed, IsWrite
  <2> QED  BY <1>5, <2>1, <2>2 DEF IsWrite
<1>6. CASE request.method \in {"GET", "HEAD"}
  <2>1. UNCHANGED <<present, effects>>
    BY <1>6 DEF Applies
  <2> QED  BY <1>2, <2>1 DEF ClientInv, Effects
<1> QED  BY <1>1, <1>3, <1>4, <1>5, <1>6 DEF Methods

\* An answer that is of the right kind keeps the invariant.
LEMMA AnsweredKeepsInv ==
    ASSUME ClientInv, phase = "wait", NEW r \in Responses, Answered(r),
           present' \in BOOLEAN, effects' \in Nat,
           ~IsWrite(Current.method) => effects' = 0,
           Current.method = "DELETE" => effects' <= 1 /\ (effects' = 1 => ~present'),
           IsWrite(Current.method) /\ ~Current.retry => effects' <= 1,
           (IsWrite(Current.method) /\ ~Current.retry /\ effects' # 0) =>
               \/ r.status = 0
               \/ r.status = 504 /\ r.code = "HTTP_ERROR"
               \/ r.status = Current.success
    PROVE  ClientInv'
<1>1. TypeOK'
  BY DEF ClientInv, TypeOK, Answered
<1>2. Addressed'
  BY DEF ClientInv, Addressed, Safe, Answered
<1>3. Current' = Current /\ attempts' = attempts
  BY DEF Answered, Current, attempts
<1>4. Effects'
  BY <1>3 DEF ClientInv, Effects, Answered
<1>5. Answers'
  BY <1>3 DEF Answers, Answered
<1>6. WriteErrorsTruthful' /\ CredentialsStayHome'
  BY DEF ClientInv, WriteErrorsTruthful, CredentialsStayHome, OnWire, Answered
<1>7. OnTheWire'
  BY <1>3 DEF ClientInv, OnTheWire, OnWire, Answered
<1> QED  BY <1>1, <1>2, <1>4, <1>5, <1>6, <1>7 DEF ClientInv

\* The registry and the network keep the invariant.
LEMMA NetworkKeepsInv ==
    ASSUME ClientInv, Accept \/ Refuse \/ Mismatch \/ AppliedButLost \/ Lost
    PROVE  ClientInv'
<1>0. phase = "wait" /\ WellFormed(Current) /\ url \in Origins
  BY CurrentWellFormed DEF ClientInv, TypeOK, Accept, Refuse, Mismatch, AppliedButLost, Lost
<1>1. Current.success \in 200 .. 204
  BY <1>0 DEF WellFormed
<1>2. NoReply \in Responses
  BY DEF NoReply, Responses, Codes, Deliveries
<1>3. /\ present \in BOOLEAN /\ effects \in Nat
      /\ ~IsWrite(Current.method) => effects = 0
      /\ Current.method = "DELETE" => effects <= 1 /\ (effects = 1 => ~present)
      /\ IsWrite(Current.method) /\ ~Current.retry => effects = 0
  BY <1>0 DEF ClientInv, TypeOK, Effects
<1>4. CASE Accept
  <2>1. PICK delivery \in Deliveries, next \in Origins \cup {None} :
            Answered([status |-> AcceptedStatus, code |-> "HTTP_ERROR", delivery |-> delivery,
                      location |-> next])
    BY <1>4 DEF Accept
  <2>2. AcceptedStatus \in 0 .. 599
    BY <1>1 DEF AcceptedStatus
  <2> DEFINE r == [status |-> AcceptedStatus, code |-> "HTTP_ERROR", delivery |-> delivery,
                   location |-> next]
  <2>3. r \in Responses /\ r.status = AcceptedStatus
    BY <2>2 DEF Responses, Codes
  <2>4. IsWrite(Current.method) /\ ~Current.retry /\ effects' # 0 => AcceptedStatus = Current.success
    <3> SUFFICES ASSUME IsWrite(Current.method), ~Current.retry, effects' # 0
                 PROVE  AcceptedStatus = Current.success
      OBVIOUS
    <3>1. Current.method \in {"POST", "PATCH", "PUT"}
      BY <1>0 DEF WellFormed, IsWrite, Methods
    <3>2. request.method = Current.method
      BY <1>0, <1>3, <1>4 DEF Accept, Applies, ClientInv, OnTheWire, OnWire
    <3> QED  BY <3>1, <3>2 DEF AcceptedStatus
  <2>5. Answered(r)
    BY <2>1
  <2> HIDE DEF r
  <2> QED  BY <1>0, <1>4, <2>3, <2>4, <2>5, AppliesOnce, AnsweredKeepsInv DEF Accept
<1>5. CASE Refuse
  <2>1. PICK r \in Refusals, delivery \in Deliveries :
            Answered([status |-> r[1], code |-> r[2], delivery |-> delivery, location |-> None])
    BY <1>5 DEF Refuse
  <2>2. r[1] \in 0 .. 599 /\ r[2] \in Codes
    BY DEF Refusals, Codes
  <2>3. [status |-> r[1], code |-> r[2], delivery |-> delivery, location |-> None] \in Responses
    BY <2>2 DEF Responses
  <2>4. UNCHANGED <<present, effects>>
    BY <1>5 DEF Refuse
  <2> QED  BY <1>0, <1>3, <2>1, <2>3, <2>4, AnsweredKeepsInv
<1>6. CASE Mismatch
  <2> DEFINE r == [status |-> Current.success, code |-> "HTTP_ERROR", delivery |-> "mismatched",
                   location |-> None]
  <2>1. Answered(r)
    BY <1>6 DEF Mismatch
  <2>2. r \in Responses /\ r.status = Current.success
    BY <1>0, <1>1 DEF Responses, Codes
  <2> HIDE DEF r
  <2>3. CASE UNCHANGED <<present, effects>>
    BY <1>0, <1>3, <2>1, <2>2, <2>3, AnsweredKeepsInv
  <2>4. CASE Applies
    BY <1>0, <2>1, <2>2, <2>4, AppliesOnce, AnsweredKeepsInv
  <2> QED  BY <1>6, <2>3, <2>4 DEF Mismatch
<1>7. CASE AppliedButLost
  <2> DEFINE timeout == [status |-> 504, code |-> "HTTP_ERROR", delivery |-> "whole",
                         location |-> None]
  <2>1. timeout \in Responses /\ timeout.status = 504 /\ timeout.code = "HTTP_ERROR"
    BY <1>0 DEF Responses, Codes, Deliveries
  <2>2. NoReply.status = 0
    BY DEF NoReply
  <2>3. Applies /\ (Answered(NoReply) \/ Answered(timeout))
    BY <1>7 DEF AppliedButLost
  <2> HIDE DEF timeout
  <2>4. CASE Answered(NoReply)
    BY <1>0, <1>2, <2>2, <2>3, <2>4, AppliesOnce, AnsweredKeepsInv
  <2>5. CASE Answered(timeout)
    BY <1>0, <2>1, <2>3, <2>5, AppliesOnce, AnsweredKeepsInv
  <2> QED  BY <2>3, <2>4, <2>5
<1>8. CASE Lost
  <2>1. Answered(NoReply) /\ UNCHANGED <<present, effects>>
    BY <1>8 DEF Lost
  <2> QED  BY <1>0, <1>2, <1>3, <2>1, AnsweredKeepsInv
<1> QED  BY <1>4, <1>5, <1>6, <1>7, <1>8

\* A call that ends keeps the invariant if its error is the truth.
LEMMA FinishKeepsInv ==
    ASSUME ClientInv, NEW r \in Errors \cup {"returned", "HTTPError"}, Finish(r),
           location' = location \/ (location' \in Origins /\ Safe(location')),
           (IsWrite(Current.method) /\ ~Current.retry /\ effects # 0) =>
               r \notin Errors \ OpenErrors
    PROVE  ClientInv'
<1>1. NoReply \in Responses
  BY DEF NoReply, Responses, Codes, Deliveries
<1>2. TypeOK'
  BY <1>1 DEF ClientInv, TypeOK, Finish
<1>3. Addressed'
  BY DEF ClientInv, Addressed, Safe, Finish
<1>4. Current' = Current /\ attempts' = attempts
  BY DEF Finish, Current, attempts
<1>5. Effects'
  BY <1>4 DEF ClientInv, Effects, Finish
<1>6. Answers'
  BY DEF Answers, Finish
<1>7. WriteErrorsTruthful'
  BY <1>4 DEF WriteErrorsTruthful, Finish
<1>8. OnTheWire' /\ CredentialsStayHome'
  BY DEF OnTheWire, OnWire, CredentialsStayHome, Finish
<1> QED  BY <1>2, <1>3, <1>5, <1>6, <1>7, <1>8 DEF ClientInv

\* Another attempt is made only of what may be sent again.
LEMMA NextAttemptKeepsInv ==
    ASSUME ClientInv, NextAttempt, attempt + 1 < attempts, phase # "idle"
    PROVE  ClientInv'
<1>0. WellFormed(Current) /\ attempt \in Nat /\ Current.retry \in BOOLEAN
  BY CurrentWellFormed DEF ClientInv, TypeOK, WellFormed
<1>1. Current.retry /\ attempt + 1 < MaxReadAttempts
  BY <1>0 DEF attempts
<1>2. TypeOK'
  BY <1>1, AttemptsAssumption DEF ClientInv, TypeOK, NextAttempt
<1>3. Addressed'
  BY DEF ClientInv, Addressed, Safe, NextAttempt
<1>4. Current' = Current /\ attempts' = attempts
  BY DEF NextAttempt, Current, attempts
<1>5. Effects'
  BY <1>1, <1>4 DEF ClientInv, Effects, NextAttempt
<1>6. Answers' /\ WriteErrorsTruthful' /\ OnTheWire' /\ CredentialsStayHome'
  BY DEF Answers, WriteErrorsTruthful, OnTheWire, OnWire, CredentialsStayHome, NextAttempt
<1> QED  BY <1>2, <1>3, <1>5, <1>6 DEF ClientInv

\* The client's handling of an answer keeps the invariant.
LEMMA ReceiveKeepsInv ==
    ASSUME ClientInv, Receive
    PROVE  ClientInv'
<1> DEFINE Doubt == IsWrite(Current.method) /\ ~Current.retry /\ effects # 0
<1>0. /\ phase = "answered" /\ WellFormed(Current) /\ attempt \in Nat /\ reply \in Responses
      /\ attempt < attempts /\ attempts \in Nat
  BY CurrentWellFormed, AttemptsAssumption DEF Receive, ClientInv, TypeOK, Effects, attempts
<1>1. Doubt => \/ reply.status = 0
               \/ reply.status = 504 /\ reply.code = "HTTP_ERROR"
               \/ reply.status = Current.success
  BY <1>0 DEF ClientInv, Answers
<1>2. ASSUME NEW e \in Errors \cup {"returned", "HTTPError"}, Raise(e),
             Doubt => e \notin Errors \ OpenErrors
      PROVE  ClientInv'
  BY <1>2, FinishKeepsInv DEF Raise
<1>3. ASSUME Raise("Unavailable")
      PROVE  ClientInv'
  BY <1>2, <1>3 DEF Errors, OpenErrors
<1>4. ASSUME TransportError
      PROVE  ClientInv'
  <2>1. CASE attempt + 1 = attempts
    BY <1>3, <1>4, <2>1 DEF TransportError
  <2>2. CASE attempt + 1 # attempts
    BY <1>0, <1>4, <2>2, NextAttemptKeepsInv DEF TransportError
  <2> QED  BY <2>1, <2>2
<1>5. ASSUME Deliver, reply.status \in Current.expected
      PROVE  ClientInv'
  <2>1. CASE reply.delivery = "mismatched"
    <3>1. PICK e \in Current.checks : Raise(e)
      BY <1>5, <2>1 DEF Deliver
    <3>2. e \in Errors
      BY <1>0 DEF WellFormed
    <3>3. Doubt => e \in OpenErrors
      BY <1>0 DEF WellFormed
    <3> QED  BY <1>2, <3>1, <3>2, <3>3
  <2>2. CASE Raise("returned")
    BY <1>2, <2>2 DEF Errors
  <2>3. CASE Finish("returned") /\ location' = reply.location /\ reply.location # None /\ Safe(reply.location)
    <3>1. reply.location \in Origins
      BY <1>0, <2>3 DEF Responses
    <3> QED  BY <2>3, <3>1, FinishKeepsInv DEF Errors
  <2>4. CASE Raise("Unavailable")
    BY <1>3, <2>4
  <2> QED  BY <1>5, <2>1, <2>2, <2>3, <2>4 DEF Deliver
<1>6. ASSUME NEW code, Translated(code), reply.status \notin Current.expected, reply.status # 0,
             code \in {reply.code, "HTTP_ERROR"}
      PROVE  ClientInv'
  <2>1. raise_response(reply.status, code) \in Errors
    BY <1>0, TranslationTyped DEF Responses
  <2>2. Doubt => raise_response(reply.status, code) = "Unavailable"
    BY <1>0, <1>1, <1>6, TimeoutOpen DEF WellFormed
  <2> QED  BY <1>2, <1>6, <2>1, <2>2 DEF Translated, OpenErrors
<1>7. CASE reply.status = 0
  BY <1>4, <1>7 DEF Receive
<1>8. CASE reply.status # 0 /\ call = "open_blob"
  <2>1. ReceiveStream
    BY <1>8 DEF Receive
  <2>2. ~Doubt
    BY <1>8, StreamReads DEF IsWrite, Current
  <2>3. CASE Raise("Unavailable")
    BY <1>3, <2>3
  <2>4. CASE Deliver /\ reply.status \in Current.expected
    BY <1>5, <2>4
  <2>5. CASE Raise("HTTPError")
    BY <1>2, <2>2, <2>5
  <2>6. CASE Translated(reply.code) /\ reply.status \notin Current.expected
    BY <1>6, <1>8, <2>6
  <2> QED  BY <2>1, <2>3, <2>4, <2>5, <2>6 DEF ReceiveStream
<1>9. CASE reply.status # 0 /\ call # "open_blob"
  <2>1. ReceiveBody
    BY <1>9 DEF Receive
  <2>2. CASE Raise("Unavailable")
    BY <1>3, <2>2
  <2>3. CASE NextAttempt /\ attempt + 1 < attempts
    BY <1>0, <2>3, NextAttemptKeepsInv
  <2>4. CASE TransportError
    BY <1>4, <2>4
  <2>5. CASE Deliver /\ reply.status \in Current.expected
    BY <1>5, <2>5
  <2>6. CASE (Translated(reply.code) \/ Translated("HTTP_ERROR")) /\ reply.status \notin Current.expected
    BY <1>6, <1>9, <2>6
  <2> QED  BY <2>1, <2>2, <2>3, <2>4, <2>5, <2>6 DEF ReceiveBody
<1> QED  BY <1>7, <1>8, <1>9

-----------------------------------------------------------------------------
\* The invariant holds in every state of the specification.
THEOREM ClientInvariant == Spec => []ClientInv
<1>1. Init => ClientInv
  BY InitInv
<1>2. ClientInv /\ [Next]_vars => ClientInv'
  <2> SUFFICES ASSUME ClientInv, [Next]_vars
               PROVE  ClientInv'
    OBVIOUS
  <2>1. CASE \E c \in Calls : Start(c)
    BY <2>1, StartKeepsInv
  <2>2. CASE Send \/ Redirect
    BY <2>2, SendKeepsInv, RedirectKeepsInv
  <2>3. CASE Accept \/ Refuse \/ Mismatch \/ AppliedButLost \/ Lost
    BY <2>3, NetworkKeepsInv
  <2>4. CASE Receive
    BY <2>4, ReceiveKeepsInv
  <2>5. CASE UNCHANGED vars
    BY <2>5 DEF vars, ClientInv, TypeOK, Addressed, Safe, OnTheWire, OnWire, Effects, attempts,
               Current, Answers, WriteErrorsTruthful, CredentialsStayHome
  <2> QED  BY <2>1, <2>2, <2>3, <2>4, <2>5 DEF Next
<1> QED  BY <1>1, <1>2, PTL DEF Spec

\* Types: whatever fails, in whichever of the three places that count attempts, a
\* call makes at most max_read_attempts of them.
THEOREM ClientTypes == Spec => []TypeOK
<1>1. ClientInv => TypeOK
  BY DEF ClientInv
<1> QED  BY <1>1, ClientInvariant, PTL

\* A call's write is applied at most once, DELETEs that are sent again included.
THEOREM WritesApplyOnce == Spec => []AppliedAtMostOnce
<1>1. ClientInv => AppliedAtMostOnce
  <2> SUFFICES ASSUME ClientInv
               PROVE  AppliedAtMostOnce
    OBVIOUS
  <2>1. WellFormed(Current)
    BY CurrentWellFormed DEF ClientInv, TypeOK
  <2> QED  BY <2>1 DEF ClientInv, Effects, AppliedAtMostOnce, WellFormed, IsWrite, Methods
<1> QED  BY <1>1, ClientInvariant, PTL

\* Of a write that is sent once, every error but ObjectUnavailable and the two that
\* the methods raise about a success answer says that nothing was applied.
THEOREM ErrorsAreTruthful == Spec => []WriteErrorsTruthful
<1>1. ClientInv => WriteErrorsTruthful
  BY DEF ClientInv
<1> QED  BY <1>1, ClientInvariant, PTL

\* The registry's credentials are seen by the bound endpoint, or the https port of
\* its host, and by nobody else, whatever Locations and redirects are followed.
THEOREM CredentialsKept == Spec => []CredentialsStayHome
<1>1. ClientInv => CredentialsStayHome
  BY DEF ClientInv
<1> QED  BY <1>1, ClientInvariant, PTL

\* Only redirects lead to plain http elsewhere, and nothing that is answered there
\* is used.
THEOREM PlainHttpIsContained == Spec => PlainHttpContained
<1>1. ASSUME ClientInv, [Next]_vars, OnWire, ~Safe(request.at)
      PROVE  request.at # url
  BY <1>1 DEF ClientInv, OnTheWire, OnWire, Addressed
<1>2. ASSUME ClientInv, [Next]_vars, OnWire, ~Safe(request.at)
      PROVE  (result' # result => result' = "Unavailable") /\ location' = location
  <2>1. phase \in {"wait", "answered"}
    BY <1>2 DEF ClientInv, OnTheWire, OnWire
  <2>2. CASE Receive
    <3>1. CASE reply.status = 0
      BY <2>2, <3>1 DEF Receive, TransportError, NextAttempt, Raise, Finish
    <3>2. CASE reply.status # 0
      BY <1>2, <2>2, <3>2 DEF Receive, ReceiveStream, ReceiveBody, Raise, Finish
    <3> QED  BY <3>1, <3>2
  <2>3. CASE Send \/ Redirect \/ Accept \/ Refuse \/ Mismatch \/ AppliedButLost \/ Lost
    BY <2>3 DEF Send, Redirect, Accept, Refuse, Mismatch, AppliedButLost, Lost, Answered
  <2>4. CASE \E c \in Calls : Start(c)
    BY <2>1, <2>4 DEF Start
  <2>5. CASE UNCHANGED vars
    BY <2>5 DEF vars
  <2> QED  BY <1>2, <2>2, <2>3, <2>4, <2>5 DEF Next
<1>3. ClientInv /\ [Next]_vars =>
        [OnWire /\ ~Safe(request.at) =>
             /\ request.at # url
             /\ result' # result => result' = "Unavailable"
             /\ location' = location]_vars
  BY <1>1, <1>2
<1> QED  BY <1>3, ClientInvariant, PTL DEF Spec, PlainHttpContained

=============================================================================
