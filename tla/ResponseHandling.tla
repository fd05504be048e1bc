-------------------------- MODULE ResponseHandling --------------------------
(***************************************************************************)
(* What the operations of account.Client, admin.AdminClient and            *)
(* meta.MetaClient make of a response: the success codes each one accepts, *)
(* the payload it needs, and the error it returns otherwise, through the   *)
(* ways the code has of producing one (OpHandler.HandleResponse,           *)
(* ValidateJSON200 and ValidateJSON201, and a comparison of its own).      *)
(*                                                                         *)
(* An error is abstracted to the sentinel errors.Is finds in it; messages  *)
(* are left out.  A response is its status code and whether it holds what  *)
(* the operation looks for in it: decoded JSON, a token, a Location.  How  *)
(* a call comes to its response, or to none, is Exchange, which implements *)
(* this specification.                                                     *)
(***************************************************************************)
EXTENDS AccountOperations, AdminOperations

CONSTANT StatusCodes   \* the codes the service, or a proxy before it, answers

ASSUME CodesAssumption == StatusCodes \subseteq 100..599

\* Mutant: two statuses have changed places.
SentinelMapSwapped ==
  401 :> "ErrForbidden" @@ 403 :> "ErrUnauthorized" @@ 404 :> "ErrNotFound" @@
  400 :> "ErrBadRequest" @@ 409 :> "ErrConflict" @@ 500 :> "ErrInternalServer" @@
  503 :> "ErrUnavailable"

\* sentinelMap
SentinelMap ==
  401 :> "ErrUnauthorized" @@ 403 :> "ErrForbidden" @@ 404 :> "ErrNotFound" @@
  400 :> "ErrBadRequest" @@ 409 :> "ErrConflict" @@ 500 :> "ErrInternalServer" @@
  503 :> "ErrUnavailable"

\* Mutant: what the map has for a status is wrapped, also if that is nothing.
SentinelOrNil(code) ==
  IF code \in DOMAIN SentinelMap THEN SentinelMap[code] ELSE "nil"

SentinelOf(code) == IF code \in DOMAIN SentinelMap THEN SentinelMap[code] ELSE Plain

-----------------------------------------------------------------------------
(* The operations of the clients. *)

Calls == AccountCalls @@ AdminCalls @@ MetaCalls

Messages == AccountMessages @@ AdminMessages @@ MetaMessages

Operations == DOMAIN Calls

\* Those that call withRedirectsDisabled: a redirect is what they look for.
Capturing == {"ValidateOTP", "SocialLogin", "SocialLogout", "LinkSocialProvider"}

-----------------------------------------------------------------------------
(* Handling a response. *)

Response(code, holds) == [code |-> code, holds |-> holds]
NoResponse == Response(0, FALSE)

Errors == {Plain} \cup {SentinelMap[c] : c \in DOMAIN SentinelMap}

Result(kind, error) == [kind |-> kind, error |-> error]
NoResult == Result("none", Plain)

\* Mutant: a status without a message gets the sentinel of its class.
ErrorOfClass(o, code) ==
  IF o \in DOMAIN Messages /\ code \in DOMAIN Messages[o] THEN Messages[o][code]
  ELSE IF code >= 500 THEN "ErrInternalServer"
  ELSE SentinelOf(code)

\* HandleResponse: the operation's message, else the sentinel of the status.
\* ValidateJSON200 and ValidateJSON201 look for a 401 before anything else.
ErrorOf(o, code) ==
  IF Calls[o].errors = "none" THEN Plain
  ELSE IF Calls[o].errors = "validated" /\ code = 401 THEN "ErrUnauthorized"
  ELSE IF o \in DOMAIN Messages /\ code \in DOMAIN Messages[o] THEN Messages[o][code]
  ELSE SentinelOf(code)

\* Mutant: a raw body is returned whatever the status.
AcceptsAnyBody(o, code) == code \in Calls[o].codes \/ Calls[o].needs = "body"

\* Mutant: whatever is in the 200s is a success.
AcceptsSuccess(o, code) == code \in Calls[o].codes \cup 200..299

Accepts(o, code) == code \in Calls[o].codes

\* The response holds what the operation needs from it.
Supplies(o, r) == r.holds \/ Calls[o].needs \in {"nothing", "body"}

VARIABLES
  op,        \* the operation called last
  response,  \* its response, NoResponse until there is one
  result     \* what it returned, NoResult until it does

vars == <<op, response, result>>

TypeOK ==
  /\ op \in Operations
  /\ response \in {NoResponse} \cup [code : StatusCodes, holds : BOOLEAN]
  /\ result \in [kind : {"none", "ok", "error", "panic"}, error : Errors]

Init ==
  /\ op \in Operations
  /\ response = NoResponse
  /\ result = NoResult

\* A nil request is refused before anything is sent, where that is tested for.
\* (The other operations dereference it; they are assumed to be given one.)
RejectNilRequest ==
  /\ op \in RequestTested /\ response = NoResponse /\ result = NoResult
  /\ result' = Result("error", "ErrBadRequest")
  /\ UNCHANGED <<op, response>>

Respond ==
  /\ response = NoResponse /\ result = NoResult
  /\ \E code \in StatusCodes, holds \in BOOLEAN : response' = Response(code, holds)
  /\ UNCHANGED <<op, result>>

\* The transport failed, the caller gave up, or the response could not be read
\* or decoded: every operation returns the cause under a message of its own.
TransportFails ==
  /\ response = NoResponse /\ result = NoResult
  /\ result' = Result("error", Plain)
  /\ UNCHANGED <<op, response>>

Return(r) ==
  /\ response # NoResponse /\ result = NoResult
  /\ result' = r
  /\ UNCHANGED <<op, response>>

ReturnError ==
  ~Accepts(op, response.code) /\ Return(Result("error", ErrorOf(op, response.code)))

ReturnOK ==
  Accepts(op, response.code) /\ Supplies(op, response) /\ Return(Result("ok", Plain))

\* The test for missing data, or its absence: a nil pointer is dereferenced.
ReturnMissing ==
  /\ Accepts(op, response.code) /\ ~Supplies(op, response)
  /\ Return(Result(IF Calls[op].needs = "data" THEN "error" ELSE "panic", Plain))

Next ==
  \/ RejectNilRequest \/ Respond \/ TransportFails
  \/ ReturnError \/ ReturnOK \/ ReturnMissing

Spec == Init /\ [][Next]_vars

-----------------------------------------------------------------------------
(* Properties. *)

Failed == result.kind = "error"

\* A request refused unsent, or as unprocessable, is a bad one.
Cause ==
  IF response = NoResponse \/ response.code = 422 THEN "ErrBadRequest"
  ELSE SentinelOf(response.code)

(* A sentinel is never wrong: whatever tables and fallbacks an error went  *)
(* through, errors.Is finds in it only the sentinel of what caused it, so  *)
(* no caller re-authenticates or retries for nothing.                      *)
SentinelsAreTruthful == Failed /\ result.error # Plain => result.error = Cause

(* No failure passes for a success: an operation without an error had a    *)
(* 2xx answer, or a redirect it exists to capture.                         *)
NoSilentFailure ==
  result.kind = "ok" =>
    \/ response.code \in 200..299
    \/ response.code \in {302, 307} /\ op \in Capturing \cup {"Login"}

(* A rejected token is reported as ErrUnauthorized (account.go:114), with  *)
(* a message of the operation, the sentinel of the status, or without a    *)
(* table at all.  ListAPIKeys and DeleteAPIKey, which compare the status   *)
(* themselves, report it by no sentinel.                                   *)
RejectedTokenIsUnauthorized ==
  response.code = 401 /\ op \notin DOMAIN KeyCalls \ {"CreateAPIKey"} /\ Failed =>
    result.error = "ErrUnauthorized"

(* The successful answers of specs/account.yaml, specs/admin/quota.yaml    *)
(* and specs/meta/meta.yaml, without the 200 "Success" that they list      *)
(* beside another one.                                                     *)
Creations ==
  {"quota.CreatePlan", "quota.CreateAllowance", "billing.CreateCredit",
   "billing.CreatePriceLine", "billing.CreatePricingPlan",
   "billing.CreatePricingPlanPeriod", "domain.RegisterPlatformDomain",
   "social.CreateSocialProvider", "user.CreateUser"}

Removals ==
  {"UnlinkSocialProvider", "quota.DeletePlan", "quota.DeleteAllowance",
   "quota.ResetUserPlan", "billing.DeleteCredit", "billing.DeletePriceLine",
   "billing.DeletePricingPlan", "billing.DeletePricingPlanPeriod",
   "billing.DeletePlanFromPriceLine", "domain.DeletePlatformDomain",
   "social.DeleteSocialProvider", "user.DeleteUser"}

DocumentedSuccess(o) ==
  CASE o \in Creations -> {201}
    [] o \in Removals -> {204}
    [] o \in {"VerifyOTP", "DisableOTP", "UploadAvatar", "HandleWebhook",
              "quota.SetDefaultPlan", "pprof.SetBlockProfileRate",
              "pprof.SetMutexProfileFraction"} -> {204}
    [] o = "Login" -> {200, 302}
    [] o \in {"ValidateOTP", "SocialLogin", "LinkSocialProvider"} -> {302}
    [] o = "SocialLogout" -> {307}
    [] OTHER -> {200}

-----------------------------------------------------------------------------
(* What the documentation says and the code does not do. *)

(* specs/account.yaml:2990 documents 204, "Webhook processed               *)
(* successfully": HandleWebhook should not return an error for it.         *)
WebhookProcessedIsReported ==
  op = "HandleWebhook" /\ response.code \in DocumentedSuccess(op)
    => result.kind \in {"none", "ok"}
=============================================================================
