------------------------------ MODULE Exchange ------------------------------
(***************************************************************************)
(* One call of an operation as an exchange over HTTP: the request that the *)
(* generated client builds, the redirects that net/http follows with it,   *)
(* the transport of a host override, the answers of the service and of the *)
(* pages around it, connections that break, a caller that gives up, and    *)
(* the generated Parse function, up to the response whose handling is      *)
(* ResponseHandling.                                                       *)
(*                                                                         *)
(* A body is "data" (JSON that holds what the operation looks for, which   *)
(* is any JSON where it only tests that there is some, or tests nothing;   *)
(* of a redirect: the token), "garbled" (said to be JSON, and is not) or   *)
(* "other".  A Location, and a request, is at the endpoint or another      *)
(* host, and at the operation's own path or a page.  Headers are left out: *)
(* which hops keep Authorization is a rule of net/http.                    *)
(***************************************************************************)
EXTENDS ResponseHandling, AccountWire, AdminWire

CONSTANT MaxPerformed   \* the service performs an operation no more than that

ASSUME PerformedAssumption == MaxPerformed \in Nat \ {0}

Requests == AccountClientRequests @@ AdminAndMetaRequests

Decoded == AccountClientDecoded @@ AdminAndMetaDecoded

\* Each operation has a request, and no other operation has the same.
ASSUME WireAssumption ==
  /\ DOMAIN Requests = Operations /\ DOMAIN Decoded = Operations
  /\ \A o, p \in Operations : Requests[o] = Requests[p] => o = p

\* What the specifications document as a success is accepted and, where data is
\* needed, decoded.
ASSUME TablesAssumption ==
  \A o \in Operations :
    /\ o # "HandleWebhook" => DocumentedSuccess(o) \subseteq Calls[o].codes
    /\ Calls[o].needs \in {"data", "untested data"} =>
         DocumentedSuccess(o) \ {302, 307} \subseteq Decoded[o]

VARIABLES
  client,      \* its options: capture redirects, override the host
  wire,        \* the request under way
  answer,      \* the answer to it, NoAnswer until there is one
  performed,   \* how often the service performed the operation
  cancelled    \* the caller's context is done

wireVars == <<client, wire, answer, performed, cancelled>>
exchangeVars == <<vars, wireVars>>

Codes3xx == {301, 302, 303, 307, 308}
Hosts == {"endpoint", "other"}

Nowhere == [host |-> "none", own |-> FALSE]
Location == [host : Hosts, own : BOOLEAN]

Answer(code, body, location) == [code |-> code, body |-> body, location |-> location]
NoAnswer == Answer(0, "other", Nowhere)

-----------------------------------------------------------------------------
(* Requests. *)

\* hostOverrideRoundTripper: a clone of the request goes to the target, whatever
\* the host of its URL.
RoundTrip(method, place) ==
  [phase |-> "sent", method |-> method, place |-> place,
   dialed |-> IF client.overridden THEN "target" ELSE place.host]

NoRequest ==
  [phase |-> "idle", method |-> "none", place |-> Nowhere, dialed |-> "none"]

OwnPlace == [host |-> "endpoint", own |-> TRUE]

\* CheckRedirect: the client's option, or the context of the request.
Captures(o) == client.capture \/ o \in Capturing

\* The request has reached what performs the operation: the service, which under
\* an override it reaches whatever the host of its URL.
AtHandler ==
  wire.place.own /\ wire.method = Requests[op].method /\ wire.dialed # "other"

ExchangeInit ==
  /\ Init
  /\ client \in [capture : BOOLEAN, overridden : BOOLEAN]
  /\ wire = NoRequest /\ answer = NoAnswer
  /\ performed = 0 /\ cancelled = FALSE

RefuseNilRequest ==
  /\ wire.phase = "idle" /\ RejectNilRequest
  /\ UNCHANGED wireVars

\* The generated client builds the request and runs the editors, once.
Send ==
  /\ wire.phase = "idle" /\ result = NoResult
  /\ wire' = RoundTrip(Requests[op].method, OwnPlace)
  /\ UNCHANGED <<vars, client, answer, performed, cancelled>>

-----------------------------------------------------------------------------
(* The service, the pages around it and the connection (external). *)

\* A page, which is anything but the operation, answers a GET with 200 and any
\* body, JSON too, and no request with another 2xx: an assumption about the
\* service and its neighbours.  A token in a redirect, in its Location or in a
\* cookie, is the operation's.  The body of an error matters only where it is
\* decoded.
CanAnswer(code, body, location) ==
  /\ location # Nowhere => code \in Codes3xx
  /\ code \in 200..299 /\ ~AtHandler => code = 200 /\ wire.method = "GET"
  /\ code >= 400 => body = "other" \/ (body = "garbled" /\ code \in Decoded[op])
  /\ code \in Codes3xx =>
       \/ body = "other"
       \/ /\ body = "data" /\ AtHandler /\ code \in Calls[op].codes
          /\ op \in {"Login", "ValidateOTP"}

\* A failure may come after the operation was performed; a redirect that is no
\* success of the operation comes before.
Performances(code, body) ==
  IF ~AtHandler THEN {0}
  ELSE IF code \in 200..299 \/ (code \in Codes3xx /\ body = "data") THEN {1}
  ELSE IF code \in Codes3xx \ Calls[op].codes THEN {0}
  ELSE {0, 1}

ServiceAnswers ==
  /\ wire.phase = "sent"
  /\ \E code \in StatusCodes, body \in {"data", "garbled", "other"},
        location \in {Nowhere} \cup Location :
       /\ CanAnswer(code, body, location)
       /\ \E n \in Performances(code, body) :
            performed + n <= MaxPerformed /\ performed' = performed + n
       /\ answer' = Answer(code, body, location)
  /\ wire' = [wire EXCEPT !.phase = "answered"]
  /\ UNCHANGED <<vars, client, cancelled>>

UnderWay == wire.phase \in {"sent", "answered"}

\* Mutant: a transport that retries whatever the method.
RepeatAny ==
  /\ wire.phase = "answered"
  /\ wire' = [wire EXCEPT !.phase = "sent"] /\ answer' = NoAnswer
  /\ UNCHANGED <<vars, client, performed, cancelled>>

\* net/http repeats a GET on a new connection when the old one broke.
Repeat ==
  /\ wire.phase = "answered" /\ wire.method = "GET"
  /\ wire' = [wire EXCEPT !.phase = "sent"] /\ answer' = NoAnswer
  /\ UNCHANGED <<vars, client, performed, cancelled>>

ConnectionFails ==
  /\ UnderWay /\ TransportFails
  /\ wire' = [wire EXCEPT !.phase = "failed"]
  /\ UNCHANGED <<client, answer, performed, cancelled>>

Cancel ==
  /\ wire.phase \in {"idle", "sent", "answered"} /\ result = NoResult /\ ~cancelled
  /\ cancelled' = TRUE
  /\ UNCHANGED <<vars, client, wire, answer, performed>>

-----------------------------------------------------------------------------
(* The call goes on. *)

\* Mutant: the context is looked at before the request, and not bound to it.
AbortUnsent ==
  /\ cancelled /\ wire.phase = "idle" /\ TransportFails
  /\ wire' = [wire EXCEPT !.phase = "failed"]
  /\ UNCHANGED <<client, answer, performed, cancelled>>

\* Mutant: the context has the last word, also over a call that has ended.
AbortLate ==
  /\ cancelled /\ wire.phase # "failed"
  /\ result' = Result("error", Plain)
  /\ wire' = [wire EXCEPT !.phase = "failed"]
  /\ UNCHANGED <<op, response, client, answer, performed, cancelled>>

\* The request is bound to the caller's context until its body is read.
Abort ==
  /\ cancelled /\ wire.phase \in {"idle", "sent", "answered"} /\ TransportFails
  /\ wire' = [wire EXCEPT !.phase = "failed"]
  /\ UNCHANGED <<client, answer, performed, cancelled>>

IsFinal ==
  answer.code \notin Codes3xx \/ answer.location = Nowhere \/ Captures(op)

\* net/http: all but 307 and 308 turn a request into a GET.
FollowRedirect ==
  /\ wire.phase = "answered" /\ ~IsFinal
  /\ wire' = RoundTrip(IF answer.code \in {307, 308} THEN wire.method ELSE "GET",
                       answer.location)
  /\ answer' = NoAnswer
  /\ UNCHANGED <<vars, client, performed, cancelled>>

\* Mutant: a body that does not decode is left out of the response.
DecodesAnything(o, a) == TRUE

\* Parse...Response: a JSON body of a code it knows must decode.
Decodes(o, a) == ~(a.code \in Decoded[o] /\ a.body = "garbled")

\* Mutant: the data of a success is always in JSON200.
HoldsOK(o, a) ==
  IF a.code \in Codes3xx
  THEN IF o \in {"Login", "ValidateOTP"} THEN a.body = "data" ELSE a.location # Nowhere
  ELSE a.code = 200 /\ a.body = "data"

\* What the operation finds: a token or Location, or the decoded body.
Holds(o, a) ==
  IF a.code \in Codes3xx
  THEN IF o \in {"Login", "ValidateOTP"} THEN a.body = "data" ELSE a.location # Nowhere
  ELSE a.code \in Decoded[o] /\ a.body = "data"

DecodingFails ==
  /\ wire.phase = "answered" /\ IsFinal /\ ~Decodes(op, answer)
  /\ TransportFails
  /\ wire' = [wire EXCEPT !.phase = "failed"]
  /\ UNCHANGED <<client, answer, performed, cancelled>>

Parse ==
  /\ wire.phase = "answered" /\ IsFinal /\ Decodes(op, answer)
  /\ response' = Response(answer.code, Holds(op, answer))
  /\ wire' = [wire EXCEPT !.phase = "parsed"]
  /\ UNCHANGED <<op, result, client, answer, performed, cancelled>>

Handle ==
  /\ ReturnError \/ ReturnOK \/ ReturnMissing
  /\ UNCHANGED wireVars

ExchangeNext ==
  \/ RefuseNilRequest \/ Send \/ ServiceAnswers \/ Repeat \/ ConnectionFails
  \/ Cancel \/ Abort \/ FollowRedirect \/ DecodingFails \/ Parse \/ Handle

\* Do watches the context of the request; the code that handles the response
\* waits for nothing.
Fairness == WF_exchangeVars(Abort) /\ WF_exchangeVars(Handle)

ExchangeSpec == ExchangeInit /\ [][ExchangeNext]_exchangeVars /\ Fairness

-----------------------------------------------------------------------------
(* Properties. *)

ExchangeTypeOK ==
  /\ TypeOK
  /\ client \in [capture : BOOLEAN, overridden : BOOLEAN]
  /\ wire \in {NoRequest} \cup
       [phase : {"sent", "answered", "parsed", "failed"},
        method : {"GET", "POST", "PUT", "PATCH", "DELETE", "none"},
        place : {Nowhere} \cup Location,
        dialed : Hosts \cup {"target", "none"}]
  /\ answer \in {NoAnswer} \cup
       [code : StatusCodes, body : {"data", "garbled", "other"},
        location : {Nowhere} \cup Location]
  /\ performed \in 0..MaxPerformed /\ cancelled \in BOOLEAN

(* Whatever happens on the wire, a call is to its caller one of            *)
(* ResponseHandling: no redirect, repetition or lost answer shows but as   *)
(* one response or one error.                                              *)
ImplementsHandling == Spec

\* Operations that a page may make believe: on a client that follows redirects
\* those that accept a 200, whose data is tested at most for being JSON, and on
\* any client those that only look for a Location.
CanBeMisled(o) ==
  \/ o \in {"SocialLogin", "SocialLogout", "LinkSocialProvider"}
  \/ ~client.capture /\ 200 \in Calls[o].codes

(* A success was performed: the status exposes a page at the end of a      *)
(* redirect to the operations that answer 201, 204 or 302, and a client    *)
(* built WithDisableFollowRedirect shows it to all but the three that look *)
(* for a Location only; also under a host override, which brings every hop *)
(* back to the service, and after 307 and 308, which keep the method.      *)
SuccessMeansPerformed ==
  result.kind = "ok" /\ ~CanBeMisled(op) => performed > 0

(* One call performs an operation that changes something at most once: the *)
(* only repetitions are net/http's, of a GET, and the two operations that  *)
(* change something by GET are those of the social login session.          *)
EffectsHappenOnce ==
  performed > 1 => Requests[op].method = "GET"

(* What the service has done, and answered as documented, is not reported  *)
(* as failed: the code is decoded, the content is found and the status is  *)
(* accepted, so no caller repeats an operation that took effect.           *)
DoneIsReportedDone ==
  /\ wire.phase = "parsed" /\ AtHandler /\ op # "HandleWebhook"
  /\ answer.code \in DocumentedSuccess(op)
  /\ Calls[op].needs \in {"data", "untested data"} =>
       answer.body = "data" \/ (answer.code \in Codes3xx /\ Holds(op, answer))
  => result.kind \in {"none", "ok"}

(* A nil dereference needs a page: the operations that do not test their   *)
(* data (account.go:1860 and 1936, admin/quota.go:539) panic only on a 200 *)
(* that is no JSON, as a page behind a followed redirect may be; any other *)
(* status, and JSON that does not decode, is an error.                     *)
PanicsAreForeignBodies ==
  result.kind = "panic" =>
    /\ op \in {"GetAccount", "GetPermissions", "quota.ListUserConfigs"}
    /\ answer.code = 200 /\ answer.body = "other"

(* A call whose context is done returns, in a redirect loop (CheckRedirect *)
(* never refuses) as before a service that does not answer.                *)
CancelledCallReturns == cancelled ~> result # NoResult
=============================================================================
