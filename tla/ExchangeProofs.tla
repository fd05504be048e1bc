---------------------------- MODULE ExchangeProofs ----------------------------
(***************************************************************************)
(* Proofs about Exchange, for every set of status codes and every bound on *)
(* what the service performs: the types, the refinement of                 *)
(* ResponseHandling, and the safety properties that relate the wire to     *)
(* what the caller is told.  What of the tables of operations the proofs   *)
(* need is proved from their rows, but for WireAssumption and              *)
(* TablesAssumption.                                                       *)
(***************************************************************************)
EXTENDS Exchange, ResponseHandlingProofs

-----------------------------------------------------------------------------
(* What of the tables of requests and of calls the proofs use.             *)

Methods == {"GET", "POST", "PUT", "PATCH", "DELETE"}

Successes == 200..299 \cup {302, 307}

Verbed(table) == \A o \in DOMAIN table : table[o].method \in Methods

LEMMA RequestMethods ==
  \A p : /\ Get(p).method = "GET" /\ Post(p).method = "POST" /\ Put(p).method = "PUT"
        /\ Patch(p).method = "PATCH" /\ Delete(p).method = "DELETE"
BY DEF Get, Post, Put, Patch, Delete, Request

LEMMA VerbedRow ==
  ASSUME NEW o, NEW r, r.method \in Methods
  PROVE  Verbed(o :> r)
<1> SUFFICES ASSUME NEW p \in DOMAIN (o :> r)
             PROVE  (o :> r)[p].method \in Methods
  BY Zenon DEF Verbed
<1>1. (o :> r)[p] = r
  BY RowEntry, Zenon
<1>2. QED
  BY <1>1, Zenon

LEMMA VerbedRows ==
  \A o, p : /\ Verbed(o :> Get(p)) /\ Verbed(o :> Post(p)) /\ Verbed(o :> Put(p))
           /\ Verbed(o :> Patch(p)) /\ Verbed(o :> Delete(p))
<1> TAKE o, p
<1>1. /\ Get(p).method \in Methods /\ Post(p).method \in Methods
      /\ Put(p).method \in Methods /\ Patch(p).method \in Methods
      /\ Delete(p).method \in Methods
  BY RequestMethods, Zenon DEF Methods
<1>2. QED
  BY <1>1, VerbedRow, Zenon

LEMMA VerbedMerge ==
  ASSUME NEW t, NEW u, Verbed(t), Verbed(u)
  PROVE  Verbed(t @@ u)
<1> SUFFICES ASSUME NEW o \in DOMAIN (t @@ u)
             PROVE  (t @@ u)[o].method \in Methods
  BY Zenon DEF Verbed
<1>1. \/ o \in DOMAIN t /\ (t @@ u)[o] = t[o]
      \/ o \in DOMAIN u /\ (t @@ u)[o] = u[o]
  BY MergedEntry, Zenon
<1>2. QED
  BY <1>1, Zenon DEF Verbed

LEMMA AccountPagesVerbed ==
  /\ Verbed(AccountRequests) /\ Verbed(SocialDirectoryRequests)
  /\ Verbed(SocialEntryRequests) /\ Verbed(SocialGrantRequests)
  /\ Verbed(AvatarRequests) /\ Verbed(CancellationRequests)
  /\ Verbed(PlanChangeRequests) /\ Verbed(CheckoutRequests)
BY VerbedRows, VerbedMerge
   DEF AccountRequests, SocialDirectoryRequests, SocialEntryRequests,
       SocialGrantRequests, AvatarRequests, CancellationRequests,
       PlanChangeRequests, CheckoutRequests

LEMMA AccountBillingVerbed ==
  /\ Verbed(ManagementRequests) /\ Verbed(PauseRequests)
  /\ Verbed(WebhookRequests) /\ Verbed(KeyRequests)
  /\ Verbed(ResetRequests) /\ Verbed(QuotaRequests)
  /\ Verbed(CredentialRequests)
BY VerbedRows, VerbedMerge
   DEF ManagementRequests, PauseRequests, WebhookRequests, KeyRequests,
       ResetRequests, QuotaRequests, CredentialRequests

LEMMA AccountAuthVerbed ==
  /\ Verbed(VerificationRequests) /\ Verbed(LoginRequests)
  /\ Verbed(OTPRequests) /\ Verbed(SessionRequests)
  /\ Verbed(GatewayRequests) /\ Verbed(OperationListRequests)
  /\ Verbed(OperationRequests)
BY VerbedRows, VerbedMerge
   DEF VerificationRequests, LoginRequests, OTPRequests, SessionRequests,
       GatewayRequests, OperationListRequests, OperationRequests

LEMMA AdminPricingVerbed ==
  /\ Verbed(CreditListRequests) /\ Verbed(CreditSetRequests)
  /\ Verbed(CreditRequests) /\ Verbed(SyncRequests)
  /\ Verbed(PriceLineRequests) /\ Verbed(PriceLineItemRequests)
  /\ Verbed(PriceLinePlanRequests) /\ Verbed(PeriodRequests)
  /\ Verbed(PeriodItemRequests)
BY VerbedRows, VerbedMerge
   DEF CreditListRequests, CreditSetRequests, CreditRequests, SyncRequests,
       PriceLineRequests, PriceLineItemRequests, PriceLinePlanRequests,
       PeriodRequests, PeriodItemRequests

LEMMA AdminSubscriberVerbed ==
  /\ Verbed(PricingPlanRequests) /\ Verbed(PricingPlanItemRequests)
  /\ Verbed(SubscriberRequests) /\ Verbed(UserCreditRequests)
  /\ Verbed(UserCancellationRequests) /\ Verbed(UserSubscriptionRequests)
  /\ Verbed(BlockProfileRequests) /\ Verbed(RuntimeProfileRequests)
  /\ Verbed(MutexProfileRequests) /\ Verbed(ProfilingStatusRequests)
BY VerbedRows, VerbedMerge
   DEF PricingPlanRequests, PricingPlanItemRequests, SubscriberRequests,
       UserCreditRequests, UserCancellationRequests, UserSubscriptionRequests,
       BlockProfileRequests, RuntimeProfileRequests, MutexProfileRequests,
       ProfilingStatusRequests

LEMMA AdminPolicyVerbed ==
  /\ Verbed(PlatformDomainRequests) /\ Verbed(PlatformDomainItemRequests)
  /\ Verbed(WebsiteRequests) /\ Verbed(AllowanceRequests)
  /\ Verbed(AllowanceItemRequests) /\ Verbed(PlanRequests)
  /\ Verbed(PlanItemRequests) /\ Verbed(UpkeepRequests)
  /\ Verbed(UserConfigRequests)
BY VerbedRows, VerbedMerge
   DEF PlatformDomainRequests, PlatformDomainItemRequests, WebsiteRequests,
       AllowanceRequests, AllowanceItemRequests, PlanRequests, PlanItemRequests,
       UpkeepRequests, UserConfigRequests

LEMMA AdminUsersVerbed ==
  /\ Verbed(SocialProviderRequests) /\ Verbed(SocialProviderItemRequests)
  /\ Verbed(SocialProviderSwitchRequests) /\ Verbed(UserRequests)
  /\ Verbed(UserItemRequests) /\ Verbed(ExportRequests)
  /\ Verbed(StatisticsRequests)
BY VerbedRows, VerbedMerge
   DEF SocialProviderRequests, SocialProviderItemRequests,
       SocialProviderSwitchRequests, UserRequests, UserItemRequests,
       ExportRequests, StatisticsRequests

LEMMA RequestsVerbed == Verbed(Requests)
<1>1. Verbed(AccountClientRequests)
  BY AccountPagesVerbed, AccountBillingVerbed, AccountAuthVerbed, VerbedMerge
     DEF AccountClientRequests
<1>2. Verbed(AdminAndMetaRequests)
  BY AdminPricingVerbed, AdminSubscriberVerbed, AdminPolicyVerbed, AdminUsersVerbed,
     VerbedMerge DEF AdminAndMetaRequests
<1>3. QED
  BY <1>1, <1>2, VerbedMerge DEF Requests

\* The logout of a social provider is asked for by GET.
LEMMA LogoutIsRead == Requests["SocialLogout"].method = "GET"
<1> DEFINE r == Get("/account/auth/sso/{id}/logout")
<1>1. \A p, q, x :
        Maps("SocialConsent" :> p @@ "LinkSocialProvider" :> q @@ "SocialLogout" :> x,
             "SocialLogout", x)
  BY RowMaps, RowLacks, MergedMaps, MergedLacks
<1>2. Maps(SocialGrantRequests, "SocialLogout", r)
  BY <1>1, Zenon DEF SocialGrantRequests
<1>3. \A p, q : Lacks("UnlinkSocialProvider" :> p @@ "SocialLogin" :> q, "SocialLogout")
  BY RowLacks, MergedLacks
<1>4. /\ Lacks(AccountRequests, "SocialLogout")
      /\ Lacks(SocialDirectoryRequests, "SocialLogout")
      /\ Lacks(SocialEntryRequests, "SocialLogout")
  <2>1. Lacks(AccountRequests, "SocialLogout")
    BY RowLacks, MergedLacks DEF AccountRequests
  <2>2. Lacks(SocialDirectoryRequests, "SocialLogout")
    BY RowLacks, MergedLacks DEF SocialDirectoryRequests
  <2>3. Lacks(SocialEntryRequests, "SocialLogout")
    BY <1>3, Zenon DEF SocialEntryRequests
  <2>4. QED
    BY <2>1, <2>2, <2>3
<1> HIDE DEF r
<1>5. Maps(AccountClientRequests, "SocialLogout", r)
  BY <1>2, <1>4, MergedMaps, MergedLacks DEF AccountClientRequests
<1>6. Maps(Requests, "SocialLogout", r)
  BY <1>5, MergedMaps, Zenon DEF Requests
<1>7. r.method = "GET"
  BY RequestMethods, Zenon DEF r
<1>8. QED
  BY <1>6, <1>7, Zenon DEF Maps

\* What the operations that get the token from a redirect look for.
LEMMA TokenNeeded == Calls["Login"].needs = "data" /\ Calls["ValidateOTP"].needs = "data"
<1>1. /\ Maps(AuthCalls, "Login", Data({200, 302}))
      /\ Maps(AuthCalls, "ValidateOTP", Data({302}))
  BY RowMaps, RowLacks, MergedMaps, MergedLacks DEF AuthCalls
<1>2. /\ Maps(Calls, "Login", Data({200, 302})) /\ Maps(Calls, "ValidateOTP", Data({302}))
  BY <1>1, MergedMaps DEF Calls, AccountCalls
<1>3. Data({200, 302}).needs = "data" /\ Data({302}).needs = "data"
  BY DEF Data, Call
<1>4. QED
  BY <1>2, <1>3, Zenon DEF Maps

-----------------------------------------------------------------------------
(* Types. *)

Sent ==
  [phase : {"sent", "answered", "parsed", "failed"},
   method : Methods \cup {"none"}, place : {Nowhere} \cup Location,
   dialed : Hosts \cup {"target", "none"}]

WireTypeOK ==
  /\ client \in [capture : BOOLEAN, overridden : BOOLEAN]
  /\ wire \in {NoRequest} \cup Sent
  /\ answer \in {NoAnswer} \cup
       [code : StatusCodes, body : {"data", "garbled", "other"},
        location : {Nowhere} \cup Location]
  /\ performed \in 0..MaxPerformed /\ cancelled \in BOOLEAN

\* The answer and the method are there when they are used.
AnswerThere ==
  /\ wire.phase \in {"answered", "parsed"} => answer # NoAnswer
  /\ wire.phase \in {"sent", "answered", "parsed"} => wire.method \in Methods

LEMMA Sentinels ==
  /\ Plain \in Errors /\ "ErrUnauthorized" \in Errors /\ "ErrBadRequest" \in Errors
  /\ \A code : SentinelOf(code) \in Errors
BY SentinelsAreErrors, SentinelValues

LEMMA TableFacts ==
  ASSUME NEW o \in Operations
  PROVE  /\ Requests[o].method \in Methods
         /\ Calls[o].needs \in {"nothing", "body", "data", "untested data"}
         /\ Calls[o].codes \subseteq Successes
         /\ 302 \in Calls[o].codes => o \in Capturing \cup {"Login"}
         /\ 307 \in Calls[o].codes => Requests[o].method = "GET" /\ o \in Capturing
         /\ o \in {"Login", "ValidateOTP"} => Calls[o].needs = "data"
         /\ o # "HandleWebhook" => DocumentedSuccess(o) \subseteq Calls[o].codes
         /\ Calls[o].needs \in {"data", "untested data"} =>
              DocumentedSuccess(o) \ {302, 307} \subseteq Decoded[o]
<1>1. Requests[o].method \in Methods
  BY RequestsVerbed, WireAssumption, Zenon DEF Verbed
<1>2. Calls[o].codes \subseteq Successes
  <2>1. \A c \in Calls[o].codes : c \in 200..299 \/ c \in {302, 307}
    BY CallFacts, Zenon
  <2>2. QED
    BY <2>1 DEF Successes
<1>3. /\ Calls[o].needs \in {"nothing", "body", "data", "untested data"}
      /\ 302 \in Calls[o].codes => o \in Capturing \cup {"Login"}
      /\ 307 \in Calls[o].codes => o = "SocialLogout"
  BY CallFacts, Zenon
<1>4. 307 \in Calls[o].codes => Requests[o].method = "GET" /\ o \in Capturing
  BY <1>3, LogoutIsRead DEF Capturing
<1>5. o \in {"Login", "ValidateOTP"} => Calls[o].needs = "data"
  BY TokenNeeded
<1>6. QED
  BY <1>1, <1>2, <1>3, <1>4, <1>5, TablesAssumption, Zenon

LEMMA RepeatingCodes ==
  ASSUME NEW o \in Operations, Requests[o].method # "GET"
  PROVE  307 \notin Calls[o].codes /\ 308 \notin Calls[o].codes
<1>1. Calls[o].codes \subseteq Successes
  BY TableFacts, Zenon
<1>2. 307 \notin Calls[o].codes
  BY TableFacts, Zenon
<1>3. QED
  BY <1>1, <1>2 DEF Successes

LEMMA SuccessCodes ==
  ASSUME NEW o \in Operations, NEW c \in Calls[o].codes
  PROVE  /\ c \in 200..299 \/ c \in {302, 307}
         /\ c \in {302, 307} => o \in Capturing \cup {"Login"}
<1>1. Calls[o].codes \subseteq Successes
  BY TableFacts, Zenon
<1>2. /\ 302 \in Calls[o].codes => o \in Capturing \cup {"Login"}
      /\ 307 \in Calls[o].codes => o \in Capturing \cup {"Login"}
  BY TableFacts, Zenon
<1>3. QED
  BY <1>1, <1>2 DEF Successes

LEMMA DataNeeded ==
  ASSUME NEW o \in Operations
  PROVE  /\ Calls[o].needs \in {"nothing", "body", "data", "untested data"}
         /\ o \in {"Login", "ValidateOTP"} => Calls[o].needs = "data"
BY TableFacts, Zenon

LEMMA DocumentedAccepted ==
  ASSUME NEW o \in Operations, o # "HandleWebhook", NEW c \in DocumentedSuccess(o)
  PROVE  c \in Calls[o].codes
<1>1. DocumentedSuccess(o) \subseteq Calls[o].codes
  BY TableFacts, Zenon
<1>2. QED
  BY <1>1, Zenon

LEMMA DocumentedDecoded ==
  ASSUME NEW o \in Operations, Calls[o].needs \in {"data", "untested data"},
         NEW c \in DocumentedSuccess(o), c \notin {302, 307}
  PROVE  c \in Decoded[o]
<1>1. DocumentedSuccess(o) \ {302, 307} \subseteq Decoded[o]
  BY TableFacts, Zenon
<1>2. QED
  BY <1>1

LEMMA ErrorType ==
  ASSUME NEW o \in Operations, NEW code
  PROVE  ErrorOf(o, code) \in Errors
BY ErrorFacts, Zenon

LEMMA HoldsType == \A o, a : Holds(o, a) \in BOOLEAN
BY Zenon DEF Holds

LEMMA HandledTypes ==
  ASSUME TypeOK, RejectNilRequest \/ TransportFails \/ Handle
  PROVE  TypeOK'
<1> USE DEF TypeOK
<1>1. CASE RejectNilRequest \/ TransportFails
  BY <1>1, Sentinels DEF RejectNilRequest, TransportFails, Result
<1>2. CASE Handle
  <2>1. CASE ReturnError
    BY <2>1, ErrorType DEF ReturnError, Return, Result
  <2>2. CASE ReturnOK
    BY <2>2, Sentinels DEF ReturnOK, Return, Result
  <2>3. CASE ReturnMissing
    BY <2>3, Sentinels DEF ReturnMissing, Return, Result
  <2>4. QED
    BY <1>2, <2>1, <2>2, <2>3 DEF Handle
<1>3. QED
  BY <1>1, <1>2

Types == TypeOK /\ WireTypeOK /\ AnswerThere

LEMMA InitialTypes == ExchangeInit => Types
<1> SUFFICES ASSUME ExchangeInit PROVE Types
  OBVIOUS
<1>1. TypeOK
  BY Sentinels DEF ExchangeInit, Init, TypeOK, NoResult, Result
<1>2. WireTypeOK
  <2>1. cancelled \in BOOLEAN
    BY Zenon DEF ExchangeInit
  <2>2. performed \in 0..MaxPerformed
    BY PerformedAssumption DEF ExchangeInit
  <2>3. client \in [capture : BOOLEAN, overridden : BOOLEAN]
    BY Zenon DEF ExchangeInit
  <2>4. wire = NoRequest /\ answer = NoAnswer
    BY DEF ExchangeInit
  <2>5. QED
    BY <2>1, <2>2, <2>3, <2>4, Zenon DEF WireTypeOK
<1>3. AnswerThere
  BY DEF ExchangeInit, AnswerThere, NoRequest
<1>4. QED
  BY <1>1, <1>2, <1>3 DEF Types

\* A request on the wire has its type, wherever it goes.
LEMMA RoundTripType ==
  ASSUME NEW m \in Methods, NEW p \in Location
  PROVE  /\ RoundTrip(m, p) \in Sent
         /\ RoundTrip(m, p).phase = "sent" /\ RoundTrip(m, p).method = m
BY DEF RoundTrip, Sent, Location

LEMMA PhaseType ==
  ASSUME WireTypeOK, NEW x \in {"sent", "answered", "parsed", "failed"}
  PROVE  /\ [wire EXCEPT !.phase = x] \in Sent
         /\ [wire EXCEPT !.phase = x].phase = x
         /\ [wire EXCEPT !.phase = x].method = wire.method
         /\ [wire EXCEPT !.phase = x].place = wire.place
         /\ [wire EXCEPT !.phase = x].dialed = wire.dialed
<1> DEFINE AnyWire ==
      [phase : {"idle", "sent", "answered", "parsed", "failed"},
       method : Methods \cup {"none"}, place : {Nowhere} \cup Location,
       dialed : Hosts \cup {"target", "none"}]
<1>1. NoRequest \in AnyWire
  BY DEF NoRequest
<1>2. wire \in AnyWire
  BY <1>1 DEF WireTypeOK, Sent
<1>3. QED
  BY <1>2 DEF Sent

LEMMA TypesStep == Types /\ [ExchangeNext]_exchangeVars => Types'
<1> SUFFICES ASSUME Types, [ExchangeNext]_exchangeVars PROVE Types'
  OBVIOUS
<1> USE DEF Types
<1>1. CASE RefuseNilRequest
  BY <1>1, HandledTypes DEF RefuseNilRequest, wireVars, WireTypeOK, AnswerThere
<1>2. CASE Send
  <2>1. wire' \in Sent /\ wire'.phase = "sent" /\ wire'.method \in Methods
    <3>1. Requests[op].method \in Methods
      BY TableFacts, Zenon DEF TypeOK
    <3>2. OwnPlace \in Location
      BY DEF OwnPlace, Location, Hosts
    <3>3. QED
      BY <1>2, <3>1, <3>2, RoundTripType DEF Send
  <2>2. QED
    BY <1>2, <2>1 DEF Send, vars, TypeOK, WireTypeOK, AnswerThere
<1>3. CASE ServiceAnswers
  <2>1. PICK code \in StatusCodes, body \in {"data", "garbled", "other"},
             location \in {Nowhere} \cup Location :
          /\ \E n \in Performances(code, body) :
               performed + n <= MaxPerformed /\ performed' = performed + n
          /\ answer' = Answer(code, body, location)
    BY <1>3 DEF ServiceAnswers
  <2>2. performed' \in 0..MaxPerformed
    BY <2>1, PerformedAssumption DEF Performances, WireTypeOK
  <2>3. answer' \in [code : StatusCodes, body : {"data", "garbled", "other"},
                     location : {Nowhere} \cup Location]
    BY <2>1 DEF Answer
  <2>4. answer' # NoAnswer
    BY <2>1, CodesAssumption DEF Answer, NoAnswer
  <2>5. wire' \in Sent /\ wire'.phase = "answered" /\ wire'.method \in Methods
    BY <1>3, PhaseType DEF ServiceAnswers, AnswerThere
  <2>6. QED
    BY <1>3, <2>2, <2>3, <2>4, <2>5 DEF ServiceAnswers, vars, TypeOK, WireTypeOK, AnswerThere
<1>4. CASE Repeat
  <2>1. wire' \in Sent /\ wire'.phase = "sent" /\ wire'.method \in Methods
    BY <1>4, PhaseType DEF Repeat, AnswerThere
  <2>2. QED
    BY <1>4, <2>1 DEF Repeat, vars, TypeOK, WireTypeOK, AnswerThere
<1>5. CASE ConnectionFails \/ Abort \/ DecodingFails
  <2>1. wire' \in Sent /\ wire'.phase = "failed"
    BY <1>5, PhaseType DEF ConnectionFails, Abort, DecodingFails
  <2>2. TypeOK'
    BY <1>5, HandledTypes DEF ConnectionFails, Abort, DecodingFails
  <2>3. QED
    BY <1>5, <2>1, <2>2 DEF ConnectionFails, Abort, DecodingFails, WireTypeOK, AnswerThere
<1>6. CASE Cancel
  BY <1>6 DEF Cancel, vars, TypeOK, WireTypeOK, AnswerThere
<1>7. CASE FollowRedirect
  <2>1. wire' \in Sent /\ wire'.phase = "sent" /\ wire'.method \in Methods
    <3>1. wire.method \in Methods
      BY <1>7 DEF FollowRedirect, AnswerThere
    <3>2. answer.location \in Location
      BY <1>7 DEF FollowRedirect, IsFinal, AnswerThere, WireTypeOK
    <3>3. QED
      BY <1>7, <3>1, <3>2, RoundTripType DEF FollowRedirect, Methods
  <2>2. QED
    BY <1>7, <2>1 DEF FollowRedirect, vars, TypeOK, WireTypeOK, AnswerThere
<1>8. CASE Parse
  <2>1. wire' \in Sent /\ wire'.phase = "parsed" /\ wire'.method \in Methods
    BY <1>8, PhaseType DEF Parse, AnswerThere
  <2>2. response' \in [code : StatusCodes, holds : BOOLEAN]
    BY <1>8, HoldsType DEF Parse, Response, WireTypeOK, AnswerThere
  <2>3. QED
    BY <1>8, <2>1, <2>2 DEF Parse, TypeOK, WireTypeOK, AnswerThere
<1>9. CASE Handle
  BY <1>9, HandledTypes DEF Handle, wireVars, WireTypeOK, AnswerThere
<1>10. CASE UNCHANGED exchangeVars
  BY <1>10 DEF exchangeVars, vars, wireVars, TypeOK, WireTypeOK, AnswerThere
<1>11. QED
  BY <1>1, <1>2, <1>3, <1>4, <1>5, <1>6, <1>7, <1>8, <1>9, <1>10 DEF ExchangeNext

-----------------------------------------------------------------------------
(* What the state of the exchange says of the rest. *)

\* The response is made of the answer, and the result of the response.
FlowInv ==
  /\ wire.phase = "parsed" => response = Response(answer.code, Holds(op, answer))
  /\ wire.phase # "parsed" => response = NoResponse /\ result.kind \in {"none", "error"}
  /\ wire.phase \in {"sent", "answered"} => result = NoResult
  /\ wire.phase = "parsed" /\ result # NoResult =>
       (result.kind = "ok" <=> Accepts(op, response.code) /\ Supplies(op, response))
  /\ wire.phase = "parsed" => Decodes(op, answer)
  /\ result.kind = "panic" =>
       Accepts(op, response.code) /\ ~response.holds /\ Calls[op].needs = "untested data"

\* A captured redirect keeps the request where it was sent.
PlaceInv ==
  wire.phase \in {"sent", "answered", "parsed"} =>
    /\ wire.method \in {Requests[op].method, "GET"}
    /\ Captures(op) => AtHandler

\* The answer is one that can be given at this place, and its effect is counted.
AnswerInv ==
  wire.phase \in {"answered", "parsed"} =>
    /\ CanAnswer(answer.code, answer.body, answer.location)
    /\ AtHandler /\ (answer.code \in 200..299
                     \/ (answer.code \in Codes3xx /\ answer.body = "data"))
         => performed > 0

\* An operation that writes is performed once, and its request not repeated.
EffectInv ==
  Requests[op].method # "GET" =>
    /\ performed <= 1
    /\ wire.phase = "idle" => performed = 0
    /\ wire.phase = "sent" /\ wire.method # "GET" => performed = 0
    /\ wire.phase = "answered" /\ wire.method # "GET"
         /\ answer.code \in {307, 308} => performed = 0

\* The actions by what they do to the wire.
Fails == ConnectionFails \/ Abort \/ DecodingFails
Stays == RefuseNilRequest \/ Cancel \/ Handle \/ UNCHANGED exchangeVars
Moves == ServiceAnswers \/ Repeat \/ Parse

LEMMA ByWire ==
  [ExchangeNext]_exchangeVars <=> Send \/ FollowRedirect \/ Moves \/ Fails \/ Stays
BY DEF ExchangeNext, Fails, Stays, Moves

LEMMA WhereItStays ==
  Stays => UNCHANGED <<op, client, wire, answer, performed>>
BY DEF Stays, RefuseNilRequest, RejectNilRequest, Cancel, Handle, ReturnError,
       ReturnOK, ReturnMissing, Return, exchangeVars, wireVars, vars

LEMMA WhereItFails ==
  WireTypeOK /\ Fails => wire'.phase = "failed" /\ UNCHANGED <<op, performed>>
BY PhaseType DEF Fails, ConnectionFails, Abort, DecodingFails, TransportFails

LEMMA WhereItMoves ==
  WireTypeOK /\ Moves =>
    /\ UNCHANGED <<op, client>>
    /\ wire'.method = wire.method /\ wire'.place = wire.place
    /\ wire'.dialed = wire.dialed
    /\ wire.phase \in {"sent", "answered"}
    /\ wire'.phase = "parsed" => wire.phase = "answered" /\ UNCHANGED <<answer, performed>>
    /\ wire'.phase = "sent" => Repeat
    /\ wire'.phase = "answered" => ServiceAnswers
    /\ wire'.phase \in {"sent", "answered", "parsed"}
BY PhaseType DEF Moves, ServiceAnswers, Repeat, Parse, vars

LEMMA PlaceStep ==
  Types /\ PlaceInv /\ [ExchangeNext]_exchangeVars => PlaceInv'
<1> SUFFICES ASSUME Types, PlaceInv, [ExchangeNext]_exchangeVars PROVE PlaceInv'
  OBVIOUS
<1> USE DEF PlaceInv, Captures, AtHandler
<1>1. CASE Send
  BY <1>1 DEF Send, RoundTrip, OwnPlace, vars
<1>2. CASE FollowRedirect
  <2>1. ~Captures(op) /\ UNCHANGED <<op, client>>
    BY <1>2 DEF FollowRedirect, IsFinal, vars
  <2>2. wire'.method \in {wire.method, "GET"} /\ wire.phase = "answered"
    BY <1>2 DEF FollowRedirect, RoundTrip
  <2>3. QED
    BY <2>1, <2>2
<1>3. CASE Moves
  BY <1>3, WhereItMoves DEF Types
<1>4. CASE Fails
  BY <1>4, WhereItFails DEF Types
<1>5. CASE Stays
  BY <1>5, WhereItStays
<1>6. QED
  BY <1>1, <1>2, <1>3, <1>4, <1>5, ByWire

LEMMA AnswerStep ==
  Types /\ AnswerInv /\ [ExchangeNext]_exchangeVars => AnswerInv'
<1> SUFFICES ASSUME Types, AnswerInv, [ExchangeNext]_exchangeVars PROVE AnswerInv'
  OBVIOUS
<1>1. CASE Send
  BY <1>1 DEF Send, RoundTrip, AnswerInv
<1>2. CASE FollowRedirect
  BY <1>2 DEF FollowRedirect, RoundTrip, AnswerInv
<1>3. CASE ServiceAnswers
  <2>1. PICK code \in StatusCodes, body \in {"data", "garbled", "other"},
             location \in {Nowhere} \cup Location :
          /\ CanAnswer(code, body, location)
          /\ \E n \in Performances(code, body) : performed' = performed + n
          /\ answer' = Answer(code, body, location)
    BY <1>3 DEF ServiceAnswers
  <2>2. (AtHandler <=> AtHandler') /\ op' = op
    BY <1>3, WhereItMoves DEF Moves, Types, AtHandler
  <2>3. CanAnswer(answer.code, answer.body, answer.location)'
    BY <2>1, <2>2, <1>3, WhereItMoves DEF Moves, Types, CanAnswer, Answer
  <2>4. AtHandler /\ (code \in 200..299 \/ (code \in Codes3xx /\ body = "data"))
          => performed' > 0
    BY <2>1 DEF Performances, Types, WireTypeOK
  <2>5. QED
    BY <2>1, <2>2, <2>3, <2>4 DEF AnswerInv, Answer
<1>4. CASE Repeat
  BY <1>4, PhaseType DEF Repeat, AnswerInv, Types
<1>5. CASE Parse \/ Stays
  <2>1. /\ UNCHANGED <<op, answer, performed>>
        /\ wire'.method = wire.method /\ wire'.place = wire.place
        /\ wire'.dialed = wire.dialed
        /\ wire'.phase \in {"answered", "parsed"} => wire.phase \in {"answered", "parsed"}
    BY <1>5, WhereItStays, PhaseType DEF Parse, Types
  <2>2. (AtHandler <=> AtHandler')
    BY <2>1 DEF AtHandler
  <2>3. QED
    BY <2>1, <2>2 DEF AnswerInv, CanAnswer
<1>6. CASE Fails
  BY <1>6, WhereItFails DEF Types, AnswerInv
<1>7. QED
  BY <1>1, <1>2, <1>3, <1>4, <1>5, <1>6, ByWire DEF Moves

LEMMA EffectStep ==
  Types /\ PlaceInv /\ EffectInv /\ [ExchangeNext]_exchangeVars => EffectInv'
<1> SUFFICES ASSUME Types, PlaceInv, EffectInv, [ExchangeNext]_exchangeVars,
                    Requests[op'].method # "GET"
             PROVE  EffectInv'
  BY DEF EffectInv
<1> USE DEF EffectInv
<1>1. CASE Send
  BY <1>1 DEF Send, RoundTrip, vars
<1>2. CASE FollowRedirect
  <2>1. wire.phase = "answered" /\ UNCHANGED <<op, performed>>
    BY <1>2 DEF FollowRedirect, vars
  <2>2. wire'.phase = "sent"
        /\ (wire'.method # "GET" => wire.method # "GET" /\ answer.code \in {307, 308})
    BY <1>2 DEF FollowRedirect, RoundTrip
  <2>3. QED
    BY <2>1, <2>2
<1>3. CASE ServiceAnswers
  <2>1. PICK code \in StatusCodes, body \in {"data", "garbled", "other"},
             location \in {Nowhere} \cup Location :
          /\ CanAnswer(code, body, location)
          /\ \E n \in Performances(code, body) : performed' = performed + n
          /\ answer' = Answer(code, body, location)
    BY <1>3 DEF ServiceAnswers
  <2>2. op' = op /\ wire.phase = "sent" /\ wire'.phase = "answered"
        /\ wire'.method = wire.method
    BY <1>3, PhaseType DEF ServiceAnswers, Types, vars
  <2>3. performed \in Nat
    BY DEF Types, WireTypeOK
  <2>4. CASE AtHandler
    <3>1. wire.method # "GET" /\ performed = 0
      BY <2>2, <2>4 DEF AtHandler
    <3>2. op \in Operations
      BY DEF Types, TypeOK
    <3>3. code \in {307, 308} => Performances(code, body) = {0}
      <4>1. 307 \notin Calls[op].codes /\ 308 \notin Calls[op].codes
        BY <2>2, <3>2, RepeatingCodes
      <4>2. code \in {307, 308} =>
              /\ code \in Codes3xx \ Calls[op].codes /\ code \notin 200..299
              /\ body # "data"
        BY <2>1, <4>1 DEF CanAnswer, Codes3xx
      <4>3. QED
        BY <2>4, <4>2 DEF Performances
    <3>4. Performances(code, body) \subseteq {0, 1}
      BY DEF Performances
    <3>5. QED
      BY <2>1, <2>2, <3>1, <3>3, <3>4 DEF Answer
  <2>5. CASE ~AtHandler
    <3>1. performed' = performed
      BY <2>1, <2>3, <2>5 DEF Performances
    <3>2. QED
      BY <2>2, <3>1
  <2>6. QED
    BY <2>4, <2>5
<1>4. CASE Repeat
  BY <1>4, PhaseType DEF Repeat, Types, vars
<1>5. CASE Parse
  BY <1>5, PhaseType DEF Parse, Types, vars
<1>6. CASE Fails
  BY <1>6, WhereItFails DEF Types
<1>7. CASE Stays
  BY <1>7, WhereItStays
<1>8. QED
  BY <1>1, <1>2, <1>3, <1>4, <1>5, <1>6, <1>7, ByWire DEF Moves

LEMMA FlowStep ==
  Types /\ FlowInv /\ [ExchangeNext]_exchangeVars => FlowInv'
<1> SUFFICES ASSUME Types, FlowInv, [ExchangeNext]_exchangeVars PROVE FlowInv'
  OBVIOUS
<1> USE DEF FlowInv
<1>1. CASE Send
  BY <1>1 DEF Send, RoundTrip, vars, NoRequest
<1>2. CASE FollowRedirect
  BY <1>2 DEF FollowRedirect, RoundTrip, vars
<1>3. CASE ServiceAnswers \/ Repeat
  BY <1>3, PhaseType DEF ServiceAnswers, Repeat, Types, vars
<1>4. CASE Parse
  BY <1>4, PhaseType DEF Parse, Types
<1>5. CASE Fails
  <2>1. wire.phase # "parsed"
    BY <1>5 DEF Fails, ConnectionFails, UnderWay, Abort, DecodingFails
  <2>2. response' = response /\ result' = Result("error", Plain)
    BY <1>5 DEF Fails, ConnectionFails, Abort, DecodingFails, TransportFails
  <2>3. QED
    BY <1>5, <2>1, <2>2, WhereItFails DEF Types, Result
<1>6. CASE RefuseNilRequest
  BY <1>6 DEF RefuseNilRequest, RejectNilRequest, wireVars, Result
<1>7. CASE Cancel \/ UNCHANGED exchangeVars
  BY <1>7 DEF Cancel, exchangeVars, wireVars, vars, Accepts, Supplies, Holds
<1>8. CASE Handle
  <2>1. UNCHANGED <<op, response, wire, answer>> /\ response # NoResponse
    BY <1>8 DEF Handle, ReturnError, ReturnOK, ReturnMissing, Return, wireVars
  <2>2. wire.phase = "parsed"
    BY <2>1
  <2>3. /\ result'.kind = "ok" <=> Accepts(op, response.code) /\ Supplies(op, response)
        /\ result'.kind = "panic" =>
             /\ Accepts(op, response.code) /\ ~Supplies(op, response)
             /\ Calls[op].needs # "data"
    <3>1. CASE ReturnError
      BY <3>1 DEF ReturnError, Return, Result
    <3>2. CASE ReturnOK
      BY <3>2 DEF ReturnOK, Return, Result
    <3>3. CASE ReturnMissing
      BY <3>3 DEF ReturnMissing, Return, Result
    <3>4. QED
      BY <1>8, <3>1, <3>2, <3>3 DEF Handle
  <2>4. Calls[op].needs \in {"nothing", "body", "data", "untested data"}
    BY DataNeeded, Zenon DEF Types, TypeOK
  <2>5. result'.kind = "panic" =>
          Accepts(op, response.code) /\ ~response.holds /\ Calls[op].needs = "untested data"
    BY <2>3, <2>4 DEF Supplies
  <2>6. Decodes(op, answer) /\ response = Response(answer.code, Holds(op, answer))
    BY <2>2, Zenon
  <2>7. QED
    BY <2>1, <2>2, <2>3, <2>5, <2>6 DEF Accepts, Supplies, Holds, Decodes
<1>9. QED
  BY <1>1, <1>2, <1>3, <1>4, <1>5, <1>6, <1>7, <1>8, ByWire DEF Moves, Stays

IInv ==
  /\ Types /\ FlowInv /\ PlaceInv /\ AnswerInv /\ EffectInv

LEMMA InitialInv == ExchangeInit => IInv
<1> SUFFICES ASSUME ExchangeInit PROVE IInv
  OBVIOUS
<1>1. Types
  BY InitialTypes
<1>2. wire.phase = "idle" /\ performed = 0 /\ response = NoResponse /\ result.kind = "none"
  BY DEF ExchangeInit, Init, NoRequest, NoResult, Result
<1>3. QED
  BY <1>1, <1>2 DEF IInv, FlowInv, PlaceInv, AnswerInv, EffectInv

LEMMA InductiveStep == IInv /\ [ExchangeNext]_exchangeVars => IInv'
BY TypesStep, FlowStep, PlaceStep, AnswerStep, EffectStep DEF IInv

LEMMA Invariance == ExchangeSpec => []IInv
BY InitialInv, InductiveStep, PTL DEF ExchangeSpec

-----------------------------------------------------------------------------
(* Theorems. *)

(* Every variable of the exchange has its type: whatever is answered, an   *)
(* error is one of the sentinels or none.                                  *)
THEOREM TypesCorrect == ExchangeSpec => []ExchangeTypeOK
<1>1. IInv => ExchangeTypeOK
  BY DEF IInv, Types, WireTypeOK, ExchangeTypeOK, Sent, Methods
<1>2. QED
  BY <1>1, Invariance, PTL

(* To its caller an exchange is one handled response, or one error.        *)
THEOREM HandlingImplemented == ExchangeSpec => ImplementsHandling
<1>1. ExchangeInit => Init
  BY DEF ExchangeInit
<1>2. IInv /\ [ExchangeNext]_exchangeVars => [Next]_vars
  <2> SUFFICES ASSUME IInv, [ExchangeNext]_exchangeVars PROVE [Next]_vars
    OBVIOUS
  <2>1. CASE Send \/ FollowRedirect \/ ServiceAnswers \/ Repeat \/ Cancel
    BY <2>1 DEF Send, FollowRedirect, ServiceAnswers, Repeat, Cancel
  <2>2. CASE RefuseNilRequest
    BY <2>2 DEF RefuseNilRequest, Next
  <2>3. CASE Fails
    BY <2>3 DEF Fails, ConnectionFails, Abort, DecodingFails, Next
  <2>4. CASE Parse
    <3>1. response = NoResponse /\ result = NoResult
      BY <2>4 DEF Parse, IInv, FlowInv
    <3>2. answer.code \in StatusCodes /\ Holds(op, answer) \in BOOLEAN
      BY <2>4, HoldsType DEF Parse, IInv, Types, AnswerThere, WireTypeOK
    <3>3. Respond
      BY <2>4, <3>1, <3>2 DEF Parse, Respond
    <3>4. QED
      BY <3>3 DEF Next
  <2>5. CASE Handle
    BY <2>5 DEF Handle, Next
  <2>6. CASE UNCHANGED exchangeVars
    BY <2>6 DEF exchangeVars
  <2>7. QED
    BY <2>1, <2>2, <2>3, <2>4, <2>5, <2>6, ByWire DEF Moves, Stays
<1>3. QED
  BY <1>1, <1>2, Invariance, PTL DEF ExchangeSpec, ImplementsHandling, Spec

(* With the refinement, what is proved of ResponseHandling is true of      *)
(* calls on the wire: an error names its cause, whatever answers,          *)
(* redirects and failures the call has met.                                *)
THEOREM SentinelsTrueOnWire == ExchangeSpec => []SentinelsAreTruthful
BY HandlingImplemented, SentinelsTrue, PTL DEF ImplementsHandling

(* And a token that was rejected is reported so.                           *)
THEOREM RejectionsReportedOnWire == ExchangeSpec => []RejectedTokenIsUnauthorized
BY HandlingImplemented, RejectionsReported, PTL DEF ImplementsHandling

(* No failure passes for a success.                                        *)
THEOREM FailuresShow == ExchangeSpec => []NoSilentFailure
BY HandlingImplemented, SuccessHadAnswer, PTL DEF ImplementsHandling

(* An operation that changes something by another method than GET is       *)
(* performed at most once by a call, whatever the redirects and the        *)
(* repetitions.                                                            *)
THEOREM EffectsOnce == ExchangeSpec => []EffectsHappenOnce
<1>1. IInv => EffectsHappenOnce
  BY DEF IInv, EffectInv, EffectsHappenOnce, Types, WireTypeOK
<1>2. QED
  BY <1>1, Invariance, PTL

(* What was done and answered as documented is reported as done.           *)
THEOREM DoneReported == ExchangeSpec => []DoneIsReportedDone
<1>1. IInv => DoneIsReportedDone
  <2>0. NoResult.kind = "none"
    BY DEF NoResult, Result
  <2> SUFFICES ASSUME IInv, wire.phase = "parsed", op # "HandleWebhook",
                      answer.code \in DocumentedSuccess(op),
                      Calls[op].needs \in {"data", "untested data"} =>
                        answer.body = "data"
                        \/ (answer.code \in Codes3xx /\ Holds(op, answer)),
                      result # NoResult
               PROVE  result.kind = "ok"
    BY <2>0, Zenon DEF DoneIsReportedDone
  <2>1. response.code = answer.code /\ (Holds(op, answer) => response.holds)
    <3>1. response = Response(answer.code, Holds(op, answer))
      BY Zenon DEF IInv, FlowInv
    <3>2. PICK h \in BOOLEAN : h = Holds(op, answer)
      BY HoldsType, Zenon
    <3>3. response = Response(answer.code, h)
      BY <3>1, <3>2, Zenon
    <3>4. response.code = answer.code /\ response.holds = h
      BY <3>3 DEF Response
    <3>5. QED
      BY <3>2, <3>4, Zenon
  <2>2. op \in Operations
    BY DEF IInv, Types, TypeOK
  <2>3. Accepts(op, response.code)
    BY <2>1, <2>2, DocumentedAccepted DEF Accepts
  <2>4. Supplies(op, response)
    <3>1. CASE Calls[op].needs \in {"nothing", "body"}
      BY <3>1 DEF Supplies
    <3>2. CASE Calls[op].needs \in {"data", "untested data"}
      <4>1. CASE answer.code \in Codes3xx /\ Holds(op, answer)
        BY <2>1, <4>1 DEF Supplies
      <4>2. CASE answer.body = "data" /\ answer.code \in Codes3xx
        <5>1. Holds(op, answer)
          BY <4>2, <2>2, TableFacts DEF Holds, IInv, AnswerInv, CanAnswer
        <5>2. QED
          BY <2>1, <5>1 DEF Supplies
      <4>3. CASE answer.body = "data" /\ answer.code \notin Codes3xx
        <5>1. answer.code \notin {302, 307}
          BY <4>3 DEF Codes3xx
        <5>2. answer.code \in Decoded[op]
          BY <5>1, <3>2, <2>2, DocumentedDecoded
        <5>3. QED
          BY <2>1, <4>3, <5>2 DEF Supplies, Holds
      <4>4. QED
        BY <3>2, <4>1, <4>2, <4>3
    <3>3. QED
      BY <3>1, <3>2, <2>2, TableFacts
  <2>5. QED
    BY <2>3, <2>4 DEF IInv, FlowInv
<1>2. QED
  BY <1>1, Invariance, PTL

LEMMA OkFacts ==
  ASSUME IInv, result.kind = "ok"
  PROVE  /\ wire.phase = "parsed" /\ op \in Operations
         /\ response.code = answer.code /\ answer.code \in Calls[op].codes
         /\ Calls[op].needs \notin {"nothing", "body"} => Holds(op, answer)
         /\ CanAnswer(answer.code, answer.body, answer.location)
<1>1. wire.phase = "parsed" /\ result # NoResult /\ op \in Operations
  BY DEF IInv, FlowInv, NoResult, Result, Types, TypeOK
<1>2. Accepts(op, response.code) /\ Supplies(op, response)
  BY <1>1 DEF IInv, FlowInv
<1>3. response = Response(answer.code, Holds(op, answer))
  BY <1>1, Zenon DEF IInv, FlowInv
<1>4. PICK h \in BOOLEAN : h = Holds(op, answer)
  BY HoldsType, Zenon
<1>5. response = Response(answer.code, h)
  BY <1>3, <1>4, Zenon
<1>6. response.code = answer.code /\ response.holds = h
  BY <1>5 DEF Response
<1>7. Calls[op].needs \notin {"nothing", "body"} => h
  BY <1>2, <1>6 DEF Supplies
<1>8. CanAnswer(answer.code, answer.body, answer.location)
  BY <1>1 DEF IInv, AnswerInv
<1>9. Calls[op].needs \notin {"nothing", "body"} => Holds(op, answer)
  BY <1>4, <1>7, Zenon
<1>10. answer.code \in Calls[op].codes
  BY <1>2, <1>6 DEF Accepts
<1>11. QED
  BY <1>1, <1>6, <1>8, <1>9, <1>10, Zenon

(* A success was performed by the service, but for the operations that a   *)
(* page at the end of a followed redirect can make believe.                *)
THEOREM SuccessPerformed == ExchangeSpec => []SuccessMeansPerformed
<1>1. IInv => SuccessMeansPerformed
  <2> SUFFICES ASSUME IInv, result.kind = "ok", ~CanBeMisled(op)
               PROVE  performed > 0
    BY DEF SuccessMeansPerformed
  <2>1. /\ wire.phase = "parsed" /\ op \in Operations
        /\ answer.code \in Calls[op].codes
        /\ Calls[op].needs \notin {"nothing", "body"} => Holds(op, answer)
        /\ CanAnswer(answer.code, answer.body, answer.location)
    BY OkFacts
  <2>2. AtHandler /\ (answer.code \in 200..299
                      \/ (answer.code \in Codes3xx /\ answer.body = "data"))
          => performed > 0
    BY <2>1 DEF IInv, AnswerInv
  <2>3. CASE answer.code \in 200..299
    <3> SUFFICES ASSUME ~AtHandler PROVE FALSE
      BY <2>2, <2>3
    <3>1. answer.code = 200
      BY <2>1, <2>3 DEF CanAnswer
    <3>2. ~client.capture
      BY <2>1 DEF IInv, PlaceInv, Captures
    <3>3. QED
      BY <2>1, <3>1, <3>2 DEF CanBeMisled
  <2>4. CASE answer.code \notin 200..299
    <3>1. answer.code \in {302, 307} /\ op \in Capturing \cup {"Login"}
      BY <2>1, <2>4, SuccessCodes
    <3>2. op \in {"Login", "ValidateOTP"}
      BY <3>1 DEF Capturing, CanBeMisled
    <3>3. answer.body = "data" /\ answer.code \in Codes3xx
      <4>1. Calls[op].needs = "data"
        BY <2>1, <3>2, DataNeeded, Zenon
      <4>2. answer.code \in Codes3xx
        BY <3>1 DEF Codes3xx
      <4>3. QED
        BY <2>1, <3>2, <4>1, <4>2 DEF Holds
    <3>4. AtHandler
      BY <2>1, <3>3 DEF CanAnswer
    <3>5. QED
      BY <2>2, <3>3, <3>4
  <2>5. QED
    BY <2>3, <2>4
<1>2. QED
  BY <1>1, Invariance, PTL
(* An operation that dereferences its data untested panics only on a 200   *)
(* whose body is no JSON.                                                  *)
THEOREM PanicsNeedForeignBodies == ExchangeSpec => []PanicsAreForeignBodies
<1>1. IInv => PanicsAreForeignBodies
  <2> SUFFICES ASSUME IInv, result.kind = "panic"
               PROVE  op \in Untested /\ answer.code = 200 /\ answer.body = "other"
    BY DEF PanicsAreForeignBodies, Untested
  <2>1. /\ wire.phase = "parsed" /\ op \in Operations
        /\ Accepts(op, response.code) /\ ~response.holds
        /\ Calls[op].needs = "untested data" /\ Decodes(op, answer)
    BY DEF IInv, FlowInv, Types, TypeOK
  <2>2. op \in Untested /\ Calls[op].codes \subseteq {200}
    BY <2>1, UntestedCalls, Zenon
  <2>3. response.code = answer.code /\ ~Holds(op, answer)
    <3>1. PICK h \in BOOLEAN : h = Holds(op, answer)
      BY HoldsType, Zenon
    <3>2. response = Response(answer.code, h)
      BY <2>1, <3>1, Zenon DEF IInv, FlowInv
    <3>3. response.code = answer.code /\ response.holds = h
      BY <3>2 DEF Response
    <3>4. QED
      BY <2>1, <3>1, <3>3, Zenon
  <2>4. answer.code = 200
    BY <2>1, <2>2, <2>3 DEF Accepts
  <2>5. answer.code \in Decoded[op]
    <3>1. \A o \in Untested : DocumentedSuccess(o) = {200}
      BY DEF Untested, DocumentedSuccess, Creations, Removals
    <3>2. answer.code \in DocumentedSuccess(op) /\ answer.code \notin {302, 307}
      BY <2>2, <2>4, <3>1
    <3>3. Calls[op].needs \in {"data", "untested data"}
      BY <2>1
    <3>4. QED
      BY <2>1, <3>2, <3>3, DocumentedDecoded, Zenon
  <2>6. answer.body # "garbled" /\ answer.body # "data"
    <3>1. answer.body # "garbled"
      BY <2>1, <2>5, Zenon DEF Decodes
    <3>2. answer.code \notin Codes3xx
      BY <2>4 DEF Codes3xx
    <3>3. answer.body # "data"
      BY <2>3, <2>5, <3>2, Zenon DEF Holds
    <3>4. QED
      BY <3>1, <3>3
  <2>7. answer.body \in {"data", "garbled", "other"}
    BY <2>1 DEF IInv, Types, WireTypeOK, AnswerThere
  <2>8. QED
    BY <2>2, <2>4, <2>6, <2>7
<1>2. QED
  BY <1>1, Invariance, PTL
=============================================================================
