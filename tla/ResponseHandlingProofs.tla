----------------------- MODULE ResponseHandlingProofs -----------------------
(***************************************************************************)
(* Proofs about ResponseHandling and the tables it reads.  The tables are  *)
(* built from rows by :>, Each and @@: what holds of every row holds of    *)
(* the table, so that each service is one step.                            *)
(***************************************************************************)
EXTENDS ResponseHandling, OperationTablesProofs

(* What the entries of a table of messages have in common: a message wraps *)
(* nothing or the sentinel of its status, and that of 401 wraps its        *)
(* sentinel.                                                               *)
CauseOf(code) == IF code = 422 THEN "ErrBadRequest" ELSE SentinelOf(code)

TruthfulAt(code, error) ==
  /\ error \in Errors
  /\ error # Plain => error = CauseOf(code)
  /\ code = 401 => error = "ErrUnauthorized"

Truthful(f) == \A code \in DOMAIN f : TruthfulAt(code, f[code])

AllTruthful(table) == \A o \in DOMAIN table : Truthful(table[o])

LEMMA SentinelEntries ==
  /\ Maps(SentinelMap, 400, "ErrBadRequest") /\ Maps(SentinelMap, 401, "ErrUnauthorized")
  /\ Maps(SentinelMap, 403, "ErrForbidden") /\ Maps(SentinelMap, 404, "ErrNotFound")
BY RowMaps, RowLacks, MergedMaps, MergedLacks, SMTT(60) DEF SentinelMap

LEMMA SentinelValues ==
  /\ SentinelOf(400) = "ErrBadRequest" /\ SentinelOf(401) = "ErrUnauthorized"
  /\ SentinelOf(403) = "ErrForbidden" /\ SentinelOf(404) = "ErrNotFound"
  /\ \A code : SentinelOf(code) \in Errors
<1>1. \A code : SentinelOf(code) \in Errors
  <2> TAKE code
  <2>1. CASE code \in DOMAIN SentinelMap
    BY <2>1, Zenon DEF SentinelOf, Errors
  <2>2. CASE code \notin DOMAIN SentinelMap
    BY <2>2, Zenon DEF SentinelOf, Errors
  <2>3. QED
    BY <2>1, <2>2, Zenon
<1>2. ASSUME NEW code, NEW error, Maps(SentinelMap, code, error)
      PROVE  SentinelOf(code) = error
  <2>1. code \in DOMAIN SentinelMap /\ SentinelMap[code] = error
    BY <1>2, Zenon DEF Maps
  <2>2. SentinelOf(code) = SentinelMap[code]
    BY <2>1, Zenon DEF SentinelOf
  <2>3. QED
    BY <2>1, <2>2, Zenon
<1>3. QED
  BY <1>1, <1>2, SentinelEntries

LEMMA SentinelsAreErrors ==
  /\ "ErrUnauthorized" \in Errors /\ "ErrForbidden" \in Errors
  /\ "ErrNotFound" \in Errors /\ "ErrBadRequest" \in Errors /\ Plain \in Errors
<1>1. Plain \in Errors
  BY Zenon DEF Errors
<1>2. QED
  BY <1>1, SentinelValues

LEMMA RowIsTruthful ==
  ASSUME NEW code, NEW error, TruthfulAt(code, error)
  PROVE  Truthful(code :> error)
<1> SUFFICES ASSUME NEW c \in DOMAIN (code :> error)
             PROVE  TruthfulAt(c, (code :> error)[c])
  BY Zenon DEF Truthful
<1>1. c = code /\ (code :> error)[c] = error
  BY RowEntry, Zenon
<1>2. QED
  BY <1>1, Zenon

LEMMA PlainIsTruthful ==
  ASSUME NEW codes, 401 \notin codes
  PROVE  Truthful(PlainAt(codes))
<1> SUFFICES ASSUME NEW c \in DOMAIN PlainAt(codes)
             PROVE  TruthfulAt(c, PlainAt(codes)[c])
  BY Zenon DEF Truthful
<1>1. c \in codes /\ PlainAt(codes)[c] = Plain
  BY PlainEntry, Zenon
<1>2. c # 401
  BY <1>1, Zenon
<1>3. TruthfulAt(c, Plain)
  BY <1>2, SentinelsAreErrors, Zenon DEF TruthfulAt
<1>4. QED
  BY <1>1, <1>3, Zenon

LEMMA MergedTruthful ==
  ASSUME NEW f, NEW g, Truthful(f), Truthful(g)
  PROVE  Truthful(f @@ g)
<1> SUFFICES ASSUME NEW c \in DOMAIN (f @@ g)
             PROVE  TruthfulAt(c, (f @@ g)[c])
  BY Zenon DEF Truthful
<1>1. \/ c \in DOMAIN f /\ (f @@ g)[c] = f[c]
      \/ c \in DOMAIN g /\ (f @@ g)[c] = g[c]
  BY MergedEntry, Zenon
<1>2. /\ c \in DOMAIN f => TruthfulAt(c, f[c])
      /\ c \in DOMAIN g => TruthfulAt(c, g[c])
  BY Zenon DEF Truthful
<1>3. QED
  BY <1>1, <1>2, Zenon

(* The rows that operations are given.                                    *)
LEMMA RowsAreTruthful ==
  /\ Truthful(Auth) /\ Truthful(Bad) /\ Truthful(Missing) /\ Truthful(Denied)
  /\ Truthful(422 :> "ErrBadRequest")
<1>1. /\ TruthfulAt(400, "ErrBadRequest") /\ TruthfulAt(401, "ErrUnauthorized")
      /\ TruthfulAt(403, "ErrForbidden") /\ TruthfulAt(404, "ErrNotFound")
      /\ TruthfulAt(422, "ErrBadRequest")
  BY SentinelValues, SentinelsAreErrors DEF TruthfulAt, CauseOf
<1>2. Truthful(Auth) /\ Truthful(Bad)
  BY <1>1, RowIsTruthful, Zenon DEF Auth, Bad
<1>3. Truthful(Missing) /\ Truthful(Denied)
  BY <1>1, RowIsTruthful, Zenon DEF Missing, Denied
<1>4. QED
  BY <1>1, <1>2, <1>3, RowIsTruthful, Zenon

LEMMA PlainRowsAreTruthful ==
  /\ Truthful(PlainAt({400})) /\ Truthful(PlainAt({403}))
  /\ Truthful(PlainAt({404})) /\ Truthful(PlainAt({409})) /\ Truthful(PlainAt({500}))
  /\ Truthful(PlainAt({400, 403})) /\ Truthful(PlainAt({400, 404}))
  /\ Truthful(PlainAt({400, 409})) /\ Truthful(PlainAt({400, 500}))
  /\ Truthful(PlainAt({403, 404})) /\ Truthful(PlainAt({404, 409}))
  /\ Truthful(PlainAt({404, 500})) /\ Truthful(PlainAt({400, 403, 404}))
  /\ Truthful(PlainAt({400, 404, 409}))
BY PlainIsTruthful, SMTT(60)

LEMMA TablesMerge ==
  ASSUME NEW t, NEW u, AllTruthful(t), AllTruthful(u)
  PROVE  AllTruthful(t @@ u)
<1> SUFFICES ASSUME NEW o \in DOMAIN (t @@ u)
             PROVE  Truthful((t @@ u)[o])
  BY Zenon DEF AllTruthful
<1>1. \/ o \in DOMAIN t /\ (t @@ u)[o] = t[o]
      \/ o \in DOMAIN u /\ (t @@ u)[o] = u[o]
  BY MergedEntry, Zenon
<1>2. /\ o \in DOMAIN t => Truthful(t[o])
      /\ o \in DOMAIN u => Truthful(u[o])
  BY Zenon DEF AllTruthful
<1>3. QED
  BY <1>1, <1>2, Zenon

LEMMA TableOfRow ==
  ASSUME NEW o, NEW f, Truthful(f)
  PROVE  AllTruthful(o :> f)
<1> SUFFICES ASSUME NEW p \in DOMAIN (o :> f)
             PROVE  Truthful((o :> f)[p])
  BY Zenon DEF AllTruthful
<1>1. (o :> f)[p] = f
  BY RowEntry, Zenon
<1>2. QED
  BY <1>1, Zenon

LEMMA TableOfEach ==
  ASSUME NEW S, NEW f, Truthful(f)
  PROVE  AllTruthful(Each(S, f))
BY Zenon DEF AllTruthful, Each

LEMMA ProfileTruthful == AllTruthful(ProfileMessages)
BY RowsAreTruthful, PlainRowsAreTruthful, MergedTruthful, TablesMerge,
   TableOfRow, TableOfEach DEF ProfileMessages

LEMMA BillingTruthful == AllTruthful(BillingMessages)
BY RowsAreTruthful, PlainRowsAreTruthful, MergedTruthful, TablesMerge,
   TableOfRow, TableOfEach DEF BillingMessages

LEMMA SocialTruthful == AllTruthful(SocialMessages)
BY RowsAreTruthful, PlainRowsAreTruthful, MergedTruthful, TablesMerge,
   TableOfRow, TableOfEach DEF SocialMessages

LEMMA QuotaTruthful == AllTruthful(QuotaServiceMessages)
BY RowsAreTruthful, PlainRowsAreTruthful, MergedTruthful, TablesMerge,
   TableOfRow, TableOfEach DEF QuotaServiceMessages

LEMMA AdminBillingTruthful == AllTruthful(AdminBillingMessages)
BY RowsAreTruthful, PlainRowsAreTruthful, MergedTruthful, TablesMerge,
   TableOfRow, TableOfEach DEF AdminBillingMessages

LEMMA ServicesTruthful ==
  /\ AllTruthful(WebsiteMessages) /\ AllTruthful(ProfilingMessages)
  /\ AllTruthful(PlatformDomainMessages) /\ AllTruthful(SocialProviderMessages)
  /\ AllTruthful(UserMessages) /\ AllTruthful(MetaMessages)
BY RowsAreTruthful, PlainRowsAreTruthful, MergedTruthful, TablesMerge,
   TableOfRow, TableOfEach
   DEF WebsiteMessages, ProfilingMessages, PlatformDomainMessages, SocialProviderMessages,
       UserMessages, MetaMessages

LEMMA MessagesTruthful == AllTruthful(Messages)
BY ProfileTruthful, BillingTruthful, SocialTruthful, QuotaTruthful, AdminBillingTruthful,
   ServicesTruthful, TablesMerge
   DEF Messages, AccountMessages, AdminMessages

-----------------------------------------------------------------------------
(* The operations: what the calls of every service have in common.         *)

Redirected == {"Login", "ValidateOTP", "SocialLogin", "LinkSocialProvider"}

Untested == {"GetAccount", "GetPermissions", "quota.ListUserConfigs"}

SoundCall(o, c) ==
  /\ c.errors \in {"table", "validated"} \/ o \in {"ListAPIKeys", "DeleteAPIKey"}
  /\ c.codes \subseteq 200..299 \cup {302, 307}
  /\ 302 \in c.codes => o \in Redirected
  /\ 307 \in c.codes => o = "SocialLogout"
  /\ c.needs \in {"nothing", "body", "data", "untested data"}
  /\ c.needs = "untested data" => o \in Untested /\ c.codes \subseteq {200}

Sound(table) == \A o \in DOMAIN table : SoundCall(o, table[o])

\* A call that is sound for any operation.
Ordinary(c) == \A o : SoundCall(o, c)

LEMMA SoundMerge ==
  ASSUME NEW t, NEW u, Sound(t), Sound(u)
  PROVE  Sound(t @@ u)
<1> SUFFICES ASSUME NEW o \in DOMAIN (t @@ u)
             PROVE  SoundCall(o, (t @@ u)[o])
  BY Zenon DEF Sound
<1>1. \/ o \in DOMAIN t /\ (t @@ u)[o] = t[o]
      \/ o \in DOMAIN u /\ (t @@ u)[o] = u[o]
  BY MergedEntry, Zenon
<1>2. /\ o \in DOMAIN t => SoundCall(o, t[o])
      /\ o \in DOMAIN u => SoundCall(o, u[o])
  BY Zenon DEF Sound
<1>3. QED
  BY <1>1, <1>2, Zenon

LEMMA SoundRow ==
  ASSUME NEW o, NEW c, SoundCall(o, c)
  PROVE  Sound(o :> c)
<1> SUFFICES ASSUME NEW p \in DOMAIN (o :> c)
             PROVE  SoundCall(p, (o :> c)[p])
  BY Zenon DEF Sound
<1>1. p = o /\ (o :> c)[p] = c
  BY RowEntry, Zenon
<1>2. QED
  BY <1>1, Zenon

LEMMA OrdinaryRow ==
  ASSUME NEW o, NEW c, Ordinary(c)
  PROVE  Sound(o :> c)
BY SoundRow, Zenon DEF Ordinary

LEMMA OrdinaryEach ==
  ASSUME NEW S, NEW c, Ordinary(c)
  PROVE  Sound(Each(S, c))
BY Zenon DEF Sound, Each, Ordinary

LEMMA OrdinaryCalls ==
  /\ Ordinary(Status({200})) /\ Ordinary(Status({204}))
  /\ Ordinary(Status({200, 201})) /\ Ordinary(Status({200, 204}))
  /\ Ordinary(Raw({200})) /\ Ordinary(Data({200}))
  /\ Ordinary(Validated) /\ Ordinary(Created)
BY DEF Ordinary, SoundCall, Status, Raw, Data, Validated, Created, Call

LEMMA PeculiarCalls ==
  /\ SoundCall("Login", Data({200, 302}))
  /\ \A o \in {"ValidateOTP", "SocialLogin", "LinkSocialProvider"} :
       SoundCall(o, Data({302}))
  /\ SoundCall("SocialLogout", Status({307}))
  /\ SoundCall("ListAPIKeys", Bare("data"))
  /\ SoundCall("DeleteAPIKey", Bare("nothing"))
  /\ \A o \in Untested : SoundCall(o, Unchecked)
BY DEF Redirected, Untested, SoundCall, Status, Data, Bare, Unchecked, Call

LEMMA PeculiarRows ==
  /\ Sound("Login" :> Data({200, 302})) /\ Sound("ValidateOTP" :> Data({302}))
  /\ Sound("SocialLogin" :> Data({302})) /\ Sound("LinkSocialProvider" :> Data({302}))
  /\ Sound("SocialLogout" :> Status({307}))
  /\ Sound("ListAPIKeys" :> Bare("data")) /\ Sound("DeleteAPIKey" :> Bare("nothing"))
  /\ Sound("GetAccount" :> Unchecked) /\ Sound("GetPermissions" :> Unchecked)
  /\ Sound("quota.ListUserConfigs" :> Unchecked)
BY PeculiarCalls, SoundRow DEF Untested

LEMMA AuthSound ==
  Sound(AuthCalls) /\ Sound(KeyCalls) /\ Sound(OperationCalls)
BY PeculiarRows, OrdinaryCalls, OrdinaryRow, SoundMerge
   DEF AuthCalls, KeyCalls, OperationCalls

LEMMA ProfileSound ==
  Sound(ProfileCalls) /\ Sound(QuotaCalls) /\ Sound(CheckoutCalls)
BY PeculiarRows, OrdinaryCalls, OrdinaryRow, SoundMerge
   DEF ProfileCalls, QuotaCalls, CheckoutCalls

LEMMA SocialSound ==
  Sound(SubscriptionCalls) /\ Sound(GatewayCalls) /\ Sound(SocialCalls)
BY PeculiarRows, OrdinaryCalls, OrdinaryRow, SoundMerge
   DEF SubscriptionCalls, GatewayCalls, SocialCalls

LEMMA QuotaSound == Sound(PlanCalls) /\ Sound(AllowanceCalls) /\ Sound(UsageCalls)
BY PeculiarRows, OrdinaryCalls, OrdinaryRow, OrdinaryEach, SoundMerge
   DEF PlanCalls, AllowanceCalls, UsageCalls

LEMMA PricingSound ==
  Sound(CreditCalls) /\ Sound(PriceLineCalls) /\ Sound(PricingPlanCalls)
BY OrdinaryCalls, OrdinaryRow, OrdinaryEach, SoundMerge
   DEF CreditCalls, PriceLineCalls, PricingPlanCalls

LEMMA SubscriberSound ==
  Sound(PriceLinePlanCalls) /\ Sound(SubscriberCalls) /\ Sound(WebsiteCalls)
BY OrdinaryCalls, OrdinaryRow, OrdinaryEach, SoundMerge
   DEF PriceLinePlanCalls, SubscriberCalls, WebsiteCalls

LEMMA ServicesSound ==
  /\ Sound(ProfilingCalls) /\ Sound(PlatformDomainCalls)
  /\ Sound(SocialProviderCalls) /\ Sound(UserCalls) /\ Sound(MetaCalls)
BY OrdinaryCalls, OrdinaryRow, OrdinaryEach, SoundMerge
   DEF ProfilingCalls, PlatformDomainCalls, SocialProviderCalls, UserCalls, MetaCalls

LEMMA CallsSound == Sound(Calls)
<1>1. Sound(AccountCalls)
  BY AuthSound, ProfileSound, SocialSound, SoundMerge DEF AccountCalls
<1>2. Sound(AdminCalls)
  BY QuotaSound, PricingSound, SubscriberSound, ServicesSound, SoundMerge DEF AdminCalls
<1>3. QED
  BY <1>1, <1>2, ServicesSound, SoundMerge DEF Calls

(* The operations that compare the status themselves.                      *)
LEMMA KeysCompare ==
  {"ListAPIKeys", "DeleteAPIKey"} \subseteq DOMAIN KeyCalls \ {"CreateAPIKey"}
<1>1. \E v : Maps(KeyCalls, "ListAPIKeys", v)
  BY RowMaps, RowLacks, MergedMaps, MergedLacks DEF KeyCalls
<1>2. \E v : Maps(KeyCalls, "DeleteAPIKey", v)
  BY RowMaps, RowLacks, MergedMaps, MergedLacks DEF KeyCalls
<1>3. "ListAPIKeys" \in DOMAIN KeyCalls /\ "DeleteAPIKey" \in DOMAIN KeyCalls
  BY <1>1, <1>2, Zenon DEF Maps
<1>4. QED
  BY <1>3

LEMMA SentinelOf422 == SentinelOf(422) = Plain
<1>1. Lacks(SentinelMap, 422)
  BY RowLacks, MergedLacks DEF SentinelMap
<1>2. 422 \notin DOMAIN SentinelMap
  BY <1>1, Zenon DEF Lacks
<1>3. QED
  BY <1>2, Zenon DEF SentinelOf

(* What a call of an operation may be.                                     *)
LEMMA CallFacts ==
  ASSUME NEW o \in Operations
  PROVE  /\ Calls[o].errors \in {"table", "validated"}
              \/ o \in DOMAIN KeyCalls \ {"CreateAPIKey"}
         /\ \A c \in Calls[o].codes : c \in 200..299 \/ c \in {302, 307}
         /\ 302 \in Calls[o].codes => o \in Capturing \cup {"Login"}
         /\ 307 \in Calls[o].codes => o = "SocialLogout"
         /\ Calls[o].needs \in {"nothing", "body", "data", "untested data"}
<1>1. SoundCall(o, Calls[o])
  BY CallsSound, Zenon DEF Sound, Operations
<1>2. /\ Calls[o].errors \in {"table", "validated"} \/ o \in {"ListAPIKeys", "DeleteAPIKey"}
      /\ 302 \in Calls[o].codes => o \in Redirected
      /\ 307 \in Calls[o].codes => o = "SocialLogout"
      /\ Calls[o].needs \in {"nothing", "body", "data", "untested data"}
  BY <1>1, Zenon DEF SoundCall
<1>3. o \in {"ListAPIKeys", "DeleteAPIKey"} => o \in DOMAIN KeyCalls \ {"CreateAPIKey"}
  BY KeysCompare
<1>4. o \in Redirected => o \in Capturing \cup {"Login"}
  BY DEF Redirected, Capturing
<1>5. \A c \in Calls[o].codes : c \in 200..299 \/ c \in {302, 307}
  <2>1. Calls[o].codes \subseteq 200..299 \cup {302, 307}
    BY <1>1, Zenon DEF SoundCall
  <2>2. QED
    BY <2>1
<1>6. QED
  BY <1>2, <1>3, <1>4, <1>5, Zenon

(* The operations that do not test their data.                             *)
LEMMA UntestedCalls ==
  ASSUME NEW o \in Operations, Calls[o].needs = "untested data"
  PROVE  o \in Untested /\ Calls[o].codes \subseteq {200}
<1>1. SoundCall(o, Calls[o])
  BY CallsSound, Zenon DEF Sound, Operations
<1>2. QED
  BY <1>1, Zenon DEF SoundCall

LEMMA RejectionNotAccepted ==
  ASSUME NEW o \in Operations PROVE ~Accepts(o, 401)
<1>1. \A c \in Calls[o].codes : c \in 200..299 \/ c \in {302, 307}
  BY CallFacts, Zenon
<1>2. 401 \notin Calls[o].codes
  BY <1>1
<1>3. QED
  BY <1>2, Zenon DEF Accepts

(* The error of a status: one that errors.Is can name, of that status if   *)
(* it wraps a sentinel, and of a 401 if the operation looks at tables.     *)
LEMMA ErrorFacts ==
  ASSUME NEW o \in Operations, NEW code
  PROVE  /\ ErrorOf(o, code) \in Errors
         /\ ErrorOf(o, code) # Plain => ErrorOf(o, code) = CauseOf(code)
         /\ code = 401 /\ o \notin DOMAIN KeyCalls \ {"CreateAPIKey"} =>
              ErrorOf(o, code) = "ErrUnauthorized"
<1>1. CASE Calls[o].errors = "none"
  <2>1. ErrorOf(o, code) = Plain
    BY <1>1, Zenon DEF ErrorOf
  <2>2. o \in DOMAIN KeyCalls \ {"CreateAPIKey"}
    BY <1>1, CallFacts
  <2>3. QED
    BY <2>1, <2>2, SentinelsAreErrors
<1>2. CASE Calls[o].errors # "none" /\ Calls[o].errors = "validated" /\ code = 401
  <2>1. ErrorOf(o, code) = "ErrUnauthorized"
    BY <1>2, Zenon DEF ErrorOf
  <2>2. QED
    BY <1>2, <2>1, SentinelsAreErrors, SentinelValues DEF CauseOf
<1>3. CASE /\ Calls[o].errors # "none" /\ ~(Calls[o].errors = "validated" /\ code = 401)
           /\ o \in DOMAIN Messages /\ code \in DOMAIN Messages[o]
  <2>1. ErrorOf(o, code) = Messages[o][code]
    BY <1>3, Zenon DEF ErrorOf
  <2>2. TruthfulAt(code, Messages[o][code])
    BY <1>3, MessagesTruthful, Zenon DEF AllTruthful, Truthful
  <2>3. TruthfulAt(code, ErrorOf(o, code))
    BY <2>1, <2>2, Zenon
  <2>4. QED
    BY <2>3, Zenon DEF TruthfulAt
<1>4. CASE /\ Calls[o].errors # "none" /\ ~(Calls[o].errors = "validated" /\ code = 401)
           /\ ~(o \in DOMAIN Messages /\ code \in DOMAIN Messages[o])
  <2>1. ErrorOf(o, code) = SentinelOf(code)
    BY <1>4, Zenon DEF ErrorOf
  <2>2. QED
    BY <2>1, SentinelValues, SentinelOf422 DEF CauseOf
<1>5. QED
  BY <1>1, <1>2, <1>3, <1>4, Zenon

-----------------------------------------------------------------------------
(* The inductive invariant: a result is what the operation makes of the    *)
(* response, or of its absence.                                            *)

Answered == response # NoResponse /\ result # NoResult

ResultInv ==
  /\ response = NoResponse /\ result # NoResult =>
       result \in {Result("error", "ErrBadRequest"), Result("error", Plain)}
  /\ Answered /\ ~Accepts(op, response.code) =>
       result = Result("error", ErrorOf(op, response.code))
  /\ Answered /\ Accepts(op, response.code) /\ Supplies(op, response) =>
       result = Result("ok", Plain)
  /\ Answered /\ Accepts(op, response.code) /\ ~Supplies(op, response) =>
       result \in {Result("error", Plain), Result("panic", Plain)}

HandlingInv == TypeOK /\ ResultInv

LEMMA ResultFacts ==
  /\ \A kind, error : Result(kind, error).kind = kind /\ Result(kind, error).error = error
  /\ \A error \in Errors :
       /\ Result("error", error) \in [kind : {"none", "ok", "error", "panic"}, error : Errors]
       /\ Result("panic", error) \in [kind : {"none", "ok", "error", "panic"}, error : Errors]
       /\ Result("ok", error) \in [kind : {"none", "ok", "error", "panic"}, error : Errors]
       /\ Result("error", error) # NoResult
       /\ Result("panic", error) # NoResult /\ Result("ok", error) # NoResult
BY DEF Result, NoResult

LEMMA InitialHandling == Init => HandlingInv
<1> SUFFICES ASSUME Init PROVE HandlingInv
  OBVIOUS
<1>1. TypeOK
  BY SentinelsAreErrors DEF Init, TypeOK, NoResult, Result
<1>2. ResultInv
  BY DEF Init, ResultInv, Answered
<1>3. QED
  BY <1>1, <1>2 DEF HandlingInv

LEMMA HandlingStep == HandlingInv /\ [Next]_vars => HandlingInv'
<1> SUFFICES ASSUME HandlingInv, [Next]_vars PROVE HandlingInv'
  OBVIOUS
<1> USE DEF HandlingInv
<1>1. CASE RejectNilRequest
  <2>1. /\ result' = Result("error", "ErrBadRequest")
        /\ response = NoResponse /\ response' = NoResponse /\ op' = op
    BY <1>1 DEF RejectNilRequest
  <2>2. TypeOK'
    BY <2>1, ResultFacts, SentinelsAreErrors DEF TypeOK
  <2>3. QED
    BY <2>1, <2>2 DEF ResultInv, Answered
<1>2. CASE TransportFails
  <2>1. /\ result' = Result("error", Plain)
        /\ response = NoResponse /\ response' = NoResponse /\ op' = op
    BY <1>2 DEF TransportFails
  <2>2. TypeOK'
    BY <2>1, ResultFacts, SentinelsAreErrors DEF TypeOK
  <2>3. QED
    BY <2>1, <2>2 DEF ResultInv, Answered
<1>3. CASE Respond
  <2>1. result = NoResult /\ result' = NoResult /\ op' = op
    BY <1>3 DEF Respond
  <2>2. response' \in [code : StatusCodes, holds : BOOLEAN]
    BY <1>3 DEF Respond, Response
  <2>3. TypeOK'
    BY <2>1, <2>2 DEF TypeOK
  <2>4. QED
    BY <2>1, <2>3 DEF ResultInv, Answered
<1>4. CASE ReturnError
  <2>1. /\ result' = Result("error", ErrorOf(op, response.code)) /\ op' = op
        /\ response' = response /\ response # NoResponse /\ ~Accepts(op, response.code)
    BY <1>4 DEF ReturnError, Return
  <2>2. TypeOK'
    BY <2>1, ResultFacts, ErrorFacts DEF TypeOK
  <2>3. ~Accepts(op, response.code)' /\ response' # NoResponse
        /\ result' = Result("error", ErrorOf(op', response'.code))
    BY <2>1 DEF Accepts
  <2>4. ResultInv'
    BY <2>3 DEF ResultInv, Answered
  <2>5. QED
    BY <2>2, <2>4
<1>5. CASE ReturnOK
  <2>1. /\ result' = Result("ok", Plain) /\ op' = op /\ response' = response
        /\ response # NoResponse /\ Accepts(op, response.code) /\ Supplies(op, response)
    BY <1>5 DEF ReturnOK, Return
  <2>2. TypeOK'
    BY <2>1, ResultFacts, SentinelsAreErrors DEF TypeOK
  <2>3. /\ Accepts(op, response.code)' /\ Supplies(op, response)'
        /\ response' # NoResponse /\ result' = Result("ok", Plain)
    BY <2>1 DEF Accepts, Supplies
  <2>4. ResultInv'
    BY <2>3 DEF ResultInv, Answered
  <2>5. QED
    BY <2>2, <2>4
<1>6. CASE ReturnMissing
  <2>1. /\ result' \in {Result("error", Plain), Result("panic", Plain)}
        /\ op' = op /\ response' = response
        /\ response # NoResponse /\ Accepts(op, response.code) /\ ~Supplies(op, response)
    BY <1>6 DEF ReturnMissing, Return
  <2>2. TypeOK'
    BY <2>1, ResultFacts, SentinelsAreErrors DEF TypeOK
  <2>3. /\ Accepts(op, response.code)' /\ ~Supplies(op, response)'
        /\ response' # NoResponse /\ result' \in {Result("error", Plain), Result("panic", Plain)}
    BY <2>1 DEF Accepts, Supplies
  <2>4. ResultInv'
    BY <2>3 DEF ResultInv, Answered
  <2>5. QED
    BY <2>2, <2>4
<1>7. CASE UNCHANGED vars
  BY <1>7 DEF vars, TypeOK, ResultInv, Answered, Accepts, Supplies
<1>8. QED
  BY <1>1, <1>2, <1>3, <1>4, <1>5, <1>6, <1>7 DEF Next

LEMMA HandlingInvariance == Spec => []HandlingInv
BY InitialHandling, HandlingStep, PTL DEF Spec

-----------------------------------------------------------------------------
(* What the invariant says of a result: how it came about.                 *)
LEMMA ResultOrigin ==
  ASSUME HandlingInv, result.kind # "none"
  PROVE  \/ /\ response = NoResponse
            /\ result \in {Result("error", "ErrBadRequest"), Result("error", Plain)}
         \/ /\ response # NoResponse /\ response.code \in StatusCodes
            /\ ~Accepts(op, response.code)
            /\ result = Result("error", ErrorOf(op, response.code))
         \/ /\ response # NoResponse /\ Accepts(op, response.code)
            /\ Supplies(op, response) /\ result = Result("ok", Plain)
         \/ /\ response # NoResponse /\ Accepts(op, response.code)
            /\ result \in {Result("error", Plain), Result("panic", Plain)}
<1>1. result # NoResult
  BY DEF NoResult, Result
<1>2. response # NoResponse => response.code \in StatusCodes
  BY DEF HandlingInv, TypeOK
<1>3. QED
  BY <1>1, <1>2, Zenon DEF HandlingInv, ResultInv, Answered

(* Types are kept, for every set of status codes.                          *)
THEOREM HandlingTypes == Spec => []TypeOK
BY HandlingInvariance, PTL DEF HandlingInv

(* errors.Is finds in an error no sentinel but that of what caused it,     *)
(* through every table of messages, the map of sentinels and the look for  *)
(* a 401 of the validating functions.                                      *)
THEOREM SentinelsTrue == Spec => []SentinelsAreTruthful
<1>1. HandlingInv => SentinelsAreTruthful
  <2> SUFFICES ASSUME HandlingInv, result.kind = "error", result.error # Plain
               PROVE  result.error = Cause
    BY DEF SentinelsAreTruthful, Failed
  <2>1. op \in Operations
    BY DEF HandlingInv, TypeOK
  <2>2. CASE response = NoResponse
    <3>1. result \in {Result("error", "ErrBadRequest"), Result("error", Plain)}
      BY <2>2, ResultOrigin
    <3>2. result.error = "ErrBadRequest"
      BY <3>1, ResultFacts
    <3>3. QED
      BY <2>2, <3>2 DEF Cause
  <2>3. CASE response # NoResponse
    <3>1. result = Result("error", ErrorOf(op, response.code))
      BY <2>3, ResultOrigin, ResultFacts
    <3>2. result.error = ErrorOf(op, response.code)
      BY <3>1 DEF Result
    <3>3. result.error = CauseOf(response.code)
      BY <3>2, <2>1, ErrorFacts
    <3>4. QED
      BY <2>3, <3>3 DEF Cause, CauseOf
  <2>4. QED
    BY <2>2, <2>3
<1>2. QED
  BY <1>1, HandlingInvariance, PTL

(* Whatever operation meets a 401, and by whatever way it reports it, its  *)
(* caller is told so, but for the two that compare the status themselves.  *)
THEOREM RejectionsReported == Spec => []RejectedTokenIsUnauthorized
<1>1. HandlingInv => RejectedTokenIsUnauthorized
  <2> SUFFICES ASSUME HandlingInv, response.code = 401, result.kind = "error",
                      op \notin DOMAIN KeyCalls \ {"CreateAPIKey"}
               PROVE  result.error = "ErrUnauthorized"
    BY DEF RejectedTokenIsUnauthorized, Failed
  <2>1. op \in Operations
    BY DEF HandlingInv, TypeOK
  <2>2. response # NoResponse
    BY DEF NoResponse, Response
  <2>3. ~Accepts(op, response.code)
    BY <2>1, RejectionNotAccepted
  <2>4. result = Result("error", ErrorOf(op, response.code))
    BY <2>2, <2>3, ResultOrigin
  <2>5. result.error = ErrorOf(op, 401)
    BY <2>4, ResultFacts
  <2>6. QED
    BY <2>1, <2>5, ErrorFacts
<1>2. QED
  BY <1>1, HandlingInvariance, PTL

(* An operation without an error had an answer that is a success for it.   *)
THEOREM SuccessHadAnswer == Spec => []NoSilentFailure
<1>1. HandlingInv => NoSilentFailure
  <2> SUFFICES ASSUME HandlingInv, result.kind = "ok"
               PROVE  \/ response.code \in 200..299
                      \/ response.code \in {302, 307} /\ op \in Capturing \cup {"Login"}
    BY DEF NoSilentFailure
  <2>1. op \in Operations
    BY DEF HandlingInv, TypeOK
  <2>2. Accepts(op, response.code)
    BY ResultOrigin, ResultFacts
  <2>3. "SocialLogout" \in Capturing \cup {"Login"}
    BY DEF Capturing
  <2>4. response.code \in Calls[op].codes
    BY <2>2, Zenon DEF Accepts
  <2>5. response.code \in 200..299 \/ response.code \in {302, 307}
    BY <2>1, <2>4, CallFacts, Zenon
  <2>6. /\ 302 \in Calls[op].codes => op \in Capturing \cup {"Login"}
        /\ 307 \in Calls[op].codes => op = "SocialLogout"
    BY <2>1, CallFacts, Zenon
  <2>7. QED
    BY <2>3, <2>4, <2>5, <2>6
<1>2. QED
  BY <1>1, HandlingInvariance, PTL

=============================================================================
