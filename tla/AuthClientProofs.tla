--------------------------- MODULE AuthClientProofs ---------------------------
(***************************************************************************)
(* Proofs about AuthClient, for any callers, tokens and redirects: the     *)
(* types, the credential that each request carries, and the redirects that *)
(* are captured.                                                           *)
(***************************************************************************)
EXTENDS AuthClient, TLAPS

Replies == [code : Codes, yield : Yields, otp : Flags]

Outcomes == [ok : BOOLEAN, yield : Yields, otpRequired : BOOLEAN]

CallType ==
  [pc : {"idle", "built", "edited", "sent", "responded", "done"},
   op : Operations, header : Credentials, since : 0..MaxToken + 1, found : {"token", "nothing"},
   response : Replies, granted : Yields, hops : 0..MaxHops, outcome : Outcomes]

-----------------------------------------------------------------------------
(* What the service answers, and what the operations make of it.           *)

LEMMA AnswerFacts ==
  ASSUME NEW op \in Operations, NEW h, NEW r \in Answers(op, h)
  PROVE  /\ r \in Replies
         /\ op \in JwtOperations /\ r.code = 401 => ~Authenticated(h)
         /\ op \in TokenOperations => r.yield # "location"
         /\ op \in {"Login", "ValidateOTP"} /\ r.yield # "none" =>
              r.code \in SuccessCodes(op)
         /\ op = "Login" /\ r.code \in SuccessCodes(op) =>
              (r.yield = "intermediate" <=> r.code = 200 /\ r.otp = "set")
<1> USE DEF Answers, Refused, Response, Flagged, Replies, Codes, Yields, Flags,
            JwtOperations, TokenOperations, SuccessCodes
<1>1. CASE op = "Login"
  BY <1>1
<1>2. CASE op = "LoginWithAPIKey"
  BY <1>2
<1>3. CASE op = "ValidateOTP"
  BY <1>3
<1>4. CASE op = "SocialLogin"
  BY <1>4
<1>5. CASE op = "LinkSocialProvider"
  BY <1>5
<1>6. CASE op = "SocialLogout"
  BY <1>6
<1>7. CASE op = "Ping"
  BY <1>7
<1>8. QED
  BY <1>1, <1>2, <1>3, <1>4, <1>5, <1>6, <1>7
     DEF Operations, RedirectCapturing

LEMMA PageFacts ==
  ASSUME NEW r \in PageAnswers
  PROVE  r \in Replies /\ r.yield # "location"
BY DEF PageAnswers, Response, Flagged, Replies, Codes, Yields, Flags

LEMMA ResultType ==
  ASSUME NEW op \in Operations, NEW r \in Replies
  PROVE  Result(op, r) \in Outcomes
<1>1. (op = "Login" /\ r.code = 200 /\ r.otp = "set") \in BOOLEAN
  BY Zenon
<1>2. NoOutcome \in Outcomes
  BY DEF NoOutcome, Outcome, Outcomes, Yields
<1>3. r.yield \in Yields /\ "none" \in Yields
  BY DEF Replies, Yields
<1>4. QED
  BY <1>1, <1>2, <1>3 DEF Result, Outcome, Outcomes

LEMMA CredentialTypes ==
  /\ NoCredential \in Credentials
  /\ \A op \in Operations : ParamHeader(op) \in Credentials
  /\ \A op \in Operations, h \in Credentials : CallHeader(op, h) \in Credentials
BY DEF Credentials, Credential, NoCredential, ParamHeader, CallHeader

LEMMA EditedType ==
  ASSUME jwt \in 0..MaxToken, NEW h \in Credentials
  PROVE  EditedHeader(h) \in Credentials
<1>1. jwt # 0 => jwt \in 1..MaxToken
  BY BoundAssumption
<1>2. QED
  BY <1>1 DEF EditedHeader, Credentials

LEMMA NoCallType == NoCall \in CallType
BY CredentialTypes, BoundAssumption
   DEF NoCall, CallType, Operations, JwtOperations, Replies, Response, Flagged, Flags, Codes, Yields,
       Outcomes, NoOutcome, Outcome

-----------------------------------------------------------------------------
(* The types. *)

LEMMA Retyped == TypeOK <=> /\ disableRedirect \in BOOLEAN
                            /\ jwt \in 0..MaxToken /\ issued \in 0..MaxToken
                            /\ revoked \in 0..MaxToken
                            /\ call \in [Callers -> CallType]
BY DEF TypeOK, CallType, Replies, Outcomes

LEMMA TypeStep == TypeOK /\ [Next]_vars => TypeOK'
<1> SUFFICES ASSUME TypeOK, [Next]_vars PROVE TypeOK'
  OBVIOUS
<1>1. /\ disableRedirect \in BOOLEAN /\ jwt \in 0..MaxToken
      /\ issued \in 0..MaxToken /\ revoked \in 0..MaxToken
      /\ call \in [Callers -> CallType]
  BY Retyped
<1>2. CASE SetAuthToken
  BY <1>1, <1>2, BoundAssumption, Retyped DEF SetAuthToken, TypeOK
<1>2a. CASE ClearAuthToken
  <2>1. ASSUME NEW c \in Callers
        PROVE  [call[c] EXCEPT !.found = "nothing"] \in CallType
    BY <1>1 DEF CallType
  <2>2. call' \in [Callers -> CallType]
    BY <1>1, <1>2a, <2>1 DEF ClearAuthToken
  <2>3. jwt' \in 0..MaxToken
    BY <1>2a, BoundAssumption DEF ClearAuthToken
  <2>4. QED
    BY <1>1, <1>2a, <2>2, <2>3 DEF ClearAuthToken, TypeOK, CallType, Replies, Outcomes
<1>3. CASE RevokeReplacedToken
  BY <1>1, <1>3, BoundAssumption, Retyped DEF RevokeReplacedToken, TypeOK
<1>4. ASSUME NEW c \in Callers, UNCHANGED <<disableRedirect, jwt, issued, revoked>>,
             NEW k \in CallType, call' = [call EXCEPT ![c] = k]
      PROVE  TypeOK'
  BY <1>1, <1>4 DEF TypeOK, CallType, Replies, Outcomes
<1>5. ASSUME NEW c \in Callers, NEW op \in Operations, Start(c, op) PROVE TypeOK'
  <2> DEFINE n == IF jwt = 0 THEN issued + 1 ELSE jwt
             f == IF jwt = 0 THEN "nothing" ELSE "token"
             k == [NoCall EXCEPT !.pc = "built", !.op = op, !.header = ParamHeader(op),
                                 !.found = f, !.since = n]
  <2>1. n \in 0..MaxToken + 1 /\ f \in {"token", "nothing"}
    BY <1>1, BoundAssumption
  <2>2. call' = [call EXCEPT ![c] = k]
    BY <1>5 DEF Start
  <2> HIDE DEF n, f
  <2>3. k \in CallType
    BY <2>1, NoCallType, CredentialTypes DEF CallType
  <2>4. QED
    BY <1>4, <1>5, <2>2, <2>3 DEF Start
<1>6. ASSUME NEW c \in Callers, ClientEditor(c) PROVE TypeOK'
  BY <1>1, <1>4, <1>6, EditedType DEF ClientEditor, CallType
<1>7. ASSUME NEW c \in Callers, CallEditorsAndSend(c) PROVE TypeOK'
  BY <1>1, <1>4, <1>7, CredentialTypes DEF CallEditorsAndSend, CallType
<1>8. ASSUME NEW c \in Callers, ServerResponds(c) PROVE TypeOK'
  <2>1. PICK r \in Replies :
          call' = [call EXCEPT ![c].pc = "responded", ![c].response = r,
                     ![c].granted = IF r.yield = "none" THEN @ ELSE r.yield]
    BY <1>1, <1>8, AnswerFacts, PageFacts, Zenon DEF ServerResponds, CallType
  <2> DEFINE g == IF r.yield = "none" THEN call[c].granted ELSE r.yield
             k == [call[c] EXCEPT !.pc = "responded", !.response = r, !.granted = g]
  <2>2. g \in Yields
    BY <1>1 DEF CallType, Replies
  <2>3. k \in CallType
    BY <1>1, <2>2 DEF CallType
  <2>4. call' = [call EXCEPT ![c] = k]
    BY <1>1, <2>1 DEF CallType
  <2>5. QED
    BY <1>4, <1>8, <2>3, <2>4 DEF ServerResponds
<1>9. ASSUME NEW c \in Callers, FollowRedirect(c) PROVE TypeOK'
  BY <1>1, <1>4, <1>9 DEF FollowRedirect, CallType
<1>10. ASSUME NEW c \in Callers, Finish(c) PROVE TypeOK'
  <2> DEFINE o == Result(call[c].op, call[c].response)
             k == [call[c] EXCEPT !.pc = "done", !.outcome = o]
  <2>1. o \in Outcomes
    BY <1>1, ResultType DEF CallType
  <2>2. call' = [call EXCEPT ![c].pc = "done", ![c].outcome = o]
    BY <1>10 DEF Finish
  <2>3. k \in CallType
    BY <1>1, <2>1 DEF CallType
  <2>4. call' = [call EXCEPT ![c] = k]
    <3> HIDE DEF o
    <3> QED BY <1>1, <2>2 DEF CallType
  <2>5. QED
    BY <1>4, <1>10, <2>3, <2>4 DEF Finish
<1>11. CASE UNCHANGED vars
  BY <1>11 DEF vars, TypeOK
<1>12. QED
  BY <1>2, <1>2a, <1>3, <1>5, <1>6, <1>7, <1>8, <1>9, <1>10, <1>11 DEF Next

LEMMA InitialTypes == Init => TypeOK
<1> SUFFICES ASSUME Init PROVE TypeOK
  OBVIOUS
<1>1. jwt \in 0..MaxToken /\ issued \in 0..MaxToken /\ revoked \in 0..MaxToken
  BY BoundAssumption DEF Init
<1>2. call \in [Callers -> CallType]
  BY NoCallType DEF Init
<1>3. disableRedirect \in BOOLEAN
  BY Zenon DEF Init
<1>4. QED
  BY <1>1, <1>2, <1>3, Retyped

-----------------------------------------------------------------------------
(* What is known of a call. *)

Begun(c) == call[c].pc \in {"edited", "sent", "responded", "done"}
Answered(c) == call[c].pc \in {"responded", "done"}

\* The editor has put in a token no older than the call, or found none.
HeaderInv(c) ==
  /\ call[c].since <= issued + 1
  /\ jwt # 0 => call[c].since <= jwt
  /\ call[c].pc = "built" =>
       /\ call[c].header = ParamHeader(call[c].op)
       /\ jwt = 0 => call[c].found = "nothing"
  /\ Begun(c) /\ call[c].header.kind = "jwt" => call[c].since <= call[c].header.n
  /\ Begun(c) /\ call[c].op \in JwtOperations =>
       \/ call[c].header.kind = "jwt"
       \/ call[c].header = NoCredential /\ call[c].found = "nothing"
  /\ OnTheWire(c) /\ call[c].op = "ValidateOTP" =>
       call[c].header.kind = "intermediate"

\* A refused token is one that was replaced after the call began.
RefusalInv(c) ==
  Answered(c) /\ call[c].op \in JwtOperations /\ call[c].response.code = 401 =>
    call[c].since <= revoked \/ call[c].found = "nothing"

\* What the service itself says of a login, it says consistently.
FlagInv(c) ==
  Answered(c) /\ call[c].op = "Login" /\ call[c].hops = 0 =>
    (call[c].response.code \in SuccessCodes("Login") =>
       (call[c].response.yield = "intermediate" <=>
          call[c].response.code = 200 /\ call[c].response.otp = "set"))

\* What was granted is in the answer, where redirects are captured.
GrantInv(c) ==
  call[c].op \in {"Login", "ValidateOTP"} /\ RedirectsDisabled(c) =>
    /\ call[c].hops = 0
    /\ call[c].pc \in {"built", "edited", "sent"} => call[c].granted = "none"
    /\ Answered(c) =>
         /\ call[c].granted = call[c].response.yield
         /\ call[c].response.yield # "none" =>
              call[c].response.code \in SuccessCodes(call[c].op)

\* The outcome is that of the answer, which is a redirect only if captured.
OutcomeInv(c) ==
  /\ Answered(c) /\ call[c].op \in TokenOperations =>
       call[c].response.yield # "location"
  /\ call[c].pc = "done" =>
       /\ call[c].outcome = Result(call[c].op, call[c].response)
       /\ IsRedirect(call[c].response) => RedirectsDisabled(c)

CallInv(c) ==
  HeaderInv(c) /\ RefusalInv(c) /\ FlagInv(c) /\ GrantInv(c) /\ OutcomeInv(c)

\* The current token is the one installed last; what is revoked is older.
TokenInv ==
  /\ revoked <= issued
  /\ jwt # 0 => jwt = issued /\ revoked < jwt

IInv == TypeOK /\ TokenInv /\ \A c \in Callers : CallInv(c)

-----------------------------------------------------------------------------
(* Each step of a call keeps what is known of it. *)

\* A caller's step touches its own call only.
LEMMA OthersKeep ==
  ASSUME NEW c, CallInv(c), call'[c] = call[c], UNCHANGED <<disableRedirect, jwt, issued, revoked>>
  PROVE  CallInv(c)'
BY DEF CallInv, HeaderInv, RefusalInv, FlagInv, GrantInv, OutcomeInv, Begun, Answered,
       OnTheWire, RedirectsDisabled

LEMMA StartStep ==
  ASSUME IInv, NEW c \in Callers, NEW op \in Operations, Start(c, op)
  PROVE  CallInv(c)'
<1>1. /\ call'[c].pc = "built" /\ call'[c].op = op /\ call'[c].header = ParamHeader(op)
      /\ call'[c].since = IF jwt = 0 THEN issued + 1 ELSE jwt
      /\ call'[c].found = IF jwt = 0 THEN "nothing" ELSE "token"
      /\ call'[c].hops = 0 /\ call'[c].granted = "none"
      /\ UNCHANGED <<jwt, issued, revoked, disableRedirect>>
  BY Retyped, Zenon DEF Start, NoCall, IInv
<1>2. jwt \in Nat /\ issued \in Nat /\ (jwt # 0 => jwt = issued)
  BY BoundAssumption DEF IInv, TypeOK, TokenInv
<1>3. /\ call'[c].since <= issued + 1 /\ (jwt # 0 => call'[c].since <= jwt)
      /\ jwt = 0 => call'[c].found = "nothing"
  BY <1>1, <1>2
<1>4. QED
  BY <1>1, <1>3 DEF CallInv, HeaderInv, RefusalInv, FlagInv, GrantInv, OutcomeInv, Begun,
       Answered, OnTheWire, RedirectsDisabled

LEMMA ClientEditorStep ==
  ASSUME IInv, NEW c \in Callers, ClientEditor(c)
  PROVE  CallInv(c)'
<1>1. /\ call \in [Callers -> CallType] /\ jwt \in Nat /\ issued \in Nat
      /\ UNCHANGED <<jwt, issued, revoked, disableRedirect>>
  BY BoundAssumption, Retyped DEF IInv, ClientEditor
<1>2. call[c].pc = "built" /\ call[c].since \in Nat
  BY <1>1, BoundAssumption DEF ClientEditor, CallType
<1>3. /\ call'[c].pc = "edited" /\ call'[c].header = EditedHeader(call[c].header)
      /\ call'[c].op = call[c].op /\ call'[c].since = call[c].since
      /\ call'[c].found = call[c].found
      /\ call'[c].hops = call[c].hops /\ call'[c].granted = call[c].granted
  BY <1>1 DEF ClientEditor, CallType
<1>4. CallInv(c)
  BY DEF IInv
<1>5. /\ EditedHeader(call[c].header).kind = "jwt" =>
           call[c].since <= EditedHeader(call[c].header).n
      /\ call[c].op \in JwtOperations =>
           \/ EditedHeader(call[c].header).kind = "jwt"
           \/ EditedHeader(call[c].header) = NoCredential /\ call[c].found = "nothing"
  BY <1>1, <1>2, <1>4 DEF CallInv, HeaderInv, EditedHeader, ParamHeader, Credential,
       NoCredential, JwtOperations
<1>6. QED
  BY <1>1, <1>2, <1>3, <1>4, <1>5 DEF CallInv, HeaderInv, RefusalInv, FlagInv, GrantInv,
       OutcomeInv, Begun, Answered, OnTheWire, RedirectsDisabled

LEMMA SendStep ==
  ASSUME IInv, NEW c \in Callers, CallEditorsAndSend(c)
  PROVE  CallInv(c)'
<1>1. /\ call \in [Callers -> CallType]
      /\ UNCHANGED <<jwt, issued, revoked, disableRedirect>>
  BY Retyped DEF IInv, CallEditorsAndSend
<1>2. call[c].pc = "edited"
  BY DEF CallEditorsAndSend
<1>3. /\ call'[c].pc = "sent" /\ call'[c].header = CallHeader(call[c].op, call[c].header)
      /\ call'[c].op = call[c].op /\ call'[c].since = call[c].since
      /\ call'[c].found = call[c].found
      /\ call'[c].hops = call[c].hops /\ call'[c].granted = call[c].granted
  BY <1>1 DEF CallEditorsAndSend, CallType
<1>4. CallInv(c)
  BY DEF IInv
<1>5. /\ call[c].op \in JwtOperations => call'[c].header = call[c].header
      /\ call[c].op = "ValidateOTP" => call'[c].header.kind = "intermediate"
      /\ call'[c].header.kind = "jwt" => call'[c].header = call[c].header
  BY <1>3 DEF CallHeader, JwtOperations, Credential
<1>6. QED
  BY <1>1, <1>2, <1>3, <1>4, <1>5 DEF CallInv, HeaderInv, RefusalInv, FlagInv, GrantInv,
       OutcomeInv, Begun, Answered, OnTheWire, RedirectsDisabled

LEMMA RespondStep ==
  ASSUME IInv, NEW c \in Callers, ServerResponds(c)
  PROVE  CallInv(c)'
<1>1. /\ call \in [Callers -> CallType] /\ revoked \in Nat
      /\ UNCHANGED <<jwt, issued, revoked, disableRedirect>>
  BY BoundAssumption, Retyped DEF IInv, ServerResponds
<1>2. /\ call[c].pc = "sent" /\ call[c].since \in Nat /\ call[c].op \in Operations
      /\ call[c].header \in Credentials
  BY <1>1, BoundAssumption DEF ServerResponds, CallType
<1>3. PICK r \in IF call[c].op = "Login" /\ call[c].hops > 0
                   THEN PageAnswers ELSE Answers(call[c].op, call[c].header) :
        call' = [call EXCEPT ![c].pc = "responded", ![c].response = r,
                   ![c].granted = IF r.yield = "none" THEN @ ELSE r.yield]
  BY Zenon DEF ServerResponds
<1> DEFINE g == IF r.yield = "none" THEN call[c].granted ELSE r.yield
<1>4. /\ call'[c].pc = "responded" /\ call'[c].response = r /\ call'[c].granted = g
      /\ call'[c].op = call[c].op /\ call'[c].since = call[c].since
      /\ call'[c].found = call[c].found
      /\ call'[c].hops = call[c].hops /\ call'[c].header = call[c].header
  <2> HIDE DEF g
  <2>1. call' = [call EXCEPT ![c].pc = "responded", ![c].response = r, ![c].granted = g]
    BY <1>3 DEF g
  <2>2. QED
    BY <1>1, <2>1 DEF CallType
<1>5. CallInv(c)
  BY DEF IInv
<1>6. HeaderInv(c)'
  BY <1>1, <1>2, <1>4, <1>5 DEF CallInv, HeaderInv, Begun, OnTheWire
<1>7. RefusalInv(c)'
  <2> SUFFICES ASSUME call[c].op \in JwtOperations, r.code = 401, call[c].found # "nothing"
               PROVE  call[c].since <= revoked
    BY <1>1, <1>4 DEF RefusalInv
  <2>1. ~Authenticated(call[c].header)
    BY <1>2, <1>3, AnswerFacts DEF JwtOperations
  <2>2. call[c].header.kind = "jwt" /\ call[c].since <= call[c].header.n
    BY <1>2, <1>5 DEF CallInv, HeaderInv, Begun
  <2>3. call[c].header.n \in Nat
    BY <1>2, BoundAssumption DEF Credentials, Credential
  <2>4. QED
    BY <1>1, <1>2, <2>1, <2>2, <2>3 DEF Authenticated
<1>7a. FlagInv(c)'
  <2> SUFFICES ASSUME call[c].op = "Login", call[c].hops = 0,
                      r.code \in SuccessCodes("Login")
               PROVE  r.yield = "intermediate" <=> r.code = 200 /\ r.otp = "set"
    BY <1>4 DEF FlagInv
  <2>1. r \in Answers("Login", call[c].header) /\ "Login" \in Operations
    BY <1>2, <1>3
  <2>2. QED
    BY <2>1, AnswerFacts
<1>8. GrantInv(c)'
  <2> SUFFICES ASSUME call[c].op \in {"Login", "ValidateOTP"}, RedirectsDisabled(c)
               PROVE  /\ call[c].hops = 0 /\ g = r.yield
                      /\ r.yield # "none" => r.code \in SuccessCodes(call[c].op)
    BY <1>1, <1>4 DEF GrantInv, RedirectsDisabled
  <2>1. call[c].hops = 0 /\ call[c].granted = "none"
    BY <1>2, <1>5 DEF CallInv, GrantInv
  <2>2. r \in Answers(call[c].op, call[c].header)
    BY <1>3, <2>1
  <2>3. QED
    BY <1>2, <2>1, <2>2, AnswerFacts
<1>9. OutcomeInv(c)'
  <2> SUFFICES ASSUME call[c].op \in TokenOperations PROVE r.yield # "location"
    BY <1>4 DEF OutcomeInv
  <2>1. QED
    BY <1>2, <1>3, AnswerFacts, PageFacts
<1>10. QED
  BY <1>6, <1>7, <1>7a, <1>8, <1>9 DEF CallInv

LEMMA FollowStep ==
  ASSUME IInv, NEW c \in Callers, FollowRedirect(c)
  PROVE  CallInv(c)'
<1>1. /\ call \in [Callers -> CallType]
      /\ UNCHANGED <<jwt, issued, revoked, disableRedirect>>
  BY Retyped DEF IInv, FollowRedirect
<1>2. call[c].pc = "responded" /\ ~RedirectsDisabled(c)
  BY DEF FollowRedirect
<1>3. /\ call'[c].pc = "sent" /\ call'[c].header = call[c].header
      /\ call'[c].op = call[c].op /\ call'[c].since = call[c].since
      /\ call'[c].found = call[c].found
  BY <1>1 DEF FollowRedirect, CallType
<1>4. CallInv(c)
  BY DEF IInv
<1>5. QED
  BY <1>1, <1>2, <1>3, <1>4 DEF CallInv, HeaderInv, RefusalInv, FlagInv, GrantInv,
       OutcomeInv, Begun, Answered, OnTheWire, RedirectsDisabled

LEMMA FinishStep ==
  ASSUME IInv, NEW c \in Callers, Finish(c)
  PROVE  CallInv(c)'
<1> DEFINE o == Result(call[c].op, call[c].response)
<1>1. /\ call \in [Callers -> CallType]
      /\ UNCHANGED <<jwt, issued, revoked, disableRedirect>>
  BY Retyped DEF IInv, Finish
<1>2. /\ call[c].pc = "responded"
      /\ IsRedirect(call[c].response) => RedirectsDisabled(c)
  BY DEF Finish
<1>3. /\ call'[c].pc = "done" /\ call'[c].outcome = o
      /\ call'[c].response = call[c].response /\ call'[c].granted = call[c].granted
      /\ call'[c].op = call[c].op /\ call'[c].since = call[c].since
      /\ call'[c].found = call[c].found
      /\ call'[c].hops = call[c].hops /\ call'[c].header = call[c].header
  <2>1. call' = [call EXCEPT ![c].pc = "done", ![c].outcome = o]
    BY DEF Finish
  <2> HIDE DEF o
  <2>2. QED
    BY <1>1, <2>1 DEF CallType
<1>4. CallInv(c)
  BY DEF IInv
<1>5. QED
  BY <1>1, <1>2, <1>3, <1>4 DEF CallInv, HeaderInv, RefusalInv, FlagInv, GrantInv,
       OutcomeInv, Begun, Answered, OnTheWire, RedirectsDisabled

-----------------------------------------------------------------------------

\* A fresh token, or the revocation of an old one, falsifies nothing.
LEMMA RotationStep ==
  ASSUME IInv, SetAuthToken \/ RevokeReplacedToken, NEW c \in Callers
  PROVE  CallInv(c)'
<1>1. /\ jwt \in Nat /\ issued \in Nat /\ revoked \in Nat /\ call[c] \in CallType
  BY BoundAssumption, Retyped DEF IInv
<1>2. /\ call' = call /\ disableRedirect' = disableRedirect
      /\ revoked <= revoked' /\ revoked' \in Nat
      /\ \/ jwt' = jwt /\ issued' = issued
         \/ jwt' = issued + 1 /\ issued' = issued + 1
  BY <1>1 DEF SetAuthToken, RevokeReplacedToken
<1>3. call[c].since \in Nat
  BY <1>1, BoundAssumption DEF CallType
<1>4. CallInv(c)
  BY DEF IInv
<1>5. /\ call[c].since <= issued' + 1
      /\ jwt' # 0 => call[c].since <= jwt'
      /\ jwt' = 0 => jwt = 0
  BY <1>1, <1>2, <1>3, <1>4 DEF CallInv, HeaderInv
<1>6. call[c].since <= revoked => call[c].since <= revoked'
  BY <1>1, <1>2, <1>3
<1>7. QED
  BY <1>2, <1>4, <1>5, <1>6 DEF CallInv, HeaderInv, RefusalInv, FlagInv, GrantInv,
       OutcomeInv, Begun, Answered, OnTheWire, RedirectsDisabled

\* Clearing the token is noted in the calls whose header is not made yet.
LEMMA ClearStep ==
  ASSUME IInv, ClearAuthToken, NEW c \in Callers
  PROVE  CallInv(c)'
<1>1. /\ call[c] \in CallType /\ issued \in Nat
      /\ jwt' = 0 /\ UNCHANGED <<disableRedirect, issued, revoked>>
      /\ call'[c] = IF call[c].pc = "built" THEN [call[c] EXCEPT !.found = "nothing"]
                                            ELSE call[c]
  BY BoundAssumption, Retyped DEF IInv, ClearAuthToken
<1>2. CallInv(c)
  BY DEF IInv
<1>3. CASE call[c].pc = "built"
  <2>1. /\ call'[c].pc = "built" /\ call'[c].found = "nothing"
        /\ call'[c].op = call[c].op /\ call'[c].since = call[c].since
        /\ call'[c].hops = call[c].hops /\ call'[c].granted = call[c].granted
        /\ call'[c].header = call[c].header
    BY <1>1, <1>3 DEF CallType
  <2>2. QED
    BY <1>1, <1>2, <1>3, <2>1 DEF CallInv, HeaderInv, RefusalInv, FlagInv, GrantInv,
         OutcomeInv, Begun, Answered, OnTheWire, RedirectsDisabled
<1>4. CASE call[c].pc # "built"
  BY <1>1, <1>2, <1>4 DEF CallInv, HeaderInv, RefusalInv, FlagInv, GrantInv,
       OutcomeInv, Begun, Answered, OnTheWire, RedirectsDisabled
<1>5. QED
  BY <1>3, <1>4

LEMMA InitialInv == Init => IInv
<1> SUFFICES ASSUME Init PROVE IInv
  OBVIOUS
<1>1. TypeOK /\ revoked = 0 /\ jwt \in Nat /\ issued = jwt
  BY InitialTypes, BoundAssumption DEF TypeOK, Init
<1>2. ASSUME NEW c \in Callers PROVE CallInv(c)
  <2>1. call[c].pc = "idle" /\ call[c].since = 0 /\ call[c].hops = 0
    BY DEF Init, NoCall
  <2>2. QED
    BY <1>1, <2>1 DEF CallInv, HeaderInv, RefusalInv, FlagInv, GrantInv, OutcomeInv, Begun,
         Answered, OnTheWire
<1>3. TokenInv
  BY <1>1 DEF TokenInv
<1>4. QED
  BY <1>1, <1>2, <1>3 DEF IInv

LEMMA InductiveStep == IInv /\ [Next]_vars => IInv'
<1> SUFFICES ASSUME IInv, [Next]_vars PROVE IInv'
  OBVIOUS
<1>1. TypeOK'
  BY TypeStep DEF IInv
<1>2. TokenInv'
  <2>1. jwt \in Nat /\ issued \in Nat /\ revoked \in Nat /\ TokenInv
    BY BoundAssumption DEF IInv, TypeOK
  <2>2. \/ jwt' = issued + 1 /\ issued' = issued + 1 /\ revoked' = revoked
        \/ jwt' = 0 /\ issued' = issued /\ revoked' = revoked
        \/ /\ revoked < issued /\ revoked + 1 # jwt /\ revoked' = revoked + 1
           /\ jwt' = jwt /\ issued' = issued
        \/ jwt' = jwt /\ issued' = issued /\ revoked' = revoked
    BY Zenon DEF Next, vars, SetAuthToken, ClearAuthToken, RevokeReplacedToken, Start,
         ClientEditor, CallEditorsAndSend, ServerResponds, FollowRedirect, Finish
  <2>3. QED
    BY <2>1, <2>2 DEF TokenInv
<1>3. \A c \in Callers : CallInv(c)'
  <2>1. CASE SetAuthToken \/ RevokeReplacedToken
    BY <2>1, RotationStep
  <2>1a. CASE ClearAuthToken
    BY <2>1a, ClearStep
  <2>2. CASE UNCHANGED vars
    BY <2>2, OthersKeep DEF vars, IInv
  <2>3. ASSUME NEW c \in Callers,
               \/ \E op \in Operations : Start(c, op)
               \/ ClientEditor(c) \/ CallEditorsAndSend(c) \/ ServerResponds(c)
               \/ FollowRedirect(c) \/ Finish(c)
        PROVE  \A d \in Callers : CallInv(d)'
    <3>1. CallInv(c)'
      BY <2>3, StartStep, ClientEditorStep, SendStep, RespondStep, FollowStep, FinishStep
    <3>2. /\ UNCHANGED <<disableRedirect, jwt, issued, revoked>>
          /\ \A d \in Callers \ {c} : call'[d] = call[d]
      BY <2>3, Retyped DEF IInv, Start, ClientEditor, CallEditorsAndSend,
           ServerResponds, FollowRedirect, Finish
    <3>3. QED
      BY <3>1, <3>2, OthersKeep DEF IInv
  <2>4. QED
    BY <2>1, <2>1a, <2>2, <2>3 DEF Next
<1>4. QED
  BY <1>1, <1>2, <1>3 DEF IInv

LEMMA Invariance == Spec => []IInv
BY InitialInv, InductiveStep, PTL DEF Spec

-----------------------------------------------------------------------------
(* Theorems. *)

(* Every variable has its type: no answer, token or chain of redirects     *)
(* brings a call out of the places the pipeline has.                       *)
THEOREM TypesCorrect == Spec => []TypeOK
BY InitialTypes, TypeStep, PTL DEF Spec

(* Rotation is seamless (SetAuthToken and the editor of NewClient, which   *)
(* reads the token under the lock): a call that began after a token was    *)
(* installed is never refused because an older one was revoked, unless it  *)
(* found the client without a token.                                       *)
THEOREM SeamlessRotation == Spec => []RotationIsSeamless
<1>1. IInv => RotationIsSeamless
  BY DEF IInv, CallInv, RefusalInv, RotationIsSeamless, Done, Answered
<1>2. QED
  BY <1>1, Invariance, PTL

(* Replacing or clearing the token is final: no request of a call that     *)
(* begins afterwards carries the old one.                                  *)
THEOREM StaleCredentialGone == Spec => []NoStaleCredential
<1>1. ASSUME IInv, NEW c \in Callers, OnTheWire(c), call[c].header.kind = "jwt"
      PROVE  call[c].header.n >= call[c].since
  <2>1. call[c].since <= call[c].header.n
    BY <1>1 DEF IInv, CallInv, HeaderInv, Begun, OnTheWire
  <2>2. QED
    BY <2>1 DEF IInv
<1>2. IInv => NoStaleCredential
  BY <1>1 DEF NoStaleCredential
<1>3. QED
  BY <1>2, Invariance, PTL

(* ValidateOTP presents the intermediate token, whatever token the client  *)
(* has or is given: its editor runs after the client's.                    *)
THEOREM OTPCredential == Spec => []OTPCarriesIntermediate
<1>1. IInv => OTPCarriesIntermediate
  BY DEF IInv, CallInv, HeaderInv, OTPCarriesIntermediate
<1>2. QED
  BY <1>1, Invariance, PTL

(* Capturing a redirect is a matter of one request: a plain call never     *)
(* ends on a redirect because another call captures its own.               *)
THEOREM PlainCallsFollow == Spec => []PlainCallsFollowRedirects
<1>1. IInv => PlainCallsFollowRedirects
  BY DEF IInv, CallInv, OutcomeInv, PlainCallsFollowRedirects, Done,
         RedirectsDisabled, RedirectCapturing
<1>2. QED
  BY <1>1, Invariance, PTL

\* What an outcome is made of, for operations that log in.
LEMMA TokenOutcome ==
  ASSUME IInv, NEW c \in Callers, Done(c, TokenOperations)
  PROVE  /\ call[c].outcome = Result(call[c].op, call[c].response)
         /\ call[c].response.yield \in Yields \ {"location"}
         /\ call[c].outcome.ok <=>
              /\ call[c].response.code \in SuccessCodes(call[c].op)
              /\ call[c].response.yield # "none"
         /\ call[c].outcome.ok =>
              /\ call[c].outcome.yield = call[c].response.yield
              /\ call[c].outcome.otpRequired <=>
                   /\ call[c].op = "Login" /\ call[c].response.code = 200
                   /\ call[c].response.otp = "set"
<1>1. call[c] \in CallType /\ CallInv(c)
  BY Retyped DEF IInv
<1>2. call[c].outcome = Result(call[c].op, call[c].response)
  BY <1>1 DEF CallInv, OutcomeInv, Done
<1>3. call[c].response.yield \in Yields \ {"location"}
  BY <1>1 DEF CallInv, OutcomeInv, Done, Answered, CallType, Replies
<1>4. Required(call[c].op)
  BY DEF Done, Required
<1>5. CASE /\ call[c].response.code \in SuccessCodes(call[c].op)
           /\ call[c].response.yield # "none"
  <2> DEFINE otp == /\ call[c].op = "Login" /\ call[c].response.code = 200
                    /\ call[c].response.otp = "set"
  <2>1. otp \in BOOLEAN
    BY Zenon
  <2>2. call[c].outcome = Outcome(TRUE, call[c].response.yield, otp)
    BY <1>2, <1>4, <1>5, Zenon DEF Result
  <2> HIDE DEF otp
  <2>3. /\ call[c].outcome.ok = TRUE /\ call[c].outcome.otpRequired = otp
        /\ call[c].outcome.yield = call[c].response.yield
    BY <2>1, <2>2 DEF Outcome
  <2>4. QED
    BY <1>2, <1>3, <1>5, <2>1, <2>3, Zenon DEF otp
<1>6. CASE ~ /\ call[c].response.code \in SuccessCodes(call[c].op)
             /\ call[c].response.yield # "none"
  BY <1>2, <1>3, <1>4, <1>6 DEF Result, Outcome, NoOutcome
<1>7. QED
  BY <1>2, <1>3, <1>5, <1>6

(* No operation that logs in reports success without a token, however its  *)
(* redirects went and whatever page they led to.                           *)
THEOREM TokenOrFailure == Spec => []NoTokenNoSuccess
<1>1. IInv => NoTokenNoSuccess
  BY TokenOutcome DEF NoTokenNoSuccess, Yields
<1>2. QED
  BY <1>1, Invariance, PTL

(* A login that the service itself answers with success says truly whether *)
(* its token still needs an OTP, by the status and the flag of the body.   *)
THEOREM IntermediateFlagged == Spec => []IntermediateIsFlagged
<1>1. ASSUME IInv, NEW c \in Callers, Done(c, {"Login"}), call[c].hops = 0,
             call[c].outcome.ok
      PROVE  call[c].outcome.yield = "intermediate" <=> call[c].outcome.otpRequired
  <2>1. FlagInv(c) /\ Answered(c) /\ call[c].op = "Login"
    BY <1>1 DEF IInv, CallInv, Done, Answered
  <2>2. /\ call[c].response.code \in SuccessCodes("Login")
        /\ call[c].outcome.yield = call[c].response.yield
        /\ call[c].outcome.otpRequired <=>
             call[c].response.code = 200 /\ call[c].response.otp = "set"
    BY <1>1, <2>1, TokenOutcome DEF Done, TokenOperations
  <2>3. QED
    BY <1>1, <2>1, <2>2, Zenon DEF FlagInv
<1>2. IInv => IntermediateIsFlagged
  BY <1>1, Zenon DEF IntermediateIsFlagged
<1>3. QED
  BY <1>2, Invariance, PTL

\* Where redirects are captured, a token that is granted is returned.
LEMMA CapturedGrant ==
  ASSUME IInv, NEW c \in Callers, Done(c, {"Login", "ValidateOTP"}),
         RedirectsDisabled(c), call[c].granted # "none"
  PROVE  call[c].outcome.ok /\ call[c].outcome.yield = call[c].granted
<1>1. /\ call[c].granted = call[c].response.yield
      /\ call[c].response.code \in SuccessCodes(call[c].op)
  BY DEF IInv, CallInv, GrantInv, Done, Answered
<1>2. QED
  BY <1>1, TokenOutcome DEF Done, TokenOperations

(* ValidateOTP returns the token of the redirect that it is answered with. *)
THEOREM OTPToken == Spec => []OTPTokenIsReturned
<1>1. IInv => OTPTokenIsReturned
  BY CapturedGrant DEF OTPTokenIsReturned, Done, RedirectsDisabled, RedirectCapturing
<1>2. QED
  BY <1>1, Invariance, PTL

(* So does Login, on a client built not to follow redirects.               *)
THEOREM UnfollowedLogin == Spec => []UnfollowedLoginReturnsToken
<1>1. IInv => UnfollowedLoginReturnsToken
  BY CapturedGrant DEF UnfollowedLoginReturnsToken, LoginTokenIsReturned, Done,
       RedirectsDisabled
<1>2. QED
  BY <1>1, Invariance, PTL
=============================================================================
