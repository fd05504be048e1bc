----------------------------- MODULE AuthClient -----------------------------
(***************************************************************************)
(* The request pipeline of account.Client (account.go, internal/http/      *)
(* client.go) under concurrent calls: how a request gets its Authorization *)
(* header (generated parameters, then the client's JWT editor, then the    *)
(* call's own editors), when the JWT is hot-swapped, when a redirect is    *)
(* followed and when its answer is captured, and what the operations that  *)
(* log in or capture redirects make of the response.                       *)
(*                                                                         *)
(* Tokens of the client are numbered in the order they are installed; the  *)
(* environment is an application that rotates them or logs out: it always  *)
(* installs a fresh token, SetAuthToken("") leaves the client without one, *)
(* and the service revokes a token only when the client no longer has it.  *)
(***************************************************************************)
EXTENDS Naturals

CONSTANTS
  Callers,                \* goroutines sharing the client
  MaxToken,               \* bound: tokens ever installed
  MaxHops                 \* bound: length of a redirect chain

ASSUME BoundAssumption == MaxToken \in Nat /\ MaxHops \in Nat

VARIABLES
  disableRedirect,  \* Client.disableRedirect: built WithDisableFollowRedirect
  jwt,              \* Client.jwt: the number of the current token, 0 when empty
  issued,           \* the tokens installed so far
  revoked,          \* the service rejects tokens up to this one
  call              \* the call each caller has made last

vars == <<disableRedirect, jwt, issued, revoked, call>>

(* Operations by what they do with the pipeline.  Ping stands for every    *)
(* operation that sends the client's JWT and wants a plain response.       *)
RedirectCapturing == {"ValidateOTP", "SocialLogin", "SocialLogout", "LinkSocialProvider"}
JwtOperations     == {"Ping", "SocialLogout", "LinkSocialProvider"}
TokenOperations   == {"Login", "LoginWithAPIKey", "ValidateOTP"}
Operations        == RedirectCapturing \cup JwtOperations \cup TokenOperations

Credential(kind, n) == [kind |-> kind, n |-> n]
NoCredential == Credential("none", 0)

Credentials ==
  {Credential(k, 0) : k \in {"none", "apiKey", "intermediate"}}
    \cup {Credential("jwt", n) : n \in 1..MaxToken}

\* What a response yields: a token of the account, a token good only for
\* ValidateOTP, or the location of a page.
Yields == {"none", "final", "intermediate", "location"}

\* A response, with the otp flag of its JSON body: absent and false are the same.
Flags == {"set", "unset"}
Flagged(code, yield, otp) == [code |-> code, yield |-> yield, otp |-> otp]
Response(code, yield) == Flagged(code, yield, "unset")
Codes == {200, 302, 307, 400, 401, 404}

Outcome(ok, yield, otp) == [ok |-> ok, yield |-> yield, otpRequired |-> otp]
NoOutcome == Outcome(FALSE, "none", FALSE)

\* Two fields are history: since is the oldest token the call may carry, and
\* found says whether there was one at every moment until its header was made.
NoCall == [pc |-> "idle", op |-> "Ping", header |-> NoCredential,
           since |-> 0, found |-> "token", response |-> Response(200, "none"),
           granted |-> "none", hops |-> 0, outcome |-> NoOutcome]

TypeOK ==
  /\ disableRedirect \in BOOLEAN
  /\ jwt \in 0..MaxToken
  /\ issued \in 0..MaxToken
  /\ revoked \in 0..MaxToken
  /\ call \in [Callers ->
       [pc : {"idle", "built", "edited", "sent", "responded", "done"},
        op : Operations, header : Credentials,
        since : 0..MaxToken + 1, found : {"token", "nothing"},
        response : [code : Codes, yield : Yields, otp : Flags], granted : Yields,
        hops : 0..MaxHops,
        outcome : [ok : BOOLEAN, yield : Yields, otpRequired : BOOLEAN]]]

Init ==
  /\ disableRedirect \in BOOLEAN
  /\ jwt \in {0, 1} \cap 0..MaxToken      \* built with or without WithJWT
  /\ issued = jwt
  /\ revoked = 0
  /\ call = [c \in Callers |-> NoCall]

-----------------------------------------------------------------------------
(* Environment: token rotation, logging out and the service. *)

\* SetAuthToken with a fresh token.
SetAuthToken ==
  /\ issued < MaxToken
  /\ issued' = issued + 1
  /\ jwt' = issued + 1
  /\ UNCHANGED <<disableRedirect, revoked, call>>

\* SetAuthToken(""): requests built from now on carry no token.
ClearAuthToken ==
  /\ jwt # 0
  /\ jwt' = 0
  /\ call' = [c \in Callers |-> IF call[c].pc = "built"
                                  THEN [call[c] EXCEPT !.found = "nothing"] ELSE call[c]]
  /\ UNCHANGED <<disableRedirect, issued, revoked>>

\* The service revokes the oldest token, if the client does not have it.
RevokeReplacedToken ==
  /\ revoked < issued
  /\ revoked + 1 # jwt
  /\ revoked' = revoked + 1
  /\ UNCHANGED <<disableRedirect, jwt, issued, call>>

Authenticated(header) == header.kind = "jwt" /\ header.n > revoked

Refused == {Response(401, "none")}

\* The answers the service may give to the request as it leaves the client.
\* It keeps what Login documents: the flag is set with an intermediate token.
Answers(op, header) ==
  CASE op = "Login" ->
         Refused \cup {Flagged(200, "intermediate", "set"), Response(200, "final"),
                       Response(302, "final"), Response(302, "none")}
    [] op = "LoginWithAPIKey" ->
         IF header = NoCredential THEN Refused
         ELSE Refused \cup {Response(200, "final"), Response(200, "none")}
    [] op = "ValidateOTP" ->
         IF header.kind # "intermediate" THEN Refused
         ELSE {Response(302, "final"), Response(302, "none"), Response(400, "none")}
    [] op = "SocialLogin" ->
         {Response(302, "location"), Response(302, "none"), Response(404, "none")}
    [] op = "LinkSocialProvider" ->
         IF Authenticated(header) THEN {Response(302, "location")} ELSE Refused
    [] op = "SocialLogout" ->
         IF Authenticated(header) THEN {Response(307, "location")} ELSE Refused
    [] op = "Ping" ->
         IF Authenticated(header)
           THEN {Response(200, "none"), Response(307, "location")} ELSE Refused

\* The page a login redirect leads to: the repository says nothing about it.
PageAnswers ==
  {Response(200, "none"), Response(200, "final"), Flagged(200, "final", "set"),
   Response(200, "intermediate"), Response(302, "none"), Response(404, "none")}

IsRedirect(response) == response.code \in {302, 307}

ServerResponds(c) ==
  /\ call[c].pc = "sent"
  /\ \E r \in IF call[c].op = "Login" /\ call[c].hops > 0
                THEN PageAnswers ELSE Answers(call[c].op, call[c].header) :
       /\ IsRedirect(r) => call[c].hops < MaxHops
       /\ call' = [call EXCEPT ![c].pc = "responded", ![c].response = r,
                     ![c].granted = IF r.yield = "none" THEN @ ELSE r.yield]
  /\ UNCHANGED <<disableRedirect, jwt, issued, revoked>>

-----------------------------------------------------------------------------
(* The pipeline. *)

\* The header the generated code sets from the operation's parameters.
ParamHeader(op) ==
  IF op = "LoginWithAPIKey" THEN Credential("apiKey", 0) ELSE NoCredential

\* Mutant: the token is captured when the client is built.
EditedHeaderAtBuild(header) == IF jwt = 0 THEN header ELSE Credential("jwt", 1)

\* Mutant: the editor keeps a copy, which clearing the token leaves in place.
EditedHeaderFromCopy(header) ==
  IF issued = 0 THEN header ELSE Credential("jwt", issued)

\* The editor NewClient installs: it reads the current token, under the lock.
EditedHeader(header) == IF jwt = 0 THEN header ELSE Credential("jwt", jwt)

\* Mutant: an editor of the call only fills in a missing header.
CallHeaderIfMissing(op, header) ==
  IF op = "ValidateOTP" /\ header = NoCredential
    THEN Credential("intermediate", 0) ELSE header

\* The editors of the call itself, which run after the client's.
CallHeader(op, header) ==
  IF op = "ValidateOTP" THEN Credential("intermediate", 0) ELSE header

Start(c, op) ==
  /\ call[c].pc \in {"idle", "done"}
  /\ call' = [call EXCEPT ![c] = [NoCall EXCEPT !.pc = "built", !.op = op,
                                   !.header = ParamHeader(op),
                                   !.found = IF jwt = 0 THEN "nothing" ELSE "token",
                                   !.since = IF jwt = 0 THEN issued + 1 ELSE jwt]]
  /\ UNCHANGED <<disableRedirect, jwt, issued, revoked>>

ClientEditor(c) ==
  /\ call[c].pc = "built"
  /\ call' = [call EXCEPT ![c].pc = "edited", ![c].header = EditedHeader(@)]
  /\ UNCHANGED <<disableRedirect, jwt, issued, revoked>>

CallEditorsAndSend(c) ==
  /\ call[c].pc = "edited"
  /\ call' = [call EXCEPT ![c].pc = "sent",
                          ![c].header = CallHeader(call[c].op, @)]
  /\ UNCHANGED <<disableRedirect, jwt, issued, revoked>>

\* Mutant: one flag for the client, raised while a capturing call runs.
RedirectsDisabledShared(c) ==
  \/ disableRedirect
  \/ \E d \in Callers : /\ call[d].op \in RedirectCapturing
                        /\ call[d].pc \notin {"idle", "done"}

\* Mutant: only the option of the client counts.
RedirectsDisabledByOption(c) == disableRedirect

\* CheckRedirect: the option of the client, or the context of the request.
RedirectsDisabled(c) ==
  disableRedirect \/ call[c].op \in RedirectCapturing

\* Mutant: whatever the status, a response is followed.
FollowAnyResponse(c) ==
  /\ call[c].pc = "responded"
  /\ ~RedirectsDisabled(c)
  /\ call' = [call EXCEPT ![c].pc = "sent", ![c].hops = @ + 1]
  /\ UNCHANGED <<disableRedirect, jwt, issued, revoked>>

FollowRedirect(c) ==
  /\ call[c].pc = "responded"
  /\ IsRedirect(call[c].response)
  /\ ~RedirectsDisabled(c)
  /\ call' = [call EXCEPT ![c].pc = "sent", ![c].hops = @ + 1]
  /\ UNCHANGED <<disableRedirect, jwt, issued, revoked>>

\* Mutant: login accepts the OTP response only, as it did before 0.1.58.
SuccessCodesWithoutRedirect(op) ==
  CASE op \in {"ValidateOTP", "SocialLogin", "LinkSocialProvider"} -> {302}
    [] op = "SocialLogout" -> {307}
    [] OTHER -> {200}

\* The success codes each operation hands to handleResponse.
SuccessCodes(op) ==
  CASE op = "Login" -> {200, 302}
    [] op \in {"ValidateOTP", "SocialLogin", "LinkSocialProvider"} -> {302}
    [] op = "SocialLogout" -> {307}
    [] OTHER -> {200}

\* Operations that fail when a successful response lacks what they return.
Required(op) ==
  op \in TokenOperations \cup {"SocialLogin", "LinkSocialProvider"}

\* Mutant: the response is trusted to contain what it should.
ResultUnchecked(op, r) ==
  IF r.code \notin SuccessCodes(op) THEN NoOutcome
  ELSE Outcome(TRUE, r.yield, op = "Login" /\ r.code = 200 /\ r.otp = "set")

\* Mutant: only the status of a login tells whether an OTP is due.
ResultByStatus(op, r) ==
  IF r.code \notin SuccessCodes(op) \/ (Required(op) /\ r.yield = "none")
    THEN NoOutcome
    ELSE Outcome(TRUE, IF Required(op) THEN r.yield ELSE "none",
                 op = "Login" /\ r.code = 200)

\* What the operation returns for the final response.  A login that ends on a
\* redirect needs no OTP; one that ends on a 200 says what the body says.
Result(op, r) ==
  IF r.code \notin SuccessCodes(op) \/ (Required(op) /\ r.yield = "none")
    THEN NoOutcome
    ELSE Outcome(TRUE, IF Required(op) THEN r.yield ELSE "none",
                 op = "Login" /\ r.code = 200 /\ r.otp = "set")

Finish(c) ==
  /\ call[c].pc = "responded"
  /\ IsRedirect(call[c].response) => RedirectsDisabled(c)
  /\ call' = [call EXCEPT ![c].pc = "done",
                          ![c].outcome = Result(call[c].op, call[c].response)]
  /\ UNCHANGED <<disableRedirect, jwt, issued, revoked>>

Next ==
  \/ SetAuthToken
  \/ ClearAuthToken
  \/ RevokeReplacedToken
  \/ \E c \in Callers :
       \/ \E op \in Operations : Start(c, op)
       \/ ClientEditor(c)
       \/ CallEditorsAndSend(c)
       \/ ServerResponds(c)
       \/ FollowRedirect(c)
       \/ Finish(c)

Spec == Init /\ [][Next]_vars

-----------------------------------------------------------------------------
(* Properties. *)

Done(c, ops) == call[c].pc = "done" /\ call[c].op \in ops

OnTheWire(c) == call[c].pc \in {"sent", "responded", "done"}

(* Hot-swapping makes rotation seamless: a call that began after the new   *)
(* token was installed is never refused because the old one was revoked,   *)
(* whatever the swaps and revocations while it is under way.  (A call that *)
(* began before the swap can be: its header is already made; and so can    *)
(* one that found the client without a token.)                             *)
RotationIsSeamless ==
  \A c \in Callers :
    Done(c, JwtOperations) /\ call[c].response.code = 401 =>
      call[c].since <= revoked \/ call[c].found = "nothing"

(* Replacing or clearing the token is final (account.go:1258-1261): a      *)
(* request of a call that begins afterwards never carries the old token,   *)
(* however the calls, swaps and redirects interleave.                      *)
NoStaleCredential ==
  \A c \in Callers :
    OnTheWire(c) /\ call[c].header.kind = "jwt" => call[c].header.n >= call[c].since

(* ValidateOTP presents the intermediate token of the login it completes,  *)
(* also on a client that has a token of its own or is given one meanwhile. *)
OTPCarriesIntermediate ==
  \A c \in Callers :
    OnTheWire(c) /\ call[c].op = "ValidateOTP" =>
      call[c].header.kind = "intermediate"

(* The token the service hands out in the redirect of ValidateOTP is the   *)
(* one the caller gets: the redirect is never followed past it.            *)
OTPTokenIsReturned ==
  \A c \in Callers :
    Done(c, {"ValidateOTP"}) /\ call[c].granted # "none" =>
      call[c].outcome.ok /\ call[c].outcome.yield = call[c].granted

(* Capturing a redirect is a matter of one request: a plain call that runs *)
(* beside a capturing one never ends on a redirect it should have followed.*)
PlainCallsFollowRedirects ==
  \A c \in Callers :
    Done(c, {"Ping"}) /\ ~disableRedirect =>
      ~IsRedirect(call[c].response)

(* A login that the service itself answers with success says truly whether *)
(* its token still needs an OTP, by the redirect and by the flag of the    *)
(* body: an intermediate token is never passed off as final, nor the       *)
(* reverse.  (A page behind a followed redirect may say anything.)         *)
IntermediateIsFlagged ==
  \A c \in Callers :
    Done(c, {"Login"}) /\ call[c].hops = 0 /\ call[c].outcome.ok =>
      (call[c].outcome.yield = "intermediate" <=> call[c].outcome.otpRequired)

(* No login operation reports success without a token, however the         *)
(* redirects went and whatever page they led to.                           *)
NoTokenNoSuccess ==
  \A c \in Callers :
    Done(c, TokenOperations) /\ call[c].outcome.ok =>
      call[c].outcome.yield \in {"final", "intermediate"}

-----------------------------------------------------------------------------
(* What the documentation says: the code keeps the first for clients that   *)
(* do not follow redirects, and the second for clients without a token.     *)

(* The token the service hands out in the redirect of a login without OTP  *)
(* is the one Login returns (account.go:1299-1310, CHANGELOG 0.1.58).      *)
LoginTokenIsReturned ==
  \A c \in Callers :
    Done(c, {"Login"}) /\ call[c].granted # "none" =>
      call[c].outcome.ok /\ call[c].outcome.yield = call[c].granted

(* The same holds for a client that is built not to follow redirects.      *)
UnfollowedLoginReturnsToken == disableRedirect => LoginTokenIsReturned

(* LoginWithAPIKey authenticates with the API key: the request bears it    *)
(* (account.go:1325 and the assertion in account_test.go:1211).            *)
APIKeyIsPresented ==
  \A c \in Callers :
    OnTheWire(c) /\ call[c].op = "LoginWithAPIKey" =>
      call[c].header.kind = "apiKey"
=============================================================================
