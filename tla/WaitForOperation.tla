-------------------------- MODULE WaitForOperation --------------------------
(***************************************************************************)
(* Client.WaitForOperation (account.go): one call that polls an operation  *)
(* of the portal service until its status is settled, against the          *)
(* operation as the service moves it on, the ticker that paces the polls,  *)
(* the context that bounds the call and the request a poll has in flight.  *)
(*                                                                         *)
(* Time is a discrete clock.  The ticker is Go's: its channel holds one    *)
(* tick, and a tick that finds the channel full is dropped.  A goroutine   *)
(* may be slow, so time may pass before any of its steps.                  *)
(***************************************************************************)
EXTENDS Integers

CONSTANTS
  Interval,        \* cfg.interval, in clock units
  Timeout,         \* cfg.timeout, in clock units
  SettledStates,   \* cfg.settledStates
  Horizon          \* bound: the clock stops here

ASSUME TimingAssumption ==
  /\ Interval \in Nat \ {0}      \* time.NewTicker panics otherwise
  /\ Timeout \in Nat
  /\ Horizon \in Nat /\ Horizon >= Timeout

(* The statuses of account.go, and "error", which the documentation of the *)
(* service lists too.                                                      *)
OperationStatus ==
  {"pending", "processing", "completed", "failed", "duplicate", "error"}

DefaultSettledStates == {"completed", "failed", "duplicate"}

ASSUME SettledAssumption == SettledStates \subseteq OperationStatus

NoStatus == "no status"

VARIABLES
  status,     \* the operation at the service
  seen,       \* history: every status it has had since the call
  now,        \* the clock; the call is made at 0
  nextTick,   \* when the ticker fires next
  tickReady,  \* a tick is in ticker.C
  cancelled,  \* the caller cancelled the context it passed
  pc,         \* where the call is
  polls,      \* history: how many requests the service has been sent
  reply,      \* the status in the latest answer
  outcome     \* what the call returned

vars == <<status, seen, now, nextTick, tickReady, cancelled, pc, polls, reply,
          outcome>>

Ended(kind, s) == [kind |-> kind, status |-> s]

\* The context of the call is done: its own deadline, or the caller.
CtxDone == cancelled \/ now >= Timeout

\* Mutant: anything but "pending" counts as settled.
SettledAny(s) == s # "pending"

\* Mutant: the default settled states lack "duplicate".
SettledWithoutDuplicate(s) == s \in SettledStates \ {"duplicate"}

Settled(s) == s \in SettledStates

TypeOK ==
  /\ status \in OperationStatus
  /\ seen \subseteq OperationStatus
  /\ now \in 0..Horizon
  /\ nextTick \in Nat
  /\ tickReady \in BOOLEAN
  /\ cancelled \in BOOLEAN
  /\ pc \in {"select", "calling", "sent", "replied", "returned"}
  /\ polls \in Nat
  /\ reply \in OperationStatus \cup {NoStatus}
  /\ outcome \in [kind : {"none", "settled", "timeout", "aborted", "failed"},
                  status : OperationStatus \cup {NoStatus}]

Init ==
  /\ status \in OperationStatus
  /\ seen = {status}
  /\ now = 0
  /\ nextTick = Interval
  /\ tickReady = FALSE
  /\ cancelled = FALSE
  /\ pc = "select"
  /\ polls = 0
  /\ reply = NoStatus
  /\ outcome = Ended("none", NoStatus)

-----------------------------------------------------------------------------
(* The environment of the call. *)

\* The service moves the operation forward; a finished operation stays put.
Progresses(from, to) ==
  \/ from = "pending" /\ to # "pending"
  \/ from = "processing" /\ to \notin {"pending", "processing"}

OpProgress ==
  /\ \E s \in OperationStatus : Progresses(status, s) /\ status' = s
  /\ seen' = seen \cup {status'}
  /\ UNCHANGED <<now, nextTick, tickReady, cancelled, pc, polls, reply, outcome>>

\* One clock unit; a tick that is due goes to the channel unless it is full.
TimePasses ==
  /\ now < Horizon
  /\ now' = now + 1
  /\ IF now' = nextTick
       THEN tickReady' = TRUE /\ nextTick' = nextTick + Interval
       ELSE UNCHANGED <<tickReady, nextTick>>
  /\ UNCHANGED <<status, seen, cancelled, pc, polls, reply, outcome>>

CancelParent ==
  /\ pc # "returned"
  /\ cancelled' = TRUE
  /\ UNCHANGED <<status, seen, now, nextTick, tickReady, pc, polls, reply, outcome>>

-----------------------------------------------------------------------------
(* The call. *)

\* Mutant: the operation is returned as its zero value.
ReturnZero(kind, s) ==
  /\ pc' = "returned"
  /\ outcome' = Ended(kind, "")
  /\ UNCHANGED <<status, seen, now, nextTick, tickReady, cancelled, polls, reply>>

Return(kind, s) ==
  /\ pc' = "returned"
  /\ outcome' = Ended(kind, s)
  /\ UNCHANGED <<status, seen, now, nextTick, tickReady, cancelled, polls, reply>>

\* Mutant: the context is given the interval for a timeout.
SelectDoneEarly ==
  /\ pc = "select"
  /\ cancelled \/ now >= Interval
  /\ Return("timeout", NoStatus)

\* case <-ctx.Done(); select is free to take the other case when both are ready
SelectDone ==
  /\ pc = "select"
  /\ CtxDone
  /\ Return("timeout", NoStatus)

\* Mutant: the loop polls without waiting for the ticker.
SelectAlways ==
  /\ pc = "select"
  /\ pc' = "calling"
  /\ UNCHANGED <<status, seen, now, nextTick, tickReady, cancelled, polls, reply,
                 outcome>>

\* case <-ticker.C
SelectTick ==
  /\ pc = "select"
  /\ tickReady
  /\ tickReady' = FALSE
  /\ pc' = "calling"
  /\ UNCHANGED <<status, seen, now, nextTick, cancelled, polls, reply, outcome>>

\* GetOperation: a request under a done context never leaves the client.
SendRequest ==
  /\ pc = "calling"
  /\ ~CtxDone
  /\ polls' = polls + 1
  /\ pc' = "sent"
  /\ UNCHANGED <<status, seen, now, nextTick, tickReady, cancelled, reply, outcome>>

\* The service reads the operation; the answer is on its way from here on.
ServerAnswers ==
  /\ pc = "sent"
  /\ reply' = status
  /\ pc' = "replied"
  /\ UNCHANGED <<status, seen, now, nextTick, tickReady, cancelled, polls, outcome>>

\* Mutant: a call whose context is done returns whatever it was last told.
HandleReplyLate ==
  /\ pc = "replied"
  /\ IF Settled(reply) \/ CtxDone
       THEN Return("settled", reply)
       ELSE /\ pc' = "select"
            /\ UNCHANGED <<status, seen, now, nextTick, tickReady, cancelled,
                           polls, reply, outcome>>

\* The answer is complete: the call returns it if settled, or loops.
HandleReply ==
  /\ pc = "replied"
  /\ IF Settled(reply)
       THEN Return("settled", reply)
       ELSE /\ pc' = "select"
            /\ UNCHANGED <<status, seen, now, nextTick, tickReady, cancelled,
                           polls, reply, outcome>>

\* Mutant: a request is not bound to the context once it has been sent.
PollAbortedUnsent ==
  /\ pc = "calling"
  /\ CtxDone
  /\ Return("aborted", NoStatus)

\* GetOperation fails because the context was done before it had an answer.
PollAborted ==
  /\ pc \in {"calling", "sent", "replied"}
  /\ CtxDone
  /\ Return("aborted", NoStatus)

\* GetOperation fails otherwise: the network, or a status other than 200.
PollFails ==
  /\ pc \in {"sent", "replied"}
  /\ Return("failed", NoStatus)

CallerStep ==
  SelectDone \/ SelectTick \/ SendRequest \/ HandleReply \/ PollAborted

Next ==
  \/ OpProgress
  \/ TimePasses
  \/ CancelParent
  \/ SelectDone
  \/ SelectTick
  \/ SendRequest
  \/ ServerAnswers
  \/ HandleReply
  \/ PollAborted
  \/ PollFails

(* The clock runs and the calling goroutine is scheduled.  Nothing is      *)
(* assumed of the service: it may never answer and never finish.           *)
Fairness == WF_vars(TimePasses) /\ WF_vars(CallerStep)

SafeSpec == Init /\ [][Next]_vars

Spec == SafeSpec /\ Fairness

-----------------------------------------------------------------------------
(* Properties. *)

(* The operation the caller gets is in a state it asked for, and with the  *)
(* default settled states (which the service never leaves) it is still in  *)
(* that state when the caller looks at the result, however late the answer *)
(* was delivered.                                                          *)
ResultIsFinal ==
  outcome.kind = "settled" =>
    /\ outcome.status \in SettledStates \cap seen
    /\ outcome.status \in DefaultSettledStates => outcome.status = status

(* Blaming the context needs the context: ErrOperationTimeout, or a poll   *)
(* cut short, is never returned while the deadline is ahead and the caller *)
(* has not cancelled.                                                      *)
ContextBlamedOnlyWhenDone ==
  outcome.kind \in {"timeout", "aborted"} => CtxDone

(* The ticker paces the service: at any time the call has sent at most one *)
(* request per interval elapsed, even when slow polls let ticks pile up.   *)
PollsArePaced == polls * Interval <= now

(* An answer that was settled is the last one asked for: the call never    *)
(* polls again after it.                                                   *)
NeverPollsPastSettled ==
  [][polls' # polls => ~(reply \in SettledStates)]_vars

(* The call always ends, even when the service never answers, the          *)
(* operation never settles or a tick is always ready with ctx.Done().      *)
AlwaysReturns == <>(pc = "returned")

(* The call implements its abstract promise.                               *)
Promise == INSTANCE AwaitSettled WITH
  Statuses <- OperationStatus,
  expired <- CtxDone

ImplementsPromise == Promise!Spec

-----------------------------------------------------------------------------
(* What the documentation says and the code does not do. *)

(* account.go:56 documents ErrOperationTimeout as the error returned when  *)
(* WaitForOperation times out, and the README tells callers to test for it:*)
(* a call its own deadline cut short should return that error, also when   *)
(* the deadline fell inside a poll.                                        *)
DeadlineReportedAsTimeout ==
  outcome.kind = "aborted" => cancelled
=============================================================================
