---------------------------- MODULE AwaitSettled ----------------------------
(***************************************************************************)
(* What WaitForOperation promises its caller, without polling, tickers,    *)
(* requests or time: the wait ends once, with one outcome, and             *)
(*   - a settled outcome carries a status the operation really had while   *)
(*     the caller waited, and that the caller asked to wait for;           *)
(*   - the other outcomes that blame the context (the ErrOperationTimeout  *)
(*     error and a request cut short) need the context to be done;         *)
(*   - a done context always ends the wait.                                *)
(* WaitForOperation.tla is shown to implement this specification.          *)
(***************************************************************************)
CONSTANTS
  Statuses,       \* statuses an operation can have
  SettledStates,  \* statuses the caller waits for
  NoStatus        \* placeholder where there is no status

VARIABLES
  seen,      \* statuses the operation has had since the wait began
  expired,   \* TRUE once the context of the wait is done
  outcome    \* how the wait ended, [kind |-> "none", ...] until it does

absVars == <<seen, expired, outcome>>

Waiting == outcome.kind = "none"

Ended(kind, status) == [kind |-> kind, status |-> status]

Init ==
  /\ \E s \in Statuses : seen = {s}
  /\ expired \in BOOLEAN
  /\ outcome = Ended("none", NoStatus)

\* The service moves the operation on.
Progress ==
  /\ \E s \in Statuses : seen' = seen \cup {s}
  /\ UNCHANGED <<expired, outcome>>

\* The deadline passes or the caller cancels.
Expire ==
  /\ expired' = TRUE
  /\ UNCHANGED <<seen, outcome>>

ReturnSettled ==
  /\ Waiting
  /\ \E s \in seen \cap SettledStates : outcome' = Ended("settled", s)
  /\ UNCHANGED <<seen, expired>>

ReturnExpired ==
  /\ Waiting
  /\ expired
  /\ \E kind \in {"timeout", "aborted"} : outcome' = Ended(kind, NoStatus)
  /\ UNCHANGED <<seen, expired>>

\* The service or the network failed a request: the wait gives up.
ReturnFailed ==
  /\ Waiting
  /\ outcome' = Ended("failed", NoStatus)
  /\ UNCHANGED <<seen, expired>>

Return == ReturnSettled \/ ReturnExpired \/ ReturnFailed

Next == Progress \/ Expire \/ Return

\* The deadline is a timer, and a wait whose context is done must end.
AbsFairness ==
  /\ WF_absVars(Expire)
  /\ WF_absVars(Return /\ expired)

SafeSpec == Init /\ [][Next]_absVars

Spec == SafeSpec /\ AbsFairness
=============================================================================
