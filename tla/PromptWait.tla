----------------------------- MODULE PromptWait -----------------------------
(***************************************************************************)
(* WaitForOperation in a prompt environment: the goroutine is scheduled,   *)
(* and the service answers without error, before the clock moves on, and   *)
(* the caller does not cancel.  What the wait then owes its caller is      *)
(* timeliness, which WaitForOperation alone cannot promise.                *)
(***************************************************************************)
EXTENDS WaitForOperation

VARIABLE settledAt   \* history: when the operation settled, Never before

Never == Horizon + 1

\* The call waits in its select with neither case ready, or is over.
Idle == (pc = "select" /\ ~tickReady /\ ~CtxDone) \/ pc = "returned"

PromptInit ==
  /\ Init
  /\ settledAt = IF status \in SettledStates THEN 0 ELSE Never

PromptNext ==
  /\ Next
  /\ now' # now => Idle
  /\ ~cancelled'
  /\ outcome'.kind # "failed"
  /\ settledAt' = IF settledAt = Never /\ status' \in SettledStates
                    THEN now' ELSE settledAt

PromptSpec == PromptInit /\ [][PromptNext]_<<vars, settledAt>>

(* A wait that gives up has missed nothing its polls could have seen: the  *)
(* operation had not settled before any tick ahead of the deadline, the    *)
(* last one included.  (The tick that falls on the deadline itself may go  *)
(* unused, because the select may take ctx.Done() instead.)                *)
NoSettledOperationMissed ==
  outcome.kind \in {"timeout", "aborted"} =>
    \A t \in 1..(Timeout - 1) : t % Interval = 0 => settledAt >= t
=============================================================================
