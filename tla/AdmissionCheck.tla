--------------------------- MODULE AdmissionCheck ---------------------------
(***************************************************************************)
(* What a download rate limiter promises (account.go:1988-1998, 2020-2034):*)
(* a download is judged by the quota as it is at one instant between the   *)
(* call and its return, and its caller is told that judgement or an error. *)
(* How the quota is read, and what happens to it meanwhile, is left open.  *)
(***************************************************************************)
EXTENDS Integers

CONSTANTS
  Downloaders,            \* callers of one limiter
  Sizes,                  \* sizes they ask about
  Judgements(_, _, _, _)  \* what a limiter may judge a limit, a usage and a size

VARIABLES
  limiter,       \* the kind of limiter
  limit, used,   \* the quota
  size,          \* what each caller asked about last
  stage,         \* "idle", "asked" or "judged"
  judgement,     \* "admitted" or "refused", of the one judged
  verdict        \* what each caller was told last

callVars == <<size, stage, judgement, verdict>>
vars == <<limiter, limit, used, callVars>>

Init ==
  /\ size = [d \in Downloaders |-> 0]
  /\ stage = [d \in Downloaders |-> "idle"]
  /\ judgement = [d \in Downloaders |-> "none"]
  /\ verdict = [d \in Downloaders |-> "none"]

QuotaChanges == UNCHANGED <<limiter, callVars>>

\* A negative size is refused without a look at the quota.
Ask(d, s) ==
  /\ stage[d] = "idle"
  /\ size' = [size EXCEPT ![d] = s]
  /\ stage' = [stage EXCEPT ![d] = IF s < 0 THEN "idle" ELSE "asked"]
  /\ verdict' = [verdict EXCEPT ![d] = IF s < 0 THEN "refused" ELSE "none"]
  /\ UNCHANGED <<limiter, limit, used, judgement>>

Judge(d) ==
  /\ stage[d] = "asked"
  /\ stage' = [stage EXCEPT ![d] = "judged"]
  /\ \E j \in Judgements(limiter, limit, used, size[d]) :
       judgement' = [judgement EXCEPT ![d] = j]
  /\ UNCHANGED <<limiter, limit, used, size, verdict>>

Tell(d) ==
  /\ stage[d] = "judged"
  /\ stage' = [stage EXCEPT ![d] = "idle"]
  /\ judgement' = [judgement EXCEPT ![d] = "none"]
  /\ verdict' = [verdict EXCEPT ![d] = judgement[d]]
  /\ UNCHANGED <<limiter, limit, used, size>>

Fail(d) ==
  /\ stage[d] \in {"asked", "judged"}
  /\ stage' = [stage EXCEPT ![d] = "idle"]
  /\ judgement' = [judgement EXCEPT ![d] = "none"]
  /\ verdict' = [verdict EXCEPT ![d] = "failed"]
  /\ UNCHANGED <<limiter, limit, used, size>>

Next ==
  \/ QuotaChanges
  \/ \E d \in Downloaders :
       Judge(d) \/ Tell(d) \/ Fail(d) \/ \E s \in Sizes : Ask(d, s)

Spec == Init /\ [][Next]_vars
=============================================================================
