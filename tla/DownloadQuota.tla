---------------------------- MODULE DownloadQuota ----------------------------
(***************************************************************************)
(* The two download rate limiters of account.go, CreateDownloadRateLimiter *)
(* ("size") and CreateDownloadPercentLimitedRateLimiter ("percent"), under *)
(* concurrent downloads.  A limiter asks the service for the quota and     *)
(* decides on the answer; the download it admits is charged when it has    *)
(* taken place, and plans and windows change at any moment.                *)
(***************************************************************************)
EXTENDS Integers, FiniteSets

CONSTANTS
  Downloaders,   \* goroutines that download and share the limiter
  Sizes,         \* sizes of downloads
  MaxSize,       \* the largest of them
  Limits,        \* limits of the plans that have one
  Unlimited,     \* the limit of a plan without one (Remaining is nil)
  Threshold,     \* thresholdPercent
  MaxCalls       \* calls of the limiter by one downloader

ASSUME QuotaAssumption ==
  /\ IsFiniteSet(Downloaders) /\ Downloaders # {}
  /\ MaxSize \in Nat /\ Sizes \subseteq Int /\ \A s \in Sizes : s <= MaxSize
  /\ Limits \subseteq Nat \ {0} /\ Unlimited \notin Nat
  /\ Threshold \in 0..100 /\ MaxCalls \in Nat

VARIABLES
  limiter,      \* "size" or "percent"
  limit,        \* of the account's plan
  used,         \* what the service has charged in the window
  peak,         \* the highest limit so far
  pc,           \* "idle", "asked", "read" (the quota has been), "downloading"
  size,         \* of the download asked about
  reading,      \* the quota as it was read
  verdict,      \* what the limiter returned last: (true, nil), (false, nil), err
  calls,        \* number of calls, bounded by MaxCalls
  overlapped    \* a download was asked about while another was under way

vars == <<limiter, limit, used, peak, pc, size, reading, verdict, calls, overlapped>>

Plans == Limits \cup {Unlimited}

Reading(remaining, percentage) == [remaining |-> remaining, percentage |-> percentage]
NoReading == Reading(0, 0)

-----------------------------------------------------------------------------
(* The quota of the service (external). *)

Remaining(l, u) == IF l = Unlimited THEN Unlimited ELSE IF u > l THEN 0 ELSE l - u

\* The percentage is an int, rounded in some way.
Percentages(l, u) ==
  IF l = Unlimited THEN {0}
  ELSE {p \in 0..(100 * u + 1) : 100 * u < p * l + l /\ p * l < 100 * u + l}

Readings(l, u) == {Reading(Remaining(l, u), p) : p \in Percentages(l, u)}

ChangePlan ==
  /\ limit' \in Plans /\ limit' # limit
  /\ peak' = IF peak = Unlimited \/ limit' = Unlimited THEN Unlimited
             ELSE IF limit' > peak THEN limit' ELSE peak
  /\ UNCHANGED <<limiter, used, pc, size, reading, verdict, calls, overlapped>>

ResetWindow ==
  /\ used > 0 /\ used' = 0
  /\ UNCHANGED <<limiter, limit, peak, pc, size, reading, verdict, calls, overlapped>>

-----------------------------------------------------------------------------
(* A call of the limiter. *)

Return(d, v, next) ==
  /\ pc' = [pc EXCEPT ![d] = next]
  /\ verdict' = [verdict EXCEPT ![d] = v]
  /\ reading' = [reading EXCEPT ![d] = NoReading]

\* Mutant: what is still being downloaded makes room for one more.
AdmitsOneMore(k, r, s) ==
  \/ r.remaining = Unlimited
  \/ k = "size" /\ r.remaining + 1 >= s
  \/ k = "percent" /\ r.percentage < Threshold

\* The last statements of the limiters.
Admits(k, r, s) ==
  \/ r.remaining = Unlimited
  \/ k = "size" /\ r.remaining >= s
  \/ k = "percent" /\ r.percentage < Threshold

Judgement(k, r, s) == IF Admits(k, r, s) THEN "admitted" ELSE "refused"

\* Mutant: a negative size is checked like any other.
AskUnchecked(d) ==
  /\ pc[d] = "idle" /\ calls[d] < MaxCalls
  /\ calls' = [calls EXCEPT ![d] = @ + 1]
  /\ pc' = [pc EXCEPT ![d] = "asked"]
  /\ verdict' = [verdict EXCEPT ![d] = "none"]
  /\ \E s \in Sizes : size' = [size EXCEPT ![d] = s]
  /\ overlapped' = (overlapped \/ \E e \in Downloaders : pc[e] # "idle")
  /\ UNCHANGED <<limiter, limit, used, peak, reading>>

\* A negative size is refused before the quota is read.
Ask(d) ==
  /\ pc[d] = "idle" /\ calls[d] < MaxCalls
  /\ calls' = [calls EXCEPT ![d] = @ + 1]
  /\ \E s \in Sizes :
       /\ size' = [size EXCEPT ![d] = s]
       /\ pc' = [pc EXCEPT ![d] = IF s < 0 THEN "idle" ELSE "asked"]
       /\ verdict' = [verdict EXCEPT ![d] = IF s < 0 THEN "refused" ELSE "none"]
  /\ overlapped' = (overlapped \/ \E e \in Downloaders : pc[e] # "idle")
  /\ UNCHANGED <<limiter, limit, used, peak, reading>>

\* Mutant: a quota that another call has read is used again.
ReadCached(d) ==
  /\ pc[d] = "asked"
  /\ pc' = [pc EXCEPT ![d] = "read"]
  /\ \E r \in Readings(limit, used) \cup {reading[e] : e \in Downloaders} :
       r # NoReading /\ reading' = [reading EXCEPT ![d] = r]
  /\ UNCHANGED <<limiter, limit, used, peak, size, verdict, calls, overlapped>>

\* GetQuota, as the service answers it.
ReadQuota(d) ==
  /\ pc[d] = "asked"
  /\ pc' = [pc EXCEPT ![d] = "read"]
  /\ \E r \in Readings(limit, used) : reading' = [reading EXCEPT ![d] = r]
  /\ UNCHANGED <<limiter, limit, used, peak, size, verdict, calls, overlapped>>

\* GetQuota fails, before or after the service read the quota.
FailQuota(d) ==
  /\ pc[d] \in {"asked", "read"}
  /\ Return(d, "failed", "idle")
  /\ UNCHANGED <<limiter, limit, used, peak, size, calls, overlapped>>

Decide(d) ==
  /\ pc[d] = "read"
  /\ Return(d, Judgement(limiter, reading[d], size[d]),
            IF Admits(limiter, reading[d], size[d]) THEN "downloading" ELSE "idle")
  /\ UNCHANGED <<limiter, limit, used, peak, size, calls, overlapped>>

\* The service charges a download that took place (external).
Charge(d) ==
  /\ pc[d] = "downloading"
  /\ pc' = [pc EXCEPT ![d] = "idle"]
  /\ used' = used + size[d]
  /\ UNCHANGED <<limiter, limit, peak, size, reading, verdict, calls, overlapped>>

\* The download does not take place (external).
Abandon(d) ==
  /\ pc[d] = "downloading"
  /\ pc' = [pc EXCEPT ![d] = "idle"]
  /\ UNCHANGED <<limiter, limit, used, peak, size, reading, verdict, calls, overlapped>>

Init ==
  /\ limiter \in {"size", "percent"}
  /\ limit \in Plans /\ peak = limit /\ used = 0
  /\ pc = [d \in Downloaders |-> "idle"]
  /\ size = [d \in Downloaders |-> 0]
  /\ reading = [d \in Downloaders |-> NoReading]
  /\ verdict = [d \in Downloaders |-> "none"]
  /\ calls = [d \in Downloaders |-> 0]
  /\ overlapped = FALSE

Next ==
  \/ ChangePlan
  \/ ResetWindow
  \/ \E d \in Downloaders :
       \/ Ask(d) \/ ReadQuota(d) \/ FailQuota(d) \/ Decide(d)
       \/ Charge(d) \/ Abandon(d)

Spec == Init /\ [][Next]_vars

-----------------------------------------------------------------------------
(* Properties. *)

TypeOK ==
  /\ limiter \in {"size", "percent"}
  /\ limit \in Plans /\ peak \in Plans /\ used \in Nat
  /\ pc \in [Downloaders -> {"idle", "asked", "read", "downloading"}]
  /\ size \in [Downloaders -> Sizes \cup {0}]
  /\ reading \in [Downloaders -> [remaining : Nat \cup {Unlimited}, percentage : Nat]]
  /\ verdict \in [Downloaders -> {"none", "admitted", "refused", "failed"}]
  /\ calls \in [Downloaders -> 0..MaxCalls]
  /\ overlapped \in BOOLEAN

\* How far one download that a limiter admits may go beyond the limit.
Slack == IF limiter = "size" THEN 0 ELSE MaxSize - 1

(* Check and charge are apart: downloads that are admitted on the same     *)
(* quota exceed it together, but by no more than what one of them may      *)
(* exceed it by and the largest download for each of the others.           *)
OvershootIsBounded ==
  peak # Unlimited =>
    used <= peak + Slack + (Cardinality(Downloaders) - 1) * MaxSize

(* One download at a time never exceeds the quota under the size limiter,  *)
(* and by less than one download under the percent limiter, which does not *)
(* look at the size.                                                       *)
SequentialUseFits ==
  peak # Unlimited /\ ~overlapped => used <= peak + Slack

\* What the limiter may judge on a quota, for the abstract specification.
Judgements(k, l, u, s) == {Judgement(k, r, s) : r \in Readings(l, u)}

Check == INSTANCE AdmissionCheck WITH
  stage <- [d \in Downloaders |->
              IF pc[d] = "asked" THEN "asked"
              ELSE IF pc[d] = "read" THEN "judged" ELSE "idle"],
  judgement <- [d \in Downloaders |->
                  IF pc[d] = "read" THEN Judgement(limiter, reading[d], size[d])
                  ELSE "none"]

(* Each verdict is what an atomic check of the quota at one instant of the *)
(* call would have given, or an error: no verdict mixes two states of the  *)
(* quota, or is older than the call.                                       *)
ImplementsCheck == Check!Spec
=============================================================================
