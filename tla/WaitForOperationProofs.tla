----------------------- MODULE WaitForOperationProofs -----------------------
(***************************************************************************)
(* Proofs about WaitForOperation, for every interval, timeout and set of   *)
(* settled states: the type invariant, the safety properties its runs      *)
(* check, and the safety half of its refinement of AwaitSettled.           *)
(***************************************************************************)
EXTENDS WaitForOperation, TLAPS

\* Requests sent, and ticks the ticker has delivered for requests to come.
Used ==
  polls + (IF tickReady THEN 1 ELSE 0) + (IF pc = "calling" THEN 1 ELSE 0)

\* The pacing argument: every request and every tick still to be used accounts
\* for an interval before the next tick, which is at most one interval ahead.
PaceInv ==
  /\ Used * Interval + Interval <= nextTick
  /\ now < nextTick
  /\ nextTick <= now + Interval

\* What the answers and the outcome say of the operation.
ReplyInv ==
  /\ status \in seen
  /\ reply \in seen \cup {NoStatus}
  /\ pc = "replied" => reply # NoStatus
  /\ reply \in DefaultSettledStates => reply = status
  /\ pc \in {"select", "calling", "sent"} => reply \notin SettledStates

OutcomeInv ==
  /\ pc = "returned" <=> outcome.kind # "none"
  /\ outcome.kind = "settled" =>
       outcome.status = reply /\ reply \in SettledStates
  /\ outcome.kind # "settled" => outcome.status = NoStatus
  /\ outcome.kind \in {"timeout", "aborted"} => CtxDone

IInv == TypeOK /\ PaceInv /\ ReplyInv /\ OutcomeInv

-----------------------------------------------------------------------------

\* More intervals last no less.
LEMMA IntervalsMonotone ==
  ASSUME NEW a \in Nat, NEW b \in Nat, a <= b
  PROVE  /\ a * Interval \in Nat
         /\ a * Interval <= b * Interval
         /\ (b + 1) * Interval = b * Interval + Interval
<1>1. Interval \in Nat
  BY TimingAssumption
<1>2. a * Interval \in Nat
  BY <1>1
<1>3. b - a \in Nat /\ b = a + (b - a)
  OBVIOUS
<1>4. (b - a) * Interval \in Nat
  BY <1>1, <1>3
<1>5. b * Interval = a * Interval + (b - a) * Interval
  BY <1>1, <1>3
<1>6. (b + 1) * Interval = b * Interval + Interval
  BY <1>1
<1>7. QED
  BY <1>2, <1>4, <1>5, <1>6

\* One more tick is paid for by the interval it moves the next tick.
LEMMA OneMoreTick ==
  ASSUME NEW k \in Nat, NEW l \in Nat, NEW t \in Nat,
         l <= k + 1, k * Interval + Interval <= t
  PROVE  l * Interval + Interval <= t + Interval
<1>1. /\ l * Interval \in Nat
      /\ l * Interval <= (k + 1) * Interval
  BY IntervalsMonotone
<1>2. (k + 1) * Interval = k * Interval + Interval
  BY IntervalsMonotone
<1>3. QED
  BY <1>1, <1>2, TimingAssumption

\* Using a tick up, or losing it, needs no time.
LEMMA NoMoreTicks ==
  ASSUME NEW k \in Nat, NEW l \in Nat, NEW t \in Nat,
         l <= k, k * Interval + Interval <= t
  PROVE  l * Interval + Interval <= t
<1>1. l * Interval \in Nat /\ l * Interval <= k * Interval
  BY IntervalsMonotone
<1>2. k * Interval \in Nat
  BY IntervalsMonotone
<1>3. QED
  BY <1>1, <1>2, TimingAssumption

(* Every variable has its type in every state of the call. *)
THEOREM TypeCorrect == SafeSpec => []TypeOK
<1>1. Init => TypeOK
  <2> SUFFICES ASSUME Init PROVE TypeOK
    OBVIOUS
  <2>1. tickReady \in BOOLEAN /\ cancelled \in BOOLEAN
    BY Zenon DEF Init
  <2>2. outcome = [kind |-> "none", status |-> NoStatus]
    BY DEF Init, Ended
  <2>3. QED
    BY <2>1, <2>2, TimingAssumption DEF Init, TypeOK
<1>2. TypeOK /\ [Next]_vars => TypeOK'
  <2> SUFFICES ASSUME TypeOK, [Next]_vars PROVE TypeOK'
    OBVIOUS
  <2> USE DEF TypeOK
  <2>1. CASE OpProgress
    BY <2>1 DEF OpProgress
  <2>2. CASE TimePasses
    <3>1. tickReady' \in BOOLEAN
      BY <2>2, Zenon DEF TimePasses
    <3>2. QED
      BY <2>2, <3>1, TimingAssumption DEF TimePasses
  <2>3. CASE CancelParent
    BY <2>3 DEF CancelParent
  <2>4. CASE SelectDone \/ PollAborted \/ PollFails
    BY <2>4 DEF SelectDone, PollAborted, PollFails, Return, Ended
  <2>5. CASE SelectTick \/ SendRequest
    <3>1. tickReady' \in BOOLEAN
      BY <2>5, Zenon DEF SelectTick, SendRequest
    <3>2. QED
      BY <2>5, <3>1 DEF SelectTick, SendRequest
  <2>6. CASE ServerAnswers
    BY <2>6 DEF ServerAnswers
  <2>7. CASE HandleReply
    BY <2>7 DEF HandleReply, Return, Ended
  <2>8. CASE UNCHANGED vars
    BY <2>8 DEF vars
  <2>9. QED
    BY <2>1, <2>2, <2>3, <2>4, <2>5, <2>6, <2>7, <2>8 DEF Next
<1>3. QED
  BY <1>1, <1>2, PTL DEF SafeSpec

LEMMA InitEstablishes == Init => PaceInv /\ ReplyInv /\ OutcomeInv
<1> SUFFICES ASSUME Init PROVE PaceInv /\ ReplyInv /\ OutcomeInv
  OBVIOUS
<1>1. PaceInv
  BY TimingAssumption DEF Init, PaceInv, Used
<1>2. ReplyInv /\ OutcomeInv
  BY SettledAssumption
     DEF Init, ReplyInv, OutcomeInv, OperationStatus, DefaultSettledStates,
         NoStatus, Ended
<1>3. QED
  BY <1>1, <1>2

\* Pacing: a tick adds one use and one interval, nothing else adds a use.
LEMMA PaceStep == TypeOK /\ PaceInv /\ [Next]_vars => PaceInv'
<1> SUFFICES ASSUME TypeOK, PaceInv, [Next]_vars PROVE PaceInv'
  OBVIOUS
<1>1. Used \in Nat /\ nextTick \in Nat
  BY DEF Used, TypeOK
<1>2. CASE TimePasses /\ now' = nextTick
  <2>1. Used' \in Nat /\ Used' <= Used + 1
    BY <1>2 DEF TimePasses, Used, TypeOK
  <2>2. /\ nextTick' = nextTick + Interval /\ now' = now + 1
        /\ now' < nextTick' /\ nextTick' <= now' + Interval
    BY <1>2, TimingAssumption DEF TimePasses, TypeOK, PaceInv
  <2>3. Used' * Interval + Interval <= nextTick + Interval
    BY <1>1, <2>1, OneMoreTick DEF PaceInv
  <2>4. QED
    BY <2>2, <2>3 DEF PaceInv
<1>3. CASE ~(TimePasses /\ now' = nextTick)
  <2>1. Used' \in Nat /\ Used' <= Used /\ nextTick' = nextTick
    <3>1. CASE TimePasses
      BY <1>3, <3>1 DEF TimePasses, Used, TypeOK
    <3>2. CASE SelectTick \/ SendRequest
      BY <3>2 DEF SelectTick, SendRequest, Used, TypeOK
    <3>3. CASE OpProgress \/ CancelParent \/ ServerAnswers
      BY <3>3 DEF OpProgress, CancelParent, ServerAnswers, Used, TypeOK
    <3>4. CASE SelectDone \/ PollAborted \/ PollFails \/ HandleReply
      BY <3>4 DEF SelectDone, PollAborted, PollFails, HandleReply, Return, Used,
                  TypeOK
    <3>5. CASE UNCHANGED vars
      BY <3>5 DEF vars, Used, TypeOK
    <3>6. QED
      BY <3>1, <3>2, <3>3, <3>4, <3>5 DEF Next
  <2>2. now' < nextTick' /\ nextTick' <= now' + Interval
    BY <1>3, <2>1, TimingAssumption
       DEF Next, vars, TimePasses, OpProgress, CancelParent, SelectDone, SelectTick,
           SendRequest, ServerAnswers, HandleReply, PollAborted, PollFails, Return,
           TypeOK, PaceInv
  <2>3. Used' * Interval + Interval <= nextTick
    BY <1>1, <2>1, NoMoreTicks DEF PaceInv
  <2>4. QED
    BY <2>1, <2>2, <2>3 DEF PaceInv
<1>4. QED
  BY <1>2, <1>3

\* Answers: they are statuses the operation had, and final ones stay true.
LEMMA ReplyStep == TypeOK /\ ReplyInv /\ [Next]_vars => ReplyInv'
<1> SUFFICES ASSUME TypeOK, ReplyInv, [Next]_vars PROVE ReplyInv'
  OBVIOUS
<1> USE SettledAssumption DEF TypeOK, ReplyInv
<1>1. CASE OpProgress
  BY <1>1 DEF OpProgress, Progresses, OperationStatus, DefaultSettledStates
<1>2. CASE ServerAnswers
  BY <1>2 DEF ServerAnswers, OperationStatus, NoStatus
<1>3. CASE HandleReply
  BY <1>3 DEF HandleReply, Return, Settled
<1>4. CASE TimePasses \/ CancelParent
  BY <1>4 DEF TimePasses, CancelParent
<1>5. CASE SelectDone \/ SelectTick \/ SendRequest \/ PollAborted \/ PollFails
  BY <1>5 DEF SelectDone, SelectTick, SendRequest, PollAborted, PollFails, Return
<1>6. CASE UNCHANGED vars
  BY <1>6 DEF vars
<1>7. QED
  BY <1>1, <1>2, <1>3, <1>4, <1>5, <1>6 DEF Next

\* Outcomes: once the call has returned nothing it depends on changes back.
LEMMA OutcomeStep == TypeOK /\ OutcomeInv /\ [Next]_vars => OutcomeInv'
<1> SUFFICES ASSUME TypeOK, OutcomeInv, [Next]_vars PROVE OutcomeInv'
  OBVIOUS
<1> USE TimingAssumption DEF TypeOK, OutcomeInv, CtxDone
<1>1. CASE OpProgress \/ TimePasses \/ CancelParent
  BY <1>1 DEF OpProgress, TimePasses, CancelParent
<1>2. CASE SelectTick \/ SendRequest \/ ServerAnswers
  BY <1>2 DEF SelectTick, SendRequest, ServerAnswers
<1>3. CASE SelectDone \/ PollAborted \/ PollFails
  BY <1>3 DEF SelectDone, PollAborted, PollFails, Return, Ended
<1>4. CASE HandleReply
  BY <1>4 DEF HandleReply, Return, Ended, Settled
<1>5. CASE UNCHANGED vars
  BY <1>5 DEF vars
<1>6. QED
  BY <1>1, <1>2, <1>3, <1>4, <1>5 DEF Next

(* The inductive invariant holds in every state. *)
THEOREM Invariance == SafeSpec => []IInv
<1>1. Init => PaceInv /\ ReplyInv /\ OutcomeInv
  BY InitEstablishes
<1>2. TypeOK /\ PaceInv /\ [Next]_vars => PaceInv'
  BY PaceStep
<1>3. TypeOK /\ ReplyInv /\ [Next]_vars => ReplyInv'
  BY ReplyStep
<1>4. TypeOK /\ OutcomeInv /\ [Next]_vars => OutcomeInv'
  BY OutcomeStep
<1>5. QED
  BY <1>1, <1>2, <1>3, <1>4, TypeCorrect, PTL DEF SafeSpec, IInv

(* The operation the caller gets is one it asked for, and a final one is   *)
(* still in the state returned.                                            *)
THEOREM ReturnedOperationIsFinal == SafeSpec => []ResultIsFinal
<1>1. IInv => ResultIsFinal
  BY SettledAssumption
     DEF IInv, TypeOK, ReplyInv, OutcomeInv, ResultIsFinal, OperationStatus, NoStatus
<1>2. QED
  BY <1>1, Invariance, PTL

(* ErrOperationTimeout and a poll cut short need the context to be done.   *)
THEOREM ContextBlame == SafeSpec => []ContextBlamedOnlyWhenDone
<1>1. IInv => ContextBlamedOnlyWhenDone
  BY DEF IInv, OutcomeInv, ContextBlamedOnlyWhenDone
<1>2. QED
  BY <1>1, Invariance, PTL

(* At most one request per elapsed interval. *)
THEOREM Pacing == SafeSpec => []PollsArePaced
<1>1. ASSUME IInv PROVE PollsArePaced
  <2>1. polls \in Nat /\ Used \in Nat /\ polls <= Used /\ nextTick \in Nat
    BY <1>1 DEF IInv, TypeOK, Used
  <2>2. polls * Interval + Interval <= nextTick
    BY <1>1, <2>1, NoMoreTicks DEF IInv, PaceInv
  <2>3. polls * Interval \in Nat
    BY <2>1, IntervalsMonotone
  <2>4. QED
    BY <1>1, <2>1, <2>2, <2>3, TimingAssumption
       DEF IInv, TypeOK, PaceInv, PollsArePaced
<1>2. IInv => PollsArePaced
  BY <1>1
<1>3. QED
  BY <1>2, Invariance, PTL

(* No request follows a settled answer. *)
THEOREM SettledAnswerIsLast == SafeSpec => NeverPollsPastSettled
<1>1. IInv /\ [Next]_vars => [polls' # polls => ~(reply \in SettledStates)]_vars
  <2> SUFFICES ASSUME IInv, Next, polls' # polls
               PROVE  ~(reply \in SettledStates)
    OBVIOUS
  <2>1. SendRequest
    BY DEF Next, OpProgress, TimePasses, CancelParent, SelectDone, SelectTick,
           ServerAnswers, HandleReply, PollAborted, PollFails, Return
  <2>2. QED
    BY <2>1 DEF IInv, ReplyInv, SendRequest
<1>2. QED
  BY <1>1, Invariance, PTL DEF SafeSpec, NeverPollsPastSettled

(* Every step of the polling loop is a step the promise allows, or none.   *)
THEOREM Refinement == SafeSpec => Promise!SafeSpec
<1>1. Init => Promise!Init
  BY TimingAssumption DEF Init, Promise!Init, CtxDone, Ended, Promise!Ended
<1>2. IInv /\ [Next]_vars => [Promise!Next]_(Promise!absVars)
  <2> SUFFICES ASSUME IInv, [Next]_vars
               PROVE  Promise!Next \/ UNCHANGED Promise!absVars
    OBVIOUS
  <2> USE TimingAssumption DEF IInv, TypeOK, OutcomeInv, Promise!absVars
  <2>1. CASE OpProgress
    BY <2>1 DEF OpProgress, Promise!Next, Promise!Progress, CtxDone
  <2>2. CASE TimePasses \/ CancelParent
    BY <2>2 DEF TimePasses, CancelParent, Promise!Next, Promise!Expire, CtxDone
  <2>3. CASE SelectDone \/ PollAborted
    BY <2>3 DEF SelectDone, PollAborted, Return, Promise!Next, Promise!Return,
                Promise!ReturnExpired, Promise!Waiting, Ended, Promise!Ended, CtxDone
  <2>4. CASE SelectTick \/ SendRequest \/ ServerAnswers
    BY <2>4 DEF SelectTick, SendRequest, ServerAnswers, CtxDone
  <2>5. CASE HandleReply
    <3>1. CASE Settled(reply)
      <4>1. reply \in seen \cap SettledStates
        BY <3>1, <2>5, SettledAssumption
           DEF ReplyInv, HandleReply, Settled, OperationStatus, NoStatus
      <4>2. QED
        BY <2>5, <3>1, <4>1
           DEF HandleReply, Return, Promise!Next, Promise!Return,
               Promise!ReturnSettled, Promise!Waiting, Ended, Promise!Ended, CtxDone
    <3>2. CASE ~Settled(reply)
      BY <2>5, <3>2 DEF HandleReply, CtxDone
    <3>3. QED
      BY <3>1, <3>2
  <2>6. CASE PollFails
    BY <2>6 DEF PollFails, Return, Promise!Next, Promise!Return,
                Promise!ReturnFailed, Promise!Waiting, Ended, Promise!Ended, CtxDone
  <2>7. CASE UNCHANGED vars
    BY <2>7 DEF vars, CtxDone
  <2>8. QED
    BY <2>1, <2>2, <2>3, <2>4, <2>5, <2>6, <2>7 DEF Next
<1>3. QED
  BY <1>1, <1>2, Invariance, PTL DEF SafeSpec, Promise!SafeSpec
=============================================================================
