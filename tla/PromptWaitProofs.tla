-------------------------- MODULE PromptWaitProofs --------------------------
(***************************************************************************)
(* Proof about PromptWait, for every interval and timeout and for settled  *)
(* states that the service does not leave: a wait that gives up has missed *)
(* nothing its polls could have seen.                                      *)
(***************************************************************************)
EXTENDS PromptWait, WaitForOperationProofs

FinalStates == {"completed", "failed", "duplicate", "error"}

Ticks == {m * Interval : m \in Nat}

\* Whatever tick there was up to time T, the operation had not settled before.
NothingMissed(T, at) ==
  \A t \in 1..T : t < Timeout /\ t \in Ticks => at >= t

\* settledAt records the status; time passes while the call is idle only.
RecordInv ==
  /\ settledAt \in 0..now \cup {Never}
  /\ settledAt # Never <=> status \in SettledStates
  /\ ~cancelled
  /\ nextTick \in Ticks
  /\ pc # "returned" => now <= Timeout

\* The tick of this moment is dealt with when the call is back in its select.
PromptInv ==
  /\ pc # "returned" => NothingMissed(now - 1, settledAt)
  /\ pc = "select" /\ ~tickReady => NothingMissed(now, settledAt)
  /\ pc = "replied" /\ reply \notin SettledStates => settledAt >= now
  /\ outcome.kind \in {"timeout", "aborted"} => NothingMissed(Timeout - 1, settledAt)

-----------------------------------------------------------------------------

LEMMA TicksAreMultiples ==
  ASSUME NEW t \in Nat, t % Interval = 0
  PROVE  t \in Ticks
<1>1. t = (t \div Interval) * Interval /\ t \div Interval \in Nat
  BY TimingAssumption
<1>2. QED
  BY <1>1 DEF Ticks

\* No tick lies between two that are one interval apart.
LEMMA NoTickBetween ==
  ASSUME NEW t \in Ticks, NEW u \in Ticks, t < u
  PROVE  t + Interval <= u
<1>1. PICK m \in Nat : t = m * Interval
  BY DEF Ticks
<1>2. PICK n \in Nat : u = n * Interval
  BY DEF Ticks
<1>3. m + 1 <= n
  <2> SUFFICES ASSUME n <= m PROVE FALSE
    OBVIOUS
  <2>1. n * Interval <= m * Interval /\ n * Interval \in Nat /\ m * Interval \in Nat
    BY IntervalsMonotone
  <2>2. QED
    BY <1>1, <1>2, <2>1
<1>4. /\ (m + 1) * Interval <= n * Interval
      /\ (m + 1) * Interval = m * Interval + Interval
  BY <1>3, IntervalsMonotone
<1>5. QED
  BY <1>1, <1>2, <1>4

LEMMA NextIsTick ==
  ASSUME NEW t \in Ticks
  PROVE  t \in Nat /\ t + Interval \in Ticks
<1>1. PICK m \in Nat : t = m * Interval
  BY DEF Ticks
<1>2. t \in Nat /\ (m + 1) * Interval = m * Interval + Interval
  BY <1>1, IntervalsMonotone
<1>3. QED
  BY <1>1, <1>2 DEF Ticks

LEMMA PromptImpliesSafe == PromptSpec => SafeSpec
<1>1. PromptInit => Init
  BY DEF PromptInit
<1>2. [PromptNext]_<<vars, settledAt>> => [Next]_vars
  BY DEF PromptNext
<1>3. QED
  BY <1>1, <1>2, PTL DEF PromptSpec, SafeSpec

LEMMA InitialRecord == PromptInit => RecordInv /\ PromptInv
<1> SUFFICES ASSUME PromptInit PROVE RecordInv /\ PromptInv
  OBVIOUS
<1>1. Interval \in Ticks
  <2>1. Interval = 1 * Interval
    BY TimingAssumption
  <2>2. QED
    BY <2>1 DEF Ticks
<1>2. RecordInv
  BY <1>1, TimingAssumption DEF PromptInit, Init, RecordInv, Never
<1>3. PromptInv
  BY TimingAssumption DEF PromptInit, Init, PromptInv, NothingMissed, Ended
<1>4. QED
  BY <1>2, <1>3

\* The service does not leave a final state.
LEMMA RecordStep ==
  ASSUME SettledStates \subseteq FinalStates, TypeOK, RecordInv,
         [PromptNext]_<<vars, settledAt>>
  PROVE  RecordInv'
<1> USE TimingAssumption DEF RecordInv, TypeOK, Never
<1>1. CASE UNCHANGED <<vars, settledAt>>
  BY <1>1 DEF vars
<1>2. CASE PromptNext
  <2> USE <1>2 DEF PromptNext
  <2>1. CASE OpProgress
    BY <2>1 DEF OpProgress, Progresses, FinalStates
  <2>2. CASE TimePasses
    <3>1. nextTick + Interval \in Ticks
      BY NextIsTick
    <3>2. nextTick' \in Ticks
      BY <2>2, <3>1 DEF TimePasses
    <3>3. now' = now + 1 /\ status' = status /\ pc' = pc /\ settledAt' = settledAt
      BY <2>2 DEF TimePasses
    <3>4. pc # "returned" => now < Timeout
      BY <2>2 DEF TimePasses, Idle, CtxDone
    <3>5. settledAt' \in 0..now' \cup {Never}'
      BY <3>3
    <3>6. QED
      BY <2>2, <3>2, <3>3, <3>4, <3>5
  <2>3. CASE CancelParent
    BY <2>3 DEF CancelParent
  <2>4. CASE SelectDone \/ SelectTick \/ SendRequest \/ ServerAnswers \/ HandleReply
             \/ PollAborted \/ PollFails
    BY <2>4 DEF SelectDone, SelectTick, SendRequest, ServerAnswers, HandleReply,
                PollAborted, PollFails, Return
  <2>5. QED
    BY <2>1, <2>2, <2>3, <2>4 DEF Next
<1>3. QED
  BY <1>1, <1>2

\* A wait's record only gets later settlements than the ticks it has seen.
LEMMA RecordKept ==
  ASSUME TypeOK, RecordInv, NEW T \in Int, T <= now, NothingMissed(T, settledAt),
         settledAt' \in Nat, settledAt' = settledAt \/ settledAt' >= now
  PROVE  NothingMissed(T, settledAt')
<1> USE TimingAssumption DEF RecordInv, TypeOK, Never
<1> SUFFICES ASSUME NEW t \in 1..T, t < Timeout, t \in Ticks PROVE settledAt' >= t
  BY DEF NothingMissed
<1>1. settledAt >= t
  BY DEF NothingMissed
<1>2. QED
  BY <1>1

LEMMA PromptStep ==
  ASSUME IInv, RecordInv, RecordInv', PromptInv, [PromptNext]_<<vars, settledAt>>
  PROVE  PromptInv'
<1> USE TimingAssumption DEF IInv, TypeOK, RecordInv, Never
<1>0. /\ settledAt' = settledAt \/ settledAt' = now'
      /\ settledAt \in Nat /\ settledAt' \in Nat /\ now \in Nat
  BY DEF PromptNext
<1>1. CASE UNCHANGED <<vars, settledAt>>
  BY <1>1 DEF vars, PromptInv, NothingMissed
<1>2. CASE PromptNext /\ TimePasses
  <2>1. /\ now' = now + 1 /\ settledAt' = settledAt
        /\ UNCHANGED <<pc, outcome, reply, status>>
    BY <1>2 DEF PromptNext, TimePasses
  <2>2. pc = "returned" \/ (pc = "select" /\ ~tickReady)
    BY <1>2, <2>1 DEF PromptNext, Idle
  <2>3. CASE pc = "returned"
    BY <2>1, <2>3 DEF PromptInv, NothingMissed
  <2>4. CASE pc = "select" /\ ~tickReady
    <3>1. NothingMissed(now, settledAt)
      BY <2>4 DEF PromptInv
    <3>2. NothingMissed(now' - 1, settledAt')
      BY <2>1, <3>1 DEF NothingMissed
    <3>3. ~tickReady' => now + 1 \notin Ticks
      <4> SUFFICES ASSUME ~tickReady', now + 1 \in Ticks PROVE FALSE
        OBVIOUS
      <4>1. now + 1 # nextTick
        BY <1>2 DEF TimePasses
      <4>2. now + 1 < nextTick /\ nextTick <= now + Interval
        BY <4>1 DEF PaceInv
      <4>3. now + 1 + Interval <= nextTick
        BY <4>2, NoTickBetween
      <4>4. QED
        BY <4>2, <4>3
    <3>4. ~tickReady' => NothingMissed(now', settledAt')
      BY <2>1, <3>1, <3>3 DEF NothingMissed
    <3>5. outcome.kind \notin {"timeout", "aborted"}
      BY <2>4 DEF OutcomeInv
    <3>6. QED
      BY <2>1, <2>4, <3>2, <3>4, <3>5 DEF PromptInv
  <2>5. QED
    BY <2>2, <2>3, <2>4
<1>3. CASE PromptNext /\ ~TimePasses
  <2>1. now' = now
    BY <1>3 DEF PromptNext, Next, OpProgress, CancelParent, SelectDone, SelectTick,
                SendRequest, ServerAnswers, HandleReply, PollAborted, PollFails, Return
  <2>2. \A T \in Int : T <= now /\ NothingMissed(T, settledAt) => NothingMissed(T, settledAt')
    BY <1>0, <2>1, RecordKept
  <2>3. pc' # "returned" => pc # "returned"
    BY <1>3 DEF PromptNext, Next, OpProgress, CancelParent, SelectDone, SelectTick,
                SendRequest, ServerAnswers, HandleReply, PollAborted, PollFails, Return
  <2>4. pc' # "returned" => NothingMissed(now' - 1, settledAt')
    BY <2>1, <2>2, <2>3 DEF PromptInv
  <2>5. pc' = "replied" /\ reply' \notin SettledStates => settledAt' >= now'
    <3>1. CASE ServerAnswers
      BY <1>0, <1>3, <2>1, <3>1 DEF ServerAnswers
    <3>2. CASE ~ServerAnswers
      <4>1. pc' = "replied" => pc = "replied" /\ reply' = reply
        BY <1>3, <3>2 DEF PromptNext, Next, OpProgress, CancelParent, SelectDone,
                SelectTick, SendRequest, HandleReply, PollAborted, PollFails, Return
      <4>2. QED
        BY <1>0, <2>1, <4>1 DEF PromptInv
    <3>3. QED
      BY <3>1, <3>2
  <2>6. pc' = "select" /\ ~tickReady' => NothingMissed(now', settledAt')
    <3> SUFFICES ASSUME pc' = "select", ~tickReady' PROVE NothingMissed(now, settledAt')
      BY <2>1
    <3>1. CASE pc = "select" /\ ~tickReady
      BY <2>2, <3>1 DEF PromptInv
    <3>2. CASE ~(pc = "select" /\ ~tickReady)
      <4>1. HandleReply /\ reply \notin SettledStates /\ pc = "replied"
        BY <1>3, <3>2 DEF PromptNext, Next, OpProgress, CancelParent, SelectDone,
             SelectTick, SendRequest, ServerAnswers, HandleReply, PollAborted, PollFails,
             Return, Settled
      <4>2. settledAt >= now
        BY <4>1 DEF PromptInv
      <4>3. settledAt' >= now
        BY <1>0, <2>1, <4>2
      <4>4. QED
        BY <1>0, <2>1, <4>3 DEF NothingMissed
    <3>3. QED
      BY <3>1, <3>2
  <2>7. outcome'.kind \in {"timeout", "aborted"} => NothingMissed(Timeout - 1, settledAt')
    <3> SUFFICES ASSUME outcome'.kind \in {"timeout", "aborted"}
                 PROVE  NothingMissed(Timeout - 1, settledAt')
      OBVIOUS
    <3>1. CASE SelectDone \/ PollAborted
      <4>1. now = Timeout /\ pc # "returned"
        BY <3>1 DEF SelectDone, PollAborted, CtxDone
      <4>2. NothingMissed(Timeout - 1, settledAt)
        BY <4>1 DEF PromptInv
      <4>3. QED
        BY <2>2, <4>1, <4>2
    <3>2. CASE ~(SelectDone \/ PollAborted)
      <4>1. outcome.kind \in {"timeout", "aborted"}
        BY <1>3, <3>2 DEF PromptNext, Next, OpProgress, CancelParent, SelectTick,
             SendRequest, ServerAnswers, HandleReply, PollFails, Return, Ended
      <4>2. now >= Timeout
        BY <4>1 DEF OutcomeInv, CtxDone
      <4>3. QED
        BY <2>2, <4>1, <4>2 DEF PromptInv
    <3>3. QED
      BY <3>1, <3>2
  <2>8. QED
    BY <2>4, <2>5, <2>6, <2>7 DEF PromptInv
<1>4. QED
  BY <1>1, <1>2, <1>3

(* In a prompt environment a wait that gives up has missed nothing: the    *)
(* operation had not settled before any tick ahead of the deadline         *)
(* (the ticker and the select of WaitForOperation).                        *)
THEOREM NothingIsMissed ==
  ASSUME SettledStates \subseteq FinalStates
  PROVE  PromptSpec => []NoSettledOperationMissed
<1>1. RecordInv /\ PromptInv /\ IInv => NoSettledOperationMissed
  <2> SUFFICES ASSUME PromptInv, outcome.kind \in {"timeout", "aborted"},
                      NEW t \in 1..(Timeout - 1), t % Interval = 0
               PROVE  settledAt >= t
    BY DEF NoSettledOperationMissed
  <2>1. t \in Ticks /\ t < Timeout
    BY TicksAreMultiples, TimingAssumption
  <2>2. QED
    BY <2>1 DEF PromptInv, NothingMissed
<1>2. TypeOK /\ RecordInv /\ [PromptNext]_<<vars, settledAt>> => RecordInv'
  BY RecordStep
<1>3. IInv /\ RecordInv /\ RecordInv' /\ PromptInv /\ [PromptNext]_<<vars, settledAt>>
        => PromptInv'
  BY PromptStep
<1>4. IInv => TypeOK
  BY DEF IInv
<1>5. PromptSpec => []IInv
  BY PromptImpliesSafe, Invariance, PTL
<1>6. PromptInit => RecordInv /\ PromptInv
  BY InitialRecord
<1>7. QED
  BY <1>1, <1>2, <1>3, <1>4, <1>5, <1>6, PTL DEF PromptSpec
=============================================================================
