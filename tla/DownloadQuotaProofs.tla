------------------------- MODULE DownloadQuotaProofs -------------------------
(***************************************************************************)
(* Proofs about DownloadQuota, for every set of downloaders, sizes, limits *)
(* and threshold: the type invariant, both bounds on what is downloaded,   *)
(* and the refinement of AdmissionCheck.                                   *)
(***************************************************************************)
EXTENDS DownloadQuota, FiniteSetTheorems, TLAPS

-----------------------------------------------------------------------------

\* What the service answers is a reading.
LEMMA ReadingsType ==
  ASSUME NEW l \in Plans, NEW u \in Nat, NEW r \in Readings(l, u)
  PROVE  /\ r \in [remaining : Nat \cup {Unlimited}, percentage : Nat]
         /\ r.remaining = Remaining(l, u)
         /\ r.percentage \in Percentages(l, u)
<1>1. PICK p \in Percentages(l, u) : r = Reading(Remaining(l, u), p)
  BY DEF Readings
<1>2. Remaining(l, u) \in Nat \cup {Unlimited}
  BY QuotaAssumption DEF Remaining, Plans
<1>3. p \in Nat
  BY <1>1 DEF Percentages
<1>4. QED
  BY <1>1, <1>2, <1>3 DEF Reading

LEMMA NoReadingType ==
  NoReading \in [remaining : Nat \cup {Unlimited}, percentage : Nat]
BY DEF NoReading, Reading

LEMMA SizesInt ==
  ASSUME NEW s \in Sizes \cup {0}
  PROVE  s \in Int /\ s <= MaxSize
<1>1. MaxSize \in Nat
  BY QuotaAssumption
<1>2. CASE s \in Sizes
  BY <1>2, QuotaAssumption, Zenon
<1>3. CASE s = 0
  BY <1>1, <1>3
<1>4. QED
  BY <1>2, <1>3

\* A size that was let past the first check is not negative.
SizesFit == \A d \in Downloaders : pc[d] # "idle" => size[d] >= 0

LEMMA TypeStep == TypeOK /\ SizesFit /\ [Next]_vars => TypeOK' /\ SizesFit'
<1> SUFFICES ASSUME TypeOK, SizesFit, [Next]_vars PROVE TypeOK' /\ SizesFit'
  OBVIOUS
<1> USE DEF TypeOK, SizesFit
<1>1. CASE ChangePlan
  BY <1>1, QuotaAssumption DEF ChangePlan, Plans
<1>2. CASE ResetWindow
  BY <1>2 DEF ResetWindow
<1>3. ASSUME NEW d \in Downloaders, Ask(d) PROVE TypeOK' /\ SizesFit'
  <2>1. overlapped' \in BOOLEAN
    BY <1>3, Zenon DEF Ask
  <2>2. calls'[d] \in 0..MaxCalls
    BY <1>3, QuotaAssumption DEF Ask
  <2>3. QED
    BY <1>3, <2>1, <2>2, QuotaAssumption DEF Ask
<1>4. ASSUME NEW d \in Downloaders, ReadQuota(d) PROVE TypeOK' /\ SizesFit'
  BY <1>4, ReadingsType DEF ReadQuota
<1>5. ASSUME NEW d \in Downloaders, FailQuota(d) PROVE TypeOK' /\ SizesFit'
  BY <1>5, NoReadingType DEF FailQuota, Return
<1>6. ASSUME NEW d \in Downloaders, Decide(d) PROVE TypeOK' /\ SizesFit'
  <2>1. CASE Admits(limiter, reading[d], size[d])
    BY <1>6, <2>1, NoReadingType DEF Decide, Return, Judgement
  <2>2. CASE ~Admits(limiter, reading[d], size[d])
    BY <1>6, <2>2, NoReadingType DEF Decide, Return, Judgement
  <2>3. QED
    BY <2>1, <2>2
<1>7. ASSUME NEW d \in Downloaders, Abandon(d) PROVE TypeOK' /\ SizesFit'
  BY <1>7 DEF Abandon
<1>8. ASSUME NEW d \in Downloaders, Charge(d) PROVE TypeOK' /\ SizesFit'
  <2>1. size[d] \in Int
    BY SizesInt
  <2>2. size[d] >= 0
    BY <1>8 DEF Charge
  <2>3. QED
    BY <1>8, <2>1, <2>2 DEF Charge
<1>9. CASE UNCHANGED vars
  BY <1>9 DEF vars
<1>10. QED
  BY <1>1, <1>2, <1>3, <1>4, <1>5, <1>6, <1>7, <1>8, <1>9 DEF Next

LEMMA InitialTypes == Init => TypeOK /\ SizesFit
<1> SUFFICES ASSUME Init PROVE TypeOK /\ SizesFit
  OBVIOUS
<1>1. overlapped \in BOOLEAN
  BY Zenon DEF Init
<1>2. QED
  BY <1>1, NoReadingType, QuotaAssumption DEF Init, TypeOK, SizesFit

(* Every variable has its type: no download ever makes the usage negative, *)
(* because a negative size is refused before the quota is read.            *)
THEOREM TypeCorrect == Spec => [](TypeOK /\ SizesFit)
BY InitialTypes, TypeStep, PTL DEF Spec

-----------------------------------------------------------------------------

(* Every verdict is the judgement of one instant of the call, or an error. *)
THEOREM LimiterIsACheck == Spec => ImplementsCheck
<1> DEFINE Judged(d) == IF pc[d] = "read" THEN Judgement(limiter, reading[d], size[d])
                       ELSE "none"
<1>1. Init => Check!Init
  <2> SUFFICES ASSUME Init PROVE Check!Init
    OBVIOUS
  <2>1. \A d \in Downloaders : pc[d] = "idle"
    BY DEF Init
  <2>2. QED
    BY <2>1 DEF Init, Check!Init
<1>2. TypeOK /\ [Next]_vars => [Check!Next]_Check!vars
  <2> SUFFICES ASSUME TypeOK, [Next]_vars PROVE [Check!Next]_Check!vars
    OBVIOUS
  <2> USE DEF TypeOK
  <2>1. CASE ChangePlan \/ ResetWindow
    BY <2>1 DEF ChangePlan, ResetWindow, Check!Next, Check!QuotaChanges, Check!callVars
  <2>2. ASSUME NEW d \in Downloaders, Ask(d) PROVE Check!Next
    <3>1. PICK s \in Sizes :
            /\ size' = [size EXCEPT ![d] = s]
            /\ pc' = [pc EXCEPT ![d] = IF s < 0 THEN "idle" ELSE "asked"]
            /\ verdict' = [verdict EXCEPT ![d] = IF s < 0 THEN "refused" ELSE "none"]
      BY <2>2 DEF Ask
    <3>2. \A e \in Downloaders : Judged(e)' = Judged(e)
      <4> TAKE e \in Downloaders
      <4>1. CASE e = d
        BY <2>2, <3>1, <4>1 DEF Ask
      <4>2. CASE e # d
        BY <2>2, <3>1, <4>2 DEF Ask
      <4>3. QED
        BY <4>1, <4>2
    <3>3. [e \in Downloaders |-> Judged(e)]' = [e \in Downloaders |-> Judged(e)]
      BY <3>2, Zenon
    <3>4. Check!Ask(d, s)
      BY <2>2, <3>1, <3>3 DEF Ask, Check!Ask
    <3>5. QED
      BY <3>4 DEF Check!Next
  <2>3. ASSUME NEW d \in Downloaders, ReadQuota(d) PROVE Check!Next
    <3>1. PICK r \in Readings(limit, used) : reading' = [reading EXCEPT ![d] = r]
      BY <2>3 DEF ReadQuota
    <3>2. Judgement(limiter, r, size[d]) \in Judgements(limiter, limit, used, size[d])
      BY Zenon DEF Judgements
    <3>3. [e \in Downloaders |-> Judged(e)]' =
            [[e \in Downloaders |-> Judged(e)] EXCEPT
               ![d] = Judgement(limiter, r, size[d])]
      BY <2>3, <3>1 DEF ReadQuota
    <3>4. Check!Judge(d)
      BY <2>3, <3>2, <3>3 DEF ReadQuota, Check!Judge
    <3>5. QED
      BY <3>4 DEF Check!Next
  <2>4. ASSUME NEW d \in Downloaders, Decide(d) PROVE Check!Next
    <3>1. CASE Admits(limiter, reading[d], size[d])
      BY <2>4, <3>1 DEF Decide, Return, Check!Next, Check!Tell
    <3>2. CASE ~Admits(limiter, reading[d], size[d])
      BY <2>4, <3>2 DEF Decide, Return, Check!Next, Check!Tell
    <3>3. QED
      BY <3>1, <3>2
  <2>5. ASSUME NEW d \in Downloaders, FailQuota(d) PROVE Check!Next
    BY <2>5 DEF FailQuota, Return, Check!Next, Check!Fail
  <2>6. ASSUME NEW d \in Downloaders, Abandon(d) \/ Charge(d) PROVE Check!Next
    BY <2>6 DEF Abandon, Charge, Check!Next, Check!QuotaChanges, Check!callVars
  <2>7. CASE UNCHANGED vars
    BY <2>7 DEF vars, Check!vars, Check!callVars
  <2>8. QED
    BY <2>1, <2>2, <2>3, <2>4, <2>5, <2>6, <2>7 DEF Next
<1>3. QED
  BY <1>1, <1>2, TypeCorrect, PTL DEF Spec, ImplementsCheck, Check!Spec

-----------------------------------------------------------------------------
(* The bounds.  A downloader is committed when it downloads, or is about   *)
(* to: the quota it has read admits it.                                    *)

Committed ==
  {d \in Downloaders :
     /\ size[d] > 0
     /\ \/ pc[d] = "downloading"
        \/ pc[d] = "read" /\ Admits(limiter, reading[d], size[d])}

\* What the downloads of a set will at most bring a usage of u to.
Fits(H, u, sz, B) ==
  /\ H = {} => u <= B
  /\ H # {} => \E d \in H : u + sz[d] + (Cardinality(H) - 1) * MaxSize <= B

LEMMA DownloadsMonotone ==
  ASSUME NEW a \in Nat, NEW b \in Nat, a <= b
  PROVE  /\ a * MaxSize \in Nat /\ b * MaxSize \in Nat
         /\ a * MaxSize <= b * MaxSize
         /\ (b + 1) * MaxSize = b * MaxSize + MaxSize
<1>1. MaxSize \in Nat
  BY QuotaAssumption
<1>2. a * MaxSize \in Nat
  BY <1>1
<1>3. b - a \in Nat /\ b = a + (b - a)
  OBVIOUS
<1>4. (b - a) * MaxSize \in Nat
  BY <1>1, <1>3
<1>5. b * MaxSize = a * MaxSize + (b - a) * MaxSize
  BY <1>1, <1>3
<1>6. (b + 1) * MaxSize = b * MaxSize + MaxSize
  BY <1>1
<1>7. QED
  BY <1>2, <1>4, <1>5, <1>6

LEMMA FitsNow ==
  ASSUME NEW H, IsFiniteSet(H), NEW u \in Int, NEW B \in Int, NEW sz,
         \A e \in H : sz[e] \in 0..MaxSize, Fits(H, u, sz, B)
  PROVE  u <= B
<1>1. CASE H = {}
  BY <1>1 DEF Fits
<1>2. CASE H # {}
  <2>1. Cardinality(H) \in Nat /\ Cardinality(H) # 0
    BY <1>2, FS_CardinalityType, FS_EmptySet
  <2>2. (Cardinality(H) - 1) * MaxSize \in Nat
    BY <2>1, DownloadsMonotone
  <2>3. PICK d \in H : u + sz[d] + (Cardinality(H) - 1) * MaxSize <= B
    BY <1>2 DEF Fits
  <2>4. sz[d] \in Nat
    OBVIOUS
  <2>5. QED
    BY <2>2, <2>3, <2>4
<1>3. QED
  BY <1>1, <1>2

LEMMA FitsLess ==
  ASSUME NEW H, IsFiniteSet(H), NEW sz, \A e \in H : sz[e] \in 0..MaxSize,
         NEW u \in Int, NEW B \in Int, NEW v \in Int, NEW C \in Int,
         v <= u, B <= C, Fits(H, u, sz, B)
  PROVE  Fits(H, v, sz, C)
<1>1. CASE H = {}
  BY <1>1 DEF Fits
<1>2. CASE H # {}
  <2>1. PICK d \in H : u + sz[d] + (Cardinality(H) - 1) * MaxSize <= B
    BY <1>2 DEF Fits
  <2>2. PICK x \in Int : (Cardinality(H) - 1) * MaxSize = x
    BY FS_CardinalityType, QuotaAssumption
  <2>3. sz[d] \in Int
    BY QuotaAssumption
  <2>4. v + sz[d] + x <= C
    BY <2>1, <2>2, <2>3
  <2>5. QED
    BY <1>2, <2>2, <2>4 DEF Fits
<1>3. QED
  BY <1>1, <1>2

\* One download fewer, whether or not it was charged.
LEMMA FitsWithout ==
  ASSUME NEW H, IsFiniteSet(H), NEW u \in Int, NEW B \in Int, NEW sz,
         \A e \in H : sz[e] \in 0..MaxSize, Fits(H, u, sz, B), NEW d \in H
  PROVE  /\ Fits(H \ {d}, u, sz, B)
         /\ Fits(H \ {d}, u + sz[d], sz, B)
<1> DEFINE n == Cardinality(H)
<1>1. n \in Nat /\ n # 0
  BY FS_CardinalityType, FS_EmptySet
<1>2. IsFiniteSet(H \ {d}) /\ Cardinality(H \ {d}) = n - 1
  BY FS_RemoveElement
<1>3. PICK f \in H : u + sz[f] + (n - 1) * MaxSize <= B
  BY DEF Fits
<1>4. sz[d] \in 0..MaxSize /\ sz[f] \in 0..MaxSize
  OBVIOUS
<1>5. CASE H \ {d} = {}
  <2>1. n - 1 = 0
    BY <1>2, <1>5, FS_EmptySet
  <2>2. (n - 1) * MaxSize = 0
    BY <2>1, QuotaAssumption
  <2>3. f = d
    BY <1>5
  <2>4. u + sz[d] <= B
    BY <1>3, <1>4, <2>2, <2>3
  <2>5. QED
    BY <1>4, <1>5, <2>4 DEF Fits
<1>6. CASE H \ {d} # {}
  <2>1. n - 1 \in Nat /\ n - 1 # 0
    BY <1>1, <1>2, <1>6, FS_EmptySet
  <2>2. n - 2 \in Nat /\ (n - 2) + 1 = n - 1
    BY <2>1, <1>1
  <2>3. PICK x \in Nat :
          x = (n - 2) * MaxSize /\ (n - 1) * MaxSize = x + MaxSize
    BY <2>2, DownloadsMonotone
  <2>4. PICK e \in H \ {d} : f # d => e = f
    BY <1>6
  <2>5. sz[e] \in 0..MaxSize
    OBVIOUS
  <2>6. u + sz[f] + (x + MaxSize) <= B
    BY <1>3, <2>3
  <2>7. u + sz[d] + sz[e] + x <= B
    <3>1. CASE f = d
      BY <1>4, <2>5, <2>6, <3>1, QuotaAssumption
    <3>2. CASE f # d
      <4>1. sz[e] = sz[f]
        BY <2>4, <3>2
      <4>2. QED
        BY <1>4, <2>6, <4>1, QuotaAssumption
    <3>3. QED
      BY <3>1, <3>2
  <2>8. Cardinality(H \ {d}) - 1 = n - 2
    BY <1>1, <1>2
  <2>9. /\ u + sz[e] + x <= B
        /\ (u + sz[d]) + sz[e] + x <= B
    BY <1>4, <2>5, <2>7
  <2>10. QED
    BY <1>6, <2>3, <2>8, <2>9 DEF Fits
<1>7. QED
  BY <1>5, <1>6

\* One download more: it fits by itself, each of the others adds its size.
LEMMA FitsWith ==
  ASSUME NEW H, H \subseteq Downloaders, NEW u \in Int, NEW P \in Int, NEW sz,
         NEW d \in Downloaders, u + sz[d] <= P, sz[d] \in Int
  PROVE  Fits(H \cup {d}, u, sz, P + (Cardinality(Downloaders) - 1) * MaxSize)
<1> DEFINE K == H \cup {d}
<1>1. IsFiniteSet(K) /\ Cardinality(K) <= Cardinality(Downloaders)
  BY FS_Subset, QuotaAssumption
<1>2. Cardinality(K) \in Nat /\ Cardinality(K) # 0 /\ Cardinality(Downloaders) \in Nat
  BY <1>1, FS_CardinalityType, FS_EmptySet, QuotaAssumption
<1>3. /\ (Cardinality(K) - 1) * MaxSize \in Nat
      /\ (Cardinality(Downloaders) - 1) * MaxSize \in Nat
      /\ (Cardinality(K) - 1) * MaxSize <= (Cardinality(Downloaders) - 1) * MaxSize
  <2>1. /\ Cardinality(K) - 1 \in Nat /\ Cardinality(Downloaders) - 1 \in Nat
        /\ Cardinality(K) - 1 <= Cardinality(Downloaders) - 1
    BY <1>1, <1>2
  <2>2. QED
    BY <2>1, DownloadsMonotone
<1>4. u + sz[d] + (Cardinality(K) - 1) * MaxSize
        <= P + (Cardinality(Downloaders) - 1) * MaxSize
  BY <1>3
<1>5. QED
  BY <1>4 DEF Fits

\* What a limiter admits on a reading fits, by itself, at that moment.
LEMMA AdmittedFits ==
  ASSUME TypeOK, limit # Unlimited, NEW r \in Readings(limit, used),
         NEW s \in 1..MaxSize, Admits(limiter, r, s)
  PROVE  used + s <= limit + Slack
<1> USE DEF TypeOK
<1>1. limit \in Nat \ {0} /\ used \in Nat /\ MaxSize \in Nat
  BY QuotaAssumption DEF Plans
<1>2. r.remaining = Remaining(limit, used) /\ r.percentage \in Percentages(limit, used)
  BY ReadingsType
<1>3. Remaining(limit, used) \in Nat
  BY <1>1 DEF Remaining
<1>4. r.remaining # Unlimited
  BY <1>2, <1>3, QuotaAssumption
<1>5. CASE limiter = "size"
  BY <1>1, <1>2, <1>4, <1>5 DEF Admits, Remaining, Slack
<1>6. CASE limiter = "percent"
  <2>1. r.percentage < Threshold
    BY <1>4, <1>6 DEF Admits
  <2>2. PICK p \in Nat : p <= 99 /\ 100 * used < p * limit + limit
    BY <1>2, <2>1, QuotaAssumption DEF Percentages
  <2>3. PICK x \in Nat, y \in Nat : p * limit = x /\ 99 * limit = x + y
    <3>1. 99 - p \in Nat
      BY <2>2
    <3>2. (99 - p) * limit \in Nat /\ p * limit \in Nat
      BY <3>1, <1>1
    <3>3. 99 * limit = p * limit + (99 - p) * limit
      BY <1>1, <3>1
    <3>4. QED
      BY <3>2, <3>3
  <2>4. 100 * used < x + limit /\ x <= 99 * limit
    BY <2>2, <2>3, <1>1
  <2>5. used < limit
    BY <2>4, <1>1
  <2>6. QED
    BY <2>5, <1>1, <1>6 DEF Slack
<1>7. QED
  BY <1>5, <1>6

-----------------------------------------------------------------------------

\* The highest limit is one, and is not below the present one.
PeakInv ==
  peak # Unlimited => limit # Unlimited /\ limit <= peak

\* Without overlap one downloader at most is busy; what it is committed to fits.
AloneInv ==
  ~overlapped =>
    /\ \A d, e \in Downloaders : pc[d] # "idle" /\ pc[e] # "idle" => d = e
    /\ peak # Unlimited =>
         /\ used <= peak + Slack
         /\ \A d \in Committed : used + size[d] <= peak + Slack

\* With overlap, all that the downloaders are committed to fits the overshoot.
TogetherInv ==
  peak # Unlimited =>
    Fits(Committed, used, size,
         peak + Slack + (Cardinality(Downloaders) - 1) * MaxSize)

Inv == TypeOK /\ SizesFit /\ PeakInv /\ AloneInv /\ TogetherInv

Bound == peak + Slack + (Cardinality(Downloaders) - 1) * MaxSize

LEMMA CommittedFacts ==
  ASSUME TypeOK
  PROVE  /\ Committed \subseteq Downloaders
         /\ IsFiniteSet(Committed)
         /\ \A d \in Committed : size[d] \in 1..MaxSize
<1>1. Committed \subseteq Downloaders
  BY DEF Committed
<1>2. IsFiniteSet(Committed)
  BY <1>1, FS_Subset, QuotaAssumption
<1>3. ASSUME NEW d \in Committed PROVE size[d] \in 1..MaxSize
  <2>1. size[d] \in Sizes \cup {0} /\ size[d] > 0
    BY <1>3 DEF Committed, TypeOK
  <2>2. size[d] \in Int /\ size[d] <= MaxSize
    BY <2>1, SizesInt
  <2>3. QED
    BY <2>1, <2>2, QuotaAssumption
<1>4. QED
  BY <1>1, <1>2, <1>3

LEMMA BoundType ==
  ASSUME TypeOK, peak # Unlimited
  PROVE  /\ peak \in Nat \ {0} /\ Slack \in Int /\ Slack >= -1
         /\ (Cardinality(Downloaders) - 1) * MaxSize \in Nat
         /\ Bound \in Int /\ peak + Slack <= Bound
<1>1. peak \in Nat \ {0}
  BY QuotaAssumption DEF TypeOK, Plans
<1>2. Slack \in Int /\ Slack >= -1
  BY QuotaAssumption DEF Slack
<1>3. Cardinality(Downloaders) - 1 \in Nat
  BY FS_CardinalityType, FS_EmptySet, QuotaAssumption
<1>4. (Cardinality(Downloaders) - 1) * MaxSize \in Nat
  BY <1>3, DownloadsMonotone
<1>5. QED
  BY <1>1, <1>2, <1>4 DEF Bound

LEMMA InitialInv == Init => Inv
<1> SUFFICES ASSUME Init PROVE Inv
  OBVIOUS
<1>1. TypeOK /\ SizesFit
  BY InitialTypes
<1>2. Committed = {}
  BY DEF Init, Committed
<1>3. PeakInv
  BY <1>1, QuotaAssumption DEF Init, PeakInv, Plans
<1>4. peak # Unlimited => used <= peak + Slack /\ used <= Bound
  BY <1>1, BoundType DEF Init
<1>5. AloneInv
  BY <1>2, <1>4 DEF Init, AloneInv
<1>6. TogetherInv
  BY <1>2, <1>4 DEF TogetherInv, Fits, Bound
<1>7. QED
  BY <1>1, <1>3, <1>5, <1>6 DEF Inv

\* The quota changes: no one commits, the bounds do not shrink.
LEMMA QuotaStep ==
  ASSUME Inv, ChangePlan \/ ResetWindow, TypeOK', SizesFit'
  PROVE  PeakInv' /\ AloneInv' /\ TogetherInv'
<1> USE DEF Inv
<1>1. Committed' = Committed /\ Slack' = Slack /\ UNCHANGED <<size, pc, overlapped>>
  BY DEF ChangePlan, ResetWindow, Committed, Slack
<1>2. PeakInv'
  BY QuotaAssumption DEF ChangePlan, ResetWindow, PeakInv, TypeOK, Plans
<1>3. peak' # Unlimited =>
        /\ peak # Unlimited /\ peak <= peak' /\ used' <= used
        /\ peak \in Nat /\ peak' \in Nat /\ used \in Nat /\ used' \in Nat
  BY QuotaAssumption DEF ChangePlan, ResetWindow, PeakInv, TypeOK, Plans
<1>4. AloneInv'
  <2>1. ASSUME ~overlapped', peak' # Unlimited
        PROVE  /\ used' <= peak' + Slack'
               /\ \A d \in Committed' : used' + size'[d] <= peak' + Slack'
    <3>1. Slack \in Int /\ \A d \in Committed : size[d] \in Int
      BY <1>3, <2>1, BoundType, CommittedFacts
    <3>2. /\ used <= peak + Slack
          /\ \A d \in Committed : used + size[d] <= peak + Slack
      BY <1>1, <1>3, <2>1 DEF AloneInv
    <3>3. /\ used' <= peak' + Slack
          /\ \A d \in Committed : used' + size[d] <= peak' + Slack
      BY <1>3, <2>1, <3>1, <3>2
    <3>4. QED
      BY <1>1, <3>3
  <2>2. QED
    BY <1>1, <2>1 DEF AloneInv
<1>5. TogetherInv'
  <2> SUFFICES ASSUME peak' # Unlimited PROVE TogetherInv'
    BY DEF TogetherInv
  <2> DEFINE M == (Cardinality(Downloaders) - 1) * MaxSize
  <2>1. Fits(Committed, used, size, peak + Slack + M)
    BY <1>3 DEF TogetherInv
  <2>2. M \in Nat /\ Slack \in Int
    BY <1>3, BoundType
  <2>3. /\ peak + Slack + M \in Int /\ peak' + Slack + M \in Int
        /\ peak + Slack + M <= peak' + Slack + M
    <3> HIDE DEF M
    <3> QED
      BY <1>3, <2>2
  <2>4. \A d \in Committed : size[d] \in 0..MaxSize
    BY CommittedFacts
  <2>5. Fits(Committed, used', size, peak' + Slack + M)
    BY <1>3, <2>1, <2>3, <2>4, FitsLess, CommittedFacts
  <2>6. QED
    BY <1>1, <2>5 DEF TogetherInv
<1>6. QED
  BY <1>2, <1>4, <1>5

LEMMA AskStep ==
  ASSUME Inv, NEW d \in Downloaders, Ask(d)
  PROVE  PeakInv' /\ AloneInv' /\ TogetherInv'
<1> USE DEF Inv
<1>1. UNCHANGED <<limiter, limit, used, peak, reading, Slack>> /\ pc[d] = "idle"
  BY DEF Ask, Slack
<1>2. \A e \in Downloaders \ {d} : pc'[e] = pc[e] /\ size'[e] = size[e]
  BY DEF Ask, TypeOK
<1>3. pc'[d] \in {"idle", "asked"}
  BY DEF Ask, TypeOK
<1>4. Committed' = Committed /\ d \notin Committed
  BY <1>1, <1>2, <1>3 DEF Committed
<1>5. PeakInv'
  BY <1>1 DEF PeakInv
<1>6. AloneInv'
  <2> SUFFICES ASSUME ~overlapped' PROVE AloneInv'
    BY DEF AloneInv
  <2>1. ~overlapped /\ \A e \in Downloaders : pc[e] = "idle"
    BY DEF Ask
  <2>2. Committed = {}
    BY <2>1 DEF Committed
  <2>3. \A e, f \in Downloaders : pc'[e] # "idle" /\ pc'[f] # "idle" => e = f
    BY <1>2, <2>1
  <2>4. QED
    BY <1>1, <1>4, <2>1, <2>2, <2>3 DEF AloneInv
<1>7. TogetherInv'
  <2>1. \A e \in Committed : size'[e] = size[e]
    BY <1>2, <1>4, CommittedFacts
  <2>2. QED
    BY <1>1, <1>4, <2>1 DEF TogetherInv, Fits
<1>8. QED
  BY <1>5, <1>6, <1>7

LEMMA ReadStep ==
  ASSUME Inv, NEW d \in Downloaders, ReadQuota(d)
  PROVE  PeakInv' /\ AloneInv' /\ TogetherInv'
<1> USE DEF Inv
<1>1. /\ UNCHANGED <<limiter, limit, used, peak, size, overlapped, Slack>>
      /\ pc[d] = "asked" /\ pc' = [pc EXCEPT ![d] = "read"]
  BY DEF ReadQuota, Slack
<1>2. PICK r \in Readings(limit, used) : reading' = [reading EXCEPT ![d] = r]
  BY DEF ReadQuota
<1>3. PeakInv'
  BY <1>1 DEF PeakInv
<1>4. \A e \in Downloaders \ {d} : pc'[e] = pc[e] /\ reading'[e] = reading[e]
  BY <1>1, <1>2 DEF TypeOK
<1>5. pc'[d] = "read" /\ reading'[d] = r
  BY <1>1, <1>2 DEF TypeOK
<1>6. d \notin Committed
  BY <1>1 DEF Committed
<1>7. CASE ~(size[d] > 0 /\ Admits(limiter, r, size[d]))
  <2>1. Committed' = Committed
    BY <1>1, <1>4, <1>5, <1>6, <1>7 DEF Committed
  <2>2. \A e \in Downloaders : pc'[e] # "idle" => pc[e] # "idle"
    BY <1>1, <1>4
  <2>3. QED
    BY <1>1, <1>3, <2>1, <2>2 DEF AloneInv, TogetherInv
<1>8. CASE size[d] > 0 /\ Admits(limiter, r, size[d])
  <2>1. Committed' = Committed \cup {d}
    BY <1>1, <1>4, <1>5, <1>6, <1>8 DEF Committed
  <2>2. \A e \in Downloaders : pc'[e] # "idle" => pc[e] # "idle"
    BY <1>1, <1>4
  <2>3. d \in Committed' /\ size[d] \in Int
    BY <2>1, SizesInt DEF TypeOK
  <2>4. size[d] \in 1..MaxSize
    <3>1. size[d] \in Int /\ size[d] <= MaxSize
      BY SizesInt DEF TypeOK
    <3>2. QED
      BY <1>8, <3>1, QuotaAssumption
  <2>5. ASSUME peak # Unlimited
        PROVE  used + size[d] <= peak + Slack
    <3>1. limit # Unlimited /\ limit <= peak
      BY <2>5 DEF PeakInv
    <3>2. used + size[d] <= limit + Slack
      BY <1>8, <2>4, <3>1, AdmittedFits
    <3>3. limit \in Int /\ peak \in Int /\ Slack \in Int /\ used + size[d] \in Int
      BY <2>3, <2>5, <3>1, BoundType, QuotaAssumption DEF TypeOK, Plans
    <3>4. QED
      BY <3>1, <3>2, <3>3
  <2>6. AloneInv'
    BY <1>1, <2>1, <2>2, <2>5 DEF AloneInv
  <2>7. TogetherInv'
    <3> SUFFICES ASSUME peak # Unlimited PROVE TogetherInv'
      BY <1>1 DEF TogetherInv
    <3>1. peak + Slack \in Int /\ used \in Int
      BY BoundType DEF TypeOK
    <3>2. Fits(Committed \cup {d}, used, size,
               peak + Slack + (Cardinality(Downloaders) - 1) * MaxSize)
      BY <2>3, <2>5, <3>1, FitsWith, CommittedFacts
    <3>3. QED
      BY <1>1, <2>1, <3>2 DEF TogetherInv
  <2>8. QED
    BY <1>3, <2>6, <2>7
<1>9. QED
  BY <1>7, <1>8

\* A limiter that returns, and a download that ends uncharged, commit no one.
LEMMA ReleaseStep ==
  ASSUME Inv, NEW d \in Downloaders, FailQuota(d) \/ Decide(d) \/ Abandon(d)
  PROVE  PeakInv' /\ AloneInv' /\ TogetherInv'
<1> USE DEF Inv
<1>1. UNCHANGED <<limiter, limit, used, peak, size, overlapped, Slack>>
  BY DEF FailQuota, Decide, Abandon, Slack
<1>2. /\ pc[d] # "idle" /\ pc[d] \in {"asked", "read", "downloading"}
      /\ pc'[d] \in {"idle", "downloading"}
      /\ \A e \in Downloaders \ {d} : pc'[e] = pc[e] /\ reading'[e] = reading[e]
  BY DEF FailQuota, Decide, Abandon, Return, TypeOK
<1>3. pc'[d] = "downloading" => pc[d] = "read" /\ Admits(limiter, reading[d], size[d])
  BY DEF FailQuota, Decide, Abandon, Return, TypeOK
<1>4. PeakInv'
  BY <1>1 DEF PeakInv
<1>5. \/ Committed' = Committed
      \/ Committed' = Committed \ {d} /\ d \in Committed
  <2>1. \A e \in Downloaders \ {d} : e \in Committed' <=> e \in Committed
    BY <1>1, <1>2 DEF Committed
  <2>2. d \in Committed' => d \in Committed
    BY <1>1, <1>2, <1>3 DEF Committed
  <2>3. Committed \subseteq Downloaders /\ Committed' \subseteq Downloaders
    BY DEF Committed
  <2>4. QED
    BY <2>1, <2>2, <2>3
<1>6. AloneInv'
  BY <1>1, <1>2, <1>5 DEF AloneInv
<1>7. TogetherInv'
  <2> SUFFICES ASSUME peak # Unlimited PROVE TogetherInv'
    BY <1>1 DEF TogetherInv
  <2>1. Fits(Committed, used, size, Bound) /\ Bound \in Int /\ used \in Int
    BY BoundType DEF TogetherInv, Bound, TypeOK
  <2>2. \A e \in Committed : size[e] \in 0..MaxSize
    BY CommittedFacts
  <2>3. Fits(Committed', used, size, Bound)
    BY <1>5, <2>1, <2>2, FitsWithout, CommittedFacts
  <2>4. QED
    BY <1>1, <2>3 DEF TogetherInv, Bound
<1>8. QED
  BY <1>4, <1>6, <1>7

LEMMA ChargeStep ==
  ASSUME Inv, NEW d \in Downloaders, Charge(d)
  PROVE  PeakInv' /\ AloneInv' /\ TogetherInv'
<1> USE DEF Inv
<1>1. /\ UNCHANGED <<limiter, limit, peak, size, reading, overlapped, Slack>>
      /\ pc[d] = "downloading" /\ used' = used + size[d]
  BY DEF Charge, Slack
<1>2. pc'[d] = "idle" /\ \A e \in Downloaders \ {d} : pc'[e] = pc[e]
  BY DEF Charge, TypeOK
<1>3. PeakInv'
  BY <1>1 DEF PeakInv
<1>4. Committed' = Committed \ {d}
  BY <1>1, <1>2 DEF Committed
<1>5. d \notin Committed => used' = used
  <2>1. size[d] \in Int /\ size[d] >= 0
    BY <1>1, SizesInt DEF SizesFit, TypeOK
  <2>2. d \notin Committed => size[d] = 0
    BY <1>1, <2>1 DEF Committed
  <2>3. QED
    BY <1>1, <2>2 DEF TypeOK
<1>6. AloneInv'
  <2> SUFFICES ASSUME ~overlapped' PROVE AloneInv'
    BY DEF AloneInv
  <2>1. \A e \in Downloaders : pc'[e] = "idle"
    BY <1>1, <1>2 DEF AloneInv
  <2>2. Committed' = {}
    BY <2>1 DEF Committed
  <2>3. peak # Unlimited => used' <= peak + Slack
    BY <1>1, <1>5 DEF AloneInv
  <2>4. QED
    BY <1>1, <2>1, <2>2, <2>3 DEF AloneInv
<1>7. TogetherInv'
  <2> SUFFICES ASSUME peak # Unlimited PROVE TogetherInv'
    BY <1>1 DEF TogetherInv
  <2>1. Fits(Committed, used, size, Bound) /\ Bound \in Int /\ used \in Int
    BY BoundType DEF TogetherInv, Bound, TypeOK
  <2>2. \A e \in Committed : size[e] \in 0..MaxSize
    BY CommittedFacts
  <2>3. CASE d \in Committed
    <3>1. Fits(Committed \ {d}, used + size[d], size, Bound)
      BY <2>1, <2>2, <2>3, FitsWithout, CommittedFacts
    <3>2. QED
      BY <1>1, <1>4, <3>1 DEF TogetherInv, Bound
  <2>4. CASE d \notin Committed
    <3>1. Committed' = Committed
      BY <1>4, <2>4
    <3>2. QED
      BY <1>1, <1>5, <2>1, <2>4, <3>1 DEF TogetherInv, Bound
  <2>5. QED
    BY <2>3, <2>4
<1>8. QED
  BY <1>3, <1>6, <1>7

LEMMA InductiveStep == Inv /\ [Next]_vars => Inv'
<1> SUFFICES ASSUME Inv, [Next]_vars PROVE Inv'
  OBVIOUS
<1>1. TypeOK' /\ SizesFit'
  BY TypeStep DEF Inv
<1>2. CASE ChangePlan \/ ResetWindow
  BY <1>1, <1>2, QuotaStep DEF Inv
<1>3. ASSUME NEW d \in Downloaders, Ask(d) PROVE Inv'
  BY <1>1, <1>3, AskStep DEF Inv
<1>4. ASSUME NEW d \in Downloaders, ReadQuota(d) PROVE Inv'
  BY <1>1, <1>4, ReadStep DEF Inv
<1>5. ASSUME NEW d \in Downloaders, FailQuota(d) \/ Decide(d) \/ Abandon(d)
      PROVE  Inv'
  BY <1>1, <1>5, ReleaseStep DEF Inv
<1>6. ASSUME NEW d \in Downloaders, Charge(d) PROVE Inv'
  BY <1>1, <1>6, ChargeStep DEF Inv
<1>7. CASE UNCHANGED vars
  BY <1>1, <1>7 DEF vars, Inv, PeakInv, AloneInv, TogetherInv, Committed, Slack
<1>8. QED
  BY <1>2, <1>3, <1>4, <1>5, <1>6, <1>7 DEF Next

(* However many downloads overlap, what they exceed the highest limit by   *)
(* is bounded: one admission's own excess, and the largest download for    *)
(* each other downloader that may have been admitted on the same quota.    *)
THEOREM OvershootBounded == Spec => []OvershootIsBounded
<1>1. Inv => OvershootIsBounded
  <2> SUFFICES ASSUME Inv, peak # Unlimited PROVE used <= Bound
    BY DEF OvershootIsBounded, Bound
  <2>1. Fits(Committed, used, size, Bound)
    BY DEF Inv, TogetherInv, Bound
  <2>2. Bound \in Int /\ used \in Int
    BY BoundType DEF Inv, TypeOK
  <2>3. \A e \in Committed : size[e] \in 0..MaxSize
    BY CommittedFacts DEF Inv
  <2>4. QED
    BY <2>1, <2>2, <2>3, FitsNow, CommittedFacts DEF Inv
<1>2. QED
  BY <1>1, InitialInv, InductiveStep, PTL DEF Spec

(* Downloads that do not overlap keep to the highest limit (size limiter), *)
(* or exceed it by less than one download (percent limiter).               *)
THEOREM SequentialFits == Spec => []SequentialUseFits
<1>1. Inv => SequentialUseFits
  BY DEF Inv, AloneInv, SequentialUseFits
<1>2. QED
  BY <1>1, InitialInv, InductiveStep, PTL DEF Spec
=============================================================================
