--------------------------- MODULE Knowledge_proof ---------------------------
(***************************************************************************)
(* Proofs about what the program stores, looks up and ranks: for any       *)
(* conversations, messages, things, titles, phrases and bounds.  Then      *)
(* about all that runs beside the router, with the proofs of its own.      *)
(***************************************************************************)
EXTENDS MCRouter, Router_proof, Records_proof, SequenceTheorems

-----------------------------------------------------------------------------
(* Numbers, and places in a sequence *)

LEMMA LeastNumber ==
  ASSUME NEW T \in SUBSET Nat, T # {}
  PROVE  \E n \in T : \A m \in T : n <= m
<1>. DEFINE less == {p \in Nat \X Nat : p[1] < p[2]}
<1>1. IsWellFoundedOn(less, Nat)
  BY NatLessThanWellFounded DEF OpToRel
<1>2. PICK n \in T : \A m \in T : ~ (<<m, n>> \in less)
  <2>. HIDE DEF less
  <2>. QED
    BY <1>1, WFMin
<1>3. \A m \in T : ~ (m < n)
  BY <1>2
<1>. QED
  BY <1>3

LEMMA GreatestNumber ==
  ASSUME NEW N \in Nat, NEW T \in SUBSET (0 .. N), T # {}
  PROVE  \E n \in T : \A m \in T : m <= n
<1>. DEFINE U == {k \in Nat : \E n \in T : k = N - n}
<1>1. PICK t \in T : TRUE
  OBVIOUS
<1>2. N - t \in U
  OBVIOUS
<1>. HIDE DEF U
<1>3. U \in SUBSET Nat /\ U # {}
  BY <1>2 DEF U
<1>4. PICK k \in U : \A j \in U : k <= j
  BY <1>3, LeastNumber
<1>5. PICK n \in T : k = N - n
  BY <1>4 DEF U
<1>6. \A m \in T : N - m \in U
  BY DEF U
<1>7. \A m \in T : m <= n
  <2>. SUFFICES ASSUME NEW m \in T PROVE m <= n
    OBVIOUS
  <2>1. k <= N - m
    BY <1>4, <1>6
  <2>. QED
    BY <1>5, <2>1
<1>. QED
  BY <1>7

\* A set of numbers that begins with 0 and goes on has them all.
LEMMA InductionOn ==
  ASSUME NEW T \in SUBSET Nat, 0 \in T, \A n \in T : n + 1 \in T
  PROVE  T = Nat
<1>. DEFINE C == Nat \ T
<1>. SUFFICES ASSUME C # {} PROVE FALSE
  OBVIOUS
<1>1. PICK x \in C : \A y \in C : x <= y
  BY LeastNumber
<1>2. x # 0 /\ x - 1 \in Nat
  BY <1>1
<1>3. x - 1 \in T
  BY <1>1, <1>2
<1>. QED
  BY <1>1, <1>2, <1>3

UpTo(I, i) == {j \in I : j <= i}

\* There is an n-th place, for each n up to their number.
LEMMA PlacesAre ==
  ASSUME NEW N \in Nat, NEW I \in SUBSET (1 .. N), NEW n \in 1 .. Cardinality(I)
  PROVE  PlaceOf(I, n) \in I /\ Cardinality(UpTo(I, PlaceOf(I, n))) = n
<1>0. \A J \in SUBSET I : IsFiniteSet(J) /\ Cardinality(J) \in Nat
  <2>1. IsFiniteSet(1 .. N)
    BY FS_Interval
  <2>2. IsFiniteSet(I)
    BY <2>1, FS_Subset
  <2>. QED
    BY <2>2, FS_Subset, FS_CardinalityType
<1>. DEFINE T == {i \in I : Cardinality(UpTo(I, i)) >= n}
<1>1. T # {}
  <2>1. I # {}
    BY FS_EmptySet
  <2>2. PICK m \in I : \A i \in I : i <= m
    <3>1. I \in SUBSET (0 .. N)
      OBVIOUS
    <3>. QED
      BY <2>1, <3>1, GreatestNumber
  <2>3. UpTo(I, m) = I
    BY <2>2 DEF UpTo
  <2>4. Cardinality(I) >= n
    BY <1>0
  <2>. QED
    BY <2>2, <2>3, <2>4
<1>2. PICK i \in T : \A j \in T : i <= j
  <2>1. \A j \in I : j \in Nat
    OBVIOUS
  <2>2. T \in SUBSET Nat
    BY <2>1
  <2>. HIDE DEF T
  <2>. QED
    BY <1>1, <2>2, LeastNumber
<1>3. Cardinality(UpTo(I, i)) = n
  <2>1. i \in I /\ Cardinality(UpTo(I, i)) >= n /\ Cardinality(UpTo(I, i)) \in Nat
    BY <1>0, <1>2 DEF UpTo
  <2>. SUFFICES ASSUME Cardinality(UpTo(I, i)) > n PROVE FALSE
    BY <2>1
  <2>. DEFINE L == UpTo(I, i) \ {i}
  <2>2. L \in SUBSET I /\ IsFiniteSet(L) /\ i \in UpTo(I, i) /\ IsFiniteSet(UpTo(I, i))
    BY <1>0, <2>1 DEF UpTo
  <2>3. Cardinality(L) = Cardinality(UpTo(I, i)) - 1
    BY <2>2, FS_RemoveElement
  <2>4. Cardinality(L) >= n /\ Cardinality(L) \in Nat
    BY <1>0, <2>1, <2>2, <2>3
  <2>5. L # {}
    BY <2>4, FS_EmptySet
  <2>6. PICK k \in L : \A j \in L : j <= k
    <3>. HIDE DEF L
    <3>1. L \in SUBSET (0 .. N)
      BY <2>2
    <3>. QED
      BY <2>5, <3>1, GreatestNumber
  <2>7. k \in I /\ k < i /\ k \in Nat
    BY <2>1, <2>6 DEF UpTo
  <2>8. UpTo(I, k) = L
    <3>1. \A j \in I : j <= k => j <= i /\ j # i
      BY <2>1, <2>7
    <3>2. \A j \in I : j <= i /\ j # i => j <= k
      BY <2>6 DEF UpTo
    <3>. QED
      BY <3>1, <3>2 DEF UpTo
  <2>9. k \in T
    BY <2>4, <2>7, <2>8
  <2>. QED
    BY <1>2, <2>1, <2>7, <2>9
<1>4. i \in I
  BY <1>2
<1>. HIDE DEF T
<1>5. \E x \in I : Cardinality({j \in I : j <= x}) = n
  BY <1>3, <1>4 DEF UpTo
<1>. QED
  BY <1>5 DEF PlaceOf, UpTo

\* What a subsequence holds, and that it takes no place twice.
LEMMA SubsequenceHas ==
  ASSUME NEW S, NEW s \in Seq(S), NEW I \in SUBSET DOMAIN s
  PROVE  /\ Subsequence(s, I) \in Seq(S) /\ Len(Subsequence(s, I)) = Cardinality(I)
         /\ \A n \in 1 .. Cardinality(I) :
              PlaceOf(I, n) \in I /\ Subsequence(s, I)[n] = s[PlaceOf(I, n)]
         /\ \A m, n \in 1 .. Cardinality(I) : PlaceOf(I, m) = PlaceOf(I, n) => m = n
<1>1. Len(s) \in Nat /\ I \in SUBSET (1 .. Len(s)) /\ \A i \in I : s[i] \in S
  <2>1. Len(s) \in Nat /\ DOMAIN s = 1 .. Len(s)
    OBVIOUS
  <2>2. \A i \in DOMAIN s : s[i] \in S
    OBVIOUS
  <2>. QED
    BY <2>1, <2>2
<1>2. Cardinality(I) \in Nat
  <2>1. IsFiniteSet(1 .. Len(s))
    BY <1>1, FS_Interval
  <2>. QED
    BY <1>1, <2>1, FS_Subset, FS_CardinalityType
<1>3. \A n \in 1 .. Cardinality(I) :
        PlaceOf(I, n) \in I /\ Cardinality(UpTo(I, PlaceOf(I, n))) = n
  BY <1>1, PlacesAre
<1>. DEFINE c == Cardinality(I)
            u == [n \in 1 .. c |-> s[PlaceOf(I, n)]]
<1>. HIDE DEF c
<1>4. u \in Seq(S) /\ Len(u) = c /\ \A n \in 1 .. c : u[n] = s[PlaceOf(I, n)]
  BY <1>1, <1>2, <1>3 DEF c
<1>5. u = Subsequence(s, I)
  BY DEF Subsequence, c
<1>6. \A m, n \in 1 .. c : PlaceOf(I, m) = PlaceOf(I, n) => m = n
  <2>. SUFFICES ASSUME NEW m \in 1 .. c, NEW n \in 1 .. c, PlaceOf(I, m) = PlaceOf(I, n)
                PROVE  m = n
    OBVIOUS
  <2>1. /\ Cardinality(UpTo(I, PlaceOf(I, m))) = m
        /\ Cardinality(UpTo(I, PlaceOf(I, n))) = n
    BY <1>3 DEF c
  <2>. QED
    BY <2>1
<1>. QED
  BY <1>3, <1>4, <1>5, <1>6 DEF c
-----------------------------------------------------------------------------
(* The weights of goals *)

\* What a weight never falls below: a rule moves it by seven hundredths at most, and
\* what is scaled back is never less than a hundredth of a sum below 5.5.
Floor == 10

Plausible(w) == /\ w \in [Factor -> Int] /\ \A f \in Factor : w[f] >= Floor
                /\ Absolute(SumOf(w) - One) < 10

PendingOK(p) ==
  /\ p \in [old : [Factor -> 0 .. One], new : [Factor -> 0 .. One], busy : BOOLEAN]
  /\ Plausible(p.new)
  /\ \A f \in Factor : Absolute(p.new[f] - p.old[f]) <= MaxDelta

WeightsInv == /\ Plausible(weights)
              /\ runs \in 0 .. MaxRuns
              /\ DOMAIN pending = Learner /\ pending = [l \in Learner |-> pending[l]]
              /\ \A l \in Learner : PendingOK(pending[l])

LEMMA Factors ==
  /\ "urgency" \in Factor /\ "impact" \in Factor /\ "feasibility" \in Factor
  /\ "novelty" \in Factor /\ "alignment" \in Factor
  BY DEF Factor

LEMMA OneIs == One = 10000
  BY DEF One
LEMMA OneIsNat == One \in Nat
  BY DEF One

\* Five weights that sum to one leave none above it.
LEMMA PlausibleIsBounded ==
  ASSUME NEW w, Plausible(w)
  PROVE  /\ w \in [Factor -> 0 .. One]
         /\ SumOf(w) \in Int /\ SumOf(w) < One + 10 /\ SumOf(w) > One - 10
<1>1. \A f \in Factor : w[f] \in Int /\ w[f] >= 10
  BY DEF Plausible, Floor
<1>2. SumOf(w) \in Int
  BY <1>1, Factors DEF SumOf
<1>3. SumOf(w) < 10010 /\ SumOf(w) > 9990
  BY <1>2 DEF Plausible, Absolute, One
<1>4. \A f \in Factor : w[f] <= 10000
  <2>1. /\ w["urgency"] <= 10000 /\ w["impact"] <= 10000 /\ w["feasibility"] <= 10000
        /\ w["novelty"] <= 10000 /\ w["alignment"] <= 10000
    BY <1>1, <1>3, Factors DEF SumOf
  <2>2. \A f \in Factor : \/ f = "urgency" \/ f = "impact" \/ f = "feasibility"
                           \/ f = "novelty" \/ f = "alignment"
    BY DEF Factor
  <2>. QED
    BY <2>1, <2>2
<1>5. \A f \in Factor : w[f] \in 0 .. One
  <2>. SUFFICES ASSUME NEW f \in Factor PROVE w[f] \in 0 .. One
    OBVIOUS
  <2>1. w[f] \in Int /\ 0 <= w[f] /\ w[f] <= One
    BY <1>1, <1>4, OneIs
  <2>. QED
    BY <2>1, OneIsNat
<1>6. w \in [Factor -> 0 .. One]
  BY <1>5 DEF Plausible
<1>. QED
  BY <1>2, <1>3, <1>6, OneIs

\* What the rules and the floor make of it.
LEMMA RuleIsSmall ==
  ASSUME NEW r \in {"inaccurate", "deferred", "completing", "failing"}, NEW f \in Factor
  PROVE  Rule(r)[f] \in Int /\ Rule(r)[f] <= 300 /\ -300 <= Rule(r)[f]
<1>1. CASE r = "inaccurate"
  BY <1>1 DEF Rule, Factor
<1>2. CASE r = "deferred"
  BY <1>2 DEF Rule, Factor
<1>3. CASE r = "completing"
  BY <1>3 DEF Rule, Factor
<1>4. CASE r = "failing"
  BY <1>4 DEF Rule, Factor
<1>. QED
  BY <1>1, <1>2, <1>3, <1>4

LEMMA Divided ==
  ASSUME NEW a \in Int, NEW b \in Int, b > 0, a >= Floor * b
  PROVE  a \div b \in Int /\ a \div b >= Floor
<1>1. PICK q \in Int : q = a \div b
  OBVIOUS
<1>2. a < b * (q + 1)
  BY <1>1
<1>3. CASE q + 1 <= Floor
  <2>1. b * (q + 1) <= b * Floor
    BY <1>3 DEF Floor
  <2>. QED
    BY <1>2, <2>1 DEF Floor
<1>. QED
  BY <1>1, <1>3 DEF Floor

LEMMA AdjustedIsPositive ==
  ASSUME NEW w, Plausible(w), NEW found \in Findings
  PROVE  /\ AdjustWeights(w, found) \in [Factor -> Int]
         /\ \A f \in Factor : AdjustWeights(w, found)[f] >= Floor
<1>. DEFINE By(r, f) == IF r \in found THEN Rule(r)[f] ELSE 0
            moved == [f \in Factor |-> w[f] + By("inaccurate", f) + By("deferred", f)
                                            + By("completing", f) + By("failing", f)]
            floored == [f \in Factor |-> IF moved[f] < Least THEN Least ELSE moved[f]]
            total == SumOf(floored)
<1>1. \A f \in Factor : w[f] \in Int /\ w[f] <= 10000 /\ w[f] >= 0
  <2>1. \A f \in Factor : w[f] \in 0 .. One
    BY PlausibleIsBounded
  <2>2. \A f \in Factor : w[f] \in Int /\ w[f] <= One /\ w[f] >= 0
    BY <2>1, OneIsNat
  <2>. QED
    BY <2>2, OneIs
<1>2. \A f \in Factor : \A r \in {"inaccurate", "deferred", "completing", "failing"} :
        By(r, f) \in Int /\ By(r, f) <= 300
  <2>. SUFFICES ASSUME NEW f \in Factor,
                       NEW r \in {"inaccurate", "deferred", "completing", "failing"}
                PROVE  By(r, f) \in Int /\ By(r, f) <= 300
    OBVIOUS
  <2>1. Rule(r)[f] \in Int /\ Rule(r)[f] <= 300
    BY RuleIsSmall
  <2>. QED
    BY <2>1
<1>3. \A f \in Factor : moved[f] \in Int /\ moved[f] <= 11200
  <2>. SUFFICES ASSUME NEW f \in Factor PROVE moved[f] \in Int /\ moved[f] <= 11200
    OBVIOUS
  <2>1. PICK a, b, c, d : /\ a = By("inaccurate", f) /\ b = By("deferred", f)
                          /\ c = By("completing", f) /\ d = By("failing", f)
    OBVIOUS
  <2>2. /\ a \in Int /\ a <= 300 /\ b \in Int /\ b <= 300
        /\ c \in Int /\ c <= 300 /\ d \in Int /\ d <= 300
    BY <1>2, <2>1
  <2>3. moved[f] = w[f] + a + b + c + d
    BY <2>1
  <2>. HIDE DEF moved
  <2>. QED
    BY <1>1, <2>2, <2>3
<1>4. \A f \in Factor : floored[f] \in Int /\ floored[f] <= 11200 /\ floored[f] >= 100
  <2>. HIDE DEF moved
  <2>. QED
    BY <1>3 DEF Least
<1>. HIDE DEF floored
<1>5. total \in Int /\ total <= 56000 /\ total >= 500
  BY <1>4, Factors DEF SumOf
<1>. HIDE DEF total
<1>6. AdjustWeights(w, found) =
        [f \in Factor |-> (2 * floored[f] * One + total) \div (2 * total)]
  BY DEF AdjustWeights, total, floored
<1>7. \A f \in Factor : /\ (2 * floored[f] * One + total) \div (2 * total) \in Int
                        /\ (2 * floored[f] * One + total) \div (2 * total) >= Floor
  <2>. SUFFICES ASSUME NEW f \in Factor
                PROVE  /\ (2 * floored[f] * One + total) \div (2 * total) \in Int
                       /\ (2 * floored[f] * One + total) \div (2 * total) >= Floor
    OBVIOUS
  <2>1. PICK a \in Int : a = 2 * floored[f] * One + total
    BY <1>4, <1>5 DEF One
  <2>2. PICK b \in Int : b = 2 * total
    BY <1>5
  <2>3. b > 0 /\ a >= Floor * b
    BY <1>4, <1>5, <2>1, <2>2 DEF Floor, One
  <2>4. a \div b \in Int /\ a \div b >= Floor
    BY <2>3, Divided
  <2>. QED
    BY <2>1, <2>2, <2>4
<1>. QED
  BY <1>6, <1>7

LEMMA ClampedIsNear ==
  ASSUME NEW w, Plausible(w), NEW t \in [Factor -> Int], \A f \in Factor : t[f] >= Floor
  PROVE  /\ Clamp(w, t) \in [Factor -> Int]
         /\ \A f \in Factor : /\ Clamp(w, t)[f] >= Floor
                              /\ Absolute(Clamp(w, t)[f] - w[f]) <= MaxDelta
<1>. DEFINE c == Clamp(w, t)
<1>1. \A f \in Factor : w[f] \in Int /\ w[f] >= 10 /\ t[f] \in Int /\ t[f] >= 10
  BY DEF Plausible, Floor
<1>2. /\ c \in [Factor -> Int]
      /\ \A f \in Factor : c[f] = IF t[f] > w[f] + 500 THEN w[f] + 500
                                  ELSE IF t[f] < w[f] - 500 THEN w[f] - 500 ELSE t[f]
  BY <1>1 DEF Clamp, MaxDelta
<1>. HIDE DEF c
<1>3. \A f \in Factor : c[f] \in Int /\ c[f] >= 10 /\ c[f] - w[f] <= 500 /\ w[f] - c[f] <= 500
  BY <1>1, <1>2
<1>4. \A f \in Factor : Absolute(c[f] - w[f]) <= MaxDelta
  BY <1>1, <1>3 DEF Absolute, MaxDelta
<1>. QED
  BY <1>2, <1>3, <1>4 DEF c, Floor

LEMMA LearnHolds ==
  ASSUME WeightsInv, NEW l \in Learner, NEW found \in Findings, Learn(l, found)
  PROVE  WeightsInv'
<1>. DEFINE clamped == Clamp(weights, AdjustWeights(weights, found))
            new == IF Validate(clamped) THEN clamped ELSE weights
            p == [old |-> weights, busy |-> TRUE, new |-> new]
<1>0. Plausible(weights) /\ runs \in 0 .. MaxRuns /\ DOMAIN pending = Learner
  BY DEF WeightsInv
<1>1. /\ clamped \in [Factor -> Int] /\ \A f \in Factor : clamped[f] >= Floor
      /\ \A f \in Factor : Absolute(clamped[f] - weights[f]) <= MaxDelta
  BY <1>0, AdjustedIsPositive, ClampedIsNear
<1>2. /\ pending' = [pending EXCEPT ![l] = p] /\ weights' = weights
      /\ runs < MaxRuns /\ runs' = runs + 1
  BY DEF Learn
<1>. HIDE DEF clamped
<1>3. Plausible(new)
  BY <1>0, <1>1 DEF Plausible, Validate
<1>4. \A f \in Factor : Absolute(weights[f] - weights[f]) <= MaxDelta
  BY <1>0, PlausibleIsBounded DEF Absolute, MaxDelta
<1>5. \A f \in Factor : Absolute(new[f] - weights[f]) <= MaxDelta
  BY <1>1, <1>4
<1>6. new \in [Factor -> 0 .. One] /\ weights \in [Factor -> 0 .. One]
  BY <1>0, <1>3, PlausibleIsBounded
<1>. HIDE DEF new
<1>7. PendingOK(p)
  BY <1>3, <1>5, <1>6 DEF PendingOK
<1>. HIDE DEF p
<1>8. runs' \in 0 .. MaxRuns
  BY <1>0, <1>2, WeightsAssumption
<1>9. /\ DOMAIN pending' = Learner /\ pending' = [k \in Learner |-> pending'[k]]
      /\ \A k \in Learner : PendingOK(pending'[k])
  BY <1>2, <1>7 DEF WeightsInv
<1>. QED
  BY <1>0, <1>2, <1>8, <1>9 DEF WeightsInv

LEMMA DefaultIsPlausible ==
  Plausible(DefaultScorerWeights) /\ PendingOK(NotLearning)
<1>. DEFINE d == DefaultScorerWeights
<1>1. d \in [Factor -> Int] /\ \A f \in Factor : d[f] >= 10
  BY DEF DefaultScorerWeights, Factor
<1>2. SumOf(d) = 10000
  BY Factors DEF DefaultScorerWeights, SumOf
<1>3. Plausible(d)
  BY <1>1, <1>2 DEF Plausible, Floor, Absolute, One
<1>. HIDE DEF d
<1>4. d \in [Factor -> 0 .. One]
  BY <1>3, PlausibleIsBounded
<1>5. \A f \in Factor : Absolute(d[f] - d[f]) <= MaxDelta
  BY <1>1 DEF Absolute, MaxDelta
<1>6. NotLearning = [old |-> d, new |-> d, busy |-> FALSE]
  BY DEF NotLearning, d
<1>7. PendingOK([old |-> d, new |-> d, busy |-> FALSE])
  BY <1>3, <1>4, <1>5 DEF PendingOK
<1>. QED
  BY <1>3, <1>6, <1>7 DEF d

LEMMA WeightsInvInit == WeightsInit => WeightsInv
<1>. SUFFICES ASSUME WeightsInit PROVE WeightsInv
  OBVIOUS
<1>. HIDE DEF PendingOK, Plausible, NotLearning
<1>. QED
  BY DefaultIsPlausible, WeightsAssumption DEF WeightsInit, WeightsInv

LEMMA WeightsInductive ==
  ASSUME WeightsInv, [WeightsNext]_zvars
  PROVE  WeightsInv'
<1>1. ASSUME NEW l \in Learner, SetWeights(l)
      PROVE  WeightsInv'
  <2>1. weights' = pending[l].new /\ runs' = runs
        /\ pending' = [pending EXCEPT ![l] = NotLearning]
    BY <1>1 DEF SetWeights
  <2>2. PendingOK(pending[l])
    BY DEF WeightsInv
  <2>3. Plausible(weights')
    BY <2>1, <2>2 DEF PendingOK
  <2>. HIDE DEF PendingOK, Plausible, NotLearning
  <2>4. /\ DOMAIN pending' = Learner /\ pending' = [k \in Learner |-> pending'[k]]
        /\ \A k \in Learner : PendingOK(pending'[k])
    BY <2>1, DefaultIsPlausible DEF WeightsInv
  <2>. QED
    BY <2>1, <2>3, <2>4 DEF WeightsInv
<1>2. CASE UNCHANGED zvars
  BY <1>2 DEF zvars, WeightsInv
<1>. QED
  BY <1>1, <1>2, LearnHolds DEF WeightsNext

LEMMA WeightsSound == WeightsInv => WeightsTypeOK /\ WeightsStaySound
<1>. SUFFICES ASSUME WeightsInv PROVE WeightsTypeOK /\ WeightsStaySound
  OBVIOUS
<1>1. WeightsTypeOK
  BY PlausibleIsBounded DEF WeightsInv, WeightsTypeOK, PendingOK
<1>2. Plausible(weights)
  BY DEF WeightsInv
<1>3. \A f \in Factor : weights[f] \in Int /\ weights[f] >= 10 /\ weights[f] > 0
  BY <1>2 DEF Plausible, Floor
<1>. DEFINE all(n) == [f \in Factor |-> n]
<1>4. /\ Score(all(0)) = 0 /\ Score(all(1)) = SumOf(weights)
      /\ Score(all(100)) = 100 * SumOf(weights)
  BY <1>3, Factors DEF Score, SumOf
<1>5. Score(all(0)) < Score(all(1)) /\ Score(all(100)) <= 100 * (One + 10)
  <2>1. SumOf(weights) \in Int /\ SumOf(weights) < 10010 /\ SumOf(weights) > 9990
    BY <1>2, PlausibleIsBounded DEF One
  <2>. QED
    BY <1>4, <2>1 DEF One
<1>6. \A l \in Learner : pending[l].busy => \A f \in Factor :
           Absolute(pending[l].new[f] - pending[l].old[f]) <= MaxDelta
  BY DEF WeightsInv, PendingOK
<1>. QED
  BY <1>1, <1>2, <1>3, <1>5, <1>6 DEF WeightsStaySound, Plausible

-----------------------------------------------------------------------------
(* Conversations: a line is in at most one row, and the phase of its       *)
(* question tells whether it is, or may be among those whose save failed;  *)
(* what an agent has in memory, or a goroutine has read of it, is in a row *)
(* of its session, failed to be, or its question is at the step before.    *)

SavedRow == [session : Session, branch : Branch, line : Line]
Agent == [made : BOOLEAN, branch : Branch, memory : Seq(Line)]
Phase == {"waiting", "binding", "bound", "asking", "asked", "cutting", "thinking",
          "answering", "replied", "closing", "answered", "failed", "lost"}

After(role) == IF role = "user" THEN {"cutting", "thinking", "answering", "replied", "closing",
                                      "answered", "failed", "lost"}
               ELSE {"closing", "answered", "lost"}
Before(role) == IF role = "user" THEN "asked" ELSE "replied"

RowsApart(R) == \A i, j \in DOMAIN R : R[i].line = R[j].line => i = j

IsPast(Q, l) == l[1] \in DOMAIN Q /\ Q[l[1]].phase \in After(l[2])

AskedFor(Q, r) == IsPast(Q, r.line) /\ Q[r.line[1]].session = r.session

RowsAsked(R, Q) == \A i \in DOMAIN R : AskedFor(Q, R[i])

IsSaved(R, s, l) == \E i \in DOMAIN R : R[i].session = s /\ R[i].line = l

IsSaving(Q, s, l) == /\ l[1] \in DOMAIN Q
                     /\ Q[l[1]].session = s
                     /\ Q[l[1]].phase = Before(l[2])

IsUnsaved(Q, U, s, l) == l \in U /\ l[1] \in DOMAIN Q /\ Q[l[1]].session = s

Held(R, Q, U, s, l) == IsSaved(R, s, l) \/ IsSaving(Q, s, l) \/ IsUnsaved(Q, U, s, l)

Good(R, Q, U, s, m) == /\ m \in Seq(Line)
                       /\ \A i, j \in 1 .. Len(m) : m[i] = m[j] => i = j
                       /\ \A i \in 1 .. Len(m) : Held(R, Q, U, s, m[i])

MemoriesGood(R, Q, U, A) == \A s \in Session : Good(R, Q, U, s, A[s].memory)
ReadsGood(R, Q, U) == \A q \in DOMAIN Q : Good(R, Q, U, Q[q].session, Q[q].read)

ConvPlain(R, Q, U, A) == /\ R \in Seq(SavedRow) /\ Q \in Seq(QuestionRow) /\ Len(Q) <= MaxQuestions
                         /\ U \in SUBSET Line /\ A \in [Session -> Agent]

RowsRight(R, Q, U) == RowsApart(R) /\ RowsAsked(R, Q) /\ \A l \in U : IsPast(Q, l)

ConvInv == /\ ConvPlain(rows, questions, unsaved, agents) /\ switches \in 0 .. MaxSwitches
           /\ RowsRight(rows, questions, unsaved)
           /\ MemoriesGood(rows, questions, unsaved, agents) /\ ReadsGood(rows, questions, unsaved)

\* What a session or a goroutine has now, it may have.
Had(s, m) == Good(rows, questions, unsaved, s, m)

LEMMA TruncatedIs ==
  ASSUME NEW S, NEW m \in Seq(S)
  PROVE  /\ Truncated(m) \in Seq(S)
         /\ \E k \in Nat : /\ Len(m) = Len(Truncated(m)) + k
                           /\ \A i \in 1 .. Len(Truncated(m)) : Truncated(m)[i] = m[i + k]
<1>. DEFINE n == Len(m)
<1>1. n \in Nat /\ MaxMemory \in Nat \ {0}
  BY ConversationAssumption
<1>2. PICK k \in Nat : /\ k <= n /\ Truncated(m) = SubSeq(m, k + 1, n)
  <2>1. CASE n > MaxMemory
    <3>1. n - MaxMemory \in Nat /\ n - MaxMemory <= n
      BY <1>1, <2>1
    <3>2. PICK k \in Nat : k = n - MaxMemory
      BY <3>1
    <3>. QED
      BY <2>1, <3>1, <3>2 DEF Truncated
  <2>2. CASE ~ (n > MaxMemory)
    <3>1. Truncated(m) = SubSeq(m, 0 + 1, n)
      BY <2>2 DEF Truncated
    <3>. QED
      BY <1>1, <3>1
  <2>. QED
    BY <2>1, <2>2
<1>3. SubSeq(m, k + 1, n) \in Seq(S) /\ Len(SubSeq(m, k + 1, n)) = n - k
  BY <1>1, <1>2, SubSeqProperties
<1>4. \A i \in 1 .. n - k : SubSeq(m, k + 1, n)[i] = m[i + k]
  <2>. SUFFICES ASSUME NEW i \in 1 .. n - k PROVE SubSeq(m, k + 1, n)[i] = m[i + k]
    OBVIOUS
  <2>1. SubSeq(m, k + 1, n)[i] = m[(k + 1) + i - 1]
    BY <1>1, <1>2, SubSeqProperties
  <2>2. (k + 1) + i - 1 = i + k
    BY <1>1, <1>2
  <2>. QED
    BY <2>1, <2>2
<1>5. n = (n - k) + k
  BY <1>1, <1>2
<1>. QED
  BY <1>2, <1>3, <1>4, <1>5

LEMMA TruncatedGood ==
  ASSUME NEW R, NEW Q, NEW U, NEW s, NEW m, Good(R, Q, U, s, m)
  PROVE  Good(R, Q, U, s, Truncated(m))
<1>1. m \in Seq(Line)
  BY DEF Good
<1>2. PICK k \in Nat : /\ Len(m) = Len(Truncated(m)) + k
                       /\ \A i \in 1 .. Len(Truncated(m)) : Truncated(m)[i] = m[i + k]
  BY <1>1, TruncatedIs
<1>3. Truncated(m) \in Seq(Line)
  BY <1>1, TruncatedIs
<1>. DEFINE t == Truncated(m)
<1>. HIDE DEF t
<1>4. Len(t) \in Nat
  BY <1>3 DEF t
<1>5. \A i \in 1 .. Len(t) : i + k \in 1 .. Len(m)
  BY <1>2, <1>4 DEF t
<1>6. \A i, j \in 1 .. Len(t) : t[i] = t[j] => i = j
  <2>. SUFFICES ASSUME NEW i \in 1 .. Len(t), NEW j \in 1 .. Len(t), t[i] = t[j] PROVE i = j
    OBVIOUS
  <2>1. m[i + k] = m[j + k]
    BY <1>2 DEF t
  <2>2. i + k = j + k
    BY <1>5, <2>1 DEF Good
  <2>. QED
    BY <2>2
<1>7. \A i \in 1 .. Len(t) : Held(R, Q, U, s, t[i])
  <2>. SUFFICES ASSUME NEW i \in 1 .. Len(t) PROVE Held(R, Q, U, s, t[i])
    OBVIOUS
  <2>1. t[i] = m[i + k]
    BY <1>2 DEF t
  <2>. QED
    BY <1>5, <2>1 DEF Good
<1>. QED
  BY <1>3, <1>6, <1>7 DEF Good, t

LEMMA LoadedGood ==
  ASSUME ConvInv, NEW s \in Session, NEW b \in Branch
  PROVE  Had(s, LoadSessionBranch(s, b))
<1>. DEFINE lines == [i \in DOMAIN rows |-> rows[i].line]
            I == {i \in DOMAIN rows : rows[i].session = s /\ rows[i].branch = b}
            m == Subsequence(lines, I)
<1>1. rows \in Seq(SavedRow) /\ RowsApart(rows)
  BY DEF ConvInv, ConvPlain, RowsRight
<1>2. lines \in Seq(Line) /\ DOMAIN lines = DOMAIN rows
  <2>1. DOMAIN rows = 1 .. Len(rows) /\ Len(rows) \in Nat /\ \A i \in DOMAIN rows : rows[i] \in SavedRow
    BY <1>1
  <2>2. \A i \in DOMAIN rows : rows[i].line \in Line
    BY <2>1 DEF SavedRow
  <2>. QED
    BY <2>1, <2>2
<1>3. \A i \in I : lines[i] = rows[i].line /\ rows[i].session = s /\ i \in DOMAIN rows
  OBVIOUS
<1>4. I \in SUBSET DOMAIN lines
  BY <1>2
<1>. HIDE DEF lines, I
<1>5. /\ m \in Seq(Line) /\ Len(m) = Cardinality(I)
      /\ \A n \in 1 .. Cardinality(I) : PlaceOf(I, n) \in I /\ m[n] = lines[PlaceOf(I, n)]
      /\ \A j, n \in 1 .. Cardinality(I) : PlaceOf(I, j) = PlaceOf(I, n) => j = n
  BY <1>2, <1>4, SubsequenceHas
<1>. HIDE DEF m
<1>6. \A i \in 1 .. Len(m) : IsSaved(rows, s, m[i])
  BY <1>3, <1>5 DEF IsSaved
<1>7. \A i, j \in 1 .. Len(m) : m[i] = m[j] => i = j
  <2>. SUFFICES ASSUME NEW i \in 1 .. Len(m), NEW j \in 1 .. Len(m), m[i] = m[j] PROVE i = j
    OBVIOUS
  <2>1. rows[PlaceOf(I, i)].line = rows[PlaceOf(I, j)].line
    BY <1>3, <1>5
  <2>2. PlaceOf(I, i) = PlaceOf(I, j)
    BY <1>1, <1>3, <1>5, <2>1 DEF RowsApart
  <2>. QED
    BY <1>5, <2>2
<1>. QED
  BY <1>5, <1>6, <1>7 DEF Had, Good, Held, m, lines, I, LoadSessionBranch

LEMMA NothingHad == \A s : Had(s, << >>)
<1>1. << >> \in Seq(Line) /\ Len(<< >>) = 0 /\ 1 .. 0 = {}
  OBVIOUS
<1>. QED
  BY <1>1 DEF Had, Good

LEMMA LoadedHad ==
  ASSUME ConvInv, NEW s \in Session, NEW b \in Branch, NEW there \in Loaded(s, b)
  PROVE  Had(s, there) /\ Had(s, Truncated(there))
<1>1. Had(s, there)
  BY LoadedGood, NothingHad DEF Loaded
<1>. QED
  BY <1>1, TruncatedGood DEF Had

\* What is held stays held, and so does what is held in a memory.
LEMMA GoodStays ==
  ASSUME NEW R, NEW Q, NEW U, NEW RN, NEW QN, NEW UN, NEW s, NEW m, Good(R, Q, U, s, m),
         \A l \in Line : Held(R, Q, U, s, l) => Held(RN, QN, UN, s, l)
  PROVE  Good(RN, QN, UN, s, m)
<1>1. \A i \in 1 .. Len(m) : m[i] \in Line
  BY DEF Good
<1>. QED
  BY <1>1 DEF Good

\* One question goes on, and the others stay as they are.
Moved(Q, QN, q, from, to, m) ==
  /\ QN \in Seq(QuestionRow) /\ Len(QN) = Len(Q) /\ DOMAIN QN = DOMAIN Q
  /\ Q[q].phase = from /\ QN[q].phase = to /\ QN[q].read = m
  /\ \A p \in DOMAIN Q : QN[p].session = Q[p].session
  /\ \A p \in DOMAIN Q : p # q => QN[p] = Q[p]

LEMMA GoIs ==
  ASSUME ConvInv, NEW q \in DOMAIN questions, NEW from, NEW to \in Phase, NEW m \in Seq(Line),
         Go(q, from, to, m)
  PROVE  Moved(questions, questions', q, from, to, m)
<1>1. /\ questions \in Seq(QuestionRow) /\ Len(questions) \in Nat
      /\ DOMAIN questions = 1 .. Len(questions)
  BY DEF ConvInv, ConvPlain
<1>2. /\ questions' = [questions EXCEPT ![q] = [questions[q] EXCEPT !.phase = to, !.read = m]]
      /\ questions[q].phase = from
  BY DEF Go
<1>3. \A p \in DOMAIN questions : questions[p] \in QuestionRow
  BY <1>1
<1>4. [questions[q] EXCEPT !.phase = to, !.read = m] \in QuestionRow
  BY <1>3 DEF QuestionRow, Phase
<1>6. questions' \in [1 .. Len(questions) -> QuestionRow]
  BY <1>1, <1>2, <1>3, <1>4
<1>7. questions' \in Seq(QuestionRow) /\ Len(questions') = Len(questions) /\ DOMAIN questions' = DOMAIN questions
  BY <1>1, <1>6
<1>8. /\ questions'[q].phase = to /\ questions'[q].session = questions[q].session
      /\ questions'[q].read = m
  BY <1>2, <1>3 DEF QuestionRow
<1>9. \A p \in DOMAIN questions : p # q => questions'[p] = questions[p]
  BY <1>2
<1>. QED
  BY <1>2, <1>7, <1>8, <1>9 DEF Moved

LEMMA LineOf ==
  ASSUME ConvInv, NEW q \in DOMAIN questions
  PROVE  /\ questions[q] \in QuestionRow /\ questions[q].session \in Session
         /\ questions[q].branch \in Branch /\ q \in Question
         /\ <<q, "user">> \in Line /\ <<q, "assistant">> \in Line
<1>1. /\ questions \in Seq(QuestionRow) /\ Len(questions) \in Nat /\ Len(questions) <= MaxQuestions
      /\ DOMAIN questions = 1 .. Len(questions) /\ MaxQuestions \in Nat
  BY ConversationAssumption DEF ConvInv, ConvPlain
<1>2. questions[q] \in QuestionRow /\ q \in Question
  BY <1>1 DEF Question
<1>. QED
  BY <1>2 DEF QuestionRow, Line

\* What is past its save stays so when a question goes on that is not about to save, or
\* that has just saved.
LEMMA PastStays ==
  ASSUME NEW Q, NEW QN, NEW q \in DOMAIN Q, NEW from, NEW to, NEW m, Moved(Q, QN, q, from, to, m),
         from \in After("user") => to \in After("user"),
         from \in After("assistant") => to \in After("assistant"),
         NEW l \in Line, IsPast(Q, l)
  PROVE  IsPast(QN, l) /\ QN[l[1]].session = Q[l[1]].session
<1>1. l[2] \in {"user", "assistant"}
  BY DEF Line
<1>2. CASE l[1] # q
  BY <1>2 DEF IsPast, Moved
<1>3. CASE l[1] = q
  BY <1>1, <1>3 DEF IsPast, Moved
<1>. QED
  BY <1>2, <1>3

LEMMA AskedStays ==
  ASSUME NEW R, NEW Q, NEW QN, NEW q \in DOMAIN Q, NEW from, NEW to, NEW m, Moved(Q, QN, q, from, to, m),
         RowsAsked(R, Q), R \in Seq(SavedRow),
         from \in After("user") => to \in After("user"),
         from \in After("assistant") => to \in After("assistant")
  PROVE  RowsAsked(R, QN)
<1>. SUFFICES ASSUME NEW i \in DOMAIN R PROVE AskedFor(QN, R[i])
  BY DEF RowsAsked
<1>1. R[i].line \in Line
  <2>1. R[i] \in SavedRow
    OBVIOUS
  <2>. QED
    BY <2>1 DEF SavedRow
<1>2. AskedFor(Q, R[i])
  BY DEF RowsAsked
<1>. QED
  BY <1>1, <1>2, PastStays DEF AskedFor

\* What is held stays so, when none goes on from the step before a save.
LEMMA HeldStays ==
  ASSUME NEW R, NEW Q, NEW QN, NEW U, NEW q \in DOMAIN Q, NEW from, NEW to, NEW m,
         Moved(Q, QN, q, from, to, m), from \notin {"asked", "replied"},
         NEW s, NEW l, Held(R, Q, U, s, l)
  PROVE  Held(R, QN, U, s, l)
<1>1. IsSaving(Q, s, l) => IsSaving(QN, s, l)
  BY DEF IsSaving, Before, Moved
<1>2. IsUnsaved(Q, U, s, l) => IsUnsaved(QN, U, s, l)
  BY DEF IsUnsaved, Moved
<1>. QED
  BY <1>1, <1>2 DEF Held

\* The steps of a question that neither add a line nor save one.
Plainly(from, to) ==
  \/ from = "waiting" /\ to \in {"bound", "binding", "answered"}
  \/ from = "binding" /\ to = "bound"
  \/ from = "bound" /\ to \in {"asking", "answered"}
  \/ from = "cutting" /\ to = "thinking"
  \/ from = "thinking" /\ to \in {"answering", "failed"}
  \/ from = "closing" /\ to = "answered"

LEMMA PlainSteps ==
  ASSUME NEW from, NEW to, Plainly(from, to)
  PROVE  /\ to \in Phase /\ from \notin {"asked", "replied"}
         /\ from \in After("user") => to \in After("user")
         /\ from \in After("assistant") => to \in After("assistant")
BY DEF Plainly, Phase, After

\* A question that goes on, with what it may have, neither adding a line nor saving one,
\* while memories become what they may be.
LEMMA StepKeeps ==
  ASSUME ConvInv, NEW q \in DOMAIN questions, NEW from, NEW to, NEW m, Go(q, from, to, m),
         Plainly(from, to), UNCHANGED <<rows, switches, unsaved>>,
         Had(questions[q].session, m), agents' \in [Session -> Agent],
         \A s \in Session : Had(s, agents'[s].memory)
  PROVE  ConvInv'
<1>0. /\ to \in Phase /\ from \notin {"asked", "replied"}
      /\ from \in After("user") => to \in After("user")
      /\ from \in After("assistant") => to \in After("assistant")
  BY PlainSteps
<1>1. Moved(questions, questions', q, from, to, m)
  BY <1>0, GoIs DEF Had, Good
<1>2. ConvPlain(rows, questions, unsaved, agents)
  BY DEF ConvInv
<1>3. ASSUME NEW s, NEW k, Had(s, k) PROVE Good(rows, questions', unsaved, s, k)
  <2>1. \A l \in Line : Held(rows, questions, unsaved, s, l) => Held(rows, questions', unsaved, s, l)
    BY <1>0, <1>1, HeldStays
  <2>. QED
    BY <1>3, <2>1, GoodStays DEF Had
<1>4. MemoriesGood(rows, questions', unsaved, agents')
  BY <1>3 DEF MemoriesGood
<1>5. ReadsGood(rows, questions', unsaved)
  <2>. SUFFICES ASSUME NEW p \in DOMAIN questions
                PROVE  Good(rows, questions', unsaved, questions'[p].session, questions'[p].read)
    BY <1>1 DEF ReadsGood, Moved
  <2>1. Had(questions[p].session, questions[p].read)
    BY DEF ConvInv, ReadsGood, Had
  <2>2. CASE p = q
    BY <1>1, <1>3, <2>2 DEF Moved
  <2>3. CASE p # q
    BY <1>1, <1>3, <2>1, <2>3 DEF Moved
  <2>. QED
    BY <2>2, <2>3
<1>6. RowsRight(rows, questions', unsaved)
  <2>1. RowsAsked(rows, questions')
    BY <1>0, <1>1, <1>2, AskedStays DEF ConvInv, ConvPlain, RowsRight
  <2>2. \A l \in unsaved : IsPast(questions', l)
    <3>. SUFFICES ASSUME NEW l \in unsaved PROVE IsPast(questions', l)
      OBVIOUS
    <3>1. l \in Line /\ IsPast(questions, l)
      BY <1>2 DEF ConvInv, ConvPlain, RowsRight
    <3>. QED
      BY <1>0, <1>1, <3>1, PastStays
  <2>. QED
    BY <2>1, <2>2 DEF ConvInv, RowsRight
<1>7. ConvPlain(rows, questions', unsaved, agents')
  BY <1>1, <1>2 DEF ConvPlain, Moved
<1>. QED
  BY <1>4, <1>5, <1>6, <1>7 DEF ConvInv

LEMMA NowHad ==
  ASSUME ConvInv
  PROVE  /\ \A s \in Session : Had(s, agents[s].memory)
         /\ \A q \in DOMAIN questions : Had(questions[q].session, questions[q].read)
         /\ agents \in [Session -> Agent]
BY DEF ConvInv, ConvPlain, MemoriesGood, ReadsGood, Had

\* An agent that is given other messages it may have.
LEMMA AgentGiven ==
  ASSUME ConvInv, NEW s \in Session, NEW made \in BOOLEAN, NEW b \in Branch, NEW m, Had(s, m),
         agents' = [agents EXCEPT ![s] = [made |-> made, branch |-> b, memory |-> m]]
  PROVE  agents' \in [Session -> Agent] /\ \A t \in Session : Had(t, agents'[t].memory)
<1>1. m \in Seq(Line)
  BY DEF Had, Good
<1>. DEFINE a == [made |-> made, branch |-> b, memory |-> m]
<1>2. a \in Agent /\ a.memory = m
  BY <1>1 DEF Agent
<1>. HIDE DEF a
<1>3. agents' = [agents EXCEPT ![s] = a]
  BY DEF a
<1>. QED
  BY <1>2, <1>3, NowHad

LEMMA ReplacedHad ==
  ASSUME NEW s, NEW m, NEW there, Had(s, m), Had(s, there)
  PROVE  Had(s, Replaced(m, there))
<1>1. Had(s, Truncated(there))
  BY TruncatedGood DEF Had
<1>. QED
  BY <1>1 DEF Replaced

LEMMA GotIs ==
  ASSUME ConvInv, NEW s \in Session, NEW main \in Loaded(s, Main)
  PROVE  \E b \in Branch, m \in Seq(Line) :
           Had(s, m) /\ Got(s, main) = [made |-> TRUE, branch |-> b, memory |-> m]
<1>1. Main \in Branch
  BY ConversationAssumption DEF Main, Branch
<1>2. Had(s, main) /\ main \in Seq(Line)
  BY <1>1, LoadedHad DEF Had, Good
<1>3. CASE agents[s].made
  <2>1. agents[s] \in Agent /\ Had(s, agents[s].memory) /\ agents[s].memory \in Seq(Line)
    BY NowHad DEF Had, Good
  <2>2. agents[s] = [made |-> TRUE, branch |-> agents[s].branch, memory |-> agents[s].memory]
        /\ agents[s].branch \in Branch
    BY <1>3, <2>1 DEF Agent
  <2>. QED
    BY <1>3, <2>1, <2>2 DEF Got
<1>4. CASE ~ agents[s].made
  BY <1>1, <1>2, <1>4 DEF Got
<1>. QED
  BY <1>3, <1>4

LEMMA Rebranched ==
  ASSUME NEW made, NEW b, NEW c, NEW m
  PROVE  [[made |-> made, branch |-> c, memory |-> m] EXCEPT !.branch = b]
         = [made |-> made, branch |-> b, memory |-> m]
OBVIOUS

LEMMA BindKeeps ==
  ASSUME ConvInv, NEW q \in DOMAIN questions, Bind(q)
  PROVE  ConvInv'
<1>. DEFINE s == questions[q].session
            b == questions[q].branch
<1>1. s \in Session /\ b \in Branch
  BY LineOf
<1>2. PICK main \in Loaded(s, Main) :
        agents' = [agents EXCEPT ![s] = IF b = Main THEN Got(s, main)
                                        ELSE [Got(s, main) EXCEPT !.branch = b]]
  BY DEF Bind
<1>3. PICK c \in Branch, m \in Seq(Line) : Had(s, m) /\ Got(s, main) = [made |-> TRUE, branch |-> c, memory |-> m]
  BY <1>1, GotIs
<1>4. agents' \in [Session -> Agent] /\ \A t \in Session : Had(t, agents'[t].memory)
  <2>1. CASE b = Main
    <3>1. agents' = [agents EXCEPT ![s] = [made |-> TRUE, branch |-> c, memory |-> m]]
      BY <1>2, <1>3, <2>1
    <3>. QED
      BY <1>1, <1>3, <3>1, AgentGiven
  <2>2. CASE b # Main
    <3>1. agents' = [agents EXCEPT ![s] = [Got(s, main) EXCEPT !.branch = b]]
      BY <1>2, <2>2
    <3>2. [Got(s, main) EXCEPT !.branch = b] = [made |-> TRUE, branch |-> b, memory |-> m]
      <4>1. [Got(s, main) EXCEPT !.branch = b]
            = [[made |-> TRUE, branch |-> c, memory |-> m] EXCEPT !.branch = b]
        BY <1>3
      <4>. HIDE DEF b
      <4>. QED
        BY <4>1, Rebranched
    <3>3. agents' = [agents EXCEPT ![s] = [made |-> TRUE, branch |-> b, memory |-> m]]
      BY <3>1, <3>2
    <3>. QED
      BY <1>1, <1>3, <3>3, AgentGiven
  <2>. QED
    BY <2>1, <2>2
<1>5. UNCHANGED <<rows, switches, unsaved>>
  BY DEF Bind
<1>6. CASE b = Main
  <2>1. Go(q, "waiting", "bound", << >>)
    BY <1>6 DEF Bind
  <2>. QED
    BY <1>4, <1>5, <2>1, NothingHad, StepKeeps DEF Plainly
<1>7. CASE b # Main
  <2>1. PICK there \in Loaded(s, b) : Go(q, "waiting", "binding", there)
    BY <1>7 DEF Bind
  <2>2. Had(s, there)
    BY <1>1, LoadedHad
  <2>. QED
    BY <1>4, <1>5, <2>1, <2>2, StepKeeps DEF Plainly
<1>. QED
  BY <1>6, <1>7

\* One agent is given messages it may have, and keeps its branch.
LEMMA MemoryGiven ==
  ASSUME ConvInv, NEW s \in Session, NEW m, Had(s, m),
         agents' = [agents EXCEPT ![s].memory = m]
  PROVE  agents' \in [Session -> Agent] /\ \A t \in Session : Had(t, agents'[t].memory)
<1>1. agents[s] \in Agent
  BY NowHad
<1>2. /\ agents[s].made \in BOOLEAN /\ agents[s].branch \in Branch
      /\ agents[s] = [made |-> agents[s].made, branch |-> agents[s].branch,
                      memory |-> agents[s].memory]
  BY <1>1 DEF Agent
<1>3. [agents[s] EXCEPT !.memory = m]
      = [made |-> agents[s].made, branch |-> agents[s].branch, memory |-> m]
  BY <1>2
<1>4. agents' = [agents EXCEPT ![s] = [agents[s] EXCEPT !.memory = m]]
  OBVIOUS
<1>5. agents' = [agents EXCEPT ![s] = [made |-> agents[s].made, branch |-> agents[s].branch,
                                      memory |-> m]]
  BY <1>3, <1>4
<1>. QED
  BY <1>2, <1>5, AgentGiven

LEMMA SetMessagesKeeps ==
  ASSUME ConvInv, NEW q \in DOMAIN questions, SetMessages(q)
  PROVE  ConvInv'
<1>. DEFINE s == questions[q].session
            m == Replaced(agents[s].memory, questions[q].read)
<1>1. s \in Session
  BY LineOf
<1>2. Had(s, m)
  BY <1>1, NowHad, ReplacedHad
<1>3. agents' = [agents EXCEPT ![s].memory = m]
  BY DEF SetMessages
<1>. HIDE DEF m
<1>4. agents' \in [Session -> Agent] /\ \A t \in Session : Had(t, agents'[t].memory)
  BY <1>1, <1>2, <1>3, MemoryGiven
<1>. QED
  BY <1>4, NothingHad, StepKeeps DEF SetMessages, Plainly

LEMMA CutKeeps ==
  ASSUME ConvInv, NEW q \in DOMAIN questions,
         Cut(q, "cutting", "thinking") \/ Cut(q, "closing", "answered")
  PROVE  ConvInv'
<1>. DEFINE s == questions[q].session
            m == Truncated(questions[q].read)
<1>1. s \in Session
  BY LineOf
<1>2. Had(s, m)
  <2>1. Had(s, questions[q].read)
    BY NowHad
  <2>. QED
    BY <2>1, TruncatedGood DEF Had
<1>3. agents' = [agents EXCEPT ![s].memory = m] \/ agents' = agents
  BY DEF Cut
<1>. HIDE DEF m
<1>4. agents' \in [Session -> Agent] /\ \A t \in Session : Had(t, agents'[t].memory)
  BY <1>1, <1>2, <1>3, MemoryGiven, NowHad
<1>. QED
  BY <1>4, NothingHad, StepKeeps DEF Cut, Plainly

LEMMA ReadKeeps ==
  ASSUME ConvInv, NEW q \in DOMAIN questions,
         ReadMemory(q, "bound", "asking") \/ ReadMemory(q, "thinking", "answering")
  PROVE  ConvInv'
<1>. DEFINE s == questions[q].session
            m == agents[s].memory
<1>1. Had(s, m)
  BY LineOf, NowHad
<1>2. UNCHANGED <<rows, agents, switches, unsaved>>
  BY DEF ReadMemory
<1>3. Go(q, "bound", "asking", m) \/ Go(q, "thinking", "answering", m)
  BY DEF ReadMemory
<1>. HIDE DEF m
<1>. QED
  BY <1>1, <1>2, <1>3, NowHad, StepKeeps DEF Plainly

\* A message in memory: the goroutine had not read it, and it is about to be saved.
LEMMA RememberKeeps ==
  ASSUME ConvInv, NEW q \in DOMAIN questions, NEW role \in {"user", "assistant"}, NEW from,
         Remember(q, role, from, Before(role)),
         from = IF role = "user" THEN "asking" ELSE "answering"
  PROVE  ConvInv'
<1>. DEFINE s == questions[q].session
            l == <<q, role>>
            m == questions[q].read
            w == Append(m, l)
<1>1. /\ ConvPlain(rows, questions, unsaved, agents) /\ rows \in Seq(SavedRow)
      /\ UNCHANGED <<rows, switches, unsaved>>
  BY DEF ConvInv, ConvPlain, Remember
<1>2. s \in Session /\ l \in Line
  BY LineOf
<1>3. Moved(questions, questions', q, from, Before(role), << >>)
      /\ from \notin {"asked", "replied"}
  <2>1. << >> \in Seq(Line)
    OBVIOUS
  <2>. QED
    BY <2>1, GoIs DEF Remember, Before, Phase
<1>4. \A t, k : Held(rows, questions, unsaved, t, k) => Held(rows, questions', unsaved, t, k)
  BY <1>3, HeldStays
<1>5. \A t, k : Had(t, k) => Good(rows, questions', unsaved, t, k)
  BY <1>4, GoodStays DEF Had
<1>6. RowsAsked(rows, questions')
  BY <1>1, <1>3, AskedStays DEF ConvInv, RowsRight, After, Before
<1>7. \A k \in unsaved : IsPast(questions', k)
  <2>. SUFFICES ASSUME NEW k \in unsaved PROVE IsPast(questions', k)
    OBVIOUS
  <2>1. k \in Line /\ IsPast(questions, k)
    BY <1>1 DEF ConvInv, ConvPlain, RowsRight
  <2>. QED
    BY <1>3, <2>1, PastStays DEF After, Before
<1>8. Had(s, m) /\ m \in Seq(Line) /\ Len(m) \in Nat
  BY NowHad DEF Had, Good
<1>9. ~ Held(rows, questions, unsaved, s, l)
  <2>1. l[1] = q /\ l[2] = role /\ questions[q].phase = from
    BY <1>3 DEF Moved
  <2>2. from \notin After(role) /\ from # Before(role)
    BY DEF After, Before
  <2>3. ~ IsPast(questions, l)
    BY <2>1, <2>2 DEF IsPast
  <2>. QED
    BY <2>1, <2>2, <2>3
    DEF Held, IsSaved, IsSaving, IsUnsaved, ConvInv, RowsRight, RowsAsked, AskedFor
<1>10. \A i \in 1 .. Len(m) : m[i] # l
  BY <1>8, <1>9 DEF Had, Good
<1>11. Held(rows, questions', unsaved, s, l)
  BY <1>3 DEF Held, IsSaving, Moved
<1>12. agents' = [agents EXCEPT ![s].memory = w]
  BY DEF Remember
<1>13. /\ w \in Seq(Line) /\ Len(w) = Len(m) + 1
       /\ \A i \in 1 .. Len(m) : w[i] = m[i]
       /\ w[Len(m) + 1] = l
  BY <1>2, <1>8
<1>14. Good(rows, questions', unsaved, s, m)
  BY <1>5, <1>8
<1>. HIDE DEF w, m, l
<1>15. \A i \in 1 .. Len(w) : i \in 1 .. Len(m) \/ i = Len(m) + 1
  BY <1>8, <1>13
<1>16. \A i, j \in 1 .. Len(w) : w[i] = w[j] => i = j
  BY <1>10, <1>13, <1>14, <1>15 DEF Good
<1>17. \A i \in 1 .. Len(w) : Held(rows, questions', unsaved, s, w[i])
  BY <1>11, <1>13, <1>14, <1>15 DEF Good
<1>18. Good(rows, questions', unsaved, s, w)
  BY <1>13, <1>16, <1>17 DEF Good
<1>19. agents \in [Session -> Agent] /\ agents[s] \in Agent
  BY <1>2, NowHad
<1>20. [agents[s] EXCEPT !.memory = w] \in Agent /\ [agents[s] EXCEPT !.memory = w].memory = w
  BY <1>13, <1>19 DEF Agent
<1>21. agents' \in [Session -> Agent]
  BY <1>2, <1>12, <1>19, <1>20
<1>22. MemoriesGood(rows, questions', unsaved, agents')
  <2>. SUFFICES ASSUME NEW t \in Session PROVE Good(rows, questions', unsaved, t, agents'[t].memory)
    BY DEF MemoriesGood
  <2>1. CASE t = s
    BY <1>12, <1>18, <1>19, <1>20, <2>1
  <2>2. CASE t # s
    <3>1. agents'[t].memory = agents[t].memory
      BY <1>12, <1>19, <2>2
    <3>. QED
      BY <1>5, <3>1, NowHad
  <2>. QED
    BY <2>1, <2>2
<1>23. ReadsGood(rows, questions', unsaved)
  <2>. SUFFICES ASSUME NEW p \in DOMAIN questions
                PROVE  Good(rows, questions', unsaved, questions'[p].session, questions'[p].read)
    BY <1>3 DEF ReadsGood, Moved
  <2>1. CASE p = q
    BY <1>3, <1>5, <2>1, NothingHad DEF Moved
  <2>2. CASE p # q
    BY <1>3, <1>5, <2>2, NowHad DEF Moved
  <2>. QED
    BY <2>1, <2>2
<1>24. ConvPlain(rows, questions', unsaved, agents')
  BY <1>1, <1>3, <1>21 DEF ConvPlain, Moved
<1>. QED
  BY <1>1, <1>6, <1>7, <1>22, <1>23, <1>24 DEF ConvInv, RowsRight

\* A message in the store: the row is the only one of its line.
LEMMA SaveGood ==
  ASSUME ConvInv, NEW q \in DOMAIN questions, NEW role \in {"user", "assistant"}, NEW to,
         SaveMessage(q, role, Before(role), to),
         to = IF role = "user" THEN "cutting" ELSE "closing"
  PROVE  ConvInv'
<1>. DEFINE s == questions[q].session
            l == <<q, role>>
            m == agents[s].memory
            r == [session |-> s, branch |-> agents[s].branch, line |-> l]
<1>1. /\ ConvPlain(rows, questions, unsaved, agents) /\ rows \in Seq(SavedRow) /\ Len(rows) \in Nat
      /\ UNCHANGED <<agents, switches>>
  BY DEF ConvInv, ConvPlain, SaveMessage
<1>2. s \in Session /\ l \in Line
  BY LineOf
<1>2a. Had(s, m) /\ m \in Seq(Line)
  BY <1>2, NowHad DEF Had, Good
<1>3. r \in SavedRow
  BY <1>1, <1>2 DEF ConvPlain, SavedRow, Agent
<1>4. Moved(questions, questions', q, Before(role), to, m) /\ to \in Phase
      /\ Before(role) \notin After(role)
      /\ (Before(role) \in After("user") => to \in After("user"))
      /\ (Before(role) \in After("assistant") => to \in After("assistant"))
      /\ to \in After(role)
  <2>1. /\ to \in Phase /\ to \in After(role) /\ Before(role) \notin After(role)
        /\ (Before(role) \in After("user") => to \in After("user"))
        /\ (Before(role) \in After("assistant") => to \in After("assistant"))
    BY DEF Phase, After, Before
  <2>2. Go(q, Before(role), to, m)
    BY DEF SaveMessage
  <2>. QED
    BY <1>2a, <2>1, <2>2, GoIs
<1>5. r.session = s /\ r.line = l /\ l[1] = q /\ l[2] = role
  OBVIOUS
<1>6. \/ rows' = Append(rows, r) /\ unsaved' = unsaved
      \/ rows' = rows /\ unsaved' = unsaved \cup {l}
  BY DEF SaveMessage
<1>. HIDE DEF r, m
<1>7. ASSUME rows' = Append(rows, r)
      PROVE  /\ rows' \in Seq(SavedRow) /\ DOMAIN rows' = 1 .. Len(rows) + 1
             /\ \A i \in DOMAIN rows : rows'[i] = rows[i] /\ i \in DOMAIN rows'
             /\ rows'[Len(rows) + 1] = r /\ Len(rows) + 1 \in DOMAIN rows'
             /\ \A i \in DOMAIN rows' : i \in DOMAIN rows \/ i = Len(rows) + 1
  <2>1. /\ rows' \in Seq(SavedRow) /\ DOMAIN rows' = 1 .. Len(rows) + 1
        /\ \A i \in DOMAIN rows : rows'[i] = rows[i] /\ i \in DOMAIN rows'
        /\ rows'[Len(rows) + 1] = r
    BY <1>1, <1>3, <1>7
  <2>2. Len(rows) + 1 \in 1 .. Len(rows) + 1 /\ DOMAIN rows = 1 .. Len(rows)
    BY <1>1
  <2>. QED
    BY <1>1, <2>1, <2>2
<1>8. ~ IsPast(questions, l)
  BY <1>4, <1>5 DEF IsPast, Moved
<1>9. \A i \in DOMAIN rows : rows[i].line # l
  BY <1>8 DEF ConvInv, RowsRight, RowsAsked, AskedFor
<1>10. RowsAsked(rows, questions') /\ \A k \in unsaved : IsPast(questions', k)
  <2>1. RowsAsked(rows, questions')
    BY <1>1, <1>4, AskedStays DEF ConvInv, RowsRight
  <2>2. ASSUME NEW k \in unsaved PROVE IsPast(questions', k)
    <3>1. k \in Line /\ IsPast(questions, k)
      BY <1>1 DEF ConvInv, ConvPlain, RowsRight
    <3>. QED
      BY <1>4, <3>1, PastStays
  <2>. QED
    BY <2>1, <2>2
<1>11. IsPast(questions', l) /\ questions'[q].session = s
  BY <1>4, <1>5 DEF IsPast, Moved
<1>12. rows' \in Seq(SavedRow) /\ unsaved' \in SUBSET Line
  BY <1>1, <1>2, <1>6, <1>7 DEF ConvPlain
<1>13. RowsRight(rows', questions', unsaved')
  <2>1. CASE rows' = Append(rows, r) /\ unsaved' = unsaved
    <3>1. RowsApart(rows')
      BY <1>5, <1>7, <1>9, <2>1 DEF ConvInv, RowsRight, RowsApart
    <3>2. AskedFor(questions', r)
      BY <1>5, <1>11 DEF AskedFor
    <3>3. RowsAsked(rows', questions')
      BY <1>7, <1>10, <2>1, <3>2 DEF RowsAsked
    <3>. QED
      BY <1>10, <2>1, <3>1, <3>3 DEF RowsRight
  <2>2. CASE rows' = rows /\ unsaved' = unsaved \cup {l}
    BY <1>10, <1>11, <2>2 DEF ConvInv, RowsRight
  <2>. QED
    BY <1>6, <2>1, <2>2
<1>14. ASSUME NEW t, NEW k \in Line, Held(rows, questions, unsaved, t, k)
       PROVE  Held(rows', questions', unsaved', t, k)
  <2>1. CASE IsSaved(rows, t, k)
    BY <1>6, <1>7, <2>1 DEF Held, IsSaved
  <2>2. CASE IsUnsaved(questions, unsaved, t, k)
    BY <1>4, <1>6, <2>2 DEF Held, IsUnsaved, Moved
  <2>3. CASE IsSaving(questions, t, k) /\ k[1] # q
    BY <1>4, <2>3 DEF Held, IsSaving, Moved
  <2>4. CASE IsSaving(questions, t, k) /\ k[1] = q
    <3>1. k[2] \in {"user", "assistant"} /\ k = <<k[1], k[2]>>
      BY DEF Line
    <3>2. Before(k[2]) = Before(role) /\ t = s
      BY <1>4, <2>4 DEF IsSaving, Moved
    <3>3. k = l
      BY <2>4, <3>1, <3>2 DEF Before
    <3>4. CASE rows' = Append(rows, r)
      BY <1>5, <1>7, <3>2, <3>3, <3>4 DEF Held, IsSaved
    <3>5. CASE unsaved' = unsaved \cup {l}
      BY <1>4, <1>5, <1>11, <3>2, <3>3, <3>5 DEF Held, IsUnsaved, Moved
    <3>. QED
      BY <1>6, <3>4, <3>5
  <2>. QED
    BY <1>14, <2>1, <2>2, <2>3, <2>4 DEF Held
<1>15. ASSUME NEW t, NEW k, Had(t, k) PROVE Good(rows', questions', unsaved', t, k)
  BY <1>14, <1>15, GoodStays DEF Had
<1>16. MemoriesGood(rows', questions', unsaved', agents')
  BY <1>1, <1>15, NowHad DEF MemoriesGood
<1>17. ReadsGood(rows', questions', unsaved')
  <2>. SUFFICES ASSUME NEW p \in DOMAIN questions
                PROVE  Good(rows', questions', unsaved', questions'[p].session, questions'[p].read)
    BY <1>4 DEF ReadsGood, Moved
  <2>1. CASE p = q
    BY <1>2a, <1>4, <1>15, <2>1 DEF Moved
  <2>2. CASE p # q
    BY <1>4, <1>15, <2>2, NowHad DEF Moved
  <2>. QED
    BY <2>1, <2>2
<1>18. ConvPlain(rows', questions', unsaved', agents')
  BY <1>1, <1>4, <1>12 DEF ConvPlain, Moved
<1>. QED
  BY <1>1, <1>13, <1>16, <1>17, <1>18 DEF ConvInv

LEMMA HandleKeeps ==
  ASSUME ConvInv, NEW q \in DOMAIN questions, Handle(q)
  PROVE  ConvInv'
<1>1. CASE Bind(q) \/ SetMessages(q)
  BY <1>1, BindKeeps, SetMessagesKeeps
<1>2. CASE Refuse(q) \/ Fail(q)
  <2>1. UNCHANGED <<rows, agents, switches, unsaved>>
    BY <1>2 DEF Refuse, Fail
  <2>2. \/ Go(q, "waiting", "answered", << >>) \/ Go(q, "bound", "answered", << >>)
        \/ Go(q, "thinking", "failed", << >>)
    BY <1>2 DEF Refuse, Fail
  <2>. QED
    BY <2>1, <2>2, NowHad, NothingHad, StepKeeps DEF Plainly
<1>3. CASE AddQuestion(q)
  <2>1. CASE Remember(q, "user", "asking", "asked")
    BY <2>1, RememberKeeps DEF Before
  <2>2. CASE SaveMessage(q, "user", "asked", "cutting")
    BY <2>2, SaveGood DEF Before
  <2>. QED
    BY <1>3, <2>1, <2>2, ReadKeeps, CutKeeps DEF AddQuestion
<1>4. CASE AddAnswer(q)
  <2>1. CASE Remember(q, "assistant", "answering", "replied")
    BY <2>1, RememberKeeps DEF Before
  <2>2. CASE SaveMessage(q, "assistant", "replied", "closing")
    BY <2>2, SaveGood DEF Before
  <2>. QED
    BY <1>4, <2>1, <2>2, ReadKeeps, CutKeeps DEF AddAnswer
<1>. QED
  BY <1>1, <1>2, <1>3, <1>4 DEF Handle

LEMMA AskKeeps ==
  ASSUME ConvInv, NEW s \in Session, NEW b \in Branch, Ask(s, b)
  PROVE  ConvInv'
<1>. DEFINE x == [session |-> s, branch |-> b, phase |-> "waiting", read |-> << >>]
<1>1. /\ questions \in Seq(QuestionRow) /\ Len(questions) \in Nat /\ MaxQuestions \in Nat
      /\ ConvPlain(rows, questions, unsaved, agents)
  BY ConversationAssumption DEF ConvInv, ConvPlain
<1>2. x \in QuestionRow
  BY DEF QuestionRow
<1>3. /\ questions' = Append(questions, x) /\ Len(questions) < MaxQuestions
      /\ UNCHANGED <<rows, agents, switches, unsaved>>
  BY DEF Ask
<1>3a. x.session = s /\ x.read = << >>
  OBVIOUS
<1>. HIDE DEF x
<1>4. /\ questions' \in Seq(QuestionRow) /\ Len(questions') <= MaxQuestions
      /\ \A q \in DOMAIN questions : q \in DOMAIN questions' /\ questions'[q] = questions[q]
      /\ \A q \in DOMAIN questions' : q \in DOMAIN questions \/ questions'[q] = x
  BY <1>1, <1>2, <1>3
<1>5. RowsRight(rows, questions', unsaved)
  BY <1>4 DEF ConvInv, RowsRight, RowsAsked, AskedFor, IsPast
<1>6. \A t, l : Held(rows, questions, unsaved, t, l) => Held(rows, questions', unsaved, t, l)
  BY <1>4 DEF Held, IsSaving, IsUnsaved
<1>7. \A t, k : Had(t, k) => Good(rows, questions', unsaved, t, k)
  BY <1>6, GoodStays DEF Had
<1>8. MemoriesGood(rows, questions', unsaved, agents)
  BY <1>7, NowHad DEF MemoriesGood
<1>9. ReadsGood(rows, questions', unsaved)
  <2>. SUFFICES ASSUME NEW q \in DOMAIN questions'
                PROVE  Good(rows, questions', unsaved, questions'[q].session, questions'[q].read)
    BY DEF ReadsGood
  <2>. QED
    BY <1>3a, <1>4, <1>7, NowHad, NothingHad
<1>. QED
  BY <1>1, <1>3, <1>4, <1>5, <1>8, <1>9 DEF ConvInv, ConvPlain

LEMMA CreateBranchKeeps ==
  ASSUME ConvInv, NEW s \in Session, NEW id \in Branch, CreateBranch(s, id)
  PROVE  ConvInv'
<1>1. /\ ConvPlain(rows, questions, unsaved, agents) /\ rows \in Seq(SavedRow)
      /\ DOMAIN rows = 1 .. Len(rows) /\ Len(rows) \in Nat /\ id \in DOMAIN rows
      /\ UNCHANGED <<agents, questions, switches, unsaved>>
  BY DEF ConvInv, ConvPlain, CreateBranch
<1>2. CASE rows[id].session # s
  <2>1. rows' = rows
    BY <1>2 DEF CreateBranch
  <2>. QED
    BY <1>1, <2>1 DEF ConvInv
<1>3. CASE rows[id].session = s
  <2>. DEFINE r == [rows[id] EXCEPT !.branch = id]
  <2>1. rows' = [rows EXCEPT ![id] = r]
    BY <1>3 DEF CreateBranch
  <2>2. rows[id] \in SavedRow
    BY <1>1
  <2>3. r \in SavedRow /\ r.line = rows[id].line /\ r.session = rows[id].session
    BY <2>2 DEF SavedRow
  <2>. HIDE DEF r
  <2>4. rows' \in Seq(SavedRow) /\ DOMAIN rows' = DOMAIN rows
    BY <1>1, <2>1, <2>3
  <2>5. \A i \in DOMAIN rows : rows'[i].line = rows[i].line /\ rows'[i].session = rows[i].session
    BY <1>1, <2>1, <2>3
  <2>6. RowsRight(rows', questions, unsaved)
    BY <2>4, <2>5 DEF ConvInv, RowsRight, RowsApart, RowsAsked, AskedFor
  <2>7. \A t, l : Held(rows, questions, unsaved, t, l) => Held(rows', questions, unsaved, t, l)
    BY <2>4, <2>5 DEF Held, IsSaved
  <2>8. \A t, k : Had(t, k) => Good(rows', questions, unsaved, t, k)
    BY <2>7, GoodStays DEF Had
  <2>9. MemoriesGood(rows', questions, unsaved, agents) /\ ReadsGood(rows', questions, unsaved)
    BY <2>8, NowHad DEF MemoriesGood, ReadsGood
  <2>. QED
    BY <1>1, <2>4, <2>6, <2>9 DEF ConvInv, ConvPlain
<1>. QED
  BY <1>2, <1>3

LEMMA SwitchBranchKeeps ==
  ASSUME ConvInv, NEW s \in Session, NEW b \in Branch, SwitchBranch(s, b)
  PROVE  ConvInv'
<1>1. PICK there \in Loaded(s, b) :
        agents' = [agents EXCEPT ![s] = [made |-> TRUE, branch |-> b,
                                         memory |-> Replaced(agents[s].memory, there)]]
  BY DEF SwitchBranch
<1>. DEFINE m == Replaced(agents[s].memory, there)
<1>2. Had(s, m)
  <2>1. Had(s, agents[s].memory) /\ Had(s, there)
    BY NowHad, LoadedHad
  <2>. QED
    BY <2>1, ReplacedHad
<1>7. agents' \in [Session -> Agent] /\ \A t \in Session : Had(t, agents'[t].memory)
  BY <1>1, <1>2, AgentGiven
<1>8. UNCHANGED <<rows, questions, unsaved>> /\ switches' \in 0 .. MaxSwitches
  <2>1. UNCHANGED <<rows, questions, unsaved>> /\ switches < MaxSwitches /\ switches' = switches + 1
    BY DEF SwitchBranch
  <2>. QED
    BY <2>1, ConversationAssumption DEF ConvInv
<1>. QED
  BY <1>7, <1>8 DEF ConvInv, ConvPlain, MemoriesGood, Had

LEMMA NoAgentsGood ==
  /\ NoAgents \in [Session -> Agent]
  /\ \A R, Q, U : MemoriesGood(R, Q, U, NoAgents)
<1>1. << >> \in Seq(Line) /\ Len(<< >>) = 0
  OBVIOUS
<1>2. Main \in Branch
  BY ConversationAssumption DEF Main, Branch
<1>3. NoAgents \in [Session -> Agent]
  BY <1>1, <1>2 DEF NoAgents, Agent
<1>4. \A R, Q, U, s : Good(R, Q, U, s, << >>)
  BY <1>1 DEF Good
<1>5. \A s \in Session : NoAgents[s].memory = << >>
  BY DEF NoAgents
<1>. QED
  BY <1>3, <1>4, <1>5 DEF MemoriesGood

LEMMA RestartKeeps ==
  ASSUME ConvInv, Restart
  PROVE  ConvInv'
<1>1. /\ questions \in Seq(QuestionRow) /\ DOMAIN questions = 1 .. Len(questions)
      /\ Len(questions) \in Nat /\ Len(questions) <= MaxQuestions
      /\ rows \in Seq(SavedRow) /\ rows' = rows /\ agents' = NoAgents
      /\ unsaved' = {} /\ switches' = switches
  <2>1. rows' = rows /\ agents' = NoAgents /\ unsaved' = {} /\ switches' = switches
    BY DEF Restart
  <2>2. questions \in Seq(QuestionRow) /\ Len(questions) <= MaxQuestions /\ rows \in Seq(SavedRow)
    BY DEF ConvInv, ConvPlain
  <2>. QED
    BY <2>1, <2>2
<1>. DEFINE on(p) == IF p \in {"answered", "failed"} THEN p ELSE "lost"
<1>2. questions' = [q \in DOMAIN questions |->
                      [questions[q] EXCEPT !.phase = on(questions[q].phase), !.read = << >>]]
  BY DEF Restart
<1>3. \A q \in DOMAIN questions :
        /\ questions'[q] \in QuestionRow
        /\ questions'[q].session = questions[q].session
        /\ questions'[q].phase = on(questions[q].phase)
        /\ questions'[q].read = << >>
  <2>. SUFFICES ASSUME NEW q \in DOMAIN questions
                PROVE  /\ questions'[q] \in QuestionRow
                       /\ questions'[q].session = questions[q].session
                       /\ questions'[q].phase = on(questions[q].phase)
                       /\ questions'[q].read = << >>
    OBVIOUS
  <2>1. questions[q] \in QuestionRow
    BY <1>1
  <2>2. questions'[q] = [questions[q] EXCEPT !.phase = on(questions[q].phase), !.read = << >>]
    BY <1>2
  <2>3. on(questions[q].phase) \in Phase /\ << >> \in Seq(Line)
    BY <2>1 DEF Phase, QuestionRow
  <2>. HIDE DEF on
  <2>. QED
    BY <2>1, <2>2, <2>3 DEF QuestionRow, Phase
<1>4. questions' \in Seq(QuestionRow) /\ DOMAIN questions' = DOMAIN questions /\ Len(questions') = Len(questions)
  <2>1. questions' \in [1 .. Len(questions) -> QuestionRow]
    BY <1>1, <1>2, <1>3
  <2>. QED
    BY <1>1, <2>1
<1>5. RowsRight(rows, questions', {})
  <2>. SUFFICES ASSUME NEW i \in DOMAIN rows PROVE AskedFor(questions', rows[i])
    BY DEF ConvInv, RowsRight, RowsAsked
  <2>1. AskedFor(questions, rows[i])
    BY DEF ConvInv, RowsRight, RowsAsked
  <2>2. on(questions[rows[i].line[1]].phase) \in After(rows[i].line[2])
    BY <2>1 DEF AskedFor, IsPast, After
  <2>. HIDE DEF on
  <2>. QED
    BY <1>3, <1>4, <2>1, <2>2 DEF AskedFor, IsPast
<1>6. ReadsGood(rows, questions', {})
  <2>1. \A s : Good(rows, questions', {}, s, << >>)
    <3>1. << >> \in Seq(Line) /\ Len(<< >>) = 0
      OBVIOUS
    <3>. QED
      BY <3>1 DEF Good
  <2>. QED
    BY <1>3, <1>4, <2>1 DEF ReadsGood
<1>. QED
  BY <1>1, <1>4, <1>5, <1>6, NoAgentsGood DEF ConvInv, ConvPlain

LEMMA ConvInvInit == ConversationsInit => ConvInv
<1>. SUFFICES ASSUME ConversationsInit PROVE ConvInv
  OBVIOUS
<1>1. rows = << >> /\ questions = << >> /\ agents = NoAgents /\ unsaved = {} /\ switches = 0
  BY DEF ConversationsInit
<1>2. << >> \in Seq(SavedRow) /\ << >> \in Seq(QuestionRow) /\ Len(<< >>) = 0 /\ DOMAIN << >> = {}
  OBVIOUS
<1>3. ConvPlain(rows, questions, unsaved, agents) /\ switches \in 0 .. MaxSwitches
  BY <1>1, <1>2, NoAgentsGood, ConversationAssumption DEF ConvPlain
<1>. QED
  BY <1>1, <1>2, <1>3, NoAgentsGood DEF ConvInv, RowsRight, RowsApart, RowsAsked, ReadsGood

LEMMA ConvInductive == ConvInv /\ [ConversationsNext]_cvars => ConvInv'
<1>. SUFFICES ASSUME ConvInv, [ConversationsNext]_cvars PROVE ConvInv'
  OBVIOUS
<1>1. CASE UNCHANGED cvars
  BY <1>1 DEF cvars, ConvInv
<1>2. CASE \E s \in Session, b \in Branch : Ask(s, b) \/ SwitchBranch(s, b) \/ CreateBranch(s, b)
  BY <1>2, AskKeeps, SwitchBranchKeeps, CreateBranchKeeps
<1>3. CASE \E q \in DOMAIN questions : Handle(q)
  BY <1>3, HandleKeeps
<1>4. CASE Restart
  BY <1>4, RestartKeeps
<1>. QED
  BY <1>1, <1>2, <1>3, <1>4 DEF ConversationsNext

LEMMA ConvSound == ConvInv => ConversationsTypeOK /\ MemoryIsSaved
<1>. SUFFICES ASSUME ConvInv PROVE ConversationsTypeOK /\ MemoryIsSaved
  OBVIOUS
<1>1. ConversationsTypeOK
  BY DEF ConvInv, ConvPlain, ConversationsTypeOK, SavedRow, Agent
<1>2. MemoryIsSaved
  <2>. SUFFICES ASSUME NEW s \in Session
                PROVE  LET memory == agents[s].memory
                           own(l) == l[1] \in DOMAIN questions /\ questions[l[1]].session = s
                           saved == {rows[i].line : i \in {j \in DOMAIN rows : rows[j].session = s}}
                           saving == {l \in Line : own(l) /\ questions[l[1]].phase =
                                                      IF l[2] = "user" THEN "asked" ELSE "replied"}
                       IN  /\ IsInjective(memory)
                           /\ ToSet(memory) \subseteq saved \cup saving \cup {l \in unsaved : own(l)}
    BY DEF MemoryIsSaved
  <2>. DEFINE memory == agents[s].memory
              own(l) == l[1] \in DOMAIN questions /\ questions[l[1]].session = s
              saved == {rows[i].line : i \in {j \in DOMAIN rows : rows[j].session = s}}
              saving == {l \in Line : own(l) /\ questions[l[1]].phase =
                                         IF l[2] = "user" THEN "asked" ELSE "replied"}
              failed_ == {l \in unsaved : own(l)}
  <2>1. Good(rows, questions, unsaved, s, memory)
    BY DEF ConvInv, MemoriesGood
  <2>2. memory \in Seq(Line) /\ DOMAIN memory = 1 .. Len(memory)
    BY <2>1 DEF Good
  <2>. HIDE DEF memory
  <2>3. IsInjective(memory)
    BY <2>1, <2>2 DEF Good, IsInjective
  <2>4. ASSUME NEW l \in Line, Held(rows, questions, unsaved, s, l)
        PROVE  l \in saved \cup saving \cup failed_
    <3>1. CASE IsSaved(rows, s, l)
      BY <3>1 DEF IsSaved
    <3>2. CASE IsSaving(questions, s, l)
      BY <3>2 DEF IsSaving, Before
    <3>3. CASE IsUnsaved(questions, unsaved, s, l)
      BY <3>3 DEF IsUnsaved
    <3>. QED
      BY <2>4, <3>1, <3>2, <3>3 DEF Held
  <2>. HIDE DEF saved, saving, failed_
  <2>5. \A i \in DOMAIN memory : memory[i] \in saved \cup saving \cup failed_
    BY <2>1, <2>2, <2>4 DEF Good
  <2>6. ToSet(memory) \subseteq saved \cup saving \cup failed_
    BY <2>5 DEF ToSet
  <2>. QED
    BY <2>3, <2>6 DEF memory, saved, saving, failed_
<1>. QED
  BY <1>1, <1>2

-----------------------------------------------------------------------------
(* What providers are sent: a message with calls is followed by the result *)
(* of each of them, under the identifier of the call.                      *)

Identifier == {CallId(p, f, i, n) : p \in Adapter, f \in Function, i \in 1 .. 2, n \in Nat}
Called == [id : Identifier, name : Function]
Plain == [role : {"prompt", "user", "assistant", "summary"}]
WithCalls == [role : {"calls"}, by : Adapter, calls : Seq(Called)]
Result == [role : {"tool"}, id : Identifier]
Message == (Plain \cup WithCalls) \cup Result

\* One call or two, and Gemini's known by their names.
CallsRight(m) == /\ Len(m.calls) \in 1 .. 2
                 /\ m.by = "gemini" =>
                      \A j \in 1 .. Len(m.calls) : m.calls[j].id = <<"call_", m.calls[j].name>>

ResultAfter(s, k, j) == k + j \in DOMAIN s /\ s[k + j] = [role |-> "tool", id |-> s[k].calls[j].id]

AnsweredAt(s, k) == /\ CallsRight(s[k])
                    /\ \A j \in 1 .. Len(s[k].calls) : ResultAfter(s, k, j)

AllAnswered(s) == s \in Seq(Message) /\ \A k \in DOMAIN s : s[k].role = "calls" => AnsweredAt(s, k)

RequestOK == /\ request.to \in Adapter \cup {"nobody"}
             /\ \A i \in DOMAIN request.items : Len(request.items[i]) <= 2

DialogInv == /\ speaker \in Adapter /\ exchanges \in 0 .. MaxExchange
             /\ AllAnswered(said) /\ RequestOK
             /\ \A i \in DOMAIN said : said[i].role # "prompt"

LEMMA MessageKinds ==
  ASSUME NEW m \in Message
  PROVE  /\ m.role \in {"prompt", "user", "assistant", "summary", "calls", "tool"}
         /\ m.role = "calls" => m \in WithCalls
         /\ m.role = "tool" => m \in Result
<1>1. CASE m \in Plain
  BY <1>1 DEF Plain
<1>2. CASE m \in WithCalls
  BY <1>2 DEF WithCalls
<1>3. CASE m \in Result
  BY <1>3 DEF Result
<1>. QED
  BY <1>1, <1>2, <1>3 DEF Message

LEMMA AnsweredOne ==
  ASSUME NEW r \in {"prompt", "user", "assistant", "summary"}
  PROVE  AllAnswered(<<[role |-> r]>>)
<1>. DEFINE m == [role |-> r]
<1>1. m \in Message /\ m.role # "calls"
  BY DEF Message, Plain
<1>. HIDE DEF m
<1>2. <<m>> \in Seq(Message) /\ DOMAIN <<m>> = {1} /\ <<m>>[1] = m
  BY <1>1
<1>3. AllAnswered(<<m>>)
  BY <1>1, <1>2 DEF AllAnswered
<1>. QED
  BY <1>3 DEF m

LEMMA AnsweredConcat ==
  ASSUME NEW s, NEW t, AllAnswered(s), AllAnswered(t)
  PROVE  AllAnswered(s \o t)
<1>. DEFINE u == s \o t
<1>1. /\ s \in Seq(Message) /\ t \in Seq(Message) /\ Len(s) \in Nat /\ Len(t) \in Nat
      /\ DOMAIN s = 1 .. Len(s) /\ DOMAIN t = 1 .. Len(t)
  BY DEF AllAnswered
<1>2. /\ u \in Seq(Message) /\ DOMAIN u = 1 .. Len(s) + Len(t)
      /\ \A k \in 1 .. Len(s) : u[k] = s[k]
      /\ \A k \in 1 .. Len(t) : u[Len(s) + k] = t[k]
  BY <1>1
<1>. HIDE DEF u
<1>3. \A k \in 1 .. Len(s) : u[k].role = "calls" => AnsweredAt(u, k)
  <2>. SUFFICES ASSUME NEW k \in 1 .. Len(s), u[k].role = "calls" PROVE AnsweredAt(u, k)
    OBVIOUS
  <2>1. AnsweredAt(s, k) /\ u[k] = s[k]
    BY <1>1, <1>2 DEF AllAnswered
  <2>2. \A j \in 1 .. Len(u[k].calls) : ResultAfter(u, k, j)
    <3>. SUFFICES ASSUME NEW j \in 1 .. Len(u[k].calls) PROVE ResultAfter(u, k, j)
      OBVIOUS
    <3>1. k + j \in 1 .. Len(s) /\ s[k + j] = [role |-> "tool", id |-> s[k].calls[j].id]
      BY <1>1, <2>1 DEF AnsweredAt, ResultAfter
    <3>2. k + j \in DOMAIN u
      BY <1>1, <1>2, <3>1
    <3>3. u[k + j] = s[k + j]
      BY <1>2, <3>1
    <3>. QED
      BY <2>1, <3>1, <3>2, <3>3 DEF ResultAfter
  <2>. QED
    BY <2>1, <2>2 DEF AnsweredAt
<1>4. \A k \in 1 .. Len(t) : u[Len(s) + k].role = "calls" => AnsweredAt(u, Len(s) + k)
  <2>. SUFFICES ASSUME NEW k \in 1 .. Len(t), u[Len(s) + k].role = "calls"
                PROVE  AnsweredAt(u, Len(s) + k)
    OBVIOUS
  <2>1. PICK d \in Nat : d = Len(s) + k
    BY <1>1
  <2>2. AnsweredAt(t, k) /\ u[d] = t[k]
    BY <1>1, <1>2, <2>1 DEF AllAnswered
  <2>3. \A j \in 1 .. Len(u[d].calls) : ResultAfter(u, d, j)
    <3>. SUFFICES ASSUME NEW j \in 1 .. Len(u[d].calls) PROVE ResultAfter(u, d, j)
      OBVIOUS
    <3>1. k + j \in 1 .. Len(t) /\ t[k + j] = [role |-> "tool", id |-> t[k].calls[j].id]
      BY <1>1, <2>2 DEF AnsweredAt, ResultAfter
    <3>0. j \in Nat
      <4>1. Len(t[k].calls) \in Nat
        BY <2>2 DEF AnsweredAt, CallsRight
      <4>. QED
        BY <2>2, <4>1
    <3>2. d + j \in DOMAIN u /\ d + j = Len(s) + (k + j)
      BY <1>1, <1>2, <2>1, <3>0, <3>1
    <3>3. u[d + j] = t[k + j]
      BY <1>2, <3>1, <3>2
    <3>. QED
      BY <2>2, <3>1, <3>2, <3>3 DEF ResultAfter
  <2>4. AnsweredAt(u, d)
    BY <2>2, <2>3 DEF AnsweredAt
  <2>. QED
    BY <2>1, <2>4
<1>5. \A k \in DOMAIN u : k \in 1 .. Len(s) \/ \E i \in 1 .. Len(t) : k = Len(s) + i
  <2>. SUFFICES ASSUME NEW k \in DOMAIN u, k \notin 1 .. Len(s)
                PROVE  \E i \in 1 .. Len(t) : k = Len(s) + i
    OBVIOUS
  <2>1. k - Len(s) \in 1 .. Len(t) /\ k = Len(s) + (k - Len(s))
    BY <1>1, <1>2
  <2>. QED
    BY <2>1
<1>6. AllAnswered(u)
  BY <1>2, <1>3, <1>4, <1>5 DEF AllAnswered
<1>. QED
  BY <1>6 DEF u

\* A conversation that loses its beginning.
LEMMA AnsweredSuffix ==
  ASSUME NEW s, AllAnswered(s), NEW k \in Nat, k <= Len(s)
  PROVE  AllAnswered(SubSeq(s, k + 1, Len(s)))
<1>. DEFINE n == Len(s)
            u == SubSeq(s, k + 1, n)
<1>1. s \in Seq(Message) /\ n \in Nat /\ DOMAIN s = 1 .. n /\ k + 1 \in 1 .. n + 1
  BY DEF AllAnswered
<1>2. u \in Seq(Message) /\ Len(u) = n - k /\ DOMAIN u = 1 .. n - k
  <2>0. (\A i \in k + 1 .. n : s[i] \in Message) /\ k + 1 \in Int /\ n \in Int
    BY <1>1
  <2>1. SubSeq(s, k + 1, n) \in Seq(Message) /\ Len(SubSeq(s, k + 1, n)) = n - k
    <3>1. \A a \in Int, b \in Int : (\A i \in a .. b : s[i] \in Message) =>
             SubSeq(s, a, b) \in Seq(Message) /\ Len(SubSeq(s, a, b)) = IF a <= b THEN b - a + 1 ELSE 0
      BY SubSeqProperties
    <3>2. n \in Nat /\ k <= n
      BY <1>1
    <3>. HIDE DEF n
    <3>3. \A b \in Nat : k <= b => (IF k + 1 <= b THEN b - (k + 1) + 1 ELSE 0) = b - k
      OBVIOUS
    <3>. QED
      BY <2>0, <3>1, <3>2, <3>3
  <2>2. u \in Seq(Message) /\ Len(u) = n - k
    BY <2>1
  <2>. HIDE DEF u
  <2>. QED
    BY <2>2
<1>3. \A i \in 1 .. n - k : u[i] = s[k + i] /\ k + i \in 1 .. n
  <2>. SUFFICES ASSUME NEW i \in 1 .. n - k PROVE u[i] = s[k + i] /\ k + i \in 1 .. n
    OBVIOUS
  <2>1. SubSeq(s, k + 1, n)[i] = s[(k + 1) + i - 1]
    BY <1>1, SubSeqProperties
  <2>2. (k + 1) + i - 1 = k + i /\ k + i \in 1 .. n
    BY <1>1
  <2>. QED
    BY <2>1, <2>2
<1>. HIDE DEF u, n
<1>4. \A i \in DOMAIN u : u[i].role = "calls" => AnsweredAt(u, i)
  <2>. SUFFICES ASSUME NEW i \in DOMAIN u, u[i].role = "calls" PROVE AnsweredAt(u, i)
    OBVIOUS
  <2>1. PICK d \in Nat : d = k + i
    BY <1>2
  <2>2. u[i] = s[d] /\ d \in DOMAIN s
    BY <1>1, <1>2, <1>3, <2>1
  <2>3. AnsweredAt(s, d)
    BY <2>2 DEF AllAnswered
  <2>4. \A j \in 1 .. Len(u[i].calls) : ResultAfter(u, i, j)
    <3>. SUFFICES ASSUME NEW j \in 1 .. Len(u[i].calls) PROVE ResultAfter(u, i, j)
      OBVIOUS
    <3>1. d + j \in 1 .. n /\ s[d + j] = [role |-> "tool", id |-> s[d].calls[j].id]
      BY <1>1, <2>2, <2>3 DEF AnsweredAt, ResultAfter
    <3>0. j \in Nat
      <4>1. Len(s[d].calls) \in Nat
        BY <2>3 DEF AnsweredAt, CallsRight
      <4>. QED
        BY <2>2, <4>1
    <3>2. i + j \in 1 .. n - k /\ k + (i + j) = d + j
      BY <1>1, <1>2, <2>1, <3>0, <3>1
    <3>3. u[i + j] = s[d + j]
      BY <1>3, <3>2
    <3>. QED
      BY <1>2, <2>2, <3>1, <3>2, <3>3 DEF ResultAfter
  <2>. QED
    BY <2>2, <2>3, <2>4 DEF AnsweredAt
<1>5. AllAnswered(u)
  BY <1>2, <1>4 DEF AllAnswered
<1>. QED
  BY <1>5 DEF u, n

LEMMA ExchangeAnswered ==
  ASSUME NEW p \in Adapter, NEW n \in Nat, NEW l \in 1 .. 2, NEW functions \in [1 .. l -> Function]
  PROVE  AllAnswered(Exchange(p, functions, n))
<1>. DEFINE c == Calls(p, functions, n)
            m == [role |-> "calls", by |-> p, calls |-> c]
            r == [i \in DOMAIN functions |-> [role |-> "tool", id |-> CallId(p, functions[i], i, n)]]
            u == Exchange(p, functions, n)
<1>1. \A i \in 1 .. l : CallId(p, functions[i], i, n) \in Identifier
  <2>. SUFFICES ASSUME NEW i \in 1 .. l PROVE CallId(p, functions[i], i, n) \in Identifier
    OBVIOUS
  <2>1. i \in 1 .. 2 /\ functions[i] \in Function
    OBVIOUS
  <2>. QED
    BY <2>1 DEF Identifier
<1>2. \A i \in 1 .. l : c[i].id = CallId(p, functions[i], i, n) /\ c[i].name = functions[i]
  BY DEF Calls
<1>3. c \in Seq(Called) /\ Len(c) = l
  <2>1. c \in [1 .. l -> Called]
    BY <1>1 DEF Calls, Called
  <2>. QED
    BY <2>1
<1>4. r \in Seq(Message) /\ Len(r) = l
  <2>1. r \in [1 .. l -> Message]
    BY <1>1 DEF Message, Result
  <2>. QED
    BY <2>1
<1>5. \A i \in 1 .. l : r[i] = [role |-> "tool", id |-> c[i].id]
  BY <1>2
<1>. HIDE DEF c
<1>6. m \in Message /\ m.role = "calls" /\ m.by = p /\ m.calls = c
  BY <1>3 DEF Message, WithCalls
<1>7. u = <<m>> \o r
  BY DEF Exchange, c
<1>. HIDE DEF m, r, u
<1>8. /\ u \in Seq(Message) /\ DOMAIN u = 1 .. 1 + l /\ u[1] = m
      /\ \A i \in 1 .. l : u[1 + i] = r[i]
  <2>1. <<m>> \in Seq(Message) /\ Len(<<m>>) = 1 /\ <<m>>[1] = m
    BY <1>6
  <2>. HIDE DEF m
  <2>2. PICK w : w = <<m>>
    OBVIOUS
  <2>3. u = w \o r /\ w \in Seq(Message) /\ Len(w) = 1 /\ w[1] = m
    BY <1>7, <2>1, <2>2
  <2>. QED
    BY <1>4, <2>3, ConcatProperties
<1>9. CallsRight(m)
  <2>1. p = "gemini" => \A j \in 1 .. l : c[j].id = <<"call_", c[j].name>>
    BY <1>2 DEF CallId
  <2>. QED
    BY <1>3, <1>6, <2>1 DEF CallsRight
<1>10. AnsweredAt(u, 1)
  <2>1. \A j \in 1 .. l : ResultAfter(u, 1, j)
    BY <1>5, <1>6, <1>8 DEF ResultAfter
  <2>. QED
    BY <1>3, <1>6, <1>8, <1>9, <2>1 DEF AnsweredAt
<1>11. \A k \in DOMAIN u : k # 1 => u[k].role = "tool"
  <2>. SUFFICES ASSUME NEW k \in DOMAIN u, k # 1 PROVE u[k].role = "tool"
    OBVIOUS
  <2>1. k - 1 \in 1 .. l /\ k = 1 + (k - 1)
    BY <1>8
  <2>2. PICK i \in 1 .. l : k = 1 + i
    BY <2>1
  <2>3. u[k] = r[i] /\ r[i] = [role |-> "tool", id |-> c[i].id]
    BY <1>5, <1>8, <2>2
  <2>. QED
    BY <2>3
<1>12. AllAnswered(u)
  BY <1>8, <1>10, <1>11 DEF AllAnswered
<1>. QED
  BY <1>12 DEF u

LEMMA BuiltAnswered ==
  ASSUME DialogInv
  PROVE  AllAnswered(Built)
<1>1. AllAnswered(<<[role |-> "prompt"]>>)
  BY AnsweredOne
<1>. QED
  BY <1>1, AnsweredConcat DEF Built, DialogInv

\* No part of a request is longer than the two calls of a message.
LEMMA EncodedShort ==
  ASSUME DialogInv, NEW p \in Adapter
  PROVE  LET r == Encoded(p, Built)
         IN  r.to = p /\ \A i \in DOMAIN r.items : Len(r.items[i]) <= 2
<1>. DEFINE items == [i \in DOMAIN Built |->
              CASE Built[i].role = "calls" ->
                     [j \in DOMAIN Built[i].calls |-> CallKey(p, Built[i].calls[j])]
                [] Built[i].role = "tool" -> <<ResultKey(p, Built[i].id)>>
                [] OTHER -> <<>>]
<1>1. Encoded(p, Built).to = p /\ Encoded(p, Built).items = items
  BY DEF Encoded
<1>2. \A i \in DOMAIN items : Len(items[i]) <= 2
  <2>. SUFFICES ASSUME NEW i \in DOMAIN Built PROVE Len(items[i]) <= 2
    OBVIOUS
  <2>1. AllAnswered(Built)
    BY BuiltAnswered
  <2>2. Built[i] \in Message
    BY <2>1 DEF AllAnswered
  <2>3. CASE Built[i].role = "calls"
    <3>1. /\ items[i] = [j \in DOMAIN Built[i].calls |-> CallKey(p, Built[i].calls[j])]
          /\ Built[i].calls \in Seq(Called) /\ Len(Built[i].calls) \in 1 .. 2
      <4>1. Built[i].calls \in Seq(Called)
        BY <2>2, <2>3, MessageKinds DEF WithCalls
      <4>2. AnsweredAt(Built, i)
        BY <2>1, <2>3 DEF AllAnswered
      <4>. QED
        BY <2>3, <4>1, <4>2 DEF AnsweredAt, CallsRight
    <3>. HIDE DEF items
    <3>2. PICK x : x = items[i]
      OBVIOUS
    <3>3. DOMAIN x = 1 .. Len(Built[i].calls)
      BY <3>1, <3>2
    <3>4. Len(x) = Len(Built[i].calls)
      BY <3>1, <3>3
    <3>. QED
      BY <3>1, <3>2, <3>4
  <2>4. CASE Built[i].role = "tool"
    <3>1. items[i] = <<ResultKey(p, Built[i].id)>>
      BY <2>4
    <3>2. \A x : Len(<<x>>) = 1
      OBVIOUS
    <3>. QED
      BY <3>1, <3>2
  <2>5. CASE Built[i].role \notin {"calls", "tool"}
    <3>1. items[i] = << >> /\ Len(<< >>) = 0
      BY <2>5
    <3>. HIDE DEF items
    <3>. QED
      BY <3>1
  <2>. QED
    BY <2>3, <2>4, <2>5
<1>. HIDE DEF items
<1>. QED
  BY <1>1, <1>2

LEMMA SendKeeps ==
  ASSUME DialogInv, NEW p \in Adapter, Send(p)
  PROVE  RequestOK'
<1>. DEFINE r == Encoded(p, Built)
<1>1. request' = r
  BY DEF Send
<1>2. r.to = p /\ \A i \in DOMAIN r.items : Len(r.items[i]) <= 2
  BY EncodedShort
<1>. HIDE DEF r
<1>. QED
  BY <1>1, <1>2 DEF RequestOK

LEMMA NoPromptConcat ==
  ASSUME NEW s \in Seq(Message), NEW t \in Seq(Message),
         \A i \in DOMAIN s : s[i].role # "prompt", \A i \in DOMAIN t : t[i].role # "prompt"
  PROVE  \A i \in DOMAIN (s \o t) : (s \o t)[i].role # "prompt"
<1>. SUFFICES ASSUME NEW i \in DOMAIN (s \o t) PROVE (s \o t)[i].role # "prompt"
  OBVIOUS
<1>1. /\ Len(s) \in Nat /\ Len(t) \in Nat /\ DOMAIN s = 1 .. Len(s) /\ DOMAIN t = 1 .. Len(t)
      /\ DOMAIN (s \o t) = 1 .. Len(s) + Len(t)
  OBVIOUS
<1>2. CASE i <= Len(s)
  <2>1. (s \o t)[i] = s[i] /\ i \in DOMAIN s
    BY <1>1, <1>2
  <2>. QED
    BY <2>1
<1>3. CASE i > Len(s)
  <2>1. i - Len(s) \in DOMAIN t /\ (s \o t)[i] = t[i - Len(s)]
    BY <1>1, <1>3
  <2>. QED
    BY <2>1
<1>. QED
  BY <1>1, <1>2, <1>3

LEMMA SaidPlainly ==
  ASSUME DialogInv, NEW r \in {"user", "assistant", "summary"}
  PROVE  /\ AllAnswered(Append(said, [role |-> r]))
         /\ \A i \in DOMAIN Append(said, [role |-> r]) : Append(said, [role |-> r])[i].role # "prompt"
<1>. DEFINE m == [role |-> r]
<1>1. AllAnswered(<<m>>)
  BY AnsweredOne
<1>2. m.role # "prompt"
  OBVIOUS
<1>3. said \in Seq(Message) /\ <<m>> \in Seq(Message) /\ m \in Message
  <2>1. m \in Message
    BY DEF Message, Plain
  <2>. QED
    BY <2>1 DEF DialogInv, AllAnswered
<1>. HIDE DEF m
<1>4. Append(said, m) = said \o <<m>>
  BY <1>3
<1>5. AllAnswered(said \o <<m>>)
  BY <1>1, AnsweredConcat DEF DialogInv
<1>6. \A i \in DOMAIN <<m>> : <<m>>[i].role # "prompt"
  BY <1>2
<1>7. \A i \in DOMAIN (said \o <<m>>) : (said \o <<m>>)[i].role # "prompt"
  BY <1>3, <1>6, NoPromptConcat DEF DialogInv
<1>. QED
  BY <1>4, <1>5, <1>7 DEF m

LEMMA ExchangeHasNoPrompt ==
  ASSUME NEW p \in Adapter, NEW n \in Nat, NEW l \in 1 .. 2, NEW functions \in [1 .. l -> Function]
  PROVE  \A i \in DOMAIN Exchange(p, functions, n) : Exchange(p, functions, n)[i].role # "prompt"
<1>. DEFINE c == [role |-> "calls", by |-> p, calls |-> Calls(p, functions, n)]
            r == [i \in DOMAIN functions |-> [role |-> "tool", id |-> CallId(p, functions[i], i, n)]]
            u == Exchange(p, functions, n)
<1>1. u = <<c>> \o r /\ c.role = "calls"
  BY DEF Exchange
<1>2. DOMAIN r = 1 .. l /\ Len(r) = l /\ \A i \in 1 .. l : r[i].role = "tool"
  <2>1. DOMAIN r = 1 .. l /\ \A i \in 1 .. l : r[i].role = "tool"
    OBVIOUS
  <2>. HIDE DEF r
  <2>2. Len(r) = l
    BY <2>1
  <2>. QED
    BY <2>1, <2>2
<1>. HIDE DEF c, r, u
<1>3. DOMAIN u = 1 .. 1 + l /\ \A i \in 1 .. 1 + l : u[i] = IF i = 1 THEN c ELSE r[i - 1]
  <2>1. Len(<<c>>) = 1 /\ <<c>>[1] = c /\ DOMAIN <<c>> = 1 .. 1
    OBVIOUS
  <2>2. u = [i \in 1 .. Len(<<c>>) + Len(r) |-> IF i <= Len(<<c>>) THEN <<c>>[i] ELSE r[i - Len(<<c>>)]]
    BY <1>1
  <2>. QED
    BY <1>2, <2>1, <2>2
<1>4. \A i \in 1 .. 1 + l : i # 1 => i - 1 \in 1 .. l
  OBVIOUS
<1>5. \A i \in DOMAIN u : u[i].role # "prompt"
  BY <1>1, <1>2, <1>3, <1>4
<1>. QED
  BY <1>5 DEF u

LEMMA DialogInvInit == MessagesInit => DialogInv
<1>. SUFFICES ASSUME MessagesInit PROVE DialogInv
  OBVIOUS
<1>1. /\ said = << >> /\ speaker \in Adapter /\ exchanges = 0
      /\ request = [to |-> "nobody", system |-> << >>, items |-> << >>]
  BY DEF MessagesInit
<1>2. << >> \in Seq(Message) /\ DOMAIN << >> = {}
  OBVIOUS
<1>3. AllAnswered(said) /\ \A i \in DOMAIN said : said[i].role # "prompt"
  BY <1>1, <1>2 DEF AllAnswered
<1>4. request.to = "nobody" /\ request.items = << >>
  BY <1>1
<1>5. RequestOK
  BY <1>2, <1>4 DEF RequestOK
<1>6. exchanges \in 0 .. MaxExchange
  BY <1>1, AdapterAssumption
<1>. QED
  BY <1>1, <1>3, <1>5, <1>6 DEF DialogInv

LEMMA SummarizeKeeps ==
  ASSUME DialogInv, Summarize
  PROVE  AllAnswered(said') /\ \A i \in DOMAIN said' : said'[i].role # "prompt"
<1>. DEFINE m == [role |-> "summary"]
            n == Len(said)
            u == SubSeq(said, n - 1, n)
<1>1. said \in Seq(Message) /\ n \in Nat /\ n >= 4 /\ DOMAIN said = 1 .. n
  BY DEF DialogInv, AllAnswered, Summarize
<1>2. PICK k \in Nat : k = n - 2
  <2>1. n \in Nat /\ n >= 4
    BY <1>1
  <2>. HIDE DEF n
  <2>. QED
    BY <2>1
<1>3. u = SubSeq(said, k + 1, n) /\ k <= n
  <2>1. n - 1 = k + 1 /\ k <= n
    BY <1>1, <1>2
  <2>. HIDE DEF n
  <2>. QED
    BY <2>1
<1>4. AllAnswered(u)
  BY <1>2, <1>3, AnsweredSuffix DEF DialogInv
<1>5. said' = <<m>> \o u
  BY DEF Summarize
<1>6. \A i \in DOMAIN u : u[i].role # "prompt"
  <2>. SUFFICES ASSUME NEW i \in DOMAIN u PROVE u[i].role # "prompt"
    OBVIOUS
  <2>1. i \in 1 .. 2 /\ u[i] = said[k + i] /\ k + i \in 1 .. n
    <3>1. \A j \in n - 1 .. n : said[j] \in Message
      BY <1>1
    <3>2. /\ SubSeq(said, n - 1, n) \in Seq(Message)
          /\ Len(SubSeq(said, n - 1, n)) = IF n - 1 <= n THEN n - (n - 1) + 1 ELSE 0
          /\ \A j \in 1 .. n - (n - 1) + 1 : SubSeq(said, n - 1, n)[j] = said[n - 1 + j - 1]
      <4>1. \A a \in Int, b \in Int : (\A j \in a .. b : said[j] \in Message) =>
               /\ SubSeq(said, a, b) \in Seq(Message)
               /\ Len(SubSeq(said, a, b)) = IF a <= b THEN b - a + 1 ELSE 0
               /\ \A j \in 1 .. b - a + 1 : SubSeq(said, a, b)[j] = said[a + j - 1]
        BY SubSeqProperties
      <4>2. n - 1 \in Int /\ n \in Int
        BY <1>1
      <4>. HIDE DEF n
      <4>. QED
        BY <3>1, <4>1, <4>2
    <3>3. u \in Seq(Message) /\ i \in DOMAIN u
      BY <3>2
    <3>4. Len(u) = IF n - 1 <= n THEN n - (n - 1) + 1 ELSE 0
      BY <3>2
    <3>5. \A j \in 1 .. n - (n - 1) + 1 : u[j] = said[n - 1 + j - 1]
      BY <3>2
    <3>. HIDE DEF u, n
    <3>6. Len(u) = 2 /\ n - (n - 1) + 1 = 2
      BY <1>1, <3>4
    <3>7. i \in 1 .. 2
      BY <3>3, <3>6
    <3>8. n - 1 + i - 1 = k + i /\ k + i \in 1 .. n
      BY <1>1, <1>2, <3>7
    <3>9. u[i] = said[n - 1 + i - 1]
      BY <3>5, <3>6, <3>7
    <3>. QED
      BY <3>7, <3>8, <3>9
  <2>. QED
    BY <1>1, <2>1 DEF DialogInv
<1>7. AllAnswered(<<m>>) /\ m.role # "prompt"
  BY AnsweredOne
<1>. HIDE DEF m, u
<1>8. AllAnswered(said')
  BY <1>4, <1>5, <1>7, AnsweredConcat
<1>9. \A i \in DOMAIN <<m>> : <<m>>[i].role # "prompt"
  BY <1>7
<1>10. u \in Seq(Message) /\ <<m>> \in Seq(Message)
  BY <1>4, <1>7 DEF AllAnswered
<1>11. \A i \in DOMAIN (<<m>> \o u) : (<<m>> \o u)[i].role # "prompt"
  BY <1>6, <1>9, <1>10, NoPromptConcat
<1>. QED
  BY <1>5, <1>8, <1>11

LEMMA CallKeeps ==
  ASSUME DialogInv, NEW p \in Adapter, CallBy(p)
  PROVE  AllAnswered(said') /\ \A i \in DOMAIN said' : said'[i].role # "prompt"
<1>0. \A l \in 1 .. 2, e \in Nat : \A F \in [1 .. l -> Function] :
        /\ AllAnswered(Exchange(p, F, e))
        /\ \A i \in DOMAIN Exchange(p, F, e) : Exchange(p, F, e)[i].role # "prompt"
  BY ExchangeAnswered, ExchangeHasNoPrompt
<1>1. PICK functions : /\ functions \in {<<f>> : f \in Function} \cup {<<f, g>> : f, g \in Function}
                         /\ said' = said \o Exchange(p, functions, exchanges)
  BY DEF CallBy
<1>2. PICK l \in 1 .. 2 : functions \in [1 .. l -> Function]
  <2>1. CASE \E f \in Function : functions = <<f>>
    <3>1. PICK f \in Function : functions = <<f>>
      BY <2>1
    <3>2. functions \in [1 .. 1 -> Function]
      BY <3>1
    <3>. QED
      BY <3>2
  <2>2. CASE \E f, g \in Function : functions = <<f, g>>
    <3>1. PICK f \in Function, g \in Function : functions = <<f, g>>
      BY <2>2
    <3>2. functions \in [1 .. 2 -> Function]
      BY <3>1
    <3>. QED
      BY <3>2
  <2>. QED
    BY <1>1, <2>1, <2>2
<1>3. exchanges \in Nat
  BY AdapterAssumption DEF DialogInv
<1>. DEFINE u == Exchange(p, functions, exchanges)
<1>4. AllAnswered(u) /\ \A i \in DOMAIN u : u[i].role # "prompt"
  <2>1. PICK e \in Nat : e = exchanges
    BY <1>3
  <2>2. u = Exchange(p, functions, e)
    BY <2>1
  <2>. HIDE DEF u
  <2>. QED
    BY <1>0, <1>2, <2>2
<1>5. said' = said \o u
  BY <1>1
<1>. HIDE DEF u
<1>6. AllAnswered(said \o u)
  BY <1>4, AnsweredConcat DEF DialogInv
<1>7. said \in Seq(Message) /\ u \in Seq(Message)
  BY <1>4 DEF DialogInv, AllAnswered
<1>8. \A i \in DOMAIN (said \o u) : (said \o u)[i].role # "prompt"
  BY <1>4, <1>7, NoPromptConcat DEF DialogInv
<1>. QED
  BY <1>5, <1>6, <1>8

LEMMA DialogInductive == DialogInv /\ [MessagesNext]_dvars => DialogInv'
<1>. SUFFICES ASSUME DialogInv, [MessagesNext]_dvars PROVE DialogInv'
  OBVIOUS
<1>. USE AdapterAssumption
<1>1. CASE UNCHANGED dvars
  BY <1>1 DEF dvars, DialogInv, RequestOK
<1>2. CASE UserSpeaks
  <2>1. /\ said' = Append(said, [role |-> "user"]) /\ UNCHANGED <<speaker, request>>
        /\ exchanges < MaxExchange /\ exchanges' = exchanges + 1
    BY <1>2 DEF UserSpeaks
  <2>2. AllAnswered(said') /\ \A i \in DOMAIN said' : said'[i].role # "prompt"
    BY <2>1, SaidPlainly
  <2>3. exchanges' \in 0 .. MaxExchange
    BY <2>1 DEF DialogInv
  <2>. QED
    BY <2>1, <2>2, <2>3 DEF DialogInv, RequestOK
<1>3. CASE Summarize
  BY <1>3, SummarizeKeeps DEF DialogInv, RequestOK, Summarize
<1>4. CASE Choose
  BY <1>4 DEF Choose, DialogInv, RequestOK
<1>5. ASSUME NEW p \in Adapter, AnswerBy(p) PROVE DialogInv'
  <2>1. /\ said' = Append(said, [role |-> "assistant"]) /\ UNCHANGED <<speaker, exchanges>>
        /\ Send(p)
    BY <1>5 DEF AnswerBy
  <2>2. AllAnswered(said') /\ \A i \in DOMAIN said' : said'[i].role # "prompt"
    BY <2>1, SaidPlainly
  <2>3. RequestOK'
    BY <2>1, SendKeeps
  <2>. QED
    BY <2>1, <2>2, <2>3 DEF DialogInv
<1>6. ASSUME NEW p \in Adapter, CallBy(p) PROVE DialogInv'
  <2>1. /\ Send(p) /\ speaker' = speaker /\ exchanges < MaxExchange /\ exchanges' = exchanges + 1
    BY <1>6 DEF CallBy
  <2>2. AllAnswered(said') /\ \A i \in DOMAIN said' : said'[i].role # "prompt"
    BY <1>6, CallKeeps
  <2>3. RequestOK'
    BY <2>1, SendKeeps
  <2>4. exchanges' \in 0 .. MaxExchange
    BY <2>1 DEF DialogInv
  <2>. QED
    BY <2>1, <2>2, <2>3, <2>4 DEF DialogInv
<1>. QED
  BY <1>1, <1>2, <1>3, <1>4, <1>5, <1>6 DEF MessagesNext

LEMMA KeysAgree ==
  ASSUME NEW p \in Adapter, NEW c,
         p = "gemini" => c.id = <<"call_", c.name>>
  PROVE  CallKey(p, c) = ResultKey(p, c.id)
<1>1. p \in {"openai", "anthropic", "gemini", "ollama"}
  BY AdapterAssumption
<1>2. CASE p \in {"openai", "anthropic"}
  BY <1>2 DEF CallKey, ResultKey
<1>3. CASE p = "gemini"
  <2>1. c.id[1] = "call_" /\ c.id[2] = c.name
    BY <1>3
  <2>. QED
    BY <1>3, <2>1 DEF CallKey, ResultKey
<1>4. CASE p = "ollama"
  BY <1>4 DEF CallKey, ResultKey
<1>. QED
  BY <1>1, <1>2, <1>3, <1>4

LEMMA DialogSound == DialogInv => MessagesTypeOK /\ ResultsReachTheirCalls
<1>. SUFFICES ASSUME DialogInv PROVE MessagesTypeOK /\ ResultsReachTheirCalls
  OBVIOUS
<1>1. \A i \in DOMAIN said : said[i].role \in {"user", "assistant", "summary", "calls", "tool"}
  <2>. SUFFICES ASSUME NEW i \in DOMAIN said
                PROVE  said[i].role \in {"user", "assistant", "summary", "calls", "tool"}
    OBVIOUS
  <2>1. said[i] \in Message /\ said[i].role # "prompt"
    BY DEF DialogInv, AllAnswered
  <2>. QED
    BY <2>1, MessageKinds
<1>2. MessagesTypeOK
  BY <1>1 DEF DialogInv, RequestOK, MessagesTypeOK
<1>3. AllAnswered(Built)
  BY BuiltAnswered
<1>4. ASSUME NEW p \in Adapter, NEW k \in DOMAIN Built, Built[k].role = "calls",
             p # "gemini" \/ Built[k].by = "gemini"
      PROVE  ReachesItsCall(Encoded(p, Built).items, k, Len(Built[k].calls))
  <2>. DEFINE items == Encoded(p, Built).items
              n == Len(Built[k].calls)
              c == Built[k].calls
              results == [j \in 1 .. n |-> items[k + j][1]]
  <2>1. /\ AnsweredAt(Built, k) /\ Built[k] \in Message
        /\ \A i \in DOMAIN Built :
             /\ Built[i].role = "calls" =>
                  items[i] = [j \in DOMAIN Built[i].calls |-> CallKey(p, Built[i].calls[j])]
             /\ Built[i].role = "tool" => items[i] = <<ResultKey(p, Built[i].id)>>
    <3>1. AnsweredAt(Built, k) /\ Built[k] \in Message
      BY <1>3, <1>4 DEF AllAnswered
    <3>2. items = [i \in DOMAIN Built |->
                     CASE Built[i].role = "calls" ->
                            [j \in DOMAIN Built[i].calls |-> CallKey(p, Built[i].calls[j])]
                       [] Built[i].role = "tool" -> <<ResultKey(p, Built[i].id)>>
                       [] OTHER -> <<>>]
      BY DEF Encoded
    <3>. HIDE DEF items
    <3>. QED
      BY <3>1, <3>2
  <2>2. c \in Seq(Called) /\ n \in Nat /\ DOMAIN c = 1 .. n
    <3>1. Built[k] \in WithCalls
      BY <1>4, <2>1, MessageKinds
    <3>. QED
      BY <3>1 DEF WithCalls
  <2>. HIDE DEF items
  <2>3. items[k] = [j \in 1 .. n |-> CallKey(p, c[j])]
    BY <1>4, <2>1, <2>2
  <2>4. \A j \in 1 .. n : items[k + j][1] = ResultKey(p, c[j].id)
    <3>. SUFFICES ASSUME NEW j \in 1 .. n PROVE items[k + j][1] = ResultKey(p, c[j].id)
      OBVIOUS
    <3>1. k + j \in DOMAIN Built /\ Built[k + j] = [role |-> "tool", id |-> c[j].id]
      BY <2>1 DEF AnsweredAt, ResultAfter
    <3>2. PICK d : d = k + j
      OBVIOUS
    <3>3. d \in DOMAIN Built /\ Built[d].role = "tool" /\ Built[d].id = c[j].id
      BY <3>1, <3>2
    <3>4. items[d] = <<ResultKey(p, c[j].id)>>
      BY <2>1, <3>3
    <3>. QED
      BY <3>2, <3>4
  <2>5. \A j \in 1 .. n : CallKey(p, c[j]) = ResultKey(p, c[j].id)
    <3>. SUFFICES ASSUME NEW j \in 1 .. n PROVE CallKey(p, c[j]) = ResultKey(p, c[j].id)
      OBVIOUS
    <3>1. p = "gemini" => c[j].id = <<"call_", c[j].name>>
      BY <1>4, <2>1 DEF AnsweredAt, CallsRight
    <3>. QED
      BY <3>1, KeysAgree
  <2>6. results = items[k]
    <3>1. \A j \in 1 .. n : items[k + j][1] = CallKey(p, c[j])
      BY <2>4, <2>5
    <3>. HIDE DEF n, c
    <3>. QED
      BY <2>3, <3>1
  <2>7. \A j \in 1 .. n : items[k][j] = results[j] /\ Nth(items[k], j) = Nth(results, j)
    <3>. HIDE DEF results, n
    <3>. QED
      BY <2>6
  <2>. QED
    BY <2>7 DEF ReachesItsCall, items
<1>5. ResultsReachTheirCalls
  BY <1>4 DEF ResultsReachTheirCalls
<1>. QED
  BY <1>2, <1>5

-----------------------------------------------------------------------------
(* The knowledge graph: what is stored of a name and a type, and who is    *)
(* about to store it without having found it, are together no more than    *)
(* the writers; a confidence falls by its share and by no more.            *)

Fact == [at : {"looking", "writing", "linking"}, name : Thing, kind : Kind, level : Level,
         to : SUBSET Thing, found : SUBSET (Nat \X (0 .. 100))]

Named(E, n, k) == {i \in DOMAIN E : E[i].name = n /\ E[i].kind = k}

Blind(W, n, k) == {w \in Writer : /\ W[w].at = "writing" /\ W[w].found = {}
                                  /\ W[w].name = n /\ W[w].kind = k}

Pending(W) == {w \in Writer : W[w].at \in {"looking", "writing"}}

FoundThere(E, W) == \A w \in Writer : W[w].at = "writing" =>
                      \A old \in W[w].found : old[1] \in DOMAIN E

Few(E, W) == \A n \in Thing, k \in Kind :
               Cardinality(Named(E, n, k)) + Cardinality(Blind(W, n, k)) <= Cardinality(Writer)

Room(E, W, f) == Len(E) + Cardinality(Pending(W)) <= f + Cardinality(Thing)

Late(e) == LET late == e.updated - e.toldOn - DecayAfter IN IF late > 0 THEN late ELSE 0

FairRow(e, d) == /\ e.toldOn <= e.updated /\ e.updated <= d
                 /\ e.confidence >= e.told - DecayBy * Late(e)

WorldPlain == /\ entities \in Seq(EntityRow)
              /\ writers \in [Writer -> Fact \cup {NoFact}]
              /\ facts \in 0 .. MaxFacts /\ day \in 0 .. MaxDay
              /\ links \subseteq (DOMAIN entities) \X (DOMAIN entities)

WorldInv == /\ WorldPlain /\ FoundThere(entities, writers) /\ Few(entities, writers)
            /\ Room(entities, writers, facts) /\ \A i \in DOMAIN entities : FairRow(entities[i], day)

LEMMA WritersFinite ==
  ASSUME NEW W, NEW n, NEW k
  PROVE  /\ IsFiniteSet(Blind(W, n, k)) /\ Cardinality(Blind(W, n, k)) \in Nat
         /\ Cardinality(Blind(W, n, k)) <= Cardinality(Writer)
         /\ IsFiniteSet(Pending(W)) /\ Cardinality(Pending(W)) \in Nat
         /\ Cardinality(Writer) \in Nat
<1>1. IsFiniteSet(Writer)
  BY WorldAssumption
<1>2. Blind(W, n, k) \in SUBSET Writer /\ Pending(W) \in SUBSET Writer
  BY DEF Blind, Pending
<1>3. \A T \in SUBSET Writer : /\ IsFiniteSet(T) /\ Cardinality(T) \in Nat
                               /\ Cardinality(T) <= Cardinality(Writer)
  BY <1>1, FS_Subset, FS_CardinalityType
<1>. QED
  BY <1>1, <1>2, <1>3, FS_CardinalityType

LEMMA NamedFinite ==
  ASSUME NEW E \in Seq(EntityRow), NEW n, NEW k
  PROVE  IsFiniteSet(Named(E, n, k)) /\ Cardinality(Named(E, n, k)) \in Nat
<1>1. Len(E) \in Nat /\ DOMAIN E = 1 .. Len(E)
  OBVIOUS
<1>2. IsFiniteSet(1 .. Len(E))
  BY <1>1, FS_Interval
<1>3. Named(E, n, k) \in SUBSET (1 .. Len(E))
  BY <1>1 DEF Named
<1>. QED
  BY <1>2, <1>3, FS_Subset, FS_CardinalityType

LEMMA ThingsCounted == Cardinality(Thing) \in Nat /\ IsFiniteSet(Thing)
  BY WorldAssumption, FS_CardinalityType

\* A writer goes on, and the others stay.
LEMMA ToIs ==
  ASSUME WorldInv, NEW w \in Writer, NEW r \in Fact \cup {NoFact}, To(w, r)
  PROVE  /\ writers' \in [Writer -> Fact \cup {NoFact}] /\ writers'[w] = r
         /\ \A v \in Writer : v # w => writers'[v] = writers[v]
  BY DEF To, WorldInv, WorldPlain

LEMMA FactOf ==
  ASSUME WorldInv, NEW w \in Writer, writers[w].at # "idle"
  PROVE  writers[w] \in Fact
  BY DEF WorldInv, WorldPlain, NoFact

\* A writer goes on that stores nothing with this step, as blind as it was or less.
LEMMA WriterKeeps ==
  ASSUME WorldInv, NEW w \in Writer, NEW r \in Fact \cup {NoFact}, To(w, r),
         UNCHANGED <<entities, facts, day>>,
         links' \subseteq (DOMAIN entities) \X (DOMAIN entities),
         r.at \in {"looking", "writing"} <=> writers[w].at \in {"looking", "writing"},
         r.at = "writing" => \A old \in r.found : old[1] \in DOMAIN entities,
         \A n \in Thing, k \in Kind :
           r.at = "writing" /\ r.found = {} /\ r.name = n /\ r.kind = k =>
             w \in Blind(writers, n, k) \/ Named(entities, n, k) = {}
  PROVE  WorldInv'
<1>1. /\ writers' \in [Writer -> Fact \cup {NoFact}] /\ writers'[w] = r
      /\ \A v \in Writer : v # w => writers'[v] = writers[v]
  BY ToIs
<1>2. FoundThere(entities, writers')
  BY <1>1 DEF WorldInv, FoundThere
<1>3. Pending(writers') = Pending(writers)
  BY <1>1 DEF Pending
<1>4. Few(entities, writers')
  <2>. SUFFICES ASSUME NEW n \in Thing, NEW k \in Kind
                PROVE  Cardinality(Named(entities, n, k)) + Cardinality(Blind(writers', n, k))
                         <= Cardinality(Writer)
    BY DEF Few
  <2>1. CASE Named(entities, n, k) = {}
    <3>1. Cardinality(Named(entities, n, k)) = 0
      BY <2>1, FS_EmptySet
    <3>2. Cardinality(Blind(writers', n, k)) <= Cardinality(Writer) /\ Cardinality(Blind(writers', n, k)) \in Nat
      BY WritersFinite
    <3>. QED
      BY <3>1, <3>2
  <2>2. CASE Named(entities, n, k) # {}
    <3>1. Blind(writers', n, k) \in SUBSET Blind(writers, n, k)
      <4>. SUFFICES ASSUME NEW v \in Blind(writers', n, k) PROVE v \in Blind(writers, n, k)
        OBVIOUS
      <4>1. CASE v # w
        BY <1>1, <4>1 DEF Blind
      <4>2. CASE v = w
        BY <1>1, <2>2, <4>2 DEF Blind
      <4>. QED
        BY <4>1, <4>2
    <3>2. Cardinality(Blind(writers', n, k)) <= Cardinality(Blind(writers, n, k))
      BY <3>1, WritersFinite, FS_Subset
    <3>3. Cardinality(Named(entities, n, k)) + Cardinality(Blind(writers, n, k)) <= Cardinality(Writer)
      BY DEF WorldInv, Few
    <3>4. Cardinality(Named(entities, n, k)) \in Nat
      BY NamedFinite DEF WorldInv, WorldPlain
    <3>5. /\ Cardinality(Blind(writers', n, k)) \in Nat /\ Cardinality(Blind(writers, n, k)) \in Nat
          /\ Cardinality(Writer) \in Nat
      BY WritersFinite
    <3>. QED
      BY <3>2, <3>3, <3>4, <3>5
  <2>. QED
    BY <2>1, <2>2
<1>5. Room(entities, writers', facts)
  BY <1>3 DEF WorldInv, Room
<1>. QED
  BY <1>1, <1>2, <1>4, <1>5 DEF WorldInv, WorldPlain

LEMMA LookKeeps ==
  ASSUME WorldInv, NEW w \in Writer, Look(w)
  PROVE  WorldInv'
<1>. DEFINE f == writers[w]
            r(found) == [f EXCEPT !.at = "writing", !.found = found]
<1>1. f.at = "looking" /\ UNCHANGED <<entities, links, facts, day>>
  BY DEF Look, At
<1>2. f \in Fact
  BY <1>1, FactOf
<1>3. PICK found : /\ To(w, r(found))
                   /\ \/ found = {} /\ ByNameType(f.name, f.kind) = {}
                      \/ \E i \in ByNameType(f.name, f.kind) : found = {<<i, entities[i].confidence>>}
  BY DEF Look
<1>4. entities \in Seq(EntityRow) /\ \A i \in DOMAIN entities : entities[i] \in EntityRow /\ i \in Nat
  BY DEF WorldInv, WorldPlain
<1>5. found \in SUBSET (Nat \X (0 .. 100)) /\ \A old \in found : old[1] \in DOMAIN entities
  <2>1. CASE found = {}
    BY <2>1
  <2>2. CASE \E i \in ByNameType(f.name, f.kind) : found = {<<i, entities[i].confidence>>}
    <3>1. PICK i \in ByNameType(f.name, f.kind) : found = {<<i, entities[i].confidence>>}
      BY <2>2
    <3>2. i \in DOMAIN entities
      BY DEF ByNameType, Rows
    <3>3. entities[i].confidence \in 0 .. 100 /\ i \in Nat
      BY <1>4, <3>2 DEF EntityRow
    <3>. QED
      BY <3>1, <3>2, <3>3
  <2>. QED
    BY <1>3, <2>1, <2>2
<1>6. /\ r(found).at = "writing" /\ r(found).found = found /\ r(found).name = f.name
      /\ r(found).kind = f.kind /\ r(found) \in Fact
  BY <1>2, <1>5 DEF Fact
<1>. HIDE DEF r
<1>7. \A n \in Thing, k \in Kind :
        found = {} /\ f.name = n /\ f.kind = k => Named(entities, n, k) = {}
  BY <1>3 DEF Named, ByNameType, Rows
<1>8. PICK x : x = r(found)
  OBVIOUS
<1>9. /\ x \in Fact \cup {NoFact} /\ To(w, x) /\ UNCHANGED <<entities, facts, day>>
      /\ links' \subseteq (DOMAIN entities) \X (DOMAIN entities)
      /\ x.at \in {"looking", "writing"} <=> writers[w].at \in {"looking", "writing"}
      /\ x.at = "writing" => \A old \in x.found : old[1] \in DOMAIN entities
      /\ \A n \in Thing, k \in Kind :
           x.at = "writing" /\ x.found = {} /\ x.name = n /\ x.kind = k =>
             w \in Blind(writers, n, k) \/ Named(entities, n, k) = {}
  <2>1. x \in Fact \cup {NoFact} /\ To(w, x) /\ UNCHANGED <<entities, facts, day>>
    BY <1>1, <1>3, <1>6, <1>8
  <2>2. links' \subseteq (DOMAIN entities) \X (DOMAIN entities)
    BY <1>1 DEF WorldInv, WorldPlain
  <2>3. x.at \in {"looking", "writing"} <=> writers[w].at \in {"looking", "writing"}
    BY <1>1, <1>6, <1>8
  <2>4. \A old \in x.found : old[1] \in DOMAIN entities
    BY <1>5, <1>6, <1>8
  <2>5. \A n \in Thing, k \in Kind :
          x.at = "writing" /\ x.found = {} /\ x.name = n /\ x.kind = k => Named(entities, n, k) = {}
    BY <1>6, <1>7, <1>8
  <2>. QED
    BY <2>1, <2>2, <2>3, <2>4, <2>5
<1>. QED
  BY <1>9, WriterKeeps

LEMMA LinkKeeps ==
  ASSUME WorldInv, NEW w \in Writer, Link(w)
  PROVE  WorldInv'
<1>. DEFINE f == writers[w]
            rest(n) == [f EXCEPT !.to = f.to \ {n}]
<1>1. f.at = "linking" /\ UNCHANGED <<entities, facts, day>>
  BY DEF Link, At
<1>2. f \in Fact
  BY <1>1, FactOf
<1>3. links \subseteq (DOMAIN entities) \X (DOMAIN entities)
  BY DEF WorldInv, WorldPlain
<1>4. CASE f.to = {} /\ To(w, NoFact) /\ UNCHANGED links
  <2>1. NoFact.at = "idle"
    BY DEF NoFact
  <2>. QED
    BY <1>1, <1>3, <1>4, <2>1, WriterKeeps
<1>5. CASE \E n \in f.to : /\ To(w, rest(n))
                           /\ \/ ByName(n) = {} /\ UNCHANGED links
                              \/ \E i \in ByName(f.name), k \in ByName(n) :
                                   links' = links \cup {<<i, k>>}
  <2>1. PICK n \in f.to : /\ To(w, rest(n))
                          /\ \/ ByName(n) = {} /\ UNCHANGED links
                             \/ \E i \in ByName(f.name), k \in ByName(n) :
                                  links' = links \cup {<<i, k>>}
    BY <1>5
  <2>2. rest(n) \in Fact /\ rest(n).at = "linking"
    BY <1>1, <1>2 DEF Fact
  <2>. HIDE DEF rest
  <2>3. PICK x : x = rest(n)
    OBVIOUS
  <2>4. links' \subseteq (DOMAIN entities) \X (DOMAIN entities)
    <3>1. \A m : ByName(m) \subseteq DOMAIN entities
      BY DEF ByName, Rows
    <3>. QED
      BY <1>3, <2>1, <3>1
  <2>5. x \in Fact \cup {NoFact} /\ To(w, x) /\ x.at = "linking"
    BY <2>1, <2>2, <2>3
  <2>. QED
    BY <1>1, <2>4, <2>5, WriterKeeps
<1>. QED
  BY <1>4, <1>5 DEF Link

LEMMA ExtractKeeps ==
  ASSUME WorldInv, NEW w \in Writer, Extract(w)
  PROVE  WorldInv'
<1>1. /\ writers[w].at = "idle" /\ facts < MaxFacts /\ facts' = facts + 1
      /\ UNCHANGED <<entities, links, day>>
  BY DEF Extract, At
<1>2. PICK n \in Thing, k \in Kind, level \in Level, to \in SUBSET Thing :
        To(w, [at |-> "looking", name |-> n, kind |-> k, level |-> level, to |-> to, found |-> {}])
  BY DEF Extract
<1>. DEFINE r == [at |-> "looking", name |-> n, kind |-> k, level |-> level, to |-> to, found |-> {}]
<1>3. r \in Fact /\ r.at = "looking"
  BY DEF Fact
<1>. HIDE DEF r
<1>4. To(w, r)
  BY <1>2 DEF r
<1>5. /\ writers' \in [Writer -> Fact \cup {NoFact}] /\ writers'[w] = r
      /\ \A v \in Writer : v # w => writers'[v] = writers[v]
  BY <1>3, <1>4, ToIs
<1>6. FoundThere(entities, writers')
  BY <1>3, <1>5 DEF WorldInv, FoundThere
<1>7. \A m \in Thing, j \in Kind : Blind(writers', m, j) = Blind(writers, m, j)
  <2>. SUFFICES ASSUME NEW m \in Thing, NEW j \in Kind
                PROVE  Blind(writers', m, j) = Blind(writers, m, j)
    OBVIOUS
  <2>1. \A v \in Writer : v \in Blind(writers', m, j) <=> v \in Blind(writers, m, j)
    <3>. SUFFICES ASSUME NEW v \in Writer
                  PROVE  v \in Blind(writers', m, j) <=> v \in Blind(writers, m, j)
      OBVIOUS
    <3>1. CASE v = w
      BY <1>1, <1>3, <1>5, <3>1 DEF Blind
    <3>2. CASE v # w
      BY <1>5, <3>2 DEF Blind
    <3>. QED
      BY <3>1, <3>2
  <2>. QED
    BY <2>1 DEF Blind
<1>8. Few(entities, writers')
  BY <1>7 DEF WorldInv, Few
<1>9. Pending(writers') = Pending(writers) \cup {w} /\ w \notin Pending(writers)
  BY <1>1, <1>3, <1>5 DEF Pending
<1>10. Cardinality(Pending(writers')) = Cardinality(Pending(writers)) + 1
  BY <1>9, WritersFinite, FS_AddElement
<1>11. Len(entities) \in Nat /\ Cardinality(Pending(writers)) \in Nat /\ facts \in 0 .. MaxFacts
       /\ MaxFacts \in Nat
  BY WritersFinite, WorldAssumption DEF WorldInv, WorldPlain
<1>12. Room(entities, writers', facts')
  BY <1>1, <1>10, <1>11, ThingsCounted DEF WorldInv, Room
<1>13. facts' \in 0 .. MaxFacts
  BY <1>1, <1>11
<1>. QED
  BY <1>1, <1>5, <1>6, <1>8, <1>12, <1>13 DEF WorldInv, WorldPlain

\* What is written keeps its row fair.
LEMMA ToldIsFair ==
  ASSUME NEW e, NEW d \in 0 .. MaxDay, NEW c \in 0 .. 100,
         e.toldOn = d, e.updated = d, e.told = c, e.confidence = c
  PROVE  FairRow(e, d)
<1>. USE WorldAssumption
<1>1. Late(e) = 0
  <2>1. d - d - DecayAfter <= 0
    OBVIOUS
  <2>. QED
    BY <2>1 DEF Late
<1>2. DecayBy * Late(e) = 0
  BY <1>1
<1>3. c >= c - 0 /\ d <= d
  OBVIOUS
<1>. QED
  BY <1>2, <1>3 DEF FairRow

\* A new row: one that its writer was blind for.
LEMMA NewRowKeeps ==
  ASSUME WorldInv, NEW w \in Writer, At(w, "writing"), writers[w].found = {},
         To(w, [writers[w] EXCEPT !.at = "linking", !.found = {}]),
         entities' = Append(entities,
           [name |-> writers[w].name, kind |-> writers[w].kind, confidence |-> writers[w].level,
            updated |-> day, told |-> writers[w].level, toldOn |-> day]),
         UNCHANGED <<links, facts, day>>
  PROVE  WorldInv'
<1>. DEFINE f == writers[w]
            e == [name |-> f.name, kind |-> f.kind, confidence |-> f.level,
                  updated |-> day, told |-> f.level, toldOn |-> day]
            r == [f EXCEPT !.at = "linking", !.found = {}]
            N == Len(entities) + 1
<1>1. f.at = "writing" /\ f \in Fact
  BY FactOf DEF At
<1>2. r \in Fact /\ r.at = "linking"
  BY <1>1 DEF Fact
<1>3. f.name \in Thing /\ f.kind \in Kind /\ f.level \in 0 .. 100
  BY <1>1, WorldAssumption DEF Fact
<1>4. entities \in Seq(EntityRow) /\ Len(entities) \in Nat /\ DOMAIN entities = 1 .. Len(entities)
      /\ day \in 0 .. MaxDay
  BY DEF WorldInv, WorldPlain
<1>5. e \in EntityRow
  BY <1>3, <1>4 DEF EntityRow
<1>6. FairRow(e, day)
  BY <1>3, <1>4, ToldIsFair
<1>7. e.name = f.name /\ e.kind = f.kind
  OBVIOUS
<1>8. entities' = Append(entities, e) /\ To(w, r)
  OBVIOUS
<1>. HIDE DEF e, r
<1>9. /\ writers' \in [Writer -> Fact \cup {NoFact}] /\ writers'[w] = r
      /\ \A v \in Writer : v # w => writers'[v] = writers[v]
  BY <1>2, <1>8, ToIs
<1>10. /\ entities' \in Seq(EntityRow) /\ Len(entities') = N /\ DOMAIN entities' = 1 .. N
       /\ entities'[N] = e /\ \A i \in 1 .. Len(entities) : entities'[i] = entities[i]
  BY <1>4, <1>5, <1>8
<1>11. N \notin DOMAIN entities /\ \A i \in 1 .. N : i = N \/ i \in DOMAIN entities
  BY <1>4
<1>12. DOMAIN entities \subseteq DOMAIN entities' /\ N \in DOMAIN entities'
  BY <1>4, <1>10
<1>. HIDE DEF N
<1>13. FoundThere(entities', writers')
  <2>. SUFFICES ASSUME NEW v \in Writer, writers'[v].at = "writing", NEW old \in writers'[v].found
                PROVE  old[1] \in DOMAIN entities'
    BY DEF FoundThere
  <2>1. v # w
    BY <1>2, <1>9
  <2>. QED
    BY <1>9, <1>12, <2>1 DEF WorldInv, FoundThere
<1>14. Few(entities', writers')
  <2>. SUFFICES ASSUME NEW n \in Thing, NEW k \in Kind
                PROVE  Cardinality(Named(entities', n, k)) + Cardinality(Blind(writers', n, k))
                         <= Cardinality(Writer)
    BY DEF Few
  <2>0. /\ Cardinality(Named(entities, n, k)) + Cardinality(Blind(writers, n, k)) <= Cardinality(Writer)
        /\ IsFiniteSet(Named(entities, n, k)) /\ Cardinality(Named(entities, n, k)) \in Nat
        /\ IsFiniteSet(Blind(writers, n, k)) /\ Cardinality(Blind(writers, n, k)) \in Nat
        /\ Cardinality(Writer) \in Nat
    BY <1>4, NamedFinite, WritersFinite DEF WorldInv, Few
  <2>1. CASE n = f.name /\ k = f.kind
    <3>1. Named(entities', n, k) = Named(entities, n, k) \cup {N} /\ N \notin Named(entities, n, k)
      BY <1>4, <1>7, <1>10, <1>11, <1>12, <2>1 DEF Named
    <3>2. Blind(writers', n, k) = Blind(writers, n, k) \ {w} /\ w \in Blind(writers, n, k)
      <4>1. w \in Blind(writers, n, k)
        BY <1>1, <2>1 DEF Blind
      <4>2. w \notin Blind(writers', n, k)
        BY <1>2, <1>9 DEF Blind
      <4>3. \A v \in Writer : v # w => (v \in Blind(writers', n, k) <=> v \in Blind(writers, n, k))
        BY <1>9 DEF Blind
      <4>. QED
        BY <4>1, <4>2, <4>3 DEF Blind
    <3>3. Cardinality(Named(entities', n, k)) = Cardinality(Named(entities, n, k)) + 1
      BY <2>0, <3>1, FS_AddElement
    <3>4. Cardinality(Blind(writers', n, k)) = Cardinality(Blind(writers, n, k)) - 1
      BY <2>0, <3>2, FS_RemoveElement
    <3>. QED
      BY <2>0, <3>3, <3>4
  <2>2. CASE ~ (n = f.name /\ k = f.kind)
    <3>1. Named(entities', n, k) = Named(entities, n, k)
      BY <1>4, <1>7, <1>10, <1>11, <1>12, <2>2 DEF Named
    <3>2. Blind(writers', n, k) \in SUBSET Blind(writers, n, k)
      <4>2. w \notin Blind(writers', n, k)
        BY <1>2, <1>9 DEF Blind
      <4>3. \A v \in Writer : v # w => (v \in Blind(writers', n, k) <=> v \in Blind(writers, n, k))
        BY <1>9 DEF Blind
      <4>. QED
        BY <4>2, <4>3 DEF Blind
    <3>3. Cardinality(Blind(writers', n, k)) <= Cardinality(Blind(writers, n, k))
      BY <2>0, <3>2, FS_Subset
    <3>4. Cardinality(Blind(writers', n, k)) \in Nat
      BY WritersFinite
    <3>. QED
      BY <2>0, <3>1, <3>3, <3>4
  <2>. QED
    BY <2>1, <2>2
<1>15. Pending(writers') = Pending(writers) \ {w} /\ w \in Pending(writers)
  BY <1>1, <1>2, <1>9 DEF Pending
<1>16. Cardinality(Pending(writers')) = Cardinality(Pending(writers)) - 1
  BY <1>15, WritersFinite, FS_RemoveElement
<1>17. Cardinality(Pending(writers)) \in Nat /\ facts \in Nat
  <2>1. Cardinality(Pending(writers)) \in Nat
    BY WritersFinite
  <2>2. facts \in 0 .. MaxFacts
    BY DEF WorldInv, WorldPlain
  <2>. QED
    BY <2>1, <2>2
<1>18. Room(entities', writers', facts)
  BY <1>4, <1>10, <1>16, <1>17, ThingsCounted DEF WorldInv, Room, N
<1>19. \A i \in DOMAIN entities' : FairRow(entities'[i], day)
  BY <1>4, <1>6, <1>10, <1>11 DEF WorldInv
<1>20. links \subseteq (DOMAIN entities') \X (DOMAIN entities')
  BY <1>12 DEF WorldInv, WorldPlain
<1>. QED
  BY <1>9, <1>10, <1>13, <1>14, <1>18, <1>19, <1>20 DEF WorldInv, WorldPlain

\* A row that is found and told of again.
LEMMA OldRowKeeps ==
  ASSUME WorldInv, NEW w \in Writer, At(w, "writing"), NEW old \in writers[w].found,
         To(w, [writers[w] EXCEPT !.at = "linking", !.found = {}]),
         entities' = [entities EXCEPT ![old[1]] = [@ EXCEPT
           !.confidence = (old[2] + writers[w].level) \div 2, !.updated = day,
           !.told = (old[2] + writers[w].level) \div 2, !.toldOn = day]],
         UNCHANGED <<links, facts, day>>
  PROVE  WorldInv'
<1>. DEFINE f == writers[w]
            r == [f EXCEPT !.at = "linking", !.found = {}]
            o == old[1]
            c == (old[2] + f.level) \div 2
            e == [entities[o] EXCEPT !.confidence = c, !.updated = day, !.told = c, !.toldOn = day]
<1>1. f.at = "writing" /\ f \in Fact
  BY FactOf DEF At
<1>2. r \in Fact /\ r.at = "linking"
  BY <1>1 DEF Fact
<1>3. entities \in Seq(EntityRow) /\ Len(entities) \in Nat /\ DOMAIN entities = 1 .. Len(entities)
      /\ day \in 0 .. MaxDay
  BY DEF WorldInv, WorldPlain
<1>4. o \in DOMAIN entities
  BY <1>1 DEF WorldInv, FoundThere
<1>5. c \in 0 .. 100
  <2>1. old[2] \in 0 .. 100
    BY <1>1 DEF Fact
  <2>2. f.level \in 0 .. 100
    BY <1>1, WorldAssumption DEF Fact
  <2>3. \A a, b \in 0 .. 100 : (a + b) \div 2 \in 0 .. 100
    OBVIOUS
  <2>. QED
    BY <2>1, <2>2, <2>3
<1>6. entities' = [entities EXCEPT ![o] = e] /\ To(w, r)
  OBVIOUS
<1>. HIDE DEF c, r, o
<1>7. entities[o] \in EntityRow
  BY <1>3, <1>4
<1>8. /\ e \in EntityRow /\ e.name = entities[o].name /\ e.kind = entities[o].kind
      /\ e.confidence = c /\ e.told = c /\ e.updated = day /\ e.toldOn = day
  BY <1>3, <1>5, <1>7 DEF EntityRow
<1>9. FairRow(e, day)
  BY <1>3, <1>5, <1>8, ToldIsFair
<1>. HIDE DEF e
<1>10. /\ writers' \in [Writer -> Fact \cup {NoFact}] /\ writers'[w] = r
       /\ \A v \in Writer : v # w => writers'[v] = writers[v]
  BY <1>2, <1>6, ToIs
<1>11. /\ entities' \in Seq(EntityRow) /\ Len(entities') = Len(entities)
       /\ DOMAIN entities' = DOMAIN entities
  <2>1. \A i \in 1 .. Len(entities) : entities[i] \in EntityRow
    BY <1>3
  <2>2. entities' \in [1 .. Len(entities) -> EntityRow]
    BY <1>3, <1>4, <1>6, <1>8, <2>1
  <2>. QED
    BY <1>3, <2>2
<1>12. entities'[o] = e /\ \A i \in DOMAIN entities : i # o => entities'[i] = entities[i]
  BY <1>4, <1>6
<1>13. FoundThere(entities', writers')
  <2>. SUFFICES ASSUME NEW v \in Writer, writers'[v].at = "writing", NEW x \in writers'[v].found
                PROVE  x[1] \in DOMAIN entities'
    BY DEF FoundThere
  <2>1. v # w
    BY <1>2, <1>10
  <2>. QED
    BY <1>10, <1>11, <2>1 DEF WorldInv, FoundThere
<1>14. \A n \in Thing, k \in Kind : Named(entities', n, k) = Named(entities, n, k)
  BY <1>8, <1>11, <1>12 DEF Named
<1>15. \A n \in Thing, k \in Kind : Blind(writers', n, k) = Blind(writers, n, k)
  <2>. SUFFICES ASSUME NEW n \in Thing, NEW k \in Kind
                PROVE  Blind(writers', n, k) = Blind(writers, n, k)
    OBVIOUS
  <2>1. w \notin Blind(writers', n, k)
    BY <1>2, <1>10 DEF Blind
  <2>2. w \notin Blind(writers, n, k)
    BY DEF Blind
  <2>3. \A v \in Writer : v # w => (v \in Blind(writers', n, k) <=> v \in Blind(writers, n, k))
    BY <1>10 DEF Blind
  <2>. QED
    BY <2>1, <2>2, <2>3 DEF Blind
<1>16. Few(entities', writers')
  BY <1>14, <1>15 DEF WorldInv, Few
<1>17. Pending(writers') = Pending(writers) \ {w} /\ w \in Pending(writers)
  BY <1>1, <1>2, <1>10 DEF Pending
<1>18. Cardinality(Pending(writers')) = Cardinality(Pending(writers)) - 1
  BY <1>17, WritersFinite, FS_RemoveElement
<1>19. Cardinality(Pending(writers)) \in Nat /\ facts \in Nat
  <2>1. Cardinality(Pending(writers)) \in Nat
    BY WritersFinite
  <2>2. facts \in 0 .. MaxFacts
    BY DEF WorldInv, WorldPlain
  <2>. QED
    BY <2>1, <2>2
<1>20. Room(entities', writers', facts)
  BY <1>3, <1>11, <1>18, <1>19, ThingsCounted DEF WorldInv, Room
<1>21. \A i \in DOMAIN entities' : FairRow(entities'[i], day)
  BY <1>9, <1>11, <1>12 DEF WorldInv
<1>. QED
  BY <1>10, <1>11, <1>13, <1>16, <1>20, <1>21 DEF WorldInv, WorldPlain

LEMMA WriteKeeps ==
  ASSUME WorldInv, NEW w \in Writer, WriteEntity(w)
  PROVE  WorldInv'
<1>1. /\ At(w, "writing") /\ UNCHANGED <<links, facts, day>>
      /\ To(w, [writers[w] EXCEPT !.at = "linking", !.found = {}])
  BY DEF WriteEntity
<1>2. CASE /\ writers[w].found = {}
           /\ entities' = Append(entities,
                [name |-> writers[w].name, kind |-> writers[w].kind, confidence |-> writers[w].level,
                 updated |-> day, told |-> writers[w].level, toldOn |-> day])
  BY <1>1, <1>2, NewRowKeeps
<1>3. CASE \E old \in writers[w].found :
             entities' = [entities EXCEPT ![old[1]] = [@ EXCEPT
               !.confidence = (old[2] + writers[w].level) \div 2, !.updated = day,
               !.told = (old[2] + writers[w].level) \div 2, !.toldOn = day]]
  BY <1>1, <1>3, OldRowKeeps
<1>. QED
  BY <1>2, <1>3 DEF WriteEntity

\* Further days cost no more than their share.
LEMMA ShareAdds ==
  ASSUME NEW a \in Nat, NEW b \in Nat, NEW c \in Nat, a + b <= c
  PROVE  DecayBy * a + DecayBy * b <= DecayBy * c /\ DecayBy * a \in Nat
         /\ DecayBy * b \in Nat /\ DecayBy * c \in Nat
<1>. USE WorldAssumption
<1>1. PICK d \in Nat : c = a + b + d
  <2>1. c - (a + b) \in Nat /\ c = a + b + (c - (a + b))
    OBVIOUS
  <2>. QED
    BY <2>1
<1>2. DecayBy * c = DecayBy * a + DecayBy * b + DecayBy * d
  BY <1>1
<1>3. DecayBy * d \in Nat
  OBVIOUS
<1>. QED
  BY <1>2, <1>3

Decayed(e, d) ==
  LET late == d - e.updated - DecayAfter
  IN  IF late <= 0 \/ e.confidence = 0 THEN e
      ELSE [e EXCEPT !.updated = d,
                     !.confidence = IF @ < DecayBy * late THEN 0 ELSE @ - DecayBy * late]

LEMMA DecayedIsFair ==
  ASSUME NEW e \in EntityRow, NEW d \in 0 .. MaxDay, FairRow(e, d), NEW x, x = Decayed(e, d)
  PROVE  x \in EntityRow /\ FairRow(x, d) /\ x.name = e.name /\ x.kind = e.kind
<1>. USE WorldAssumption
<1>. DEFINE late == d - e.updated - DecayAfter
<1>1. CASE late <= 0 \/ e.confidence = 0
  BY <1>1 DEF Decayed
<1>2. CASE ~ (late <= 0 \/ e.confidence = 0)
  <2>. DEFINE loss == DecayBy * late
              con == IF e.confidence < loss THEN 0 ELSE e.confidence - loss
  <2>1. /\ e.confidence \in 0 .. 100 /\ e.told \in 0 .. 100 /\ e.toldOn \in 0 .. MaxDay
        /\ e.updated \in 0 .. MaxDay
    BY DEF EntityRow
  <2>2. PICK t \in Nat : t = late
    BY <1>2, <2>1
  <2>3. e.toldOn <= e.updated /\ e.updated <= d /\ e.confidence >= e.told - DecayBy * Late(e)
    BY DEF FairRow
  <2>4. PICK old \in Nat : old = Late(e)
    BY <2>1 DEF Late
  <2>5. loss \in Nat /\ loss = DecayBy * t
    BY <2>2
  <2>6. x = [e EXCEPT !.updated = d, !.confidence = con]
    BY <1>2 DEF Decayed
  <2>7. con \in 0 .. 100
    <3>1. \A k \in 0 .. 100, b \in Nat : (IF k < b THEN 0 ELSE k - b) \in 0 .. 100
      OBVIOUS
    <3>. HIDE DEF loss
    <3>. QED
      BY <2>1, <2>5, <3>1
  <2>. HIDE DEF con
  <2>8. /\ x \in EntityRow /\ x.name = e.name /\ x.kind = e.kind /\ x.updated = d
        /\ x.toldOn = e.toldOn /\ x.told = e.told /\ x.confidence = con
    BY <2>6, <2>7 DEF EntityRow
  <2>9. PICK new \in Nat : new = Late(x)
    BY <2>1, <2>8 DEF Late
  <2>10. old + t <= new
    <3>1. old = IF e.updated - e.toldOn - DecayAfter > 0 THEN e.updated - e.toldOn - DecayAfter ELSE 0
      BY <2>4 DEF Late
    <3>2. new = IF d - e.toldOn - DecayAfter > 0 THEN d - e.toldOn - DecayAfter ELSE 0
      BY <2>8, <2>9 DEF Late
    <3>3. t = d - e.updated - DecayAfter
      BY <2>2
    <3>. QED
      BY <2>1, <2>3, <3>1, <3>2, <3>3
  <2>11. /\ DecayBy * old + DecayBy * t <= DecayBy * new /\ DecayBy * old \in Nat
         /\ DecayBy * t \in Nat /\ DecayBy * new \in Nat
    BY <2>10, ShareAdds
  <2>12. con = IF e.confidence < DecayBy * t THEN 0 ELSE e.confidence - DecayBy * t
    BY <2>5 DEF con
  <2>13. e.confidence >= e.told - DecayBy * old
    BY <2>3, <2>4
  <2>14. con >= e.told - DecayBy * new
    <3>1. PICK A, B, C \in Nat : A = DecayBy * old /\ B = DecayBy * t /\ C = DecayBy * new
      BY <2>11
    <3>2. A + B <= C
      BY <2>11, <3>1
    <3>3. con = IF e.confidence < B THEN 0 ELSE e.confidence - B
      BY <2>12, <3>1
    <3>4. e.confidence >= e.told - A
      BY <2>13, <3>1
    <3>5. PICK k \in 0 .. 100, g \in 0 .. 100 : k = e.confidence /\ g = e.told
      BY <2>1
    <3>6. con >= g - C
      <4>1. k >= g - A /\ con = IF k < B THEN 0 ELSE k - B
        BY <3>3, <3>4, <3>5
      <4>2. CASE k < B
        BY <3>2, <4>1, <4>2
      <4>3. CASE ~ (k < B)
        BY <3>2, <4>1, <4>3
      <4>. QED
        BY <4>2, <4>3
    <3>. QED
      BY <3>1, <3>5, <3>6
  <2>15. e.toldOn <= d /\ d <= d
    BY <2>1, <2>3
  <2>. QED
    BY <2>8, <2>9, <2>14, <2>15 DEF FairRow
<1>. QED
  BY <1>1, <1>2

LEMMA DecayKeeps ==
  ASSUME WorldInv, ApplyConfidenceDecay
  PROVE  WorldInv'
<1>1. /\ entities \in Seq(EntityRow) /\ Len(entities) \in Nat /\ DOMAIN entities = 1 .. Len(entities)
      /\ day \in 0 .. MaxDay /\ \A i \in DOMAIN entities : entities[i] \in EntityRow
      /\ \A i \in DOMAIN entities : FairRow(entities[i], day)
  BY DEF WorldInv, WorldPlain
<1>2. UNCHANGED <<links, writers, facts, day>> /\ DOMAIN entities' = DOMAIN entities
  BY DEF ApplyConfidenceDecay, Rows
<1>3. \A i \in DOMAIN entities :
        /\ entities'[i] \in EntityRow /\ FairRow(entities'[i], day)
        /\ entities'[i].name = entities[i].name /\ entities'[i].kind = entities[i].kind
  <2>. SUFFICES ASSUME NEW i \in DOMAIN entities
                PROVE  /\ entities'[i] \in EntityRow /\ FairRow(entities'[i], day)
                       /\ entities'[i].name = entities[i].name
                       /\ entities'[i].kind = entities[i].kind
    OBVIOUS
  <2>1. entities'[i] = Decayed(entities[i], day)
    BY DEF ApplyConfidenceDecay, Rows, Decayed
  <2>2. PICK e, x : e = entities[i] /\ x = entities'[i]
    OBVIOUS
  <2>3. e \in EntityRow /\ FairRow(e, day)
    BY <1>1, <2>2
  <2>4. x = Decayed(e, day)
    BY <2>1, <2>2
  <2>5. x \in EntityRow /\ FairRow(x, day) /\ x.name = e.name /\ x.kind = e.kind
    BY <1>1, <2>3, <2>4, DecayedIsFair
  <2>. QED
    BY <2>2, <2>5
<1>4. entities' \in Seq(EntityRow) /\ Len(entities') = Len(entities)
  <2>1. entities' = [i \in 1 .. Len(entities) |-> entities'[i]]
    BY <1>1 DEF ApplyConfidenceDecay, Rows
  <2>2. entities' \in [1 .. Len(entities) -> EntityRow]
    BY <1>1, <1>3, <2>1
  <2>. QED
    BY <1>1, <2>2
<1>5. \A n, k : Named(entities', n, k) = Named(entities, n, k)
  BY <1>2, <1>3 DEF Named
<1>6. Few(entities', writers) /\ Room(entities', writers, facts) /\ FoundThere(entities', writers)
  BY <1>2, <1>4, <1>5 DEF WorldInv, Few, Room, FoundThere
<1>. QED
  BY <1>2, <1>3, <1>4, <1>6 DEF WorldInv, WorldPlain

LEMMA DawnKeeps ==
  ASSUME WorldInv, Dawn
  PROVE  WorldInv'
<1>1. day < MaxDay /\ day' = day + 1 /\ UNCHANGED <<entities, links, writers, facts>>
      /\ day \in 0 .. MaxDay /\ MaxDay \in Nat
  BY WorldAssumption DEF Dawn, WorldInv, WorldPlain
<1>2. day' \in 0 .. MaxDay /\ day <= day'
  BY <1>1
<1>3. \A i \in DOMAIN entities : FairRow(entities[i], day')
  <2>. SUFFICES ASSUME NEW i \in DOMAIN entities PROVE FairRow(entities[i], day')
    OBVIOUS
  <2>1. entities[i] \in EntityRow /\ FairRow(entities[i], day)
    BY DEF WorldInv, WorldPlain
  <2>2. entities[i].updated \in 0 .. MaxDay
    BY <2>1 DEF EntityRow
  <2>3. entities[i].updated <= day'
    BY <1>1, <2>1, <2>2 DEF FairRow
  <2>. QED
    BY <2>1, <2>3 DEF FairRow
<1>. QED
  BY <1>1, <1>2, <1>3 DEF WorldInv, WorldPlain

LEMMA GreatestLevel == Max(Level) \in Level
<1>1. Level \in SUBSET (0 .. 100) /\ Level # {}
  BY WorldAssumption
<1>2. PICK n \in Level : \A m \in Level : m <= n
  BY <1>1, GreatestNumber
<1>3. \A m \in Level : n >= m
  BY <1>1, <1>2
<1>. QED
  BY <1>3 DEF Max

LEMMA ThingsInOrder ==
  /\ SetToSeq(Thing) \in [1 .. Cardinality(Thing) -> Thing]
  /\ \A i, j \in 1 .. Cardinality(Thing) : SetToSeq(Thing)[i] = SetToSeq(Thing)[j] => i = j
<1>1. PICK n \in Nat : ExistsBijection(1 .. n, Thing)
  BY ThingsCounted, FS_NatBijection
<1>2. Cardinality(Thing) = n
  BY <1>1, FS_CountingElements
<1>3. \E f \in [1 .. Cardinality(Thing) -> Thing] : IsInjective(f)
  BY <1>1, <1>2 DEF ExistsBijection, Bijection, Injection
<1>4. /\ SetToSeq(Thing) \in [1 .. Cardinality(Thing) -> Thing]
      /\ IsInjective(SetToSeq(Thing))
  BY <1>3 DEF SetToSeq
<1>. QED
  BY <1>4 DEF IsInjective

LEMMA StoredIs ==
  /\ Stored \in Seq(EntityRow) /\ Len(Stored) = Cardinality(Thing)
  /\ \A i \in DOMAIN Stored : FairRow(Stored[i], 0)
  /\ \A i, j \in DOMAIN Stored : Stored[i].name = Stored[j].name => i = j
<1>. DEFINE n == Cardinality(Thing)
            things == SetToSeq(Thing)
            level == Max(Level)
            kind == CHOOSE k \in Kind : TRUE
            row(i) == [name |-> things[i], kind |-> kind, confidence |-> level,
                       updated |-> 0, told |-> level, toldOn |-> 0]
<1>1. things \in [1 .. n -> Thing] /\ \A i, j \in 1 .. n : things[i] = things[j] => i = j
  BY ThingsInOrder
<1>2. level \in 0 .. 100
  BY GreatestLevel, WorldAssumption
<1>3. kind \in Kind
  BY WorldAssumption
<1>4. n \in Nat /\ 0 \in 0 .. MaxDay
  BY ThingsCounted, WorldAssumption
<1>5. Stored = [i \in 1 .. n |-> row(i)]
  <2>1. DOMAIN things = 1 .. n
    BY <1>1
  <2>. HIDE DEF n
  <2>. QED
    BY <2>1 DEF Stored
<1>. HIDE DEF n, things, level, kind
<1>6. \A i \in 1 .. n : row(i) \in EntityRow /\ row(i).name = things[i]
  BY <1>1, <1>2, <1>3, <1>4 DEF EntityRow
<1>7. \A i \in 1 .. n : FairRow(row(i), 0)
  <2>. SUFFICES ASSUME NEW i \in 1 .. n PROVE FairRow(row(i), 0)
    OBVIOUS
  <2>1. row(i).toldOn = 0 /\ row(i).updated = 0 /\ row(i).told = level /\ row(i).confidence = level
    OBVIOUS
  <2>. HIDE DEF row
  <2>. QED
    BY <1>2, <1>4, <2>1, ToldIsFair
<1>. HIDE DEF row
<1>8. Stored \in [1 .. n -> EntityRow]
  BY <1>5, <1>6
<1>9. Stored \in Seq(EntityRow) /\ Len(Stored) = n /\ DOMAIN Stored = 1 .. n
  BY <1>4, <1>8
<1>10. \A i \in DOMAIN Stored : FairRow(Stored[i], 0)
  BY <1>5, <1>7, <1>9
<1>11. \A i, j \in DOMAIN Stored : Stored[i].name = Stored[j].name => i = j
  BY <1>1, <1>5, <1>6, <1>9
<1>. QED
  BY <1>9, <1>10, <1>11 DEF n

LEMMA WorldInvInit == WorldInit => WorldInv
<1>. SUFFICES ASSUME WorldInit PROVE WorldInv
  OBVIOUS
<1>. USE WorldAssumption
<1>1. day = 0 /\ writers = [w \in Writer |-> NoFact] /\ facts \in 0 .. MaxFacts /\ day \in 0 .. MaxDay
  BY DEF WorldInit
<1>2. \A w \in Writer : writers[w].at = "idle"
  BY <1>1 DEF NoFact
<1>3. writers \in [Writer -> Fact \cup {NoFact}] /\ FoundThere(entities, writers)
  BY <1>1, <1>2 DEF FoundThere
<1>4. Pending(writers) = {} /\ \A n, k : Blind(writers, n, k) = {}
  BY <1>2 DEF Pending, Blind
<1>5. Cardinality(Pending(writers)) = 0 /\ \A n, k : Cardinality(Blind(writers, n, k)) = 0
  BY <1>4, FS_EmptySet
<1>6. Cardinality(Thing) \in Nat /\ Cardinality(Writer) \in Nat /\ Cardinality(Writer) >= 1
  <2>1. Cardinality(Writer) \in Nat /\ Cardinality(Writer) # 0
    BY FS_CardinalityType, FS_EmptySet
  <2>. QED
    BY <2>1, ThingsCounted
<1>7. CASE entities = << >> /\ links = {} /\ facts = 0
  <2>1. entities \in Seq(EntityRow) /\ Len(entities) = 0 /\ DOMAIN entities = {}
    BY <1>7
  <2>2. \A n, k : Cardinality(Named(entities, n, k)) = 0
    BY <2>1, FS_EmptySet DEF Named
  <2>3. Few(entities, writers)
    BY <1>5, <1>6, <2>2 DEF Few
  <2>4. Room(entities, writers, facts)
    BY <1>5, <1>6, <1>7, <2>1 DEF Room
  <2>. QED
    BY <1>1, <1>3, <1>7, <2>1, <2>3, <2>4 DEF WorldInv, WorldPlain
<1>8. CASE entities = Stored /\ facts = MaxFacts /\ links \in SUBSET ((DOMAIN Stored) \X (DOMAIN Stored))
  <2>1. entities \in Seq(EntityRow) /\ Len(entities) = Cardinality(Thing)
    BY <1>8, StoredIs
  <2>2. \A n \in Thing, k \in Kind : Cardinality(Named(entities, n, k)) <= 1 /\ Cardinality(Named(entities, n, k)) \in Nat
    <3>. SUFFICES ASSUME NEW n \in Thing, NEW k \in Kind
                  PROVE  Cardinality(Named(entities, n, k)) <= 1 /\ Cardinality(Named(entities, n, k)) \in Nat
      OBVIOUS
    <3>1. \A i, j \in Named(entities, n, k) : i = j
      BY <1>8, StoredIs DEF Named
    <3>2. CASE Named(entities, n, k) = {}
      BY <3>2, FS_EmptySet
    <3>3. CASE Named(entities, n, k) # {}
      <4>1. PICK i \in Named(entities, n, k) : TRUE
        BY <3>3
      <4>2. Named(entities, n, k) = {i}
        BY <3>1, <4>1
      <4>3. Cardinality({i}) = 1
        BY FS_Singleton
      <4>. QED
        BY <4>2, <4>3
    <3>. QED
      BY <3>2, <3>3
  <2>3. Few(entities, writers)
    BY <1>5, <1>6, <2>2 DEF Few
  <2>4. Room(entities, writers, facts)
    BY <1>5, <1>6, <1>8, <2>1 DEF Room
  <2>5. \A i \in DOMAIN entities : FairRow(entities[i], day)
    BY <1>1, <1>8, StoredIs
  <2>. QED
    BY <1>1, <1>3, <1>8, <2>1, <2>3, <2>4, <2>5 DEF WorldInv, WorldPlain
<1>. QED
  BY <1>7, <1>8 DEF WorldInit

LEMMA WorldInductive == WorldInv /\ [WorldNext]_kvars => WorldInv'
<1>. SUFFICES ASSUME WorldInv, [WorldNext]_kvars PROVE WorldInv'
  OBVIOUS
<1>1. CASE UNCHANGED kvars
  BY <1>1 DEF kvars, WorldInv, WorldPlain
<1>2. ASSUME NEW w \in Writer, Extract(w) \/ Look(w) \/ WriteEntity(w) \/ Link(w) PROVE WorldInv'
  BY <1>2, ExtractKeeps, LookKeeps, WriteKeeps, LinkKeeps
<1>3. CASE ApplyConfidenceDecay
  BY <1>3, DecayKeeps
<1>4. CASE Dawn
  BY <1>4, DawnKeeps
<1>. QED
  BY <1>1, <1>2, <1>3, <1>4 DEF WorldNext

LEMMA WorldSound == WorldInv => WorldTypeOK /\ RowsAreFew /\ DecayIsFair
<1>. SUFFICES ASSUME WorldInv PROVE WorldTypeOK /\ RowsAreFew /\ DecayIsFair
  OBVIOUS
<1>1. /\ entities \in Seq(EntityRow) /\ Len(entities) \in Nat /\ DOMAIN entities = 1 .. Len(entities)
      /\ links \subseteq (DOMAIN entities) \X (DOMAIN entities)
      /\ facts \in 0 .. MaxFacts /\ day \in 0 .. MaxDay
  BY DEF WorldInv, WorldPlain
<1>2. Len(entities) <= MaxFacts + Cardinality(Thing)
  <2>1. Cardinality(Pending(writers)) \in Nat
    BY WritersFinite
  <2>2. Len(entities) + Cardinality(Pending(writers)) <= facts + Cardinality(Thing)
    BY DEF WorldInv, Room
  <2>3. MaxFacts \in Nat /\ Cardinality(Thing) \in Nat
    BY WorldAssumption, ThingsCounted
  <2>. QED
    BY <1>1, <2>1, <2>2, <2>3
<1>3. links \in SUBSET (Id \X Id)
  <2>1. DOMAIN entities \subseteq Id
    <3>1. MaxFacts + Cardinality(Thing) \in Nat
      BY WorldAssumption, ThingsCounted
    <3>. QED
      BY <1>1, <1>2, <3>1 DEF Id
  <2>. QED
    BY <1>1, <2>1
<1>4. DOMAIN writers = Writer /\ \A w \in Writer : writers[w].at \in {"idle", "looking", "writing", "linking"}
  <2>1. writers \in [Writer -> Fact \cup {NoFact}]
    BY DEF WorldInv, WorldPlain
  <2>. QED
    BY <2>1 DEF Fact, NoFact
<1>5. WorldTypeOK
  BY <1>1, <1>2, <1>3, <1>4 DEF WorldTypeOK
<1>6. RowsAreFew
  <2>. SUFFICES ASSUME NEW n \in Thing, NEW k \in Kind
                PROVE  Cardinality(ByNameType(n, k)) <= Cardinality(Writer)
    BY <1>1 DEF RowsAreFew, Rows
  <2>1. ByNameType(n, k) = Named(entities, n, k)
    BY DEF ByNameType, Named, Rows
  <2>2. /\ Cardinality(Named(entities, n, k)) + Cardinality(Blind(writers, n, k)) <= Cardinality(Writer)
        /\ Cardinality(Named(entities, n, k)) \in Nat /\ Cardinality(Blind(writers, n, k)) \in Nat
        /\ Cardinality(Writer) \in Nat
    BY <1>1, NamedFinite, WritersFinite DEF WorldInv, Few
  <2>. QED
    BY <2>1, <2>2
<1>7. DecayIsFair
  BY DEF WorldInv, FairRow, Late, DecayIsFair, Rows
<1>. QED
  BY <1>5, <1>6, <1>7

-----------------------------------------------------------------------------
(* Goals: what a cycle has left, and what it has made, is not like what was *)
(* open and in its queries; together they are no more than its maximum.     *)

GoalRow == [title : Title, cycle : Nat, status : Status]

Unlike(G, some, t) == \A g \in some : <<t, G[g].title>> \notin Alike

\* The open goals that a cycle that is at x has in its queries.
Known(G, x) == {g \in DOMAIN G : g <= x.rows /\ g \notin x.missed /\ G[g].status # "closed"}

Fit(G, x) ==
  /\ x.rows <= Len(G)
  /\ x.at = "asking" => x.left = << >>
  /\ x.at = "reading" => \A g \in Known(G, x) : g \in x.seen \/ G[g].status = "active"
  /\ x.at = "saving" => \A i \in 1 .. Len(x.left) : Unlike(G, Known(G, x), x.left[i])

MadeApart(G, C) == \A h \in DOMAIN G : G[h].cycle # 0 =>
                     /\ G[h].cycle \in DOMAIN C /\ C[G[h].cycle].at = "saving"
                     /\ Unlike(G, Known(G, C[G[h].cycle]), G[h].title)

LeftApart(G, C) == \A c \in DOMAIN C : Fit(G, C[c])

MadeBy(G, c) == {g \in DOMAIN G : G[g].cycle = c}

Shared(G, x, c) == x.at = "saving" => Cardinality(MadeBy(G, c)) + Len(x.left) <= MaxPerCycle

Share(G, C) == \A c \in DOMAIN C : Shared(G, C[c], c)

SynthPlain(G, C) == G \in Seq(GoalRow) /\ Len(G) <= MaxGoals /\ C \in Seq(Cycle)

SynthInv == /\ SynthPlain(goals, cycles) /\ MadeApart(goals, cycles)
            /\ LeftApart(goals, cycles) /\ Share(goals, cycles)

LEMMA MadeFinite ==
  ASSUME NEW G \in Seq(GoalRow), NEW c
  PROVE  IsFiniteSet(MadeBy(G, c)) /\ Cardinality(MadeBy(G, c)) \in Nat
<1>1. Len(G) \in Nat /\ DOMAIN G = 1 .. Len(G)
  OBVIOUS
<1>2. IsFiniteSet(1 .. Len(G))
  BY <1>1, FS_Interval
<1>3. MadeBy(G, c) \in SUBSET (1 .. Len(G))
  BY <1>1 DEF MadeBy
<1>. QED
  BY <1>2, <1>3, FS_Subset, FS_CardinalityType

LEMMA SynthFacts ==
  ASSUME SynthInv
  PROVE  /\ goals \in Seq(GoalRow) /\ Len(goals) \in Nat /\ DOMAIN goals = 1 .. Len(goals)
         /\ Len(goals) <= MaxGoals /\ MaxGoals \in Nat
         /\ cycles \in Seq(Cycle) /\ Len(cycles) \in Nat /\ DOMAIN cycles = 1 .. Len(cycles)
  BY SynthesisAssumption DEF SynthInv, SynthPlain

LEMMA CycleIs ==
  ASSUME SynthInv, NEW c \in DOMAIN cycles
  PROVE  /\ cycles[c] \in Cycle /\ cycles[c].left \in Seq(Title)
         /\ cycles[c].rows \in Nat /\ cycles[c].rows <= Len(goals)
         /\ c # 0 /\ c \in Nat
<1>1. cycles[c] \in Cycle /\ c # 0 /\ c \in Nat
  BY SynthFacts
<1>. QED
  BY <1>1, SynthFacts DEF Cycle, SynthInv, LeftApart, Fit

\* The cycles of a sequence, one of which has changed.
LEMMA CycleChanged ==
  ASSUME SynthInv, NEW c \in DOMAIN cycles, NEW x \in Cycle, NEW C,
         C = [cycles EXCEPT ![c] = x]
  PROVE  /\ C \in Seq(Cycle) /\ DOMAIN C = DOMAIN cycles /\ C[c] = x
         /\ \A d \in DOMAIN cycles : d # c => C[d] = cycles[d]
<1>1. /\ cycles \in Seq(Cycle) /\ Len(cycles) \in Nat /\ DOMAIN cycles = 1 .. Len(cycles)
      /\ \A i \in 1 .. Len(cycles) : cycles[i] \in Cycle
  BY SynthFacts
<1>2. C \in [1 .. Len(cycles) -> Cycle]
  BY <1>1
<1>. QED
  BY <1>1, <1>2

\* A cycle goes on and no goal is made.
LEMMA CycleKeeps ==
  ASSUME SynthInv, NEW c \in DOMAIN cycles, NEW x \in Cycle,
         goals' = goals, cycles' = [cycles EXCEPT ![c] = x],
         Fit(goals, x), Shared(goals, x, c),
         \/ MadeBy(goals, c) = {}
         \/ x.at = "saving" /\ x.rows = cycles[c].rows /\ x.missed = cycles[c].missed
  PROVE  SynthInv'
<1>1. PICK C : C = cycles'
  OBVIOUS
<1>2. /\ C \in Seq(Cycle) /\ DOMAIN C = DOMAIN cycles /\ C[c] = x
      /\ \A d \in DOMAIN cycles : d # c => C[d] = cycles[d]
  BY <1>1, CycleChanged
<1>3. MadeApart(goals, C)
  <2>. SUFFICES ASSUME NEW h \in DOMAIN goals, goals[h].cycle # 0
                PROVE  /\ goals[h].cycle \in DOMAIN C /\ C[goals[h].cycle].at = "saving"
                       /\ Unlike(goals, Known(goals, C[goals[h].cycle]), goals[h].title)
    BY DEF MadeApart
  <2>1. /\ goals[h].cycle \in DOMAIN cycles /\ cycles[goals[h].cycle].at = "saving"
        /\ Unlike(goals, Known(goals, cycles[goals[h].cycle]), goals[h].title)
    BY DEF SynthInv, MadeApart
  <2>2. CASE goals[h].cycle # c
    BY <1>2, <2>1, <2>2
  <2>3. CASE goals[h].cycle = c
    <3>1. x.at = "saving" /\ x.rows = cycles[c].rows /\ x.missed = cycles[c].missed
      BY <2>3 DEF MadeBy
    <3>2. Known(goals, x) = Known(goals, cycles[c])
      BY <3>1 DEF Known
    <3>. QED
      BY <1>2, <2>1, <2>3, <3>1, <3>2
  <2>. QED
    BY <2>2, <2>3
<1>4. LeftApart(goals, C)
  BY <1>2 DEF SynthInv, LeftApart
<1>5. Share(goals, C)
  BY <1>2 DEF SynthInv, Share
<1>. QED
  BY <1>1, <1>2, <1>3, <1>4, <1>5 DEF SynthInv, SynthPlain

LEMMA NotYetMade ==
  ASSUME SynthInv, NEW c \in DOMAIN cycles, cycles[c].at # "saving"
  PROVE  MadeBy(goals, c) = {} /\ Cardinality(MadeBy(goals, c)) = 0
<1>1. c # 0
  BY CycleIs
<1>2. MadeBy(goals, c) = {}
  BY <1>1 DEF SynthInv, MadeApart, MadeBy
<1>. QED
  BY <1>2, FS_EmptySet

LEMMA NoProposalsKeeps ==
  ASSUME SynthInv, NEW c \in DOMAIN cycles, NoProposals(c)
  PROVE  SynthInv'
<1>. DEFINE x == [cycles[c] EXCEPT !.at = "saving"]
<1>1. cycles[c].at = "asking" /\ cycles' = [cycles EXCEPT ![c] = x] /\ goals' = goals
  BY DEF NoProposals
<1>2. cycles[c] \in Cycle /\ cycles[c].left = << >>
  BY <1>1, CycleIs DEF SynthInv, LeftApart, Fit
<1>3. /\ x \in Cycle /\ x.at = "saving" /\ x.left = << >>
      /\ x.rows = cycles[c].rows /\ x.missed = cycles[c].missed
  BY <1>2 DEF Cycle
<1>. HIDE DEF x
<1>4. Len(<< >>) = 0
  OBVIOUS
<1>5. Fit(goals, x)
  <2>1. x.rows <= Len(goals) /\ x.at # "asking" /\ x.at # "reading"
    BY <1>3, CycleIs
  <2>2. \A i \in 1 .. Len(x.left) : FALSE
    BY <1>3, <1>4
  <2>. QED
    BY <2>1, <2>2 DEF Fit
<1>6. Shared(goals, x, c)
  <2>1. Cardinality(MadeBy(goals, c)) = 0 /\ MaxPerCycle \in Nat
    BY <1>1, NotYetMade, SynthesisAssumption
  <2>. QED
    BY <1>3, <1>4, <2>1 DEF Shared
<1>. QED
  BY <1>1, <1>3, <1>5, <1>6, CycleKeeps

LEMMA BeginKeeps ==
  ASSUME SynthInv, Begin
  PROVE  SynthInv'
<1>. DEFINE x == [at |-> "asking", left |-> << >>, seen |-> {}, rows |-> 0, missed |-> {}]
            N == Len(cycles) + 1
<1>1. cycles' = Append(cycles, x) /\ goals' = goals
  BY DEF Begin
<1>2. x \in Cycle /\ x.at = "asking" /\ x.rows = 0 /\ x.left = << >>
  BY SynthesisAssumption DEF Cycle
<1>. HIDE DEF x
<1>3. /\ cycles' \in Seq(Cycle) /\ DOMAIN cycles' = 1 .. N
      /\ cycles'[N] = x /\ \A i \in DOMAIN cycles : cycles'[i] = cycles[i]
  BY <1>1, <1>2, SynthFacts
<1>4. /\ \A i \in DOMAIN cycles : i \in DOMAIN cycles'
      /\ \A i \in DOMAIN cycles' : i = N \/ i \in DOMAIN cycles
  BY <1>3, SynthFacts
<1>. HIDE DEF N
<1>5. Fit(goals, x) /\ Shared(goals, x, N)
  BY <1>2, SynthFacts DEF Fit, Shared
<1>6. MadeApart(goals, cycles')
  BY <1>3, <1>4 DEF SynthInv, MadeApart
<1>7. LeftApart(goals, cycles')
  BY <1>3, <1>4, <1>5 DEF SynthInv, LeftApart
<1>8. Share(goals, cycles')
  BY <1>3, <1>4, <1>5 DEF SynthInv, Share
<1>. QED
  BY <1>1, <1>3, <1>6, <1>7, <1>8 DEF SynthInv, SynthPlain

\* What is valid of an answer.
LEMMA ValidIs ==
  ASSUME NEW proposals \in Proposals
  PROVE  Subsequence(proposals, {i \in DOMAIN proposals : proposals[i] # Faulty}) \in Seq(Title)
<1>. DEFINE S == Title \cup {Faulty}
            I == {i \in DOMAIN proposals : proposals[i] # Faulty}
            valid == Subsequence(proposals, I)
<1>1. proposals \in Seq(S)
  BY SynthesisAssumption
<1>2. I \in SUBSET DOMAIN proposals /\ \A i \in I : proposals[i] \in Title
  <2>1. \A i \in DOMAIN proposals : proposals[i] \in S
    BY <1>1
  <2>. QED
    BY <2>1
<1>. HIDE DEF I
<1>3. /\ valid \in Seq(S) /\ Len(valid) = Cardinality(I)
      /\ \A n \in 1 .. Cardinality(I) : PlaceOf(I, n) \in I /\ valid[n] = proposals[PlaceOf(I, n)]
  BY <1>1, <1>2, SubsequenceHas
<1>. HIDE DEF valid
<1>4. valid \in Seq(Title)
  <2>1. Len(valid) \in Nat /\ DOMAIN valid = 1 .. Len(valid) /\ \A n \in 1 .. Len(valid) : valid[n] \in Title
    BY <1>2, <1>3
  <2>2. valid = [n \in 1 .. Len(valid) |-> valid[n]]
    BY <1>3
  <2>3. valid \in [1 .. Len(valid) -> Title]
    BY <2>1, <2>2
  <2>. QED
    BY <2>1, <2>3
<1>. QED
  BY <1>4 DEF valid, I

\* What is left after the comparison: no more than the maximum, unlike what was found.
LEMMA ComparedIs ==
  ASSUME NEW valid \in Seq(Title), NEW existing
  PROVE  LET kept == First(Deduplicate(valid, existing), MaxPerCycle)
         IN  /\ kept \in Seq(Title) /\ Len(kept) <= MaxPerCycle
             /\ \A i \in 1 .. Len(kept) : Unlike(goals, existing, kept[i])
<1>. DEFINE J == {i \in DOMAIN valid : \A g \in existing : <<valid[i], goals[g].title>> \notin Alike}
            some == Subsequence(valid, J)
            kept == First(some, MaxPerCycle)
<1>5. J \in SUBSET DOMAIN valid /\ \A i \in J : Unlike(goals, existing, valid[i])
  BY DEF Unlike
<1>. HIDE DEF J
<1>6. /\ some \in Seq(Title) /\ Len(some) = Cardinality(J)
      /\ \A n \in 1 .. Cardinality(J) : PlaceOf(J, n) \in J /\ some[n] = valid[PlaceOf(J, n)]
  BY <1>5, SubsequenceHas
<1>. HIDE DEF some
<1>7. \A n \in 1 .. Len(some) : Unlike(goals, existing, some[n])
  BY <1>5, <1>6
<1>8. MaxPerCycle \in Nat /\ Len(some) \in Nat
  BY <1>6, SynthesisAssumption
<1>9. PICK k \in Nat : k <= MaxPerCycle /\ k <= Len(some) /\ kept = SubSeq(some, 1, k)
  <2>1. CASE Len(some) > MaxPerCycle
    BY <1>8, <2>1 DEF First
  <2>2. CASE ~ (Len(some) > MaxPerCycle)
    BY <1>8, <2>2 DEF First
  <2>. QED
    BY <2>1, <2>2
<1>10. kept \in Seq(Title) /\ Len(kept) = k /\ \A i \in 1 .. k : kept[i] = some[i]
  <2>1. \A i \in 1 .. k : some[i] \in Title
    BY <1>6, <1>8, <1>9
  <2>2. /\ SubSeq(some, 1, k) \in Seq(Title)
        /\ Len(SubSeq(some, 1, k)) = IF 1 <= k THEN k - 1 + 1 ELSE 0
        /\ \A i \in 1 .. k - 1 + 1 : SubSeq(some, 1, k)[i] = some[1 + i - 1]
    BY <2>1, SubSeqProperties
  <2>. HIDE DEF kept
  <2>3. (IF 1 <= k THEN k - 1 + 1 ELSE 0) = k /\ k - 1 + 1 = k /\ \A i \in 1 .. k : 1 + i - 1 = i
    OBVIOUS
  <2>. QED
    BY <1>9, <2>2, <2>3
<1>. HIDE DEF kept
<1>11. \A i \in 1 .. Len(kept) : Unlike(goals, existing, kept[i])
  BY <1>7, <1>8, <1>9, <1>10
<1>12. kept \in Seq(Title) /\ Len(kept) <= MaxPerCycle
  BY <1>9, <1>10
<1>. QED
  BY <1>11, <1>12 DEF kept, some, J, Deduplicate

LEMMA CheckKeeps ==
  ASSUME SynthInv, NEW c \in DOMAIN cycles, NEW proposals \in Proposals, Check(c, proposals)
  PROVE  SynthInv'
<1>. DEFINE valid == Subsequence(proposals, {i \in DOMAIN proposals : proposals[i] # Faulty})
<1>1. valid \in Seq(Title)
  BY ValidIs
<1>2. PICK found \in {GetByStatus("pending"), {}} :
        /\ cycles[c].at = "asking" /\ goals' = goals
        /\ cycles' = [cycles EXCEPT ![c] =
                        [at |-> "reading", left |-> valid, seen |-> found, rows |-> Len(goals),
                         missed |-> GetByStatus("pending") \ found]]
  BY DEF Check
<1>. HIDE DEF valid
<1>. DEFINE x == [at |-> "reading", left |-> valid, seen |-> found, rows |-> Len(goals),
                  missed |-> GetByStatus("pending") \ found]
<1>3. x \in Cycle /\ x.at = "reading" /\ x.rows = Len(goals) /\ x.seen = found
      /\ x.missed = GetByStatus("pending") \ found
  <2>1. DOMAIN goals \subseteq 1 .. MaxGoals /\ Len(goals) \in 0 .. MaxGoals
    BY SynthFacts
  <2>2. found \subseteq 1 .. MaxGoals /\ GetByStatus("pending") \ found \subseteq 1 .. MaxGoals
    BY <2>1 DEF GetByStatus
  <2>. QED
    BY <1>1, <2>1, <2>2 DEF Cycle
<1>4. cycles' = [cycles EXCEPT ![c] = x]
  BY <1>2
<1>. HIDE DEF x
<1>5. \A g \in Known(goals, x) : g \in x.seen \/ goals[g].status = "active"
  <2>. SUFFICES ASSUME NEW g \in Known(goals, x), goals[g].status # "active" PROVE g \in x.seen
    OBVIOUS
  <2>1. goals[g] \in GoalRow /\ g \in DOMAIN goals /\ g \notin x.missed /\ goals[g].status # "closed"
    BY SynthFacts DEF Known
  <2>2. goals[g].status = "pending"
    BY <2>1 DEF GoalRow, Status
  <2>. QED
    BY <1>3, <2>1, <2>2 DEF GetByStatus
<1>6. Fit(goals, x) /\ Shared(goals, x, c)
  BY <1>3, <1>5, SynthFacts DEF Fit, Shared
<1>7. MadeBy(goals, c) = {}
  BY <1>2, NotYetMade
<1>. QED
  BY <1>2, <1>3, <1>4, <1>6, <1>7, CycleKeeps

LEMMA CompareKeeps ==
  ASSUME SynthInv, NEW c \in DOMAIN cycles, Compare(c)
  PROVE  SynthInv'
<1>1. PICK found \in {GetByStatus("active"), {}} :
        /\ cycles[c].at = "reading" /\ goals' = goals
        /\ cycles' = [cycles EXCEPT ![c] =
             [at |-> "saving", seen |-> {}, rows |-> cycles[c].rows,
              left |-> First(Deduplicate(cycles[c].left, cycles[c].seen \cup found), MaxPerCycle),
              missed |-> cycles[c].missed \cup (GetByStatus("active") \ found)]]
  BY DEF Compare
<1>. DEFINE existing == cycles[c].seen \cup found
            kept == First(Deduplicate(cycles[c].left, existing), MaxPerCycle)
            gone == cycles[c].missed \cup (GetByStatus("active") \ found)
            x == [at |-> "saving", seen |-> {}, rows |-> cycles[c].rows, left |-> kept,
                  missed |-> gone]
<1>2. cycles[c] \in Cycle /\ cycles[c].left \in Seq(Title) /\ cycles[c].rows <= Len(goals)
  BY CycleIs
<1>3. /\ kept \in Seq(Title) /\ Len(kept) <= MaxPerCycle
      /\ \A i \in 1 .. Len(kept) : Unlike(goals, existing, kept[i])
  BY <1>2, ComparedIs
<1>4. cycles' = [cycles EXCEPT ![c] = x]
  BY <1>1
<1>5. gone \subseteq 1 .. MaxGoals
  <2>1. DOMAIN goals \subseteq 1 .. MaxGoals
    BY SynthFacts
  <2>2. cycles[c].missed \subseteq 1 .. MaxGoals
    BY <1>2 DEF Cycle
  <2>. QED
    BY <2>1, <2>2 DEF GetByStatus
<1>. HIDE DEF kept
<1>6. x \in Cycle /\ x.at = "saving" /\ x.rows = cycles[c].rows /\ x.left = kept /\ x.missed = gone
  BY <1>2, <1>3, <1>5 DEF Cycle
<1>. HIDE DEF x
<1>7. Known(goals, x) \subseteq existing
  <2>. SUFFICES ASSUME NEW g \in Known(goals, x), g \notin cycles[c].seen PROVE g \in found
    OBVIOUS
  <2>1. g \in Known(goals, cycles[c]) /\ g \in DOMAIN goals /\ g \notin gone
    BY <1>6 DEF Known
  <2>2. goals[g].status = "active"
    BY <1>1, <2>1 DEF SynthInv, LeftApart, Fit
  <2>. QED
    BY <2>1, <2>2 DEF GetByStatus
<1>8. Fit(goals, x)
  <2>1. \A i \in 1 .. Len(x.left) : Unlike(goals, Known(goals, x), x.left[i])
    BY <1>3, <1>6, <1>7 DEF Unlike
  <2>. QED
    BY <1>2, <1>6, <2>1 DEF Fit
<1>9. MadeBy(goals, c) = {} /\ Cardinality(MadeBy(goals, c)) = 0
  BY <1>1, NotYetMade
<1>10. Shared(goals, x, c)
  <2>1. Len(kept) \in Nat
    BY <1>3
  <2>. QED
    BY <1>3, <1>6, <1>9, <2>1 DEF Shared
<1>. QED
  BY <1>1, <1>4, <1>6, <1>8, <1>9, <1>10, CycleKeeps

\* A goal more: the ones before stay as they are.
LEMMA GoalAppended ==
  ASSUME SynthInv, NEW e \in GoalRow, Len(goals) < MaxGoals, NEW GN, GN = Append(goals, e)
  PROVE  /\ GN \in Seq(GoalRow) /\ Len(GN) <= MaxGoals /\ Len(GN) = Len(goals) + 1
         /\ Len(goals) + 1 \in DOMAIN GN /\ Len(goals) + 1 \notin DOMAIN goals
         /\ GN[Len(goals) + 1] = e
         /\ \A g \in DOMAIN goals : g \in DOMAIN GN /\ GN[g] = goals[g]
         /\ \A g \in DOMAIN GN : g \in DOMAIN goals \/ g = Len(goals) + 1
<1>1. goals \in Seq(GoalRow) /\ Len(goals) \in Nat /\ DOMAIN goals = 1 .. Len(goals) /\ MaxGoals \in Nat
  BY SynthFacts
<1>2. /\ GN \in Seq(GoalRow) /\ Len(GN) = Len(goals) + 1 /\ DOMAIN GN = 1 .. Len(goals) + 1
      /\ GN[Len(goals) + 1] = e /\ \A g \in 1 .. Len(goals) : GN[g] = goals[g]
  BY <1>1
<1>. QED
  BY <1>1, <1>2

\* It is in the queries of no cycle that has begun to read.
LEMMA AppendedKnown ==
  ASSUME SynthInv, NEW e \in GoalRow, Len(goals) < MaxGoals, NEW GN, GN = Append(goals, e),
         NEW x, x.rows \in Nat, x.rows <= Len(goals)
  PROVE  /\ Known(GN, x) = Known(goals, x)
         /\ \A t : Unlike(goals, Known(goals, x), t) => Unlike(GN, Known(GN, x), t)
<1>1. /\ Len(goals) + 1 \notin DOMAIN goals /\ Len(goals) \in Nat
      /\ \A g \in DOMAIN goals : g \in DOMAIN GN /\ GN[g] = goals[g]
      /\ \A g \in DOMAIN GN : g \in DOMAIN goals \/ g = Len(goals) + 1
  BY GoalAppended, SynthFacts
<1>2. Known(GN, x) = Known(goals, x)
  <2>1. ASSUME NEW g \in Known(GN, x) PROVE g \in Known(goals, x)
    <3>1. g # Len(goals) + 1
      BY <1>1 DEF Known
    <3>. QED
      BY <1>1, <3>1 DEF Known
  <2>2. ASSUME NEW g \in Known(goals, x) PROVE g \in Known(GN, x)
    BY <1>1 DEF Known
  <2>. QED
    BY <2>1, <2>2
<1>3. \A g \in Known(goals, x) : GN[g] = goals[g]
  BY <1>1 DEF Known
<1>. QED
  BY <1>2, <1>3 DEF Unlike

LEMMA AppendedFit ==
  ASSUME SynthInv, NEW e \in GoalRow, Len(goals) < MaxGoals, NEW GN, GN = Append(goals, e),
         NEW x \in Cycle, Fit(goals, x)
  PROVE  Fit(GN, x)
<1>1. x.rows \in Nat /\ x.rows <= Len(goals) /\ Len(goals) \in Nat /\ Len(GN) = Len(goals) + 1
  BY GoalAppended, SynthFacts DEF Fit, Cycle
<1>2. /\ Known(GN, x) = Known(goals, x)
      /\ \A t : Unlike(goals, Known(goals, x), t) => Unlike(GN, Known(GN, x), t)
  BY <1>1, AppendedKnown
<1>3. x.rows <= Len(GN)
  BY <1>1
<1>4. \A g \in Known(goals, x) : GN[g] = goals[g]
  <2>1. \A g \in DOMAIN goals : GN[g] = goals[g]
    BY GoalAppended
  <2>. QED
    BY <2>1 DEF Known
<1>. QED
  BY <1>2, <1>3, <1>4 DEF Fit

LEMMA ImproveKeeps ==
  ASSUME SynthInv, NEW t \in Title, Improve(t)
  PROVE  SynthInv'
<1>. DEFINE e == [title |-> t, cycle |-> 0, status |-> "pending"]
            N == Len(goals) + 1
<1>1. goals' = Append(goals, e) /\ Len(goals) < MaxGoals /\ cycles' = cycles
  BY DEF Improve
<1>2. e \in GoalRow /\ e.cycle = 0
  BY DEF GoalRow, Status
<1>. HIDE DEF e
<1>3. PICK G : G = goals'
  OBVIOUS
<1>4. /\ G \in Seq(GoalRow) /\ Len(G) <= MaxGoals
      /\ N \in DOMAIN G /\ N \notin DOMAIN goals /\ G[N] = e
      /\ \A g \in DOMAIN goals : g \in DOMAIN G /\ G[g] = goals[g]
      /\ \A g \in DOMAIN G : g \in DOMAIN goals \/ g = N
  <2>1. G = Append(goals, e) /\ Len(goals) < MaxGoals
    BY <1>1, <1>3
  <2>2. e \in GoalRow
    BY <1>2
  <2>3. /\ G \in Seq(GoalRow) /\ Len(G) <= MaxGoals
        /\ Len(goals) + 1 \in DOMAIN G /\ Len(goals) + 1 \notin DOMAIN goals
        /\ G[Len(goals) + 1] = e
        /\ \A g \in DOMAIN goals : g \in DOMAIN G /\ G[g] = goals[g]
        /\ \A g \in DOMAIN G : g \in DOMAIN goals \/ g = Len(goals) + 1
    BY <2>1, <2>2, GoalAppended
  <2>. QED
    BY <2>3
<1>. HIDE DEF N
<1>5. \A c \in DOMAIN cycles : \A u : Unlike(goals, Known(goals, cycles[c]), u)
                                      => Unlike(G, Known(G, cycles[c]), u)
  BY <1>1, <1>2, <1>3, CycleIs, AppendedKnown
<1>6. MadeApart(G, cycles)
  BY <1>2, <1>4, <1>5 DEF SynthInv, MadeApart
<1>7. LeftApart(G, cycles)
  <2>. SUFFICES ASSUME NEW c \in DOMAIN cycles PROVE Fit(G, cycles[c])
    BY DEF LeftApart
  <2>1. cycles[c] \in Cycle /\ Fit(goals, cycles[c])
    BY CycleIs DEF SynthInv, LeftApart
  <2>. QED
    BY <1>1, <1>2, <1>3, <2>1, AppendedFit
<1>8. Share(G, cycles)
  <2>. SUFFICES ASSUME NEW c \in DOMAIN cycles PROVE Shared(G, cycles[c], c)
    BY DEF Share
  <2>1. c # 0
    BY CycleIs
  <2>2. MadeBy(G, c) = MadeBy(goals, c)
    BY <1>2, <1>4, <2>1 DEF MadeBy
  <2>. QED
    BY <2>2 DEF SynthInv, Share, Shared
<1>. QED
  BY <1>1, <1>3, <1>4, <1>6, <1>7, <1>8 DEF SynthInv, SynthPlain

\* The cycles go on as they were, but that they may have missed more, and one between its
\* queries misses a goal that goes back to pending behind it.
Behind(g, status) ==
  \A c \in DOMAIN cycles :
    /\ cycles'[c].at = cycles[c].at /\ cycles'[c].left = cycles[c].left
    /\ cycles'[c].seen = cycles[c].seen /\ cycles'[c].rows = cycles[c].rows
    /\ cycles[c].missed \subseteq cycles'[c].missed
    /\ cycles[c].at = "reading" /\ status = "pending" /\ goals[g].status = "active"
       => g \in cycles'[c].missed \/ g \in cycles[c].seen

\* The status of a goal changes, and what is closed stays closed.
LEMMA StatusKeeps ==
  ASSUME SynthInv, NEW g \in DOMAIN goals, NEW status \in Status,
         goals' = [goals EXCEPT ![g].status = status], goals[g].status # "closed",
         cycles' \in Seq(Cycle), DOMAIN cycles' = DOMAIN cycles,
         Behind(g, status),
         status # "pending" \/ goals[g].status = "active"
  PROVE  SynthInv'
<1>. DEFINE e == [goals[g] EXCEPT !.status = status]
<1>1. PICK G, C : G = goals' /\ C = cycles'
  OBVIOUS
<1>0. \A c \in DOMAIN cycles :
        /\ C[c].at = cycles[c].at /\ C[c].left = cycles[c].left
        /\ C[c].seen = cycles[c].seen /\ C[c].rows = cycles[c].rows
        /\ cycles[c].missed \subseteq C[c].missed
        /\ cycles[c].at = "reading" /\ status = "pending" /\ goals[g].status = "active"
           => g \in C[c].missed \/ g \in cycles[c].seen
  BY <1>1 DEF Behind
<1>2. goals[g] \in GoalRow
  BY SynthFacts
<1>3. G = [goals EXCEPT ![g] = e]
  BY <1>1
<1>4. e \in GoalRow /\ e.title = goals[g].title /\ e.cycle = goals[g].cycle /\ e.status = status
  BY <1>2 DEF GoalRow
<1>. HIDE DEF e
<1>5. G \in Seq(GoalRow) /\ DOMAIN G = DOMAIN goals /\ Len(G) = Len(goals)
  <2>1. \A i \in 1 .. Len(goals) : goals[i] \in GoalRow
    BY SynthFacts
  <2>2. Len(goals) \in Nat /\ DOMAIN goals = 1 .. Len(goals)
    BY SynthFacts
  <2>3. G \in [1 .. Len(goals) -> GoalRow]
    BY <1>3, <1>4, <2>1, <2>2
  <2>4. PICK n \in Nat : n = Len(goals)
    BY <2>2
  <2>5. G \in [1 .. n -> GoalRow]
    BY <2>3, <2>4
  <2>6. G \in Seq(GoalRow)
    BY <2>5
  <2>7. Len(G) = n /\ DOMAIN G = 1 .. n
    BY <2>5, <2>6
  <2>. QED
    BY <2>2, <2>4, <2>6, <2>7
<1>6. /\ \A i \in DOMAIN goals : G[i].title = goals[i].title /\ G[i].cycle = goals[i].cycle
      /\ G[g].status = status /\ \A i \in DOMAIN goals : i # g => G[i] = goals[i]
  BY <1>3, <1>4
<1>7. ASSUME NEW c \in DOMAIN cycles
      PROVE  /\ Known(G, C[c]) \subseteq Known(goals, cycles[c])
             /\ \A t : Unlike(goals, Known(goals, cycles[c]), t) => Unlike(G, Known(G, C[c]), t)
  <2>1. ASSUME NEW i \in Known(G, C[c]) PROVE i \in Known(goals, cycles[c])
    <3>1. i \in DOMAIN goals /\ i <= cycles[c].rows /\ i \notin cycles[c].missed
          /\ G[i].status # "closed"
      BY <1>0, <1>1, <1>5, <1>7 DEF Known
    <3>2. goals[i].status # "closed"
      BY <1>6, <3>1
    <3>. QED
      BY <3>1, <3>2 DEF Known
  <2>2. \A i \in Known(goals, cycles[c]) : G[i].title = goals[i].title
    BY <1>6 DEF Known
  <2>. QED
    BY <2>1, <2>2 DEF Unlike
<1>8. MadeApart(G, C)
  <2>. SUFFICES ASSUME NEW h \in DOMAIN goals, goals[h].cycle # 0
                PROVE  /\ goals[h].cycle \in DOMAIN C /\ C[goals[h].cycle].at = "saving"
                       /\ Unlike(G, Known(G, C[goals[h].cycle]), goals[h].title)
    BY <1>5, <1>6 DEF MadeApart
  <2>1. /\ goals[h].cycle \in DOMAIN cycles /\ cycles[goals[h].cycle].at = "saving"
        /\ Unlike(goals, Known(goals, cycles[goals[h].cycle]), goals[h].title)
    BY DEF SynthInv, MadeApart
  <2>. QED
    BY <1>0, <1>1, <1>7, <2>1
<1>9. LeftApart(G, C)
  <2>. SUFFICES ASSUME NEW c \in DOMAIN cycles PROVE Fit(G, C[c])
    BY <1>1 DEF LeftApart
  <2>1. Fit(goals, cycles[c])
    BY DEF SynthInv, LeftApart
  <2>2. /\ C[c].at = cycles[c].at /\ C[c].left = cycles[c].left
        /\ C[c].seen = cycles[c].seen /\ C[c].rows = cycles[c].rows
    BY <1>0
  <2>3. ASSUME C[c].at = "reading", NEW i \in Known(G, C[c])
        PROVE  i \in C[c].seen \/ G[i].status = "active"
    <3>1. i \in Known(goals, cycles[c]) /\ i \in DOMAIN goals
      BY <1>7 DEF Known
    <3>2. i \in cycles[c].seen \/ goals[i].status = "active"
      BY <2>1, <2>2, <2>3, <3>1 DEF Fit
    <3>3. CASE i # g
      BY <1>6, <2>2, <3>1, <3>2, <3>3
    <3>4. CASE i = g
      <4>1. i \notin C[c].missed /\ G[i].status # "closed"
        BY DEF Known
      <4>2. CASE status = "pending"
        BY <1>0, <2>2, <2>3, <3>4, <4>1, <4>2
      <4>3. CASE status = "active"
        BY <1>6, <3>4, <4>3
      <4>. QED
        BY <1>6, <3>4, <4>1, <4>2, <4>3 DEF Status
    <3>. QED
      BY <3>3, <3>4
  <2>4. ASSUME C[c].at = "saving"
        PROVE  \A i \in 1 .. Len(C[c].left) : Unlike(G, Known(G, C[c]), C[c].left[i])
    BY <1>7, <2>1, <2>2, <2>4 DEF Fit
  <2>. QED
    BY <1>5, <2>1, <2>2, <2>3, <2>4 DEF Fit
<1>10. Share(G, C)
  <2>. SUFFICES ASSUME NEW c \in DOMAIN cycles PROVE Shared(G, C[c], c)
    BY <1>1 DEF Share
  <2>1. MadeBy(G, c) = MadeBy(goals, c)
    BY <1>5, <1>6 DEF MadeBy
  <2>2. Shared(goals, cycles[c], c)
    BY DEF SynthInv, Share
  <2>. QED
    BY <1>0, <2>1, <2>2 DEF Shared
<1>11. Len(G) <= MaxGoals /\ C \in Seq(Cycle)
  BY <1>1, <1>5, SynthFacts
<1>. QED
  BY <1>1, <1>5, <1>8, <1>9, <1>10, <1>11 DEF SynthInv, SynthPlain

LEMMA MovedKeeps ==
  ASSUME SynthInv, NEW g \in DOMAIN goals, Attempt(g) \/ CloseGoal(g)
  PROVE  SynthInv'
<1>1. CASE Attempt(g)
  BY <1>1, StatusKeeps, SynthFacts DEF Attempt, Status, Behind
<1>2. CASE CloseGoal(g)
  BY <1>2, StatusKeeps, SynthFacts DEF CloseGoal, Status, Behind
<1>. QED
  BY <1>1, <1>2

LEMMA RetryKeeps ==
  ASSUME SynthInv, NEW g \in DOMAIN goals, Retry(g)
  PROVE  SynthInv'
<1>. DEFINE Slips(c) == [cycles[c] EXCEPT !.missed = @ \cup ({g} \ cycles[c].seen)]
<1>1. PICK C : C = cycles'
  OBVIOUS
<1>2. C = [c \in DOMAIN cycles |-> IF cycles[c].at = "reading" THEN Slips(c) ELSE cycles[c]]
  BY <1>1 DEF Retry
<1>3. g \in 1 .. MaxGoals
  BY SynthFacts
<1>4. ASSUME NEW c \in DOMAIN cycles
      PROVE  /\ Slips(c) \in Cycle
             /\ Slips(c).at = cycles[c].at /\ Slips(c).left = cycles[c].left
             /\ Slips(c).seen = cycles[c].seen /\ Slips(c).rows = cycles[c].rows
             /\ Slips(c).missed = cycles[c].missed \cup ({g} \ cycles[c].seen)
  <2>1. cycles[c] \in Cycle
    BY CycleIs
  <2>. QED
    BY <1>3, <2>1 DEF Cycle
<1>. HIDE DEF Slips
<1>5. C \in Seq(Cycle) /\ DOMAIN C = DOMAIN cycles
  <2>1. Len(cycles) \in Nat /\ DOMAIN cycles = 1 .. Len(cycles)
    BY SynthFacts
  <2>2. C \in [1 .. Len(cycles) -> Cycle]
    BY <1>2, <1>4, <2>1, CycleIs
  <2>. QED
    BY <2>1, <2>2
<1>6. \A c \in DOMAIN cycles :
        /\ C[c].at = cycles[c].at /\ C[c].left = cycles[c].left
        /\ C[c].seen = cycles[c].seen /\ C[c].rows = cycles[c].rows
        /\ cycles[c].missed \subseteq C[c].missed
        /\ cycles[c].at = "reading" => g \in C[c].missed \/ g \in cycles[c].seen
  BY <1>2, <1>4
<1>7. goals[g].status = "active" /\ goals' = [goals EXCEPT ![g].status = "pending"]
  BY DEF Retry
<1>. QED
  <2>1. cycles' \in Seq(Cycle) /\ DOMAIN cycles' = DOMAIN cycles
    BY <1>1, <1>5
  <2>2. PICK s \in Status : s = "pending"
    BY DEF Status
  <2>3. Behind(g, s)
    BY <1>1, <1>6 DEF Behind
  <2>4. goals[g].status # "closed" /\ (s # "pending" \/ goals[g].status = "active")
    BY <1>7
  <2>5. goals' = [goals EXCEPT ![g].status = s]
    BY <1>7, <2>2
  <2>. QED
    BY <2>1, <2>3, <2>4, <2>5, StatusKeeps, Zenon

\* The first that is left becomes a goal, or is passed over.
LEMMA TailIs ==
  ASSUME SynthInv, NEW c \in DOMAIN cycles, cycles[c].left # << >>, cycles[c].at = "saving"
  PROVE  LET x == [cycles[c] EXCEPT !.left = Tail(@)]
         IN  /\ x \in Cycle /\ x.at = "saving" /\ x.rows = cycles[c].rows
             /\ x.missed = cycles[c].missed /\ Fit(goals, x)
             /\ Len(cycles[c].left) = Len(x.left) + 1 /\ Len(x.left) \in Nat
             /\ Head(cycles[c].left) \in Title
             /\ Unlike(goals, Known(goals, x), Head(cycles[c].left))
<1>. DEFINE l == cycles[c].left
            x == [cycles[c] EXCEPT !.left = Tail(l)]
<1>1. cycles[c] \in Cycle /\ l \in Seq(Title)
  BY CycleIs
<1>. HIDE DEF l
<1>2. /\ Tail(l) \in Seq(Title) /\ Len(l) = Len(Tail(l)) + 1 /\ Len(Tail(l)) \in Nat
      /\ Head(l) = l[1] /\ Head(l) \in Title
      /\ \A i \in 1 .. Len(Tail(l)) : Tail(l)[i] = l[i + 1]
  <2>1. l # << >>
    BY DEF l
  <2>2. Len(l) \in Nat /\ Len(l) # 0
    BY <1>1, <2>1
  <2>3. Tail(l) \in Seq(Title) /\ Len(Tail(l)) = Len(l) - 1 /\ Head(l) \in Title
        /\ \A i \in 1 .. Len(Tail(l)) : Tail(l)[i] = l[i + 1]
    BY <1>1, <2>1, HeadTailProperties
  <2>4. Head(l) = l[1]
    BY <1>1
  <2>. QED
    BY <2>2, <2>3, <2>4
<1>3. /\ x \in Cycle /\ x.at = "saving" /\ x.rows = cycles[c].rows
      /\ x.missed = cycles[c].missed /\ x.left = Tail(l)
  BY <1>1, <1>2 DEF Cycle
<1>. HIDE DEF x
<1>4. Known(goals, x) = Known(goals, cycles[c])
  BY <1>3 DEF Known
<1>5. \A i \in 1 .. Len(l) : Unlike(goals, Known(goals, x), l[i])
  BY <1>4 DEF SynthInv, LeftApart, Fit, l
<1>6. Unlike(goals, Known(goals, x), Head(l))
  <2>1. 1 \in 1 .. Len(l)
    BY <1>2
  <2>. QED
    BY <1>2, <1>5, <2>1
<1>7. \A i \in 1 .. Len(Tail(l)) : Unlike(goals, Known(goals, x), Tail(l)[i])
  <2>. SUFFICES ASSUME NEW i \in 1 .. Len(Tail(l)) PROVE Unlike(goals, Known(goals, x), Tail(l)[i])
    OBVIOUS
  <2>1. i + 1 \in 1 .. Len(l)
    BY <1>2
  <2>. QED
    BY <1>2, <1>5, <2>1
<1>8. Fit(goals, x)
  BY <1>3, <1>7, CycleIs DEF Fit
<1>9. /\ x \in Cycle /\ x.at = "saving" /\ x.rows = cycles[c].rows
      /\ x.missed = cycles[c].missed /\ Fit(goals, x)
      /\ Len(l) = Len(x.left) + 1 /\ Len(x.left) \in Nat
      /\ Head(l) \in Title /\ Unlike(goals, Known(goals, x), Head(l))
  BY <1>2, <1>3, <1>6, <1>8
<1>. QED
  BY <1>9 DEF x, l

LEMMA PassedOverKeeps ==
  ASSUME SynthInv, NEW c \in DOMAIN cycles, SaveGoal(c, TRUE)
  PROVE  SynthInv'
<1>. DEFINE x == [cycles[c] EXCEPT !.left = Tail(@)]
<1>1. /\ cycles[c].at = "saving" /\ cycles[c].left # << >>
      /\ goals' = goals /\ cycles' = [cycles EXCEPT ![c] = x]
  BY DEF SaveGoal
<1>2. /\ x \in Cycle /\ x.at = "saving" /\ x.rows = cycles[c].rows
      /\ x.missed = cycles[c].missed /\ Fit(goals, x)
      /\ Len(cycles[c].left) = Len(x.left) + 1 /\ Len(x.left) \in Nat
  BY <1>1, TailIs
<1>. HIDE DEF x
<1>3. Shared(goals, x, c)
  <2>1. Cardinality(MadeBy(goals, c)) + Len(cycles[c].left) <= MaxPerCycle
    BY <1>1 DEF SynthInv, Share, Shared
  <2>2. Cardinality(MadeBy(goals, c)) \in Nat /\ MaxPerCycle \in Nat
    BY MadeFinite, SynthFacts, SynthesisAssumption
  <2>. QED
    BY <1>2, <2>1, <2>2 DEF Shared
<1>. QED
  BY <1>1, <1>2, <1>3, CycleKeeps

LEMMA SaveKeeps ==
  ASSUME SynthInv, NEW c \in DOMAIN cycles, SaveGoal(c, FALSE)
  PROVE  SynthInv'
<1>. DEFINE x == [cycles[c] EXCEPT !.left = Tail(@)]
            e == [title |-> Head(cycles[c].left), cycle |-> c, status |-> "pending"]
            N == Len(goals) + 1
<1>1. /\ cycles[c].at = "saving" /\ cycles[c].left # << >> /\ Len(goals) < MaxGoals
      /\ goals' = Append(goals, e) /\ cycles' = [cycles EXCEPT ![c] = x]
  BY DEF SaveGoal
<1>2. c \in Nat /\ c # 0
  BY CycleIs
<1>3. /\ x \in Cycle /\ x.at = "saving" /\ x.rows = cycles[c].rows
      /\ x.missed = cycles[c].missed /\ Fit(goals, x)
      /\ Len(cycles[c].left) = Len(x.left) + 1 /\ Len(x.left) \in Nat
      /\ Head(cycles[c].left) \in Title
      /\ Unlike(goals, Known(goals, x), Head(cycles[c].left))
  BY <1>1, TailIs
<1>4. e \in GoalRow /\ e.cycle = c /\ e.title = Head(cycles[c].left)
  BY <1>2, <1>3 DEF GoalRow, Status
<1>. HIDE DEF x, e
<1>5. PICK G, C : G = goals' /\ C = cycles'
  OBVIOUS
<1>6. /\ G \in Seq(GoalRow) /\ Len(G) <= MaxGoals
      /\ N \in DOMAIN G /\ N \notin DOMAIN goals /\ G[N] = e
      /\ \A g \in DOMAIN goals : g \in DOMAIN G /\ G[g] = goals[g]
      /\ \A g \in DOMAIN G : g \in DOMAIN goals \/ g = N
  <2>1. G = Append(goals, e) /\ Len(goals) < MaxGoals
    BY <1>1, <1>5
  <2>2. e \in GoalRow
    BY <1>4
  <2>3. /\ G \in Seq(GoalRow) /\ Len(G) <= MaxGoals
        /\ Len(goals) + 1 \in DOMAIN G /\ Len(goals) + 1 \notin DOMAIN goals
        /\ G[Len(goals) + 1] = e
        /\ \A g \in DOMAIN goals : g \in DOMAIN G /\ G[g] = goals[g]
        /\ \A g \in DOMAIN G : g \in DOMAIN goals \/ g = Len(goals) + 1
    <3>1. PICK row \in GoalRow : row = e
      BY <2>2
    <3>2. G = Append(goals, row) /\ Len(goals) < MaxGoals
      BY <2>1, <3>1
    <3>3. /\ G \in Seq(GoalRow) /\ Len(G) <= MaxGoals
          /\ Len(goals) + 1 \in DOMAIN G /\ Len(goals) + 1 \notin DOMAIN goals
          /\ G[Len(goals) + 1] = row
          /\ \A g \in DOMAIN goals : g \in DOMAIN G /\ G[g] = goals[g]
          /\ \A g \in DOMAIN G : g \in DOMAIN goals \/ g = Len(goals) + 1
      BY <3>2, GoalAppended, Zenon
    <3>. QED
      BY <3>1, <3>3
  <2>. QED
    BY <2>3
<1>. HIDE DEF N
<1>7. /\ C \in Seq(Cycle) /\ DOMAIN C = DOMAIN cycles /\ C[c] = x
      /\ \A d \in DOMAIN cycles : d # c => C[d] = cycles[d]
  BY <1>1, <1>3, <1>5, CycleChanged
<1>8. \A d \in DOMAIN cycles : C[d] \in Cycle /\ Fit(goals, C[d])
  BY <1>3, <1>7, CycleIs DEF SynthInv, LeftApart
<1>9. \A d \in DOMAIN cycles : \A t : Unlike(goals, Known(goals, C[d]), t)
                                      => Unlike(G, Known(G, C[d]), t)
  <2>1. \A d \in DOMAIN cycles : C[d].rows \in Nat /\ C[d].rows <= Len(goals)
    BY <1>8 DEF Cycle, Fit
  <2>. QED
    BY <1>1, <1>4, <1>5, <2>1, AppendedKnown
<1>10. MadeApart(G, C)
  <2>. SUFFICES ASSUME NEW h \in DOMAIN G, G[h].cycle # 0
                PROVE  /\ G[h].cycle \in DOMAIN C /\ C[G[h].cycle].at = "saving"
                       /\ Unlike(G, Known(G, C[G[h].cycle]), G[h].title)
    BY DEF MadeApart
  <2>1. CASE h \in DOMAIN goals
    <3>1. G[h] = goals[h]
      BY <1>6, <2>1
    <3>2. /\ goals[h].cycle \in DOMAIN cycles /\ cycles[goals[h].cycle].at = "saving"
          /\ Unlike(goals, Known(goals, cycles[goals[h].cycle]), goals[h].title)
      BY <2>1, <3>1 DEF SynthInv, MadeApart
    <3>3. Known(goals, C[goals[h].cycle]) = Known(goals, cycles[goals[h].cycle])
          /\ C[goals[h].cycle].at = "saving"
      BY <1>3, <1>7, <3>2 DEF Known
    <3>. QED
      BY <1>7, <1>9, <3>1, <3>2, <3>3
  <2>2. CASE h = N
    <3>1. G[h].cycle = c /\ G[h].title = Head(cycles[c].left)
      BY <1>4, <1>6, <2>2
    <3>. QED
      BY <1>3, <1>7, <1>9, <3>1
  <2>. QED
    BY <1>6, <2>1, <2>2
<1>11. LeftApart(G, C)
  BY <1>1, <1>4, <1>5, <1>7, <1>8, AppendedFit DEF LeftApart
<1>12. Share(G, C)
  <2>. SUFFICES ASSUME NEW d \in DOMAIN cycles PROVE Shared(G, C[d], d)
    BY <1>7 DEF Share
  <2>1. CASE d = c
    <3>0. /\ Cardinality(MadeBy(goals, c)) + Len(cycles[c].left) <= MaxPerCycle
          /\ IsFiniteSet(MadeBy(goals, c)) /\ Cardinality(MadeBy(goals, c)) \in Nat
      BY <1>1, MadeFinite, SynthFacts DEF SynthInv, Share, Shared
    <3>1. MadeBy(G, c) = MadeBy(goals, c) \cup {N} /\ N \notin MadeBy(goals, c)
      BY <1>4, <1>6 DEF MadeBy
    <3>2. Cardinality(MadeBy(G, c)) = Cardinality(MadeBy(goals, c)) + 1
      BY <3>0, <3>1, FS_AddElement
    <3>3. C[d] = x
      BY <1>7, <2>1
    <3>. QED
      BY <1>3, <2>1, <3>0, <3>2, <3>3, SynthesisAssumption DEF Shared
  <2>2. CASE d # c
    <3>1. MadeBy(G, d) = MadeBy(goals, d)
      BY <1>4, <1>6, <2>2 DEF MadeBy
    <3>. QED
      BY <1>7, <2>2, <3>1 DEF Shared, SynthInv, Share
  <2>. QED
    BY <2>1, <2>2
<1>. QED
  BY <1>5, <1>6, <1>7, <1>10, <1>11, <1>12 DEF SynthInv, SynthPlain

LEMMA SynthInvInit == SynthesisInit => SynthInv
<1>. SUFFICES ASSUME SynthesisInit PROVE SynthInv
  OBVIOUS
<1>1. goals = << >> /\ cycles = << >>
  BY DEF SynthesisInit
<1>2. << >> \in Seq(GoalRow) /\ << >> \in Seq(Cycle) /\ Len(<< >>) = 0 /\ DOMAIN << >> = {}
  OBVIOUS
<1>. QED
  BY <1>1, <1>2, SynthesisAssumption DEF SynthInv, SynthPlain, MadeApart, LeftApart, Share

LEMMA SynthInductive == SynthInv /\ [SynthesisNext]_yvars => SynthInv'
<1>. SUFFICES ASSUME SynthInv, [SynthesisNext]_yvars PROVE SynthInv'
  OBVIOUS
<1>1. CASE UNCHANGED yvars
  BY <1>1 DEF yvars, SynthInv
<1>2. CASE Begin
  BY <1>2, BeginKeeps
<1>3. ASSUME NEW c \in DOMAIN cycles, Synthesize(c) PROVE SynthInv'
  BY <1>3, NoProposalsKeeps, CompareKeeps, PassedOverKeeps, SaveKeeps, CheckKeeps DEF Synthesize
<1>4. CASE \E g \in DOMAIN goals : Attempt(g) \/ Retry(g) \/ CloseGoal(g)
  BY <1>4, MovedKeeps, RetryKeeps
<1>5. CASE \E t \in Title : Improve(t)
  BY <1>5, ImproveKeeps
<1>. QED
  BY <1>1, <1>2, <1>3, <1>4, <1>5 DEF SynthesisNext

LEMMA SynthSound == SynthInv => SynthesisTypeOK /\ TwinsAreExplained
<1>. SUFFICES ASSUME SynthInv PROVE SynthesisTypeOK /\ TwinsAreExplained
  OBVIOUS
<1>1. SynthesisTypeOK
  BY DEF SynthInv, SynthPlain, SynthesisTypeOK, GoalRow
<1>2. ASSUME NEW g \in DOMAIN goals, NEW h \in DOMAIN goals,
             <<goals[g].title, goals[h].title>> \in Alike, goals[h].cycle # 0,
             goals[g].status # "closed"
      PROVE  g > cycles[goals[h].cycle].rows \/ g \in cycles[goals[h].cycle].missed
  <2>1. <<goals[h].title, goals[g].title>> \in Alike
    BY <1>2, SynthesisAssumption
  <2>2. goals[h].cycle \in DOMAIN cycles /\ g \notin Known(goals, cycles[goals[h].cycle])
    BY <1>2, <2>1 DEF SynthInv, MadeApart, Unlike
  <2>3. cycles[goals[h].cycle].rows \in Nat /\ g \in Nat
    BY <2>2, CycleIs, SynthFacts
  <2>. QED
    BY <1>2, <2>2, <2>3 DEF Known
<1>3. ASSUME NEW c \in DOMAIN cycles
      PROVE  Cardinality({g \in DOMAIN goals : goals[g].cycle = c}) <= MaxPerCycle
  <2>1. Cardinality(MadeBy(goals, c)) \in Nat /\ MaxPerCycle \in Nat /\ Len(cycles[c].left) \in Nat
    BY MadeFinite, SynthFacts, CycleIs, SynthesisAssumption
  <2>2. cycles[c].at # "saving" => Cardinality(MadeBy(goals, c)) = 0
    BY NotYetMade
  <2>3. Cardinality(MadeBy(goals, c)) <= MaxPerCycle
    BY <2>1, <2>2 DEF SynthInv, Share, Shared
  <2>. QED
    BY <2>3 DEF MadeBy
<1>4. TwinsAreExplained
  BY <1>2, <1>3 DEF TwinsAreExplained
<1>. QED
  BY <1>1, <1>4

-----------------------------------------------------------------------------
(* Paths: what is d relations away, and no nearer, has a simple path of d  *)
(* relations, whose earlier places are all nearer.                         *)

ReachNext(R) == R \cup {j \in Rows : \E k \in R : Joined(k, j)}

IsReach(i, h, f) == f = [n \in 0 .. h |-> IF n = 0 THEN {i} ELSE ReachNext(f[n - 1])]

PathsNext(P) == UNION {{Append(p, j) : j \in {k \in Rows : /\ Joined(p[Len(p)], k)
                                                           /\ \A n \in DOMAIN p : p[n] # k}}
                       : p \in P}

IsPaths(i, h, f) == f = [d \in 0 .. h |-> IF d = 0 THEN {<<i>>} ELSE PathsNext(f[d - 1])]

LEMMA ReachExists ==
  ASSUME NEW i, NEW h \in Nat
  PROVE  \E f : IsReach(i, h, f)
<1>. DEFINE T == {n \in Nat : \E f : IsReach(i, n, f)}
<1>1. 0 \in T
  <2>. DEFINE f == [n \in 0 .. 0 |-> {i}]
  <2>1. f = [n \in 0 .. 0 |-> IF n = 0 THEN {i} ELSE ReachNext(f[n - 1])]
    <3>1. \A n \in 0 .. 0 : n = 0
      OBVIOUS
    <3>. QED
      BY <3>1
  <2>. QED
    BY <2>1 DEF IsReach
<1>2. \A n \in T : n + 1 \in T
  <2>. SUFFICES ASSUME NEW n \in T PROVE n + 1 \in T
    OBVIOUS
  <2>1. PICK f : IsReach(i, n, f)
    OBVIOUS
  <2>. DEFINE g == [m \in 0 .. n + 1 |-> IF m = n + 1 THEN ReachNext(f[n]) ELSE f[m]]
  <2>2. n \in Nat
    OBVIOUS
  <2>3. \A m \in 0 .. n : f[m] = IF m = 0 THEN {i} ELSE ReachNext(f[m - 1])
    BY <2>1 DEF IsReach
  <2>4. \A m \in 0 .. n + 1 : g[m] = IF m = 0 THEN {i} ELSE ReachNext(g[m - 1])
    <3>. SUFFICES ASSUME NEW m \in 0 .. n + 1
                  PROVE  g[m] = IF m = 0 THEN {i} ELSE ReachNext(g[m - 1])
      OBVIOUS
    <3>1. CASE m = n + 1
      <4>1. m # 0 /\ m - 1 = n /\ n \in 0 .. n + 1 /\ n # n + 1
        BY <2>2, <3>1
      <4>2. g[n] = f[n] /\ g[m] = ReachNext(f[n])
        BY <3>1, <4>1
      <4>. HIDE DEF g
      <4>. QED
        BY <4>1, <4>2
    <3>2. CASE m = 0
      <4>1. 0 # n + 1 /\ 0 \in 0 .. n
        BY <2>2
      <4>. QED
        BY <2>3, <3>2, <4>1
    <3>3. CASE m # 0 /\ m # n + 1
      <4>1. m \in 0 .. n /\ m - 1 \in 0 .. n + 1 /\ m - 1 # n + 1
        BY <2>2, <3>3
      <4>2. g[m] = f[m] /\ g[m - 1] = f[m - 1]
        BY <3>3, <4>1
      <4>. HIDE DEF g
      <4>. QED
        BY <2>3, <3>3, <4>1, <4>2
    <3>. QED
      BY <3>1, <3>2, <3>3
  <2>5. g = [m \in 0 .. n + 1 |-> g[m]]
    OBVIOUS
  <2>. HIDE DEF g
  <2>6. IsReach(i, n + 1, g)
    BY <2>4, <2>5 DEF IsReach
  <2>. QED
    BY <2>2, <2>6
<1>. HIDE DEF T
<1>3. T \in SUBSET Nat
  BY DEF T
<1>4. T = Nat
  BY <1>1, <1>2, <1>3, InductionOn
<1>. QED
  BY <1>4 DEF T

LEMMA ReachUnique ==
  ASSUME NEW i, NEW h \in Nat, NEW l \in Nat, NEW f, NEW g, IsReach(i, h, f), IsReach(i, l, g)
  PROVE  \A n \in Nat : n <= h /\ n <= l => f[n] = g[n]
<1>. DEFINE T == {n \in Nat : n <= h /\ n <= l => f[n] = g[n]}
<1>0. /\ \A n \in 0 .. h : f[n] = IF n = 0 THEN {i} ELSE ReachNext(f[n - 1])
      /\ \A n \in 0 .. l : g[n] = IF n = 0 THEN {i} ELSE ReachNext(g[n - 1])
  BY DEF IsReach
<1>1. 0 \in T
  BY <1>0
<1>2. \A n \in T : n + 1 \in T
  <2>. SUFFICES ASSUME NEW n \in T, n + 1 <= h, n + 1 <= l PROVE f[n + 1] = g[n + 1]
    OBVIOUS
  <2>1. n \in Nat /\ n <= h /\ n <= l
    OBVIOUS
  <2>2. f[n] = g[n]
    BY <2>1
  <2>3. n + 1 \in 0 .. h /\ n + 1 \in 0 .. l /\ n + 1 # 0 /\ n + 1 - 1 = n
    BY <2>1
  <2>4. f[n + 1] = ReachNext(f[n]) /\ g[n + 1] = ReachNext(g[n])
    BY <1>0, <2>3
  <2>. QED
    BY <2>2, <2>4
<1>3. T \in SUBSET Nat
  OBVIOUS
<1>. HIDE DEF T
<1>4. T = Nat
  BY <1>1, <1>2, <1>3, InductionOn
<1>. QED
  BY <1>4 DEF T

LEMMA ReachSteps ==
  ASSUME NEW i
  PROVE  Reach(i, 0) = {i} /\ \A h \in Nat : Reach(i, h + 1) = ReachNext(Reach(i, h))
<1>. DEFINE R(h) == CHOOSE f : IsReach(i, h, f)
<1>1. \A h : Reach(i, h) = R(h)[h]
  BY DEF Reach, IsReach, ReachNext
<1>2. \A h \in Nat : IsReach(i, h, R(h))
  <2>. SUFFICES ASSUME NEW h \in Nat PROVE IsReach(i, h, R(h))
    OBVIOUS
  <2>1. \E f : IsReach(i, h, f)
    BY ReachExists
  <2>. HIDE DEF IsReach
  <2>. QED
    BY <2>1
<1>. HIDE DEF R
<1>3. R(0)[0] = {i}
  BY <1>2 DEF IsReach
<1>4. ASSUME NEW h \in Nat PROVE R(h + 1)[h + 1] = ReachNext(R(h)[h])
  <2>1. h + 1 \in Nat /\ h \in 0 .. h + 1 /\ h + 1 \in 0 .. h + 1 /\ h + 1 # 0 /\ h + 1 - 1 = h
    OBVIOUS
  <2>2. IsReach(i, h, R(h)) /\ IsReach(i, h + 1, R(h + 1))
    BY <1>2, <2>1
  <2>3. R(h + 1)[h + 1] = ReachNext(R(h + 1)[h])
    BY <2>1, <2>2 DEF IsReach
  <2>4. PICK f, g, l : f = R(h) /\ g = R(h + 1) /\ l = h + 1
    OBVIOUS
  <2>5. IsReach(i, h, f) /\ IsReach(i, l, g) /\ l \in Nat
    BY <2>1, <2>2, <2>4
  <2>6. f[h] = g[h]
    BY <2>1, <2>4, <2>5, ReachUnique
  <2>. QED
    BY <2>3, <2>4, <2>6
<1>. QED
  BY <1>1, <1>3, <1>4

LEMMA PathsExist ==
  ASSUME NEW i, NEW h \in Nat
  PROVE  \E f : IsPaths(i, h, f)
<1>. DEFINE T == {n \in Nat : \E f : IsPaths(i, n, f)}
<1>1. 0 \in T
  <2>. DEFINE f == [d \in 0 .. 0 |-> {<<i>>}]
  <2>1. f = [d \in 0 .. 0 |-> IF d = 0 THEN {<<i>>} ELSE PathsNext(f[d - 1])]
    <3>1. \A d \in 0 .. 0 : d = 0
      OBVIOUS
    <3>. QED
      BY <3>1
  <2>. QED
    BY <2>1 DEF IsPaths
<1>2. \A n \in T : n + 1 \in T
  <2>. SUFFICES ASSUME NEW n \in T PROVE n + 1 \in T
    OBVIOUS
  <2>1. PICK f : IsPaths(i, n, f)
    OBVIOUS
  <2>. DEFINE g == [m \in 0 .. n + 1 |-> IF m = n + 1 THEN PathsNext(f[n]) ELSE f[m]]
  <2>2. n \in Nat
    OBVIOUS
  <2>3. \A m \in 0 .. n : f[m] = IF m = 0 THEN {<<i>>} ELSE PathsNext(f[m - 1])
    BY <2>1 DEF IsPaths
  <2>4. \A m \in 0 .. n + 1 : g[m] = IF m = 0 THEN {<<i>>} ELSE PathsNext(g[m - 1])
    <3>. SUFFICES ASSUME NEW m \in 0 .. n + 1
                  PROVE  g[m] = IF m = 0 THEN {<<i>>} ELSE PathsNext(g[m - 1])
      OBVIOUS
    <3>1. CASE m = n + 1
      <4>1. m # 0 /\ m - 1 = n /\ n \in 0 .. n + 1 /\ n # n + 1
        BY <2>2, <3>1
      <4>2. g[n] = f[n] /\ g[m] = PathsNext(f[n])
        BY <3>1, <4>1
      <4>. HIDE DEF g
      <4>. QED
        BY <4>1, <4>2
    <3>2. CASE m = 0
      <4>1. 0 # n + 1 /\ 0 \in 0 .. n
        BY <2>2
      <4>. QED
        BY <2>3, <3>2, <4>1
    <3>3. CASE m # 0 /\ m # n + 1
      <4>1. m \in 0 .. n /\ m - 1 \in 0 .. n + 1 /\ m - 1 # n + 1
        BY <2>2, <3>3
      <4>2. g[m] = f[m] /\ g[m - 1] = f[m - 1]
        BY <3>3, <4>1
      <4>. HIDE DEF g
      <4>. QED
        BY <2>3, <3>3, <4>1, <4>2
    <3>. QED
      BY <3>1, <3>2, <3>3
  <2>5. g = [m \in 0 .. n + 1 |-> g[m]]
    OBVIOUS
  <2>. HIDE DEF g
  <2>6. IsPaths(i, n + 1, g)
    BY <2>4, <2>5 DEF IsPaths
  <2>. QED
    BY <2>2, <2>6
<1>. HIDE DEF T
<1>3. T \in SUBSET Nat
  BY DEF T
<1>4. T = Nat
  BY <1>1, <1>2, <1>3, InductionOn
<1>. QED
  BY <1>4 DEF T

LEMMA PathsSteps ==
  ASSUME NEW i
  PROVE  Paths(i)[0] = {<<i>>} /\ \A d \in 1 .. MaxHops : Paths(i)[d] = PathsNext(Paths(i)[d - 1])
<1>. DEFINE P == CHOOSE f : IsPaths(i, MaxHops, f)
<1>0. MaxHops \in Nat
  BY WorldAssumption
<1>1. Paths(i) = P
  BY DEF Paths, IsPaths, PathsNext
<1>2. IsPaths(i, MaxHops, P)
  <2>1. \E f : IsPaths(i, MaxHops, f)
    BY <1>0, PathsExist
  <2>. QED
    BY <2>1
<1>. HIDE DEF P
<1>3. \A d \in 0 .. MaxHops : P[d] = IF d = 0 THEN {<<i>>} ELSE PathsNext(P[d - 1])
  BY <1>2 DEF IsPaths
<1>. QED
  BY <1>0, <1>1, <1>3

\* What h relations reach, more reach, and all of it is stored.
LEMMA ReachGrows ==
  ASSUME NEW i \in Rows, NEW h \in Nat
  PROVE  /\ Reach(i, h) \subseteq Rows
         /\ \A l \in Nat : l <= h => Reach(i, l) \subseteq Reach(i, h)
<1>. DEFINE T == {n \in Nat : /\ Reach(i, n) \subseteq Rows
                              /\ \A l \in Nat : l <= n => Reach(i, l) \subseteq Reach(i, n)}
<1>1. 0 \in T
  <2>1. Reach(i, 0) = {i}
    BY ReachSteps
  <2>2. \A l \in Nat : l <= 0 => l = 0
    OBVIOUS
  <2>. QED
    BY <2>1, <2>2
<1>2. \A n \in T : n + 1 \in T
  <2>. SUFFICES ASSUME NEW n \in T PROVE n + 1 \in T
    OBVIOUS
  <2>1. n \in Nat /\ Reach(i, n) \subseteq Rows
        /\ \A l \in Nat : l <= n => Reach(i, l) \subseteq Reach(i, n)
    OBVIOUS
  <2>2. Reach(i, n + 1) = ReachNext(Reach(i, n))
    BY <2>1, ReachSteps
  <2>3. Reach(i, n) \subseteq Reach(i, n + 1) /\ Reach(i, n + 1) \subseteq Rows
    BY <2>1, <2>2 DEF ReachNext
  <2>4. \A l \in Nat : l <= n + 1 => l <= n \/ l = n + 1
    BY <2>1
  <2>5. \A l \in Nat : l <= n + 1 => Reach(i, l) \subseteq Reach(i, n + 1)
    BY <2>1, <2>3, <2>4
  <2>. QED
    BY <2>1, <2>3, <2>5
<1>3. T \in SUBSET Nat
  OBVIOUS
<1>. HIDE DEF T
<1>4. T = Nat
  BY <1>1, <1>2, <1>3, InductionOn
<1>. QED
  BY <1>4 DEF T

IsPath(i, d, p) == /\ p \in Seq(Rows) /\ Len(p) = d + 1
                   /\ \A n \in 1 .. d : Joined(p[n], p[n + 1])
                   /\ p[d + 1] \in Reach(i, d)

LEMMA PathsSound ==
  ASSUME NEW i \in Rows
  PROVE  \A d \in 0 .. MaxHops : \A p \in Paths(i)[d] : IsPath(i, d, p)
<1>. DEFINE T == {d \in Nat : d <= MaxHops => \A p \in Paths(i)[d] : IsPath(i, d, p)}
<1>1. 0 \in T
  <2>. SUFFICES ASSUME NEW p \in Paths(i)[0] PROVE IsPath(i, 0, p)
    OBVIOUS
  <2>1. p = <<i>>
    BY PathsSteps
  <2>2. p \in Seq(Rows) /\ Len(p) = 1 /\ p[1] = i
    BY <2>1
  <2>3. Reach(i, 0) = {i}
    BY ReachSteps
  <2>4. p[0 + 1] \in Reach(i, 0) /\ Len(p) = 0 + 1 /\ \A n \in 1 .. 0 : Joined(p[n], p[n + 1])
    BY <2>2, <2>3
  <2>. QED
    BY <2>2, <2>4 DEF IsPath
<1>2. \A n \in T : n + 1 \in T
  <2>. SUFFICES ASSUME NEW d \in T, d + 1 <= MaxHops, NEW q \in Paths(i)[d + 1]
                PROVE  IsPath(i, d + 1, q)
    OBVIOUS
  <2>1. d \in Nat /\ MaxHops \in Nat
    BY WorldAssumption
  <2>2. d <= MaxHops /\ d + 1 \in 1 .. MaxHops /\ d + 1 - 1 = d
    BY <2>1
  <2>3. Paths(i)[d + 1] = PathsNext(Paths(i)[d])
    BY <2>2, PathsSteps
  <2>4. PICK p \in Paths(i)[d], j \in Rows : Joined(p[Len(p)], j) /\ q = Append(p, j)
    BY <2>3 DEF PathsNext
  <2>5. IsPath(i, d, p)
    BY <2>2
  <2>6. p \in Seq(Rows) /\ Len(p) = d + 1 /\ p[d + 1] \in Reach(i, d)
        /\ \A n \in 1 .. d : Joined(p[n], p[n + 1])
    BY <2>5 DEF IsPath
  <2>7. /\ q \in Seq(Rows) /\ Len(q) = Len(p) + 1 /\ q[Len(p) + 1] = j
        /\ \A n \in 1 .. Len(p) : q[n] = p[n]
    BY <2>4, <2>6
  <2>8. Joined(p[d + 1], j)
    BY <2>4, <2>6
  <2>9. j \in Reach(i, d + 1)
    <3>1. Reach(i, d + 1) = ReachNext(Reach(i, d))
      BY <2>1, ReachSteps
    <3>. QED
      BY <2>6, <2>8, <3>1 DEF ReachNext
  <2>10. \A n \in 1 .. d + 1 : Joined(q[n], q[n + 1])
    <3>. SUFFICES ASSUME NEW n \in 1 .. d + 1 PROVE Joined(q[n], q[n + 1])
      OBVIOUS
    <3>1. CASE n = d + 1
      <4>1. q[n] = p[d + 1] /\ q[n + 1] = j
        BY <2>1, <2>6, <2>7, <3>1
      <4>. QED
        BY <2>8, <4>1
    <3>2. CASE n # d + 1
      <4>1. n \in 1 .. d /\ n + 1 \in 1 .. Len(p) /\ n \in 1 .. Len(p)
        BY <2>1, <2>6, <3>2
      <4>2. q[n] = p[n] /\ q[n + 1] = p[n + 1]
        BY <2>7, <4>1
      <4>. QED
        BY <2>6, <4>1, <4>2
    <3>. QED
      BY <3>1, <3>2
  <2>11. Len(q) = d + 1 + 1 /\ q[d + 1 + 1] = j
    BY <2>1, <2>6, <2>7
  <2>. QED
    BY <2>7, <2>9, <2>10, <2>11 DEF IsPath
<1>3. T \in SUBSET Nat
  OBVIOUS
<1>. HIDE DEF T
<1>4. T = Nat
  BY <1>1, <1>2, <1>3, InductionOn
<1>. QED
  BY <1>4, WorldAssumption DEF T

\* What h relations reach and no fewer has a path of h relations.
IsThere(i, h) ==
  \A j \in Reach(i, h) :
    (\A l \in Nat : l < h => j \notin Reach(i, l)) =>
      \E p \in Paths(i)[h] : p[Len(p)] = j /\ \A n \in 1 .. h : p[n] \in Reach(i, h - 1)

LEMMA PathsThere ==
  ASSUME NEW i \in Rows
  PROVE  \A h \in 0 .. MaxHops : IsThere(i, h)
<1>. DEFINE T == {h \in Nat : h <= MaxHops => IsThere(i, h)}
<1>1. 0 \in T
  <2>1. Reach(i, 0) = {i} /\ Paths(i)[0] = {<<i>>}
    BY ReachSteps, PathsSteps
  <2>2. Len(<<i>>) = 1 /\ <<i>>[1] = i
    OBVIOUS
  <2>3. \A n \in 1 .. 0 : FALSE
    OBVIOUS
  <2>4. IsThere(i, 0)
    BY <2>1, <2>2, <2>3 DEF IsThere
  <2>. QED
    BY <2>4
<1>2. \A n \in T : n + 1 \in T
  <2>. SUFFICES ASSUME NEW h \in T, h + 1 <= MaxHops PROVE IsThere(i, h + 1)
    OBVIOUS
  <2>. SUFFICES ASSUME NEW j \in Reach(i, h + 1), \A l \in Nat : l < h + 1 => j \notin Reach(i, l)
                PROVE  \E p \in Paths(i)[h + 1] :
                         p[Len(p)] = j /\ \A n \in 1 .. h + 1 : p[n] \in Reach(i, h + 1 - 1)
    BY DEF IsThere
  <2>1. h \in Nat /\ MaxHops \in Nat
    BY WorldAssumption
  <2>2. h <= MaxHops /\ h + 1 \in 1 .. MaxHops /\ h + 1 - 1 = h /\ h < h + 1 /\ h \in 0 .. MaxHops
    BY <2>1
  <2>3. j \notin Reach(i, h)
    BY <2>1, <2>2
  <2>4. Reach(i, h + 1) = ReachNext(Reach(i, h))
    BY <2>1, ReachSteps
  <2>5. PICK k \in Reach(i, h) : Joined(k, j) /\ j \in Rows
    BY <2>3, <2>4 DEF ReachNext
  <2>6. \A l \in Nat : l < h => k \notin Reach(i, l)
    <3>. SUFFICES ASSUME NEW l \in Nat, l < h, k \in Reach(i, l) PROVE FALSE
      OBVIOUS
    <3>1. Reach(i, l + 1) = ReachNext(Reach(i, l))
      BY ReachSteps
    <3>2. j \in Reach(i, l + 1)
      BY <2>5, <3>1 DEF ReachNext
    <3>3. l + 1 \in Nat /\ l + 1 < h + 1
      BY <2>1
    <3>. QED
      BY <3>2, <3>3
  <2>7. IsThere(i, h)
    BY <2>2
  <2>8. PICK p \in Paths(i)[h] : p[Len(p)] = k /\ \A n \in 1 .. h : p[n] \in Reach(i, h - 1)
    BY <2>6, <2>7 DEF IsThere
  <2>9. IsPath(i, h, p)
    BY <2>2, PathsSound
  <2>10. p \in Seq(Rows) /\ Len(p) = h + 1 /\ DOMAIN p = 1 .. h + 1
    BY <2>9 DEF IsPath
  <2>11. \A n \in 1 .. h + 1 : p[n] \in Reach(i, h)
    <3>. SUFFICES ASSUME NEW n \in 1 .. h + 1 PROVE p[n] \in Reach(i, h)
      OBVIOUS
    <3>1. CASE n = h + 1
      BY <2>8, <2>10, <3>1
    <3>2. CASE n # h + 1
      <4>1. n \in 1 .. h /\ h - 1 \in Nat /\ h - 1 <= h
        BY <2>1, <3>2
      <4>2. p[n] \in Reach(i, h - 1)
        BY <2>8, <4>1
      <4>. QED
        BY <2>1, <4>1, <4>2, ReachGrows
    <3>. QED
      BY <3>1, <3>2
  <2>12. \A n \in DOMAIN p : p[n] # j
    BY <2>3, <2>10, <2>11
  <2>. DEFINE q == Append(p, j)
  <2>13. Paths(i)[h + 1] = PathsNext(Paths(i)[h])
    BY <2>2, PathsSteps
  <2>14. q \in Paths(i)[h + 1]
    <3>1. Joined(p[Len(p)], j)
      BY <2>5, <2>8
    <3>. HIDE DEF Joined
    <3>. QED
      BY <2>5, <2>8, <2>12, <2>13, <3>1 DEF PathsNext
  <2>15. /\ Len(q) = h + 1 + 1 /\ q[h + 1 + 1] = j
         /\ \A n \in 1 .. h + 1 : q[n] = p[n]
    BY <2>1, <2>5, <2>10
  <2>. HIDE DEF q
  <2>16. q[Len(q)] = j /\ \A n \in 1 .. h + 1 : q[n] \in Reach(i, h)
    BY <2>11, <2>15
  <2>. QED
    BY <2>2, <2>14, <2>16
<1>3. T \in SUBSET Nat
  OBVIOUS
<1>. HIDE DEF T
<1>4. T = Nat
  BY <1>1, <1>2, <1>3, InductionOn
<1>. QED
  BY <1>4, WorldAssumption DEF T

LEMMA SmallestNumber ==
  ASSUME NEW T \in SUBSET Nat, T # {}
  PROVE  Min(T) \in T /\ \A n \in T : Min(T) <= n
<1>1. PICK n \in T : \A m \in T : n <= m
  BY LeastNumber
<1>. QED
  BY <1>1 DEF Min

\* The lengths of the paths from i to j.
Hits(i, j) == {d \in 0 .. MaxHops : \E p \in Paths(i)[d] : p[Len(p)] = j}

LEMMA HitsAre ==
  ASSUME NEW i \in Rows, NEW j \in Rows
  PROVE  /\ \A d \in Hits(i, j) : j \in Reach(i, d)
         /\ \A h \in 0 .. MaxHops : j \in Reach(i, h) => \E d \in Hits(i, j) : d <= h
<1>1. \A d \in Hits(i, j) : j \in Reach(i, d)
  <2>. SUFFICES ASSUME NEW d \in Hits(i, j) PROVE j \in Reach(i, d)
    OBVIOUS
  <2>1. PICK p \in Paths(i)[d] : p[Len(p)] = j
    BY DEF Hits
  <2>2. IsPath(i, d, p)
    BY PathsSound DEF Hits
  <2>. QED
    BY <2>1, <2>2 DEF IsPath
<1>2. ASSUME NEW h \in 0 .. MaxHops, j \in Reach(i, h) PROVE \E d \in Hits(i, j) : d <= h
  <2>. DEFINE T == {l \in Nat : j \in Reach(i, l)}
  <2>1. h \in T /\ T \in SUBSET Nat
    BY <1>2
  <2>. HIDE DEF T
  <2>2. PICK d \in T : \A l \in T : d <= l
    BY <2>1, LeastNumber
  <2>3. d \in 0 .. MaxHops /\ d <= h
    <3>1. d \in Nat /\ d <= h /\ MaxHops \in Nat
      BY <2>1, <2>2, WorldAssumption
    <3>. QED
      BY <3>1
  <2>4. j \in Reach(i, d)
    BY DEF T
  <2>5. \A l \in Nat : l < d => j \notin Reach(i, l)
    <3>. SUFFICES ASSUME NEW l \in Nat, l < d, j \in Reach(i, l) PROVE FALSE
      OBVIOUS
    <3>1. l \in T
      BY DEF T
    <3>. QED
      BY <2>2, <2>3, <3>1
  <2>6. IsThere(i, d)
    BY <2>3, PathsThere
  <2>7. d \in Hits(i, j)
    BY <2>3, <2>4, <2>5, <2>6 DEF IsThere, Hits
  <2>. QED
    BY <2>3, <2>7
<1>. QED
  BY <1>1, <1>2

\* A path is found exactly where one of at most MaxHops relations leads, and none is shorter.
THEOREM PathsHold == PathsAreShortest
<1>. SUFFICES ASSUME NEW i \in Rows, NEW j \in Rows
              PROVE  /\ FindPath(i, j) = {} <=> j \notin Reach(i, MaxHops)
                     /\ \A p \in FindPath(i, j) :
                          /\ \A n \in 1 .. Len(p) - 1 : Joined(p[n], p[n + 1])
                          /\ \A h \in 0 .. Len(p) - 2 : j \notin Reach(i, h)
  BY DEF PathsAreShortest
<1>. DEFINE ends == [d \in 0 .. MaxHops |-> {p \in Paths(i)[d] : p[Len(p)] = j}]
            hits == {d \in 0 .. MaxHops : ends[d] # {}}
<1>0. MaxHops \in Nat
  BY WorldAssumption
<1>1. hits = Hits(i, j)
  BY DEF Hits
<1>2. FindPath(i, j) = IF hits = {} THEN {} ELSE ends[Min(hits)]
  BY DEF FindPath
<1>3. \A d \in hits : ends[d] # {} /\ d \in 0 .. MaxHops
  OBVIOUS
<1>4. \A d \in 0 .. MaxHops : ends[d] = {p \in Paths(i)[d] : p[Len(p)] = j}
  OBVIOUS
<1>. HIDE DEF ends, hits
<1>5. hits # {} => Min(hits) \in hits /\ \A d \in hits : Min(hits) <= d
  <2>1. hits \in SUBSET Nat
    BY <1>3
  <2>. QED
    BY <2>1, SmallestNumber
<1>6. FindPath(i, j) = {} <=> hits = {}
  BY <1>2, <1>3, <1>5
<1>7. hits = {} <=> j \notin Reach(i, MaxHops)
  <2>1. ASSUME j \in Reach(i, MaxHops) PROVE hits # {}
    <3>1. MaxHops \in 0 .. MaxHops
      BY <1>0
    <3>. QED
      BY <1>1, <2>1, <3>1, HitsAre
  <2>2. ASSUME hits # {} PROVE j \in Reach(i, MaxHops)
    <3>1. PICK d \in hits : TRUE
      BY <2>2
    <3>2. j \in Reach(i, d) /\ d \in Nat /\ d <= MaxHops
      BY <1>0, <1>1, <1>3, HitsAre
    <3>. QED
      BY <1>0, <3>2, ReachGrows
  <2>. QED
    BY <2>1, <2>2
<1>8. ASSUME NEW p \in FindPath(i, j)
      PROVE  /\ \A n \in 1 .. Len(p) - 1 : Joined(p[n], p[n + 1])
             /\ \A h \in 0 .. Len(p) - 2 : j \notin Reach(i, h)
  <2>1. hits # {}
    BY <1>2
  <2>2. PICK d : d = Min(hits)
    OBVIOUS
  <2>3. d \in hits /\ d \in 0 .. MaxHops /\ \A l \in hits : d <= l
    BY <1>3, <1>5, <2>1, <2>2
  <2>4. p \in Paths(i)[d]
    BY <1>2, <1>4, <2>1, <2>2, <2>3
  <2>5. IsPath(i, d, p)
    BY <2>3, <2>4, PathsSound
  <2>6. Len(p) = d + 1 /\ \A n \in 1 .. d : Joined(p[n], p[n + 1])
    BY <2>5 DEF IsPath
  <2>7. d \in Nat /\ d <= MaxHops /\ Len(p) - 1 = d /\ Len(p) - 2 = d - 1
    BY <1>0, <2>3, <2>6
  <2>8. ASSUME NEW h \in 0 .. d - 1, j \in Reach(i, h) PROVE FALSE
    <3>1. h \in 0 .. MaxHops /\ h < d
      BY <1>0, <2>7
    <3>2. PICK l \in Hits(i, j) : l <= h
      BY <2>8, <3>1, HitsAre
    <3>3. l \in hits
      BY <1>1, <3>2
    <3>4. l \in 0 .. MaxHops
      BY <1>3, <3>3
    <3>5. d <= l
      BY <2>3, <3>3
    <3>. HIDE DEF hits, ends
    <3>. QED
      BY <1>0, <2>7, <3>1, <3>2, <3>4, <3>5
  <2>. QED
    BY <2>6, <2>7, <2>8
<1>. QED
  BY <1>6, <1>7, <1>8
-----------------------------------------------------------------------------
(* Gaps: a scan counts what it should.                                     *)

\* A loop over N things has its values: one for each thing done.
IsLoop(F, N, X) == F \in [1 .. N -> [X -> X]]
AreValues(f, F, N, X, b) == /\ f \in [0 .. N -> X] /\ f[0] = b
                            /\ \A k \in 1 .. N : f[k] = F[k][f[k - 1]]

LEMMA StepsExist ==
  ASSUME NEW X, NEW b \in X, NEW N \in Nat, NEW F, IsLoop(F, N, X)
  PROVE  \E f : AreValues(f, F, N, X, b)
<1>0. F \in [1 .. N -> [X -> X]]
  BY DEF IsLoop
<1>. DEFINE Up(n, f) == f[0] = b /\ \A k \in 1 .. n : f[k] = F[k][f[k - 1]]
            P(n) == \E f \in [0 .. n -> X] : Up(n, f)
            T == {n \in Nat : n <= N => P(n)}
<1>1. 0 \in T
  <2>. DEFINE f == [n \in 0 .. 0 |-> b]
  <2>1. f \in [0 .. 0 -> X] /\ f[0] = b /\ 1 .. 0 = {}
    OBVIOUS
  <2>. QED
    BY <2>1
<1>2. \A n \in T : n + 1 \in T
  <2>. HIDE DEF P
  <2>. SUFFICES ASSUME NEW n \in Nat, n + 1 <= N, P(n)
                PROVE  P(n + 1)
    OBVIOUS
  <2>. USE DEF P
  <2>1. n <= N /\ n + 1 \in 1 .. N
    OBVIOUS
  <2>2. PICK f \in [0 .. n -> X] : Up(n, f)
    OBVIOUS
  <2>. DEFINE g == [m \in 0 .. n + 1 |-> IF m = n + 1 THEN F[n + 1][f[n]] ELSE f[m]]
  <2>3. f[n] \in X /\ F[n + 1] \in [X -> X]
    BY <1>0, <2>1, <2>2
  <2>4. \A m \in 0 .. n + 1 : m # n + 1 => m \in 0 .. n
    BY <2>1
  <2>5. g \in [0 .. n + 1 -> X]
    BY <2>2, <2>3, <2>4
  <2>6. g[0] = b
    BY <2>1, <2>2
  <2>7. ASSUME NEW k \in 1 .. n + 1 PROVE g[k] = F[k][g[k - 1]]
    <3>1. k - 1 \in 0 .. n + 1 /\ k - 1 # n + 1 /\ k \in 0 .. n + 1
      BY <2>1
    <3>2. g[k - 1] = f[k - 1]
      BY <3>1
    <3>3. CASE k = n + 1
      <4>1. g[k] = F[n + 1][f[n]] /\ k - 1 = n
        BY <2>1, <3>1, <3>3
      <4>. QED
        BY <3>2, <3>3, <4>1
    <3>4. CASE k # n + 1
      <4>1. k \in 1 .. n /\ g[k] = f[k]
        BY <2>1, <3>1, <3>4
      <4>. QED
        BY <2>2, <3>2, <4>1
    <3>. QED
      BY <3>3, <3>4
  <2>. HIDE DEF g
  <2>. QED
    BY <2>5, <2>6, <2>7
<1>3. T \in SUBSET Nat
  OBVIOUS
<1>. HIDE DEF T, P
<1>4. N \in T
  BY <1>1, <1>2, <1>3, InductionOn
<1>. QED
  BY <1>4 DEF T, P, Up, AreValues

Counts == [Gap -> [type : GapType, frequency : Nat]]

LEMMA CountedTyped ==
  ASSUME NEW c \in Counts, NEW m \in Match
  PROVE  /\ Counted(c, m) \in Counts
         /\ KeyOf[m.phrase] \in Gap /\ m.type \in GapType
         /\ \A g \in Gap : g # KeyOf[m.phrase] => Counted(c, m)[g] = c[g]
         /\ LET g == KeyOf[m.phrase]
            IN  /\ Counted(c, m)[g].frequency = c[g].frequency + 1
                /\ Counted(c, m)[g].type = IF c[g].frequency = 0 THEN m.type ELSE c[g].type
<1>. DEFINE g == KeyOf[m.phrase]
<1>1. g \in Gap /\ m.type \in GapType
  BY GapAssumption DEF Match
<1>2. c[g] \in [type : GapType, frequency : Nat]
  BY <1>1 DEF Counts
<1>3. c[g].frequency \in Nat /\ c[g].type \in GapType
  BY <1>2
<1>4. CASE c[g].frequency = 0
  <2>. DEFINE r == [type |-> m.type, frequency |-> 1]
  <2>1. r \in [type : GapType, frequency : Nat] /\ r.type = m.type /\ r.frequency = 1
    BY <1>1
  <2>2. Counted(c, m) = [c EXCEPT ![g] = r]
    BY <1>4 DEF Counted
  <2>. HIDE DEF r, g
  <2>. QED
    BY <1>1, <1>4, <2>1, <2>2 DEF Counts, g
<1>5. CASE c[g].frequency # 0
  <2>. DEFINE r == [c[g] EXCEPT !.frequency = @ + 1]
  <2>1. r \in [type : GapType, frequency : Nat] /\ r.type = c[g].type
        /\ r.frequency = c[g].frequency + 1
    BY <1>2, <1>3
  <2>2. Counted(c, m) = [c EXCEPT ![g] = r]
    BY <1>5 DEF Counted
  <2>. HIDE DEF r, g
  <2>. QED
    BY <1>1, <1>5, <2>1, <2>2 DEF Counts, g
<1>. QED
  BY <1>4, <1>5

IsCounting(c, ms, f) ==
  f = [n \in 0 .. Len(ms) |-> IF n = 0 THEN c ELSE Counted(f[n - 1], ms[n])]

LEMMA CountingExists ==
  ASSUME NEW c \in Counts, NEW ms \in Seq(Match)
  PROVE  \E f : IsCounting(c, ms, f)
<1>0. PICK N \in Nat : N = Len(ms)
  OBVIOUS
<1>. DEFINE F == [k \in 1 .. N |-> [x \in Counts |-> Counted(x, ms[k])]]
<1>1. \A k \in 1 .. N : ms[k] \in Match
  BY <1>0
<1>2. \A k \in 1 .. N : [x \in Counts |-> Counted(x, ms[k])] \in [Counts -> Counts]
  BY <1>1, CountedTyped
<1>3. F \in [1 .. N -> [Counts -> Counts]]
  BY <1>2
<1>4. \A k \in 1 .. N, x \in Counts : F[k][x] = Counted(x, ms[k])
  OBVIOUS
<1>. HIDE DEF F
<1>5. PICK f : AreValues(f, F, N, Counts, c)
  <2>1. IsLoop(F, N, Counts)
    BY <1>3 DEF IsLoop
  <2>. QED
    BY <2>1, StepsExist
<1>6. \A n \in 0 .. N : f[n] = IF n = 0 THEN c ELSE Counted(f[n - 1], ms[n])
  <2>. SUFFICES ASSUME NEW n \in 0 .. N, n # 0 PROVE f[n] = Counted(f[n - 1], ms[n])
    BY <1>5 DEF AreValues
  <2>1. n \in 1 .. N /\ n - 1 \in 0 .. N
    BY <1>1
  <2>2. f[n - 1] \in Counts
    BY <1>5, <2>1 DEF AreValues
  <2>. QED
    BY <1>4, <1>5, <2>1, <2>2 DEF AreValues
<1>7. f = [n \in 0 .. Len(ms) |-> IF n = 0 THEN c ELSE Counted(f[n - 1], ms[n])]
  BY <1>0, <1>5, <1>6 DEF AreValues
<1>. QED
  BY <1>7 DEF IsCounting

\* What Read makes of an entry, pattern by pattern.
LEMMA ReadIs ==
  ASSUME NEW c \in Counts, NEW entry, entry.matches \in Seq(Match)
  PROVE  \E f : /\ f[0] = c
                /\ \A n \in 1 .. Len(entry.matches) :
                     f[n] = Counted(f[n - 1], entry.matches[n])
                /\ Read(c, entry) = IF entry.role = "user" THEN c ELSE f[Len(entry.matches)]
<1>. DEFINE ms == entry.matches
            f == CHOOSE g : IsCounting(c, ms, g)
<1>1. IsCounting(c, ms, f)
  <2>1. \E g : IsCounting(c, ms, g)
    BY CountingExists
  <2>. HIDE DEF IsCounting, ms
  <2>. QED
    BY <2>1
<1>2. Read(c, entry) = IF entry.role = "user" THEN c ELSE f[Len(ms)]
  BY DEF Read, IsCounting
<1>3. Len(ms) \in Nat
  OBVIOUS
<1>. HIDE DEF f
<1>4. \A n \in 0 .. Len(ms) : f[n] = IF n = 0 THEN c ELSE Counted(f[n - 1], ms[n])
  BY <1>1 DEF IsCounting
<1>5. \A n \in 1 .. Len(ms) : n \in 0 .. Len(ms) /\ n # 0
  BY <1>3
<1>6. f[0] = c /\ \A n \in 1 .. Len(ms) : f[n] = Counted(f[n - 1], ms[n])
  BY <1>3, <1>4, <1>5
<1>. QED
  BY <1>2, <1>6

Places == Nat \X Nat

IsNewest(p, P) == p \in P /\ \A q \in P : q[1] < p[1] \/ (q[1] = p[1] /\ q[2] >= p[2])

TypeAt(p) == messages[p[1]].matches[p[2]].type

\* A candidate counts the places in P, and is of the type of the newest.
ExactOf(r, P) == /\ P \in SUBSET Places /\ IsFiniteSet(P) /\ r.frequency = Cardinality(P)
                 /\ P # {} => \E p : IsNewest(p, P) /\ r.type = TypeAt(p)

Exact(c, S) == /\ c \in Counts /\ IsFiniteSet({g \in Gap : S[g] # {}})
               /\ \A g \in Gap : ExactOf(c[g], S[g])

LEMMA NewestIs ==
  ASSUME NEW P \in SUBSET Places, NEW p, IsNewest(p, P)
  PROVE  Newest(P) = p
<1>. DEFINE r == Newest(P)
<1>1. IsNewest(r, P)
  BY DEF Newest, IsNewest
<1>. HIDE DEF r
<1>2. /\ p \in Nat \X Nat /\ r \in Nat \X Nat
  BY <1>1 DEF IsNewest, Places
<1>3. /\ p[1] \in Nat /\ p[2] \in Nat /\ r[1] \in Nat /\ r[2] \in Nat
      /\ p = <<p[1], p[2]>> /\ r = <<r[1], r[2]>>
  BY <1>2
<1>4. /\ r[1] < p[1] \/ (r[1] = p[1] /\ r[2] >= p[2])
      /\ p[1] < r[1] \/ (p[1] = r[1] /\ p[2] >= r[2])
  BY <1>1 DEF IsNewest
<1>5. r[1] = p[1] /\ r[2] = p[2]
  BY <1>3, <1>4
<1>6. r = p
  BY <1>3, <1>5
<1>. QED
  BY <1>6 DEF r

LEMMA OneMore ==
  ASSUME NEW r, NEW P, ExactOf(r, P), NEW i \in Nat, NEW j \in Nat, <<i, j>> \notin P,
         \A p \in P : i < p[1] \/ (i = p[1] /\ j >= p[2]),
         NEW q, q.frequency = r.frequency + 1,
         q.type = IF r.frequency = 0 THEN TypeAt(<<i, j>>) ELSE r.type
  PROVE  ExactOf(q, P \cup {<<i, j>>})
<1>. PICK a : a = <<i, j>>
  OBVIOUS
<1>0. a \in Places /\ a[1] = i /\ a[2] = j /\ a \notin P
  BY DEF Places
<1>1. /\ P \in SUBSET Places /\ IsFiniteSet(P) /\ r.frequency = Cardinality(P)
      /\ P # {} => \E p : IsNewest(p, P) /\ r.type = TypeAt(p)
  BY DEF ExactOf
<1>2. IsFiniteSet(P \cup {a}) /\ Cardinality(P \cup {a}) = Cardinality(P) + 1
  BY <1>0, <1>1, FS_AddElement
<1>3. \E p : IsNewest(p, P \cup {a}) /\ q.type = TypeAt(p)
  <2>1. CASE P = {}
    <3>1. r.frequency = 0
      BY <1>1, <2>1, FS_EmptySet
    <3>2. IsNewest(a, P \cup {a})
      BY <1>0, <2>1 DEF IsNewest
    <3>. QED
      BY <3>1, <3>2
  <2>2. CASE P # {}
    <3>1. PICK p : IsNewest(p, P) /\ r.type = TypeAt(p)
      BY <1>1, <2>2
    <3>2. r.frequency # 0
      BY <1>1, <2>2, FS_EmptySet
    <3>3. p \in P /\ \A o \in P : o[1] < p[1] \/ (o[1] = p[1] /\ o[2] >= p[2])
      BY <3>1 DEF IsNewest
    <3>4. a[1] < p[1] \/ (a[1] = p[1] /\ a[2] >= p[2])
      BY <1>0, <3>3
    <3>5. IsNewest(p, P \cup {a})
      BY <3>3, <3>4 DEF IsNewest
    <3>. QED
      BY <3>1, <3>2, <3>5
  <2>. QED
    BY <2>1, <2>2
<1>4. P \cup {a} \in SUBSET Places /\ q.frequency = Cardinality(P \cup {a})
  BY <1>0, <1>1, <1>2
<1>. QED
  BY <1>2, <1>3, <1>4 DEF ExactOf

-----------------------------------------------------------------------------
Hears(i, j, g) == /\ i \in DOMAIN messages /\ i > Len(messages) - ScanLimit
                 /\ messages[i].role # "user" /\ j \in DOMAIN messages[i].matches
                 /\ KeyOf[messages[i].matches[j].phrase] = g

Heard == [role : {"user", "assistant", "tool"}, matches : Seq(Match)]

LEMMA MessagesAre ==
  ASSUME GapsTypeOK
  PROVE  /\ Len(messages) \in Nat /\ DOMAIN messages = 1 .. Len(messages)
         /\ \A i \in DOMAIN messages :
              /\ messages[i].matches \in Seq(Match)
              /\ DOMAIN messages[i].matches = 1 .. Len(messages[i].matches)
              /\ Len(messages[i].matches) \in Nat
              /\ \A j \in DOMAIN messages[i].matches : messages[i].matches[j] \in Match
<1>1. messages \in Seq(Heard)
  BY DEF GapsTypeOK, Heard
<1>2. Len(messages) \in Nat /\ DOMAIN messages = 1 .. Len(messages)
      /\ \A i \in DOMAIN messages : messages[i] \in Heard
  BY <1>1
<1>3. \A i \in DOMAIN messages : messages[i].matches \in Seq(Match)
  BY <1>2 DEF Heard
<1>4. ASSUME NEW i \in DOMAIN messages
      PROVE  /\ DOMAIN messages[i].matches = 1 .. Len(messages[i].matches)
             /\ Len(messages[i].matches) \in Nat
             /\ \A j \in DOMAIN messages[i].matches : messages[i].matches[j] \in Match
  <2>1. PICK ms : ms = messages[i].matches
    OBVIOUS
  <2>2. ms \in Seq(Match)
    BY <1>3, <2>1
  <2>3. DOMAIN ms = 1 .. Len(ms) /\ Len(ms) \in Nat /\ \A j \in DOMAIN ms : ms[j] \in Match
    BY <2>2
  <2>. QED
    BY <2>1, <2>3
<1>. QED
  BY <1>2, <1>3, <1>4

LEMMA TellingIs ==
  ASSUME GapsTypeOK, NEW g
  PROVE  /\ Telling(g) \in SUBSET Places
         /\ \A i, j : <<i, j>> \in Telling(g) <=> Hears(i, j, g)
<1>. DEFINE I == {k \in DOMAIN messages : /\ k > Len(messages) - ScanLimit
                                          /\ messages[k].role # "user"}
            J(i) == {k \in DOMAIN messages[i].matches :
                       KeyOf[messages[i].matches[k].phrase] = g}
<1>1. Telling(g) = UNION {{<<i, j>> : j \in J(i)} : i \in I}
  BY DEF Telling
<1>2. \A i, j : i \in I /\ j \in J(i) <=> Hears(i, j, g)
  BY DEF Hears
<1>3. \A i, j : i \in I /\ j \in J(i) => i \in Nat /\ j \in Nat
  BY MessagesAre
<1>. HIDE DEF I, J
<1>4. \A p : p \in Telling(g) <=> \E i, j : i \in I /\ j \in J(i) /\ p = <<i, j>>
  BY <1>1
<1>5. \A i, j : <<i, j>> \in Telling(g) <=> i \in I /\ j \in J(i)
  <2>. SUFFICES ASSUME NEW i, NEW j, <<i, j>> \in Telling(g) PROVE i \in I /\ j \in J(i)
    BY <1>4
  <2>1. PICK k, l : k \in I /\ l \in J(k) /\ <<i, j>> = <<k, l>>
    BY <1>4
  <2>2. i = k /\ j = l
    BY <2>1
  <2>. QED
    BY <2>1, <2>2
<1>6. Telling(g) \in SUBSET Places
  BY <1>3, <1>4 DEF Places
<1>. QED
  BY <1>2, <1>5, <1>6

\* The places of g a scan has come to when it has done with k messages, and with l of
\* the patterns of the next.
Come(k, l, g) ==
  {p \in Telling(g) : \/ p[1] > Len(messages) - k
                      \/ p[1] = Len(messages) - k /\ p[2] <= l}

Part(k, l) == [g \in Gap |-> Come(k, l, g)]

LEMMA ComeIs ==
  ASSUME GapsTypeOK, NEW g, NEW k, NEW l
  PROVE  /\ Come(k, l, g) \in SUBSET Places
         /\ \A i, j : <<i, j>> \in Come(k, l, g) <=>
              /\ Hears(i, j, g)
              /\ i > Len(messages) - k \/ (i = Len(messages) - k /\ j <= l)
BY TellingIs DEF Come

LEMMA SamePlaces ==
  ASSUME NEW P \in SUBSET Places, NEW Q \in SUBSET Places,
         \A i, j \in Nat : <<i, j>> \in P <=> <<i, j>> \in Q
  PROVE  P = Q
BY DEF Places

LEMMA EntriesAre ==
  ASSUME GapsTypeOK
  PROVE  /\ Len(Entries) \in Nat /\ Len(Entries) <= Len(messages)
         /\ Len(Entries) <= ScanLimit
         /\ Len(Entries) = Len(messages) \/ Len(Entries) = ScanLimit
         /\ \A k \in 1 .. Len(Entries) : Entries[k] = messages[Len(messages) + 1 - k]
<1>. DEFINE n == IF Len(messages) < ScanLimit THEN Len(messages) ELSE ScanLimit
<1>1. Len(messages) \in Nat /\ ScanLimit \in Nat
  BY MessagesAre, GapAssumption
<1>2. n \in Nat /\ n <= Len(messages) /\ n <= ScanLimit /\ (n = Len(messages) \/ n = ScanLimit)
  BY <1>1
<1>3. Entries = [i \in 1 .. n |-> messages[Len(messages) + 1 - i]]
  BY DEF Entries
<1>. HIDE DEF n
<1>4. Len(Entries) = n
  BY <1>2, <1>3
<1>. QED
  BY <1>2, <1>3, <1>4

\* The next pattern of a message that no user wrote is counted, and nothing else is.
LEMMA PatternCounted ==
  ASSUME GapsTypeOK, NEW k \in Nat, k < Len(messages), k < ScanLimit, NEW l \in Nat,
         NEW i, i = Len(messages) - k, messages[i].role # "user",
         NEW j, j = l + 1, j \in DOMAIN messages[i].matches, NEW c, Exact(c, Part(k, l))
  PROVE  Exact(Counted(c, messages[i].matches[j]), Part(k, j))
<1>. DEFINE m == messages[i].matches[j]
            g == KeyOf[m.phrase]
<1>1. /\ i \in Nat /\ j \in Nat /\ i \in DOMAIN messages /\ m \in Match
      /\ Len(messages) \in Nat /\ ScanLimit \in Nat /\ i > Len(messages) - ScanLimit
  BY MessagesAre, GapAssumption
<1>2. m.type = TypeAt(<<i, j>>)
  BY DEF TypeAt
<1>3. \A h : Hears(i, j, h) <=> h = g
  BY <1>1 DEF Hears
<1>. HIDE DEF m
<1>4. c \in Counts /\ IsFiniteSet({h \in Gap : Part(k, l)[h] # {}})
      /\ \A h \in Gap : Part(k, l)[h] = Come(k, l, h) /\ ExactOf(c[h], Come(k, l, h))
  BY DEF Exact, Part
<1>5. /\ Counted(c, m) \in Counts /\ g \in Gap
      /\ \A h \in Gap : h # g => Counted(c, m)[h] = c[h]
      /\ Counted(c, m)[g].frequency = c[g].frequency + 1
      /\ Counted(c, m)[g].type = IF c[g].frequency = 0 THEN m.type ELSE c[g].type
  BY <1>1, <1>4, CountedTyped
<1>. HIDE DEF g
<1>6. ASSUME NEW h \in Gap
      PROVE  Come(k, j, h) = IF h = g THEN Come(k, l, h) \cup {<<i, j>>} ELSE Come(k, l, h)
  <2>. DEFINE P == Come(k, j, h)
              Q == IF h = g THEN Come(k, l, h) \cup {<<i, j>>} ELSE Come(k, l, h)
  <2>1. P \in SUBSET Places /\ Q \in SUBSET Places
    BY <1>1, ComeIs DEF Places
  <2>2. ASSUME NEW a \in Nat, NEW b \in Nat PROVE <<a, b>> \in P <=> <<a, b>> \in Q
    <3>1. <<a, b>> \in P <=> /\ Hears(a, b, h)
                             /\ a > i \/ (a = i /\ b <= l + 1)
      BY ComeIs
    <3>2. <<a, b>> \in Come(k, l, h) <=> /\ Hears(a, b, h)
                                         /\ a > i \/ (a = i /\ b <= l)
      BY ComeIs
    <3>3. <<a, b>> = <<i, j>> <=> a = i /\ b = j
      OBVIOUS
    <3>4. b <= l + 1 <=> b <= l \/ b = j
      OBVIOUS
    <3>5. a = i /\ b = j => (Hears(a, b, h) <=> h = g)
      BY <1>3
    <3>6. <<a, b>> \in Q <=> \/ <<a, b>> \in Come(k, l, h)
                             \/ h = g /\ <<a, b>> = <<i, j>>
      OBVIOUS
    <3>. HIDE DEF P, Q
    <3>. QED
      BY <3>1, <3>2, <3>3, <3>4, <3>5, <3>6
  <2>. HIDE DEF P, Q
  <2>3. P = Q
    BY <2>1, <2>2, SamePlaces
  <2>. QED
    BY <2>3 DEF P, Q
<1>7. ExactOf(Counted(c, m)[g], Come(k, j, g))
  <2>1. PICK r, q, P : r = c[g] /\ q = Counted(c, m)[g] /\ P = Come(k, l, g)
    OBVIOUS
  <2>2. <<i, j>> \notin P
    BY <1>1, <2>1, ComeIs
  <2>3. \A p \in P : i < p[1] \/ (i = p[1] /\ j >= p[2])
    <3>1. P \in SUBSET Places
      BY <2>1, ComeIs
    <3>2. \A a, b \in Nat : <<a, b>> \in P => i < a \/ (i = a /\ j >= b)
      BY <1>1, <2>1, ComeIs
    <3>. QED
      BY <3>1, <3>2 DEF Places
  <2>4. ExactOf(r, P)
    BY <1>4, <1>5, <2>1
  <2>5. q.frequency = r.frequency + 1
        /\ q.type = IF r.frequency = 0 THEN TypeAt(<<i, j>>) ELSE r.type
    BY <1>2, <1>5, <2>1
  <2>6. ExactOf(q, P \cup {<<i, j>>})
    BY <1>1, <2>2, <2>3, <2>4, <2>5, OneMore
  <2>7. Come(k, j, g) = P \cup {<<i, j>>}
    BY <1>5, <1>6, <2>1
  <2>. QED
    BY <2>1, <2>6, <2>7
<1>8. \A h \in Gap : ExactOf(Counted(c, m)[h], Come(k, j, h))
  BY <1>4, <1>5, <1>6, <1>7
<1>9. IsFiniteSet({h \in Gap : Part(k, j)[h] # {}})
  <2>. DEFINE A == {h \in Gap : Part(k, l)[h] # {}}
              B == {h \in Gap : Part(k, j)[h] # {}}
  <2>1. IsFiniteSet(A \cup {g})
    BY <1>4, FS_AddElement
  <2>2. B \subseteq A \cup {g}
    BY <1>4, <1>6 DEF Part
  <2>. HIDE DEF A, B
  <2>3. IsFiniteSet(B)
    BY <2>1, <2>2, FS_Subset
  <2>. QED
    BY <2>3 DEF B
<1>10. \A h \in Gap : Part(k, j)[h] = Come(k, j, h)
  BY DEF Part
<1>11. Exact(Counted(c, m), Part(k, j))
  BY <1>5, <1>8, <1>9, <1>10 DEF Exact
<1>. QED
  BY <1>11 DEF m

\* A message is done with: the next begins.
LEMMA MessageDone ==
  ASSUME GapsTypeOK, NEW k \in Nat, k < Len(messages),
         NEW i, i = Len(messages) - k, NEW l \in Nat,
         messages[i].role # "user" => l = Len(messages[i].matches)
  PROVE  Part(k, l) = Part(k + 1, 0)
<1>1. /\ i \in DOMAIN messages /\ Len(messages) \in Nat /\ i \in Nat
      /\ DOMAIN messages[i].matches = 1 .. Len(messages[i].matches)
      /\ Len(messages[i].matches) \in Nat
  BY MessagesAre
<1>2. ASSUME NEW g PROVE Come(k, l, g) = Come(k + 1, 0, g)
  <2>1. Come(k, l, g) \in SUBSET Places /\ Come(k + 1, 0, g) \in SUBSET Places
    BY ComeIs
  <2>2. ASSUME NEW a \in Nat, NEW b \in Nat
        PROVE  <<a, b>> \in Come(k, l, g) <=> <<a, b>> \in Come(k + 1, 0, g)
    <3>1. <<a, b>> \in Come(k, l, g) <=> /\ Hears(a, b, g)
                                         /\ a > i \/ (a = i /\ b <= l)
      BY ComeIs
    <3>2. PICK h : h = k + 1
      OBVIOUS
    <3>3. <<a, b>> \in Come(h, 0, g) <=> /\ Hears(a, b, g)
                                         /\ \/ a > Len(messages) - h
                                            \/ a = Len(messages) - h /\ b <= 0
      BY ComeIs
    <3>4. Hears(a, b, g) => b >= 1
      BY MessagesAre DEF Hears
    <3>5. Hears(a, b, g) /\ a = i => b <= l
      BY <1>1 DEF Hears
    <3>6. Len(messages) - h = i - 1
      BY <1>1, <3>2
    <3>7. a > i - 1 <=> a > i \/ a = i
      BY <1>1
    <3>. QED
      BY <3>1, <3>2, <3>3, <3>4, <3>5, <3>6, <3>7
  <2>3. PICK P, Q : P = Come(k, l, g) /\ Q = Come(k + 1, 0, g)
    OBVIOUS
  <2>4. P = Q
    BY <2>1, <2>2, <2>3, SamePlaces
  <2>. QED
    BY <2>3, <2>4
<1>. QED
  BY <1>2 DEF Part

\* A scan that is done with k messages, and reads the next.
LEMMA EntryRead ==
  ASSUME GapsTypeOK, NEW k \in Nat, k < Len(messages), k < ScanLimit,
         NEW i, i = Len(messages) - k, NEW c, Exact(c, Part(k, 0))
  PROVE  Exact(Read(c, messages[i]), Part(k + 1, 0))
<1>. PICK entry : entry = messages[i]
  OBVIOUS
<1>1. /\ i \in DOMAIN messages /\ i \in Nat /\ entry.matches \in Seq(Match)
      /\ DOMAIN entry.matches = 1 .. Len(entry.matches) /\ Len(entry.matches) \in Nat
  BY MessagesAre
<1>2. c \in Counts
  BY DEF Exact
<1>3. PICK f : /\ f[0] = c
               /\ \A n \in 1 .. Len(entry.matches) :
                    f[n] = Counted(f[n - 1], entry.matches[n])
               /\ Read(c, entry) = IF entry.role = "user" THEN c ELSE f[Len(entry.matches)]
  BY <1>1, <1>2, ReadIs
<1>4. CASE entry.role = "user"
  <2>1. Part(k, 0) = Part(k + 1, 0)
    BY <1>4, MessageDone
  <2>. QED
    BY <1>3, <1>4, <2>1
<1>5. CASE entry.role # "user"
  <2>. DEFINE N == Len(entry.matches)
              T == {n \in Nat : n <= N => Exact(f[n], Part(k, n))}
  <2>1. 0 \in T
    BY <1>3
  <2>2. \A n \in T : n + 1 \in T
    <3>. SUFFICES ASSUME NEW n \in Nat, n + 1 <= N, Exact(f[n], Part(k, n))
                  PROVE  Exact(f[n + 1], Part(k, n + 1))
      BY <1>1
    <3>1. PICK j : j = n + 1
      OBVIOUS
    <3>2. j \in DOMAIN messages[i].matches /\ j \in 1 .. N /\ j - 1 = n
      BY <1>1, <3>1
    <3>3. Exact(Counted(f[n], messages[i].matches[j]), Part(k, j))
      BY <1>5, <3>1, <3>2, PatternCounted
    <3>4. f[j] = Counted(f[n], messages[i].matches[j])
      BY <1>3, <3>2
    <3>. QED
      BY <3>1, <3>3, <3>4
  <2>3. T \in SUBSET Nat /\ N \in Nat
    BY <1>1
  <2>. HIDE DEF T
  <2>4. T = Nat
    BY <2>1, <2>2, <2>3, InductionOn
  <2>5. Exact(f[N], Part(k, N))
    BY <2>3, <2>4 DEF T
  <2>6. Part(k, N) = Part(k + 1, 0)
    BY <2>3, MessageDone
  <2>. QED
    BY <1>3, <1>5, <2>5, <2>6
<1>. QED
  BY <1>4, <1>5

LEMMA ReadTyped ==
  ASSUME NEW c \in Counts, NEW entry, entry.matches \in Seq(Match)
  PROVE  Read(c, entry) \in Counts
<1>1. PICK f : /\ f[0] = c
               /\ \A n \in 1 .. Len(entry.matches) :
                    f[n] = Counted(f[n - 1], entry.matches[n])
               /\ Read(c, entry) = IF entry.role = "user" THEN c ELSE f[Len(entry.matches)]
  BY ReadIs
<1>. DEFINE N == Len(entry.matches)
            T == {n \in Nat : n <= N => f[n] \in Counts}
<1>2. N \in Nat /\ \A n \in 1 .. N : entry.matches[n] \in Match
  OBVIOUS
<1>3. 0 \in T
  BY <1>1
<1>4. \A n \in T : n + 1 \in T
  <2>. SUFFICES ASSUME NEW n \in Nat, n + 1 <= N, f[n] \in Counts PROVE f[n + 1] \in Counts
    BY <1>2
  <2>1. n + 1 \in 1 .. N /\ n + 1 - 1 = n
    BY <1>2
  <2>2. f[n + 1] = Counted(f[n], entry.matches[n + 1]) /\ entry.matches[n + 1] \in Match
    BY <1>1, <1>2, <2>1
  <2>. QED
    BY <2>2, CountedTyped
<1>5. T \in SUBSET Nat
  OBVIOUS
<1>. HIDE DEF T
<1>6. T = Nat
  BY <1>3, <1>4, <1>5, InductionOn
<1>7. f[N] \in Counts
  BY <1>2, <1>6 DEF T
<1>. QED
  BY <1>1, <1>7

IsReading(es, f) ==
  f = [n \in 0 .. Len(es) |-> IF n = 0 THEN NoCandidates ELSE Read(f[n - 1], es[n])]

LEMMA NoCandidatesTyped == NoCandidates \in Counts
  BY DEF NoCandidates, Counts, GapType

LEMMA ReadingExists ==
  ASSUME GapsTypeOK
  PROVE  \E f : IsReading(Entries, f)
<1>0. PICK N \in Nat : N = Len(Entries)
  BY EntriesAre
<1>. DEFINE F == [k \in 1 .. N |-> [x \in Counts |-> Read(x, Entries[k])]]
<1>1. \A k \in 1 .. N : Entries[k].matches \in Seq(Match)
  <2>. SUFFICES ASSUME NEW k \in 1 .. N PROVE Entries[k].matches \in Seq(Match)
    OBVIOUS
  <2>1. Entries[k] = messages[Len(messages) + 1 - k]
    BY <1>0, EntriesAre
  <2>2. Len(messages) + 1 - k \in DOMAIN messages
    <3>1. N <= Len(messages) /\ Len(messages) \in Nat
      BY <1>0, EntriesAre, MessagesAre
    <3>2. Len(messages) + 1 - k \in 1 .. Len(messages)
      BY <1>0, <3>1
    <3>. QED
      BY <3>2, MessagesAre
  <2>. QED
    BY <2>1, <2>2, MessagesAre
<1>2. \A k \in 1 .. N : [x \in Counts |-> Read(x, Entries[k])] \in [Counts -> Counts]
  BY <1>1, ReadTyped
<1>3. F \in [1 .. N -> [Counts -> Counts]]
  BY <1>2
<1>4. \A k \in 1 .. N, x \in Counts : F[k][x] = Read(x, Entries[k])
  OBVIOUS
<1>. HIDE DEF F
<1>5. PICK f : AreValues(f, F, N, Counts, NoCandidates)
  <2>1. IsLoop(F, N, Counts)
    BY <1>3 DEF IsLoop
  <2>. QED
    BY <2>1, NoCandidatesTyped, StepsExist
<1>6. \A n \in 0 .. N : f[n] = IF n = 0 THEN NoCandidates ELSE Read(f[n - 1], Entries[n])
  <2>. SUFFICES ASSUME NEW n \in 0 .. N, n # 0 PROVE f[n] = Read(f[n - 1], Entries[n])
    BY <1>5 DEF AreValues
  <2>1. n \in 1 .. N /\ n - 1 \in 0 .. N
    BY <1>0
  <2>2. f[n - 1] \in Counts
    BY <1>5, <2>1 DEF AreValues
  <2>. QED
    BY <1>4, <1>5, <2>1, <2>2 DEF AreValues
<1>7. f = [n \in 0 .. Len(Entries) |->
             IF n = 0 THEN NoCandidates ELSE Read(f[n - 1], Entries[n])]
  BY <1>0, <1>5, <1>6 DEF AreValues
<1>. QED
  BY <1>7 DEF IsReading

\* A scan counts, for each gap, the patterns that tell of it, and knows the newest.
LEMMA CandidatesAre ==
  ASSUME GapsTypeOK
  PROVE  /\ Candidates \in Counts /\ IsFiniteSet({g \in Gap : Telling(g) # {}})
         /\ \A g \in Gap : ExactOf(Candidates[g], Telling(g))
<1>. DEFINE f == CHOOSE h : IsReading(Entries, h)
            N == Len(Entries)
<1>1. IsReading(Entries, f)
  <2>1. \E h : IsReading(Entries, h)
    BY ReadingExists
  <2>. HIDE DEF IsReading
  <2>. QED
    BY <2>1
<1>2. Candidates = f[N]
  BY DEF Candidates, IsReading
<1>. HIDE DEF f
<1>3. N \in Nat /\ Len(messages) \in Nat /\ N <= Len(messages) /\ N <= ScanLimit
      /\ ScanLimit \in Nat
  BY EntriesAre, MessagesAre, GapAssumption
<1>4. \A n \in 0 .. N : f[n] = IF n = 0 THEN NoCandidates ELSE Read(f[n - 1], Entries[n])
  BY <1>1 DEF IsReading
<1>. DEFINE T == {n \in Nat : n <= N => Exact(f[n], Part(n, 0))}
<1>5. 0 \in T
  <2>1. f[0] = NoCandidates
    BY <1>3, <1>4
  <2>2. ASSUME NEW g \in Gap PROVE Come(0, 0, g) = {}
    <3>1. \A i, j : ~Hears(i, j, g) \/ (i <= Len(messages) /\ j > 0)
      BY MessagesAre DEF Hears
    <3>2. \A i, j \in Nat : <<i, j>> \notin Come(0, 0, g)
      <4>. SUFFICES ASSUME NEW i \in Nat, NEW j \in Nat, <<i, j>> \in Come(0, 0, g)
                    PROVE  FALSE
        OBVIOUS
      <4>1. /\ Hears(i, j, g)
            /\ i > Len(messages) - 0 \/ (i = Len(messages) - 0 /\ j <= 0)
        BY ComeIs
      <4>2. i <= Len(messages) /\ j > 0
        BY <3>1, <4>1
      <4>. QED
        BY <1>3, <4>1, <4>2
    <3>3. Come(0, 0, g) \in SUBSET Places
      BY ComeIs
    <3>. QED
      BY <3>2, <3>3 DEF Places
  <2>3. ASSUME NEW g \in Gap PROVE ExactOf(NoCandidates[g], Come(0, 0, g))
    BY <2>2, FS_EmptySet DEF ExactOf, NoCandidates
  <2>4. IsFiniteSet({g \in Gap : Part(0, 0)[g] # {}})
    <3>1. {g \in Gap : Part(0, 0)[g] # {}} = {}
      BY <2>2 DEF Part
    <3>. QED
      BY <3>1, FS_EmptySet
  <2>. QED
    BY <2>1, <2>3, <2>4, NoCandidatesTyped DEF Exact, Part
<1>6. \A n \in T : n + 1 \in T
  <2>. SUFFICES ASSUME NEW n \in Nat, n + 1 <= N, Exact(f[n], Part(n, 0))
                PROVE  Exact(f[n + 1], Part(n + 1, 0))
    BY <1>3
  <2>1. n + 1 \in 0 .. N /\ n + 1 # 0 /\ n + 1 - 1 = n /\ n + 1 \in 1 .. N
    BY <1>3
  <2>2. f[n + 1] = Read(f[n], Entries[n + 1])
    BY <1>4, <2>1
  <2>3. PICK i : i = Len(messages) - n
    OBVIOUS
  <2>4. Entries[n + 1] = messages[i]
    <3>1. Entries[n + 1] = messages[Len(messages) + 1 - (n + 1)]
      BY <2>1, EntriesAre
    <3>2. Len(messages) + 1 - (n + 1) = i
      BY <1>3, <2>3
    <3>. QED
      BY <3>1, <3>2
  <2>5. n < Len(messages) /\ n < ScanLimit
    BY <1>3
  <2>6. Exact(Read(f[n], messages[i]), Part(n + 1, 0))
    BY <2>3, <2>5, EntryRead
  <2>. QED
    BY <2>2, <2>4, <2>6
<1>7. T \in SUBSET Nat
  OBVIOUS
<1>. HIDE DEF T, N
<1>8. T = Nat
  BY <1>5, <1>6, <1>7, InductionOn
<1>9. Exact(Candidates, Part(N, 0))
  BY <1>2, <1>3, <1>8 DEF T
<1>10. ASSUME NEW g \in Gap PROVE Come(N, 0, g) = Telling(g)
  <2>1. N = Len(messages) \/ N = ScanLimit
    BY EntriesAre DEF N
  <2>2. \A i, j : Hears(i, j, g) => i > Len(messages) - N
    <3>. SUFFICES ASSUME NEW i, NEW j, Hears(i, j, g) PROVE i > Len(messages) - N
      OBVIOUS
    <3>1. i \in 1 .. Len(messages) /\ i > Len(messages) - ScanLimit
      BY MessagesAre DEF Hears
    <3>. QED
      BY <1>3, <2>1, <3>1
  <2>3. Come(N, 0, g) \in SUBSET Places /\ Telling(g) \in SUBSET Places
    BY ComeIs, TellingIs
  <2>4. \A i, j \in Nat : <<i, j>> \in Come(N, 0, g) <=> <<i, j>> \in Telling(g)
    BY <2>2, ComeIs, TellingIs
  <2>5. PICK P, Q : P = Come(N, 0, g) /\ Q = Telling(g)
    OBVIOUS
  <2>6. P = Q
    BY <2>3, <2>4, <2>5, SamePlaces
  <2>. QED
    BY <2>5, <2>6
<1>11. \A g \in Gap : Part(N, 0)[g] = Telling(g)
  BY <1>10 DEF Part
<1>12. {g \in Gap : Part(N, 0)[g] # {}} = {g \in Gap : Telling(g) # {}}
  BY <1>11
<1>. QED
  BY <1>9, <1>11, <1>12 DEF Exact

-----------------------------------------------------------------------------
(* The sort. *)

Descending(s) == \A i, j \in DOMAIN s : i < j => s[i].priority >= s[j].priority

Ahead(sorted, f, n) == /\ n \in 0 .. Len(sorted)
                       /\ n > 0 => sorted[n].priority >= f.priority
                       /\ \A i \in n + 1 .. Len(sorted) : sorted[i].priority < f.priority

LEMMA AheadExists ==
  ASSUME NEW s \in Seq(Found), NEW f \in Found
  PROVE  \E n : Ahead(s, f, n)
<1>. DEFINE T == {n \in 0 .. Len(s) : n = 0 \/ s[n].priority >= f.priority}
<1>1. Len(s) \in Nat /\ 0 \in T /\ T \in SUBSET (0 .. Len(s))
  OBVIOUS
<1>2. PICK N \in Nat : N = Len(s)
  BY <1>1
<1>3. \A i \in 1 .. N : s[i].priority \in Nat
  <2>1. \A i \in 1 .. N : s[i] \in Found
    BY <1>2
  <2>. QED
    BY <2>1 DEF Found
<1>4. f.priority \in Nat
  BY DEF Found
<1>5. \A n \in T : n \in 0 .. N /\ (n = 0 \/ s[n].priority >= f.priority)
  BY <1>2
<1>6. \A n \in 1 .. N : n \notin T => ~(s[n].priority >= f.priority)
  BY <1>2
<1>7. T \in SUBSET (0 .. N) /\ T # {}
  BY <1>1, <1>2
<1>. HIDE DEF T
<1>8. PICK n \in T : \A m \in T : m <= n
  BY <1>7, GreatestNumber
<1>9. \A i \in n + 1 .. N : i \in 1 .. N /\ i \notin T
  BY <1>2, <1>5, <1>8
<1>10. \A i \in n + 1 .. N : s[i].priority < f.priority
  BY <1>3, <1>4, <1>6, <1>9
<1>. QED
  BY <1>2, <1>5, <1>8, <1>10 DEF Ahead

LEMMA InsertIs ==
  ASSUME NEW s \in Seq(Found), NEW f \in Found
  PROVE  \E n : /\ Ahead(s, f, n)
                /\ Insert(s, f) = [i \in 1 .. Len(s) + 1 |->
                                     IF i <= n THEN s[i]
                                     ELSE IF i = n + 1 THEN f ELSE s[i - 1]]
<1>. DEFINE n == CHOOSE n \in 0 .. Len(s) :
                   /\ n > 0 => s[n].priority >= f.priority
                   /\ \A i \in n + 1 .. Len(s) : s[i].priority < f.priority
<1>1. Ahead(s, f, n)
  BY AheadExists DEF Ahead
<1>2. Insert(s, f) = [i \in 1 .. Len(s) + 1 |->
                        IF i <= n THEN s[i] ELSE IF i = n + 1 THEN f ELSE s[i - 1]]
  BY DEF Insert
<1>. QED
  BY <1>1, <1>2

LEMMA InsertTyped ==
  ASSUME NEW s \in Seq(Found), NEW f \in Found
  PROVE  Insert(s, f) \in Seq(Found) /\ Len(Insert(s, f)) = Len(s) + 1
<1>0. PICK N \in Nat : N = Len(s)
  OBVIOUS
<1>1. PICK n : /\ Ahead(s, f, n)
               /\ Insert(s, f) = [i \in 1 .. N + 1 |->
                                    IF i <= n THEN s[i]
                                    ELSE IF i = n + 1 THEN f ELSE s[i - 1]]
  BY <1>0, InsertIs
<1>2. n \in 0 .. N
  BY <1>0, <1>1 DEF Ahead
<1>3. \A i \in 1 .. N : s[i] \in Found
  BY <1>0
<1>4. ASSUME NEW i \in 1 .. N + 1
      PROVE  (IF i <= n THEN s[i] ELSE IF i = n + 1 THEN f ELSE s[i - 1]) \in Found
  <2>1. i <= n => i \in 1 .. N
    BY <1>2
  <2>2. ~(i <= n) /\ i # n + 1 => i - 1 \in 1 .. N
    BY <1>2
  <2>. QED
    BY <1>3, <2>1, <2>2
<1>5. Insert(s, f) \in [1 .. N + 1 -> Found]
  BY <1>1, <1>4
<1>. QED
  BY <1>0, <1>5

\* s holds the first n of what was found, in their order.
Ranked(s, found, n) ==
  /\ s \in Seq(Found) /\ Len(s) = n /\ Descending(s)
  /\ \A i \in 1 .. n : \E j \in 1 .. n : s[i] = found[j]
  /\ \A j \in 1 .. n : \E i \in 1 .. n : s[i] = found[j]
  /\ \A i, j \in 1 .. n : i < j => s[i].gap # s[j].gap

LEMMA InsertRanks ==
  ASSUME NEW found \in Seq(Found), NEW n \in Nat, n < Len(found), NEW s, Ranked(s, found, n),
         \A i, j \in 1 .. Len(found) : i # j => found[i].gap # found[j].gap
  PROVE  Ranked(Insert(s, found[n + 1]), found, n + 1)
<1>. PICK l \in Nat : l = n + 1
  OBVIOUS
<1>. PICK f : f = found[l]
  OBVIOUS
<1>1. Len(found) \in Nat /\ l \in 1 .. Len(found) /\ f \in Found
  OBVIOUS
<1>2. s \in Seq(Found) /\ Len(s) = n /\ DOMAIN s = 1 .. n
  BY DEF Ranked
<1>3. PICK a : /\ Ahead(s, f, a)
               /\ Insert(s, f) = [i \in 1 .. Len(s) + 1 |->
                                    IF i <= a THEN s[i]
                                    ELSE IF i = a + 1 THEN f ELSE s[i - 1]]
  BY <1>1, <1>2, InsertIs
<1>. PICK t : t = Insert(s, f)
  OBVIOUS
<1>4. t \in Seq(Found) /\ Len(t) = l /\ DOMAIN t = 1 .. l
  <2>1. t \in Seq(Found) /\ Len(t) = Len(s) + 1
    BY <1>1, <1>2, InsertTyped
  <2>. QED
    BY <1>2, <2>1
<1>5. a \in 0 .. n /\ (a > 0 => s[a].priority >= f.priority)
  BY <1>2, <1>3 DEF Ahead
<1>6. \A i \in a + 1 .. n : s[i].priority < f.priority
  BY <1>2, <1>3 DEF Ahead
<1>7. \A i \in 1 .. l : t[i] = IF i <= a THEN s[i] ELSE IF i = a + 1 THEN f ELSE s[i - 1]
  <2>1. 1 .. l = 1 .. Len(s) + 1
    BY <1>2
  <2>. QED
    BY <1>3, <2>1
<1>8. /\ \A i \in 1 .. l : i <= a => i \in 1 .. n /\ t[i] = s[i]
      /\ a + 1 \in 1 .. l /\ t[a + 1] = f
      /\ \A i \in 1 .. l : i > a + 1 => i - 1 \in a + 1 .. n /\ i - 1 \in 1 .. n /\ t[i] = s[i - 1]
  <2>1. \A i \in 1 .. l : i <= a => i \in 1 .. n
    BY <1>5
  <2>2. a + 1 \in 1 .. l /\ ~(a + 1 <= a)
    BY <1>5
  <2>3. \A i \in 1 .. l : i > a + 1 => /\ i - 1 \in a + 1 .. n /\ i - 1 \in 1 .. n
                                       /\ ~(i <= a) /\ i # a + 1
    BY <1>5
  <2>. QED
    BY <1>7, <2>1, <2>2, <2>3
<1>9. /\ \A i \in 1 .. n : \E j \in 1 .. n : s[i] = found[j]
      /\ \A j \in 1 .. n : \E i \in 1 .. n : s[i] = found[j]
      /\ \A i, j \in 1 .. n : i < j => s[i].gap # s[j].gap
      /\ \A i, j \in 1 .. n : i < j => s[i].priority >= s[j].priority
  BY <1>2 DEF Ranked, Descending
<1>10. f.priority \in Nat /\ \A i \in 1 .. n : s[i].priority \in Nat
  <2>1. \A i \in 1 .. n : s[i] \in Found
    BY <1>2
  <2>. QED
    BY <1>1, <2>1 DEF Found
<1>11. \A i \in 1 .. l : i <= a \/ i = a + 1 \/ i > a + 1
  BY <1>5
<1>12. \A i \in 1 .. n : s[i].gap # f.gap
  <2>. SUFFICES ASSUME NEW i \in 1 .. n PROVE s[i].gap # f.gap
    OBVIOUS
  <2>1. PICK j \in 1 .. n : s[i] = found[j]
    BY <1>9
  <2>2. j \in 1 .. Len(found) /\ j # l
    BY <1>1
  <2>. QED
    BY <1>1, <2>1, <2>2
<1>13. ASSUME NEW i \in 1 .. l, NEW j \in 1 .. l, i < j
       PROVE  t[i].priority >= t[j].priority /\ t[i].gap # t[j].gap
  <2>1. CASE j <= a
    <3>1. i <= a
      BY <1>5, <1>13, <2>1
    <3>2. /\ i \in 1 .. n /\ t[i] = s[i]
          /\ j \in 1 .. n /\ t[j] = s[j]
      BY <1>8, <2>1, <3>1
    <3>. QED
      BY <1>9, <1>13, <3>2
  <2>2. CASE j = a + 1
    <3>1. i <= a /\ a > 0 /\ a \in 1 .. n
      BY <1>5, <1>13, <2>2
    <3>2. i \in 1 .. n /\ t[i] = s[i] /\ t[j] = f
      BY <1>8, <2>2, <3>1
    <3>3. s[i].priority >= s[a].priority
      <4>1. CASE i = a
        BY <1>10, <3>1, <4>1
      <4>2. CASE i # a
        <5>1. i < a
          BY <1>5, <3>1, <4>2
        <5>. QED
          BY <1>9, <3>1, <3>2, <5>1
      <4>. QED
        BY <4>1, <4>2
    <3>4. s[i].priority >= f.priority
      BY <1>5, <1>10, <3>1, <3>2, <3>3
    <3>. QED
      BY <1>12, <3>2, <3>4
  <2>3. CASE j > a + 1
    <3>1. j - 1 \in a + 1 .. n /\ j - 1 \in 1 .. n /\ t[j] = s[j - 1]
      BY <1>8, <2>3
    <3>. PICK k : k = j - 1
      OBVIOUS
    <3>2. k \in a + 1 .. n /\ k \in 1 .. n /\ t[j] = s[k]
      BY <3>1
    <3>3. CASE i <= a
      <4>1. i \in 1 .. n /\ t[i] = s[i] /\ i < k
        BY <1>5, <1>8, <3>2, <3>3
      <4>. QED
        BY <1>9, <3>2, <4>1
    <3>4. CASE i = a + 1
      <4>1. t[i] = f /\ s[k].priority < f.priority
        BY <1>6, <1>8, <3>2, <3>4
      <4>. QED
        BY <1>10, <1>12, <3>2, <4>1
    <3>5. CASE i > a + 1
      <4>1. i - 1 \in 1 .. n /\ t[i] = s[i - 1] /\ i - 1 < k
        BY <1>8, <1>13, <3>2, <3>5
      <4>. PICK h : h = i - 1
        OBVIOUS
      <4>2. h \in 1 .. n /\ t[i] = s[h] /\ h < k
        BY <4>1
      <4>. QED
        BY <1>9, <3>2, <4>2
    <3>. QED
      BY <1>11, <3>3, <3>4, <3>5
  <2>. QED
    BY <1>11, <2>1, <2>2, <2>3
<1>14. Descending(t)
  BY <1>4, <1>13 DEF Descending
<1>15. ASSUME NEW i \in 1 .. l PROVE \E j \in 1 .. l : t[i] = found[j]
  <2>0. \A j \in 1 .. n : j \in 1 .. l
    OBVIOUS
  <2>1. CASE i = a + 1
    BY <1>8, <2>1
  <2>2. CASE i # a + 1
    <3>1. \E k \in 1 .. n : t[i] = s[k]
      BY <1>8, <1>11, <2>2
    <3>2. PICK k \in 1 .. n : t[i] = s[k]
      BY <3>1
    <3>3. PICK j \in 1 .. n : s[k] = found[j]
      BY <1>9
    <3>. QED
      BY <2>0, <3>2, <3>3
  <2>. QED
    BY <2>1, <2>2
<1>16. ASSUME NEW j \in 1 .. l PROVE \E i \in 1 .. l : t[i] = found[j]
  <2>1. CASE j = l
    BY <1>8, <2>1
  <2>2. CASE j # l
    <3>1. j \in 1 .. n
      BY <2>2
    <3>2. PICK k \in 1 .. n : s[k] = found[j]
      BY <1>9, <3>1
    <3>3. CASE k <= a
      <4>1. k \in 1 .. l
        OBVIOUS
      <4>. QED
        BY <1>8, <3>2, <3>3, <4>1
    <3>4. CASE ~(k <= a)
      <4>1. k + 1 \in 1 .. l /\ k + 1 > a + 1 /\ k + 1 - 1 = k
        BY <1>5, <3>4
      <4>2. t[k + 1] = s[k]
        BY <1>8, <4>1
      <4>. QED
        BY <3>2, <4>1, <4>2
    <3>. QED
      BY <3>3, <3>4
  <2>. QED
    BY <2>1, <2>2
<1>17. Ranked(t, found, l)
  BY <1>4, <1>13, <1>14, <1>15, <1>16 DEF Ranked
<1>. QED
  BY <1>17

IsSorting(found, f) ==
  f = [n \in 0 .. Len(found) |-> IF n = 0 THEN <<>> ELSE Insert(f[n - 1], found[n])]

LEMMA SortingExists ==
  ASSUME NEW found \in Seq(Found)
  PROVE  \E f : IsSorting(found, f)
<1>0. PICK N \in Nat : N = Len(found)
  OBVIOUS
<1>. DEFINE F == [k \in 1 .. N |-> [x \in Seq(Found) |-> Insert(x, found[k])]]
<1>1. \A k \in 1 .. N : found[k] \in Found
  BY <1>0
<1>2. \A k \in 1 .. N : [x \in Seq(Found) |-> Insert(x, found[k])] \in [Seq(Found) -> Seq(Found)]
  BY <1>1, InsertTyped
<1>3. F \in [1 .. N -> [Seq(Found) -> Seq(Found)]]
  BY <1>2
<1>4. \A k \in 1 .. N, x \in Seq(Found) : F[k][x] = Insert(x, found[k])
  OBVIOUS
<1>. HIDE DEF F
<1>5. PICK f : AreValues(f, F, N, Seq(Found), <<>>)
  <2>1. IsLoop(F, N, Seq(Found))
    BY <1>3 DEF IsLoop
  <2>2. PICK X, b : X = Seq(Found) /\ b = <<>>
    OBVIOUS
  <2>3. b \in X /\ IsLoop(F, N, X)
    BY <2>1, <2>2
  <2>4. \E f : AreValues(f, F, N, X, b)
    BY <2>3, StepsExist
  <2>. QED
    BY <2>2, <2>4
<1>6. \A n \in 0 .. N : f[n] = IF n = 0 THEN <<>> ELSE Insert(f[n - 1], found[n])
  <2>. SUFFICES ASSUME NEW n \in 0 .. N, n # 0 PROVE f[n] = Insert(f[n - 1], found[n])
    BY <1>5 DEF AreValues
  <2>1. n \in 1 .. N /\ n - 1 \in 0 .. N
    BY <1>0
  <2>2. f[n - 1] \in Seq(Found)
    BY <1>5, <2>1 DEF AreValues
  <2>. QED
    BY <1>4, <1>5, <2>1, <2>2 DEF AreValues
<1>7. f = [n \in 0 .. Len(found) |-> IF n = 0 THEN <<>> ELSE Insert(f[n - 1], found[n])]
  BY <1>0, <1>5, <1>6 DEF AreValues
<1>. QED
  BY <1>7 DEF IsSorting

LEMMA SortedRanks ==
  ASSUME NEW found \in Seq(Found),
         \A i, j \in 1 .. Len(found) : i # j => found[i].gap # found[j].gap
  PROVE  Ranked(Sorted(found), found, Len(found))
<1>. DEFINE f == CHOOSE h : IsSorting(found, h)
            N == Len(found)
            T == {n \in Nat : n <= N => Ranked(f[n], found, n)}
<1>1. IsSorting(found, f)
  <2>1. \E h : IsSorting(found, h)
    BY SortingExists
  <2>. HIDE DEF IsSorting
  <2>. QED
    BY <2>1
<1>2. Sorted(found) = f[N]
  BY DEF Sorted, IsSorting
<1>. HIDE DEF f
<1>3. N \in Nat
  OBVIOUS
<1>4. \A n \in 0 .. N : f[n] = IF n = 0 THEN <<>> ELSE Insert(f[n - 1], found[n])
  BY <1>1 DEF IsSorting
<1>5. 0 \in T
  <2>1. f[0] = <<>>
    BY <1>3, <1>4
  <2>2. Ranked(<<>>, found, 0)
    BY DEF Ranked, Descending
  <2>. QED
    BY <2>1, <2>2
<1>6. \A n \in T : n + 1 \in T
  <2>. SUFFICES ASSUME NEW n \in Nat, n + 1 <= N, Ranked(f[n], found, n)
                PROVE  Ranked(f[n + 1], found, n + 1)
    BY <1>3
  <2>1. n + 1 \in 0 .. N /\ n + 1 # 0 /\ n + 1 - 1 = n /\ n < Len(found)
    BY <1>3
  <2>2. f[n + 1] = Insert(f[n], found[n + 1])
    BY <1>4, <2>1
  <2>3. PICK s : s = f[n]
    OBVIOUS
  <2>4. Ranked(Insert(s, found[n + 1]), found, n + 1)
    BY <2>1, <2>3, InsertRanks
  <2>. QED
    BY <2>2, <2>3, <2>4
<1>7. T \in SUBSET Nat
  OBVIOUS
<1>. HIDE DEF T
<1>8. T = Nat
  BY <1>5, <1>6, <1>7, InductionOn
<1>. QED
  BY <1>2, <1>3, <1>8 DEF T

LEMMA DividedIsNat ==
  ASSUME NEW a \in Nat, NEW b \in Nat, b > 0
  PROVE  a \div b \in Nat
<1>1. PICK q \in Int : q = a \div b
  OBVIOUS
<1>2. a < b * (q + 1)
  BY <1>1
<1>3. CASE q < 0
  <2>1. q + 1 <= 0
    BY <1>3
  <2>2. b * (q + 1) <= 0
    BY <2>1
  <2>. QED
    BY <1>2, <2>2
<1>. QED
  BY <1>1, <1>3

LEMMA PriorityTyped ==
  ASSUME NEW g \in Gap, NEW c \in [type : GapType, frequency : Nat]
  PROVE  Priority(g, c) \in Nat
<1>1. PICK f \in Nat, i \in Nat, h \in Nat :
        f = c.frequency /\ i = Impact(c.type) /\ h = Feasible(g)
  <2>1. c.type \in {"hard", "soft", "efficiency"} /\ c.frequency \in Nat
    BY DEF GapType
  <2>2. Impact(c.type) \in Nat
    BY <2>1 DEF Impact
  <2>3. Feasible(g) \in Nat
    BY GapAssumption
  <2>. QED
    BY <2>1, <2>2, <2>3
<1>2. ScanLimit \in Nat /\ ScanLimit > 0
  BY GapAssumption
<1>3. 10 * f * i * h \in Nat
  <2>1. 10 * f \in Nat
    OBVIOUS
  <2>2. 10 * f * i \in Nat
    BY <2>1
  <2>. QED
    BY <2>2
<1>4. PICK a \in Nat, b \in Nat : a = 2 * (10 * f * i * h) + ScanLimit /\ b = 2 * ScanLimit
  BY <1>2, <1>3
<1>5. a \div b \in Nat
  BY <1>2, <1>4, DividedIsNat
<1>. QED
  BY <1>1, <1>4, <1>5 DEF Priority

LEMMA CandidateIsDue ==
  ASSUME GapsTypeOK, NEW g \in Gap
  PROVE  /\ Candidates[g] \in [type : GapType, frequency : Nat]
         /\ Candidates[g].frequency > 0 <=> Telling(g) # {}
         /\ Telling(g) # {} => Candidates[g] = Due(g)
<1>. PICK c, P : c = Candidates[g] /\ P = Telling(g)
  OBVIOUS
<1>1. c \in [type : GapType, frequency : Nat]
  BY CandidatesAre DEF Counts
<1>2. ExactOf(c, P)
  BY CandidatesAre
<1>3. /\ P \in SUBSET Places /\ IsFiniteSet(P) /\ c.frequency = Cardinality(P)
      /\ P # {} => \E p : IsNewest(p, P) /\ c.type = TypeAt(p)
  BY <1>2 DEF ExactOf
<1>4. c.frequency \in Nat
  BY <1>1
<1>5. c.frequency > 0 <=> P # {}
  BY <1>3, <1>4, FS_EmptySet
<1>6. ASSUME P # {} PROVE c = Due(g)
  <2>1. PICK p : IsNewest(p, P) /\ c.type = TypeAt(p)
    BY <1>3, <1>6
  <2>2. Newest(P) = p
    BY <1>3, <2>1, NewestIs
  <2>3. Due(g) = [type |-> TypeAt(p), frequency |-> Cardinality(P)]
    BY <2>2 DEF Due, TypeAt
  <2>4. c = [type |-> c.type, frequency |-> c.frequency]
    BY <1>1
  <2>. QED
    BY <1>3, <2>1, <2>3, <2>4
<1>. QED
  BY <1>1, <1>5, <1>6

LEMMA ScanRanks ==
  ASSUME GapsTypeOK, ScanMemory
  PROVE  ranking' \in Seq(Found) /\ Ranks(ranking')
<1>. DEFINE kept == {g \in Gap : /\ Candidates[g].frequency > 0
                                 /\ Priority(g, Candidates[g]) >= MinPriority}
            N == Cardinality(kept)
<1>1. PICK order \in SetToSeqs(kept) :
        ranking' = Sorted([i \in DOMAIN order |-> Scored(Candidates, order[i])])
  BY DEF ScanMemory
<1>2. /\ order \in [1 .. N -> kept]
      /\ \A i, j \in 1 .. N : i # j => order[i] # order[j]
  BY <1>1 DEF SetToSeqs
<1>3. kept = {g \in Gap : Telling(g) # {} /\ Priority(g, Due(g)) >= MinPriority}
  BY CandidateIsDue
<1>4. IsFiniteSet(kept) /\ N \in Nat
  <2>1. IsFiniteSet({g \in Gap : Telling(g) # {}})
    BY CandidatesAre
  <2>2. kept \subseteq {g \in Gap : Telling(g) # {}}
    BY <1>3
  <2>. HIDE DEF kept
  <2>3. IsFiniteSet(kept)
    BY <2>1, <2>2, FS_Subset
  <2>. QED
    BY <2>3, FS_CardinalityType
<1>5. \A g \in kept : g \in Gap /\ Candidates[g] = Due(g) /\ Priority(g, Due(g)) \in Nat
                      /\ Due(g) \in [type : GapType, frequency : Nat]
  BY <1>3, CandidateIsDue, PriorityTyped
<1>. HIDE DEF kept
<1>6. \A g \in kept : \E i \in 1 .. N : order[i] = g
  <2>1. order \in Injection(1 .. N, kept)
    BY <1>2 DEF Injection, IsInjective
  <2>2. IsFiniteSet(1 .. N) /\ Cardinality(1 .. N) = N
    BY <1>4, FS_Interval
  <2>3. order \in Surjection(1 .. N, kept)
    BY <1>4, <2>1, <2>2, FS_Injection
  <2>. QED
    BY <2>3 DEF Surjection
<1>. DEFINE Entry(g) == [gap |-> g, type |-> Due(g).type, frequency |-> Due(g).frequency,
                         priority |-> Priority(g, Due(g))]
            found == [i \in DOMAIN order |-> Scored(Candidates, order[i])]
<1>7. \A g \in kept : Scored(Candidates, g) = Entry(g)
  BY <1>5 DEF Scored
<1>8. \A g \in kept : Entry(g) \in Found /\ Entry(g).gap = g
  BY <1>5 DEF Found
<1>. HIDE DEF Entry
<1>9. /\ DOMAIN found = 1 .. N
      /\ \A i \in 1 .. N : order[i] \in kept /\ found[i] = Entry(order[i])
  BY <1>2, <1>7
<1>10. ranking' = Sorted(found)
  BY <1>1
<1>. HIDE DEF found
<1>11. found \in [1 .. N -> Found]
  <2>1. found = [i \in 1 .. N |-> found[i]]
    BY <1>9 DEF found
  <2>. QED
    BY <1>8, <1>9, <2>1
<1>12. found \in Seq(Found) /\ Len(found) = N
  BY <1>4, <1>11
<1>13. \A i, j \in 1 .. N : i # j => found[i].gap # found[j].gap
  BY <1>2, <1>8, <1>9
<1>14. PICK r : r = Sorted(found) /\ Ranked(r, found, N)
  BY <1>12, <1>13, SortedRanks
<1>15. /\ r \in Seq(Found) /\ DOMAIN r = 1 .. N /\ Descending(r)
       /\ \A i \in 1 .. N : \E j \in 1 .. N : r[i] = found[j]
       /\ \A j \in 1 .. N : \E i \in 1 .. N : r[i] = found[j]
       /\ \A i, j \in 1 .. N : i < j => r[i].gap # r[j].gap
  <2>1. r \in Seq(Found) /\ Len(r) = N
    BY <1>14 DEF Ranked
  <2>2. DOMAIN r = 1 .. N
    BY <2>1
  <2>. QED
    BY <1>14, <2>1, <2>2 DEF Ranked
<1>16. \A i \in 1 .. N : r[i].gap \in kept /\ r[i] = Entry(r[i].gap)
  <2>. SUFFICES ASSUME NEW i \in 1 .. N PROVE r[i].gap \in kept /\ r[i] = Entry(r[i].gap)
    OBVIOUS
  <2>1. PICK j \in 1 .. N : r[i] = found[j]
    BY <1>15
  <2>. QED
    BY <1>8, <1>9, <2>1
<1>17. \A g \in kept : \E i \in 1 .. N : r[i].gap = g
  <2>. SUFFICES ASSUME NEW g \in kept PROVE \E i \in 1 .. N : r[i].gap = g
    OBVIOUS
  <2>1. PICK j \in 1 .. N : order[j] = g
    BY <1>6
  <2>2. PICK i \in 1 .. N : r[i] = found[j]
    BY <1>15
  <2>. QED
    BY <1>8, <1>9, <2>1, <2>2
<1>18. {r[i].gap : i \in DOMAIN r} = kept
  <2>1. \A i \in DOMAIN r : r[i].gap \in kept
    BY <1>15, <1>16
  <2>2. \A g \in kept : \E i \in DOMAIN r : g = r[i].gap
    BY <1>15, <1>17
  <2>. HIDE DEF N
  <2>. QED
    BY <2>1, <2>2
<1>19. \A i, j \in DOMAIN r : i < j => r[i].priority >= r[j].priority /\ r[i].gap # r[j].gap
  BY <1>15 DEF Descending
<1>20. \A i \in DOMAIN r :
         LET g == r[i].gap
         IN  r[i] = [gap |-> g, type |-> Due(g).type, frequency |-> Due(g).frequency,
                     priority |-> Priority(g, Due(g))]
  BY <1>15, <1>16 DEF Entry
<1>21. Ranks(r)
  BY <1>3, <1>18, <1>19, <1>20 DEF Ranks
<1>. QED
  BY <1>10, <1>14, <1>15, <1>21

LEMMA GapsInductive == GapsTypeOK /\ [GapsNext]_gvars => GapsTypeOK'
<1>. SUFFICES ASSUME GapsTypeOK, [GapsNext]_gvars PROVE GapsTypeOK'
  OBVIOUS
<1>1. ASSUME NEW role \in {"user", "assistant", "tool"}, NEW matches \in Text, Say(role, matches)
      PROVE  GapsTypeOK'
  <2>1. matches \in Seq(Match)
    BY GapAssumption
  <2>2. [role |-> role, matches |-> matches]
          \in [role : {"user", "assistant", "tool"}, matches : Seq(Match)]
    BY <2>1
  <2>. QED
    BY <1>1, <2>2, AppendProperties DEF Say, GapsTypeOK
<1>2. CASE ScanMemory
  <2>1. ranking' \in Seq(Found) /\ UNCHANGED messages
    BY <1>2, ScanRanks DEF ScanMemory
  <2>. QED
    BY <2>1 DEF GapsTypeOK
<1>3. CASE UNCHANGED gvars
  BY <1>3 DEF gvars, GapsTypeOK
<1>. QED
  BY <1>1, <1>2, <1>3 DEF GapsNext

LEMMA GapsInitTyped == GapsInit => GapsTypeOK
  BY DEF GapsInit, GapsTypeOK
-----------------------------------------------------------------------------
(* All of them at once *)

\* Only the component chosen at the start moves.
LEMMA OthersAreStill ==
  ASSUME AllNext, NEW t \in Subject, subject # t
  PROVE  Still(t)
  BY DEF AllNext

\* A step of a behaviour is one of each component's, or leaves it as it was.
LEMMA StepsApart ==
  ASSUME [AllNext]_allvars
  PROVE  /\ [WeightsNext]_zvars /\ [ConversationsNext]_cvars /\ [MessagesNext]_dvars
         /\ [WorldNext]_kvars /\ [SynthesisNext]_yvars /\ [GapsNext]_gvars
         /\ [Next]_vars /\ [ToolsNext]_xvars /\ [MigrationsNext]_mvars
<1>1. CASE UNCHANGED allvars
  BY <1>1 DEF allvars
<1>2. CASE AllNext
  <2>1. [WeightsNext]_zvars
    <3>1. CASE subject = "weights"
      BY <1>2, <3>1 DEF AllNext
    <3>2. CASE subject # "weights"
      <4>1. Still("weights")
        BY <1>2, <3>2, OthersAreStill DEF Subject
      <4>. QED
        BY <4>1 DEF Still
    <3>. QED
      BY <3>1, <3>2
  <2>2. [ConversationsNext]_cvars
    <3>1. CASE subject = "conversations"
      BY <1>2, <3>1 DEF AllNext
    <3>2. CASE subject # "conversations"
      <4>1. Still("conversations")
        BY <1>2, <3>2, OthersAreStill DEF Subject
      <4>. QED
        BY <4>1 DEF Still
    <3>. QED
      BY <3>1, <3>2
  <2>3. [MessagesNext]_dvars
    <3>1. CASE subject = "messages"
      BY <1>2, <3>1 DEF AllNext
    <3>2. CASE subject # "messages"
      <4>1. Still("messages")
        BY <1>2, <3>2, OthersAreStill DEF Subject
      <4>. QED
        BY <4>1 DEF Still
    <3>. QED
      BY <3>1, <3>2
  <2>4. [WorldNext]_kvars
    <3>1. CASE subject = "world"
      BY <1>2, <3>1 DEF AllNext
    <3>2. CASE subject # "world"
      <4>1. Still("world")
        BY <1>2, <3>2, OthersAreStill DEF Subject
      <4>. QED
        BY <4>1 DEF Still
    <3>. QED
      BY <3>1, <3>2
  <2>5. [SynthesisNext]_yvars
    <3>1. CASE subject = "synthesis"
      BY <1>2, <3>1 DEF AllNext
    <3>2. CASE subject # "synthesis"
      <4>1. Still("synthesis")
        BY <1>2, <3>2, OthersAreStill DEF Subject
      <4>. QED
        BY <4>1 DEF Still
    <3>. QED
      BY <3>1, <3>2
  <2>6. [GapsNext]_gvars
    <3>1. CASE subject = "gaps"
      BY <1>2, <3>1 DEF AllNext
    <3>2. CASE subject # "gaps"
      <4>1. Still("gaps")
        BY <1>2, <3>2, OthersAreStill DEF Subject
      <4>. QED
        BY <4>1 DEF Still
    <3>. QED
      BY <3>1, <3>2
  <2>7. [Next]_vars
    <3>1. CASE subject = "router"
      BY <1>2, <3>1 DEF AllNext
    <3>2. CASE subject # "router"
      <4>1. Still("router")
        BY <1>2, <3>2, OthersAreStill DEF Subject
      <4>. QED
        BY <4>1 DEF Still
    <3>. QED
      BY <3>1, <3>2
  <2>8. [ToolsNext]_xvars
    <3>1. CASE subject = "tools"
      BY <1>2, <3>1 DEF AllNext
    <3>2. CASE subject # "tools"
      <4>1. Still("tools")
        BY <1>2, <3>2, OthersAreStill DEF Subject
      <4>. QED
        BY <4>1 DEF Still
    <3>. QED
      BY <3>1, <3>2
  <2>9. [MigrationsNext]_mvars
    <3>1. CASE subject = "migrations"
      BY <1>2, <3>1 DEF AllNext
    <3>2. CASE subject # "migrations"
      <4>1. Still("migrations")
        BY <1>2, <3>2, OthersAreStill DEF Subject
      <4>. QED
        BY <4>1 DEF Still
    <3>. QED
      BY <3>1, <3>2
  <2>. QED
    BY <2>1, <2>2, <2>3, <2>4, <2>5, <2>6, <2>7, <2>8, <2>9
<1>. QED
  BY <1>1, <1>2

\* What an agent has in memory is of its own session, none of it twice, and in the rows of
\* the store, on its way there, or of a save that failed, whatever additions overlap and
\* are lost (context.go:65-77): ConversationsTypeOK is never broken either.
THEOREM MemoryStaysSaved == AllSpec => [](ConversationsTypeOK /\ MemoryIsSaved)
<1>1. AllInit => ConvInv
  BY ConvInvInit DEF AllInit
<1>2. ConvInv /\ [AllNext]_allvars => ConvInv'
  BY StepsApart, ConvInductive
<1>3. ConvInv => ConversationsTypeOK /\ MemoryIsSaved
  BY ConvSound
<1>. QED
  BY <1>1, <1>2, <1>3, PTL DEF AllSpec

\* Whatever a provider is sent, every result of a tool in it follows the call it answers,
\* and every call is followed by its results.
THEOREM ResultsStayReached == AllSpec => [](MessagesTypeOK /\ ResultsReachTheirCalls)
<1>1. AllInit => DialogInv
  BY DialogInvInit DEF AllInit
<1>2. DialogInv /\ [AllNext]_allvars => DialogInv'
  BY StepsApart, DialogInductive
<1>3. DialogInv => MessagesTypeOK /\ ResultsReachTheirCalls
  BY DialogSound
<1>. QED
  BY <1>1, <1>2, <1>3, PTL DEF AllSpec

\* What the program learns by itself stays sound: a path is the shortest there is, a thing
\* has no more rows than there are writers, what was told last is trusted most, the goals
\* that say the same are explained by a race, and the weights stay near one in sum.
THEOREM LearningStaysSound == AllSpec => []LearningIsSound
<1>. DEFINE I == WorldInv /\ SynthInv /\ WeightsInv
<1>1. AllInit => I
  BY WorldInvInit, SynthInvInit, WeightsInvInit DEF AllInit
<1>2. I /\ [AllNext]_allvars => I'
  BY StepsApart, WorldInductive, SynthInductive, WeightsInductive
<1>3. I => LearningIsSound
  BY PathsHold, WorldSound, SynthSound, WeightsSound DEF LearningIsSound
<1>. QED
  BY <1>1, <1>2, <1>3, PTL DEF AllSpec

\* A scan for gaps ranks those it should and no other, highest first, whatever was said
\* (detector.go:49-94).
THEOREM ScansStayRight == AllSpec => RankingIsRight
<1>1. AllInit => GapsTypeOK
  BY GapsInitTyped DEF AllInit
<1>2. GapsTypeOK /\ [AllNext]_allvars => GapsTypeOK'
  BY StepsApart, GapsInductive
<1>3. GapsTypeOK => [ScanMemory => Ranks(ranking')]_gvars
  BY ScanRanks
<1>. QED
  BY <1>1, <1>2, <1>3, PTL DEF AllSpec, RankingIsRight

\* All that the components keep stays typed.
THEOREM AllTypesHold == AllSpec => []AllTypeOK
<1>. DEFINE Kept == ConvInv /\ DialogInv /\ WorldInv /\ SynthInv /\ WeightsInv
            Beside == /\ IInv /\ GapsTypeOK /\ ToolsInv /\ Len(calls) <= MaxCalls
                      /\ MigrationsInv
<1>1. AllInit => Kept
  BY ConvInvInit, DialogInvInit, WorldInvInit, SynthInvInit, WeightsInvInit DEF AllInit
<1>2. AllInit => Beside
  <2>1. ToolsInit => Len(calls) <= MaxCalls
    BY ToolAssumption DEF ToolsInit
  <2>. QED
    BY <2>1, InitHolds, GapsInitTyped, ToolsInvInit, MigrationsInvInit
    DEF AllInit
<1>3. Kept /\ [AllNext]_allvars => Kept'
  BY StepsApart, ConvInductive, DialogInductive, WorldInductive, SynthInductive, WeightsInductive
<1>4. Beside /\ [AllNext]_allvars => Beside'
  BY StepsApart, StepHolds, GapsInductive, ToolsInductive, CallsStayFew,
     MigrationsInductive
<1>5. Kept /\ Beside => AllTypeOK
  <2>1. IInv => TypeOK
    BY DEF IInv
  <2>2. MigrationsInv => MigrationsTypeOK
    BY DEF MigrationsInv
  <2>. QED
    BY <2>1, <2>2, ConvSound, DialogSound, WorldSound, SynthSound, WeightsSound, ToolsTyped
    DEF AllTypeOK
<1>. HIDE DEF Kept, Beside
<1>. QED
  BY <1>1, <1>2, <1>3, <1>4, <1>5, PTL DEF AllSpec

\* The whole of the run: every invariant TLC checks on an instance holds for any names,
\* callers, sessions, things, titles and tools, and whatever the bounds.
THEOREM RunStaysSound ==
  AllSpec => [](/\ AllTypeOK /\ CountsAreExact /\ GivesUpLast /\ ResultsReachTheirCalls
                /\ MemoryIsSaved /\ LearningIsSound /\ RecordsAreSound)
<1>1. AllInit => Init /\ ToolsInit /\ MigrationsInit
  BY DEF AllInit
<1>2. [AllNext]_allvars => [Next]_vars /\ [ToolsNext]_xvars /\ [MigrationsNext]_mvars
  BY StepsApart
<1>3. AllSpec => Spec
  BY <1>1, <1>2, PTL DEF AllSpec, Spec
<1>4. AllSpec => RecordsSpec
  BY <1>1, <1>2, PTL DEF AllSpec, RecordsSpec, MigrationsSpec
<1>5. AllSpec => []CountsAreExact /\ []GivesUpLast
  BY <1>3, CountsStayExact, NeverGivesUpEarly, PTL
<1>6. AllSpec => []RecordsAreSound
  BY <1>4, RecordsStaySound, PTL
<1>. QED
  BY <1>5, <1>6, AllTypesHold, ResultsStayReached, MemoryStaysSaved, LearningStaysSound, PTL
=============================================================================
