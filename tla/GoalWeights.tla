----------------------------- MODULE GoalWeights -----------------------------
(***************************************************************************)
(* What makes one goal more urgent than another: the weights of the scorer *)
(* (internal/ags/scorer.go) and the loop that learns them                  *)
(* (internal/ags/metacognition.go), in ten-thousandths.  The weekly loop   *)
(* and RunMetacognitionImmediately may read the weights one after the      *)
(* other and then both set theirs.                                         *)
(***************************************************************************)
EXTENDS Integers

CONSTANTS
  Learner,     \* what runs the loop
  MaxRuns      \* bounds the runs

ASSUME WeightsAssumption == MaxRuns \in Nat

VARIABLES
  weights,     \* PriorityScorer.weights
  pending,     \* what each learner read, and what it is about to set
  runs

zvars == <<weights, pending, runs>>

Factor == {"urgency", "impact", "feasibility", "novelty", "alignment"}
One == 10000
MaxDelta == 500
Least == 100

SumOf(w) == w["urgency"] + w["impact"] + w["feasibility"] + w["novelty"] + w["alignment"]
Absolute(n) == IF n < 0 THEN -n ELSE n

DefaultScorerWeights == [f \in Factor |->
  CASE f = "urgency" -> 2500 [] f = "impact" -> 3000 [] f = "feasibility" -> 2000
    [] f = "novelty" -> 1000 [] f = "alignment" -> 1500]

Learning == [old : [Factor -> Int], new : [Factor -> Int]]
NotLearning == [old |-> DefaultScorerWeights, new |-> DefaultScorerWeights, busy |-> FALSE]

WeightsTypeOK ==
  /\ weights \in [Factor -> 0 .. One] /\ runs \in 0 .. MaxRuns
  /\ pending \in [Learner -> [old : [Factor -> 0 .. One], new : [Factor -> 0 .. One], busy : BOOLEAN]]

WeightsInit == /\ weights = DefaultScorerWeights /\ runs = 0
               /\ pending = [l \in Learner |-> NotLearning]

-----------------------------------------------------------------------------
\* The rules of adjustWeights: what each adds to which factor.
Rule(rule) ==
  LET Add(urgency, impact, feasibility, novelty) ==
        [f \in Factor |-> CASE f = "urgency" -> urgency [] f = "impact" -> impact
                            [] f = "feasibility" -> feasibility [] f = "novelty" -> novelty
                            [] f = "alignment" -> 0]
  IN  CASE rule = "inaccurate" -> Add(100, -300, 200, 0)
        [] rule = "deferred" -> Add(0, -200, 300, -100)
        [] rule = "completing" -> Add(-200, 200, -200, 200)
        [] rule = "failing" -> Add(0, -300, 300, 0)

\* The completion rate is above nine tenths, below three, or between.
Findings == {found \in SUBSET {"inaccurate", "deferred", "completing", "failing"} :
               ~({"completing", "failing"} \subseteq found)}

\* adjustWeights: the rules, a floor, and all of it scaled to one and rounded.
AdjustWeights(w, found) ==
  LET By(rule, f) == IF rule \in found THEN Rule(rule)[f] ELSE 0
      moved == [f \in Factor |-> w[f] + By("inaccurate", f) + By("deferred", f)
                                      + By("completing", f) + By("failing", f)]
      floored == [f \in Factor |-> IF moved[f] < Least THEN Least ELSE moved[f]]
  IN  [f \in Factor |-> (2 * floored[f] * One + SumOf(floored)) \div (2 * SumOf(floored))]

Clamp(w, target) == [f \in Factor |-> IF target[f] > w[f] + MaxDelta THEN w[f] + MaxDelta
                                      ELSE IF target[f] < w[f] - MaxDelta THEN w[f] - MaxDelta
                                      ELSE target[f]]

Validate(w) == Absolute(SumOf(w) - One) < 10

\* Run, up to the weights it is going to set: the clamped ones if they are valid.
Learn(l, found) ==
  LET clamped == Clamp(weights, AdjustWeights(weights, found))
  IN  /\ ~pending[l].busy /\ runs < MaxRuns /\ runs' = runs + 1
      /\ pending' = [pending EXCEPT ![l] = [old |-> weights, busy |-> TRUE,
                        new |-> IF Validate(clamped) THEN clamped ELSE weights]]
      /\ UNCHANGED weights

\* SetWeights, whatever was set in between.
SetWeights(l) == /\ pending[l].busy /\ weights' = pending[l].new
                 /\ pending' = [pending EXCEPT ![l] = NotLearning]
                 /\ UNCHANGED runs

WeightsNext == \E l \in Learner : SetWeights(l) \/ \E found \in Findings : Learn(l, found)

\* Score, of factors in hundredths: what a goal counts, in millionths.
Score(factors) == SumOf([f \in Factor |-> weights[f] * factors[f]])

-----------------------------------------------------------------------------
\* However often the weights are learned, and whoever overtakes whom: they stay
\* positive, they sum to one within a thousandth, so that a goal that is better in
\* every way scores higher and none scores above one, and no run moves one of the
\* weights it read by more than a twentieth (metacognition.go:29-128, 146-211).
WeightsStaySound ==
  LET all(n) == [f \in Factor |-> n]
  IN  /\ \A f \in Factor : weights[f] > 0
      /\ Absolute(SumOf(weights) - One) < 10
      /\ Score(all(0)) < Score(all(1)) /\ Score(all(100)) <= 100 * (One + 10)
      /\ \A l \in Learner : pending[l].busy => \A f \in Factor :
           Absolute(pending[l].new[f] - pending[l].old[f]) <= MaxDelta
=============================================================================
