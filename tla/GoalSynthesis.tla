---------------------------- MODULE GoalSynthesis ----------------------------
(***************************************************************************)
(* Where goals come from (internal/ags/synthesizer.go): findings, a model  *)
(* that proposes, a check of each proposal, one of all of them against     *)
(* the goals that are open, and a row for each that is left.  The open     *)
(* goals are those of two queries, first for the pending and then for the  *)
(* active ones, and one that fails is one that found none.  The hourly loop*)
(* and SynthesizeImmediately (manager.go) may do so at the same time, and  *)
(* the executor, which is Goals, moves goals between the two queries.      *)
(***************************************************************************)
EXTENDS Integers, Sequences, FiniteSets, Subsequences

CONSTANTS
  Title,
  Alike,         \* the pairs of titles that are the same or share 85 in 100 words
  Proposals,     \* what a model may answer: sequences of titles, Faulty among them
  Faulty,        \* a proposal that validateProposal rejects
  MaxPerCycle,   \* maxPerCycle
  MaxGoals       \* bounds the rows, and the cycles

ASSUME SynthesisAssumption ==
  /\ Faulty \notin Title /\ Proposals \subseteq Seq(Title \cup {Faulty})
  /\ Alike \subseteq Title \X Title /\ \A t \in Title : <<t, t>> \in Alike
  /\ \A p \in Alike : <<p[2], p[1]>> \in Alike
  /\ MaxPerCycle \in Nat \ {0} /\ MaxGoals \in Nat

VARIABLES
  goals,      \* ags_goals: the title and status of each, and the cycle that made it, or 0
  cycles      \* the cycles so far: what each is at, the proposals it has left, the goals it
              \* saw until it compares; how many rows there were at its first query, and
              \* the open ones of them that the two queries missed

yvars == <<goals, cycles>>

Cycle == [at : {"asking", "reading", "saving"}, left : Seq(Title), seen : SUBSET (1 .. MaxGoals),
          rows : 0 .. MaxGoals, missed : SUBSET (1 .. MaxGoals)]
Status == {"pending", "active", "closed"}

SynthesisTypeOK ==
  /\ goals \in Seq([title : Title, cycle : Nat, status : Status])
  /\ cycles \in Seq(Cycle)

SynthesisInit == goals = <<>> /\ cycles = <<>>

-----------------------------------------------------------------------------
\* Something was found, and the model is asked.
Begin == /\ Len(cycles) < MaxGoals
         /\ cycles' = Append(cycles, [at |-> "asking", left |-> <<>>, seen |-> {}, rows |-> 0,
                                     missed |-> {}])
         /\ UNCHANGED goals

GetByStatus(status) == {g \in DOMAIN goals : goals[g].status = status}

\* No provider, no answer, or one that is not JSON: the cycle is over.
NoProposals(c) == /\ cycles[c].at = "asking" /\ cycles' = [cycles EXCEPT ![c].at = "saving"]
                  /\ UNCHANGED goals

\* deduplicate: against the goals that were found, not one another.
Deduplicate(titles, existing) ==
  Subsequence(titles, {i \in DOMAIN titles :
                         \A g \in existing : <<titles[i], goals[g].title>> \notin Alike})

First(titles, n) == SubSeq(titles, 1, IF Len(titles) > n THEN n ELSE Len(titles))

\* The answer is parsed and validated, and the pending goals are read, or not.
Check(c, proposals) ==
  LET valid == Subsequence(proposals, {i \in DOMAIN proposals : proposals[i] # Faulty})
  IN  /\ cycles[c].at = "asking" /\ UNCHANGED goals
      /\ \E found \in {GetByStatus("pending"), {}} :
           cycles' = [cycles EXCEPT ![c] =
                        [at |-> "reading", left |-> valid, seen |-> found, rows |-> Len(goals),
                         missed |-> GetByStatus("pending") \ found]]

\* The active ones, and what is like none of both is left.
Compare(c) ==
  /\ cycles[c].at = "reading" /\ UNCHANGED goals
  /\ \E found \in {GetByStatus("active"), {}} :
       cycles' = [cycles EXCEPT ![c] =
                    [at |-> "saving", seen |-> {}, rows |-> cycles[c].rows,
                     left |-> First(Deduplicate(cycles[c].left, cycles[c].seen \cup found),
                                    MaxPerCycle),
                     missed |-> cycles[c].missed \cup (GetByStatus("active") \ found)]]

\* One row after the other, until nothing is left; the store may fail for one, which is
\* passed over.
SaveGoal(c, fails) ==
  /\ cycles[c].at = "saving" /\ cycles[c].left # <<>>
  /\ fails \/ Len(goals) < MaxGoals
  /\ goals' = IF fails THEN goals
              ELSE Append(goals, [title |-> Head(cycles[c].left), cycle |-> c, status |-> "pending"])
  /\ cycles' = [cycles EXCEPT ![c].left = Tail(@)]

\* generateImprovementGoal of the metacognition loop compares with nothing.
Improve(t) == /\ Len(goals) < MaxGoals /\ UNCHANGED cycles
              /\ goals' = Append(goals, [title |-> t, cycle |-> 0, status |-> "pending"])

\* The executor takes up a goal,
Attempt(g) == /\ goals[g].status = "pending" /\ goals' = [goals EXCEPT ![g].status = "active"]
              /\ UNCHANGED cycles

\* which is to be tried again: a cycle between its two queries may have it in neither,
Retry(g) == /\ goals[g].status = "active" /\ goals' = [goals EXCEPT ![g].status = "pending"]
            /\ cycles' = [c \in DOMAIN cycles |->
                            IF cycles[c].at = "reading"
                            THEN [cycles[c] EXCEPT !.missed = @ \cup ({g} \ cycles[c].seen)]
                            ELSE cycles[c]]

\* or is completed or abandoned, for good.
CloseGoal(g) == /\ goals[g].status # "closed" /\ goals' = [goals EXCEPT ![g].status = "closed"]
                /\ UNCHANGED cycles

Synthesize(c) == \/ NoProposals(c) \/ Compare(c) \/ SaveGoal(c, TRUE) \/ SaveGoal(c, FALSE)
                 \/ \E proposals \in Proposals : Check(c, proposals)

SynthesisNext == \/ Begin
                 \/ \E c \in DOMAIN cycles : Synthesize(c)
                 \/ \E g \in DOMAIN goals : Attempt(g) \/ Retry(g) \/ CloseGoal(g)
                 \/ \E t \in Title : Improve(t)

-----------------------------------------------------------------------------
\* Two open goals that are alike come from one answer, or the later is of the metacognition
\* loop, or its cycle could not see the earlier: that had no row yet at the first query, or
\* the query it was due in failed, or it was to be tried again between the two; and no
\* cycle makes more than its maximum (synthesizer.go:158-195, 272-299).
TwinsAreExplained ==
  /\ \A g, h \in DOMAIN goals :
       /\ g < h /\ <<goals[g].title, goals[h].title>> \in Alike
       /\ goals[g].status # "closed" /\ goals[h].status # "closed"
       => LET c == goals[h].cycle
          IN  c \in {0, goals[g].cycle} \/ g > cycles[c].rows \/ g \in cycles[c].missed
  /\ \A c \in DOMAIN cycles : Cardinality({g \in DOMAIN goals : goals[g].cycle = c}) <= MaxPerCycle
=============================================================================
