-------------------------------- MODULE Goals --------------------------------
(***************************************************************************)
(* The life of a goal in the autonomous goal system: the store             *)
(* (internal/ags/store.go), the synthesizer that fills it, and the cycle   *)
(* that selects, decomposes, runs and judges (internal/ags/executor.go),   *)
(* by its loop or by RunOnce, one at a time.  Every write is that of the   *)
(* whole row from a copy in memory; a failed one is forgotten, and the     *)
(* program may end between any two.  Decompositions and judges fail as     *)
(* they like, and as often.                                                *)
(***************************************************************************)
EXTENDS Integers

CONSTANTS
  Goal,
  NoGoal,
  MaxAttempts,  \* GoalExecutor.maxAttempts
  MaxFaults,    \* bounds the writes that fail and the crashes that meet a goal,
  MaxCalls      \* and the calls of RunOnce

ASSUME GoalAssumption == NoGoal \notin Goal /\ MaxAttempts \in Nat \ {0}

VARIABLES
  store,    \* the row of each goal
  phase,    \* how far the cycle is
  mode,     \* whether the loop runs it, or RunOnce
  copies,   \* the rows as they were fetched, and as the cycle changes them
  fetched,  \* which of them it fetched
  unscored, \* and has yet to rescore
  chosen,   \* the goal it works at
  calls,    \* how often RunOnce was called
  tries,    \* history: how often each goal was chosen
  faults,   \* history: how often a cycle was cut off before it judged the goal,
            \* or lost a write of it
  spared    \* history: how often RunOnce left it pending with its attempts used up

cycle == <<phase, mode, copies, fetched, unscored, chosen>>
history == <<calls, tries, faults, spared>>
ovars == <<store, cycle, history>>

GoalRow == [status : {"absent", "pending", "active", "completed", "abandoned"},
            attempts : Nat]

GoalsTypeOK ==
  /\ store \in [Goal -> GoalRow] /\ copies \in [Goal -> GoalRow]
  /\ phase \in {"idle", "scoring", "counting", "decomposing", "working"}
  /\ mode \in {"loop", "once"}
  /\ fetched \in SUBSET Goal /\ unscored \in SUBSET fetched
  /\ chosen \in fetched \cup {NoGoal}
  /\ calls \in Nat
  /\ \A count \in {tries, faults, spared} : count \in [Goal -> Nat]

NoRows == [g \in Goal |-> [status |-> "absent", attempts |-> 0]]

GoalsInit == /\ store = NoRows
             /\ copies = NoRows
             /\ phase = "idle" /\ mode = "loop" /\ chosen = NoGoal
             /\ fetched = {} /\ unscored = {}
             /\ calls = 0 /\ tries = [g \in Goal |-> 0]
             /\ faults = [g \in Goal |-> 0] /\ spared = [g \in Goal |-> 0]

\* Mutant: the goals that were given up are fetched too.
NotCompleted == {g \in Goal : store[g].status \in {"pending", "abandoned"}}

Pending == {g \in Goal : store[g].status = "pending"}

\* The synthesizer, or the metacognition loop, saves a new goal.
Save(g) == /\ store[g].status = "absent"
           /\ store' = [store EXCEPT ![g].status = "pending"]
           /\ UNCHANGED <<cycle, history>>

-----------------------------------------------------------------------------
\* SelectNext.

Fetch(m) == /\ phase = "idle" /\ Pending # {}
            /\ phase' = "scoring" /\ mode' = m
            /\ m = "once" => calls < MaxCalls
            /\ calls' = calls + (IF m = "once" THEN 1 ELSE 0)
            /\ copies' = store /\ fetched' = Pending /\ unscored' = Pending
            /\ UNCHANGED <<store, chosen, tries, faults, spared>>

\* Each fetched row is written back with a new priority, or the write fails.
Rescore(g) == /\ phase = "scoring" /\ g \in unscored
              /\ unscored' = unscored \ {g}
              /\ store' \in {store, [store EXCEPT ![g] = copies[g]]}
              /\ UNCHANGED <<phase, mode, copies, fetched, chosen, history>>

\* Any goal may have the highest priority; the attempt is counted on its copy.
Choose(g) == /\ phase = "scoring" /\ unscored = {} /\ g \in fetched
             /\ phase' = "counting" /\ chosen' = g
             /\ copies' = [copies EXCEPT ![g].attempts = @ + 1]
             /\ tries' = [tries EXCEPT ![g] = @ + 1]
             /\ UNCHANGED <<store, mode, fetched, unscored, calls, faults, spared>>

-----------------------------------------------------------------------------
\* The cycle works at the chosen goal.

Fault == /\ faults[chosen] < MaxFaults
         /\ faults' = [faults EXCEPT ![chosen] = @ + 1] /\ UNCHANGED spared

Kept(status) == /\ store' = [store EXCEPT ![chosen] =
                     [status |-> status, attempts |-> copies[chosen].attempts]]
                /\ UNCHANGED <<faults, spared>>

\* Update: the row is that of the copy, or the write fails.
Update(status) == Kept(status) \/ (Fault /\ UNCHANGED store)

Goto(p) == phase' = p /\ UNCHANGED <<mode, copies, fetched, unscored, chosen, calls, tries>>

EndCycle == /\ phase' = "idle" /\ copies' = NoRows /\ chosen' = NoGoal
            /\ fetched' = {} /\ unscored' = {}
            /\ UNCHANGED <<mode, calls, tries>>

Count == phase = "counting" /\ Goto("decomposing") /\ Update("pending")

\* Mutant: a goal that cannot be decomposed is tried for ever.
RetryAlways == "pending"

\* The status after a try that failed.
AfterFailure == IF copies[chosen].attempts >= MaxAttempts THEN "abandoned" ELSE "pending"

\* RunOnce returns the error, and leaves the row as the count left it, however many
\* attempts that is.
Spare == /\ spared' = [spared EXCEPT ![chosen] =
                        IF copies[chosen].attempts >= MaxAttempts THEN @ + 1 ELSE @]
         /\ UNCHANGED <<store, faults>>

DecomposeFails == /\ phase = "decomposing" /\ EndCycle
                  /\ \/ mode = "loop" /\ Update(AfterFailure)
                     \/ mode = "once" /\ Spare

\* Execute gives up when the goal cannot be marked active.
Activate == /\ phase = "decomposing"
            /\ \/ Goto("working") /\ Kept("active")
               \/ EndCycle /\ Fault /\ UNCHANGED store

\* The tasks are done, or have failed; the judge decides.
Judge == /\ phase = "working" /\ EndCycle
         /\ Update("completed") \/ Update(AfterFailure)

-----------------------------------------------------------------------------
\* The program ends within a cycle: the goal it worked at, or those it was about to
\* choose from, stay as the store has them.
CrashInCycle ==
  LET hit == IF chosen = NoGoal THEN fetched ELSE {chosen}
  IN  /\ phase # "idle" /\ EndCycle /\ UNCHANGED store
      /\ UNCHANGED spared /\ \A g \in hit : faults[g] < MaxFaults
      /\ faults' = [g \in Goal |-> IF g \in hit THEN faults[g] + 1 ELSE faults[g]]

Cycle == \/ \E m \in {"loop", "once"} : Fetch(m)
         \/ \E g \in Goal : Rescore(g) \/ Choose(g)
         \/ Count \/ DecomposeFails \/ Activate \/ Judge

GoalsNext == Cycle \/ CrashInCycle \/ \E g \in Goal : Save(g)

GoalsSpec == GoalsInit /\ [][GoalsNext]_ovars

-----------------------------------------------------------------------------
Finished == {"completed", "abandoned"}

\* A goal that is finished stays so, though whole rows are written from copies
\* fetched before (executor.go:64-89, 144-235).
FinishedStays ==
  [][\A g \in Goal : store[g].status \in Finished => store'[g] = store[g]]_ovars

\* The tries of a goal are as many as the maximum at most, and one more for each that a
\* fault cut off, or lost, and for each after the maximum that RunOnce could not
\* decompose: those alone leave a spent goal pending, and nothing bounds them
\* (executor.go:199-224, 259-278, 312-315).
TriesBounded == \A g \in Goal : tries[g] <= MaxAttempts + faults[g] + spared[g]

\* A goal that has met no fault is neither completed nor abandoned, whatever others have
\* a higher priority.  The loop ends them all once RunOnce is no longer called; RunOnce
\* alone may choose for ever the one goal that it cannot decompose (executor.go:73-88,
\* 238-291, 312-315).
GoalsWait == \E g \in Goal : store[g].status \in {"pending", "active"} /\ faults[g] = 0
=============================================================================
