------------------------------ MODULE TaskGraph ------------------------------
(***************************************************************************)
(* What running a task graph promises, whatever the scheduling: a subtask  *)
(* finishes only after every task it depends on, an answer is given only   *)
(* when all of them have finished, and at any time the run may be given up *)
(* with an error.  Orchestrator implements this specification.             *)
(***************************************************************************)
EXTENDS Integers, Sequences

CONSTANTS Id,         \* the task identifiers a plan may use
          MaxTasks    \* the longest plan considered

Slot == 1 .. MaxTasks

Subtask == [id : Id, deps : SUBSET Id]

Plans == {p \in Seq(Subtask) : Len(p) \in 0 .. MaxTasks}

VARIABLES plan,       \* the graph being run
          finished,   \* the positions of the subtasks that have a result
          verdict     \* "none", then "answer" or "error"

gvars == <<plan, finished, verdict>>

Ids(S) == {plan[t].id : t \in S}

GInit == plan = << >> /\ finished = {} /\ verdict = "none"

Adopt == /\ plan = << >> /\ finished = {} /\ verdict = "none"
         /\ plan' \in Plans
         /\ UNCHANGED <<finished, verdict>>

Finish(t) == /\ verdict = "none"
             /\ t \in 1 .. Len(plan) /\ t \notin finished
             /\ plan[t].deps \subseteq Ids(finished)
             /\ finished' = finished \cup {t}
             /\ UNCHANGED <<plan, verdict>>

Answer == /\ verdict = "none"
          /\ finished = 1 .. Len(plan)
          /\ verdict' = "answer"
          /\ UNCHANGED <<plan, finished>>

GiveUp == /\ verdict = "none"
          /\ verdict' = "error"
          /\ UNCHANGED <<plan, finished>>

GNext == Adopt \/ (\E t \in Slot : Finish(t)) \/ Answer \/ GiveUp

GSpec == GInit /\ [][GNext]_gvars
=============================================================================
