---------------------------- MODULE Orchestrator ----------------------------
(***************************************************************************)
(* Agent.HandleComplexTask and Orchestrator.Execute                        *)
(* (internal/agent/agent.go, orchestrator.go, planner.go): a planner turns *)
(* a goal into a task graph, the orchestrator runs it in batches, one      *)
(* goroutine per ready subtask, and a synthesizer writes the answer.       *)
(*                                                                         *)
(* The main goroutine reads the map `completed` without the mutex under    *)
(* which the workers write it, so each of its reads is a step of its own,  *)
(* and a read during a write may abort the process, as Go's runtime does   *)
(* when it sees it.  What a worker asks of a provider and of tools between *)
(* collecting its context and its result is one step.                      *)
(***************************************************************************)
EXTENDS Integers, Sequences, FiniteSets

CONSTANTS Id,         \* the task identifiers a plan may use
          MaxTasks    \* bound: the longest plan considered

ASSUME SizeAssumption == MaxTasks \in Nat

Slot == 1 .. MaxTasks

Subtask == [id : Id, deps : SUBSET Id]

\* Nothing validates what the model submits: identifiers may repeat, and a
\* dependency may name the task itself, a cycle, or no task at all.
Plans == UNION {[1 .. n -> Subtask] : n \in 0 .. MaxTasks}

VARIABLES
  pc,        \* where the calling goroutine is
  plan,      \* graph.Subtasks
  cursor,    \* position of the range loop over graph.Subtasks
  batch,     \* the subtasks launched in this iteration (didWorkThisLoop: some)
  loopErrs,  \* the subtasks whose error this iteration collected
  completed, \* the keys of the map `completed`
  results,   \* the map `results`: which subtask wrote the entry, 0 for none
  worker,    \* where the goroutine of each subtask is
  context,   \* the dependencies whose result the worker was given
  outcome,   \* how the call ended
  memory     \* the roles of the messages the call left in the conversation

vars == <<pc, plan, cursor, batch, loopErrs, completed, results, worker,
          context, outcome, memory>>

shared == <<completed, results, worker, context>>

Task == 1 .. Len(plan)

WorkerState == {"idle", "launched", "asking", "storing", "stored", "failed"}
Running == {"launched", "asking", "storing"}
Outcome == {"none", "answer", "empty", "error", "deadlock"}

TypeOK == /\ pc \in {"plan", "loop", "scan", "deps", "wait", "synthesize",
                     "done", "fault"}
          /\ plan \in Plans
          /\ cursor \in 1 .. MaxTasks + 1
          /\ batch \in SUBSET Slot
          /\ loopErrs \in SUBSET Slot
          /\ completed \in SUBSET Id
          /\ results \in [Id -> 0 .. MaxTasks]
          /\ worker \in [Slot -> WorkerState]
          /\ context \in [Slot -> SUBSET Id]
          /\ outcome \in Outcome
          /\ memory \in Seq({"user", "assistant"})

Init == /\ pc = "plan" /\ plan = << >> /\ cursor = 1
        /\ batch = {} /\ loopErrs = {}
        /\ completed = {} /\ results = [i \in Id |-> 0]
        /\ worker = [t \in Slot |-> "idle"]
        /\ context = [t \in Slot |-> {}]
        /\ outcome = "none" /\ memory = << >>

-----------------------------------------------------------------------------
\* The calling goroutine.

Return(o) == /\ pc' = "done" /\ outcome' = o
             /\ memory' = IF o \in {"answer", "empty"}
                            THEN memory \o <<"user", "assistant">> ELSE memory

\* The planner's model answers with a plan, or with none that can be used.
Decompose ==
  /\ pc = "plan"
  /\ \/ Return("error") /\ UNCHANGED plan
     \/ /\ plan' \in Plans \ {<< >>}
        /\ pc' = "loop" /\ UNCHANGED <<outcome, memory>>
     \/ Return("empty") /\ UNCHANGED plan
  /\ UNCHANGED <<cursor, batch, loopErrs, shared>>

\* Mutant: one task short.
UnfinishedButOne == Cardinality(completed) + 1 < Len(plan)

Unfinished == Cardinality(completed) < Len(plan)

Loop ==
  /\ pc = "loop"
  /\ pc' = IF Unfinished THEN "scan" ELSE "synthesize"
  /\ cursor' = 1 /\ batch' = {} /\ loopErrs' = {}
  /\ UNCHANGED <<plan, shared, outcome, memory>>

\* The first read of `completed`: skip what is already there.
Scan ==
  /\ pc = "scan"
  /\ \/ cursor > Len(plan) /\ pc' = "wait" /\ UNCHANGED cursor
     \/ /\ cursor <= Len(plan) /\ plan[cursor].id \in completed
        /\ cursor' = cursor + 1 /\ UNCHANGED pc
     \/ /\ cursor <= Len(plan) /\ plan[cursor].id \notin completed
        /\ pc' = "deps" /\ UNCHANGED cursor
  /\ UNCHANGED <<plan, batch, loopErrs, shared, outcome, memory>>

\* The reads of the dependencies.  One step stands for them: `completed` only
\* grows, so they answer as one read at the moment of the last of them.
\* Mutant: one dependency is enough.
ReadyOnAny(t) == plan[t].deps = {} \/ plan[t].deps \cap completed # {}

Ready(t) == plan[t].deps \subseteq completed

Deps ==
  /\ pc = "deps"
  /\ pc' = "scan" /\ cursor' = cursor + 1
  /\ \/ /\ Ready(cursor)
        /\ batch' = batch \cup {cursor}
        /\ worker' = [worker EXCEPT ![cursor] = "launched"]
     \/ ~ Ready(cursor) /\ UNCHANGED <<batch, worker>>
  /\ UNCHANGED <<plan, loopErrs, completed, results, context, outcome, memory>>

\* Mutant: wg.Add inside the goroutine, so Wait misses one that has not begun.
BatchBegunDone == \A t \in Slot : worker[t] \notin Running \ {"launched"}

\* wg.Wait: every goroutine of the batch has ended.
BatchDone == \A t \in Slot : worker[t] \notin Running

Wait ==
  /\ pc = "wait" /\ BatchDone
  /\ \/ loopErrs # {} /\ Return("error")
     \/ loopErrs = {} /\ batch = {} /\ Unfinished /\ Return("deadlock")
     \/ /\ loopErrs = {} /\ (batch # {} \/ ~ Unfinished)
        /\ pc' = "loop" /\ UNCHANGED <<outcome, memory>>
  /\ UNCHANGED <<plan, cursor, batch, loopErrs, shared>>

\* The synthesizer's model answers or fails; HandleComplexTask then keeps the
\* exchange in the conversation.
Synthesize ==
  /\ pc = "synthesize"
  /\ Return("answer") \/ Return("error")
  /\ UNCHANGED <<plan, cursor, batch, loopErrs, shared>>

-----------------------------------------------------------------------------
\* The goroutine of subtask t.  mu is held only while a worker is "storing".

Alive == pc # "fault"
MuFree == \A t \in Slot : worker[t] # "storing"

CollectContext(t) ==
  /\ Alive /\ worker[t] = "launched" /\ MuFree
  /\ context' = [context EXCEPT ![t] = {d \in plan[t].deps : results[d] # 0}]
  /\ worker' = [worker EXCEPT ![t] = "asking"]
  /\ UNCHANGED <<pc, plan, cursor, batch, loopErrs, completed, results,
                 outcome, memory>>

\* Mutant: the error is not collected.
SubtaskFailsSilently(t) ==
  /\ Alive /\ worker[t] = "asking"
  /\ worker' = [worker EXCEPT ![t] = "failed"]
  /\ UNCHANGED <<pc, plan, cursor, batch, loopErrs, completed, results, context,
                 outcome, memory>>

SubtaskFails(t) ==
  /\ Alive /\ worker[t] = "asking"
  /\ worker' = [worker EXCEPT ![t] = "failed"]
  /\ loopErrs' = loopErrs \cup {t}
  /\ UNCHANGED <<pc, plan, cursor, batch, completed, results, context,
                 outcome, memory>>

\* Lock, write results, start writing completed.
StartStore(t) ==
  /\ Alive /\ worker[t] = "asking" /\ MuFree
  /\ worker' = [worker EXCEPT ![t] = "storing"]
  /\ results' = [results EXCEPT ![plan[t].id] = t]
  /\ UNCHANGED <<pc, plan, cursor, batch, loopErrs, completed, context,
                 outcome, memory>>

\* The entry of completed is there; unlock, wg.Done.
EndStore(t) ==
  /\ Alive /\ worker[t] = "storing"
  /\ worker' = [worker EXCEPT ![t] = "stored"]
  /\ completed' = completed \cup {plan[t].id}
  /\ UNCHANGED <<pc, plan, cursor, batch, loopErrs, results, context,
                 outcome, memory>>

\* The Go runtime aborts the process when it sees the unlocked read of
\* `completed` overlap a write ("concurrent map read and map write").
ReadsCompleted == \/ pc = "scan" /\ cursor <= Len(plan)
                  \/ pc = "deps" /\ plan[cursor].deps # {}

MapFault ==
  /\ ReadsCompleted /\ ~ MuFree
  /\ pc' = "fault"
  /\ UNCHANGED <<plan, cursor, batch, loopErrs, shared, outcome, memory>>

-----------------------------------------------------------------------------
Main == Decompose \/ Loop \/ Scan \/ Deps \/ Wait \/ Synthesize
Worker(t) == CollectContext(t) \/ SubtaskFails(t) \/ StartStore(t) \/ EndStore(t)
Ended == pc \in {"done", "fault"} /\ UNCHANGED vars

Next == Main \/ (\E t \in Slot : Worker(t)) \/ MapFault \/ Ended

Spec == Init /\ [][Next]_vars

\* The Go scheduler runs every goroutine that can run, and every provider call
\* and tool call a worker makes ends (their HTTP clients and tools time out).
FairSpec == Spec /\ WF_vars(Main) /\ \A t \in Slot : WF_vars(Worker(t))

-----------------------------------------------------------------------------
\* A plan the loop can finish: distinct identifiers, every dependency the
\* identifier of a task of the plan, and no set of tasks each of which waits
\* for another of the set.
DistinctIds == \A t, u \in Task : plan[t].id = plan[u].id => t = u
DepsExist == \A t \in Task : \A d \in plan[t].deps :
               \E u \in Task : plan[u].id = d
Acyclic == \A S \in SUBSET Task : S # {} =>
             \E t \in S : \A u \in S : plan[u].id \notin plan[t].deps
WellFormed == DistinctIds /\ DepsExist /\ Acyclic

\* A subtask is launched only when every task it depends on has completed, and
\* the prompt its worker sends carries the result of each of them, whatever the
\* unlocked reads of the scan overlap with.
DependenciesFirst ==
  \A t \in Task : worker[t] # "idle" =>
    /\ plan[t].deps \subseteq completed
    /\ worker[t] # "launched" => context[t] = plan[t].deps

\* Execute never returns, and never starts another batch or the synthesizer,
\* while a worker it launched still runs.
NoStrayWorker == pc \in {"loop", "synthesize", "done"} => BatchDone

\* The synthesizer is reached, and an answer returned and remembered, only when
\* every subtask has stored its own result and none has failed.
AnswerIsComplete ==
  /\ pc = "synthesize" \/ outcome = "answer" =>
       \A t \in Task : worker[t] = "stored" /\ results[plan[t].id] = t
  /\ memory # << >> <=> outcome \in {"answer", "empty"}

\* A well-formed plan is never reported as a deadlock: with no failure it runs
\* to the end; and a plan that is not well formed is never answered, so the
\* verdict tells the two apart.
VerdictIsExact == /\ outcome = "deadlock" => ~ WellFormed
                  /\ outcome = "answer" => WellFormed

\* No subtask is ever launched twice, not even in a later batch.
LaunchedOnce ==
  [][\A t \in Slot :
       worker[t] # "idle" /\ worker'[t] = "launched" => worker[t] = "launched"]_vars

\* Execute ends: it returns, or the process aborts.
ExecuteEnds == <>(pc \in {"done", "fault"})

\* The map written under mu is never read while it is written.
NoMapFault == pc # "fault"

-----------------------------------------------------------------------------
\* The refinement of TaskGraph: a subtask has finished when its entry is in
\* `completed`.
Ids(S) == {plan[t].id : t \in S}
Finished == {t \in Slot : worker[t] = "stored"}
Verdict == IF outcome \in {"answer", "empty"} THEN "answer"
           ELSE IF outcome \in {"error", "deadlock"} THEN "error" ELSE "none"

G == INSTANCE TaskGraph WITH finished <- Finished, verdict <- Verdict

\* Execute runs the graph as TaskGraph promises: dependencies first, an answer
\* only when every subtask has finished.
ImplementsTaskGraph == G!GSpec
=============================================================================
