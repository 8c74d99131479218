-------------------------- MODULE Orchestrator_proof --------------------------
(***************************************************************************)
(* Proofs about Orchestrator: for every set of identifiers and every bound *)
(* on the length of a plan.                                                *)
(***************************************************************************)
EXTENDS Orchestrator, FiniteSetTheorems, TLAPS

\* The subtasks whose goroutine has stored its result.
Stored == {t \in Task : worker[t] = "stored"}

\* Where the goroutines can be, given where the caller is.
Launched ==
  /\ \A t \in Slot : worker[t] # "idle" => t \in Task
  /\ pc = "plan" => plan = << >>
  /\ pc = "deps" => cursor \in Task

\* The scan has not launched, in this batch, any subtask it has yet to come to.
Ahead ==
  /\ pc = "deps" => worker[cursor] = "idle"
  /\ pc \in {"scan", "deps"} =>
       \A t \in Slot : t >= cursor => worker[t] \in {"idle", "stored"}

\* The two maps agree with what the workers did.
Entries ==
  /\ completed = Ids(Stored)
  /\ \A d \in completed : results[d] # 0
  /\ \A t \in Task : worker[t] = "storing" => results[plan[t].id] # 0
  /\ \A d \in Id : results[d] # 0 =>
       /\ results[d] \in Task /\ plan[results[d]].id = d
       /\ worker[results[d]] \in {"storing", "stored"}

\* A failure is in loopErrs until the batch ends, and then the call has failed.
Failures ==
  /\ \A t \in Slot : worker[t] = "failed" =>
       \/ pc \in {"scan", "deps", "wait", "fault"} /\ t \in loopErrs
       \/ pc = "done" /\ outcome = "error"
  /\ outcome # "none" <=> pc = "done"

\* The synthesizer is reached only with as many entries as there are subtasks.
Synthesis ==
  pc = "synthesize" \/ outcome = "answer" => ~ Unfinished

Remembered == memory # << >> <=> outcome \in {"answer", "empty"}

Shape == TypeOK /\ Launched

IInv == /\ Shape /\ Ahead /\ Entries /\ Failures /\ Synthesis /\ Remembered
        /\ DependenciesFirst /\ NoStrayWorker

-----------------------------------------------------------------------------
LEMMA PlanShape ==
  ASSUME NEW p \in Plans
  PROVE  /\ Len(p) \in Nat /\ Len(p) <= MaxTasks
         /\ p \in [1 .. Len(p) -> Subtask]
<1>1. PICK n \in 0 .. MaxTasks : p \in [1 .. n -> Subtask]
  BY DEF Plans
<1>2. p \in Seq(Subtask) /\ Len(p) = n
  BY <1>1, SizeAssumption
<1>. QED
  BY <1>1, <1>2, SizeAssumption

LEMMA EmptyPlan == << >> \in Plans /\ Len(<< >>) = 0
<1>1. << >> \in [1 .. 0 -> Subtask]
  OBVIOUS
<1>. QED
  BY <1>1, SizeAssumption DEF Plans

LEMMA TaskSlots == TypeOK => Len(plan) \in Nat /\ Task \subseteq Slot
  BY PlanShape, SizeAssumption DEF TypeOK, Task, Slot

\* What a plan the caller adopts, or keeps, says of the subtask at a position.
LEMMA TaskShape ==
  ASSUME TypeOK, NEW t \in Task
  PROVE  plan[t].id \in Id /\ plan[t].deps \subseteq Id /\ t \in Slot
  BY PlanShape, TaskSlots DEF TypeOK, Task, Subtask

\* Returning, with any outcome, leaves a conversation of messages.
LEMMA ReturnKeepsMemory ==
  ASSUME memory \in Seq({"user", "assistant"}), NEW o, Return(o)
  PROVE  memory' \in Seq({"user", "assistant"})
<1>. DEFINE Msgs == Seq({"user", "assistant"})
<1>1. <<"user", "assistant">> \in Msgs
  OBVIOUS
<1>2. memory \o <<"user", "assistant">> \in Msgs
  BY <1>1
<1>. QED
  BY <1>2 DEF Return

LEMMA InitShape == Init => Shape
  BY EmptyPlan, SizeAssumption
     DEF Init, Shape, Launched, TypeOK, WorkerState, Outcome, Slot

\* The variables keep their types, whatever plan the model submits, and only
\* subtasks of the plan are launched.
LEMMA ShapeInvariant == Spec => []Shape
<1>. USE SizeAssumption DEF Shape, Launched
<1>1. Init => Shape
  BY InitShape
<1>2. ASSUME Shape, [Next]_vars
      PROVE  Shape'
  <2>0. Len(plan) \in Nat /\ Task \subseteq Slot /\ Len(plan) <= MaxTasks
    BY <1>2, TaskSlots, PlanShape DEF TypeOK
  <2>. USE <1>2, <2>0 DEF TypeOK, WorkerState, Outcome, shared
  <2>1. CASE Decompose
    <3>1. \A t \in Slot : worker[t] = "idle"
      BY <2>1, EmptyPlan DEF Decompose, Task
    <3>0. memory' \in Seq({"user", "assistant"})
      BY <2>1, ReturnKeepsMemory DEF Decompose
    <3>2. CASE plan' = plan
      BY <3>0, <2>1, <3>1, <3>2 DEF Decompose, Return, Task
    <3>3. CASE plan' \in Plans \ {<< >>} /\ pc' = "loop" /\ UNCHANGED <<outcome, memory>>
      BY <3>0, <2>1, <3>1, <3>3 DEF Decompose
    <3>. QED
      BY <2>1, <3>2, <3>3 DEF Decompose
  <2>2. CASE Loop
    BY <2>2 DEF Loop, Task
  <2>3. CASE Scan
    BY <2>3 DEF Scan, Slot, Task
  <2>4. CASE Deps
    <3>1. cursor \in Slot /\ cursor + 1 \in 1 .. MaxTasks + 1
      BY <2>4 DEF Deps, Slot, Task
    <3>2. TypeOK'
      BY <2>4, <3>1 DEF Deps
    <3>3. \A t \in Slot : worker'[t] # "idle" => worker[t] # "idle" \/ t = cursor
      BY <2>4, <3>1 DEF Deps
    <3>4. Launched'
      BY <2>4, <3>3 DEF Deps, Task
    <3>. QED
      BY <3>2, <3>4
  <2>5. CASE Wait
    BY <2>5 DEF Wait, Return, Task
  <2>6. CASE Synthesize
    <3>1. memory' \in Seq({"user", "assistant"})
      BY <2>6, ReturnKeepsMemory DEF Synthesize
    <3>. QED
      BY <2>6, <3>1 DEF Synthesize, Return, Task
  <2>7. ASSUME NEW t \in Slot, CollectContext(t)
        PROVE  Shape'
    <3>1. plan[t].deps \subseteq Id
      BY <2>7, TaskShape DEF CollectContext
    <3>. QED
      BY <2>7, <3>1 DEF CollectContext, Task
  <2>8. ASSUME NEW t \in Slot, SubtaskFails(t)
        PROVE  Shape'
    BY <2>8 DEF SubtaskFails, Task
  <2>9. ASSUME NEW t \in Slot, StartStore(t)
        PROVE  Shape'
    <3>1. plan[t].id \in Id
      BY <2>9, TaskShape DEF StartStore
    <3>. QED
      BY <2>9, <3>1 DEF StartStore, Slot, Task
  <2>10. ASSUME NEW t \in Slot, EndStore(t)
         PROVE  Shape'
    <3>1. plan[t].id \in Id
      BY <2>10, TaskShape DEF EndStore
    <3>. QED
      BY <2>10, <3>1 DEF EndStore, Task
  <2>11. CASE MapFault \/ UNCHANGED vars
    BY <2>11 DEF MapFault, vars, Task
  <2>. QED
    BY <1>2, <2>1, <2>2, <2>3, <2>4, <2>5, <2>6, <2>7, <2>8, <2>9, <2>10, <2>11
       DEF Next, Main, Worker, Ended
<1>. QED
  BY <1>1, <1>2, PTL DEF Spec

\* Every variable of Orchestrator keeps its type.
THEOREM TypeCorrect == Spec => []TypeOK
  BY ShapeInvariant, PTL DEF Shape
-----------------------------------------------------------------------------
\* The caller's steps that only move its own cursor.
LEMMA CallerStep ==
  ASSUME IInv, Shape', Loop \/ Scan \/ MapFault \/ UNCHANGED vars
  PROVE  IInv'
<1>. USE SizeAssumption DEF IInv
<1>1. Stored' = Stored /\ Ids(Stored)' = Ids(Stored) /\ Unfinished' = Unfinished
  BY DEF Loop, Scan, MapFault, vars, shared, Stored, Ids, Task, Unfinished
<1>2. UNCHANGED <<plan, shared, outcome, memory>>
  BY DEF Loop, Scan, MapFault, vars, shared
<1>3. Entries' /\ DependenciesFirst' /\ Remembered'
  <2>1. Entries'
    BY <1>1, <1>2 DEF Entries, Task, shared
  <2>2. DependenciesFirst'
    BY <1>2 DEF DependenciesFirst, Task, shared
  <2>3. Remembered'
    BY <1>2 DEF Remembered
  <2>. QED
    BY <2>1, <2>2, <2>3
<1>4. Failures'
  BY <1>2 DEF Failures, NoStrayWorker, Loop, Scan, MapFault, vars, shared,
              ReadsCompleted
<1>5. Synthesis' /\ NoStrayWorker'
  BY <1>1, <1>2 DEF Synthesis, NoStrayWorker, BatchDone, Loop, Scan, MapFault,
                   vars, shared, Failures, ReadsCompleted
<1>6. Ahead'
  <2>1. CASE Loop
    <3>1. ASSUME NEW t \in Slot
          PROVE  worker[t] \in {"idle", "stored"}
      <4>1. worker[t] \notin {"launched", "asking", "storing"}
        BY <2>1 DEF Loop, NoStrayWorker, BatchDone, Running
      <4>2. worker[t] # "failed"
        BY <2>1 DEF Loop, Failures
      <4>. QED
        BY <4>1, <4>2 DEF Shape, TypeOK, WorkerState
    <3>. QED
      BY <2>1, <3>1, <1>2 DEF Loop, Ahead, shared
  <2>2. CASE Scan
    <3>1. ASSUME plan[cursor].id \notin completed, cursor <= Len(plan)
          PROVE  worker[cursor] = "idle"
      <4>0. Len(plan) \in Nat /\ Task \subseteq Slot /\ cursor \in 1 .. MaxTasks + 1
        BY TaskSlots DEF Shape, TypeOK
      <4>1. cursor \in Task /\ cursor \in Slot
        BY <3>1, <4>0 DEF Task
      <4>2. cursor \notin Stored
        BY <3>1 DEF Entries, Ids
      <4>3. worker[cursor] \in {"idle", "stored"}
        BY <2>2, <4>1 DEF Scan, Ahead, Slot
      <4>. QED
        BY <4>1, <4>2, <4>3 DEF Stored
    <3>2. cursor' \in Nat /\ cursor' >= cursor /\ cursor \in Nat
      BY <2>2 DEF Scan, Shape, TypeOK
    <3>3. \A t \in Slot : t >= cursor' => t >= cursor
      BY <3>2 DEF Slot
    <3>. QED
      BY <2>2, <1>2, <3>1, <3>3 DEF Scan, Ahead, shared
  <2>3. CASE MapFault \/ UNCHANGED vars
    BY <2>3 DEF MapFault, vars, Ahead, shared
  <2>. QED
    BY <2>1, <2>2, <2>3
<1>. QED
  BY <1>3, <1>4, <1>5, <1>6

\* Launching a subtask, or passing over one that is not ready.
LEMMA DepsStep ==
  ASSUME IInv, Shape', Deps
  PROVE  IInv'
<1>. USE SizeAssumption DEF IInv
<1>1. cursor \in Task /\ cursor \in Slot /\ worker[cursor] = "idle"
  BY TaskSlots DEF Deps, Shape, Launched, Ahead
<1>2. \A t \in Slot : \/ worker'[t] = worker[t]
                      \/ t = cursor /\ worker'[t] = "launched" /\ Ready(t)
  BY <1>1 DEF Deps, Shape, TypeOK
<1>3. Stored' = Stored /\ Ids(Stored)' = Ids(Stored)
  <2>1. plan' = plan /\ Task' = Task /\ Task \subseteq Slot
    BY TaskSlots DEF Deps, Task, Shape
  <2>2. \A t \in Task : worker'[t] = "stored" <=> worker[t] = "stored"
    BY <1>1, <1>2, <2>1
  <2>3. Stored' = Stored
    BY <2>1, <2>2 DEF Stored
  <2>. QED
    BY <2>1, <2>3 DEF Ids
<1>4. Ahead'
  <2>1. pc' = "scan" /\ cursor' = cursor + 1 /\ cursor \in Nat
    BY DEF Deps, Shape, TypeOK
  <2>2. \A t \in Slot : t >= cursor' => t >= cursor /\ t # cursor
    BY <2>1 DEF Slot
  <2>. QED
    BY <2>1, <2>2, <1>2 DEF Ahead, Deps
<1>5. Entries'
  <2>1. UNCHANGED <<plan, completed, results>> /\ completed' = Ids(Stored)'
    BY <1>3 DEF Deps, Entries
  <2>2. \A t \in Task : worker[t] \in {"storing", "stored"} => worker'[t] = worker[t]
    BY <1>1, <1>2, TaskSlots DEF Shape
  <2>3. \A t \in Task : worker'[t] = "storing" => worker[t] = "storing"
    BY <1>1, <1>2, TaskSlots DEF Shape
  <2>. QED
    BY <2>1, <2>2, <2>3 DEF Entries, Task
<1>6. Failures' /\ NoStrayWorker'
  BY <1>2 DEF Deps, Failures, NoStrayWorker
<1>7. Synthesis' /\ Remembered'
  BY DEF Deps, Synthesis, Remembered, Unfinished, Failures
<1>8. DependenciesFirst'
  BY <1>1, <1>2, TaskSlots DEF Deps, DependenciesFirst, Ready, Task, Shape
<1>. QED
  BY <1>4, <1>5, <1>6, <1>7, <1>8

\* Ending the call.
LEMMA ReturnStep ==
  ASSUME IInv, Shape', NEW o \in Outcome \ {"none"}, Return(o),
         pc \in {"plan", "wait", "synthesize"}, BatchDone,
         o = "answer" => ~ Unfinished,
         (\E t \in Slot : worker[t] = "failed") => o = "error",
         UNCHANGED <<plan, cursor, batch, loopErrs, shared>>
  PROVE  IInv'
<1>. USE DEF IInv
<1>1. Entries'
  BY DEF Entries, Stored, Ids, Task, shared
<1>2. DependenciesFirst'
  BY DEF DependenciesFirst, Task, shared
<1>3. Ahead' /\ NoStrayWorker'
  BY DEF Ahead, NoStrayWorker, BatchDone, Return, shared
<1>4. outcome = "none" /\ outcome' = o /\ pc' = "done"
  BY DEF Failures, Return
<1>5. Failures' /\ Synthesis'
  BY <1>4 DEF Failures, Synthesis, Unfinished, shared
<1>6. Remembered'
  <2>1. memory = << >>
    BY <1>4 DEF Remembered
  <2>2. << >> \o <<"user", "assistant">> # << >>
    OBVIOUS
  <2>. QED
    BY <2>1, <2>2, <1>4 DEF Remembered, Return
<1>. QED
  BY <1>1, <1>2, <1>3, <1>5, <1>6

\* The planner's answer.
LEMMA DecomposeStep ==
  ASSUME IInv, Shape', Decompose
  PROVE  IInv'
<1>. USE SizeAssumption DEF IInv
<1>1. plan = << >> /\ Stored = {} /\ \A t \in Slot : worker[t] = "idle"
  BY EmptyPlan DEF Decompose, Shape, Launched, Task, Stored
<1>2. BatchDone
  BY <1>1 DEF BatchDone, Running
<1>3. CASE Return("error") /\ UNCHANGED plan
  BY <1>1, <1>2, <1>3, ReturnStep DEF Decompose, Outcome
<1>4. CASE Return("empty") /\ UNCHANGED plan
  BY <1>1, <1>2, <1>4, ReturnStep DEF Decompose, Outcome
<1>5. CASE plan' \in Plans \ {<< >>} /\ pc' = "loop" /\ UNCHANGED <<outcome, memory>>
  <2>0. Task' \subseteq Slot
    <3>1. Len(plan') \in Nat /\ Len(plan') <= MaxTasks
      BY <1>5, PlanShape
    <3>. QED
      BY <3>1 DEF Task, Slot
  <2>1. UNCHANGED shared /\ Stored' = {}
    BY <2>0, <1>1 DEF Decompose, Stored, shared
  <2>2. completed = {} /\ \A d \in Id : results[d] = 0
    BY <1>1, TaskSlots DEF Entries, Ids, Shape
  <2>3. Entries'
    BY <1>1, <2>0, <2>1, <2>2 DEF Entries, Ids, shared
  <2>4. DependenciesFirst' /\ NoStrayWorker'
    BY <1>1, <1>2, <2>1, <2>0 DEF DependenciesFirst, NoStrayWorker, BatchDone, shared
  <2>5. Failures' /\ Synthesis' /\ Remembered' /\ Ahead'
    BY <1>1, <1>5, <2>1 DEF Failures, Synthesis, Remembered, Ahead, shared, Decompose
  <2>. QED
    BY <2>3, <2>4, <2>5
<1>. QED
  BY <1>3, <1>4, <1>5 DEF Decompose

\* The end of a batch.
LEMMA WaitStep ==
  ASSUME IInv, Shape', Wait \/ Synthesize
  PROVE  IInv'
<1>. USE SizeAssumption DEF IInv
<1>1. BatchDone
  BY DEF Wait, Synthesize, NoStrayWorker
<1>2. UNCHANGED <<plan, cursor, batch, loopErrs, shared>>
  BY DEF Wait, Synthesize
<1>3. CASE Wait /\ loopErrs = {} /\ pc' = "loop" /\ UNCHANGED <<outcome, memory>>
  <2>1. Entries' /\ DependenciesFirst'
    BY <1>2 DEF Entries, Stored, Ids, DependenciesFirst, Task, shared
  <2>2. Failures' /\ NoStrayWorker' /\ Ahead'
    BY <1>1, <1>2, <1>3 DEF Wait, Failures, NoStrayWorker, BatchDone, Ahead, shared
  <2>3. Synthesis' /\ Remembered'
    BY <1>2, <1>3 DEF Wait, Synthesis, Remembered, Unfinished, shared
  <2>. QED
    BY <2>1, <2>2, <2>3
<1>4. CASE Wait /\ loopErrs # {} /\ Return("error")
  BY <1>1, <1>2, <1>4, ReturnStep DEF Wait, Outcome
<1>5. CASE Wait /\ loopErrs = {} /\ Return("deadlock")
  <2>1. \A t \in Slot : worker[t] # "failed"
    BY <1>5 DEF Wait, Failures
  <2>. QED
    BY <1>1, <1>2, <1>5, <2>1, ReturnStep DEF Wait, Outcome
<1>6. CASE Synthesize
  <2>1. ~ Unfinished /\ pc = "synthesize" /\ \A t \in Slot : worker[t] # "failed"
    BY <1>6 DEF Synthesize, Failures, Synthesis
  <2>2. PICK o \in {"answer", "error"} : Return(o)
    BY <1>6 DEF Synthesize
  <2>. QED
    BY <1>1, <1>2, <2>1, <2>2, ReturnStep DEF Outcome
<1>. QED
  BY <1>3, <1>4, <1>5, <1>6 DEF Wait

-----------------------------------------------------------------------------
\* The steps of a worker.
LEMMA WorkerStep ==
  ASSUME IInv, Shape', NEW t \in Slot, Worker(t)
  PROVE  IInv'
<1>. USE SizeAssumption DEF IInv
<1>1. /\ t \in Task /\ plan[t].id \in Id /\ plan[t].deps \subseteq Id
      /\ Task \subseteq Slot
  BY TaskShape, TaskSlots DEF Shape, Launched, Worker, CollectContext, SubtaskFails,
                              StartStore, EndStore
<1>2. /\ worker[t] \in Running /\ pc \in {"scan", "deps", "wait"}
      /\ UNCHANGED <<pc, plan, cursor, batch, outcome, memory>>
      /\ \A u \in Slot \ {t} : worker'[u] = worker[u]
      /\ worker'[t] \in {"asking", "failed", "storing", "stored"}
  <2>1. worker[t] \in Running
    BY DEF Worker, CollectContext, SubtaskFails, StartStore, EndStore, Running
  <2>2. pc \in {"scan", "deps", "wait"}
    BY <2>1, <1>1, EmptyPlan DEF NoStrayWorker, BatchDone, Worker, CollectContext,
       SubtaskFails, StartStore, EndStore, Alive, Shape, TypeOK, Launched, Task
  <2>. QED
    BY <2>1, <2>2 DEF Worker, CollectContext, SubtaskFails, StartStore, EndStore,
                      Shape, TypeOK
<1>3. NoStrayWorker' /\ Synthesis' /\ Remembered'
  BY <1>2 DEF NoStrayWorker, Synthesis, Remembered, Failures
<1>4. Ahead'
  BY <1>2, <1>1 DEF Ahead, Running, Shape, TypeOK, Launched, Slot
<1>5. Failures'
  BY <1>2 DEF Failures, Worker, CollectContext, SubtaskFails, StartStore, EndStore,
              Shape, TypeOK
<1>6. DependenciesFirst'
  <2>1. completed \subseteq completed'
    BY DEF Worker, CollectContext, SubtaskFails, StartStore, EndStore
  <2>2. \A u \in Task \ {t} : context'[u] = context[u]
    BY <1>1 DEF Worker, CollectContext, SubtaskFails, StartStore, EndStore, Shape, TypeOK
  <2>3. CASE CollectContext(t)
    <3>1. plan[t].deps \subseteq completed
      BY <1>1, <1>2 DEF DependenciesFirst, Running
    <3>2. context'[t] = {d \in plan[t].deps : results[d] # 0}
      BY <2>3, <1>1 DEF CollectContext, Shape, TypeOK
    <3>3. context'[t] = plan[t].deps
      BY <3>1, <3>2 DEF Entries
    <3>. QED
      BY <3>1, <3>3, <2>1, <2>2, <1>1, <1>2 DEF DependenciesFirst, Task
  <2>4. CASE ~ CollectContext(t)
    <3>1. context' = context /\ worker[t] \in {"asking", "storing"}
      BY <2>4 DEF Worker, SubtaskFails, StartStore, EndStore
    <3>. QED
      BY <3>1, <2>1, <1>1, <1>2 DEF DependenciesFirst, Task
  <2>. QED
    BY <2>3, <2>4
<1>7. Entries'
  <2>1. CASE EndStore(t)
    <3>1. Stored' = Stored \cup {t} /\ completed' = completed \cup {plan[t].id}
      BY <2>1, <1>1, <1>2 DEF EndStore, Stored, Task, Shape, TypeOK
    <3>2. completed' = Ids(Stored)'
      BY <3>1, <1>2 DEF Entries, Ids
    <3>. QED
      BY <2>1, <3>2, <1>1, <1>2 DEF EndStore, Entries, Task
  <2>2. CASE StartStore(t)
    <3>1. Stored' = Stored /\ completed' = completed
      BY <2>2, <1>1, <1>2 DEF StartStore, Stored, Task, Shape, TypeOK
    <3>. QED
      BY <2>2, <3>1, <1>1, <1>2 DEF StartStore, Entries, Task, Ids, Shape, TypeOK, Slot
  <2>3. CASE CollectContext(t) \/ SubtaskFails(t)
    <3>1. Stored' = Stored /\ completed' = completed /\ results' = results
      BY <2>3, <1>1, <1>2 DEF CollectContext, SubtaskFails, Stored, Task, Shape, TypeOK
    <3>. QED
      <4>1. worker[t] \in {"launched", "asking"} /\ worker'[t] \in {"asking", "failed"}
        BY <2>3 DEF CollectContext, SubtaskFails, Shape, TypeOK
      <4>2. \A u \in Task : worker[u] \in {"storing", "stored"} <=>
                            worker'[u] \in {"storing", "stored"}
        BY <4>1, <1>1, <1>2
      <4>3. \A u \in Task : worker'[u] = "storing" => worker[u] = "storing"
        BY <4>1, <1>1, <1>2
      <4>4. completed' = Ids(Stored)'
        BY <3>1, <1>2 DEF Entries, Ids
      <4>. QED
        BY <3>1, <4>2, <4>3, <4>4, <1>2 DEF Entries, Task
  <2>. QED
    BY <2>1, <2>2, <2>3 DEF Worker
<1>. QED
  BY <1>3, <1>4, <1>5, <1>6, <1>7

\* The inductive invariant.
THEOREM Inductive == Spec => []IInv
<1>1. Init => IInv
  <2>. SUFFICES ASSUME Init, Shape PROVE IInv
    BY InitShape
  <2>. QED
    BY EmptyPlan DEF Init, IInv, Ahead, Entries, Failures, Synthesis, Remembered,
       DependenciesFirst, NoStrayWorker, BatchDone, Running, Stored, Ids, Task, Unfinished
<1>2. IInv /\ [Next]_vars /\ Shape' => IInv'
  <2>. SUFFICES ASSUME IInv, [Next]_vars, Shape' PROVE IInv'
    OBVIOUS
  <2>1. CASE Loop \/ Scan \/ MapFault \/ UNCHANGED vars
    BY <2>1, CallerStep
  <2>2. CASE Deps
    BY <2>2, DepsStep
  <2>3. CASE Decompose
    BY <2>3, DecomposeStep
  <2>4. CASE Wait \/ Synthesize
    BY <2>4, WaitStep
  <2>5. CASE \E t \in Slot : Worker(t)
    BY <2>5, WorkerStep
  <2>. QED
    BY <2>1, <2>2, <2>3, <2>4, <2>5 DEF Next, Main, Ended
<1>. QED
  BY <1>1, <1>2, ShapeInvariant, PTL DEF Spec

-----------------------------------------------------------------------------
\* A map from positions among 1..n that has at least n values is defined on all
\* of them and never repeats a value.
LEMMA FullImage ==
  ASSUME NEW n \in Nat, NEW S \in SUBSET (1 .. n), NEW T,
         NEW f \in Surjection(S, T), ~ (Cardinality(T) < n)
  PROVE  S = 1 .. n /\ f \in Injection(S, T)
<1>1. IsFiniteSet(1 .. n) /\ Cardinality(1 .. n) = n
  BY FS_Interval
<1>2. /\ IsFiniteSet(S) /\ Cardinality(S) <= n /\ Cardinality(S) \in Nat
      /\ Cardinality(S) = n => S = 1 .. n
  BY <1>1, FS_Subset, FS_CardinalityType
<1>3. /\ IsFiniteSet(T) /\ Cardinality(T) <= Cardinality(S)
      /\ Cardinality(T) = Cardinality(S) => f \in Injection(S, T)
  BY <1>2, FS_Surjection
<1>4. Cardinality(T) \in Nat
  BY <1>3, FS_CardinalityType
<1>. QED
  BY <1>2, <1>3, <1>4

\* Once the loop has as many entries as subtasks, each subtask has its own.
LEMMA AllStored ==
  ASSUME IInv, ~ Unfinished
  PROVE  /\ Stored = Task /\ DistinctIds
         /\ \A t \in Task : results[plan[t].id] = t
<1>. DEFINE f == [t \in Stored |-> plan[t].id]
<1>1. completed = Ids(Stored) /\ Len(plan) \in Nat /\ Stored \in SUBSET Task
  BY TaskSlots DEF IInv, Entries, Stored, Shape
<1>2. f \in Surjection(Stored, completed)
  BY <1>1 DEF Surjection, Ids
<1>3. Stored = Task /\ f \in Injection(Stored, completed)
  BY <1>1, <1>2, FullImage DEF Unfinished, Task
<1>4. DistinctIds
  BY <1>3 DEF Injection, IsInjective, DistinctIds
<1>5. ASSUME NEW t \in Task
      PROVE  results[plan[t].id] = t
  <2>1. plan[t].id \in completed /\ plan[t].id \in Id
    BY <1>1, <1>3, TaskShape DEF IInv, Shape, Ids
  <2>2. results[plan[t].id] \in Task /\ plan[results[plan[t].id]].id = plan[t].id
    BY <2>1 DEF IInv, Entries
  <2>. QED
    BY <2>2, <1>4 DEF DistinctIds
<1>. QED
  BY <1>3, <1>4, <1>5

\* Dependencies first, whatever the unlocked reads of the scan see.
THEOREM DependenciesAlwaysFirst == Spec => []DependenciesFirst
  BY Inductive, PTL DEF IInv

\* No batch ends, and no call returns, before its workers have.
THEOREM NoWorkerStrays == Spec => []NoStrayWorker
  BY Inductive, PTL DEF IInv

\* An answer is made of the result of every subtask, each stored by its own worker.
THEOREM AnswersAreComplete == Spec => []AnswerIsComplete
<1>1. IInv => AnswerIsComplete
  BY AllStored DEF IInv, AnswerIsComplete, Synthesis, Remembered, Stored
<1>. QED
  BY <1>1, Inductive, PTL

\* No subtask is launched twice.
THEOREM NeverRelaunched == Spec => LaunchedOnce
<1>1. ASSUME IInv, [Next]_vars, NEW t \in Slot, worker[t] # "idle",
             worker'[t] = "launched"
      PROVE  worker[t] = "launched"
  <2>1. CASE Deps
    BY <1>1, <2>1 DEF Deps, IInv, Ahead, Shape, TypeOK
  <2>2. CASE \E u \in Slot : Worker(u)
    BY <1>1, <2>2 DEF Worker, CollectContext, SubtaskFails, StartStore, EndStore,
                      IInv, Shape, TypeOK
  <2>3. CASE UNCHANGED worker
    BY <1>1, <2>3
  <2>. QED
    BY <1>1, <2>1, <2>2, <2>3
       DEF Next, Main, Decompose, Loop, Scan, Wait, Synthesize, MapFault, Ended, vars, shared
<1>2. IInv /\ [Next]_vars =>
        [\A t \in Slot : worker[t] # "idle" /\ worker'[t] = "launched"
                         => worker[t] = "launched"]_vars
  BY <1>1
<1>. QED
  BY <1>2, Inductive, PTL DEF Spec, LaunchedOnce

-----------------------------------------------------------------------------
\* Every goroutine at work, or that has failed, is of the batch under way.
Batched ==
  pc \in {"scan", "deps", "wait"} =>
    \A t \in Slot : worker[t] \in Running \cup {"failed"} => t \in batch

\* A subtask the scan has left where it is: it has a result, or waits for one.
LeftAlone(t) == plan[t].id \in completed \/ ~ Ready(t)

\* As long as the batch is empty, the scan has left alone all it came to.
PassedOver ==
  /\ pc \in {"scan", "deps"} /\ batch = {} =>
       \A t \in Task : t < cursor => LeftAlone(t)
  /\ pc = "wait" /\ batch = {} => \A t \in Task : LeftAlone(t)

\* Among the subtasks of S there is one that waits for none of them.
HasSource(S) == \E t \in S : \A u \in S : plan[u].id \notin plan[t].deps

\* Results come in an order in which no subtask waits for a later one.
Ordered == DistinctIds => \A S \in SUBSET Stored : S # {} => HasSource(S)

DeadlockIsReal == outcome = "deadlock" => ~ WellFormed

VerdictInv == Batched /\ PassedOver /\ Ordered /\ DeadlockIsReal

\* What a step that leaves the plan and the results alone keeps.
LEMMA SameResults ==
  ASSUME UNCHANGED <<plan, completed>>, Stored' = Stored
  PROVE  /\ Ordered => Ordered'
         /\ WellFormed' <=> WellFormed
         /\ \A t : LeftAlone(t)' <=> LeftAlone(t)
<1>1. Task' = Task /\ (DistinctIds' <=> DistinctIds)
  BY DEF Task, DistinctIds
<1>2. \A S : HasSource(S)' <=> HasSource(S)
  BY DEF HasSource
<1>3. Ordered => Ordered'
  BY <1>1, <1>2 DEF Ordered
<1>4. WellFormed' <=> WellFormed
  BY <1>1 DEF WellFormed, DepsExist, Acyclic
<1>5. \A t : LeftAlone(t)' <=> LeftAlone(t)
  BY DEF LeftAlone, Ready
<1>. QED
  BY <1>3, <1>4, <1>5

\* A batch that launched nothing, with subtasks left and none that failed: the
\* plan was not well formed, since a well-formed one has a subtask that waits
\* only for subtasks with results.
LEMMA StuckIsIllFormed ==
  ASSUME IInv, Unfinished, \A t \in Task : LeftAlone(t)
  PROVE  ~ WellFormed
<1>. SUFFICES ASSUME WellFormed PROVE FALSE
  OBVIOUS
<1>. DEFINE W == {t \in Task : plan[t].id \notin completed}
<1>1. Len(plan) \in Nat /\ completed = Ids(Stored) /\ Stored \subseteq Task
  BY TaskSlots DEF IInv, Shape, Entries, Stored
<1>2. W # {}
  <2>. SUFFICES ASSUME W = {} PROVE FALSE
    OBVIOUS
  <2>. DEFINE f == [t \in Task |-> plan[t].id]
  <2>1. \A t \in Task : f[t] \in completed
    OBVIOUS
  <2>2. \A i \in completed : \E t \in Task : f[t] = i
    BY <1>1 DEF Ids
  <2>3. \A t, u \in Task : f[t] = f[u] => t = u
    BY DEF WellFormed, DistinctIds
  <2>4. f \in Bijection(Task, completed)
    <3>1. f \in [Task -> completed]
      BY <2>1
    <3>. HIDE DEF f
    <3>. QED
      BY <2>2, <2>3, <3>1 DEF Bijection, Injection, Surjection, IsInjective
  <2>5. IsFiniteSet(1 .. Len(plan)) /\ Cardinality(1 .. Len(plan)) = Len(plan)
    <3>. DEFINE n == Len(plan)
    <3>1. n \in Nat
      BY <1>1
    <3>. HIDE DEF n
    <3>. QED
      BY <3>1, FS_Interval
  <2>6. Cardinality(completed) = Len(plan)
    <3>. HIDE DEF f
    <3>1. IsFiniteSet(Task) /\ Cardinality(Task) = Len(plan)
      BY <2>5 DEF Task
    <3>2. f \in Bijection(Task, completed)
      BY <2>4
    <3>. QED
      BY <3>1, <3>2, FS_Bijection DEF ExistsBijection
  <2>. QED
    BY <1>1, <2>6 DEF Unfinished
<1>3. PICK t \in W : \A u \in W : plan[u].id \notin plan[t].deps
  <2>1. W \in SUBSET Task
    OBVIOUS
  <2>. QED
    BY <1>2, <2>1 DEF WellFormed, Acyclic
<1>4. \A d \in plan[t].deps : d \in completed
  <2>1. \A d \in plan[t].deps : \E u \in Task : plan[u].id = d
    BY <1>3 DEF WellFormed, DepsExist
  <2>. QED
    BY <2>1, <1>3
<1>. QED
  BY <1>3, <1>4 DEF LeftAlone, Ready

LEMMA CallerVerdict ==
  ASSUME IInv, VerdictInv, Shape', Loop \/ Scan \/ MapFault \/ UNCHANGED vars
  PROVE  VerdictInv'
<1>. USE SizeAssumption DEF VerdictInv
<1>1. UNCHANGED <<plan, shared, outcome>> /\ Stored' = Stored
  BY DEF Loop, Scan, MapFault, vars, shared, Stored, Task
<1>2. /\ Ordered' /\ DeadlockIsReal'
      /\ Task' = Task /\ \A t : LeftAlone(t)' <=> LeftAlone(t)
  <2>1. Ordered' /\ (WellFormed' <=> WellFormed) /\ \A t : LeftAlone(t)' <=> LeftAlone(t)
    BY <1>1, SameResults DEF shared
  <2>. QED
    BY <1>1, <2>1 DEF DeadlockIsReal, Task
<1>3. CASE Loop
  <2>1. ASSUME NEW t \in Slot
        PROVE  worker[t] \notin Running \cup {"failed"}
    BY <1>3 DEF Loop, IInv, NoStrayWorker, BatchDone, Failures
  <2>2. pc' \in {"scan", "synthesize"} /\ cursor' = 1
    BY <1>3 DEF Loop
  <2>3. Batched'
    BY <1>1, <2>1 DEF Batched, shared
  <2>4. PassedOver'
    BY <2>2, <1>2 DEF PassedOver, Task
  <2>. QED
    BY <1>2, <2>3, <2>4
<1>4. CASE Scan
  <2>1. batch' = batch /\ worker' = worker /\ pc = "scan" /\ pc' \in {"scan", "deps", "wait"}
    BY <1>4 DEF Scan, shared
  <2>2. Batched'
    BY <2>1 DEF Batched
  <2>3. Len(plan) \in Nat /\ cursor \in Nat
    BY TaskSlots DEF IInv, Shape, TypeOK
  <2>4. ASSUME batch = {}, NEW t \in Task, t < cursor' \/ pc' = "wait"
        PROVE  LeftAlone(t)
    <3>1. t < cursor \/ plan[t].id \in completed
      BY <1>4, <2>3, <2>4 DEF Scan, Task
    <3>. QED
      BY <2>1, <2>4, <3>1 DEF PassedOver, LeftAlone
  <2>5. PassedOver'
    BY <1>2, <2>1, <2>4 DEF PassedOver
  <2>. QED
    BY <1>2, <2>2, <2>5
<1>5. CASE MapFault
  BY <1>2, <1>5 DEF MapFault, Batched, PassedOver
<1>6. CASE UNCHANGED vars
  <2>1. UNCHANGED <<pc, cursor, batch, worker>>
    BY <1>6 DEF vars
  <2>2. Batched'
    BY <2>1 DEF Batched
  <2>3. PassedOver'
    BY <2>1, <1>2 DEF PassedOver
  <2>. QED
    BY <1>2, <2>2, <2>3
<1>. QED
  BY <1>3, <1>4, <1>5, <1>6

LEMMA DepsVerdict ==
  ASSUME IInv, VerdictInv, Shape', Deps
  PROVE  VerdictInv'
<1>. USE SizeAssumption DEF VerdictInv
<1>1. cursor \in Task /\ cursor \in Slot /\ worker[cursor] = "idle" /\ cursor \in Nat
  BY TaskSlots DEF Deps, IInv, Shape, TypeOK, Launched, Ahead
<1>2. /\ UNCHANGED <<plan, completed, outcome>> /\ Task' = Task
      /\ pc' = "scan" /\ cursor' = cursor + 1 /\ pc = "deps"
  BY DEF Deps, Task
<1>3. batch \subseteq batch' /\ (Ready(cursor) => cursor \in batch')
  BY DEF Deps
<1>4. \A t \in Slot : worker'[t] = worker[t] \/ (t = cursor /\ t \in batch')
  <2>1. CASE worker' = [worker EXCEPT ![cursor] = "launched"] /\ cursor \in batch'
    BY <1>1, <2>1 DEF IInv, Shape, TypeOK
  <2>2. CASE worker' = worker
    BY <2>2
  <2>. QED
    BY <2>1, <2>2 DEF Deps
<1>5. worker'[cursor] \in {"idle", "launched"}
  BY <1>1 DEF Deps, IInv, Shape, TypeOK
<1>6. Stored' = Stored
  <2>1. \A t \in Task : worker[t] = "stored" <=> worker'[t] = "stored"
    <3>1. Task \subseteq Slot
      BY TaskSlots DEF IInv, Shape
    <3>. QED
      BY <1>1, <1>4, <1>5, <3>1
  <2>. QED
    BY <1>2, <2>1 DEF Stored
<1>7. /\ Ordered' /\ DeadlockIsReal' /\ \A t : LeftAlone(t)' <=> LeftAlone(t)
  BY <1>2, <1>6, SameResults DEF DeadlockIsReal
<1>8. Batched'
  BY <1>2, <1>3, <1>4 DEF Batched
<1>9. ASSUME batch' = {}, NEW t \in Task, t < cursor'
      PROVE  LeftAlone(t)
  <2>1. t < cursor \/ t = cursor
    BY <1>1, <1>2, <1>9, TaskSlots DEF Task, IInv, Shape
  <2>. QED
    BY <1>2, <1>3, <1>9, <2>1 DEF PassedOver, LeftAlone
<1>10. PassedOver'
  BY <1>2, <1>7, <1>9 DEF PassedOver
<1>. QED
  BY <1>7, <1>8, <1>10

LEMMA DecomposeVerdict ==
  ASSUME IInv, VerdictInv, Shape', Decompose
  PROVE  VerdictInv'
<1>. USE DEF VerdictInv
<1>1. /\ pc' \in {"done", "loop"} /\ outcome' # "deadlock"
      /\ worker' = worker /\ \A t \in Slot : worker[t] = "idle"
  BY EmptyPlan DEF Decompose, Return, shared, IInv, Shape, Launched, Failures, Task
<1>2. Stored' = {}
  <2>1. Task' \subseteq Slot
    BY SizeAssumption, PlanShape, TaskSlots, EmptyPlan
       DEF Decompose, Task, Slot, IInv, Shape, TypeOK
  <2>. QED
    BY <1>1, <2>1 DEF Stored
<1>3. Ordered' /\ DeadlockIsReal'
  BY <1>1, <1>2 DEF Ordered, DeadlockIsReal
<1>. QED
  BY <1>1, <1>3 DEF Batched, PassedOver

LEMMA WaitVerdict ==
  ASSUME IInv, VerdictInv, Shape', Wait \/ Synthesize
  PROVE  VerdictInv'
<1>. USE DEF VerdictInv
<1>1. UNCHANGED <<plan, completed, worker>> /\ Stored' = Stored /\ pc' \in {"done", "loop"}
  BY DEF Wait, Synthesize, Return, shared, Stored, Task
<1>2. Ordered' /\ (WellFormed' <=> WellFormed)
  BY <1>1, SameResults
<1>3. DeadlockIsReal'
  <2>1. CASE outcome' # "deadlock"
    BY <2>1 DEF DeadlockIsReal
  <2>2. CASE outcome' = outcome
    BY <2>2, <1>2 DEF DeadlockIsReal
  <2>3. CASE Wait /\ batch = {} /\ Unfinished
    <3>1. \A t \in Task : LeftAlone(t)
      BY <2>3 DEF Wait, PassedOver
    <3>. QED
      BY <2>3, <3>1, <1>2, StuckIsIllFormed DEF DeadlockIsReal
  <2>. QED
    BY <2>1, <2>2, <2>3 DEF Wait, Synthesize, Return
<1>. QED
  BY <1>1, <1>2, <1>3 DEF Batched, PassedOver

LEMMA WorkerVerdict ==
  ASSUME IInv, VerdictInv, Shape', NEW t \in Slot, Worker(t)
  PROVE  VerdictInv'
<1>. USE SizeAssumption DEF VerdictInv
<1>1. t \in Task /\ Task \subseteq Slot
  BY TaskSlots DEF IInv, Shape, Launched, Worker, CollectContext, SubtaskFails,
                   StartStore, EndStore
<1>2. /\ worker[t] \in Running
      /\ UNCHANGED <<pc, plan, cursor, batch, outcome>> /\ Task' = Task
      /\ \A u \in Slot \ {t} : worker'[u] = worker[u]
  BY DEF Worker, CollectContext, SubtaskFails, StartStore, EndStore, IInv, Shape,
         TypeOK, Running, Task
<1>3. pc \in {"scan", "deps", "wait"} /\ t \in batch
  <2>1. pc \in {"scan", "deps", "wait"}
    BY <1>1, <1>2, EmptyPlan DEF NoStrayWorker, BatchDone, Worker, CollectContext,
       SubtaskFails, StartStore, EndStore, Alive, IInv, Shape, TypeOK, Launched, Task
  <2>. QED
    BY <1>2, <2>1 DEF Batched
<1>4. Batched'
  BY <1>2, <1>3 DEF Batched
<1>5. PassedOver'
  BY <1>2, <1>3 DEF PassedOver
<1>6. DeadlockIsReal'
  BY <1>2, <1>3 DEF DeadlockIsReal, IInv, Failures
<1>7. CASE ~ EndStore(t)
  <2>1. completed' = completed /\ worker'[t] # "stored"
    BY <1>7 DEF Worker, CollectContext, SubtaskFails, StartStore, IInv, Shape, TypeOK
  <2>2. Stored' = Stored
    BY <1>1, <1>2, <2>1 DEF Stored, Running
  <2>3. Ordered'
    BY <2>1, <2>2, <1>2, SameResults
  <2>. QED
    BY <1>4, <1>5, <1>6, <2>3
<1>8. CASE EndStore(t)
  <2>1. Stored' = Stored \cup {t} /\ t \notin Stored
    BY <1>1, <1>2, <1>8 DEF EndStore, Stored, IInv, Shape, TypeOK
  <2>2. plan[t].deps \subseteq Ids(Stored)
    BY <1>1, <1>8 DEF EndStore, IInv, DependenciesFirst, Entries
  <2>3. ASSUME DistinctIds
        PROVE  \A u \in Stored \cup {t} : plan[t].id \notin plan[u].deps
    <3>1. plan[t].id \notin Ids(Stored)
      BY <1>1, <2>1, <2>3 DEF Ids, DistinctIds, Stored
    <3>2. \A u \in Stored : plan[u].deps \subseteq Ids(Stored)
      BY DEF IInv, DependenciesFirst, Entries, Stored
    <3>. QED
      BY <2>2, <3>1, <3>2
  <2>4. ASSUME DistinctIds, NEW S \in SUBSET (Stored \cup {t}), S # {}
        PROVE  HasSource(S)
    <3>1. CASE S \ {t} = {}
      BY <2>4, <2>3, <3>1 DEF HasSource
    <3>2. CASE S \ {t} # {}
      <4>1. HasSource(S \ {t})
        BY <2>4, <3>2 DEF Ordered
      <4>. QED
        BY <2>4, <2>3, <4>1 DEF HasSource
    <3>. QED
      BY <3>1, <3>2
  <2>5. (DistinctIds' <=> DistinctIds) /\ \A S : HasSource(S)' <=> HasSource(S)
    BY <1>2 DEF DistinctIds, HasSource
  <2>6. Ordered'
    BY <2>1, <2>4, <2>5 DEF Ordered
  <2>. QED
    BY <1>4, <1>5, <1>6, <2>6
<1>. QED
  BY <1>7, <1>8

\* A well-formed plan does not end in a deadlock, and only a well-formed one is
\* answered.
THEOREM VerdictsAreExact == Spec => []VerdictIsExact
<1>1. Init => VerdictInv
  <2>. SUFFICES ASSUME Init PROVE VerdictInv
    OBVIOUS
  <2>1. Stored = {}
    BY EmptyPlan DEF Init, Stored, Task
  <2>. QED
    BY <2>1 DEF Init, VerdictInv, Batched, PassedOver, Ordered, DeadlockIsReal
<1>2. IInv /\ VerdictInv /\ [Next]_vars /\ Shape' => VerdictInv'
  <2>. SUFFICES ASSUME IInv, VerdictInv, [Next]_vars, Shape' PROVE VerdictInv'
    OBVIOUS
  <2>1. CASE Loop \/ Scan \/ MapFault \/ UNCHANGED vars
    BY <2>1, CallerVerdict
  <2>2. CASE Deps
    BY <2>2, DepsVerdict
  <2>3. CASE Decompose
    BY <2>3, DecomposeVerdict
  <2>4. CASE Wait \/ Synthesize
    BY <2>4, WaitVerdict
  <2>5. CASE \E t \in Slot : Worker(t)
    BY <2>5, WorkerVerdict
  <2>. QED
    BY <2>1, <2>2, <2>3, <2>4, <2>5 DEF Next, Main, Ended
<1>3. IInv /\ VerdictInv => VerdictIsExact
  <2>. SUFFICES ASSUME IInv, VerdictInv PROVE VerdictIsExact
    OBVIOUS
  <2>1. ASSUME outcome = "answer"
        PROVE  WellFormed
    <3>1. Stored = Task /\ DistinctIds
      BY <2>1, AllStored DEF IInv, Synthesis
    <3>2. \A t \in Task : plan[t].deps \subseteq Ids(Task)
      BY <3>1 DEF IInv, DependenciesFirst, Entries, Stored
    <3>3. DepsExist
      BY <3>2 DEF DepsExist, Ids
    <3>4. Acyclic
      BY <3>1 DEF VerdictInv, Ordered, HasSource, Acyclic
    <3>. QED
      BY <3>1, <3>3, <3>4 DEF WellFormed
  <2>. QED
    BY <2>1 DEF VerdictInv, DeadlockIsReal, VerdictIsExact
<1>. QED
  BY <1>1, <1>2, <1>3, Inductive, ShapeInvariant, PTL DEF Spec

-----------------------------------------------------------------------------
LEMMA FinishedIsStored == Shape => Finished = Stored
  BY TaskSlots DEF Shape, Launched, Finished, Stored

LEMMA FinishedIsStoredNext == (Shape => Finished = Stored)'
  BY FinishedIsStored, PTL

\* Execute implements the abstract execution of a task graph.
THEOREM Refinement == Spec => ImplementsTaskGraph
<1>. USE SizeAssumption
<1>1. Init => G!GInit
  BY DEF Init, G!GInit, Finished, Verdict, Slot
<1>2. ASSUME IInv, IInv', [Next]_vars
      PROVE  [G!GNext]_(G!gvars)
  <2>. USE <1>2 DEF G!gvars
  <2>1. /\ Finished = Stored /\ Finished' = Stored'
        /\ Task \subseteq Slot /\ completed = Ids(Finished)
    <3>1. Finished = Stored /\ Finished' = Stored' /\ Task \subseteq Slot
      BY FinishedIsStored, FinishedIsStoredNext, TaskSlots DEF IInv, Shape
    <3>. QED
      BY <3>1 DEF IInv, Entries
  <2>2. ASSUME NEW o \in Outcome \ {"none"}, Return(o), UNCHANGED <<plan, shared>>,
               pc # "done", o \in {"answer", "empty"} => Stored = Task
        PROVE  G!GNext
    <3>1. Verdict = "none" /\ Finished' = Finished /\ plan' = plan
      <4>1. outcome = "none"
        BY <2>2 DEF IInv, Failures
      <4>. QED
        BY <2>2, <4>1 DEF Verdict, Finished, shared
    <3>2. CASE o \in {"answer", "empty"}
      BY <2>1, <2>2, <3>1, <3>2 DEF Return, Verdict, G!GNext, G!Answer, Task
    <3>3. CASE o \in {"error", "deadlock"}
      BY <2>2, <3>1, <3>3 DEF Return, Verdict, G!GNext, G!GiveUp
    <3>. QED
      BY <2>2, <3>2, <3>3 DEF Outcome
  <2>3. CASE Decompose
    <3>1. plan = << >> /\ Stored = Task /\ Stored = {}
      BY <2>3, EmptyPlan DEF Decompose, IInv, Shape, Launched, Stored, Task
    <3>2. ASSUME plan' \in Plans, pc' = "loop", UNCHANGED <<outcome, memory>>
          PROVE  G!GNext
      <4>1. plan' \in G!Plans
        <5>1. Len(plan') \in Nat /\ Len(plan') <= MaxTasks
              /\ plan' \in [1 .. Len(plan') -> Subtask]
          BY <3>2, PlanShape
        <5>2. plan' \in Seq(Subtask)
          BY <5>1
        <5>. QED
          BY <5>1, <5>2 DEF G!Plans, G!Subtask, Subtask
      <4>2. UNCHANGED <<Finished, Verdict>> /\ Verdict = "none"
        BY <2>3, <3>2 DEF Decompose, shared, Finished, Verdict, IInv, Failures
      <4>. QED
        BY <2>1, <3>1, <4>1, <4>2 DEF G!GNext, G!Adopt
    <3>. QED
      BY <2>2, <2>3, <3>1, <3>2 DEF Decompose, Outcome
  <2>4. CASE Wait
    <3>1. CASE \E o \in {"error", "deadlock"} : Return(o)
      BY <2>2, <2>4, <3>1 DEF Wait, Outcome
    <3>2. CASE UNCHANGED <<outcome, memory>>
      BY <2>4, <3>2 DEF Wait, shared, Finished, Verdict
    <3>. QED
      BY <2>4, <3>1, <3>2 DEF Wait
  <2>5. CASE Synthesize
    <3>1. Stored = Task
      BY <2>5, AllStored DEF Synthesize, IInv, Synthesis
    <3>. QED
      BY <2>2, <2>5, <3>1 DEF Synthesize, Outcome
  <2>6. CASE Loop \/ Scan \/ MapFault \/ Ended \/ UNCHANGED vars
    BY <2>6 DEF Loop, Scan, MapFault, Ended, vars, shared, Finished, Verdict
  <2>7. CASE Deps
    <3>1. Finished' = Finished
      BY <2>7, TaskSlots DEF Deps, IInv, Ahead, Shape, TypeOK, Launched, Finished
    <3>. QED
      BY <2>7, <3>1 DEF Deps, Verdict
  <2>8. ASSUME NEW t \in Slot, Worker(t)
        PROVE  [G!GNext]_(G!gvars)
    <3>1. t \in Task /\ UNCHANGED <<plan, Verdict>>
      BY <2>8 DEF Worker, CollectContext, SubtaskFails, StartStore, EndStore,
                  IInv, Shape, Launched, Verdict
    <3>2. CASE EndStore(t)
      <4>1. Finished' = Finished \cup {t} /\ t \notin Finished
        BY <2>8, <3>2 DEF EndStore, Finished, IInv, Shape, TypeOK
      <4>2. plan[t].deps \subseteq completed
        BY <3>1, <3>2 DEF EndStore, IInv, DependenciesFirst
      <4>3. Verdict = "none"
        BY <2>8, <3>2 DEF EndStore, IInv, Failures, NoStrayWorker, BatchDone,
                          Running, Verdict
      <4>4. G!Finish(t)
        BY <2>1, <3>1, <4>1, <4>2, <4>3 DEF G!Finish, G!Ids, Ids, Task
      <4>. QED
        BY <4>4 DEF G!GNext, G!Slot, Slot
    <3>3. CASE ~ EndStore(t)
      <4>1. Finished' = Finished
        BY <2>8, <3>3 DEF Worker, CollectContext, SubtaskFails, StartStore, Finished,
                          IInv, Shape, TypeOK
      <4>. QED
        BY <3>1, <4>1
    <3>. QED
      BY <3>2, <3>3
  <2>. QED
    BY <1>2, <2>3, <2>4, <2>5, <2>6, <2>7, <2>8 DEF Next, Main
<1>. QED
  BY <1>1, <1>2, Inductive, PTL DEF Spec, ImplementsTaskGraph, G!GSpec
=============================================================================
