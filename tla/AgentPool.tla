------------------------------ MODULE AgentPool ------------------------------
(***************************************************************************)
(* The manager of goal agents (internal/agents/manager.go): a bounded map  *)
(* from identifiers to records, with one goroutine per record that runs    *)
(* the goal and then, under the mutex, writes what came of it.  A record   *)
(* outlives its place in the map, and its identifier may be used again.    *)
(***************************************************************************)
EXTENDS Integers, FiniteSets

CONSTANTS
  Agent,       \* the records there may be
  AgentID,
  NoAgent,
  MaxAgents

ASSUME PoolAssumption == NoAgent \notin Agent /\ MaxAgents \in Nat /\ IsFiniteSet(AgentID)

VARIABLES
  agents,   \* the map
  status,   \* of each record, "none" before it is made
  outcome,  \* what its Result or Error says
  run,      \* where its goroutine is
  ending,   \* the record between the two writes of its end, under the mutex
  killed    \* history: the records that Kill marked

pvars == <<agents, status, outcome, run, ending, killed>>

Used == {i \in AgentID : agents[i] # NoAgent}

PoolTypeOK ==
  /\ agents \in [AgentID -> Agent \cup {NoAgent}]
  /\ status \in [Agent -> {"none", "running", "completed", "failed", "killed"}]
  /\ outcome \in [Agent -> {"none", "result", "error"}]
  /\ run \in [Agent -> {"none", "running", "result", "error", "over"}]
  /\ ending \in Agent \cup {NoAgent}
  /\ killed \in SUBSET Agent
  /\ Cardinality(Used) <= MaxAgents

PoolInit == /\ agents = [i \in AgentID |-> NoAgent] /\ ending = NoAgent
            /\ status = [a \in Agent |-> "none"] /\ outcome = [a \in Agent |-> "none"]
            /\ run = [a \in Agent |-> "none"] /\ killed = {}

Unlocked == ending = NoAgent

\* Mutant: the maximum is checked once an agent is over it.
SpawnLast(i, a) == /\ Unlocked /\ status[a] = "none"
                   /\ Cardinality(Used) <= MaxAgents /\ i \notin Used
                   /\ agents' = [agents EXCEPT ![i] = a]
                   /\ status' = [status EXCEPT ![a] = "running"]
                   /\ run' = [run EXCEPT ![a] = "running"]
                   /\ UNCHANGED <<outcome, ending, killed>>

Spawn(i, a) == /\ Unlocked /\ status[a] = "none"
               /\ Cardinality(Used) < MaxAgents /\ i \notin Used
               /\ agents' = [agents EXCEPT ![i] = a]
               /\ status' = [status EXCEPT ![a] = "running"]
               /\ run' = [run EXCEPT ![a] = "running"]
               /\ UNCHANGED <<outcome, ending, killed>>

\* The runner returns when it likes: its context is cancelled by Kill and at the
\* end of its budget, and it need not heed that.
RunnerReturns(a) == /\ run[a] = "running"
                    /\ \E r \in {"result", "error"} : run' = [run EXCEPT ![a] = r]
                    /\ UNCHANGED <<agents, status, outcome, ending, killed>>

SetEnd(a) == /\ ending' = a
             /\ status' = [status EXCEPT ![a] = IF run[a] = "result" THEN "completed"
                                                ELSE "failed"]
             /\ UNCHANGED <<agents, outcome, run, killed>>

\* Mutant: a kill is overwritten.
EndAnyway(a) == Unlocked /\ run[a] \in {"result", "error"} /\ SetEnd(a)

\* The goroutine takes the mutex and writes the status, unless it was killed.
EndStatus(a) == /\ Unlocked /\ run[a] \in {"result", "error"}
                /\ \/ status[a] # "killed" /\ SetEnd(a)
                   \/ /\ status[a] = "killed" /\ run' = [run EXCEPT ![a] = "over"]
                      /\ UNCHANGED <<agents, status, outcome, ending, killed>>

\* Then the result or the error; it gives the mutex back.
EndOutcome(a) == /\ ending = a /\ ending' = NoAgent
                 /\ outcome' = [outcome EXCEPT ![a] = run[a]]
                 /\ run' = [run EXCEPT ![a] = "over"]
                 /\ UNCHANGED <<agents, status, killed>>

Kill(i) == /\ Unlocked /\ i \in Used /\ status[agents[i]] = "running"
           /\ status' = [status EXCEPT ![agents[i]] = "killed"]
           /\ killed' = killed \cup {agents[i]}
           /\ UNCHANGED <<agents, outcome, run, ending>>

\* Cleanup of the agents that do not run.
CleanupAgents ==
  /\ Unlocked
  /\ agents' = [i \in AgentID |-> IF i \in Used /\ status[agents[i]] = "running"
                                  THEN agents[i] ELSE NoAgent]
  /\ UNCHANGED <<status, outcome, run, ending, killed>>

PoolNext == \/ \E a \in Agent : \/ \E i \in AgentID : Spawn(i, a)
                                \/ RunnerReturns(a) \/ EndStatus(a) \/ EndOutcome(a)
            \/ \E i \in AgentID : Kill(i)
            \/ CleanupAgents

PoolSpec == PoolInit /\ [][PoolNext]_pvars

-----------------------------------------------------------------------------
\* Outside the two writes of its end a record has the result or the error of its
\* status, a kill is never undone by the run it did not stop, and no record stays
\* running whose goroutine is over: its place could never be freed
\* (manager.go:94-122, 160-172, 209-213).
OutcomesAreWhole ==
  \A a \in Agent \ {ending} :
    /\ status[a] = "completed" <=> outcome[a] = "result"
    /\ status[a] = "failed" <=> outcome[a] = "error"
    /\ a \in killed <=> status[a] = "killed"
    /\ status[a] = "running" => run[a] \in {"running", "result", "error"}
=============================================================================
