---------------------------- MODULE ToolExecution ----------------------------
(***************************************************************************)
(* The tools and what runs them: the registry (internal/tool/registry.go)  *)
(* and the executor (internal/tool/executor.go), called by as many agents  *)
(* as have something to run.  Who approves is a parameter of the executor; *)
(* the one the program is started with approves everything (app.go:129).   *)
(***************************************************************************)
EXTENDS Integers, Sequences, FiniteSets

CONSTANTS
  Tool,
  Unknown,     \* the level of a name no tool is registered under
  MaxCalls     \* bounds the calls

VARIABLES
  registry,    \* Registry.tools: the approval level of each
  calls,       \* Execute: the tool, the level found, how far it is, what came of it
  tally,       \* Analytics.stats
  trail        \* what the audit log was told of the calls

xvars == <<registry, calls, tally, trail>>

Sensitivity == {"auto", "notify", "approval", "blocked"}

ASSUME ToolAssumption == MaxCalls \in Nat /\ Unknown \notin Sensitivity

Call == [tool : Tool, level : Sensitivity \cup {Unknown}, failed : BOOLEAN,
         at : {"called", "found", "allowed", "ran", "recorded", "told", "refused"}]

ToolsTypeOK ==
  /\ registry \in [Tool -> Sensitivity \cup {Unknown}]
  /\ calls \in Seq(Call) /\ Len(calls) <= MaxCalls
  /\ tally \in [Tool -> [calls : 0 .. MaxCalls, errors : 0 .. MaxCalls]]
  /\ trail \subseteq (1 .. MaxCalls) \X {"blocked", "denied", "executed"}

ToolsInit == /\ registry = [t \in Tool |-> Unknown] /\ calls = <<>> /\ trail = {}
             /\ tally = [t \in Tool |-> [calls |-> 0, errors |-> 0]]

-----------------------------------------------------------------------------
\* Register: a name that is taken is an error.
Register(t, level) == /\ registry[t] = Unknown
                      /\ registry' = [registry EXCEPT ![t] = level]
                      /\ UNCHANGED <<calls, tally, trail>>

CallTool(t) == /\ Len(calls) < MaxCalls
               /\ calls' = Append(calls, [tool |-> t, level |-> Unknown, failed |-> FALSE,
                                          at |-> "called"])
               /\ UNCHANGED <<registry, tally, trail>>

Step(k, from, to) == calls[k].at = from /\ calls' = [calls EXCEPT ![k].at = to]
Tell(k, action) == trail' = trail \cup {<<k, action>>}

\* registry.Get: an unknown tool is an error, of which nothing is recorded.
Find(k) == LET level == registry[calls[k].tool]
           IN  /\ calls[k].at = "called"
               /\ calls' = [calls EXCEPT ![k].level = level,
                                         ![k].at = IF level = Unknown THEN "refused" ELSE "found"]
               /\ UNCHANGED <<registry, tally, trail>>

Blocked(k) == /\ calls[k].level = "blocked" /\ Step(k, "found", "refused")
              /\ Tell(k, "blocked") /\ UNCHANGED <<registry, tally>>

\* No approval is asked for, or it is given, or there is nobody to ask.
Allow(k) == /\ calls[k].level # "blocked" /\ Step(k, "found", "allowed")
            /\ UNCHANGED <<registry, tally, trail>>

Deny(k) == /\ calls[k].level = "approval" /\ Step(k, "found", "refused")
           /\ Tell(k, "denied") /\ UNCHANGED <<registry, tally>>

ApprovalFails(k) == /\ calls[k].level = "approval" /\ Step(k, "found", "refused")
                    /\ UNCHANGED <<registry, tally, trail>>

\* The tool runs: an error, a result with one in it and no result are all failures,
\* and the end of its time is one of them.
RunTool(k, bad) == /\ calls[k].at = "allowed"
                   /\ calls' = [calls EXCEPT ![k].at = "ran", ![k].failed = bad]
                   /\ UNCHANGED <<registry, tally, trail>>

\* analytics.record, under its own mutex.
Record(k) == LET t == calls[k].tool
             IN  /\ Step(k, "ran", "recorded") /\ UNCHANGED <<registry, trail>>
                 /\ tally' = [tally EXCEPT ![t].calls = @ + 1,
                                           ![t].errors = IF calls[k].failed THEN @ + 1 ELSE @]

Audit(k) == Step(k, "recorded", "told") /\ Tell(k, "executed") /\ UNCHANGED <<registry, tally>>

Execute(k) == \/ Find(k) \/ Blocked(k) \/ Allow(k) \/ Deny(k) \/ ApprovalFails(k)
              \/ RunTool(k, TRUE) \/ RunTool(k, FALSE) \/ Record(k) \/ Audit(k)

ToolsNext == \/ \E t \in Tool : CallTool(t) \/ \E level \in Sensitivity : Register(t, level)
             \/ \E k \in DOMAIN calls : Execute(k)

-----------------------------------------------------------------------------
\* Whatever runs at the same time, the statistics of a tool are those of the calls
\* that ran it and were recorded; every call that ran is told of in the audit log,
\* and so is one that was blocked, none of them as anything else; and a call was
\* decided by the level its tool still has (executor.go:71-212, registry.go:34-57).
CallsAreAccounted ==
  LET Of(t, bad) == {k \in DOMAIN calls : calls[k].tool = t /\ calls[k].at \in {"recorded", "told"}
                                          /\ (bad => calls[k].failed)}
      Told(k) == {action \in {"blocked", "denied", "executed"} : <<k, action>> \in trail}
  IN  /\ \A t \in Tool : /\ tally[t].calls = Cardinality(Of(t, FALSE))
                         /\ tally[t].errors = Cardinality(Of(t, TRUE))
      /\ \A k \in DOMAIN calls :
           /\ calls[k].level # Unknown => calls[k].level = registry[calls[k].tool]
           /\ calls[k].at = "told" => Told(k) = {"executed"} /\ calls[k].level # "blocked"
           /\ calls[k].at = "refused" =>
                Told(k) \in CASE calls[k].level = "blocked" -> {{"blocked"}}
                              [] calls[k].level = "approval" -> {{}, {"denied"}}
                              [] OTHER -> {{}}
           /\ calls[k].at \notin {"told", "refused"} => Told(k) = {}
=============================================================================
