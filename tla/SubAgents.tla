----------------------------- MODULE SubAgents -----------------------------
(***************************************************************************)
(* subagent.Manager (internal/subagent/manager.go) with the tools an agent *)
(* reaches it by, spawn and message (internal/tool/builtin/spawn.go), as   *)
(* the tool executor runs them (internal/tool/executor.go).                *)
(*                                                                         *)
(* A sub-agent is a record shared by the goroutine that runs its task, its *)
(* watcher and every caller.  The manager's mutex guards the map, and with *)
(* it the whole of Cancel; the record's own mutex guards what the task     *)
(* writes and the getters read, one field at a time.  Cancel writes the    *)
(* status under the first and the task under the second, so neither        *)
(* excludes the other.                                                     *)
(***************************************************************************)
EXTENDS FiniteSets

CONSTANTS
  Sub,     \* identifiers of sub-agents, full UUIDs
  Short,   \* the first eight characters of each
  Caller,  \* goroutines that run tools or call the manager
  None

ASSUME ShortAssumption == \A s \in Sub : Short[s] \notin Sub
ASSUME NoneAssumption == None \notin Sub

Terminal == {"completed", "failed", "canceled"}
Status == {"none", "running"} \cup Terminal

VARIABLES
  \* The records.  Pending is left within Spawn, before anyone sees it.
  subStatus,
  result, error,  \* the sub-agents that have one
  bare,           \* those whose agent has no sanitizer
  dismissed,      \* history: those whose status Cancel has written
  subAgents,      \* the map, by its keys
  task,           \* the goroutine that runs executeTask
  watcher,        \* the goroutine of SpawnWithCallback
  subContext,     \* what its task was spawned in, and how that ended
  cancelling,     \* {s}: Cancel(s), under the mutex, found s running
  \* The callers.
  at, of,         \* where each is, and the sub-agent it is concerned with
  waits,          \* those that asked to wait
  gotStatus, gotResult, gotError, \* what each has read
  crashed         \* a goroutine panicked, and the program is down

record == <<subStatus, result, error, bare, dismissed>>
got == <<gotStatus, gotResult, gotError>>
caller == <<at, of, waits, got>>
vars == <<record, subAgents, task, watcher, subContext, cancelling, caller,
          crashed>>

TypeOK == /\ subStatus \in [Sub -> Status]
          /\ result \in SUBSET Sub /\ error \in SUBSET Sub
          /\ bare \in SUBSET Sub /\ dismissed \in SUBSET Sub
          /\ subAgents \in SUBSET Sub
          /\ task \in [Sub -> {"none", "asking", "answered", "refused", "cut",
                              "ended"}]
          /\ watcher \in [Sub -> {"none", "watching", "done"}]
          /\ subContext \in [Sub -> {"live", "returned", "ended"}]
          /\ cancelling \in SUBSET subAgents
          /\ \A s, t \in cancelling : s = t
          /\ at \in [Caller -> {"idle", "created", "tracked", "started", "status",
                                "result", "error", "waiting", "report", "sending",
                                "checking", "talking"}]
          /\ of \in [Caller -> Sub \cup {None}]
          /\ waits \in SUBSET Caller
          /\ gotStatus \in [Caller -> Status]
          /\ gotResult \in SUBSET Caller /\ gotError \in SUBSET Caller
          /\ crashed \in BOOLEAN

Init == /\ subStatus = [s \in Sub |-> "none"] /\ result = {} /\ error = {}
        /\ subAgents = {} /\ cancelling = {}
        /\ task = [s \in Sub |-> "none"] /\ watcher = [s \in Sub |-> "none"]
        /\ subContext = [s \in Sub |-> "live"]
        /\ at = [c \in Caller |-> "idle"] /\ of = [c \in Caller |-> None]
        /\ waits = {} /\ gotStatus = [c \in Caller |-> "none"]
        /\ gotResult = {} /\ gotError = {}
        /\ bare = {} /\ dismissed = {} /\ crashed = FALSE

MapFree == cancelling = {}
SetStatus(s, v) == subStatus' = [subStatus EXCEPT ![s] = v]
MoveTo(c, l) == at' = [at EXCEPT ![c] = l]

\* The locals of a call go with it.
Return(c) == /\ MoveTo(c, "idle")
             /\ of' = [of EXCEPT ![c] = None] /\ waits' = waits \ {c}
             /\ gotStatus' = [gotStatus EXCEPT ![c] = "none"]
             /\ gotResult' = gotResult \ {c} /\ gotError' = gotError \ {c}

-----------------------------------------------------------------------------
\* Spawn.  The record is made, put in the map, and its goroutine started.  With a
\* prompt of its own the agent is a new one, made without a sanitizer.

Create(c, s) ==
  /\ at[c] = "idle" /\ MoveTo(c, "created")
  /\ subStatus[s] = "none" /\ SetStatus(s, "running")
  /\ of' = [of EXCEPT ![c] = s]
  /\ bare' \in {bare, bare \cup {s}}
  /\ UNCHANGED <<result, error, dismissed, subAgents, task, watcher, subContext,
                 cancelling, waits, got>>

Track(c) ==
  /\ at[c] = "created" /\ MapFree /\ MoveTo(c, "tracked")
  /\ subAgents' = subAgents \cup {of[c]}
  /\ UNCHANGED <<record, task, watcher, subContext, cancelling, of, waits, got>>

StartTask(c) ==
  /\ at[c] = "tracked" /\ MoveTo(c, "started")
  /\ task' = [task EXCEPT ![of[c]] = "asking"]
  /\ UNCHANGED <<record, subAgents, watcher, subContext, cancelling, of, waits, got>>

\* A caller of its own keeps its context; SpawnWithCallback starts a watcher.
Spawned(c) ==
  /\ at[c] = "started" /\ Return(c)
  /\ watcher' \in {watcher, [watcher EXCEPT ![of[c]] = "watching"]}
  /\ UNCHANGED <<record, subAgents, task, subContext, cancelling>>

\* When the spawn tool returns, the executor cancels the context it ran in.
ToolSpawned(c) ==
  /\ at[c] = "started" /\ Return(c)
  /\ subContext' = [subContext EXCEPT ![of[c]] = IF @ = "live" THEN "returned" ELSE @]
  /\ UNCHANGED <<record, subAgents, task, watcher, cancelling>>

\* The user ends the context a task was spawned in.
Abandon(s) ==
  /\ task[s] = "asking" \/ watcher[s] = "watching"
  /\ subContext[s] # "ended" /\ subContext' = [subContext EXCEPT ![s] = "ended"]
  /\ UNCHANGED <<record, subAgents, task, watcher, cancelling, caller>>

-----------------------------------------------------------------------------
\* executeTask: the sub-agent's own HandleMessage, and how it ends.

TaskStep(s, from, to) == /\ task[s] = from
                         /\ task' = [task EXCEPT ![s] = to]
                         /\ UNCHANGED <<subAgents, watcher, subContext,
                                        cancelling, caller>>

\* The first thing HandleMessage does is call the sanitizer.
Ask(s, to) == s \notin bare /\ TaskStep(s, "asking", to) /\ UNCHANGED record

Answered(s) == Ask(s, "answered")

Refused(s) == Ask(s, "refused")

\* A request to a provider fails when its context is done.
Cut(s) == subContext[s] # "live" /\ Ask(s, "cut")

Completes(s) == /\ TaskStep(s, "answered", "ended")
                /\ SetStatus(s, "completed") /\ result' = result \cup {s}
                /\ UNCHANGED <<error, bare, dismissed>>

Fails(s) == /\ TaskStep(s, "refused", "ended") \/ TaskStep(s, "cut", "ended")
            /\ SetStatus(s, "failed") /\ error' = error \cup {s}
            /\ UNCHANGED <<result, bare, dismissed>>

-----------------------------------------------------------------------------
\* Cancel and Remove, under the manager's mutex.  Cancel writes a status, and lets the
\* task go on.

Cancel(s) == /\ MapFree /\ s \in subAgents /\ subStatus[s] = "running"
             /\ cancelling' = {s}
             /\ UNCHANGED <<record, subAgents, task, watcher, subContext,
                            caller>>

SetCancelled == \E s \in cancelling :
                  /\ SetStatus(s, "canceled") /\ cancelling' = {}
                  /\ dismissed' = dismissed \cup {s}
                  /\ UNCHANGED <<result, error, bare, subAgents, task, watcher,
                                 subContext, caller>>

\* Mutant: a running sub-agent may be removed.
RemoveAny(s) ==
  /\ MapFree /\ s \in subAgents
  /\ subAgents' = subAgents \ {s}
  /\ UNCHANGED <<record, task, watcher, subContext, cancelling, caller>>

RemoveSub(s) ==
  /\ MapFree /\ s \in subAgents /\ subStatus[s] # "running"
  /\ subAgents' = subAgents \ {s}
  /\ UNCHANGED <<record, task, watcher, subContext, cancelling, caller>>

-----------------------------------------------------------------------------
\* The watcher: each tick it looks at the status; a done context makes it cancel.

Watched(s) == /\ watcher[s] = "watching"
              /\ watcher' = [watcher EXCEPT ![s] = "done"]
              /\ UNCHANGED <<record, subAgents, task, subContext, caller>>

CallsBack(s) == subStatus[s] \in Terminal /\ Watched(s) /\ UNCHANGED cancelling

WatcherCancels(s) ==
  /\ subContext[s] # "live" /\ MapFree /\ Watched(s)
  /\ cancelling' = {t \in subAgents \cap {s} : subStatus[t] = "running"}

-----------------------------------------------------------------------------
\* The message tool: find the sub-agent, read its status, result and error, and
\* report them, now or once it is no longer running; or send it a message.

Calls(c) == UNCHANGED <<record, subAgents, task, watcher, subContext,
                        cancelling>>

Find(c, s) == /\ at[c] = "idle" /\ MapFree /\ s \in subAgents /\ MoveTo(c, "status")
              /\ of' = [of EXCEPT ![c] = s]
              /\ waits' \in {waits, waits \cup {c}}
              /\ UNCHANGED got /\ Calls(c)

ReadStatus(c) == /\ at[c] = "status" /\ MoveTo(c, "result")
                 /\ gotStatus' = [gotStatus EXCEPT ![c] = subStatus[of[c]]]
                 /\ UNCHANGED <<of, waits, gotResult, gotError>> /\ Calls(c)

ReadResult(c) == /\ at[c] = "result" /\ MoveTo(c, "error")
                 /\ gotResult' = IF of[c] \in result THEN gotResult \cup {c}
                                                     ELSE gotResult
                 /\ UNCHANGED <<of, waits, gotStatus, gotError>> /\ Calls(c)

StillRunning(c) == c \in waits /\ gotStatus[c] = "running"

ReadErrorOnly(c) ==
  /\ at[c] = "error"
  /\ gotError' = IF of[c] \in error THEN gotError \cup {c} ELSE gotError
  /\ IF StillRunning(c) THEN MoveTo(c, "waiting")
     ELSE MoveTo(c, "report") \/ MoveTo(c, "sending")
  /\ UNCHANGED <<of, waits, gotResult>> /\ Calls(c)

\* Mutant: the status is read again to choose what to report.
ReadErrorAfresh(c) ==
  ReadErrorOnly(c) /\ gotStatus' = [gotStatus EXCEPT ![c] = subStatus[of[c]]]

ReadError(c) == ReadErrorOnly(c) /\ UNCHANGED gotStatus

TickWait(c) == /\ at[c] = "waiting" /\ MoveTo(c, "status")
               /\ UNCHANGED <<of, waits, got>> /\ Calls(c)

\* The wait takes five minutes, or the executor's timeout ends its context.
WaitTimesOut(c) == at[c] = "waiting" /\ Return(c) /\ Calls(c)

Report(c) == at[c] = "report" /\ Return(c) /\ Calls(c)

\* SendMessage(subID) looks its argument up among the keys of the map.
Lookup(c, subID) ==
  \/ /\ subID \in subAgents /\ MoveTo(c, "checking")
     /\ of' = [of EXCEPT ![c] = subID] /\ UNCHANGED <<waits, got>>
  \/ subID \notin subAgents /\ Return(c)

\* The tool passes on the short identifier it was given.
ToolSends(c) == at[c] = "sending" /\ MapFree /\ Lookup(c, Short[of[c]]) /\ Calls(c)

SendMessage(c, s) == at[c] = "idle" /\ MapFree /\ Lookup(c, s) /\ Calls(c)

CheckRunning(c) == /\ at[c] = "checking"
                   /\ \/ /\ subStatus[of[c]] \notin Terminal /\ MoveTo(c, "talking")
                         /\ UNCHANGED <<of, waits, got>>
                      \/ subStatus[of[c]] \in Terminal /\ Return(c)
                   /\ Calls(c)

Replied(c) == at[c] = "talking" /\ of[c] \notin bare /\ Return(c) /\ Calls(c)

\* A method of the absent sanitizer reads through a nil pointer, and nothing
\* recovers: the program is down.  One started afresh has no sub-agents.
Panic(s) == /\ ~crashed /\ s \in bare
            /\ \/ task[s] = "asking"
               \/ \E c \in Caller : at[c] = "talking" /\ of[c] = s
            /\ crashed' = TRUE
            /\ UNCHANGED <<record, subAgents, task, watcher, subContext, cancelling,
                           caller>>

-----------------------------------------------------------------------------
Run(s) == Answered(s) \/ Refused(s) \/ Cut(s) \/ Completes(s) \/ Fails(s)

Watch(s) == CallsBack(s) \/ WatcherCancels(s)

Spawning(c) == Track(c) \/ StartTask(c) \/ Spawned(c) \/ ToolSpawned(c)

Messaging(c) == \/ ReadStatus(c) \/ ReadResult(c) \/ ReadError(c)
                \/ TickWait(c) \/ WaitTimesOut(c) \/ Report(c) \/ ToolSends(c)
                \/ CheckRunning(c) \/ Replied(c)

Up == ~crashed /\ UNCHANGED crashed

Step == /\ Up
        /\ \/ \E s \in Sub : \/ Run(s) \/ Watch(s)
                             \/ Cancel(s) \/ RemoveSub(s) \/ Abandon(s)
           \/ SetCancelled
           \/ \E c \in Caller :
                \/ Spawning(c) \/ Messaging(c)
                \/ \E s \in Sub : Create(c, s) \/ Find(c, s) \/ SendMessage(c, s)

Next == Step \/ \E s \in Sub : Panic(s)

Spec == Init /\ [][Next]_vars

\* Goroutines run, and a provider ends every request: its client has a timeout.
\* The mutex is a fair one: a waiting watcher gets it in the end.
Fairness == /\ \A s \in Sub : /\ WF_vars(Panic(s) \/ (Up /\ Run(s)))
                             /\ SF_vars(Up /\ Watch(s))
            /\ WF_vars(Up /\ SetCancelled)

FairSpec == Spec /\ Fairness

-----------------------------------------------------------------------------
\* Properties.

\* A sub-agent shown as running has a goroutine that will end it, or is about to
\* get one, whatever Cancel and the task overwrite (manager.go:92-109, 207-226).
RunningHasATask ==
  \A s \in Sub : subStatus[s] = "running" =>
    \/ task[s] \in {"asking", "answered", "refused", "cut"}
    \/ \E c \in Caller : at[c] \in {"created", "tracked"} /\ of[c] = s

\* A sub-agent that is no longer in the map has ended its task, unless Cancel has
\* written its status: the task of such a one goes on, and may be lost sight of
\* (manager.go:207-245).
OnlyCancelledAreLost ==
  \A s \in Sub \ subAgents : task[s] \in {"none", "ended"} \/ s \in dismissed

\* No sub-agent is lost sight of that was not cancelled (RunningHasATask,
\* OnlyCancelledAreLost).
TrackingIsSound == RunningHasATask /\ OnlyCancelledAreLost

\* A report of a completed sub-agent has its result, one of a failed sub-agent its
\* error, though each is read under a lock of its own (spawn.go:157-200).
ReportsAreWhole ==
  \A c \in Caller : at[c] = "report" =>
    /\ gotStatus[c] = "completed" => c \in gotResult
    /\ gotStatus[c] = "failed" => c \in gotError

\* A watcher has neither called back nor cancelled, also when the sub-agent was canceled
\* or removed meanwhile (manager.go:125-145).
WatchersWait == ~crashed /\ \E s \in Sub : watcher[s] = "watching"

\* Refuted by the code: spawn.go:31 says the task runs in the background; then its
\* requests are cut only because the user ended its context.
InBackground == \A s \in Sub : task[s] = "cut" => subContext[s] = "ended"
=============================================================================
