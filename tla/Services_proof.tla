--------------------------- MODULE Services_proof ---------------------------
(***************************************************************************)
(* Proofs about the components that MCServices puts together, and of its   *)
(* behaviours: for any sub-agents, callers, sessions, entries, agents,     *)
(* goals, handlers, jobs, files, providers and bounds.                     *)
(***************************************************************************)
EXTENDS MCServices, FiniteSetTheorems, TLAPS

-----------------------------------------------------------------------------
(* SubAgents *)

\* A caller at work is concerned with a sub-agent; one that spawns it has made it,
\* and once it has tracked it, finds it in the map or ended.
CallersPlaced ==
  \A c \in Caller :
    /\ at[c] # "idle" => of[c] \in Sub
    /\ at[c] \in {"created", "tracked"} => subStatus[of[c]] # "none"
    /\ at[c] = "tracked" => of[c] \in subAgents \/ of[c] \in dismissed
    /\ at[c] \in {"created", "tracked"} =>
         /\ task[of[c]] = "none"
         /\ \A d \in Caller \ {c} : at[d] \in {"created", "tracked"} => of[d] # of[c]

\* What is tracked or runs was made, what has ended left its outcome, and a final status is
\* that of an end, or of Cancel.
OutcomesThere ==
  \A s \in Sub :
    /\ s \in subAgents \/ task[s] # "none" => subStatus[s] # "none"
    /\ subStatus[s] = "completed" => s \in result
    /\ subStatus[s] = "failed" => s \in error
    /\ subStatus[s] \in {"completed", "failed"} => task[s] = "ended"
    /\ subStatus[s] = "canceled" => s \in dismissed

\* What a reader has seen of the status is borne out by what it has read since, or
\* is about to read.
ReadOK ==
  \A c \in Caller :
    /\ gotStatus[c] = "completed" =>
         /\ at[c] = "result" => of[c] \in result
         /\ at[c] \in {"error", "waiting", "report", "sending"} => c \in gotResult
    /\ gotStatus[c] = "failed" =>
         /\ at[c] \in {"result", "error"} => of[c] \in error
         /\ at[c] \in {"waiting", "report", "sending"} => c \in gotError

\* The manager's invariant.
SubInv == /\ TypeOK /\ CallersPlaced /\ OutcomesThere /\ ReadOK
        /\ RunningHasATask /\ OnlyCancelledAreLost

\* It holds before the first sub-agent.
LEMMA SubStarts == Init => SubInv
<1>. SUFFICES ASSUME Init  PROVE SubInv
  OBVIOUS
<1>. USE DEF Init, Status, Terminal
<1>1. TypeOK
  BY DEF TypeOK
<1>2. CallersPlaced /\ OutcomesThere /\ ReadOK
  BY DEF CallersPlaced, OutcomesThere, ReadOK
<1>3. RunningHasATask /\ OnlyCancelledAreLost
  BY DEF RunningHasATask, OnlyCancelledAreLost
<1>. QED
  BY <1>1, <1>2, <1>3 DEF SubInv

\* The steps of Spawn.
LEMMA SpawnSteps ==
  ASSUME SubInv, UNCHANGED crashed, NEW c \in Caller,
         (\E s \in Sub : Create(c, s)) \/ Spawning(c)
  PROVE  SubInv'
<1>. USE DEF SubInv, TypeOK, MoveTo, SetStatus, Status, Terminal, got, record
<1>1. ASSUME NEW s \in Sub, Create(c, s)  PROVE SubInv'
  <2>. USE <1>1 DEF Create
  <2>1. TypeOK'
    OBVIOUS
  <2>2. CallersPlaced'
    <3>1. task[s] = "none"
      BY DEF OutcomesThere
    <3>2. \A d \in Caller : at[d] \in {"created", "tracked"} => of[d] # s
      BY DEF CallersPlaced
    <3>. QED
      BY <3>1, <3>2 DEF CallersPlaced
  <2>3. OutcomesThere'
    BY DEF OutcomesThere
  <2>4. ReadOK'
    BY DEF ReadOK
  <2>5. RunningHasATask'
    BY DEF RunningHasATask
  <2>6. OnlyCancelledAreLost'
    BY DEF OnlyCancelledAreLost, OutcomesThere
  <2>. QED
    BY <2>1, <2>2, <2>3, <2>4, <2>5, <2>6
<1>2. ASSUME Track(c)  PROVE SubInv'
  <2>. USE <1>2 DEF Track, MapFree
  <2>1. of[c] \in Sub /\ subStatus[of[c]] # "none"
    BY DEF CallersPlaced
  <2>2. TypeOK'
    BY <2>1
  <2>3. CallersPlaced'
    BY <2>1 DEF CallersPlaced
  <2>4. OutcomesThere'
    BY <2>1 DEF OutcomesThere
  <2>5. ReadOK'
    BY DEF ReadOK
  <2>6. RunningHasATask'
    BY DEF RunningHasATask
  <2>7. OnlyCancelledAreLost'
    BY DEF OnlyCancelledAreLost
  <2>. QED
    BY <2>2, <2>3, <2>4, <2>5, <2>6, <2>7
<1>3. ASSUME StartTask(c)  PROVE SubInv'
  <2>. USE <1>3 DEF StartTask
  <2>1. /\ of[c] \in Sub /\ subStatus[of[c]] # "none"
        /\ of[c] \in subAgents \/ of[c] \in dismissed
        /\ task[of[c]] = "none"
    BY DEF CallersPlaced
  <2>2. TypeOK'
    BY <2>1
  <2>3. CallersPlaced'
    BY DEF CallersPlaced
  <2>4. OutcomesThere'
    BY <2>1 DEF OutcomesThere
  <2>5. ReadOK'
    BY DEF ReadOK
  <2>6. RunningHasATask'
    BY <2>1 DEF RunningHasATask
  <2>7. OnlyCancelledAreLost'
    BY <2>1 DEF OnlyCancelledAreLost
  <2>. QED
    BY <2>2, <2>3, <2>4, <2>5, <2>6, <2>7
<1>4. ASSUME Spawned(c) \/ ToolSpawned(c)  PROVE SubInv'
  <2>. USE <1>4 DEF Spawned, ToolSpawned, Return
  <2>1. of[c] \in Sub
    BY DEF CallersPlaced
  <2>2. TypeOK'
    BY <2>1
  <2>3. CallersPlaced'
    BY DEF CallersPlaced
  <2>4. OutcomesThere'
    BY DEF OutcomesThere
  <2>5. ReadOK'
    BY DEF ReadOK
  <2>6. RunningHasATask'
    BY DEF RunningHasATask
  <2>7. OnlyCancelledAreLost'
    BY DEF OnlyCancelledAreLost
  <2>. QED
    BY <2>2, <2>3, <2>4, <2>5, <2>6, <2>7
<1>. QED
  BY <1>1, <1>2, <1>3, <1>4 DEF Spawning

\* The steps of the task's goroutine: a status is final as soon as the task ends,
\* and its outcome comes with it.
LEMMA RunSteps ==
  ASSUME SubInv, UNCHANGED crashed, NEW s \in Sub, Run(s)
  PROVE  SubInv'
<1>. USE DEF SubInv, TypeOK, TaskStep, SetStatus, Status, Terminal, caller, got
<1>1. CASE Answered(s) \/ Refused(s) \/ Cut(s)
  <2>. USE <1>1 DEF Answered, Refused, Cut, Ask, record
  <2>1. TypeOK'
    OBVIOUS
  <2>2. CallersPlaced' /\ ReadOK'
    BY DEF CallersPlaced, ReadOK
  <2>3. OutcomesThere' /\ RunningHasATask' /\ OnlyCancelledAreLost'
    BY DEF OutcomesThere, RunningHasATask, OnlyCancelledAreLost
  <2>. QED
    BY <2>1, <2>2, <2>3
<1>2. CASE Completes(s) \/ Fails(s)
  <2>. USE <1>2 DEF Completes, Fails
  <2>1. TypeOK'
    OBVIOUS
  <2>2. CallersPlaced'
    BY DEF CallersPlaced
  <2>3. ReadOK'
    BY DEF ReadOK
  <2>4. OutcomesThere'
    BY DEF OutcomesThere
  <2>5. RunningHasATask'
    BY DEF RunningHasATask
  <2>6. OnlyCancelledAreLost'
    BY DEF OnlyCancelledAreLost
  <2>. QED
    BY <2>1, <2>2, <2>3, <2>4, <2>5, <2>6
<1>. QED
  BY <1>1, <1>2 DEF Run

\* Cancel and Remove, the watcher and the user.
LEMMA ManageSteps ==
  ASSUME SubInv, UNCHANGED crashed,
         \/ \E s \in Sub : Watch(s) \/ Cancel(s) \/ RemoveSub(s) \/ Abandon(s)
         \/ SetCancelled
  PROVE  SubInv'
<1>. USE DEF SubInv, TypeOK, Status, Terminal, caller, got
<1>1. ASSUME NEW s \in Sub, Watch(s) \/ Cancel(s) \/ Abandon(s)  PROVE SubInv'
  <2>. USE <1>1 DEF Watch, CallsBack, WatcherCancels, Watched, Cancel, Abandon, record
  <2>1. TypeOK'
    OBVIOUS
  <2>2. CallersPlaced' /\ ReadOK' /\ OutcomesThere' /\ RunningHasATask' /\ OnlyCancelledAreLost'
    BY DEF CallersPlaced, ReadOK, OutcomesThere, RunningHasATask, OnlyCancelledAreLost
  <2>. QED
    BY <2>1, <2>2
<1>2. ASSUME NEW s \in Sub, RemoveSub(s)  PROVE SubInv'
  <2>. USE <1>2 DEF RemoveSub, MapFree, record
  <2>1. TypeOK'
    OBVIOUS
  <2>2. subStatus[s] \in Terminal
    BY DEF OutcomesThere
  <2>3. CallersPlaced' /\ ReadOK' /\ OutcomesThere' /\ RunningHasATask'
    BY <2>2 DEF CallersPlaced, ReadOK, OutcomesThere, RunningHasATask
  <2>4. OnlyCancelledAreLost'
    BY <2>2 DEF OnlyCancelledAreLost, OutcomesThere
  <2>. QED
    BY <2>1, <2>3, <2>4
<1>3. ASSUME SetCancelled  PROVE SubInv'
  <2>1. PICK s \in cancelling :
          /\ subStatus' = [subStatus EXCEPT ![s] = "canceled"] /\ cancelling' = {}
          /\ dismissed' = dismissed \cup {s}
          /\ UNCHANGED <<result, error, bare, subAgents, task, watcher, subContext,
                         caller>>
    BY <1>3 DEF SetCancelled, SetStatus
  <2>2. TypeOK'
    BY <2>1
  <2>3. CallersPlaced' /\ ReadOK' /\ OutcomesThere'
    BY <2>1 DEF CallersPlaced, ReadOK, OutcomesThere
  <2>4. RunningHasATask' /\ OnlyCancelledAreLost'
    BY <2>1 DEF RunningHasATask, OnlyCancelledAreLost
  <2>. QED
    BY <2>2, <2>3, <2>4
<1>. QED
  BY <1>1, <1>2, <1>3

\* A caller that reads, sends or talks moves nobody but itself.
LEMMA MessageSteps ==
  ASSUME SubInv, UNCHANGED crashed, NEW c \in Caller,
         Messaging(c) \/ \E s \in Sub : Find(c, s) \/ SendMessage(c, s)
  PROVE  SubInv'
<1>. USE DEF SubInv, TypeOK, MoveTo, Calls, Status, Terminal, got, record
<1>1. ASSUME Calls(c), at[c] \notin {"created", "tracked"},
             at'[c] \notin {"created", "tracked"},
             \A d \in Caller \ {c} : at'[d] = at[d] /\ of'[d] = of[d]
      PROVE  OutcomesThere' /\ RunningHasATask' /\ OnlyCancelledAreLost'
  BY <1>1 DEF OutcomesThere, RunningHasATask, OnlyCancelledAreLost
<1>2. ASSUME Calls(c), at[c] \notin {"created", "tracked"}, Return(c)  PROVE SubInv'
  <2>. USE <1>2 DEF Return
  <2>1. TypeOK' /\ CallersPlaced' /\ ReadOK'
    BY DEF CallersPlaced, ReadOK
  <2>. QED
    BY <1>1, <2>1
<1>3. ASSUME NEW s \in Sub, Find(c, s)  PROVE SubInv'
  <2>. USE <1>3 DEF Find
  <2>1. TypeOK' /\ CallersPlaced' /\ ReadOK'
    BY DEF CallersPlaced, ReadOK
  <2>. QED
    BY <1>1, <2>1
<1>4. ASSUME ReadStatus(c)  PROVE SubInv'
  <2>. USE <1>4 DEF ReadStatus
  <2>1. of[c] \in Sub
    BY DEF CallersPlaced
  <2>2. TypeOK' /\ CallersPlaced'
    BY <2>1 DEF CallersPlaced
  <2>3. ReadOK'
    BY <2>1 DEF ReadOK, OutcomesThere
  <2>. QED
    BY <1>1, <2>2, <2>3
<1>5. ASSUME ReadResult(c)  PROVE SubInv'
  <2>. USE <1>5 DEF ReadResult
  <2>1. TypeOK' /\ CallersPlaced'
    BY DEF CallersPlaced
  <2>2. ReadOK'
    BY DEF ReadOK
  <2>. QED
    BY <1>1, <2>1, <2>2
<1>6. ASSUME ReadError(c)  PROVE SubInv'
  <2>. USE <1>6 DEF ReadError, ReadErrorOnly
  <2>1. TypeOK' /\ CallersPlaced'
    BY DEF CallersPlaced
  <2>2. ReadOK'
    BY DEF ReadOK
  <2>. QED
    BY <1>1, <2>1, <2>2
<1>7. ASSUME TickWait(c)  PROVE SubInv'
  <2>. USE <1>7 DEF TickWait
  <2>1. TypeOK' /\ CallersPlaced' /\ ReadOK'
    BY DEF CallersPlaced, ReadOK
  <2>. QED
    BY <1>1, <2>1
<1>8. ASSUME CheckRunning(c)  PROVE SubInv'
  <2>1. CASE Return(c)
    BY <1>2, <1>8, <2>1 DEF CheckRunning
  <2>2. CASE MoveTo(c, "talking") /\ UNCHANGED <<of, waits, got>>
    <3>. USE <1>8, <2>2 DEF CheckRunning
    <3>1. TypeOK' /\ CallersPlaced' /\ ReadOK'
      BY DEF CallersPlaced, ReadOK
    <3>. QED
      BY <1>1, <3>1
  <2>. QED
    BY <1>8, <2>1, <2>2 DEF CheckRunning
<1>9. ASSUME NEW i, Lookup(c, i), at[c] \in {"idle", "sending"}, Calls(c)
      PROVE  SubInv'
  <2>1. CASE Return(c)
    BY <1>2, <1>9, <2>1
  <2>2. CASE i \in subAgents /\ MoveTo(c, "checking")
             /\ of' = [of EXCEPT ![c] = i] /\ UNCHANGED <<waits, got>>
    <3>. USE <1>9, <2>2
    <3>1. TypeOK' /\ CallersPlaced' /\ ReadOK'
      BY DEF CallersPlaced, ReadOK
    <3>. QED
      BY <1>1, <3>1
  <2>. QED
    BY <1>9, <2>1, <2>2 DEF Lookup
<1>10. ASSUME WaitTimesOut(c) \/ Report(c) \/ Replied(c)  PROVE SubInv'
  BY <1>2, <1>10 DEF WaitTimesOut, Report, Replied
<1>. QED
  BY <1>3, <1>4, <1>5, <1>6, <1>7, <1>8, <1>9, <1>10
  DEF Messaging, ToolSends, SendMessage

\* Every step, a panic and none keep the invariant.
LEMMA SubSteps == ASSUME SubInv, [Next]_vars PROVE SubInv'
<1>1. CASE Step
  BY <1>1, SpawnSteps, RunSteps, ManageSteps, MessageSteps DEF Step, Up
<1>2. ASSUME NEW s \in Sub, Panic(s)  PROVE SubInv'
  BY <1>2 DEF Panic, SubInv, TypeOK, CallersPlaced, OutcomesThere, ReadOK, RunningHasATask,
     OnlyCancelledAreLost, record, caller, got
<1>3. CASE UNCHANGED vars
  BY <1>3 DEF vars, SubInv, TypeOK, CallersPlaced, OutcomesThere, ReadOK, RunningHasATask,
     OnlyCancelledAreLost, record, caller, got
<1>. QED
  BY <1>1, <1>2, <1>3 DEF Next

\* The invariant holds of every state of every behaviour (the manager and the
\* tools, manager.go and spawn.go).
THEOREM SubInductive == Spec => []SubInv
  BY SubStarts, SubSteps, PTL DEF Spec

\* Every variable keeps its type, and a Cancel under way holds the mutex: it is
\* alone, and its sub-agent is in the map (manager.go:207-226).
THEOREM SubTypeCorrect == Spec => []TypeOK
  BY SubInductive, PTL DEF SubInv

\* A sub-agent shown as running has a goroutine that will end it, however Cancel
\* and the task overwrite each other's status (manager.go:92-109, 151-226).
THEOREM RunningIsTended == Spec => []RunningHasATask
  BY SubInductive, PTL DEF SubInv

\* What is no longer in the map has ended its task, or Cancel has written its status:
\* Remove loses sight of no other that runs (manager.go:207-245).
THEOREM NothingLost == Spec => []OnlyCancelledAreLost
  BY SubInductive, PTL DEF SubInv

\* No sub-agent is lost sight of that was not cancelled: both of these at once
\* (manager.go:92-109, 151-245).
THEOREM TrackingHolds == Spec => []TrackingIsSound
  BY RunningIsTended, NothingLost, PTL DEF TrackingIsSound

\* A report of a completed sub-agent has its result, one of a failed sub-agent its
\* error (spawn.go:157-200).
THEOREM WholeReports == Spec => []ReportsAreWhole
<1>1. SubInv => ReportsAreWhole
  BY DEF SubInv, ReadOK, ReportsAreWhole
<1>. QED
  BY <1>1, SubInductive, PTL

-----------------------------------------------------------------------------
(* RateLimiter, AuditLog and AgentPool *)

\* The rate limiter.

\* Every request the limiter still counts in is kept, and what is kept was
\* granted; each request is older than those to come.
LimiterKeeps ==
  /\ \A s \in Session :
       /\ IsFiniteSet(granted[s])
       /\ limits[s] \subseteq granted[s]
       /\ \A g \in granted[s] : g.at <= now /\ g.n < asked
       /\ \A r \in refused[s] : r.at <= now /\ r.n < asked
       /\ Valid(granted[s]) \subseteq limits[s]

\* The limiter's invariant.
LimiterInv == LimiterTypeOK /\ LimiterKeeps /\ NeverOver /\ NeverUnder

\* What the loops keep of a session is what the window that ends now holds of it.
LEMMA ValidIsWithin ==
  ASSUME LimiterTypeOK, LimiterKeeps, NEW s \in Session
  PROVE  /\ Valid(limits[s]) = Within(granted[s], now)
         /\ IsFiniteSet(Valid(limits[s]))
<1>1. limits[s] \subseteq granted[s] /\ Valid(granted[s]) \subseteq limits[s]
      /\ \A g \in granted[s] : g.at <= now
  BY DEF LimiterKeeps
<1>2. Valid(limits[s]) = Within(granted[s], now)
  BY <1>1 DEF Valid, Within
<1>3. IsFiniteSet(Valid(limits[s]))
  <2>1. IsFiniteSet(granted[s]) BY DEF LimiterKeeps
  <2>2. Valid(limits[s]) \subseteq granted[s] BY <1>1 DEF Valid
  <2> QED BY <2>1, <2>2, FS_Subset
<1> QED BY <1>2, <1>3

\* The limiter starts with nothing granted.
LEMMA LimiterStarts == ASSUME LimiterInit PROVE LimiterInv
<1>1. LimiterTypeOK BY DEF LimiterInit, LimiterTypeOK
<1>2. LimiterKeeps BY FS_EmptySet DEF LimiterInit, LimiterKeeps, Valid
<1>3. NeverOver
  <2> SUFFICES ASSUME NEW s \in Session, NEW t \in 0 .. now
               PROVE  Cardinality(Within(granted[s], t)) <= MaxRequests
    BY DEF NeverOver
  <2>1. Within(granted[s], t) = {} BY DEF LimiterInit, Within
  <2> QED BY <2>1, FS_EmptySet, LimiterAssumption
<1>4. NeverUnder BY DEF LimiterInit, NeverUnder
<1> QED BY <1>1, <1>2, <1>3, <1>4 DEF LimiterInv

\* A refused request: the window is full of older ones, and stays so.
LEMMA RefusedStep ==
  ASSUME LimiterInv, NEW s \in Session, Allow(s), UNCHANGED granted,
         Cardinality(Valid(limits[s])) >= MaxRequests,
         limits' = [limits EXCEPT ![s] = Valid(limits[s])],
         refused' = [refused EXCEPT ![s] = @ \cup {[n |-> asked, at |-> now]}]
  PROVE  LimiterInv'
<1> DEFINE request == [n |-> asked, at |-> now]
<1>1. LimiterTypeOK /\ LimiterKeeps /\ NeverOver /\ NeverUnder BY DEF LimiterInv
<1>2. asked' = asked + 1 /\ now' = now /\ cleaner' = cleaner /\ now \in Nat /\ asked \in Nat
  BY <1>1 DEF Allow, LimiterTypeOK
<1>3. request \in Request BY <1>2 DEF Request
<1>4. LimiterTypeOK' BY <1>1, <1>2, <1>3 DEF LimiterTypeOK, Valid
<1>5. LimiterKeeps'
  <2> SUFFICES ASSUME NEW u \in Session
               PROVE  /\ IsFiniteSet(granted[u])
                      /\ limits'[u] \subseteq granted[u]
                      /\ \A g \in granted[u] : g.at <= now /\ g.n < asked + 1
                      /\ \A r \in refused'[u] : r.at <= now /\ r.n < asked + 1
                      /\ {g \in granted[u] : now - Window < g.at} \subseteq limits'[u]
    BY <1>2 DEF LimiterKeeps, Valid
  <2>1. \A g \in granted[u] \cup refused[u] : g.n \in Nat /\ g.n < asked
    BY <1>1 DEF LimiterKeeps, LimiterTypeOK, Request
  <2>2. \A g \in granted[u] \cup refused[u] : g.n < asked + 1 BY <2>1, <1>2
  <2>3. refused'[u] \subseteq refused[u] \cup {request} BY <1>1 DEF LimiterTypeOK
  <2>4. request.n < asked + 1 /\ request.at <= now BY <1>2
  <2>5. \A r \in refused'[u] : r.at <= now /\ r.n < asked + 1
    BY <1>1, <2>2, <2>3, <2>4 DEF LimiterKeeps
  <2>6. limits'[u] \subseteq granted[u]
        /\ {g \in granted[u] : now - Window < g.at} \subseteq limits'[u]
    BY <1>1 DEF LimiterKeeps, LimiterTypeOK, Valid
  <2> QED BY <1>1, <2>2, <2>5, <2>6 DEF LimiterKeeps
<1>6. NeverOver' BY <1>1, <1>2 DEF NeverOver, Within
<1>7. NeverUnder'
  <2> SUFFICES ASSUME NEW u \in Session, NEW r \in refused'[u]
               PROVE  Cardinality({g \in Within(granted[u], r.at) : g.n < r.n}) >= MaxRequests
    BY DEF NeverUnder, Within
  <2>1. CASE r \in refused[u] BY <2>1, <1>1 DEF NeverUnder
  <2>2. CASE r \notin refused[u]
    <3>1. u = s /\ r = request BY <2>2, <1>1 DEF LimiterTypeOK
    <3>2. Valid(limits[s]) = Within(granted[s], now) BY <1>1, ValidIsWithin
    <3>3. \A g \in granted[s] : g.n < asked BY <1>1 DEF LimiterKeeps
    <3>4. {g \in Within(granted[u], r.at) : g.n < r.n} = Within(granted[s], now)
      BY <3>1, <3>3 DEF Within
    <3> QED BY <3>2, <3>4
  <2> QED BY <2>1, <2>2
<1> QED BY <1>4, <1>5, <1>6, <1>7 DEF LimiterInv

\* A granted request: there was room for it in the window that ends now, and it is
\* in no earlier one.
LEMMA GrantedStep ==
  ASSUME LimiterInv, NEW s \in Session, Allow(s), UNCHANGED refused,
         Cardinality(Valid(limits[s])) < MaxRequests,
         limits' = [limits EXCEPT ![s] = Valid(limits[s]) \cup {[n |-> asked, at |-> now]}],
         granted' = [granted EXCEPT ![s] = @ \cup {[n |-> asked, at |-> now]}]
  PROVE  LimiterInv'
<1> DEFINE request == [n |-> asked, at |-> now]
<1>1. LimiterTypeOK /\ LimiterKeeps /\ NeverOver /\ NeverUnder BY DEF LimiterInv
<1>2. asked' = asked + 1 /\ now' = now /\ cleaner' = cleaner /\ now \in Nat /\ asked \in Nat
  BY <1>1 DEF Allow, LimiterTypeOK
<1>3. request \in Request BY <1>2 DEF Request
<1>4. LimiterTypeOK' BY <1>1, <1>2, <1>3 DEF LimiterTypeOK, Valid
<1>5. granted'[s] = granted[s] \cup {request} BY <1>1 DEF LimiterTypeOK
<1>6. \A u \in Session : u # s => granted'[u] = granted[u] /\ limits'[u] = limits[u]
  BY <1>1 DEF LimiterTypeOK
<1>7. limits'[s] = Valid(limits[s]) \cup {request} BY <1>1 DEF LimiterTypeOK
<1>8. LimiterKeeps'
  <2> SUFFICES ASSUME NEW u \in Session
               PROVE  /\ IsFiniteSet(granted'[u])
                      /\ limits'[u] \subseteq granted'[u]
                      /\ \A g \in granted'[u] : g.at <= now /\ g.n < asked + 1
                      /\ \A r \in refused[u] : r.at <= now /\ r.n < asked + 1
                      /\ {g \in granted'[u] : now - Window < g.at} \subseteq limits'[u]
    BY <1>2 DEF LimiterKeeps, Valid
  <2>1. \A g \in granted[u] \cup refused[u] : g.n \in Nat /\ g.n < asked
    BY <1>1 DEF LimiterKeeps, LimiterTypeOK, Request
  <2>2. \A g \in granted[u] \cup refused[u] : g.n < asked + 1 BY <2>1, <1>2
  <2>3. request.n < asked + 1 /\ request.at <= now BY <1>2
  <2>4. granted'[u] \subseteq granted[u] \cup {request} BY <1>5, <1>6
  <2>5. \A g \in granted'[u] : g.at <= now /\ g.n < asked + 1
    BY <1>1, <2>2, <2>3, <2>4 DEF LimiterKeeps
  <2>6. IsFiniteSet(granted'[u])
    <3>1. IsFiniteSet(granted[u]) BY <1>1 DEF LimiterKeeps
    <3>2. IsFiniteSet(granted[u] \cup {request}) BY <3>1, FS_AddElement
    <3> QED BY <3>2, <2>4, FS_Subset
  <2>7. limits'[u] \subseteq granted'[u]
        /\ {g \in granted'[u] : now - Window < g.at} \subseteq limits'[u]
    BY <1>1, <1>5, <1>6, <1>7 DEF LimiterKeeps, Valid
  <2> QED BY <1>1, <2>2, <2>5, <2>6, <2>7 DEF LimiterKeeps
<1>9. NeverOver'
  <2> SUFFICES ASSUME NEW u \in Session, NEW t \in 0 .. now
               PROVE  Cardinality(Within(granted'[u], t)) <= MaxRequests
    BY <1>2 DEF NeverOver, Within
  <2>1. CASE u # s BY <2>1, <1>1, <1>6 DEF NeverOver
  <2>2. CASE u = s /\ t # now
    <3>1. Within(granted'[u], t) = Within(granted[u], t) BY <2>2, <1>2, <1>5 DEF Within
    <3> QED BY <3>1, <1>1 DEF NeverOver
  <2>3. CASE u = s /\ t = now
    <3>1. Within(granted'[u], t) \subseteq Valid(limits[s]) \cup {request}
      BY <2>3, <1>1, <1>5, ValidIsWithin DEF Within
    <3>2. IsFiniteSet(Valid(limits[s])) BY <1>1, ValidIsWithin
    <3>3. Cardinality(Valid(limits[s]) \cup {request}) <= MaxRequests
          /\ IsFiniteSet(Valid(limits[s]) \cup {request})
          /\ Cardinality(Valid(limits[s]) \cup {request}) \in Nat
      <4> HIDE DEF request
      <4>1. IsFiniteSet(Valid(limits[s]) \cup {request})
            /\ Cardinality(Valid(limits[s]) \cup {request})
               = IF request \in Valid(limits[s]) THEN Cardinality(Valid(limits[s]))
                 ELSE Cardinality(Valid(limits[s])) + 1
        BY <3>2, FS_AddElement
      <4>2. Cardinality(Valid(limits[s])) \in Nat BY <3>2, FS_CardinalityType
      <4>3. Cardinality(Valid(limits[s])) < MaxRequests OBVIOUS
      <4> QED BY <4>1, <4>2, <4>3, LimiterAssumption
    <3>4. Cardinality(Within(granted'[u], t)) <= Cardinality(Valid(limits[s]) \cup {request})
          /\ Cardinality(Within(granted'[u], t)) \in Nat
      BY <3>1, <3>3, FS_Subset, FS_CardinalityType
    <3> QED BY <3>3, <3>4, LimiterAssumption
  <2> QED BY <2>1, <2>2, <2>3
<1>10. NeverUnder'
  <2> SUFFICES ASSUME NEW u \in Session, NEW r \in refused[u]
               PROVE  Cardinality({g \in Within(granted'[u], r.at) : g.n < r.n}) >= MaxRequests
    BY DEF NeverUnder, Within
  <2>1. r.n \in Nat /\ r.n < asked BY <1>1 DEF LimiterKeeps, LimiterTypeOK, Request
  <2>2. ~(request.n < r.n) BY <2>1, <1>2
  <2>3. {g \in Within(granted'[u], r.at) : g.n < r.n}
        = {g \in Within(granted[u], r.at) : g.n < r.n}
    BY <2>2, <1>5, <1>6 DEF Within
  <2> QED BY <2>3, <1>1 DEF NeverUnder
<1> QED BY <1>4, <1>8, <1>9, <1>10 DEF LimiterInv

\* Forgetting what is out of the window, as the cleaner does, loses nothing that
\* the window of a later request could hold.
LEMMA CleanupStep == ASSUME LimiterInv, Cleanup PROVE LimiterInv'
<1>1. LimiterTypeOK /\ LimiterKeeps /\ NeverOver /\ NeverUnder BY DEF LimiterInv
<1>2. LimiterTypeOK' BY <1>1 DEF Cleanup, LimiterTypeOK, Valid
<1>3. \A s \in Session : limits'[s] = Valid(limits[s]) BY DEF Cleanup
<1>4. LimiterKeeps' BY <1>1, <1>3 DEF Cleanup, LimiterKeeps, Valid
<1>5. NeverOver' /\ NeverUnder' BY <1>1 DEF Cleanup, NeverOver, NeverUnder, Within
<1> QED BY <1>2, <1>4, <1>5 DEF LimiterInv

\* A new instant begins a window that holds no more than the one before.
LEMMA TickStep == ASSUME LimiterInv, Tick PROVE LimiterInv'
<1>1. LimiterTypeOK /\ LimiterKeeps /\ NeverOver /\ NeverUnder BY DEF LimiterInv
<1>2. now \in Nat /\ now' = now + 1 BY <1>1 DEF Tick, LimiterTypeOK
<1>3. LimiterTypeOK' BY <1>1, <1>2 DEF Tick, LimiterTypeOK
<1>4. \A s \in Session : \A r \in granted[s] \cup refused[s] :
        r.at \in Nat /\ r.at <= now
  BY <1>1 DEF LimiterKeeps, LimiterTypeOK, Request
<1>5. LimiterKeeps'
  <2>1. \A s \in Session : Valid(granted[s])' \subseteq limits[s]
    BY <1>1, <1>2, <1>4, LimiterAssumption DEF LimiterKeeps, Valid, Tick
  <2>2. \A s \in Session : \A r \in granted[s] \cup refused[s] : r.at <= now'
    BY <1>2, <1>4
  <2> QED BY <1>1, <2>1, <2>2 DEF LimiterKeeps, Tick
<1>6. NeverOver'
  <2> SUFFICES ASSUME NEW s \in Session, NEW t \in 0 .. now + 1
               PROVE  Cardinality(Within(granted[s], t)) <= MaxRequests
    BY <1>2 DEF NeverOver, Within, Tick
  <2>1. CASE t \in 0 .. now BY <2>1, <1>1 DEF NeverOver
  <2>2. CASE t = now + 1
    <3>1. Within(granted[s], t) \subseteq Within(granted[s], now)
      BY <2>2, <1>2, <1>4, LimiterAssumption DEF Within
    <3>2. IsFiniteSet(Within(granted[s], now))
      BY <1>1, FS_Subset DEF LimiterKeeps, Within
    <3>3. Cardinality(Within(granted[s], now)) <= MaxRequests
      BY <1>1, <1>2 DEF NeverOver
    <3>4. Cardinality(Within(granted[s], t)) <= Cardinality(Within(granted[s], now))
          /\ Cardinality(Within(granted[s], t)) \in Nat
          /\ Cardinality(Within(granted[s], now)) \in Nat
      BY <3>1, <3>2, FS_Subset, FS_CardinalityType
    <3> QED BY <3>3, <3>4, LimiterAssumption
  <2> QED BY <2>1, <2>2, <1>2
<1>7. NeverUnder' BY <1>1 DEF Tick, NeverUnder, Within
<1> QED BY <1>3, <1>5, <1>6, <1>7 DEF LimiterInv

\* No step of the limiter, nor one of another component, loses the invariant.
LEMMA LimiterSteps == ASSUME LimiterInv, [LimiterNext]_lvars PROVE LimiterInv'
<1>1. ASSUME NEW s \in Session, Allow(s) PROVE LimiterInv'
  BY <1>1, RefusedStep, GrantedStep DEF Allow
<1>2. CASE AutoCleanup BY <1>2, CleanupStep DEF AutoCleanup
<1>3. CASE StartAutoCleanup \/ StopAutoCleanup \/ UNCHANGED lvars
  BY <1>3 DEF StartAutoCleanup, StopAutoCleanup, lvars, LimiterInv, LimiterTypeOK,
              LimiterKeeps, NeverOver, NeverUnder, Within, Valid
<1>4. CASE Tick BY <1>4, TickStep
<1> QED BY <1>1, <1>2, <1>3, <1>4 DEF LimiterNext

\* In every window of time, whatever the times of the requests and of the cleanups,
\* a session is granted no more than the maximum, and a request is refused only if
\* its window is full (ratelimit.go:31-77).
THEOREM LimiterIsExact == LimiterSpec => []LimitIsExact
<1>1. LimiterInit => LimiterInv BY LimiterStarts
<1>2. LimiterInv /\ [LimiterNext]_lvars => LimiterInv' BY LimiterSteps
<1>3. LimiterInv => LimitIsExact BY DEF LimiterInv, LimitIsExact
<1> QED BY <1>1, <1>2, <1>3, PTL DEF LimiterSpec

\* The audit log.

\* An entry is in the log.
HasRow(e) == \E i \in 1 .. Len(rows) : rows[i].entry = e

\* Only the holder of the mutex is at work, and what it has read is still so.
OneWriter ==
  \A w \in Writer :
    /\ writing[w] # "idle" => holder = w /\ entry[w] \in Entry
    /\ writing[w] = "linked" => prevHash[w] = LastHash
    /\ writing[w] = "inserted" => HasRow(entry[w])

\* The log's invariant.
AuditInv == AuditTypeOK /\ OneWriter /\ ChainHolds

\* The hash read last is one: that of the last row, or the empty one.
LEMMA LastHashType == ASSUME AuditTypeOK PROVE LastHash \in Hash
<1>1. rows \in Seq(Row) /\ << >> \in Hash BY DEF AuditTypeOK, Hash
<1>2. CASE rows = << >> BY <1>1, <1>2 DEF LastHash
<1>3. CASE rows # << >>
  <2>1. Len(rows) \in 1 .. Len(rows) BY <1>1, <1>3
  <2>2. rows[Len(rows)] \in Row BY <1>1, <2>1
  <2> QED BY <1>3, <2>2 DEF LastHash, Row
<1> QED BY <1>2, <1>3

\* A row linked to the last one keeps the chain, and every row there was.
LEMMA InsertStep == ASSUME AuditInv, NEW w \in Writer, Insert(w) PROVE AuditInv'
<1> DEFINE row == [entry |-> entry[w], prev |-> prevHash[w],
                   hash |-> ComputeHash(prevHash[w], entry[w])]
<1>1. AuditTypeOK /\ OneWriter /\ ChainHolds BY DEF AuditInv
<1>2. writing[w] = "linked" /\ holder = w /\ entry[w] \in Entry /\ prevHash[w] = LastHash
      /\ prevHash[w] \in Hash
  BY <1>1 DEF Insert, OneWriter, AuditTypeOK
<1>3. row \in Row
  <2>1. ComputeHash(prevHash[w], entry[w]) \in Hash BY <1>2 DEF ComputeHash, Hash
  <2> QED BY <1>2, <2>1 DEF Row
<1>4. rows \in Seq(Row) /\ rows' = Append(rows, row) BY <1>1 DEF Insert, AuditTypeOK
<1>5. /\ Len(rows) \in Nat /\ Len(rows') = Len(rows) + 1
      /\ \A i \in 1 .. Len(rows) : rows'[i] = rows[i]
      /\ rows'[Len(rows) + 1] = row
  <2> HIDE DEF row
  <2> QED BY <1>3, <1>4
<1>6. AuditTypeOK'
  <2>1. rows' \in Seq(Row)
    <3> HIDE DEF row
    <3> QED BY <1>3, <1>4
  <2> QED BY <1>1, <2>1 DEF Insert, AuditTypeOK
<1>7. \A e : HasRow(e) => HasRow(e)' BY <1>5 DEF HasRow
<1>8. HasRow(entry[w])'
  <2>1. Len(rows) + 1 \in 1 .. Len(rows') /\ rows'[Len(rows) + 1].entry = entry[w]
    BY <1>5
  <2>2. entry' = entry BY DEF Insert
  <2> QED BY <2>1, <2>2 DEF HasRow
<1>9. OneWriter'
  <2> SUFFICES ASSUME NEW u \in Writer
               PROVE  /\ writing'[u] # "idle" => holder' = u /\ entry'[u] \in Entry
                      /\ writing'[u] = "linked" => prevHash'[u] = LastHash'
                      /\ writing'[u] = "inserted" => HasRow(entry[u])'
    BY DEF OneWriter
  <2>1. CASE u = w BY <2>1, <1>1, <1>2, <1>8 DEF Insert, AuditTypeOK
  <2>2. CASE u # w
    <3>1. writing[u] = "idle" BY <2>2, <1>1, <1>2 DEF OneWriter
    <3> QED BY <2>2, <3>1, <1>1 DEF Insert, AuditTypeOK
  <2> QED BY <2>1, <2>2
<1>10. Verify'
  <2> DEFINE linked(i) == IF i = 1 THEN << >> ELSE rows'[i - 1].hash
  <2> SUFFICES ASSUME NEW i \in 1 .. Len(rows')
               PROVE  /\ rows'[i].prev = linked(i)
                      /\ rows'[i].hash = ComputeHash(linked(i), rows'[i].entry)
    BY DEF Verify, ComputeHash
  <2>1. CASE i \in 1 .. Len(rows)
    <3>1. linked(i) = IF i = 1 THEN << >> ELSE rows[i - 1].hash BY <2>1, <1>5
    <3> QED BY <2>1, <3>1, <1>1, <1>5 DEF ChainHolds, Verify
  <2>2. CASE i = Len(rows) + 1
    <3>1. rows'[i] = row BY <2>2, <1>5
    <3>2. linked(i) = LastHash
      <4>1. CASE rows = << >> BY <4>1, <2>2 DEF LastHash
      <4>2. CASE rows # << >>
        <5>1. Len(rows) \in 1 .. Len(rows) /\ i # 1 /\ i - 1 = Len(rows)
          BY <4>2, <2>2, <1>4, <1>5
        <5> QED BY <4>2, <5>1, <1>5 DEF LastHash
      <4> QED BY <4>1, <4>2
    <3> QED BY <3>1, <3>2, <1>2
  <2> QED BY <2>1, <2>2, <1>5
<1>11. ChainHolds'
  <2>1. \A e \in written : HasRow(e) BY <1>1 DEF ChainHolds, HasRow
  <2>2. written' = written BY DEF Insert
  <2>3. \A e \in written' : HasRow(e)' BY <2>1, <2>2, <1>7
  <2> QED BY <2>3, <1>10 DEF ChainHolds, HasRow
<1> QED BY <1>6, <1>9, <1>11 DEF AuditInv

\* No other step changes the table; one that gives the mutex back leaves no writer
\* at work.
LEMMA AuditSteps == ASSUME AuditInv, [AuditNext]_avars PROVE AuditInv'
<1>1. AuditTypeOK /\ OneWriter /\ ChainHolds BY DEF AuditInv
<1>2. ASSUME UNCHANGED rows
      PROVE  /\ LastHash' = LastHash /\ (Verify <=> Verify')
             /\ \A e : HasRow(e)' <=> HasRow(e)
  BY <1>2 DEF LastHash, Verify, HasRow
<1>3. ASSUME NEW w \in Writer, NEW e \in Entry, Lock(w, e) PROVE AuditInv'
  <2>1. AuditTypeOK' BY <1>1, <1>3 DEF Lock, AuditTypeOK
  <2>2. \A u \in Writer : u # w => writing[u] = "idle"
    BY <1>1, <1>3, AuditAssumption DEF Lock, OneWriter
  <2>3. OneWriter' BY <1>1, <1>2, <1>3, <2>2 DEF Lock, OneWriter, AuditTypeOK
  <2>4. ChainHolds' BY <1>1, <1>2, <1>3 DEF Lock, ChainHolds
  <2> QED BY <2>1, <2>3, <2>4 DEF AuditInv
<1>4. ASSUME NEW w \in Writer, ReadLast(w) PROVE AuditInv'
  <2>1. AuditTypeOK' BY <1>1, <1>4, LastHashType DEF ReadLast, AuditTypeOK
  <2>2. OneWriter' BY <1>1, <1>2, <1>4 DEF ReadLast, OneWriter, AuditTypeOK
  <2>3. ChainHolds' BY <1>1, <1>2, <1>4 DEF ReadLast, ChainHolds
  <2> QED BY <2>1, <2>2, <2>3 DEF AuditInv
<1>5. ASSUME NEW w \in Writer, Unlock(w), writing[w] # "idle",
             \/ UNCHANGED written
             \/ writing[w] = "inserted" /\ written' = written \cup {entry[w]}
      PROVE  AuditInv'
  <2>1. AuditTypeOK'
    BY <1>1, <1>5 DEF Unlock, AuditTypeOK, Hash, OneWriter
  <2>2. \A u \in Writer : u # w => writing[u] = "idle" BY <1>1, <1>5 DEF OneWriter
  <2>3. OneWriter' BY <1>1, <1>2, <1>5, <2>2 DEF Unlock, OneWriter, AuditTypeOK
  <2>4. \A e \in written' : HasRow(e) BY <1>1, <1>5 DEF ChainHolds, HasRow, OneWriter
  <2>5. ChainHolds'
    <3>1. Verify' /\ \A e \in written' : HasRow(e)'
      BY <1>1, <1>2, <1>5, <2>4 DEF Unlock, ChainHolds
    <3> QED BY <3>1 DEF ChainHolds, HasRow
  <2> QED BY <2>1, <2>3, <2>5 DEF AuditInv
<1>6. CASE Crash
  <2>1. AuditTypeOK' BY <1>1, <1>6 DEF Crash, AuditTypeOK, Hash
  <2>2. OneWriter' BY <1>6 DEF Crash, OneWriter
  <2>3. ChainHolds' BY <1>1, <1>2, <1>6 DEF Crash, ChainHolds
  <2> QED BY <2>1, <2>2, <2>3 DEF AuditInv
<1>7. CASE UNCHANGED avars
  <2>1. AuditTypeOK' BY <1>1, <1>7 DEF avars, AuditTypeOK
  <2>2. OneWriter' BY <1>1, <1>2, <1>7 DEF avars, OneWriter
  <2>3. ChainHolds' BY <1>1, <1>2, <1>7 DEF avars, ChainHolds
  <2> QED BY <2>1, <2>2, <2>3 DEF AuditInv
<1>8. ASSUME NEW w \in Writer, WriteFails(w) \/ WriteReturns(w) PROVE AuditInv'
  BY <1>5, <1>8 DEF WriteFails, WriteReturns
<1> QED BY <1>3, <1>4, <1>6, <1>7, <1>8, InsertStep DEF AuditNext

\* An empty log keeps it.
LEMMA AuditStarts == ASSUME AuditInit PROVE AuditInv
BY DEF AuditInit, AuditInv, AuditTypeOK, OneWriter, ChainHolds, Verify, Hash

\* However writes fail, race or are cut off by a crash, the chain verifies at any
\* time, and no entry reported as written is missing (log.go:51-88, 92-148).
THEOREM AuditChainHolds == AuditSpec => []ChainHolds
<1>1. AuditInit => AuditInv BY AuditStarts
<1>2. AuditInv /\ [AuditNext]_avars => AuditInv' BY AuditSteps
<1>3. AuditInv => ChainHolds BY DEF AuditInv
<1> QED BY <1>1, <1>2, <1>3, PTL DEF AuditSpec

\* The pool of agents.

\* A record between the two writes of its end has the status of what its runner
\* returned, and was not killed.
EndIsHonest ==
  ending # NoAgent => /\ run[ending] \in {"result", "error"} /\ ending \notin killed
                      /\ status[ending] = IF run[ending] = "result" THEN "completed"
                                          ELSE "failed"

\* The pool's invariant.
PoolInv == PoolTypeOK /\ EndIsHonest /\ OutcomesAreWhole

\* A place is taken only while there is one, and given back by a cleanup.
LEMMA PoolBound ==
  ASSUME PoolInv, [PoolNext]_pvars PROVE (Cardinality(Used) <= MaxAgents)'
<1>1. PoolTypeOK BY DEF PoolInv
<1>2. IsFiniteSet(Used) /\ Cardinality(Used) \in Nat
  BY PoolAssumption, FS_Subset, FS_CardinalityType DEF Used
<1>3. ASSUME NEW i \in AgentID, NEW a \in Agent, Spawn(i, a)
      PROVE  Cardinality(Used') <= MaxAgents
  <2>1. Used' = Used \cup {i} BY <1>1, <1>3, PoolAssumption DEF Spawn, Used, PoolTypeOK
  <2>2. Cardinality(Used \cup {i}) <= Cardinality(Used) + 1 BY <1>2, FS_AddElement
  <2>3. Cardinality(Used) < MaxAgents /\ Cardinality(Used \cup {i}) \in Nat
    BY <1>2, <1>3, FS_AddElement, FS_CardinalityType DEF Spawn
  <2> QED BY <1>2, <2>1, <2>2, <2>3, PoolAssumption
<1>4. ASSUME Used' \subseteq Used PROVE Cardinality(Used') <= MaxAgents
  <2>1. Cardinality(Used') <= Cardinality(Used) /\ Cardinality(Used') \in Nat
    BY <1>2, <1>4, FS_Subset, FS_CardinalityType
  <2>2. Cardinality(Used) <= MaxAgents BY <1>1 DEF PoolTypeOK
  <2> QED BY <1>2, <2>1, <2>2, PoolAssumption
<1>5. CASE CleanupAgents
  <2>1. \A i \in AgentID : agents'[i] # NoAgent => agents[i] # NoAgent
    BY <1>5 DEF CleanupAgents, Used
  <2>2. Used' \subseteq Used BY <2>1 DEF Used
  <2> QED BY <2>2, <1>4
<1>6. CASE UNCHANGED agents BY <1>4, <1>6 DEF Used
<1>7. ASSUME NEW a \in Agent, RunnerReturns(a) \/ EndStatus(a) \/ EndOutcome(a)
      PROVE  Cardinality(Used') <= MaxAgents
  BY <1>6, <1>7 DEF RunnerReturns, EndStatus, SetEnd, EndOutcome
<1>8. ASSUME NEW i \in AgentID, Kill(i) PROVE Cardinality(Used') <= MaxAgents
  BY <1>6, <1>8 DEF Kill
<1> QED BY <1>3, <1>5, <1>6, <1>7, <1>8 DEF PoolNext, pvars

\* Each action keeps the status and the outcome of the records it touches in step.
LEMMA PoolSteps == ASSUME PoolInv, [PoolNext]_pvars PROVE PoolInv'
<1>1. PoolTypeOK /\ EndIsHonest /\ OutcomesAreWhole BY DEF PoolInv
<1>2. (Cardinality(Used) <= MaxAgents)' BY PoolBound
<1>3. ASSUME NEW i \in AgentID, NEW a \in Agent, Spawn(i, a) PROVE PoolInv'
  <2>1. PoolTypeOK' BY <1>1, <1>2, <1>3 DEF Spawn, PoolTypeOK
  <2>2. EndIsHonest' BY <1>3 DEF Spawn, Unlocked, EndIsHonest
  <2>3. OutcomesAreWhole'
    BY <1>1, <1>3 DEF Spawn, Unlocked, OutcomesAreWhole, PoolTypeOK
  <2> QED BY <2>1, <2>2, <2>3 DEF PoolInv
<1>4. ASSUME NEW a \in Agent, RunnerReturns(a) PROVE PoolInv'
  <2>1. PoolTypeOK' BY <1>1, <1>2, <1>4 DEF RunnerReturns, PoolTypeOK
  <2>2. EndIsHonest' BY <1>1, <1>4 DEF RunnerReturns, EndIsHonest, PoolTypeOK
  <2>3. OutcomesAreWhole' BY <1>1, <1>4 DEF RunnerReturns, OutcomesAreWhole, PoolTypeOK
  <2> QED BY <2>1, <2>2, <2>3 DEF PoolInv
<1>5. ASSUME NEW a \in Agent, EndStatus(a) PROVE PoolInv'
  <2>1. PoolTypeOK' BY <1>1, <1>2, <1>5 DEF EndStatus, SetEnd, PoolTypeOK
  <2>2. EndIsHonest'
    <3>1. CASE status[a] = "killed" BY <3>1, <1>5 DEF EndStatus, SetEnd, Unlocked, EndIsHonest
    <3>2. CASE status[a] # "killed"
      <4>1. ending = NoAgent /\ run[a] \in {"result", "error"} /\ SetEnd(a)
        BY <3>2, <1>5 DEF EndStatus, Unlocked
      <4>2. a \notin killed BY <3>2, <4>1, <1>1, PoolAssumption DEF OutcomesAreWhole
      <4> QED BY <4>1, <4>2, <1>1 DEF SetEnd, EndIsHonest, PoolTypeOK
    <3> QED BY <3>1, <3>2
  <2>3. OutcomesAreWhole'
    <3>1. CASE status[a] = "killed"
      BY <1>1, <1>5, <3>1 DEF EndStatus, SetEnd, Unlocked, OutcomesAreWhole, PoolTypeOK
    <3>2. CASE status[a] # "killed"
      <4>1. ending = NoAgent /\ SetEnd(a) BY <3>2, <1>5 DEF EndStatus, Unlocked
      <4>2. \A b \in Agent \ {a} : status'[b] = status[b] /\ b # ending
        BY <4>1, <1>1, PoolAssumption DEF SetEnd, PoolTypeOK
      <4> QED BY <4>1, <4>2, <1>1 DEF SetEnd, OutcomesAreWhole
    <3> QED BY <3>1, <3>2
  <2> QED BY <2>1, <2>2, <2>3 DEF PoolInv
<1>6. ASSUME NEW a \in Agent, EndOutcome(a) PROVE PoolInv'
  <2>1. PoolTypeOK' BY <1>1, <1>2, <1>6, PoolAssumption DEF EndOutcome, EndIsHonest, PoolTypeOK
  <2>2. EndIsHonest' BY <1>6 DEF EndOutcome, EndIsHonest
  <2>3. OutcomesAreWhole'
    BY <1>1, <1>6, PoolAssumption DEF EndOutcome, EndIsHonest, OutcomesAreWhole, PoolTypeOK
  <2> QED BY <2>1, <2>2, <2>3 DEF PoolInv
<1>7. ASSUME NEW i \in AgentID, Kill(i) PROVE PoolInv'
  <2>1. agents[i] \in Agent BY <1>1, <1>7 DEF Kill, Used, PoolTypeOK
  <2>2. PoolTypeOK' BY <1>1, <1>2, <1>7, <2>1 DEF Kill, PoolTypeOK
  <2>3. EndIsHonest' BY <1>7 DEF Kill, Unlocked, EndIsHonest
  <2>4. OutcomesAreWhole'
    BY <1>1, <1>7, <2>1 DEF Kill, Unlocked, OutcomesAreWhole, PoolTypeOK
  <2> QED BY <2>2, <2>3, <2>4 DEF PoolInv
<1>8. CASE CleanupAgents \/ UNCHANGED pvars
  <2>1. PoolTypeOK' BY <1>1, <1>2, <1>8 DEF CleanupAgents, pvars, PoolTypeOK
  <2>2. EndIsHonest' /\ OutcomesAreWhole'
    BY <1>1, <1>8 DEF CleanupAgents, pvars, EndIsHonest, OutcomesAreWhole
  <2> QED BY <2>1, <2>2 DEF PoolInv
<1> QED BY <1>3, <1>4, <1>5, <1>6, <1>7, <1>8 DEF PoolNext

\* An empty map keeps it.
LEMMA PoolStarts == ASSUME PoolInit PROVE PoolInv
<1>1. Used = {} BY DEF PoolInit, Used
<1>2. Cardinality(Used) = 0 BY <1>1, FS_EmptySet
<1>3. PoolTypeOK BY <1>2, PoolAssumption DEF PoolInit, PoolTypeOK
<1>4. EndIsHonest /\ OutcomesAreWhole BY DEF PoolInit, EndIsHonest, OutcomesAreWhole
<1> QED BY <1>3, <1>4 DEF PoolInv

\* However kills, cleanups and ends meet, every record has what its status says, a
\* kill stands, and the map keeps to its maximum (manager.go:69-215).
THEOREM PoolIsWhole == PoolSpec => [](PoolTypeOK /\ OutcomesAreWhole)
<1>1. PoolInit => PoolInv BY PoolStarts
<1>2. PoolInv /\ [PoolNext]_pvars => PoolInv' BY PoolSteps
<1>3. PoolInv => PoolTypeOK /\ OutcomesAreWhole BY DEF PoolInv
<1> QED BY <1>1, <1>2, <1>3, PTL DEF PoolSpec

-----------------------------------------------------------------------------
(* Goals *)

\* The cycle has chosen a goal and works on it.
AtWork == phase \in {"counting", "decomposing", "working"}

\* What the cycle holds in each phase, and what the store holds of it.
CycleOK ==
  /\ phase = "idle" => fetched = {} /\ chosen = NoGoal
  /\ phase = "scoring" =>
       /\ chosen = NoGoal
       /\ \A g \in fetched : store[g].status = "pending" /\ copies[g] = store[g]
  /\ AtWork => chosen \in Goal
  /\ phase \in {"counting", "decomposing"} => store[chosen].status = "pending"
  /\ phase = "working" => store[chosen].status = "active"

\* Every try of a goal is counted in its row or lost by a fault, and one that may be
\* chosen again has a try left, or had none and was spared.
TriesTally ==
  /\ \A g \in Goal :
       /\ ~(phase = "counting" /\ g = chosen) => tries[g] <= store[g].attempts + faults[g]
       /\ g # chosen /\ store[g].status \in {"absent", "pending"} =>
            tries[g] < MaxAttempts + faults[g] + spared[g]
  /\ AtWork => tries[chosen] <= copies[chosen].attempts + faults[chosen]
  /\ phase = "counting" => tries[chosen] <= store[chosen].attempts + 1 + faults[chosen]

\* The goals' invariant.
GoalsInv == GoalsTypeOK /\ CycleOK /\ TriesTally /\ TriesBounded

\* The store starts with no goal, and the cycle with nothing to do.
LEMMA GoalsStart == GoalsInit => GoalsInv
  BY GoalAssumption DEF GoalsInit, GoalsInv, GoalsTypeOK, CycleOK, TriesTally, TriesBounded,
     AtWork, NoRows, GoalRow

\* Outside the cycle's work: a goal is saved, fetched, rescored or chosen.
LEMMA GoalSelectStep ==
  ASSUME GoalsInv,
         \/ \E g \in Goal : Save(g) \/ Rescore(g) \/ Choose(g)
         \/ \E m \in {"loop", "once"} : Fetch(m)
  PROVE  GoalsInv'
<1>1. GoalsTypeOK /\ CycleOK /\ TriesTally /\ TriesBounded BY DEF GoalsInv
<1>2. ASSUME NEW g \in Goal, Save(g) PROVE GoalsInv'
  <2>1. store'[g].attempts = store[g].attempts /\ store'[g].status = "pending"
        /\ \A h \in Goal \ {g} : store'[h] = store[h]
    BY <1>1, <1>2 DEF Save, GoalsTypeOK, GoalRow
  <2>2. GoalsTypeOK' BY <1>1, <1>2 DEF Save, cycle, history, GoalsTypeOK, GoalRow
  <2>3. CycleOK' BY <1>1, <1>2, <2>1 DEF Save, cycle, history, CycleOK, AtWork, GoalsTypeOK
  <2>4. TriesTally' BY <1>1, <1>2, <2>1 DEF Save, cycle, history, TriesTally, CycleOK, AtWork, GoalsTypeOK
  <2>5. TriesBounded' BY <1>1, <1>2 DEF Save, history, TriesBounded
  <2> QED BY <2>2, <2>3, <2>4, <2>5 DEF GoalsInv
<1>3. ASSUME NEW g \in Goal, Rescore(g) PROVE GoalsInv'
  <2>1. store' = store BY <1>1, <1>3 DEF Rescore, CycleOK, GoalsTypeOK
  <2> QED BY <1>1, <1>3, <2>1
          DEF Rescore, history, GoalsInv, GoalsTypeOK, CycleOK, TriesTally, TriesBounded, AtWork
<1>4. ASSUME NEW g \in Goal, Choose(g) PROVE GoalsInv'
  <2>1. copies'[g].attempts = store[g].attempts + 1 /\ store[g].status = "pending"
        /\ chosen = NoGoal /\ chosen' = g
    BY <1>1, <1>4 DEF Choose, CycleOK, GoalsTypeOK, GoalRow
  <2>2. g # chosen /\ tries[g] <= store[g].attempts + faults[g]
        /\ tries[g] < MaxAttempts + faults[g] + spared[g]
    BY <1>1, <1>4, <2>1, GoalAssumption DEF TriesTally, Choose
  <2>3. tries'[g] = tries[g] + 1 /\ \A h \in Goal \ {g} : tries'[h] = tries[h]
    BY <1>1, <1>4 DEF Choose, GoalsTypeOK
  <2>4. store[g].attempts \in Nat /\ tries[g] \in Nat /\ faults[g] \in Nat
        /\ spared[g] \in Nat /\ MaxAttempts \in Nat
    BY <1>1, GoalAssumption DEF GoalsTypeOK, GoalRow
  <2>5. GoalsTypeOK' BY <1>1, <1>4 DEF Choose, GoalsTypeOK, GoalRow
  <2>6. CycleOK' BY <1>1, <1>4, <2>1 DEF Choose, CycleOK, AtWork
  <2>7. TriesTally'
    <3>1. ASSUME NEW h \in Goal \ {g}
          PROVE  /\ tries'[h] <= store[h].attempts + faults[h]
                 /\ store[h].status \in {"absent", "pending"} =>
                      tries'[h] < MaxAttempts + faults[h] + spared[h]
      BY <1>1, <1>4, <2>1, <2>3, GoalAssumption DEF TriesTally, Choose
    <3>2. tries'[g] <= copies'[g].attempts + faults[g]
          /\ tries'[g] <= store[g].attempts + 1 + faults[g]
      BY <2>1, <2>2, <2>3, <2>4
    <3> QED BY <1>4, <2>1, <3>1, <3>2 DEF Choose, TriesTally, AtWork
  <2>8. TriesBounded' BY <1>1, <1>4, <2>2, <2>3, <2>4 DEF TriesBounded, Choose
  <2> QED BY <2>5, <2>6, <2>7, <2>8 DEF GoalsInv
<1>5. ASSUME NEW m \in {"loop", "once"}, Fetch(m) PROVE GoalsInv'
  BY <1>1, <1>5 DEF Fetch, Pending, GoalsInv, GoalsTypeOK, CycleOK, TriesTally, TriesBounded, AtWork
<1> QED BY <1>2, <1>3, <1>4, <1>5

\* RunOnce's step where the goal cannot be decomposed.
Undecomposed == phase = "decomposing" /\ Spare

\* While the cycle works at a goal, what a write of it and a fault of it change.
LEMMA GoalWriteStep ==
  ASSUME GoalsInv, AtWork, NEW how \in {"pending", "active", "completed", "abandoned"},
         Kept(how) \/ (Fault /\ UNCHANGED store) \/ Undecomposed, UNCHANGED tries
  PROVE  /\ store' \in [Goal -> GoalRow]
         /\ faults' \in [Goal -> Nat] /\ spared' \in [Goal -> Nat]
         /\ \A g \in Goal \ {chosen} :
              store'[g] = store[g] /\ faults'[g] = faults[g] /\ spared'[g] = spared[g]
         /\ \/ /\ Kept(how)
               /\ store'[chosen].status = how
               /\ store'[chosen].attempts = copies[chosen].attempts
               /\ faults'[chosen] = faults[chosen] /\ spared'[chosen] = spared[chosen]
            \/ /\ store'[chosen] = store[chosen]
               /\ faults'[chosen] = faults[chosen] + 1 /\ spared'[chosen] = spared[chosen]
            \/ /\ Undecomposed /\ store'[chosen] = store[chosen] /\ faults'[chosen] = faults[chosen]
               /\ spared'[chosen] = IF copies[chosen].attempts >= MaxAttempts
                                    THEN spared[chosen] + 1 ELSE spared[chosen]
<1>1. GoalsTypeOK /\ chosen \in Goal BY DEF GoalsInv, CycleOK
<1>2. CASE Kept(how) BY <1>1, <1>2 DEF Kept, GoalsTypeOK, GoalRow
<1>3. CASE Fault /\ UNCHANGED store BY <1>1, <1>3 DEF Fault, GoalsTypeOK
<1>4. CASE Undecomposed BY <1>1, <1>4 DEF Undecomposed, Spare, GoalsTypeOK
<1> QED BY <1>2, <1>3, <1>4

\* A step of the work keeps the tally: the row has the count of the copy, or a fault
\* accounts for what it lost; where the cycle ends, what is pending has a try left, or was
\* spared.
LEMMA GoalWorkTally ==
  ASSUME GoalsInv, AtWork, UNCHANGED tries,
         NEW how \in {"pending", "active", "completed", "abandoned"},
         Kept(how) \/ (Fault /\ UNCHANGED store) \/ Undecomposed,
         phase' # "counting",
         \/ chosen' = chosen /\ UNCHANGED copies
         \/ /\ chosen' = NoGoal /\ phase' = "idle"
            /\ how = "pending" =>
                 copies[chosen].attempts < MaxAttempts \/ ~Kept(how)
  PROVE  TriesTally' /\ TriesBounded'
<1>1. GoalsTypeOK /\ CycleOK /\ TriesTally /\ TriesBounded BY DEF GoalsInv
<1>2. chosen \in Goal BY <1>1 DEF CycleOK
<1>3. /\ \A g \in Goal \ {chosen} :
           store'[g] = store[g] /\ faults'[g] = faults[g] /\ spared'[g] = spared[g]
      /\ \/ /\ Kept(how)
            /\ store'[chosen].status = how
            /\ store'[chosen].attempts = copies[chosen].attempts
            /\ faults'[chosen] = faults[chosen] /\ spared'[chosen] = spared[chosen]
         \/ /\ store'[chosen] = store[chosen]
            /\ faults'[chosen] = faults[chosen] + 1 /\ spared'[chosen] = spared[chosen]
         \/ /\ Undecomposed /\ store'[chosen] = store[chosen] /\ faults'[chosen] = faults[chosen]
            /\ spared'[chosen] = IF copies[chosen].attempts >= MaxAttempts
                                 THEN spared[chosen] + 1 ELSE spared[chosen]
  BY GoalWriteStep
<1>4. /\ tries[chosen] \in Nat /\ faults[chosen] \in Nat /\ MaxAttempts \in Nat
      /\ spared[chosen] \in Nat
      /\ store[chosen].attempts \in Nat /\ copies[chosen].attempts \in Nat
  BY <1>1, <1>2, GoalAssumption DEF GoalsTypeOK, GoalRow
<1>5. /\ tries[chosen] <= copies[chosen].attempts + faults[chosen]
      /\ tries[chosen] <= store[chosen].attempts + 1 + faults[chosen]
      /\ tries[chosen] <= MaxAttempts + faults[chosen] + spared[chosen]
      /\ Undecomposed => tries[chosen] <= store[chosen].attempts + faults[chosen]
  BY <1>1, <1>2, <1>4 DEF TriesTally, TriesBounded, AtWork, Undecomposed
<1>6. ASSUME NEW g \in Goal \ {chosen}
      PROVE  /\ tries[g] <= store'[g].attempts + faults'[g]
             /\ store'[g].status \in {"absent", "pending"} =>
                  tries[g] < MaxAttempts + faults'[g] + spared'[g]
             /\ tries[g] <= MaxAttempts + faults'[g] + spared'[g]
  BY <1>1, <1>3 DEF TriesTally, TriesBounded
<1>7. /\ tries[chosen] <= store'[chosen].attempts + faults'[chosen]
      /\ tries[chosen] <= MaxAttempts + faults'[chosen] + spared'[chosen]
      /\ tries[chosen] <= copies[chosen].attempts + faults'[chosen]
  <2>1. CASE /\ store'[chosen].attempts = copies[chosen].attempts
             /\ faults'[chosen] = faults[chosen] /\ spared'[chosen] = spared[chosen]
    BY <2>1, <1>5
  <2>2. CASE /\ store'[chosen] = store[chosen]
             /\ faults'[chosen] = faults[chosen] + 1 /\ spared'[chosen] = spared[chosen]
    BY <2>2, <1>4, <1>5
  <2>3. CASE /\ Undecomposed /\ store'[chosen] = store[chosen]
             /\ faults'[chosen] = faults[chosen]
             /\ spared'[chosen] = IF copies[chosen].attempts >= MaxAttempts
                                  THEN spared[chosen] + 1 ELSE spared[chosen]
    BY <2>3, <1>4, <1>5
  <2>. QED
    BY <1>3, <2>1, <2>2, <2>3
<1>8. chosen' # chosen /\ store'[chosen].status \in {"absent", "pending"} =>
        tries[chosen] < MaxAttempts + faults'[chosen] + spared'[chosen]
  <2>1. SUFFICES ASSUME chosen' # chosen, store'[chosen].status \in {"absent", "pending"}
                 PROVE  tries[chosen] < MaxAttempts + faults'[chosen] + spared'[chosen]
    OBVIOUS
  <2>2. CASE /\ Kept(how) /\ store'[chosen].status = how
             /\ faults'[chosen] = faults[chosen] /\ spared'[chosen] = spared[chosen]
    <3>1. copies[chosen].attempts < MaxAttempts
      BY <2>1, <2>2
    <3>. QED
      BY <2>2, <3>1, <1>4, <1>5
  <2>3. CASE /\ faults'[chosen] = faults[chosen] + 1 /\ spared'[chosen] = spared[chosen]
    BY <2>3, <1>4, <1>5
  <2>4. CASE /\ faults'[chosen] = faults[chosen]
             /\ spared'[chosen] = IF copies[chosen].attempts >= MaxAttempts
                                  THEN spared[chosen] + 1 ELSE spared[chosen]
    BY <2>4, <1>4, <1>5
  <2>. QED
    BY <1>3, <2>2, <2>3, <2>4
<1>9. TriesBounded' BY <1>6, <1>7 DEF TriesBounded
<1>10. AtWork' => chosen' = chosen /\ UNCHANGED copies BY DEF AtWork
<1>11. TriesTally' BY <1>2, <1>6, <1>7, <1>8, <1>10 DEF TriesTally
<1> QED BY <1>9, <1>11

\* The cycle works at its goal: the try is counted, and the goal decomposed, run and judged.
LEMMA GoalWorkStep ==
  ASSUME GoalsInv, Count \/ DecomposeFails \/ Activate \/ Judge
  PROVE  GoalsInv'
<1>1. GoalsTypeOK /\ CycleOK /\ TriesTally /\ TriesBounded BY DEF GoalsInv
<1>2. AtWork /\ chosen \in Goal /\ chosen # NoGoal /\ UNCHANGED tries
  BY <1>1, GoalAssumption DEF Count, DecomposeFails, Activate, Judge, Goto, EndCycle, CycleOK, AtWork
<1>3. NoRows \in [Goal -> GoalRow] BY DEF NoRows, GoalRow
<1>4. CASE Count
  <2>1. Kept("pending") \/ (Fault /\ UNCHANGED store) BY <1>4 DEF Count, Update
  <2>2. TriesTally' /\ TriesBounded' BY <1>2, <1>4, <2>1, GoalWorkTally DEF Count, Goto
  <2>3. store[chosen].status = "pending" BY <1>1, <1>4 DEF Count, CycleOK
  <2>4. /\ store' \in [Goal -> GoalRow]
        /\ faults' \in [Goal -> Nat] /\ spared' \in [Goal -> Nat]
        /\ store'[chosen].status = "pending"
    BY <1>2, <2>1, <2>3, GoalWriteStep
  <2>5. GoalsTypeOK' BY <1>1, <1>2, <1>4, <2>4 DEF Count, Goto, GoalsTypeOK
  <2>6. CycleOK' BY <1>1, <1>2, <1>4, <2>4 DEF Count, Goto, CycleOK, AtWork
  <2> QED BY <2>2, <2>5, <2>6 DEF GoalsInv
<1>5. CASE Activate /\ phase' = "working"
  <2>1. Kept("active") /\ Goto("working") BY <1>5 DEF Activate, EndCycle
  <2>2. TriesTally' /\ TriesBounded' BY <1>2, <1>5, <2>1, GoalWorkTally DEF Goto
  <2>3. /\ store' \in [Goal -> GoalRow]
        /\ faults' \in [Goal -> Nat] /\ spared' \in [Goal -> Nat]
    BY <1>2, <2>1, GoalWriteStep
  <2>4. store'[chosen].status = "active"
    BY <1>1, <1>2, <2>1 DEF Kept, GoalsTypeOK
  <2>5. GoalsTypeOK' BY <1>1, <2>1, <2>3 DEF Goto, GoalsTypeOK
  <2>6. CycleOK' BY <1>1, <1>2, <2>1, <2>4 DEF Goto, CycleOK, AtWork
  <2> QED BY <2>2, <2>5, <2>6 DEF GoalsInv
<1>6. CASE EndCycle
  <2>1. PICK how \in {"pending", "active", "completed", "abandoned"} :
          /\ Kept(how) \/ (Fault /\ UNCHANGED store) \/ Undecomposed
          /\ how = "pending" => copies[chosen].attempts < MaxAttempts \/ ~Kept(how)
    <3>1. AfterFailure \in {"pending", "abandoned"}
          /\ (AfterFailure = "pending" => copies[chosen].attempts < MaxAttempts)
      BY <1>1, <1>2, GoalAssumption DEF AfterFailure, GoalsTypeOK, GoalRow
    <3>2. CASE (Fault /\ UNCHANGED store) \/ Undecomposed BY <3>2
    <3>3. CASE Kept("completed") BY <3>3
    <3>4. CASE Kept(AfterFailure) BY <3>1, <3>4
    <3>5. ~Count /\ (Activate => Fault /\ UNCHANGED store)
      BY <1>6 DEF Count, Activate, EndCycle, Goto
    <3> QED BY <3>2, <3>3, <3>4, <3>5 DEF DecomposeFails, Judge, Update, Undecomposed
  <2>2. TriesTally' /\ TriesBounded' BY <1>2, <1>6, <2>1, GoalWorkTally DEF EndCycle
  <2>3. /\ store' \in [Goal -> GoalRow]
        /\ faults' \in [Goal -> Nat] /\ spared' \in [Goal -> Nat]
    BY <1>2, <2>1, GoalWriteStep
  <2>4. GoalsTypeOK' BY <1>1, <1>3, <1>6, <2>3 DEF EndCycle, GoalsTypeOK
  <2>5. CycleOK' BY <1>6 DEF EndCycle, CycleOK, AtWork
  <2> QED BY <2>2, <2>4, <2>5 DEF GoalsInv
<1> QED BY <1>4, <1>5, <1>6 DEF DecomposeFails, Activate, Judge, Goto

\* A crash leaves the store as it is, and costs what it met a fault.
LEMMA GoalCrashStep == ASSUME GoalsInv, CrashInCycle PROVE GoalsInv'
<1> DEFINE hit == IF chosen = NoGoal THEN fetched ELSE {chosen}
<1>1. GoalsTypeOK /\ CycleOK /\ TriesTally /\ TriesBounded BY DEF GoalsInv
<1>2. UNCHANGED <<store, calls, tries, mode, spared>> /\ EndCycle /\ phase # "idle"
      /\ faults' = [g \in Goal |-> IF g \in hit THEN faults[g] + 1 ELSE faults[g]]
  BY DEF CrashInCycle, EndCycle
<1>3. GoalsTypeOK'
  BY <1>1, <1>2 DEF GoalsTypeOK, EndCycle, NoRows, GoalRow
<1>4. CycleOK' BY <1>2 DEF EndCycle, CycleOK, AtWork
<1>5. ASSUME NEW g \in Goal
      PROVE  /\ tries[g] <= store[g].attempts + faults'[g]
             /\ store[g].status \in {"absent", "pending"} => tries[g] < MaxAttempts + faults'[g] + spared[g]
             /\ tries[g] <= MaxAttempts + faults'[g] + spared[g]
  <2>1. /\ tries[g] \in Nat /\ faults[g] \in Nat /\ store[g].attempts \in Nat
        /\ MaxAttempts \in Nat /\ tries[g] <= MaxAttempts + faults[g] + spared[g] /\ spared[g] \in Nat
    BY <1>1, GoalAssumption DEF GoalsTypeOK, GoalRow, TriesBounded
  <2>2. CASE g = chosen
    <3>1. AtWork /\ g \in hit BY <1>1, <1>2, <2>2, GoalAssumption DEF CycleOK, GoalsTypeOK, AtWork
    <3>2. tries[g] <= store[g].attempts + 1 + faults[g]
      BY <1>1, <2>1, <2>2, <3>1 DEF TriesTally, AtWork
    <3> QED BY <1>2, <2>1, <3>1, <3>2
  <2>3. CASE g # chosen BY <1>1, <1>2, <2>1, <2>3 DEF TriesTally
  <2> QED BY <2>2, <2>3
<1>6. TriesTally' /\ TriesBounded' BY <1>2, <1>5 DEF TriesTally, TriesBounded, AtWork, EndCycle
<1> QED BY <1>3, <1>4, <1>6 DEF GoalsInv

\* Every step of the goals keeps it.
LEMMA GoalsSteps == ASSUME GoalsInv, [GoalsNext]_ovars PROVE GoalsInv'
<1>1. CASE UNCHANGED ovars
  BY <1>1 DEF ovars, cycle, history, GoalsInv, GoalsTypeOK, CycleOK, TriesTally, TriesBounded, AtWork
<1>2. CASE GoalsNext BY <1>2, GoalSelectStep, GoalWorkStep, GoalCrashStep DEF GoalsNext, Cycle
<1> QED BY <1>1, <1>2

\* A goal is tried no more often than the maximum, but for the tries a fault cut off or
\* lost and those after it that RunOnce could not decompose: the bound of executor.go:207
\* and 268, however decompositions, judges and writes fail.
THEOREM GoalsAreBounded == GoalsSpec => [](GoalsTypeOK /\ TriesBounded)
<1>1. GoalsInv => GoalsTypeOK /\ TriesBounded BY DEF GoalsInv
<1> QED BY <1>1, GoalsStart, GoalsSteps, PTL DEF GoalsSpec

\* No write of a copy fetched before undoes a completed or an abandoned goal, as long
\* as one cycle runs at a time (executor.go:64-89, 144-235).
THEOREM FinishedGoalsStay == GoalsSpec => FinishedStays
<1>1. ASSUME GoalsInv, [GoalsNext]_ovars,
             NEW g \in Goal, store[g].status \in Finished
      PROVE  store'[g] = store[g]
  <2>1. GoalsTypeOK /\ CycleOK BY <1>1 DEF GoalsInv
  <2>2. CASE \E h \in Goal : Save(h)
    BY <1>1, <2>1, <2>2 DEF Save, GoalsTypeOK, Finished
  <2>3. CASE \E h \in Goal : Rescore(h)
    BY <1>1, <2>1, <2>3 DEF Rescore, GoalsTypeOK, CycleOK, Finished
  <2>4. CASE Count \/ DecomposeFails \/ Activate \/ Judge
    <3>1. AtWork /\ chosen \in Goal /\ chosen # g
      BY <1>1, <2>1, <2>4 DEF Count, DecomposeFails, Activate, Judge, CycleOK, AtWork, Finished
    <3>2. store' = store \/ \E how \in {"pending", "active", "completed", AfterFailure} : Kept(how)
      BY <2>4 DEF Count, DecomposeFails, Activate, Judge, Update, Spare
    <3> QED BY <2>1, <3>1, <3>2 DEF Kept, GoalsTypeOK
  <2>5. CASE UNCHANGED store BY <2>5
  <2> QED BY <1>1, <2>2, <2>3, <2>4, <2>5
          DEF GoalsNext, Cycle, Fetch, Choose, CrashInCycle, ovars
<1>2. GoalsInv /\ [GoalsNext]_ovars =>
        [\A g \in Goal : store[g].status \in Finished => store'[g] = store[g]]_ovars
  BY <1>1
<1> QED BY <1>2, GoalsStart, GoalsSteps, PTL DEF GoalsSpec, FinishedStays

-----------------------------------------------------------------------------
(* EventBus *)

\* The runs that panicked, since the dead letters were cleared.
RunsThatPanicked == {hr \in (DOMAIN events) \X (1 .. MaxHandlers) :
                       /\ hr[2] \in DOMAIN events[hr[1]].to
                       /\ At(hr[1], hr[2]) = "panicked"}
\* What the webhooks store tells of one run.
DeliveriesOf(e, i) == {d \in deliveries : d.event = e /\ d.run = i}

\* A handler runs for each subscriber, and has attempts left until it ends.
EventOK(ev) ==
  /\ ev \in Event
  /\ Len(ev.to) <= MaxHandlers /\ DOMAIN ev.runs = DOMAIN ev.to
  /\ \A i \in DOMAIN ev.to :
       /\ ev.runs[i].at \notin Ended => ev.runs[i].attempts < Attempts
       /\ ev.back /\ ev.mode # "normal" => ev.runs[i].at \in Ended

\* Every event is so, and there are no more than may be.
EventsOK ==
  /\ Len(events) <= MaxEvents /\ Len(subscribers) <= MaxHandlers
  /\ \A e \in DOMAIN events : EventOK(events[e])

\* The dead letters are the latest of the panics since they were cleared.
LettersOK ==
  /\ \A k \in DOMAIN dlq : dlq[k] \in RunsThatPanicked
  /\ \A k, l \in DOMAIN dlq : dlq[k] = dlq[l] => k = l
  /\ Len(dlq) = IF Cardinality(RunsThatPanicked) < MaxDeadLetters
                THEN Cardinality(RunsThatPanicked) ELSE MaxDeadLetters

\* One delivery tells how a webhook ended.
DeliveriesOK ==
  /\ \A d \in deliveries : d.status = "good" \/ d.attempts = Attempts
  /\ \A d \in deliveries : /\ d.event \in DOMAIN events /\ d.run \in DOMAIN events[d.event].to
                           /\ At(d.event, d.run) = "recorded"
  /\ \A c, d \in deliveries : c.event = d.event /\ c.run = d.run => c = d
  /\ \A e \in DOMAIN events : \A i \in DOMAIN events[e].to :
       At(e, i) = "recorded" => DeliveriesOf(e, i) # {}

\* The bus's invariant.
BusInv == BusTypeOK /\ EventsOK /\ LettersOK /\ DeliveriesOK

\* A sequence with one more element, and one without its first.
LEMMA AppendFacts ==
  ASSUME NEW S, NEW q \in Seq(S), NEW x \in S
  PROVE  /\ Append(q, x) \in Seq(S) /\ Len(Append(q, x)) = Len(q) + 1
         /\ DOMAIN Append(q, x) = 1 .. Len(q) + 1
         /\ \A k \in 1 .. Len(q) : Append(q, x)[k] = q[k]
         /\ Append(q, x)[Len(q) + 1] = x
  OBVIOUS

\* A sequence without its first element.
LEMMA TailFacts ==
  ASSUME NEW S, NEW q \in Seq(S), q # <<>>
  PROVE  /\ Tail(q) \in Seq(S) /\ Len(Tail(q)) = Len(q) - 1
         /\ DOMAIN Tail(q) = 1 .. Len(q) - 1
         /\ \A k \in 1 .. Len(q) - 1 : Tail(q)[k] = q[k + 1]
         /\ Head(q) = q[1] /\ Len(q) \in Nat \ {0} /\ DOMAIN q = 1 .. Len(q)
  OBVIOUS

\* An event's fields have their types.
LEMMA EventFields ==
  ASSUME NEW ev \in Event
  PROVE  /\ ev.mode \in {"high", "normal", "sync"} /\ ev.back \in BOOLEAN
         /\ ev.to \in Seq(Handler) /\ DOMAIN ev.to = 1 .. Len(ev.to) /\ Len(ev.to) \in Nat
         /\ ev.runs \in Seq(HandlerRun) /\ DOMAIN ev.runs = 1 .. Len(ev.runs)
         /\ \A i \in DOMAIN ev.runs : ev.runs[i] \in HandlerRun
<1>1. /\ ev.mode \in {"high", "normal", "sync"} /\ ev.back \in BOOLEAN
      /\ ev.to \in Seq(Handler) /\ ev.runs \in Seq(HandlerRun)
  BY DEF Event
<1> QED BY <1>1

\* An element of the events is an event.
LEMMA EventsType ==
  ASSUME BusTypeOK
  PROVE  /\ events \in Seq(Event) /\ DOMAIN events = 1 .. Len(events) /\ Len(events) \in Nat
         /\ \A e \in DOMAIN events : events[e] \in Event
BY DEF BusTypeOK

\* Runs can be counted.
LEMMA PanicsAreFinite ==
  ASSUME BusTypeOK
  PROVE  IsFiniteSet(RunsThatPanicked) /\ Cardinality(RunsThatPanicked) \in Nat
<1>1. IsFiniteSet(DOMAIN events) /\ IsFiniteSet(1 .. MaxHandlers)
  BY EventsType, BusAssumption, FS_Interval
<1>2. IsFiniteSet((DOMAIN events) \X (1 .. MaxHandlers)) BY <1>1, FS_Product
<1>3. RunsThatPanicked \subseteq (DOMAIN events) \X (1 .. MaxHandlers) BY DEF RunsThatPanicked
<1>4. IsFiniteSet(RunsThatPanicked) BY <1>2, <1>3, FS_Subset
<1> QED BY <1>4, FS_CardinalityType

\* The hr of one handler of one event changes.
Goes(e, i, r) == events' = [events EXCEPT ![e].runs[i] = r]

\* It changes that run alone.
LEMMA GoesFacts ==
  ASSUME BusTypeOK, EventsOK, NEW e \in DOMAIN events, NEW i \in DOMAIN events[e].to,
         NEW r \in HandlerRun, Goes(e, i, r), UNCHANGED subscribers,
         events[e].runs[i].at \notin Ended,
         r.at \notin Ended => r.attempts < Attempts
  PROVE  /\ events' \in Seq(Event) /\ EventsOK'
         /\ DOMAIN events' = DOMAIN events /\ Len(events') = Len(events)
         /\ (\A f \in DOMAIN events : events'[f].to = events[f].to)
         /\ \A f \in DOMAIN events : \A j \in DOMAIN events[f].to :
              At(f, j)' = IF f = e /\ j = i THEN r.at ELSE At(f, j)
<1> DEFINE ev == events[e]  new == [ev EXCEPT !.runs = [@ EXCEPT ![i] = r]]
<1>1. /\ ev \in Event /\ EventOK(ev) /\ i \in DOMAIN ev.runs /\ events \in Seq(Event)
      /\ events' = [events EXCEPT ![e] = new]
  BY EventsType DEF EventsOK, EventOK, Goes
<1>2. [ev.runs EXCEPT ![i] = r] \in Seq(HandlerRun) BY <1>1, EventFields
<1>3. /\ new \in Event /\ new.to = ev.to /\ new.mode = ev.mode /\ new.back = ev.back
      /\ new.runs = [ev.runs EXCEPT ![i] = r]
  BY <1>1, <1>2 DEF Event
<1>4. DOMAIN new.runs = DOMAIN ev.runs /\ \A j \in DOMAIN ev.runs : new.runs[j] = IF j = i THEN r ELSE ev.runs[j]
  BY <1>1, <1>3
<1>5. ev.back /\ ev.mode # "normal" => FALSE BY <1>1 DEF EventOK
<1>6. EventOK(new)
  <2> HIDE DEF new
  <2>1. \A j \in DOMAIN new.to : new.runs[j].at \notin Ended => new.runs[j].attempts < Attempts
    <3> HIDE DEF ev
    <3> QED BY <1>1, <1>3, <1>4 DEF EventOK
  <2> QED BY <1>1, <1>3, <1>4, <1>5, <2>1 DEF EventOK
<1> HIDE DEF new
<1>7. /\ events' \in Seq(Event) /\ DOMAIN events' = DOMAIN events /\ Len(events') = Len(events)
      /\ \A f \in DOMAIN events : events'[f] = IF f = e THEN new ELSE events[f]
  BY <1>1, <1>3
<1>8. EventsOK' BY <1>6, <1>7 DEF EventsOK
<1>9. \A f \in DOMAIN events : events'[f].to = events[f].to BY <1>3, <1>7
<1>10. \A f \in DOMAIN events : \A j \in DOMAIN events[f].to :
              At(f, j)' = IF f = e /\ j = i THEN r.at ELSE At(f, j)
  <2> SUFFICES ASSUME NEW f \in DOMAIN events, NEW j \in DOMAIN events[f].to
               PROVE  events'[f].runs[j].at = IF f = e /\ j = i THEN r.at ELSE events[f].runs[j].at
    BY DEF At
  <2>1. CASE f # e BY <1>7, <2>1
  <2>2. CASE f = e
    <3>1. j \in DOMAIN ev.runs BY <1>1, <2>2 DEF EventOK
    <3> QED BY <1>4, <1>7, <2>2, <3>1
  <2> QED BY <2>1, <2>2
<1> QED BY <1>7, <1>8, <1>9, <1>10

\* Set is such a change.
LEMMA SetFacts ==
  ASSUME BusTypeOK, EventsOK, NEW e \in DOMAIN events, NEW i \in DOMAIN events[e].to,
         NEW place, Set(e, i, place)
  PROVE  /\ events[e].runs[i] \in HandlerRun
         /\ Goes(e, i, [events[e].runs[i] EXCEPT !.at = place])
         /\ [events[e].runs[i] EXCEPT !.at = place].attempts = events[e].runs[i].attempts
         /\ [events[e].runs[i] EXCEPT !.at = place].at = place
         /\ place \in {"todo", "running"} \cup Ended
              => [events[e].runs[i] EXCEPT !.at = place] \in HandlerRun
<1>1. events[e] \in Event /\ i \in DOMAIN events[e].runs BY EventsType DEF EventsOK, EventOK
<1>2. events[e].runs[i] \in HandlerRun BY <1>1, EventFields
<1>3. Goes(e, i, [events[e].runs[i] EXCEPT !.at = place]) BY DEF Set, Goes
<1> QED BY <1>2, <1>3 DEF HandlerRun

\* A hr that neither panics nor is recorded changes no letter and no delivery.
LEMMA QuietRun ==
  ASSUME BusInv, NEW e \in DOMAIN events, NEW i \in DOMAIN events[e].to, NEW r \in HandlerRun,
         Goes(e, i, r), UNCHANGED <<subscribers, dlq, deliveries>>,
         At(e, i) \notin Ended, r.at \notin {"panicked", "recorded"},
         r.at \notin Ended => r.attempts < Attempts
  PROVE  BusInv'
<1>1. BusTypeOK /\ EventsOK /\ LettersOK /\ DeliveriesOK BY DEF BusInv
<1>2. /\ events' \in Seq(Event) /\ EventsOK'
         /\ DOMAIN events' = DOMAIN events /\ Len(events') = Len(events)
         /\ (\A f \in DOMAIN events : events'[f].to = events[f].to)
         /\ \A f \in DOMAIN events : \A j \in DOMAIN events[f].to :
              At(f, j)' = IF f = e /\ j = i THEN r.at ELSE At(f, j)
  BY <1>1, GoesFacts DEF At
<1>3. BusTypeOK' BY <1>1, <1>2 DEF BusTypeOK
<1>4. At(e, i) \notin {"panicked", "recorded"} BY DEF Ended
<1>5. RunsThatPanicked' = RunsThatPanicked BY <1>2, <1>4 DEF RunsThatPanicked
<1>6. LettersOK' BY <1>1, <1>5 DEF LettersOK
<1>7. DeliveriesOK'
  <2>1. \A f \in DOMAIN events : \A j \in DOMAIN events[f].to :
          At(f, j)' = "recorded" <=> At(f, j) = "recorded"
    BY <1>2, <1>4
  <2>2. \A f, j : DeliveriesOf(f, j)' = DeliveriesOf(f, j) BY DEF DeliveriesOf
  <2> QED BY <1>1, <1>2, <2>1, <2>2 DEF DeliveriesOK
<1> QED BY <1>2, <1>3, <1>6, <1>7 DEF BusInv

\* A handler panics: its letter is the latest.
LEMMA PanicStep ==
  ASSUME BusInv, NEW e \in DOMAIN events, NEW i \in DOMAIN events[e].to, HandlerPanics(e, i)
  PROVE  BusInv'
<1> DEFINE r == [events[e].runs[i] EXCEPT !.at = "panicked"]
           letter == <<e, i>>
           Letter == (1 .. MaxEvents) \X (1 .. MaxHandlers)
           rest == IF Len(dlq) >= MaxDeadLetters THEN Tail(dlq) ELSE dlq
<1>1. BusTypeOK /\ EventsOK /\ LettersOK /\ DeliveriesOK BY DEF BusInv
<1>2. /\ At(e, i) = "running" /\ Set(e, i, "panicked") /\ dlq' = Append(rest, letter)
      /\ UNCHANGED <<subscribers, deliveries>>
  BY DEF HandlerPanics, Running, SendToDLQ
<1>3. r \in HandlerRun /\ Goes(e, i, r) /\ r.at = "panicked" BY <1>1, <1>2, SetFacts DEF Ended
<1> HIDE DEF r
<1>4. At(e, i) \notin Ended /\ r.at \in Ended BY <1>2, <1>3 DEF Ended
<1>5. /\ events' \in Seq(Event) /\ EventsOK'
         /\ DOMAIN events' = DOMAIN events /\ Len(events') = Len(events)
         /\ (\A f \in DOMAIN events : events'[f].to = events[f].to)
         /\ \A f \in DOMAIN events : \A j \in DOMAIN events[f].to :
              At(f, j)' = IF f = e /\ j = i THEN "panicked" ELSE At(f, j)
  BY <1>1, <1>2, <1>3, <1>4, GoesFacts DEF At
<1>6. e \in 1 .. MaxEvents /\ i \in 1 .. MaxHandlers
  <2>1. events[e] \in Event /\ Len(events[e].to) <= MaxHandlers /\ Len(events) <= MaxEvents
    BY <1>1, EventsType DEF EventsOK, EventOK
  <2> QED BY <1>1, <2>1, EventsType, EventFields, BusAssumption
<1>7. /\ dlq \in Seq(Letter) /\ letter \in Letter
      /\ Len(dlq) \in Nat /\ DOMAIN dlq = 1 .. Len(dlq)
  BY <1>1, <1>6 DEF BusTypeOK
<1>8. /\ rest \in Seq(Letter) /\ Len(rest) \in Nat
      /\ DOMAIN rest = 1 .. Len(rest)
      /\ Len(rest) = IF Len(dlq) >= MaxDeadLetters THEN Len(dlq) - 1 ELSE Len(dlq)
      /\ \A k \in DOMAIN rest : \E l \in DOMAIN dlq :
           rest[k] = dlq[l] /\ l = k + IF Len(dlq) >= MaxDeadLetters THEN 1 ELSE 0
  <2>1. CASE Len(dlq) >= MaxDeadLetters
    <3>1. dlq # <<>> /\ rest = Tail(dlq) BY <1>7, <2>1, BusAssumption
    <3>2. /\ Tail(dlq) \in Seq(Letter)
          /\ Len(Tail(dlq)) = Len(dlq) - 1 /\ DOMAIN Tail(dlq) = 1 .. Len(dlq) - 1
          /\ \A k \in DOMAIN Tail(dlq) : Tail(dlq)[k] = dlq[k + 1] /\ k + 1 \in DOMAIN dlq
      <4>1. \A k \in 1 .. Len(dlq) - 1 : k + 1 \in DOMAIN dlq BY <1>7
      <4> QED BY <1>7, <3>1, <4>1, TailFacts
    <3> QED BY <1>7, <2>1, <3>1, <3>2, BusAssumption
  <2>2. CASE ~(Len(dlq) >= MaxDeadLetters)
    BY <1>7, <2>2
  <2> QED BY <2>1, <2>2
<1> HIDE DEF rest, letter, Letter
<1>9. /\ dlq' \in Seq(Letter) /\ Len(dlq') = Len(rest) + 1
      /\ DOMAIN dlq' = 1 .. Len(rest) + 1
      /\ \A k \in DOMAIN rest : dlq'[k] = rest[k]
      /\ dlq'[Len(rest) + 1] = letter
  <2>1. rest \in Seq(Letter) /\ letter \in Letter /\ DOMAIN rest = 1 .. Len(rest) BY <1>7, <1>8
  <2>2. /\ Append(rest, letter) \in Seq(Letter) /\ Len(Append(rest, letter)) = Len(rest) + 1
        /\ DOMAIN Append(rest, letter) = 1 .. Len(rest) + 1
        /\ \A k \in 1 .. Len(rest) : Append(rest, letter)[k] = rest[k]
        /\ Append(rest, letter)[Len(rest) + 1] = letter
    BY <2>1, AppendFacts
  <2> QED BY <1>2, <2>1, <2>2
<1>10. BusTypeOK' BY <1>1, <1>2, <1>5, <1>9 DEF BusTypeOK, Letter
<1>11. letter \notin RunsThatPanicked
  BY <1>2 DEF RunsThatPanicked, letter
<1>12. RunsThatPanicked' = RunsThatPanicked \cup {letter}
  BY <1>5, <1>6 DEF RunsThatPanicked, letter
<1>13. Cardinality(RunsThatPanicked') = Cardinality(RunsThatPanicked) + 1
       /\ Cardinality(RunsThatPanicked) \in Nat
  <2>1. IsFiniteSet(RunsThatPanicked) /\ Cardinality(RunsThatPanicked) \in Nat
    BY <1>1, PanicsAreFinite
  <2> QED BY <2>1, <1>11, <1>12, FS_AddElement
<1>14. LettersOK'
  <2>1. \A k \in DOMAIN rest : rest[k] \in RunsThatPanicked
    <3>1. \A l \in DOMAIN dlq : dlq[l] \in RunsThatPanicked BY <1>1 DEF LettersOK
    <3> SUFFICES ASSUME NEW k \in DOMAIN rest PROVE rest[k] \in RunsThatPanicked
      OBVIOUS
    <3>2. PICK l \in DOMAIN dlq : rest[k] = dlq[l] BY <1>8
    <3> QED BY <3>1, <3>2
  <2>2. \A k \in DOMAIN dlq' : dlq'[k] \in RunsThatPanicked' BY <1>8, <1>9, <1>12, <2>1
  <2>3. \A k, l \in DOMAIN rest : rest[k] = rest[l] => k = l
    <3> SUFFICES ASSUME NEW k \in DOMAIN rest, NEW l \in DOMAIN rest, rest[k] = rest[l]
                 PROVE  k = l
      OBVIOUS
    <3>1. PICK m \in DOMAIN dlq : rest[k] = dlq[m] /\ m = k + IF Len(dlq) >= MaxDeadLetters THEN 1 ELSE 0
      BY <1>8
    <3>2. PICK n \in DOMAIN dlq : rest[l] = dlq[n] /\ n = l + IF Len(dlq) >= MaxDeadLetters THEN 1 ELSE 0
      BY <1>8
    <3>3. m = n BY <1>1, <3>1, <3>2 DEF LettersOK
    <3> QED BY <3>1, <3>2, <3>3, <1>8
  <2>4. \A k, l \in DOMAIN dlq' : dlq'[k] = dlq'[l] => k = l
    <3>1. \A k \in DOMAIN dlq' : k \in DOMAIN rest \/ k = Len(rest) + 1 BY <1>8, <1>9
    <3>2. \A k \in DOMAIN rest : dlq'[k] # letter BY <1>9, <1>11, <2>1
    <3> QED BY <1>9, <2>3, <3>1, <3>2
  <2>5. Len(dlq') = IF Cardinality(RunsThatPanicked') < MaxDeadLetters
                    THEN Cardinality(RunsThatPanicked') ELSE MaxDeadLetters
    BY <1>1, <1>8, <1>9, <1>13, <1>7, BusAssumption DEF LettersOK
  <2> QED BY <2>2, <2>4, <2>5 DEF LettersOK
<1>15. DeliveriesOK'
  <2>1. \A f \in DOMAIN events : \A j \in DOMAIN events[f].to :
          At(f, j)' = "recorded" <=> At(f, j) = "recorded"
    BY <1>2, <1>5
  <2>2. \A f, j : DeliveriesOf(f, j)' = DeliveriesOf(f, j) BY <1>2 DEF DeliveriesOf
  <2> QED BY <1>1, <1>2, <1>5, <2>1, <2>2 DEF DeliveriesOK
<1> QED BY <1>5, <1>10, <1>14, <1>15 DEF BusInv

\* A request that is the last, or good, is recorded.
LEMMA RecordStep ==
  ASSUME BusInv, NEW e \in DOMAIN events, NEW i \in DOMAIN events[e].to,
         NEW how \in {"good", "bad"}, Running(e, i),
         how = "good" \/ Attempted(e, i) = Attempts,
         Goes(e, i, [attempts |-> Attempted(e, i), at |-> "recorded"]),
         RecordDelivery(e, i, how), UNCHANGED <<subscribers, dlq>>
  PROVE  BusInv'
<1> DEFINE r == [attempts |-> Attempted(e, i), at |-> "recorded"]
           d == [event |-> e, run |-> i, status |-> how, attempts |-> Attempted(e, i)]
<1>1. BusTypeOK /\ EventsOK /\ LettersOK /\ DeliveriesOK BY DEF BusInv
<1>2. At(e, i) = "running" /\ deliveries' = deliveries \cup {d} BY DEF Running, RecordDelivery
<1>3. /\ events[e] \in Event /\ EventOK(events[e]) /\ events[e].runs[i] \in HandlerRun
      /\ e \in 1 .. MaxEvents /\ i \in 1 .. MaxHandlers
  <2>1. events[e] \in Event /\ EventOK(events[e]) /\ Len(events) <= MaxEvents
    BY <1>1, EventsType DEF EventsOK
  <2>2. Len(events[e].to) <= MaxHandlers /\ i \in DOMAIN events[e].runs BY <2>1 DEF EventOK
  <2> QED BY <1>1, <2>1, <2>2, EventsType, EventFields, BusAssumption
<1>4. Attempted(e, i) \in 1 .. Attempts
  <2>1. events[e].runs[i].attempts \in 0 .. Attempts BY <1>3 DEF HandlerRun
  <2>2. events[e].runs[i].attempts < Attempts BY <1>2, <1>3 DEF EventOK, At, Ended
  <2> QED BY <2>1, <2>2 DEF Attempted, Attempts
<1>5. r \in HandlerRun /\ r.at = "recorded" /\ r.at \in Ended BY <1>4 DEF HandlerRun, Ended, Attempts
<1>6. /\ d \in [event : 1 .. MaxEvents, run : 1 .. MaxHandlers, status : {"good", "bad"}, attempts : 1 .. Attempts]
      /\ d.event = e /\ d.run = i /\ (d.status = "good" \/ d.attempts = Attempts)
  BY <1>3, <1>4
<1> HIDE DEF r, d
<1>7. /\ events' \in Seq(Event) /\ EventsOK'
      /\ DOMAIN events' = DOMAIN events /\ Len(events') = Len(events)
      /\ (\A f \in DOMAIN events : events'[f].to = events[f].to)
      /\ \A f \in DOMAIN events : \A j \in DOMAIN events[f].to :
           At(f, j)' = IF f = e /\ j = i THEN "recorded" ELSE At(f, j)
  <2>1. Goes(e, i, r) /\ events[e].runs[i].at \notin Ended BY <1>2 DEF r, At, Ended
  <2> QED BY <1>1, <1>5, <2>1, GoesFacts
<1>8. BusTypeOK' BY <1>1, <1>2, <1>6, <1>7 DEF BusTypeOK
<1>9. LettersOK'
  <2>1. RunsThatPanicked' = RunsThatPanicked BY <1>2, <1>7 DEF RunsThatPanicked
  <2> QED BY <1>1, <2>1 DEF LettersOK
<1>10. DeliveriesOK'
  <2>1. \A c \in deliveries : ~(c.event = e /\ c.run = i) BY <1>1, <1>2 DEF DeliveriesOK
  <2>2. \A c \in deliveries' : c.status = "good" \/ c.attempts = Attempts
    BY <1>1, <1>2, <1>6 DEF DeliveriesOK
  <2>3. ASSUME NEW c \in deliveries'
        PROVE  c.event \in DOMAIN events' /\ c.run \in DOMAIN events'[c.event].to
               /\ At(c.event, c.run)' = "recorded"
    <3>1. CASE c = d BY <3>1, <1>6, <1>7
    <3>2. CASE c \in deliveries
      <4>1. c.event \in DOMAIN events /\ c.run \in DOMAIN events[c.event].to /\ At(c.event, c.run) = "recorded"
        BY <1>1, <3>2 DEF DeliveriesOK
      <4> QED BY <4>1, <1>7
    <3> QED BY <1>2, <3>1, <3>2
  <2>4. \A b, c \in deliveries' : b.event = c.event /\ b.run = c.run => b = c
    BY <1>1, <1>2, <1>6, <2>1 DEF DeliveriesOK
  <2>5. ASSUME NEW f \in DOMAIN events', NEW j \in DOMAIN events'[f].to, At(f, j)' = "recorded"
        PROVE  DeliveriesOf(f, j)' # {}
    <3>1. f \in DOMAIN events /\ j \in DOMAIN events[f].to BY <1>7
    <3>2. CASE f = e /\ j = i BY <1>2, <1>6, <3>2 DEF DeliveriesOf
    <3>3. CASE ~(f = e /\ j = i)
      <4>1. At(f, j) = "recorded" BY <1>7, <2>5, <3>1, <3>3
      <4> QED BY <1>1, <1>2, <3>1, <4>1 DEF DeliveriesOK, DeliveriesOf
    <3> QED BY <3>2, <3>3
  <2> QED BY <2>2, <2>3, <2>4, <2>5 DEF DeliveriesOK
<1> QED BY <1>7, <1>8, <1>9, <1>10 DEF BusInv

\* What a handler does.
LEMMA HandlerStep ==
  ASSUME BusInv, NEW e \in DOMAIN events, NEW i \in DOMAIN events[e].to,
         \/ BeginRun(e, i) \/ HandlerReturns(e, i) \/ HandlerPanics(e, i) \/ BuildFails(e, i)
         \/ \E how \in {"good", "bad"} : Send(e, i, how)
  PROVE  BusInv'
<1>1. BusTypeOK /\ EventsOK BY DEF BusInv
<1>2. /\ EventOK(events[e]) /\ events[e].runs[i] \in HandlerRun
      /\ (At(e, i) \notin Ended => events[e].runs[i].attempts < Attempts)
  <2>1. EventOK(events[e]) /\ events[e] \in Event BY <1>1, EventsType DEF EventsOK
  <2>2. i \in DOMAIN events[e].runs BY <2>1 DEF EventOK
  <2> QED BY <2>1, <2>2, EventFields DEF EventOK, At
<1>3. ASSUME NEW place \in {"running", "returned", "unbuilt"}, Set(e, i, place),
             UNCHANGED <<subscribers, dlq, deliveries>>, At(e, i) \in {"todo", "running"}
      PROVE  BusInv'
  <2> DEFINE r == [events[e].runs[i] EXCEPT !.at = place]
  <2>1. /\ r \in HandlerRun /\ Goes(e, i, r) /\ r.at = place
        /\ r.attempts = events[e].runs[i].attempts
    BY <1>1, <1>3, SetFacts DEF Ended
  <2> HIDE DEF r
  <2>2. At(e, i) \notin Ended /\ r.at \notin {"panicked", "recorded"} BY <1>3, <2>1 DEF Ended
  <2>3. r.at \notin Ended => r.attempts < Attempts BY <1>2, <2>1, <2>2
  <2> QED BY <1>3, <2>1, <2>2, <2>3, QuietRun
<1>4. ASSUME NEW how \in {"good", "bad"}, Send(e, i, how) PROVE BusInv'
  <2> DEFINE over == how = "good" \/ Attempted(e, i) = Attempts
  <2>1. Running(e, i) /\ UNCHANGED <<subscribers, dlq>> BY <1>4 DEF Send
  <2>2. CASE over
    <3>1. Goes(e, i, [attempts |-> Attempted(e, i), at |-> "recorded"]) /\ RecordDelivery(e, i, how)
      BY <1>4, <2>2 DEF Send, Goes
    <3> QED BY <2>1, <2>2, <3>1, RecordStep
  <2>3. CASE ~over
    <3> DEFINE r == [attempts |-> Attempted(e, i), at |-> "running"]
    <3>1. Goes(e, i, r) /\ UNCHANGED deliveries BY <1>4, <2>3 DEF Send, Goes
    <3>2. events[e].runs[i].attempts \in 0 .. Attempts /\ events[e].runs[i].attempts < Attempts
          /\ At(e, i) \notin Ended
      BY <1>2, <2>1 DEF HandlerRun, Running, Ended
    <3>3. Attempted(e, i) \in 0 .. Attempts /\ Attempted(e, i) < Attempts
      BY <2>3, <3>2 DEF Attempted, Attempts
    <3>4. r \in HandlerRun /\ r.at = "running" /\ r.attempts < Attempts BY <3>3 DEF HandlerRun
    <3> HIDE DEF r
    <3> QED BY <2>1, <3>1, <3>2, <3>4, QuietRun
  <2> QED BY <2>2, <2>3
<1> QED BY <1>3, <1>4, PanicStep DEF BeginRun, HandlerReturns, BuildFails, Running

\* The places of all runs stay, but that a publisher goes on.
LEMMA GoOnStep ==
  ASSUME BusInv, NEW e \in DOMAIN events, GoOn(e)
  PROVE  BusInv'
<1> DEFINE ev == events[e]  new == [ev EXCEPT !.back = TRUE]
<1>1. BusTypeOK /\ EventsOK /\ LettersOK /\ DeliveriesOK BY DEF BusInv
<1>2. ev \in Event /\ EventOK(ev) /\ events \in Seq(Event) BY <1>1, EventsType DEF EventsOK
<1>3. /\ new \in Event /\ new.to = ev.to /\ new.runs = ev.runs /\ new.mode = ev.mode
  BY <1>2 DEF Event
<1>4. /\ \A i \in DOMAIN ev.to : ev.runs[i].at \in Ended
      /\ events' = [events EXCEPT ![e] = new] /\ UNCHANGED <<subscribers, dlq, deliveries>>
  BY DEF GoOn, At
<1>5. EventOK(new)
  <2> HIDE DEF new
  <2> QED BY <1>2, <1>3, <1>4 DEF EventOK
<1> HIDE DEF new
<1>6. /\ events' \in Seq(Event) /\ DOMAIN events' = DOMAIN events /\ Len(events') = Len(events)
      /\ \A f \in DOMAIN events : events'[f] = IF f = e THEN new ELSE events[f]
  BY <1>2, <1>3, <1>4
<1>7. EventsOK' BY <1>1, <1>4, <1>5, <1>6 DEF EventsOK
<1>8. \A f \in DOMAIN events : events'[f].to = events[f].to /\ \A j : At(f, j)' = At(f, j)
  BY <1>3, <1>6 DEF At
<1>9. BusTypeOK' BY <1>1, <1>4, <1>6 DEF BusTypeOK
<1>10. LettersOK'
  <2>1. RunsThatPanicked' = RunsThatPanicked BY <1>6, <1>8 DEF RunsThatPanicked
  <2> QED BY <1>1, <1>4, <2>1 DEF LettersOK
<1>11. DeliveriesOK'
  <2>1. \A f, j : DeliveriesOf(f, j)' = DeliveriesOf(f, j) BY <1>4 DEF DeliveriesOf
  <2> QED BY <1>1, <1>4, <1>6, <1>8, <2>1 DEF DeliveriesOK
<1> QED BY <1>7, <1>9, <1>10, <1>11 DEF BusInv

\* The dead letters are cleared, and with them what they told.
LEMMA ClearStep ==
  ASSUME BusInv, ClearDLQ
  PROVE  BusInv'
<1> DEFINE Cleared(ev) == [ev EXCEPT !.runs = [i \in DOMAIN @ |-> Clear(@[i])]]
<1>1. BusTypeOK /\ EventsOK /\ LettersOK /\ DeliveriesOK BY DEF BusInv
<1>2. /\ events' = [e \in DOMAIN events |-> Cleared(events[e])]
      /\ dlq' = <<>> /\ UNCHANGED <<subscribers, deliveries>>
  BY DEF ClearDLQ
<1>3. ASSUME NEW r \in HandlerRun
      PROVE  /\ Clear(r) \in HandlerRun /\ Clear(r).attempts = r.attempts
             /\ Clear(r).at = IF r.at = "panicked" THEN "cleared" ELSE r.at
  BY DEF Clear, HandlerRun, Ended
<1>4. ASSUME NEW ev \in Event, EventOK(ev)
      PROVE  /\ Cleared(ev) \in Event /\ EventOK(Cleared(ev)) /\ Cleared(ev).to = ev.to
             /\ \A i \in DOMAIN ev.to :
                  Cleared(ev).runs[i].at = IF ev.runs[i].at = "panicked" THEN "cleared" ELSE ev.runs[i].at
  <2> DEFINE runs == [i \in DOMAIN ev.runs |-> Clear(ev.runs[i])]
             new == [ev EXCEPT !.runs = runs]
  <2>1. ev.runs \in Seq(HandlerRun) /\ DOMAIN ev.runs = 1 .. Len(ev.runs) /\ Len(ev.runs) \in Nat
        /\ \A i \in DOMAIN ev.runs : ev.runs[i] \in HandlerRun
    BY EventFields
  <2>2. /\ runs \in Seq(HandlerRun) /\ DOMAIN runs = DOMAIN ev.runs
        /\ \A i \in DOMAIN ev.runs :
             /\ runs[i].attempts = ev.runs[i].attempts
             /\ runs[i].at = IF ev.runs[i].at = "panicked" THEN "cleared" ELSE ev.runs[i].at
    <3> HIDE DEF HandlerRun
    <3>1. \A i \in DOMAIN ev.runs : Clear(ev.runs[i]) \in HandlerRun BY <1>3, <2>1
    <3>2. runs \in [1 .. Len(ev.runs) -> HandlerRun] BY <2>1, <3>1
    <3>3. runs \in Seq(HandlerRun) BY <2>1, <3>2
    <3> QED BY <1>3, <2>1, <3>3
  <2> HIDE DEF runs
  <2>3. new \in Event /\ new.to = ev.to /\ new.runs = runs /\ new.mode = ev.mode /\ new.back = ev.back
    BY <2>2 DEF Event
  <2> HIDE DEF new
  <2>4. EventOK(new)
    <3>1. DOMAIN ev.runs = DOMAIN ev.to BY <1>4 DEF EventOK
    <3>2. \A i \in DOMAIN ev.to :
            /\ runs[i].at \notin Ended => ev.runs[i].at \notin Ended
            /\ ev.runs[i].at \in Ended => runs[i].at \in Ended
      BY <2>2, <3>1 DEF Ended
    <3> QED BY <1>4, <2>2, <2>3, <3>1, <3>2 DEF EventOK
  <2>5. Cleared(ev) = new BY DEF new, runs
  <2> QED BY <1>4, <2>2, <2>3, <2>4, <2>5 DEF EventOK
<1>5. \A e \in DOMAIN events : events[e] \in Event /\ EventOK(events[e])
  BY <1>1, EventsType DEF EventsOK
<1> HIDE DEF Cleared
<1>6. DOMAIN events' = DOMAIN events /\ \A e \in DOMAIN events : events'[e] = Cleared(events[e])
  BY <1>2
<1>7. events' \in Seq(Event) /\ Len(events') = Len(events)
  <2>1. DOMAIN events = 1 .. Len(events) /\ Len(events) \in Nat BY <1>1, EventsType
  <2>2. events' \in [1 .. Len(events) -> Event] BY <1>2, <1>4, <1>5, <2>1
  <2> QED BY <2>1, <2>2
<1>8. EventsOK' BY <1>1, <1>2, <1>4, <1>5, <1>6, <1>7 DEF EventsOK
<1>9. \A e \in DOMAIN events :
        /\ events'[e].to = events[e].to
        /\ \A j \in DOMAIN events[e].to :
             At(e, j)' = IF At(e, j) = "panicked" THEN "cleared" ELSE At(e, j)
  BY <1>4, <1>5, <1>6 DEF At
<1>10. BusTypeOK' BY <1>1, <1>2, <1>7 DEF BusTypeOK
<1>11. LettersOK'
  <2>1. RunsThatPanicked' = {} BY <1>6, <1>9 DEF RunsThatPanicked
  <2>2. Cardinality({}) = 0 BY FS_EmptySet
  <2> QED BY <1>2, <2>1, <2>2, BusAssumption DEF LettersOK
<1>12. DeliveriesOK'
  <2>1. \A f, j : DeliveriesOf(f, j)' = DeliveriesOf(f, j) BY <1>2 DEF DeliveriesOf
  <2> QED BY <1>1, <1>2, <1>6, <1>9, <2>1 DEF DeliveriesOK
<1> QED BY <1>8, <1>10, <1>11, <1>12 DEF BusInv

\* A handler subscribes.
LEMMA SubscribeStep ==
  ASSUME BusInv, NEW h \in Handler, Subscribe(h)
  PROVE  BusInv'
<1>1. BusTypeOK /\ EventsOK /\ LettersOK /\ DeliveriesOK BY DEF BusInv
<1>2. /\ UNCHANGED <<events, dlq, deliveries>> /\ subscribers \in Seq(Handler)
      /\ subscribers' \in Seq(Handler) /\ Len(subscribers') <= MaxHandlers
  BY <1>1, BusAssumption DEF Subscribe, BusTypeOK
<1>3. BusTypeOK' /\ EventsOK' BY <1>1, <1>2 DEF BusTypeOK, EventsOK
<1>4. LettersOK' BY <1>1, <1>2 DEF LettersOK, RunsThatPanicked, At
<1>5. DeliveriesOK' BY <1>1, <1>2 DEF DeliveriesOK, DeliveriesOf, At
<1> QED BY <1>3, <1>4, <1>5 DEF BusInv

\* An event is published, and nothing of it has hr.
LEMMA PublishStep ==
  ASSUME BusInv, NEW kind \in {"high", "normal", "sync"}, Publish(kind)
  PROVE  BusInv'
<1> DEFINE runs == [i \in DOMAIN subscribers |-> [at |-> "todo", attempts |-> 0]]
           ev == [mode |-> kind, to |-> subscribers, back |-> kind = "normal", runs |-> runs]
<1>1. BusTypeOK /\ EventsOK /\ LettersOK /\ DeliveriesOK BY DEF BusInv
<1>2. events' = Append(events, ev) /\ UNCHANGED <<subscribers, dlq, deliveries>> /\ Len(events) < MaxEvents
  BY DEF Publish
<1>3. runs \in Seq(HandlerRun) /\ DOMAIN runs = DOMAIN subscribers
      /\ \A i \in DOMAIN subscribers : runs[i].at = "todo" /\ runs[i].attempts = 0
  <2>1. [at |-> "todo", attempts |-> 0] \in HandlerRun BY DEF HandlerRun, Attempts
  <2>2. subscribers \in Seq(Handler) BY <1>1 DEF BusTypeOK
  <2> HIDE DEF HandlerRun
  <2> QED BY <2>1, <2>2
<1> HIDE DEF runs
<1>4. /\ ev \in Event /\ ev.to = subscribers /\ ev.runs = runs /\ ev.mode = kind
      /\ ev.back = (kind = "normal")
  BY <1>1, <1>3 DEF Event, BusTypeOK
<1> HIDE DEF ev
<1>5. EventOK(ev)
  <2>1. \A i \in DOMAIN ev.to : ev.runs[i].at = "todo" /\ ev.runs[i].attempts = 0 BY <1>3, <1>4
  <2>2. ev.back /\ ev.mode # "normal" => FALSE BY <1>4
  <2> QED BY <1>1, <1>3, <1>4, <2>1, <2>2 DEF EventOK, EventsOK, Attempts
<1>6. /\ events' \in Seq(Event) /\ Len(events') = Len(events) + 1 /\ Len(events) \in Nat
      /\ DOMAIN events' = 1 .. Len(events) + 1 /\ DOMAIN events = 1 .. Len(events)
      /\ \A e \in DOMAIN events : events'[e] = events[e] /\ e \in DOMAIN events'
      /\ events'[Len(events) + 1] = ev
  BY <1>1, <1>2, <1>4, EventsType
<1>7. EventsOK'
  <2>1. \A e \in DOMAIN events' : EventOK(events'[e]) BY <1>1, <1>5, <1>6 DEF EventsOK
  <2> QED BY <1>1, <1>2, <1>6, <2>1, BusAssumption DEF EventsOK
<1>8. BusTypeOK' BY <1>1, <1>2, <1>6 DEF BusTypeOK
<1>9. \A i \in DOMAIN ev.to : ev.runs[i].at = "todo" BY <1>3, <1>4
<1>10. \A e \in DOMAIN events : \A j : At(e, j)' = At(e, j) BY <1>6 DEF At
<1>11. \A e \in DOMAIN events' : e \in DOMAIN events \/ \A i \in DOMAIN events'[e].to : At(e, i)' = "todo"
  <2>1. \A e \in DOMAIN events' : e \in DOMAIN events \/ events'[e] = ev BY <1>6
  <2> QED BY <1>9, <2>1 DEF At
<1>12. LettersOK'
  <2>1. \A hr \in (DOMAIN events') \X (1 .. MaxHandlers) :
          hr[2] \in DOMAIN events'[hr[1]].to /\ At(hr[1], hr[2])' = "panicked" => hr[1] \in DOMAIN events
    BY <1>11
  <2>2. RunsThatPanicked' = RunsThatPanicked
    BY <1>6, <1>10, <2>1 DEF RunsThatPanicked
  <2> QED BY <1>1, <1>2, <2>2 DEF LettersOK
<1>13. DeliveriesOK'
  <2>1. \A f, j : DeliveriesOf(f, j)' = DeliveriesOf(f, j) BY <1>2 DEF DeliveriesOf
  <2>2. \A d \in deliveries' : /\ d.event \in DOMAIN events' /\ d.run \in DOMAIN events'[d.event].to
                               /\ At(d.event, d.run)' = "recorded"
    BY <1>1, <1>2, <1>6, <1>10 DEF DeliveriesOK
  <2>3. ASSUME NEW e \in DOMAIN events', NEW i \in DOMAIN events'[e].to, At(e, i)' = "recorded"
        PROVE  DeliveriesOf(e, i)' # {}
    <3>1. e \in DOMAIN events /\ i \in DOMAIN events[e].to BY <1>6, <1>11, <2>3
    <3> QED BY <1>1, <1>10, <2>1, <2>3, <3>1 DEF DeliveriesOK
  <2> QED BY <1>1, <1>2, <2>2, <2>3 DEF DeliveriesOK
<1> QED BY <1>7, <1>8, <1>12, <1>13 DEF BusInv

\* Every step of the bus keeps the invariant.
LEMMA BusSteps == ASSUME BusInv, [BusNext]_bvars PROVE BusInv'
<1>1. CASE UNCHANGED bvars
  <2>1. UNCHANGED <<subscribers, events, dlq, deliveries>> BY <1>1 DEF bvars
  <2>2. BusTypeOK' /\ EventsOK' BY <2>1 DEF BusInv, BusTypeOK, EventsOK
  <2>3. LettersOK' BY <2>1 DEF BusInv, LettersOK, RunsThatPanicked, At
  <2>4. DeliveriesOK' BY <2>1 DEF BusInv, DeliveriesOK, DeliveriesOf, At
  <2> QED BY <2>2, <2>3, <2>4 DEF BusInv
<1>2. ASSUME NEW e \in DOMAIN events, Handling(e) PROVE BusInv'
  BY <1>2, GoOnStep, HandlerStep DEF Handling
<1> QED BY <1>1, <1>2, SubscribeStep, PublishStep, ClearStep DEF BusNext

\* It holds before the first subscriber.
LEMMA BusStarts == ASSUME BusInit PROVE BusInv
<1>1. /\ subscribers = <<>> /\ events = <<>> /\ dlq = <<>> /\ deliveries = {} BY DEF BusInit
<1>2. BusTypeOK /\ EventsOK BY <1>1, BusAssumption DEF BusTypeOK, EventsOK
<1>3. RunsThatPanicked = {} BY <1>1 DEF RunsThatPanicked
<1>4. Cardinality({}) = 0 BY FS_EmptySet
<1>5. LettersOK BY <1>1, <1>3, <1>4, BusAssumption DEF LettersOK
<1>6. DeliveriesOK BY <1>1 DEF DeliveriesOK
<1> QED BY <1>2, <1>5, <1>6 DEF BusInv

\* And it accounts for every event.
LEMMA BusAccounted == ASSUME BusInv PROVE EventsAreAccounted
<1> DEFINE RunsAt(place) == {hr \in (DOMAIN events) \X (1 .. MaxHandlers) :
                          /\ hr[2] \in DOMAIN events[hr[1]].to
                          /\ At(hr[1], hr[2]) = place}
<1>1. BusTypeOK /\ EventsOK /\ LettersOK /\ DeliveriesOK BY DEF BusInv
<1>2. RunsAt("panicked") = RunsThatPanicked BY DEF RunsThatPanicked
<1>3. IsInjective(dlq) /\ ToSet(dlq) \subseteq RunsAt("panicked")
  BY <1>1, <1>2 DEF LettersOK, IsInjective, ToSet
<1>4. Len(dlq) = IF Cardinality(RunsAt("panicked")) < MaxDeadLetters
                 THEN Cardinality(RunsAt("panicked")) ELSE MaxDeadLetters
  BY <1>1, <1>2 DEF LettersOK
<1>5. ASSUME NEW e \in DOMAIN events, NEW i \in DOMAIN events[e].to
      PROVE  /\ Cardinality(DeliveriesOf(e, i)) = (IF At(e, i) = "recorded" THEN 1 ELSE 0)
             /\ \A d \in DeliveriesOf(e, i) : d.status = "good" \/ d.attempts = Attempts
             /\ events[e].back /\ events[e].mode # "normal" => At(e, i) \in Ended
  <2>1. EventOK(events[e]) BY <1>1 DEF EventsOK
  <2>2. CASE At(e, i) = "recorded"
    <3>1. PICK d \in DeliveriesOf(e, i) : TRUE BY <1>1, <2>2 DEF DeliveriesOK
    <3>2. DeliveriesOf(e, i) = {d} BY <1>1, <3>1 DEF DeliveriesOK, DeliveriesOf
    <3>3. Cardinality({d}) = 1 BY FS_Singleton
    <3> QED BY <1>1, <2>1, <2>2, <3>2, <3>3 DEF DeliveriesOK, DeliveriesOf, EventOK, At
  <2>3. CASE At(e, i) # "recorded"
    <3>1. DeliveriesOf(e, i) = {} BY <1>1, <2>3 DEF DeliveriesOK, DeliveriesOf
    <3>2. Cardinality({}) = 0 BY FS_EmptySet
    <3> QED BY <2>1, <2>3, <3>1, <3>2 DEF EventOK, At
  <2> QED BY <2>2, <2>3
<1> QED BY <1>3, <1>4, <1>5 DEF EventsAreAccounted, DeliveriesOf

-----------------------------------------------------------------------------
(* CronJobs *)

\* A job is due no sooner than its intervals let it, has called back no more often than
\* they have passed, and for once only once; "inCall" says that its callback runs.
JobOK(job, inCall, moment) ==
  /\ job \in Job
  /\ job.next >= job.added + (job.calls * job.after) + (IF inCall THEN 0 ELSE job.after)
  /\ job.calls > 0 => moment > job.added + (job.calls * job.after)
  /\ job.kind = "once" => job.calls <= 1 /\ (~inCall => job.calls = 0)

JobsOK == \A j \in DOMAIN jobs : jobs[j] # NoJob => JobOK(jobs[j], calling = j, clock)

\* What is due is there, and was due before the loop's time; without the mutex nothing is.
DueOK == /\ \A j \in due : jobs[j] # NoJob /\ cronNow > jobs[j].next
         /\ Free => due = {} /\ calling = 0

\* A job that is made may be added, and is as one is to be.
AddingOK == wanted # NoJob => Len(jobs) < MaxJobs /\ JobOK(wanted, FALSE, clock)

\* The jobs' invariant.
CronInv == CronTypeOK /\ JobsOK /\ DueOK /\ AddingOK

\* A job's fields have their types.
LEMMA JobFields ==
  ASSUME NEW job \in Job
  PROVE  /\ job.kind \in {"once", "every"} /\ job.after \in Nat /\ job.after \in Interval
         /\ job.next \in Nat /\ job.enabled \in BOOLEAN
         /\ job.added \in Nat /\ job.calls \in Nat /\ job.calls * job.after \in Nat
         /\ job # NoJob
<1>1. /\ job.kind \in {"once", "every"} /\ job.after \in Interval
      /\ job.next \in Nat /\ job.enabled \in BOOLEAN
      /\ job.added \in Nat /\ job.calls \in Nat
  BY DEF Job
<1>2. job.after \in Nat BY <1>1, CronAssumption
<1>3. job.calls * job.after \in Nat BY <1>1, <1>2
<1>4. job # NoJob BY DEF Job, NoJob
<1> QED BY <1>1, <1>2, <1>3, <1>4

\* One more call is one more interval.
LEMMA OneMore ==
  ASSUME NEW n \in Nat, NEW a \in Nat
  PROVE  (n + 1) * a = (n * a) + a /\ n * a \in Nat /\ 0 * a = 0
OBVIOUS

\* A job that is due calls back.
LEMMA CalledStep ==
  ASSUME NEW job, NEW t \in Nat, JobOK(job, FALSE, t), t > job.next
  PROVE  LET new == [job EXCEPT !.calls = @ + 1]
         IN  JobOK(new, TRUE, t) /\ new.next = job.next /\ new # NoJob
<1>1. job \in Job BY DEF JobOK
<1> DEFINE new == [job EXCEPT !.calls = @ + 1]
           gone == job.calls * job.after
<1>2. /\ job.kind \in {"once", "every"} /\ job.after \in Nat /\ job.after \in Interval
      /\ job.next \in Nat /\ job.enabled \in BOOLEAN
      /\ job.added \in Nat /\ job.calls \in Nat /\ gone \in Nat
  BY <1>1, JobFields
<1>3. /\ new \in Job /\ new.kind = job.kind /\ new.after = job.after /\ new.next = job.next
      /\ new.added = job.added /\ new.calls = job.calls + 1
  <2>1. job.calls + 1 \in Nat BY <1>2
  <2> QED BY <1>1, <2>1 DEF Job
<1>4. new.calls * new.after = gone + job.after BY <1>2, <1>3, OneMore
<1>5. job.next >= job.added + gone + job.after BY DEF JobOK
<1>6. job.kind = "once" => job.calls = 0 BY DEF JobOK
<1> HIDE DEF new, gone
<1>7. new.next >= new.added + (new.calls * new.after) + 0 BY <1>2, <1>3, <1>4, <1>5
<1>8. t > new.added + (new.calls * new.after) BY <1>2, <1>3, <1>4, <1>5
<1>9. new.kind = "once" => new.calls <= 1 BY <1>2, <1>3, <1>6
<1>10. JobOK(new, TRUE, t) BY <1>3, <1>7, <1>8, <1>9 DEF JobOK
<1>11. new # NoJob BY <1>3, JobFields
<1> QED BY <1>3, <1>10, <1>11 DEF new

\* A job that was due is done with, whether it has called back or there is no callback.
LEMMA RanStep ==
  ASSUME NEW job, NEW inCall \in BOOLEAN, NEW t \in Nat, JobOK(job, inCall, t),
         cronNow \in Nat, cronNow > job.next
  PROVE  Ran(job) = NoJob \/ JobOK(Ran(job), FALSE, t)
<1> DEFINE gone == job.calls * job.after
<1>1. job \in Job BY DEF JobOK
<1>2. /\ job.kind \in {"once", "every"} /\ job.after \in Nat /\ job.after \in Interval
      /\ job.next \in Nat /\ job.enabled \in BOOLEAN
      /\ job.added \in Nat /\ job.calls \in Nat /\ gone \in Nat
  BY <1>1, JobFields
<1>3. /\ job.next >= job.added + gone /\ (job.calls > 0 => t > job.added + gone)
      /\ (job.kind = "once" => job.calls <= 1)
  BY <1>2 DEF JobOK
<1>4. CASE job.kind = "once" BY <1>4 DEF Ran
<1>5. CASE job.kind # "once"
  <2> DEFINE new == [job EXCEPT !.next = cronNow + job.after]
  <2>1. /\ new \in Job /\ new.kind = job.kind /\ new.after = job.after
        /\ new.next = cronNow + job.after /\ new.added = job.added /\ new.calls = job.calls
    BY <1>1, <1>2 DEF Job
  <2>2. Ran(job) = new BY <1>5 DEF Ran
  <2> HIDE DEF new, gone
  <2>3. new.next >= new.added + gone + new.after BY <1>2, <1>3, <2>1
  <2>4. new.calls * new.after = gone BY <2>1 DEF gone
  <2>5. JobOK(new, FALSE, t) BY <1>3, <1>5, <2>1, <2>3, <2>4 DEF JobOK
  <2> QED BY <2>2, <2>5
<1> QED BY <1>4, <1>5

\* Later a job is as it was, also when an agent has enabled or disabled it.
LEMMA JobStays ==
  ASSUME NEW job, NEW inCall, NEW t \in Nat, JobOK(job, inCall, t), NEW u \in Nat, t <= u
  PROVE  /\ JobOK(job, inCall, u)
         /\ \A b \in BOOLEAN : JobOK([job EXCEPT !.enabled = b], inCall, u)
<1> DEFINE gone == job.calls * job.after
<1>1. job \in Job BY DEF JobOK
<1>2. /\ job.kind \in {"once", "every"} /\ job.after \in Nat /\ job.next \in Nat
      /\ job.added \in Nat /\ job.calls \in Nat /\ gone \in Nat
  BY <1>1, JobFields
<1>3. /\ job.calls > 0 => t > job.added + gone
      /\ job.next >= job.added + gone + (IF inCall THEN 0 ELSE job.after)
      /\ job.kind = "once" => job.calls <= 1 /\ (~inCall => job.calls = 0)
  BY DEF JobOK
<1> HIDE DEF gone
<1>4. job.calls > 0 => u > job.added + gone BY <1>2, <1>3
<1>5. ASSUME NEW s \in Job, s.kind = job.kind, s.after = job.after, s.next = job.next,
             s.calls = job.calls, s.added = job.added
      PROVE  JobOK(s, inCall, u)
  <2>1. s.calls * s.after = gone BY <1>5 DEF gone
  <2> QED BY <1>3, <1>4, <1>5, <2>1 DEF JobOK
<1>6. JobOK(job, inCall, u) BY <1>1, <1>5
<1>7. ASSUME NEW b \in BOOLEAN PROVE JobOK([job EXCEPT !.enabled = b], inCall, u)
  <2> DEFINE s == [job EXCEPT !.enabled = b]
  <2>1. s \in Job /\ s.kind = job.kind /\ s.after = job.after /\ s.next = job.next
        /\ s.calls = job.calls /\ s.added = job.added
    BY <1>1 DEF Job
  <2> HIDE DEF s
  <2>2. JobOK(s, inCall, u) BY <1>5, <2>1
  <2> QED BY <2>2 DEF s
<1> QED BY <1>6, <1>7

\* An element of the jobs is a job, or a gone one's place.
LEMMA JobsType ==
  ASSUME CronInv
  PROVE  /\ jobs \in Seq(Job \cup {NoJob}) /\ DOMAIN jobs = 1 .. Len(jobs) /\ Len(jobs) \in Nat
         /\ clock \in Nat /\ cronNow \in Nat /\ cronNow <= clock
         /\ \A j \in DOMAIN jobs : /\ jobs[j] \in Job \cup {NoJob}
                                  /\ jobs[j] # NoJob => JobOK(jobs[j], calling = j, clock)
BY CronAssumption DEF CronInv, CronTypeOK, JobsOK

\* One job goes, or changes and stays as a job is to be.
LEMMA OneChanges ==
  ASSUME CronInv, NEW j \in DOMAIN jobs, NEW new, jobs' = [jobs EXCEPT ![j] = new],
         \A k \in DOMAIN jobs : k # j => (calling' = k <=> calling = k),
         new = NoJob \/ JobOK(new, calling' = j, clock),
         UNCHANGED <<wanted, callback, stopAsked, clock>>
  PROVE  /\ jobs' \in Seq(Job \cup {NoJob}) /\ Len(jobs') = Len(jobs) /\ DOMAIN jobs' = DOMAIN jobs
         /\ \A k \in DOMAIN jobs : jobs'[k] = IF k = j THEN new ELSE jobs[k]
         /\ JobsOK' /\ AddingOK'
<1>1. /\ jobs \in Seq(Job \cup {NoJob}) /\ DOMAIN jobs = 1 .. Len(jobs) /\ Len(jobs) \in Nat
      /\ \A k \in DOMAIN jobs : jobs[k] # NoJob => JobOK(jobs[k], calling = k, clock)
  BY JobsType
<1>2. new \in Job \cup {NoJob} BY DEF JobOK
<1>3. /\ jobs' \in Seq(Job \cup {NoJob}) /\ Len(jobs') = Len(jobs) /\ DOMAIN jobs' = DOMAIN jobs
      /\ \A k \in DOMAIN jobs : jobs'[k] = IF k = j THEN new ELSE jobs[k]
  BY <1>1, <1>2
<1>4. ASSUME NEW k \in DOMAIN jobs', k # j, jobs'[k] # NoJob
      PROVE  JobOK(jobs'[k], calling' = k, clock')
  <2>1. jobs'[k] = jobs[k] /\ k \in DOMAIN jobs BY <1>3, <1>4
  <2>2. (calling' = k) = (calling = k) /\ clock' = clock BY <1>4, <2>1
  <2>3. JobOK(jobs[k], calling = k, clock) BY <1>1, <1>4, <2>1
  <2> QED BY <2>1, <2>2, <2>3
<1>5. jobs'[j] # NoJob => JobOK(jobs'[j], calling' = j, clock')
  <2>1. jobs'[j] = new /\ clock' = clock BY <1>3
  <2>2. CASE new = NoJob BY <2>1, <2>2
  <2>3. CASE JobOK(new, calling' = j, clock) BY <2>1, <2>3
  <2> QED BY <2>2, <2>3
<1>6. \A k \in DOMAIN jobs' : jobs'[k] # NoJob => JobOK(jobs'[k], calling' = k, clock')
  BY <1>4, <1>5
<1>7. JobsOK' BY <1>6 DEF JobsOK
<1>8. AddingOK' BY <1>3 DEF CronInv, AddingOK
<1> QED BY <1>3, <1>7, <1>8

\* An agent's call adds a job.
LEMMA AddingSteps ==
  ASSUME CronInv
  PROVE  /\ \A kind \in {"once", "every"}, after \in Interval : PrepareJob(kind, after) => CronInv'
         /\ AddJob => CronInv'
<1>1. /\ jobs \in Seq(Job \cup {NoJob}) /\ DOMAIN jobs = 1 .. Len(jobs) /\ Len(jobs) \in Nat
      /\ clock \in Nat
      /\ \A j \in DOMAIN jobs : jobs[j] # NoJob => JobOK(jobs[j], calling = j, clock)
  BY JobsType
<1>2. CronTypeOK /\ JobsOK /\ DueOK /\ AddingOK BY DEF CronInv
<1>3. ASSUME NEW kind \in {"once", "every"}, NEW after \in Interval, PrepareJob(kind, after)
      PROVE  CronInv'
  <2> DEFINE new == [kind |-> kind, after |-> after, next |-> clock + after, enabled |-> TRUE,
                     added |-> clock, calls |-> 0]
  <2>1. after \in Nat /\ clock + after \in Nat BY <1>1, CronAssumption
  <2>2. /\ new \in Job /\ new.after = after /\ new.next = clock + after /\ new.added = clock
        /\ new.calls = 0
    BY <1>1, <2>1 DEF Job
  <2>3. /\ UNCHANGED <<jobs, callback, cronLoop, stopAsked, cronNow, due, calling, clock>>
        /\ Len(jobs) < MaxJobs /\ wanted' = new
    BY <1>3 DEF PrepareJob, pass
  <2> HIDE DEF new
  <2>4. new.calls * new.after = 0 BY <2>1, <2>2
  <2>5. JobOK(new, FALSE, clock) BY <1>1, <2>1, <2>2, <2>4 DEF JobOK
  <2>6. AddingOK' BY <2>3, <2>5 DEF AddingOK
  <2>7. CronTypeOK' BY <1>2, <2>2, <2>3 DEF CronTypeOK
  <2>8. JobsOK' BY <1>2, <2>3 DEF JobsOK
  <2>9. DueOK' BY <1>2, <2>3 DEF DueOK, Free
  <2> QED BY <2>6, <2>7, <2>8, <2>9 DEF CronInv
<1>4. CASE AddJob
  <2>1. /\ UNCHANGED <<callback, cronLoop, stopAsked, cronNow, due, calling, clock>>
        /\ Free /\ wanted # NoJob /\ wanted' = NoJob /\ jobs' = Append(jobs, wanted)
    BY <1>4 DEF AddJob, pass
  <2>2. JobOK(wanted, FALSE, clock) /\ Len(jobs) < MaxJobs /\ wanted \in Job
    BY <1>2, <2>1 DEF AddingOK, JobOK
  <2>3. /\ jobs' \in Seq(Job \cup {NoJob}) /\ Len(jobs') = Len(jobs) + 1 /\ DOMAIN jobs' = 1 .. Len(jobs) + 1
        /\ \A k \in DOMAIN jobs : jobs'[k] = jobs[k]
        /\ jobs'[Len(jobs) + 1] = wanted
    BY <1>1, <2>1, <2>2
  <2>4. due = {} /\ calling = 0 BY <1>2, <2>1 DEF DueOK
  <2>5. Len(jobs') <= MaxJobs BY <1>1, <2>2, <2>3, CronAssumption
  <2>6. CronTypeOK' BY <1>2, <2>1, <2>3, <2>4, <2>5 DEF CronTypeOK
  <2>7. ASSUME NEW k \in DOMAIN jobs', jobs'[k] # NoJob PROVE JobOK(jobs'[k], calling' = k, clock')
    <3>1. (calling' = k) = FALSE BY <1>1, <2>1, <2>3, <2>4
    <3>2. CASE k \in DOMAIN jobs
      <4>1. (calling = k) = FALSE BY <1>1, <2>4, <3>2
      <4>2. jobs'[k] = jobs[k] /\ clock' = clock BY <2>1, <2>3, <3>2
      <4> QED BY <1>1, <2>7, <3>1, <3>2, <4>1, <4>2
    <3>3. CASE k = Len(jobs) + 1 BY <2>1, <2>2, <2>3, <3>1, <3>3
    <3> QED BY <1>1, <2>3, <3>2, <3>3
  <2>8. JobsOK' BY <2>7 DEF JobsOK
  <2>9. DueOK' BY <2>1, <2>4 DEF DueOK, Free
  <2> QED BY <2>1, <2>6, <2>8, <2>9 DEF CronInv, AddingOK
<1> QED BY <1>3, <1>4

\* An agent's call removes, enables or disables one, when the loop has not the mutex.
LEMMA ManagingSteps ==
  ASSUME CronInv, NEW j \in DOMAIN jobs, RemoveJob(j) \/ \E b \in BOOLEAN : EnableJob(j, b)
  PROVE  CronInv'
<1>1. /\ CronTypeOK /\ DueOK /\ clock \in Nat
      /\ jobs[j] # NoJob => JobOK(jobs[j], calling = j, clock)
  BY JobsType DEF CronInv
<1>2. /\ UNCHANGED <<wanted, callback, cronLoop, stopAsked, cronNow, due, calling, clock>>
      /\ Free
  BY DEF RemoveJob, EnableJob, pass
<1>3. PICK new : /\ jobs' = [jobs EXCEPT ![j] = new]
                 /\ new = NoJob \/ JobOK(new, calling = j, clock)
  <2>1. CASE RemoveJob(j) BY <2>1 DEF RemoveJob
  <2>2. ASSUME NEW b \in BOOLEAN, EnableJob(j, b)
        PROVE  /\ jobs' = [jobs EXCEPT ![j] = [jobs[j] EXCEPT !.enabled = b]]
               /\ JobOK([jobs[j] EXCEPT !.enabled = b], calling = j, clock)
    <3>1. jobs[j] # NoJob /\ jobs' = [jobs EXCEPT ![j] = [jobs[j] EXCEPT !.enabled = b]]
      BY <2>2 DEF EnableJob
    <3> QED BY <1>1, <3>1, JobStays
  <2> QED BY <2>1, <2>2
<1>4. due = {} /\ calling = 0 BY <1>1, <1>2 DEF DueOK
<1>5. /\ jobs' \in Seq(Job \cup {NoJob}) /\ Len(jobs') = Len(jobs) /\ DOMAIN jobs' = DOMAIN jobs
      /\ \A k \in DOMAIN jobs : jobs'[k] = IF k = j THEN new ELSE jobs[k]
      /\ JobsOK' /\ AddingOK'
  <2>1. \A k \in DOMAIN jobs : k # j => (calling' = k <=> calling = k) BY <1>2
  <2>2. UNCHANGED <<wanted, callback, stopAsked, clock>> BY <1>2
  <2>3. jobs' = [jobs EXCEPT ![j] = new] BY <1>3
  <2>4. new = NoJob \/ JobOK(new, calling' = j, clock) BY <1>2, <1>3
  <2> QED BY <2>1, <2>2, <2>3, <2>4, OneChanges
<1>6. CronTypeOK' BY <1>1, <1>2, <1>5 DEF CronTypeOK
<1>7. DueOK' BY <1>2, <1>4 DEF DueOK, Free
<1> QED BY <1>5, <1>6, <1>7 DEF CronInv

\* The loop looks.
LEMMA LookSteps ==
  ASSUME CronInv
  PROVE  /\ ReadNow => CronInv'
         /\ TakeLock => CronInv'
<1>1. CronTypeOK /\ JobsOK /\ DueOK /\ AddingOK /\ clock \in Nat /\ cronNow \in Nat /\ cronNow <= clock
  BY JobsType DEF CronInv
<1>2. CASE ReadNow
  <2>1. /\ UNCHANGED <<jobs, wanted, callback, stopAsked, due, calling, clock>>
        /\ cronNow' = clock /\ cronLoop = "running" /\ cronLoop' = "locking"
    BY <1>2 DEF ReadNow, CronStep
  <2>2. due = {} /\ calling = 0 BY <1>1, <2>1 DEF DueOK, Free
  <2>3. CronTypeOK' BY <1>1, <2>1 DEF CronTypeOK
  <2>4. JobsOK' /\ AddingOK' BY <1>1, <2>1 DEF JobsOK, AddingOK
  <2>5. DueOK' BY <2>1, <2>2 DEF DueOK
  <2> QED BY <2>3, <2>4, <2>5 DEF CronInv
<1>3. CASE TakeLock
  <2> DEFINE left == {j \in DOMAIN jobs : DueAt(j, cronNow)}
  <2>1. /\ UNCHANGED <<jobs, wanted, callback, stopAsked, calling, clock>>
        /\ cronLoop = "locking" /\ cronLoop' = IF left = {} THEN "running" ELSE "checking"
        /\ due' = left /\ cronNow' = IF left = {} THEN 0 ELSE cronNow
    BY <1>3 DEF TakeLock, Look, CronStep
  <2>2. due = {} /\ calling = 0 BY <1>1, <2>1 DEF DueOK, Free
  <2>3. CronTypeOK' BY <1>1, <2>1, <2>2 DEF CronTypeOK
  <2>4. JobsOK' /\ AddingOK' BY <1>1, <2>1 DEF JobsOK, AddingOK
  <2>5. \A j \in left : jobs[j] # NoJob /\ cronNow > jobs[j].next BY DEF DueAt, After
  <2>6. DueOK' BY <2>1, <2>2, <2>5 DEF DueOK, Free
  <2> QED BY <2>3, <2>4, <2>6 DEF CronInv
<1> QED BY <1>2, <1>3

\* It calls back for a job that is due.
LEMMA CallBackStep == ASSUME CronInv, NEW j \in due, CallBack(j) PROVE CronInv'
<1>1. CronTypeOK /\ DueOK /\ clock \in Nat /\ cronNow \in Nat /\ cronNow <= clock
      /\ j \in DOMAIN jobs /\ DOMAIN jobs = 1 .. Len(jobs)
  BY JobsType DEF CronInv, CronTypeOK
<1>2. jobs[j] # NoJob /\ JobOK(jobs[j], calling = j, clock) /\ jobs[j] \in Job
  BY <1>1, JobsType DEF DueOK, JobOK
<1> DEFINE new == [jobs[j] EXCEPT !.calls = @ + 1]
<1>3. /\ UNCHANGED <<wanted, callback, stopAsked, clock, cronNow, due>>
      /\ cronLoop' \in {"checking", "stuck"} /\ calling = 0 /\ calling' = j
      /\ jobs' = [jobs EXCEPT ![j] = new]
  BY DEF CallBack, CronStep
<1>4. cronNow > jobs[j].next BY <1>1 DEF DueOK
<1>5. (calling = j) = FALSE BY <1>1, <1>3
<1>6. clock > jobs[j].next BY <1>1, <1>2, <1>4, JobFields
<1>7. JobOK(new, TRUE, clock) /\ new # NoJob /\ new.next = jobs[j].next
  BY <1>1, <1>2, <1>4, <1>5, <1>6, CalledStep
<1> HIDE DEF new
<1>8. (calling' = j) = TRUE BY <1>3
<1>9. \A k \in DOMAIN jobs : k # j => (calling' = k <=> calling = k) BY <1>1, <1>3
<1>10. /\ jobs' \in Seq(Job \cup {NoJob}) /\ Len(jobs') = Len(jobs) /\ DOMAIN jobs' = DOMAIN jobs
       /\ \A k \in DOMAIN jobs : jobs'[k] = IF k = j THEN new ELSE jobs[k]
       /\ JobsOK' /\ AddingOK'
  BY <1>1, <1>3, <1>7, <1>8, <1>9, OneChanges
<1>11. CronTypeOK' BY <1>1, <1>3, <1>10 DEF CronTypeOK
<1>12. \A k \in due : jobs'[k] # NoJob /\ cronNow > jobs'[k].next
  BY <1>1, <1>7, <1>10 DEF DueOK, CronTypeOK
<1>13. DueOK' BY <1>3, <1>12 DEF DueOK, Free
<1> QED BY <1>10, <1>11, <1>13 DEF CronInv

\* It is done with one.
LEMMA JobDoneStep == ASSUME CronInv, NEW j \in due, JobDone(j) PROVE CronInv'
<1>1. CronTypeOK /\ DueOK /\ clock \in Nat /\ cronNow \in Nat /\ cronNow <= clock
      /\ j \in DOMAIN jobs /\ DOMAIN jobs = 1 .. Len(jobs)
  BY JobsType DEF CronInv, CronTypeOK
<1>2. jobs[j] # NoJob /\ JobOK(jobs[j], calling = j, clock) /\ jobs[j] \in Job
  BY <1>1, JobsType DEF DueOK, JobOK
<1> DEFINE new == Ran(jobs[j])
           left == due \ {j}
<1>3. /\ UNCHANGED <<wanted, callback, stopAsked, clock>>
      /\ cronLoop' = (IF left = {} THEN "running" ELSE "checking") /\ due' = left
      /\ cronNow' = (IF left = {} THEN 0 ELSE cronNow)
      /\ calling \in {0, j} /\ calling' = 0 /\ jobs' = [jobs EXCEPT ![j] = new]
  BY DEF JobDone, Look, CronStep
<1>4. cronNow > jobs[j].next BY <1>1 DEF DueOK
<1>5. new = NoJob \/ JobOK(new, FALSE, clock) BY <1>1, <1>2, <1>4, RanStep
<1> HIDE DEF new
<1>6. (calling' = j) = FALSE BY <1>1, <1>3
<1>7. \A k \in DOMAIN jobs : k # j => (calling' = k <=> calling = k) BY <1>1, <1>3
<1>8. /\ jobs' \in Seq(Job \cup {NoJob}) /\ Len(jobs') = Len(jobs) /\ DOMAIN jobs' = DOMAIN jobs
      /\ \A k \in DOMAIN jobs : jobs'[k] = IF k = j THEN new ELSE jobs[k]
      /\ JobsOK' /\ AddingOK'
  BY <1>1, <1>3, <1>5, <1>6, <1>7, OneChanges
<1>9. CronTypeOK' BY <1>1, <1>3, <1>8 DEF CronTypeOK
<1>10. \A k \in left : jobs'[k] # NoJob /\ cronNow > jobs'[k].next /\ left # {}
  BY <1>1, <1>8 DEF DueOK, CronTypeOK
<1>11. DueOK' BY <1>3, <1>10 DEF DueOK, Free
<1> QED BY <1>8, <1>9, <1>11 DEF CronInv

\* Every step of the jobs keeps the invariant.
LEMMA CronSteps == ASSUME CronInv, [CronNext]_jvars PROVE CronInv'
<1>1. /\ CronTypeOK /\ JobsOK /\ DueOK /\ AddingOK /\ clock \in Nat
      /\ \A j \in DOMAIN jobs : jobs[j] # NoJob => JobOK(jobs[j], calling = j, clock)
  BY JobsType DEF CronInv
<1>2. CASE SecondPasses
  <2>1. /\ clock' = clock + 1 /\ clock <= clock' /\ clock' \in Nat /\ clock' <= MaxSeconds
        /\ UNCHANGED <<jobs, wanted, callback, cronLoop, stopAsked, cronNow, due, calling>>
    BY <1>1, <1>2, CronAssumption DEF SecondPasses, pass
  <2>2. \A j \in DOMAIN jobs : jobs[j] # NoJob => JobOK(jobs[j], calling = j, clock') BY <1>1, <2>1, JobStays
  <2>3. wanted # NoJob => JobOK(wanted, FALSE, clock') BY <1>1, <2>1, JobStays DEF AddingOK
  <2>4. CronTypeOK' BY <1>1, <2>1, CronAssumption DEF CronTypeOK
  <2>5. JobsOK' BY <2>1, <2>2 DEF JobsOK
  <2>6. AddingOK' BY <1>1, <2>1, <2>3 DEF AddingOK
  <2>7. DueOK' BY <1>1, <2>1 DEF DueOK, Free
  <2> QED BY <2>4, <2>5, <2>6, <2>7 DEF CronInv
<1>3. CASE UNCHANGED jvars \/ StartCron \/ StopCron \/ CronLoopEnds
  <2>1. UNCHANGED <<jobs, wanted, callback, cronNow, due, calling, clock>>
    BY <1>3 DEF jvars, pass, StartCron, StopCron, CronLoopEnds, CronStep
  <2>2. /\ cronLoop' \in {cronLoop, "running", "stopped"} /\ stopAsked' \in {stopAsked, TRUE}
        /\ cronLoop' # cronLoop => Free
    BY <1>3 DEF jvars, pass, StartCron, StopCron, CronLoopEnds, CronStep, Free
  <2>3. CronTypeOK' BY <1>1, <2>1, <2>2 DEF CronTypeOK
  <2>4. JobsOK' /\ AddingOK' BY <1>1, <2>1 DEF JobsOK, AddingOK
  <2>5. DueOK' BY <1>1, <2>1, <2>2 DEF DueOK, Free
  <2> QED BY <2>3, <2>4, <2>5 DEF CronInv
<1> QED BY <1>2, <1>3, AddingSteps, ManagingSteps, LookSteps, CallBackStep, JobDoneStep
        DEF CronNext, CronLoop

\* It holds before the first job.
LEMMA CronStarts == ASSUME CronInit PROVE CronInv
<1>1. jobs = <<>> /\ wanted = NoJob /\ cronLoop = "none" /\ stopAsked = FALSE
      /\ cronNow = 0 /\ due = {} /\ calling = 0 /\ clock = 0
      /\ callback \in {"none", "returns", "reenters"}
  BY DEF CronInit
<1>2. CronTypeOK
  <2>1. jobs \in Seq(Job \cup {NoJob}) /\ Len(jobs) = 0 BY <1>1
  <2>2. Len(jobs) <= MaxJobs /\ clock \in 0 .. MaxSeconds /\ cronNow \in 0 .. clock
    BY <1>1, <2>1, CronAssumption
  <2> QED BY <1>1, <2>1, <2>2 DEF CronTypeOK
<1>3. DOMAIN jobs = {}
  <2>1. Len(jobs) = 0 /\ DOMAIN jobs = 1 .. Len(jobs) BY <1>1, <1>2 DEF CronTypeOK
  <2> QED BY <2>1
<1>4. JobsOK BY <1>3 DEF JobsOK
<1>5. DueOK /\ AddingOK BY <1>1 DEF DueOK, AddingOK
<1> QED BY <1>2, <1>4, <1>5 DEF CronInv

\* And it says that calls are spaced.
LEMMA CronSpaced == ASSUME CronInv PROVE CallbacksAreSpaced
<1> SUFFICES ASSUME NEW j \in DOMAIN jobs, jobs[j] # NoJob, jobs[j].calls > 0
             PROVE  LET job == jobs[j]
                    IN  /\ clock > job.added + job.calls * job.after
                        /\ job.kind = "once" => job.calls = 1 /\ calling = j
  BY DEF CallbacksAreSpaced
<1>1. jobs[j] \in Job /\ JobOK(jobs[j], calling = j, clock) BY JobsType DEF JobOK
<1>2. jobs[j].calls \in Nat BY <1>1, JobFields
<1>3. clock > jobs[j].added + jobs[j].calls * jobs[j].after BY <1>1 DEF JobOK
<1>4. jobs[j].kind = "once" => jobs[j].calls <= 1 /\ (calling # j => jobs[j].calls = 0)
  BY <1>1 DEF JobOK
<1> QED BY <1>2, <1>3, <1>4

-----------------------------------------------------------------------------
(* Probes *)

\* What is known of a provider that was asked, what a fallback writes down of an
\* attempt, and how far a call may be.
Verdict == {"asked", "good", "bad"}
TrialRecord == Probed \X {"failed", "skipped", "hot"}
CallPlaces == {"idle", "listing", "racing", "models", "others", "answered", "failed"}
\* The providers whose call has ended.
Ends(polled) == {q \in DOMAIN polled : polled[q] # "asked"}

\* Of a race: no result without an end, and a good end is among the results until one
\* is collected.
RaceOK(polled, answers, place) ==
  /\ polled \in UNION {[s -> Verdict] : s \in SUBSET Probed} /\ answers \in Seq(Probed \X BOOLEAN)
  /\ Len(answers) <= Cardinality(Ends(polled))
  /\ place = "idle" => DOMAIN polled = {}
  /\ place \in {"idle", "listing"} => Ends(polled) = {}
  /\ place = "racing" => \A q \in DOMAIN polled : polled[q] = "good" =>
       \E n \in DOMAIN answers : answers[n] = <<q, TRUE>>
  /\ place = "failed" => \A q \in DOMAIN polled : polled[q] = "bad"
  /\ place \notin {"models", "others"}

\* A fallback has tried a provider.
Tries(tried, q) == \E n \in DOMAIN tried : tried[n][1] = q

\* Of a fallback: what it has come past it has tried.
FallOK(tried, place, rest, left) ==
  /\ tried \in Seq(TrialRecord)
  /\ \A n \in DOMAIN tried : tried[n][2] = "hot" => n > Heated
  /\ place = "models" /\ left # 1 + Spares => Tries(tried, Primary)
  /\ place = "others" => \A q \in Probed \ rest : Tries(tried, q)
  /\ place = "failed" => \A q \in Probed : Tries(tried, q)

\* Each call, with what it has collected, is so.
ProbesKeep ==
  /\ DOMAIN probes = Racer /\ DOMAIN results = Racer /\ DOMAIN trials = Faller
  /\ \A r \in Racer : RaceOK(probes[r], results[r], stage[r])
  /\ \A f \in Faller : FallOK(trials[f], stage[f], unseen[f], models[f])

\* The types of what the calls share.
ProbesPlain ==
  /\ reading \in [Process -> 0 .. 1]
  /\ \A p \in DOMAIN pending : p \in Process /\ pending[p] \in Probed \X BOOLEAN
  /\ failures \in [Probed -> 0 .. Tolerated + 1]
  /\ stage \in [Process -> CallPlaces]
  /\ unseen \in [Process -> SUBSET Probed] /\ models \in [Faller -> 0 .. Spares + 1]

\* The probes' invariant.
ProbesInv == ProbesPlain /\ ProbesKeep

\* Providers that were asked are finitely many.
LEMMA AskedType ==
  ASSUME NEW polled \in UNION {[s -> Verdict] : s \in SUBSET Probed}
  PROVE  /\ polled \in [DOMAIN polled -> Verdict] /\ DOMAIN polled \subseteq Probed
         /\ IsFiniteSet(DOMAIN polled) /\ Cardinality(DOMAIN polled) \in Nat
         /\ IsFiniteSet(Ends(polled)) /\ Cardinality(Ends(polled)) \in Nat
<1>1. PICK s \in SUBSET Probed : polled \in [s -> Verdict] OBVIOUS
<1>2. polled \in [DOMAIN polled -> Verdict] /\ DOMAIN polled \subseteq Probed BY <1>1
<1>3. IsFiniteSet(DOMAIN polled) /\ IsFiniteSet(Ends(polled))
  BY <1>2, ProbesAssumption, FS_Subset DEF Ends
<1> QED BY <1>2, <1>3, FS_CardinalityType

\* A provider answers.
LEMMA EndStep ==
  ASSUME NEW polled, NEW answers, NEW place, RaceOK(polled, answers, place), place # "listing",
         NEW q \in DOMAIN polled, polled[q] = "asked", NEW good \in BOOLEAN, good => place = "racing",
         NEW more, more = IF Len(answers) < Cardinality(DOMAIN polled)
                          THEN Append(answers, <<q, good>>) ELSE answers
  PROVE  RaceOK([polled EXCEPT ![q] = IF good THEN "good" ELSE "bad"], more, place)
<1> DEFINE new == [polled EXCEPT ![q] = IF good THEN "good" ELSE "bad"]
<1>1. /\ polled \in [DOMAIN polled -> Verdict] /\ DOMAIN polled \subseteq Probed
      /\ IsFiniteSet(DOMAIN polled) /\ Cardinality(DOMAIN polled) \in Nat
      /\ IsFiniteSet(Ends(polled)) /\ Cardinality(Ends(polled)) \in Nat
      /\ answers \in Seq(Probed \X BOOLEAN) /\ Len(answers) <= Cardinality(Ends(polled))
      /\ Len(answers) \in Nat
  <2>1. polled \in UNION {[s -> Verdict] : s \in SUBSET Probed} /\ answers \in Seq(Probed \X BOOLEAN)
        /\ Len(answers) <= Cardinality(Ends(polled))
    BY DEF RaceOK
  <2> QED BY <2>1, AskedType
<1>2. /\ new \in [DOMAIN polled -> Verdict] /\ DOMAIN new = DOMAIN polled
      /\ new[q] = IF good THEN "good" ELSE "bad"
      /\ \A p \in DOMAIN polled : p # q => new[p] = polled[p]
  BY <1>1 DEF Verdict
<1> HIDE DEF new
<1>3. Ends(new) = Ends(polled) \cup {q} /\ q \notin Ends(polled) BY <1>2 DEF Ends
<1>4. Cardinality(Ends(new)) = Cardinality(Ends(polled)) + 1 BY <1>1, <1>3, FS_AddElement
<1>5. Cardinality(Ends(new)) <= Cardinality(DOMAIN polled)
  <2>1. Ends(new) \subseteq DOMAIN polled BY <1>2 DEF Ends
  <2> QED BY <1>1, <2>1, FS_Subset
<1>6. more = Append(answers, <<q, good>>) BY <1>1, <1>4, <1>5
<1> DEFINE answer == <<q, good>>  Answer == Probed \X BOOLEAN
<1>7. answer \in Answer BY <1>1
<1>8. answers \in Seq(Answer) BY <1>1
<1> HIDE DEF answer, Answer
<1>9. /\ more \in Seq(Answer) /\ Len(more) = Len(answers) + 1 /\ DOMAIN more = 1 .. Len(answers) + 1
      /\ DOMAIN answers = 1 .. Len(answers)
      /\ \A n \in DOMAIN answers : more[n] = answers[n] /\ n \in DOMAIN more
      /\ more[Len(answers) + 1] = answer
  BY <1>1, <1>6, <1>7, <1>8 DEF answer
<1>10. new \in UNION {[s -> Verdict] : s \in SUBSET Probed} BY <1>1, <1>2
<1>11. Len(more) <= Cardinality(Ends(new)) BY <1>1, <1>4, <1>9
<1>12. place = "racing" => \A p \in DOMAIN new : new[p] = "good" => \E n \in DOMAIN more : more[n] = <<p, TRUE>>
  <2> SUFFICES ASSUME place = "racing", NEW p \in DOMAIN new, new[p] = "good"
               PROVE  \E n \in DOMAIN more : more[n] = <<p, TRUE>>
    OBVIOUS
  <2>1. CASE p = q
    <3>1. good BY <1>2, <2>1
    <3>2. answer = <<p, TRUE>> BY <2>1, <3>1 DEF answer
    <3>3. Len(answers) + 1 \in DOMAIN more BY <1>1, <1>9
    <3> QED BY <1>9, <3>2, <3>3
  <2>2. CASE p # q
    <3>1. polled[p] = "good" /\ p \in DOMAIN polled BY <1>2, <2>2
    <3>2. PICK n \in DOMAIN answers : answers[n] = <<p, TRUE>> BY <3>1 DEF RaceOK
    <3> QED BY <1>9, <3>2
  <2> QED BY <2>1, <2>2
<1>13. place \notin {"idle", "listing", "failed", "models", "others"}
  BY DEF RaceOK
<1>14. RaceOK(new, more, place) BY <1>9, <1>10, <1>11, <1>12, <1>13 DEF RaceOK, Answer
<1> QED BY <1>14 DEF new

\* A result is collected.
LEMMA CollectStep ==
  ASSUME NEW polled, NEW answers, RaceOK(polled, answers, "racing"), answers # <<>>
  PROVE  /\ Head(answers)[1] \in Probed /\ Head(answers)[2] \in BOOLEAN
         /\ Head(answers)[2] => RaceOK(polled, Tail(answers), "answered")
         /\ ~Head(answers)[2] => RaceOK(polled, Tail(answers), "racing")
<1> DEFINE Answer == Probed \X BOOLEAN
<1>1. /\ polled \in UNION {[s -> Verdict] : s \in SUBSET Probed} /\ answers \in Seq(Answer)
      /\ Len(answers) <= Cardinality(Ends(polled)) /\ Cardinality(Ends(polled)) \in Nat
      /\ \A q \in DOMAIN polled : polled[q] = "good" => \E n \in DOMAIN answers : answers[n] = <<q, TRUE>>
  BY AskedType DEF RaceOK
<1> HIDE DEF Answer
<1>2. /\ Tail(answers) \in Seq(Answer) /\ Len(Tail(answers)) = Len(answers) - 1
      /\ DOMAIN Tail(answers) = 1 .. Len(answers) - 1 /\ DOMAIN answers = 1 .. Len(answers)
      /\ Len(answers) \in Nat
      /\ \A n \in 1 .. Len(answers) - 1 : Tail(answers)[n] = answers[n + 1]
      /\ Head(answers) = answers[1] /\ Head(answers) \in Answer
  BY <1>1
<1>3. Head(answers)[1] \in Probed /\ Head(answers)[2] \in BOOLEAN BY <1>2 DEF Answer
<1>4. Len(Tail(answers)) <= Cardinality(Ends(polled)) BY <1>1, <1>2
<1>5. ASSUME ~Head(answers)[2], NEW q \in DOMAIN polled, polled[q] = "good"
      PROVE  \E n \in DOMAIN Tail(answers) : Tail(answers)[n] = <<q, TRUE>>
  <2>1. PICK n \in DOMAIN answers : answers[n] = <<q, TRUE>> BY <1>1, <1>5
  <2>2. n # 1
    <3>1. <<q, TRUE>>[2] = TRUE OBVIOUS
    <3> QED BY <1>2, <1>5, <2>1, <3>1
  <2>3. n - 1 \in 1 .. Len(answers) - 1 /\ (n - 1) + 1 = n BY <1>2, <2>1, <2>2
  <2> QED BY <1>2, <2>1, <2>3
<1>6. ~Head(answers)[2] => RaceOK(polled, Tail(answers), "racing")
  BY <1>1, <1>2, <1>4, <1>5 DEF RaceOK, Answer
<1>7. RaceOK(polled, Tail(answers), "answered") BY <1>1, <1>2, <1>4 DEF RaceOK, Answer
<1> QED BY <1>3, <1>6, <1>7

\* One process moves, and the others stay.
LEMMA OneMoves ==
  ASSUME ProbesInv, NEW p, ProbesPlain', DOMAIN probes' = Racer, DOMAIN results' = Racer,
         DOMAIN trials' = Faller,
         \A r \in Racer \ {p} : probes'[r] = probes[r] /\ results'[r] = results[r] /\ stage'[r] = stage[r],
         \A f \in Faller \ {p} : /\ trials'[f] = trials[f] /\ stage'[f] = stage[f]
                                 /\ unseen'[f] = unseen[f] /\ models'[f] = models[f],
         p \in Racer => RaceOK(probes'[p], results'[p], stage'[p]),
         p \in Faller => FallOK(trials'[p], stage'[p], unseen'[p], models'[p])
  PROVE  ProbesInv'
<1>1. \A r \in Racer : RaceOK(probes'[r], results'[r], stage'[r]) BY DEF ProbesInv, ProbesKeep
<1>2. \A f \in Faller : FallOK(trials'[f], stage'[f], unseen'[f], models'[f]) BY DEF ProbesInv, ProbesKeep
<1> QED BY <1>1, <1>2 DEF ProbesInv, ProbesKeep

\* The counts, or nothing, are written.
LEMMA QuietCall ==
  ASSUME ProbesInv, ProbesPlain', UNCHANGED <<stage, unseen, models, probes, results, trials>>
  PROVE  ProbesInv'
BY DEF ProbesInv, ProbesKeep

\* A verdict is written into the counts.
LEMMA WriteFailuresStep == ASSUME ProbesInv, NEW p \in Process, WriteFailures(p) PROVE ProbesInv'
<1>1. ProbesPlain BY DEF ProbesInv
<1>2. p \in DOMAIN pending /\ pending[p][1] \in Probed BY <1>1 DEF WriteFailures, Waiting, ProbesPlain
<1>3. failures' \in [Probed -> 0 .. Tolerated + 1]
  <2> DEFINE q == pending[p][1]
             new == IF pending[p][2] THEN 0 ELSE IF failures[q] > Tolerated THEN failures[q] ELSE failures[q] + 1
  <2>1. failures' = [failures EXCEPT ![q] = new] BY DEF WriteFailures
  <2>2. failures[q] \in 0 .. Tolerated + 1 /\ failures \in [Probed -> 0 .. Tolerated + 1]
    BY <1>1, <1>2 DEF ProbesPlain
  <2>3. new \in 0 .. Tolerated + 1 BY <2>2, ProbesAssumption
  <2> HIDE DEF q, new
  <2> QED BY <2>1, <2>2, <2>3
<1>4. \A w \in DOMAIN pending' : w \in DOMAIN pending /\ pending'[w] = pending[w] BY DEF WriteFailures
<1>5. ProbesPlain' BY <1>1, <1>3, <1>4 DEF ProbesPlain, WriteFailures
<1> QED BY <1>5, QuietCall DEF WriteFailures

\* A record of a verdict is of a process and a provider.
LEMMA RecordFacts ==
  ASSUME ProbesPlain, NEW p \in Process, NEW q \in Probed, NEW good \in BOOLEAN, Record(p, q, good)
  PROVE  \A w \in DOMAIN pending' : w \in Process /\ pending'[w] \in Probed \X BOOLEAN
<1>1. pending' = [w \in DOMAIN pending \cup {p} |-> IF w = p THEN <<q, good>> ELSE pending[w]]
  BY DEF Record
<1> QED BY <1>1 DEF ProbesPlain

\* A call begins to list the providers.
LEMMA ListStep == ASSUME ProbesInv, NEW p \in Process, List(p) PROVE ProbesInv'
<1>1. ProbesPlain /\ ProbesKeep BY DEF ProbesInv
<1>2. /\ UNCHANGED <<pending, failures, probes, results, trials, models>> /\ stage[p] = "idle"
      /\ stage' = [stage EXCEPT ![p] = "listing"] /\ unseen' = [unseen EXCEPT ![p] = Probed]
      /\ reading' = [reading EXCEPT ![p] = 1]
  BY DEF List, Stage
<1>3. ProbesPlain' BY <1>1, <1>2 DEF ProbesPlain, CallPlaces
<1>4. stage'[p] = "listing" BY <1>1, <1>2 DEF ProbesPlain
<1>5. p \in Racer => RaceOK(probes'[p], results'[p], stage'[p])
  BY <1>1, <1>2, <1>4 DEF ProbesKeep, RaceOK
<1>6. p \in Faller => FallOK(trials'[p], stage'[p], unseen'[p], models'[p])
  BY <1>1, <1>2, <1>4 DEF ProbesKeep, FallOK
<1>7. \A w \in Process \ {p} : stage'[w] = stage[w] /\ unseen'[w] = unseen[w] BY <1>1, <1>2 DEF ProbesPlain
<1>8. Racer \subseteq Process /\ Faller \subseteq Process BY DEF Process
<1> QED BY <1>1, <1>2, <1>3, <1>5, <1>6, <1>7, <1>8, OneMoves DEF ProbesKeep

\* It asks for one of them.
LEMMA AskHealthStep ==
  ASSUME ProbesInv, NEW p \in Process, NEW q \in Probed, AskHealth(p, q)
  PROVE  ProbesInv'
<1>1. ProbesPlain /\ ProbesKeep BY DEF ProbesInv
<1>2. /\ UNCHANGED <<reading, pending, failures, stage, results, trials, models>> /\ stage[p] = "listing"
      /\ unseen' = [unseen EXCEPT ![p] = @ \ {q}]
      /\ \/ probes' = probes
         \/ p \in Racer /\ probes' = [probes EXCEPT ![p] = [s \in DOMAIN @ \cup {q} |-> "asked"]]
  BY DEF AskHealth
<1>3. unseen' \in [Process -> SUBSET Probed] BY <1>1, <1>2 DEF ProbesPlain
<1>4. ProbesPlain' BY <1>1, <1>2, <1>3 DEF ProbesPlain
<1>5. Racer \subseteq Process /\ Faller \subseteq Process BY DEF Process
<1>6. DOMAIN probes' = Racer /\ \A r \in Racer \ {p} : probes'[r] = probes[r]
  BY <1>1, <1>2 DEF ProbesKeep
<1>7. ASSUME p \in Racer PROVE RaceOK(probes'[p], results'[p], stage'[p])
  <2>1. RaceOK(probes[p], results[p], "listing") BY <1>1, <1>2, <1>7 DEF ProbesKeep
  <2>2. CASE probes' = probes BY <1>2, <2>1, <2>2
  <2>3. CASE probes' = [probes EXCEPT ![p] = [s \in DOMAIN @ \cup {q} |-> "asked"]]
    <3> DEFINE S == DOMAIN probes[p] \cup {q}  new == [s \in S |-> "asked"]
    <3>1. probes[p] \in UNION {[s -> Verdict] : s \in SUBSET Probed} /\ results[p] \in Seq(Probed \X BOOLEAN)
          /\ Len(results[p]) <= Cardinality(Ends(probes[p])) /\ Ends(probes[p]) = {}
      BY <2>1 DEF RaceOK
    <3>2. DOMAIN probes[p] \subseteq Probed BY <3>1, AskedType
    <3>3. S \in SUBSET Probed /\ new \in [S -> Verdict] BY <3>2 DEF Verdict
    <3>4. new \in UNION {[s -> Verdict] : s \in SUBSET Probed} BY <3>3
    <3>5. Ends(new) = {} BY DEF Ends
    <3>6. probes'[p] = new BY <1>1, <1>7, <2>3 DEF ProbesKeep
    <3> HIDE DEF new
    <3>7. RaceOK(new, results[p], "listing") BY <3>1, <3>4, <3>5 DEF RaceOK
    <3> QED BY <1>2, <3>6, <3>7
  <2> QED BY <1>2, <2>2, <2>3
<1>8. p \in Faller => FallOK(trials'[p], stage'[p], unseen'[p], models'[p])
  BY <1>1, <1>2 DEF ProbesKeep, FallOK
<1>9. \A w \in Process \ {p} : stage'[w] = stage[w] /\ unseen'[w] = unseen[w] BY <1>1, <1>2 DEF ProbesPlain
<1> QED BY <1>1, <1>2, <1>4, <1>5, <1>6, <1>7, <1>8, <1>9, OneMoves DEF ProbesKeep

\* The watcher has seen all.
LEMMA ReportHealthStep == ASSUME ProbesInv, NEW p \in Process, ReportHealth(p) PROVE ProbesInv'
<1>1. ProbesPlain /\ ProbesKeep BY DEF ProbesInv
<1>2. /\ UNCHANGED <<pending, failures, unseen, probes, results, trials, models>> /\ stage[p] = "listing"
      /\ stage' = [stage EXCEPT ![p] = "answered"] /\ reading' = [reading EXCEPT ![p] = 0]
  BY DEF ReportHealth, Stage
<1>3. ProbesPlain' BY <1>1, <1>2 DEF ProbesPlain, CallPlaces
<1>4. stage'[p] = "answered" BY <1>1, <1>2 DEF ProbesPlain
<1>5. p \in Racer => RaceOK(probes'[p], results'[p], stage'[p])
  BY <1>1, <1>2, <1>4 DEF ProbesKeep, RaceOK
<1>6. p \in Faller => FallOK(trials'[p], stage'[p], unseen'[p], models'[p])
  BY <1>1, <1>2, <1>4 DEF ProbesKeep, FallOK
<1>7. \A w \in Process \ {p} : stage'[w] = stage[w] BY <1>1, <1>2 DEF ProbesPlain
<1>8. Racer \subseteq Process /\ Faller \subseteq Process BY DEF Process
<1> QED BY <1>1, <1>2, <1>3, <1>5, <1>6, <1>7, <1>8, OneMoves DEF ProbesKeep

\* The race begins, or there is nobody to ask.
LEMMA LaunchStep == ASSUME ProbesInv, NEW p \in Process, LaunchProbes(p) PROVE ProbesInv'
<1>1. ProbesPlain /\ ProbesKeep BY DEF ProbesInv
<1>2. /\ UNCHANGED <<pending, failures, unseen, results, trials, models>> /\ stage[p] = "listing"
      /\ p \in Racer /\ reading' = [reading EXCEPT ![p] = 0]
  BY DEF LaunchProbes
<1>3. p \notin Faller BY <1>2, ProbesAssumption
<1>4. RaceOK(probes[p], results[p], "listing") BY <1>1, <1>2 DEF ProbesKeep
<1>5. /\ probes[p] \in UNION {[s -> Verdict] : s \in SUBSET Probed} /\ results[p] \in Seq(Probed \X BOOLEAN)
      /\ Len(results[p]) <= Cardinality(Ends(probes[p])) /\ Ends(probes[p]) = {}
  BY <1>4 DEF RaceOK
<1>6. Racer \subseteq Process /\ Faller \subseteq Process BY DEF Process
<1>7. CASE DOMAIN probes[p] = {}
  <2>1. stage' = [stage EXCEPT ![p] = "failed"] /\ UNCHANGED probes BY <1>7 DEF LaunchProbes, Stage
  <2>2. ProbesPlain' BY <1>1, <1>2, <2>1 DEF ProbesPlain, CallPlaces
  <2>3. stage'[p] = "failed" BY <1>1, <2>1 DEF ProbesPlain
  <2>4. RaceOK(probes'[p], results'[p], stage'[p]) BY <1>2, <1>5, <1>7, <2>1, <2>3 DEF RaceOK
  <2>5. \A w \in Process \ {p} : stage'[w] = stage[w] BY <1>1, <2>1 DEF ProbesPlain
  <2> QED BY <1>1, <1>2, <1>3, <1>6, <2>1, <2>2, <2>4, <2>5, OneMoves DEF ProbesKeep
<1>8. CASE DOMAIN probes[p] # {}
  <2>1. PICK s \in SUBSET DOMAIN probes[p] :
          /\ stage' = [stage EXCEPT ![p] = "racing"] /\ probes' = [probes EXCEPT ![p] = [q \in s |-> "asked"]]
    BY <1>8 DEF LaunchProbes, Stage
  <2>2. ProbesPlain' BY <1>1, <1>2, <2>1 DEF ProbesPlain, CallPlaces
  <2>3. stage'[p] = "racing" BY <1>1, <2>1 DEF ProbesPlain
  <2>4. RaceOK(probes'[p], results'[p], stage'[p])
    <3> DEFINE new == [q \in s |-> "asked"]
    <3>1. DOMAIN probes[p] \subseteq Probed BY <1>5, AskedType
    <3>2. s \in SUBSET Probed /\ new \in [s -> Verdict] BY <3>1 DEF Verdict
    <3>3. new \in UNION {[t -> Verdict] : t \in SUBSET Probed} BY <3>2
    <3>4. Ends(new) = {} /\ \A q \in DOMAIN new : new[q] # "good" BY DEF Ends
    <3>5. probes'[p] = new BY <1>1, <1>2, <2>1 DEF ProbesKeep
    <3> HIDE DEF new
    <3>6. RaceOK(new, results[p], "racing") BY <1>5, <3>3, <3>4 DEF RaceOK
    <3> QED BY <1>2, <2>3, <3>5, <3>6
  <2>5. \A w \in Process \ {p} : stage'[w] = stage[w] BY <1>1, <2>1 DEF ProbesPlain
  <2>6. DOMAIN probes' = Racer /\ \A r \in Racer \ {p} : probes'[r] = probes[r]
    BY <1>1, <2>1 DEF ProbesKeep
  <2> QED BY <1>1, <1>2, <1>3, <1>6, <2>2, <2>4, <2>5, <2>6, OneMoves DEF ProbesKeep
<1> QED BY <1>7, <1>8

\* A provider that was asked ends.
LEMMA ProbeEndsStep ==
  ASSUME ProbesInv, NEW r \in Racer, NEW q \in Probed, ProbeEnds(r, q)
  PROVE  ProbesInv'
<1>1. ProbesPlain /\ ProbesKeep BY DEF ProbesInv
<1>2. PICK good \in BOOLEAN :
        /\ (good => stage[r] = "racing")
        /\ probes' = [probes EXCEPT ![r] = [probes[r] EXCEPT ![q] = IF good THEN "good" ELSE "bad"]]
        /\ results' = [results EXCEPT ![r] = Deliver(r, <<q, good>>)]
  BY DEF ProbeEnds
<1>3. /\ UNCHANGED <<reading, pending, failures, stage, unseen, trials, models>>
      /\ stage[r] # "listing" /\ q \in DOMAIN probes[r] /\ probes[r][q] = "asked"
  BY DEF ProbeEnds
<1> DEFINE more == Deliver(r, <<q, good>>)
<1>4. more = IF Len(results[r]) < Cardinality(DOMAIN probes[r]) THEN Append(results[r], <<q, good>>) ELSE results[r]
  BY DEF Deliver
<1>5. RaceOK(probes[r], results[r], stage[r]) BY <1>1 DEF ProbesKeep
<1> HIDE DEF more
<1>6. RaceOK([probes[r] EXCEPT ![q] = IF good THEN "good" ELSE "bad"], more, stage[r])
  BY <1>2, <1>3, <1>4, <1>5, EndStep
<1>7. /\ DOMAIN probes' = Racer /\ \A s \in Racer \ {r} : probes'[s] = probes[s]
      /\ DOMAIN results' = Racer /\ \A s \in Racer \ {r} : results'[s] = results[s]
      /\ probes'[r] = [probes[r] EXCEPT ![q] = IF good THEN "good" ELSE "bad"] /\ results'[r] = more
  BY <1>1, <1>2 DEF ProbesKeep, more
<1>8. ProbesPlain' BY <1>1, <1>3 DEF ProbesPlain
<1>9. r \notin Faller BY ProbesAssumption
<1> QED BY <1>1, <1>3, <1>6, <1>7, <1>8, <1>9, OneMoves DEF ProbesKeep

\* The race takes a result, or has none left.
LEMMA CollectsStep == ASSUME ProbesInv, NEW r \in Process, Collect(r) \/ NoneLeft(r) PROVE ProbesInv'
<1>1. ProbesPlain /\ ProbesKeep BY DEF ProbesInv
<1>2. r \in Racer /\ stage[r] = "racing" /\ UNCHANGED <<reading, failures, unseen, probes, trials, models>>
  BY DEF Collect, NoneLeft
<1>3. RaceOK(probes[r], results[r], "racing") /\ r \notin Faller BY <1>1, <1>2, ProbesAssumption DEF ProbesKeep
<1>4. Racer \subseteq Process /\ Faller \subseteq Process BY DEF Process
<1>5. ASSUME NEW place \in CallPlaces, ProbesPlain', DOMAIN results' = Racer,
             \A s \in Racer \ {r} : results'[s] = results[s],
             stage' = [stage EXCEPT ![r] = place], RaceOK(probes[r], results'[r], place)
      PROVE  ProbesInv'
  <2>1. stage'[r] = place /\ \A w \in Process \ {r} : stage'[w] = stage[w] BY <1>1, <1>2, <1>4, <1>5 DEF ProbesPlain
  <2> QED BY <1>1, <1>2, <1>3, <1>4, <1>5, <2>1, OneMoves DEF ProbesKeep
<1>6. CASE Collect(r)
  <2>1. /\ results[r] # <<>> /\ results' = [results EXCEPT ![r] = Tail(results[r])]
        /\ IF Head(results[r])[2]
           THEN stage' = [stage EXCEPT ![r] = "answered"] /\ Record(r, Head(results[r])[1], TRUE)
           ELSE UNCHANGED <<stage, pending>>
    BY <1>6 DEF Collect, Stage
  <2>2. /\ Head(results[r])[1] \in Probed
        /\ Head(results[r])[2] => RaceOK(probes[r], Tail(results[r]), "answered")
        /\ ~Head(results[r])[2] => RaceOK(probes[r], Tail(results[r]), "racing")
    BY <1>3, <2>1, CollectStep
  <2>3. /\ DOMAIN results' = Racer /\ results'[r] = Tail(results[r])
        /\ \A s \in Racer \ {r} : results'[s] = results[s]
    BY <1>1, <1>2, <2>1 DEF ProbesKeep
  <2>4. CASE Head(results[r])[2]
    <3>1. \A w \in DOMAIN pending' : w \in Process /\ pending'[w] \in Probed \X BOOLEAN
      BY <1>1, <2>1, <2>2, <2>4, RecordFacts
    <3>2. ProbesPlain' BY <1>1, <1>2, <2>1, <2>4, <3>1 DEF ProbesPlain, CallPlaces
    <3> QED BY <1>5, <2>1, <2>2, <2>3, <2>4, <3>2 DEF CallPlaces
  <2>5. CASE ~Head(results[r])[2]
    <3>1. ProbesPlain' BY <1>1, <1>2, <2>1, <2>5 DEF ProbesPlain
    <3>2. stage' = [stage EXCEPT ![r] = "racing"] BY <1>1, <1>2, <2>1, <2>5 DEF ProbesPlain
    <3> QED BY <1>5, <2>2, <2>3, <2>5, <3>1, <3>2 DEF CallPlaces
  <2> QED BY <2>4, <2>5
<1>7. CASE NoneLeft(r)
  <2>1. /\ results[r] = <<>> /\ \A q \in DOMAIN probes[r] : probes[r][q] # "asked"
        /\ stage' = [stage EXCEPT ![r] = "failed"] /\ UNCHANGED <<pending, results>>
    BY <1>7 DEF NoneLeft, Stage
  <2>2. probes[r] \in UNION {[s -> Verdict] : s \in SUBSET Probed} BY <1>3 DEF RaceOK
  <2>3. probes[r] \in [DOMAIN probes[r] -> Verdict] BY <2>2, AskedType
  <2>4. \A q \in DOMAIN probes[r] : probes[r][q] = "bad"
    <3>1. \A q \in DOMAIN probes[r] : probes[r][q] # "good" BY <1>3, <2>1 DEF RaceOK
    <3> QED BY <2>1, <2>3, <3>1 DEF Verdict
  <2>5. RaceOK(probes[r], results[r], "failed") BY <1>3, <2>4 DEF RaceOK
  <2>6. ProbesPlain' BY <1>1, <1>2, <2>1 DEF ProbesPlain, CallPlaces
  <2> QED BY <1>1, <1>5, <2>1, <2>5, <2>6 DEF CallPlaces, ProbesKeep
<1> QED BY <1>6, <1>7

\* A fallback that has come to its others, or to its end, is left to try what it has not.
LEMMA TrialFacts ==
  ASSUME NEW tried \in Seq(TrialRecord), \A n \in DOMAIN tried : tried[n][2] = "hot" => n > Heated,
         NEW q \in Probed, NEW how \in {"failed", "skipped", "hot"}, how = "hot" => Len(tried) >= Heated
  PROVE  /\ Append(tried, <<q, how>>) \in Seq(TrialRecord)
         /\ \A n \in DOMAIN Append(tried, <<q, how>>) : Append(tried, <<q, how>>)[n][2] = "hot" => n > Heated
         /\ Tries(Append(tried, <<q, how>>), q)
         /\ \A p : Tries(tried, p) => Tries(Append(tried, <<q, how>>), p)
<1> DEFINE new == Append(tried, <<q, how>>)  row == <<q, how>>
<1>1. row \in TrialRecord /\ row[1] = q /\ row[2] = how BY DEF TrialRecord
<1> HIDE DEF row
<1> DEFINE longer == Append(tried, row)
<1>2. /\ longer \in Seq(TrialRecord) /\ DOMAIN longer = 1 .. Len(tried) + 1 /\ DOMAIN tried = 1 .. Len(tried)
      /\ Len(tried) \in Nat /\ longer[Len(tried) + 1] = row
      /\ \A n \in 1 .. Len(tried) : longer[n] = tried[n]
  <2> HIDE DEF TrialRecord
  <2> QED BY <1>1
<1>3. longer = new BY DEF row
<1> HIDE DEF longer, new
<1>4. ASSUME NEW n \in DOMAIN longer, longer[n][2] = "hot" PROVE n > Heated
  <2>1. CASE n = Len(tried) + 1
    <3>1. how = "hot" BY <1>1, <1>2, <1>4, <2>1
    <3> QED BY <1>2, <2>1, <3>1, ProbesAssumption
  <2>2. CASE n # Len(tried) + 1
    <3>1. n \in 1 .. Len(tried) BY <1>2, <1>4, <2>2
    <3> QED BY <1>2, <1>4, <3>1
  <2> QED BY <2>1, <2>2
<1>5. Tries(longer, q)
  <2>1. Len(tried) + 1 \in DOMAIN longer BY <1>2
  <2> QED BY <1>1, <1>2, <2>1 DEF Tries
<1>6. ASSUME NEW p, Tries(tried, p) PROVE Tries(longer, p)
  <2>1. PICK n \in DOMAIN tried : tried[n][1] = p BY <1>6 DEF Tries
  <2>2. n \in DOMAIN longer /\ longer[n] = tried[n] BY <1>2, <2>1
  <2> QED BY <2>1, <2>2 DEF Tries
<1> QED BY <1>2, <1>3, <1>4, <1>5, <1>6 DEF new

\* More than as many failures as are tolerated are as many attempts.
LEMMA HotIsLate ==
  ASSUME NEW tried \in Seq(TrialRecord), NEW q,
         Cardinality({n \in DOMAIN tried : tried[n] = <<q, "failed">>}) > Heated
  PROVE  Len(tried) >= Heated
<1> DEFINE S == {n \in DOMAIN tried : tried[n] = <<q, "failed">>}
<1>1. DOMAIN tried = 1 .. Len(tried) /\ Len(tried) \in Nat
  <2> HIDE DEF TrialRecord
  <2> QED OBVIOUS
<1> DEFINE l == Len(tried)
<1>2. IsFiniteSet(1 .. Len(tried)) /\ Cardinality(1 .. Len(tried)) = Len(tried)
  <2>1. l \in Nat BY <1>1
  <2> HIDE DEF l, S
  <2>2. IsFiniteSet(1 .. l) /\ Cardinality(1 .. l) = l BY <2>1, FS_Interval
  <2> QED BY <2>2 DEF l
<1>3. S \subseteq 1 .. Len(tried) BY <1>1
<1>4. Cardinality(S) <= Len(tried) /\ Cardinality(S) \in Nat BY <1>2, <1>3, FS_Subset, FS_CardinalityType
<1> QED BY <1>1, <1>4, ProbesAssumption

\* A step of a fallback.
LEMMA FallerMoves ==
  ASSUME ProbesInv, NEW f \in Faller, UNCHANGED <<probes, results>>, ProbesPlain',
         NEW place \in CallPlaces, stage' = [stage EXCEPT ![f] = place],
         DOMAIN trials' = Faller, \A g \in Faller \ {f} : trials'[g] = trials[g],
         \A g \in Faller \ {f} : unseen'[g] = unseen[g] /\ models'[g] = models[g],
         FallOK(trials'[f], place, unseen'[f], models'[f])
  PROVE  ProbesInv'
<1>1. ProbesPlain /\ ProbesKeep BY DEF ProbesInv
<1>2. Racer \subseteq Process /\ Faller \subseteq Process /\ f \notin Racer BY ProbesAssumption DEF Process
<1>3. stage'[f] = place /\ \A w \in Process \ {f} : stage'[w] = stage[w] BY <1>1, <1>2 DEF ProbesPlain
<1> QED BY <1>1, <1>2, <1>3, OneMoves DEF ProbesKeep

\* A fallback begins.
LEMMA FallStep == ASSUME ProbesInv, NEW f \in Process, Fall(f) PROVE ProbesInv'
<1>1. ProbesPlain /\ ProbesKeep BY DEF ProbesInv
<1>2. /\ f \in Faller /\ stage[f] = "idle" /\ stage' = [stage EXCEPT ![f] = "models"]
      /\ models' = [models EXCEPT ![f] = 1 + Spares]
      /\ UNCHANGED <<reading, pending, failures, unseen, probes, results, trials>>
  BY DEF Fall, Stage
<1>3. models' \in [Faller -> 0 .. Spares + 1] /\ models'[f] = 1 + Spares
      /\ \A g \in Faller \ {f} : models'[g] = models[g]
  <2>1. 1 + Spares \in 0 .. Spares + 1 BY ProbesAssumption
  <2> QED BY <1>1, <1>2, <2>1 DEF ProbesPlain
<1>4. stage' \in [Process -> CallPlaces] BY <1>1, <1>2 DEF ProbesPlain, CallPlaces
<1>5. ProbesPlain' BY <1>1, <1>2, <1>3, <1>4 DEF ProbesPlain
<1>6. FallOK(trials[f], "idle", unseen[f], models[f]) BY <1>1, <1>2 DEF ProbesKeep
<1>7. FallOK(trials'[f], "models", unseen'[f], models'[f]) BY <1>2, <1>3, <1>6 DEF FallOK
<1> QED BY <1>1, <1>2, <1>3, <1>5, <1>7, FallerMoves DEF ProbesKeep, CallPlaces

\* It tries the next model of the active provider.
LEMMA TryModelStep == ASSUME ProbesInv, NEW f \in Process, TryModel(f) PROVE ProbesInv'
<1>1. ProbesPlain /\ ProbesKeep BY DEF ProbesInv
<1>2. /\ f \in Faller /\ stage[f] = "models" /\ models[f] > 0
      /\ UNCHANGED <<reading, failures, unseen, probes, results>>
  BY DEF TryModel
<1>3. FallOK(trials[f], "models", unseen[f], models[f]) BY <1>1, <1>2 DEF ProbesKeep
<1>4. /\ trials[f] \in Seq(TrialRecord) /\ Primary \in Probed /\ models[f] \in 0 .. Spares + 1
      /\ \A n \in DOMAIN trials[f] : trials[f][n][2] = "hot" => n > Heated
  BY <1>1, <1>2, <1>3, ProbesAssumption DEF FallOK, ProbesPlain
<1>5. ASSUME NEW how \in {"failed", "hot"}, how = "hot" => Hot(f, Primary), Tried(f, Primary, how),
             NEW left \in {0, models[f] - 1}, models' = [models EXCEPT ![f] = left], UNCHANGED stage,
             \A w \in DOMAIN pending' : w \in Process /\ pending'[w] \in Probed \X BOOLEAN
      PROVE  ProbesInv'
  <2>1. how = "hot" => Len(trials[f]) >= Heated BY <1>4, <1>5, HotIsLate DEF Hot
  <2>2. /\ Append(trials[f], <<Primary, how>>) \in Seq(TrialRecord)
        /\ \A n \in DOMAIN Append(trials[f], <<Primary, how>>) :
             Append(trials[f], <<Primary, how>>)[n][2] = "hot" => n > Heated
        /\ Tries(Append(trials[f], <<Primary, how>>), Primary)
    BY <1>4, <1>5, <2>1, TrialFacts
  <2>3. /\ trials'[f] = Append(trials[f], <<Primary, how>>) /\ DOMAIN trials' = Faller
        /\ \A g \in Faller \ {f} : trials'[g] = trials[g]
    BY <1>1, <1>2, <1>5 DEF Tried, ProbesKeep
  <2>4. left \in 0 .. Spares + 1 BY <1>2, <1>4, <1>5, ProbesAssumption
  <2>5. models' \in [Faller -> 0 .. Spares + 1] /\ \A g \in Faller \ {f} : models'[g] = models[g]
    BY <1>1, <1>2, <1>5, <2>4 DEF ProbesPlain
  <2>6. ProbesPlain' BY <1>1, <1>2, <1>5, <2>5 DEF ProbesPlain
  <2>7. FallOK(trials'[f], "models", unseen'[f], models'[f]) BY <2>2, <2>3 DEF FallOK
  <2>8. stage' = [stage EXCEPT ![f] = "models"] BY <1>1, <1>2, <1>5 DEF ProbesPlain
  <2> QED BY <1>2, <2>3, <2>5, <2>6, <2>7, <2>8, FallerMoves DEF CallPlaces
<1>6. CASE Hot(f, Primary)
  <2>1. Tried(f, Primary, "hot") /\ models' = [models EXCEPT ![f] = models[f] - 1] /\ UNCHANGED <<pending, stage>>
    BY <1>6 DEF TryModel
  <2>2. \A w \in DOMAIN pending' : w \in Process /\ pending'[w] \in Probed \X BOOLEAN
    BY <1>1, <2>1 DEF ProbesPlain
  <2> QED BY <1>5, <1>6, <2>1, <2>2
<1>7. ASSUME ~Hot(f, Primary), Record(f, Primary, TRUE), Stage(f, "answered"), UNCHANGED <<models, trials>>
      PROVE  ProbesInv'
  <2>1. \A w \in DOMAIN pending' : w \in Process /\ pending'[w] \in Probed \X BOOLEAN
    BY <1>1, <1>4, <1>7, RecordFacts
  <2>2. stage' = [stage EXCEPT ![f] = "answered"] BY <1>7 DEF Stage
  <2>3. stage' \in [Process -> CallPlaces] BY <1>1, <2>2 DEF ProbesPlain, CallPlaces
  <2>4. ProbesPlain' BY <1>1, <1>2, <1>7, <2>1, <2>3 DEF ProbesPlain
  <2>5. FallOK(trials'[f], "answered", unseen'[f], models'[f]) BY <1>4, <1>7 DEF FallOK
  <2> QED BY <1>1, <1>2, <1>7, <2>2, <2>4, <2>5, FallerMoves DEF CallPlaces, ProbesKeep
<1>8. ASSUME ~Hot(f, Primary), Record(f, Primary, FALSE), Tried(f, Primary, "failed"), NEW again \in BOOLEAN,
             models' = [models EXCEPT ![f] = IF again THEN models[f] - 1 ELSE 0], UNCHANGED stage
      PROVE  ProbesInv'
  <2>1. \A w \in DOMAIN pending' : w \in Process /\ pending'[w] \in Probed \X BOOLEAN
    BY <1>1, <1>4, <1>8, RecordFacts
  <2> QED BY <1>5, <1>8, <2>1
<1> QED BY <1>6, <1>7, <1>8 DEF TryModel

\* It turns to the other providers.
LEMMA TurnStep == ASSUME ProbesInv, NEW f \in Process, TurnToOthers(f) PROVE ProbesInv'
<1>1. ProbesPlain /\ ProbesKeep BY DEF ProbesInv
<1>2. /\ f \in Faller /\ stage[f] = "models" /\ models[f] = 0 /\ stage' = [stage EXCEPT ![f] = "others"]
      /\ unseen' = [unseen EXCEPT ![f] = Probed \ {Primary}]
      /\ UNCHANGED <<reading, pending, failures, models, probes, results, trials>>
  BY DEF TurnToOthers, Stage
<1>3. FallOK(trials[f], "models", unseen[f], 0) BY <1>1, <1>2 DEF ProbesKeep
<1>4. 0 # 1 + Spares BY ProbesAssumption
<1>5. Tries(trials[f], Primary) BY <1>3, <1>4 DEF FallOK
<1>6. /\ unseen' \in [Process -> SUBSET Probed] /\ unseen'[f] = Probed \ {Primary}
      /\ \A g \in Process \ {f} : unseen'[g] = unseen[g]
  BY <1>1, <1>2 DEF ProbesPlain
<1>7. stage' \in [Process -> CallPlaces] BY <1>1, <1>2 DEF ProbesPlain, CallPlaces
<1>8. ProbesPlain' BY <1>1, <1>2, <1>6, <1>7 DEF ProbesPlain
<1>9. FallOK(trials'[f], "others", unseen'[f], models'[f]) BY <1>2, <1>3, <1>5, <1>6 DEF FallOK
<1> QED BY <1>1, <1>2, <1>6, <1>8, <1>9, FallerMoves DEF ProbesKeep, CallPlaces, Process

\* It tries one of them.
LEMMA TryOtherStep ==
  ASSUME ProbesInv, NEW f \in Process, NEW q \in Probed, TryOther(f, q)
  PROVE  ProbesInv'
<1>1. ProbesPlain /\ ProbesKeep BY DEF ProbesInv
<1>2. /\ f \in Faller /\ stage[f] = "others" /\ unseen' = [unseen EXCEPT ![f] = unseen[f] \ {q}]
      /\ UNCHANGED <<reading, failures, models, probes, results>>
  BY DEF TryOther
<1>3. FallOK(trials[f], "others", unseen[f], models[f]) BY <1>1, <1>2 DEF ProbesKeep
<1>4. /\ trials[f] \in Seq(TrialRecord) /\ \A p \in Probed \ unseen[f] : Tries(trials[f], p)
      /\ \A n \in DOMAIN trials[f] : trials[f][n][2] = "hot" => n > Heated
  BY <1>3 DEF FallOK
<1>5. /\ unseen' \in [Process -> SUBSET Probed] /\ unseen'[f] = unseen[f] \ {q}
      /\ \A g \in Process \ {f} : unseen'[g] = unseen[g]
  BY <1>1, <1>2 DEF ProbesPlain
<1>6. ASSUME NEW how \in {"failed", "skipped"}, Tried(f, q, how), UNCHANGED stage,
             \A w \in DOMAIN pending' : w \in Process /\ pending'[w] \in Probed \X BOOLEAN
      PROVE  ProbesInv'
  <2>1. /\ Append(trials[f], <<q, how>>) \in Seq(TrialRecord)
        /\ \A n \in DOMAIN Append(trials[f], <<q, how>>) :
             Append(trials[f], <<q, how>>)[n][2] = "hot" => n > Heated
        /\ Tries(Append(trials[f], <<q, how>>), q)
        /\ \A p : Tries(trials[f], p) => Tries(Append(trials[f], <<q, how>>), p)
    BY <1>4, <1>6, TrialFacts
  <2>2. /\ trials'[f] = Append(trials[f], <<q, how>>) /\ DOMAIN trials' = Faller
        /\ \A g \in Faller \ {f} : trials'[g] = trials[g]
    BY <1>1, <1>2, <1>6 DEF Tried, ProbesKeep
  <2>3. ProbesPlain' BY <1>1, <1>2, <1>5, <1>6 DEF ProbesPlain
  <2>4. \A p \in Probed \ unseen'[f] : Tries(trials'[f], p) BY <1>4, <1>5, <2>1, <2>2
  <2>5. FallOK(trials'[f], "others", unseen'[f], models'[f]) BY <2>1, <2>2, <2>4 DEF FallOK
  <2>6. stage' = [stage EXCEPT ![f] = "others"] BY <1>1, <1>2, <1>6 DEF ProbesPlain
  <2> QED BY <1>2, <1>5, <2>2, <2>3, <2>5, <2>6, FallerMoves DEF CallPlaces, Process
<1>7. CASE ~Healthy(q)
  <2>1. Tried(f, q, "skipped") /\ UNCHANGED <<pending, stage>> BY <1>7 DEF TryOther
  <2>2. \A w \in DOMAIN pending' : w \in Process /\ pending'[w] \in Probed \X BOOLEAN
    BY <1>1, <2>1 DEF ProbesPlain
  <2> QED BY <1>6, <2>1, <2>2
<1>8. ASSUME Record(f, q, TRUE), Stage(f, "answered"), UNCHANGED trials PROVE ProbesInv'
  <2>1. \A w \in DOMAIN pending' : w \in Process /\ pending'[w] \in Probed \X BOOLEAN
    BY <1>1, <1>8, RecordFacts
  <2>2. stage' = [stage EXCEPT ![f] = "answered"] BY <1>8 DEF Stage
  <2>3. stage' \in [Process -> CallPlaces] BY <1>1, <2>2 DEF ProbesPlain, CallPlaces
  <2>4. ProbesPlain' BY <1>1, <1>2, <1>5, <2>1, <2>3 DEF ProbesPlain
  <2>5. FallOK(trials'[f], "answered", unseen'[f], models'[f]) BY <1>4, <1>8 DEF FallOK
  <2> QED BY <1>1, <1>2, <1>5, <1>8, <2>2, <2>4, <2>5, FallerMoves DEF CallPlaces, ProbesKeep, Process
<1>9. ASSUME Record(f, q, FALSE), Tried(f, q, "failed"), UNCHANGED stage PROVE ProbesInv'
  <2>1. \A w \in DOMAIN pending' : w \in Process /\ pending'[w] \in Probed \X BOOLEAN
    BY <1>1, <1>9, RecordFacts
  <2> QED BY <1>6, <1>9, <2>1
<1> QED BY <1>7, <1>8, <1>9 DEF TryOther

\* It has tried all.
LEMMA GiveUpStep == ASSUME ProbesInv, NEW f \in Process, GiveUp(f) PROVE ProbesInv'
<1>1. ProbesPlain /\ ProbesKeep BY DEF ProbesInv
<1>2. /\ f \in Faller /\ stage[f] = "others" /\ unseen[f] = {} /\ stage' = [stage EXCEPT ![f] = "failed"]
      /\ UNCHANGED <<reading, pending, failures, unseen, models, probes, results, trials>>
  BY DEF GiveUp, Stage
<1>3. FallOK(trials[f], "others", {}, models[f]) BY <1>1, <1>2 DEF ProbesKeep
<1>4. stage' \in [Process -> CallPlaces] BY <1>1, <1>2 DEF ProbesPlain, CallPlaces
<1>5. ProbesPlain' BY <1>1, <1>2, <1>4 DEF ProbesPlain
<1>6. FallOK(trials'[f], "failed", unseen'[f], models'[f]) BY <1>2, <1>3 DEF FallOK
<1> QED BY <1>1, <1>2, <1>5, <1>6, FallerMoves DEF CallPlaces, ProbesKeep

\* Every step of the calls keeps the invariant.
LEMMA ProbesSteps == ProbesInv /\ [ProbesNext]_pbvars => ProbesInv'
<1> SUFFICES ASSUME ProbesInv, [ProbesNext]_pbvars PROVE ProbesInv'
  OBVIOUS
<1>1. CASE UNCHANGED pbvars
  <2>1. ProbesPlain' BY <1>1 DEF ProbesInv, ProbesPlain, pbvars
  <2> QED BY <1>1, <2>1, QuietCall DEF pbvars
<1>2. ASSUME NEW p \in Process, CallStep(p) PROVE ProbesInv'
  BY <1>2, WriteFailuresStep, AskHealthStep, ReportHealthStep, LaunchStep, CollectsStep, TryModelStep,
     TurnStep, TryOtherStep, GiveUpStep DEF CallStep
<1> QED BY <1>1, <1>2, ListStep, FallStep, ProbeEndsStep DEF ProbesNext

\* It holds before the first call.
LEMMA ProbesStarts == ProbesInit => ProbesInv
<1> SUFFICES ASSUME ProbesInit PROVE ProbesInv
  OBVIOUS
<1>1. failures \in [Probed -> 0 .. Tolerated + 1]
  <2>1. {0, Tolerated + 1} \subseteq 0 .. Tolerated + 1 BY ProbesAssumption
  <2>2. failures \in [Probed -> {0, Tolerated + 1}] BY DEF ProbesInit
  <2> QED BY <2>1, <2>2
<1>2. models \in [Faller -> 0 .. Spares + 1]
  <2>1. 0 \in 0 .. Spares + 1 BY ProbesAssumption
  <2> QED BY <2>1 DEF ProbesInit
<1>3. reading \in [Process -> 0 .. 1] BY DEF ProbesInit
<1>4. DOMAIN pending = {} BY DEF ProbesInit
<1>5. ProbesPlain BY <1>1, <1>2, <1>3, <1>4 DEF ProbesInit, ProbesPlain, CallPlaces
<1>6. DOMAIN probes = Racer /\ DOMAIN results = Racer /\ DOMAIN trials = Faller BY DEF ProbesInit
<1>7. ASSUME NEW r \in Racer PROVE RaceOK(probes[r], results[r], stage[r])
  <2>1. probes[r] = <<>> /\ results[r] = <<>> /\ stage[r] = "idle" BY DEF ProbesInit, Process
  <2>2. DOMAIN probes[r] = {} /\ Ends(probes[r]) = {} BY <2>1 DEF Ends
  <2>3. probes[r] \in [{} -> Verdict] BY <2>1
  <2>4. probes[r] \in UNION {[s -> Verdict] : s \in SUBSET Probed} BY <2>3
  <2>5. results[r] \in Seq(Probed \X BOOLEAN) /\ Len(results[r]) = 0 BY <2>1
  <2>6. Cardinality(Ends(probes[r])) = 0 BY <2>2, FS_EmptySet
  <2>7. Len(results[r]) <= Cardinality(Ends(probes[r])) BY <2>5, <2>6
  <2> QED BY <2>1, <2>2, <2>4, <2>5, <2>7 DEF RaceOK
<1>8. ASSUME NEW f \in Faller PROVE FallOK(trials[f], stage[f], unseen[f], models[f])
  <2>1. trials[f] = <<>> /\ stage[f] = "idle" BY DEF ProbesInit, Process
  <2>2. trials[f] \in Seq(TrialRecord) /\ DOMAIN trials[f] = {} BY <2>1
  <2> QED BY <2>1, <2>2 DEF FallOK
<1> QED BY <1>5, <1>6, <1>7, <1>8 DEF ProbesInv, ProbesKeep

\* The invariant gives the types,
LEMMA ProbesTypes == ProbesInv => ProbesTypeOK
<1> SUFFICES ASSUME ProbesInv PROVE ProbesTypeOK
  OBVIOUS
<1>1. ASSUME NEW r \in Racer
      PROVE  /\ probes[r] \in UNION {[s -> {"asked", "good", "bad"}] : s \in SUBSET Probed}
             /\ results[r] \in Seq(Probed \X BOOLEAN)
  BY DEF ProbesInv, ProbesKeep, RaceOK, Verdict
<1>2. ASSUME NEW f \in Faller, NEW n \in DOMAIN trials[f]
      PROVE  trials[f][n] \in Probed \X {"failed", "skipped", "hot"}
  <2>1. trials[f] \in Seq(TrialRecord) BY DEF ProbesInv, ProbesKeep, FallOK
  <2>2. trials[f][n] \in TrialRecord
    <3> HIDE DEF TrialRecord
    <3> QED BY <1>2, <2>1
  <2> QED BY <2>2 DEF TrialRecord
<1> QED BY <1>1, <1>2 DEF ProbesInv, ProbesPlain, ProbesTypeOK, CallPlaces

\* and says that who loses has asked all.
LEMMA ProbesLosers == ProbesInv => LosersAskedAll
<1> SUFFICES ASSUME ProbesInv PROVE LosersAskedAll
  OBVIOUS
<1>1. \A r \in Racer : stage[r] = "failed" => \A q \in DOMAIN probes[r] : probes[r][q] = "bad"
  BY DEF ProbesInv, ProbesKeep, RaceOK
<1>2. ASSUME NEW f \in Faller, stage[f] = "failed"
      PROVE  /\ Probed = {trials[f][n][1] : n \in DOMAIN trials[f]}
             /\ \A n \in DOMAIN trials[f] : trials[f][n][2] = "hot" => n > Heated
  <2>1. /\ \A q \in Probed : Tries(trials[f], q) /\ trials[f] \in Seq(TrialRecord)
        /\ \A n \in DOMAIN trials[f] : trials[f][n][2] = "hot" => n > Heated
    BY <1>2 DEF ProbesInv, ProbesKeep, FallOK
  <2>2. \A n \in DOMAIN trials[f] : trials[f][n][1] \in Probed
    BY <1>2, ProbesTypes DEF ProbesTypeOK
  <2> QED BY <2>1, <2>2 DEF Tries
<1> QED BY <1>1, <1>2 DEF LosersAskedAll

-----------------------------------------------------------------------------
(* Configuration *)

\* The providers that have a key.
Keys == {Legacy[i] : i \in Ranks}

\* What a file may hold.
FileOK(part) == DOMAIN part \subseteq DOMAIN Defaults /\ Overlay(Defaults, part) \in Settings

\* The types of the configuration, and a watched file is there.
ConfigPlain ==
  /\ env \in Environments /\ origin \in {"nobody", "user", "program", "wizard"}
  /\ program \in {"off", "running", "failed"} /\ config \in Settings /\ latest \in Settings
  /\ watch \in {"off", "idle", "event", "blind"} /\ edits \in 0 .. MaxEdits
  /\ file # Absent => FileOK(file)
  /\ rewriting # Absent => rewriting \in UserFiles
  /\ watch # "off" => file # Absent

\* What the program wrote itself is what its environment said.
OwnFile ==
  origin = "program" => /\ rewriting = Absent
                        /\ \E e \in Environments : Asks(e) /\ file = Generated(e)
                        /\ program = "running" => config = FromFile(file, env)

\* The configuration's invariant.
ConfigInv == ConfigPlain /\ RunningIsSound /\ OwnFile /\ DeliveredIsValid

\* The providers in their order.
LEMMA LegacyFacts ==
  /\ Ranks = 1 .. 7
  /\ Legacy[1] = "openai" /\ Legacy[2] = "anthropic" /\ Legacy[3] = "ollama" /\ Legacy[4] = "gemini"
  /\ Legacy[5] = "groq" /\ Legacy[6] = "zhipu" /\ Legacy[7] = "vllm"
  /\ InEnv \subseteq Keys
BY DEF Legacy, Ranks, InEnv, Keys

\* An environment has keys there are, and of other settings some.
LEMMA EnvFacts ==
  ASSUME NEW e \in Environments
  PROVE  /\ e.keys \subseteq Keys /\ DOMAIN e.set \subseteq {"host", "level", "cipher"}
         /\ \A f \in DOMAIN e.set : e.set[f] \in BOOLEAN /\ (f = "host" => e.set[f])
<1>1. e.keys \subseteq InEnv BY FilesAssumption
<1> HIDE DEF Keys
<1> QED BY <1>1, LegacyFacts, FilesAssumption

\* Settings, field by field.
LEMMA SettingsFields ==
  ASSUME NEW cfg
  PROVE  cfg \in Settings <=>
    /\ cfg = [keys |-> cfg.keys, host |-> cfg.host, list |-> cfg.list, version |-> cfg.version,
              level |-> cfg.level, port |-> cfg.port, interval |-> cfg.interval, cipher |-> cfg.cipher]
    /\ cfg.keys \subseteq Keys /\ cfg.host \in BOOLEAN
    /\ cfg.list \subseteq {"openai", "listed", "keyless", "nameless"} /\ cfg.version \in {0, 3}
    /\ cfg.level \in BOOLEAN /\ cfg.port \in BOOLEAN /\ cfg.interval \in BOOLEAN /\ cfg.cipher \in BOOLEAN
<1> HIDE DEF Keys
<1> QED BY DEF Settings, Keys

\* The defaults, and no settings, are settings.
LEMMA DefaultsType == Defaults \in Settings /\ NoConfig \in Settings
BY DEF Defaults, NoConfig, Settings

\* The environment adds keys, and sets what it has of the rest.
LEMMA ApplyType ==
  ASSUME NEW cfg \in Settings, NEW e \in Environments
  PROVE  /\ applyEnv(cfg, e) \in Settings /\ applyEnv(cfg, e).keys = cfg.keys \cup e.keys
         /\ \A f \in DOMAIN cfg \ {"keys"} :
              applyEnv(cfg, e)[f] = IF f \in DOMAIN e.set THEN e.set[f] ELSE cfg[f]
<1> DEFINE laid == Overlay(cfg, e.set)
<1>1. /\ e.keys \subseteq Keys /\ DOMAIN e.set \subseteq {"host", "level", "cipher"}
      /\ \A f \in DOMAIN e.set : e.set[f] \in BOOLEAN
  BY EnvFacts
<1>2. /\ DOMAIN cfg = {"keys", "host", "list", "version", "level", "port", "interval", "cipher"}
      /\ cfg.keys \subseteq Keys /\ cfg.list \subseteq {"openai", "listed", "keyless", "nameless"}
      /\ cfg.version \in {0, 3}
      /\ \A f \in {"host", "level", "port", "interval", "cipher"} : cfg[f] \in BOOLEAN
  BY DEF Settings, Keys
<1> HIDE DEF Keys
<1>3. laid = [f \in DOMAIN cfg |-> IF f \in DOMAIN e.set THEN e.set[f] ELSE cfg[f]] BY DEF Overlay
<1> HIDE DEF laid
<1>4. /\ DOMAIN laid = DOMAIN cfg /\ laid.keys = cfg.keys /\ laid.list = cfg.list
      /\ laid.version = cfg.version
      /\ \A f \in DOMAIN cfg : laid[f] = IF f \in DOMAIN e.set THEN e.set[f] ELSE cfg[f]
  BY <1>1, <1>2, <1>3
<1>5. \A f \in {"host", "level", "port", "interval", "cipher"} : laid[f] \in BOOLEAN
  BY <1>1, <1>2, <1>4
<1> DEFINE new == [laid EXCEPT !.keys = @ \cup e.keys]
<1>6. /\ new = [f \in DOMAIN cfg |-> new[f]] /\ new.keys = cfg.keys \cup e.keys
      /\ \A f \in DOMAIN cfg \ {"keys"} : new[f] = laid[f]
  BY <1>2, <1>3, <1>4
<1>7. applyEnv(cfg, e) = new BY DEF applyEnv, laid
<1> HIDE DEF new
<1>8. new.keys \subseteq Keys BY <1>1, <1>2, <1>6
<1>9. /\ new.list = cfg.list /\ new.version = cfg.version /\ new.host \in BOOLEAN
      /\ new.level \in BOOLEAN /\ new.port \in BOOLEAN /\ new.interval \in BOOLEAN
      /\ new.cipher \in BOOLEAN
  BY <1>2, <1>4, <1>5, <1>6
<1>10. new \in Settings BY <1>2, <1>6, <1>8, <1>9 DEF Settings, Keys
<1> QED BY <1>4, <1>6, <1>7, <1>10

\* A migrated configuration is one.
LEMMA MigrateType == ASSUME NEW cfg \in Settings PROVE migrate(cfg) \in Settings
BY DEF migrate, Settings

\* What is settled is valid.
LEMMA SettledFacts ==
  ASSUME NEW cfg \in Settings
  PROVE  Settled(cfg) \in Settings /\ (Settled(cfg) = NoConfig \/ validate(Settled(cfg)))
BY DefaultsType DEF Settled

\* What a file may hold is not the lack of one.
LEMMA FileThere == ASSUME NEW part, FileOK(part) PROVE part # Absent
<1>1. "absent" \in DOMAIN Absent /\ "absent" \notin DOMAIN Defaults BY DEF Absent, Defaults
<1> QED BY <1>1 DEF FileOK

\* What is loaded from a file is valid.
LEMMA FromFileFacts ==
  ASSUME NEW part, FileOK(part), NEW e \in Environments
  PROVE  FromFile(part, e) \in Settings /\ (FromFile(part, e) = NoConfig \/ validate(FromFile(part, e)))
<1> DEFINE cfg == applyEnv(Overlay(Defaults, part), e)
<1>1. cfg \in Settings BY ApplyType DEF FileOK
<1>2. FromFile(part, e) = IF cfg.cipher THEN Settled(migrate(cfg)) ELSE NoConfig BY DEF FromFile
<1> HIDE DEF cfg
<1>3. migrate(cfg) \in Settings BY <1>1, MigrateType
<1> QED BY <1>2, <1>3, SettledFacts, DefaultsType

\* The whole of the settings over the defaults are the settings.
LEMMA WholeOverlay == ASSUME NEW cfg \in Settings PROVE Overlay(Defaults, cfg) = cfg
<1>1. DOMAIN cfg = DOMAIN Defaults /\ cfg = [f \in DOMAIN cfg |-> cfg[f]] BY DEF Settings, Defaults
<1>2. Overlay(Defaults, cfg) = [f \in DOMAIN cfg |-> cfg[f]] BY <1>1 DEF Overlay
<1> QED BY <1>1, <1>2

\* What a program writes is a file.
LEMMA GeneratedFacts ==
  ASSUME NEW e \in Environments
  PROVE  Generated(e) \in Settings /\ FileOK(Generated(e)) /\ Generated(e) # Absent
<1>1. Generated(e) \in Settings BY DefaultsType, ApplyType DEF Generated
<1>2. DOMAIN Generated(e) = DOMAIN Defaults BY <1>1, DefaultsType DEF Settings
<1>3. "keys" \in DOMAIN Generated(e) /\ "keys" \notin DOMAIN Absent BY <1>2 DEF Defaults, Absent
<1> QED BY <1>1, <1>2, <1>3, WholeOverlay DEF FileOK

\* Without a model list each provider that the program calls available can be built.
LEMMA AvailableAreBuilt ==
  ASSUME NEW cfg \in Settings, cfg.list = {}
  PROVE  AvailableProviders(cfg) \subseteq Providers(cfg)
<1> DEFINE Candidates == {i \in ConvertLegacyToModelList(cfg) : Buildable(Legacy[i])}
           Best == {i \in Candidates : \A j \in Candidates : ModelName(Legacy[j]) = ModelName(Legacy[i]) => i <= j}
<1>1. Providers(cfg) = {Legacy[i] : i \in Best} BY DEF Providers
<1>2. Candidates \subseteq 1 .. 7 BY LegacyFacts DEF ConvertLegacyToModelList
<1>3. \A j \in 1 .. 7 : j \in {1, 2, 3, 4, 5, 6, 7} OBVIOUS
<1>4. \A i \in 1 .. 4 : \A j \in 1 .. 7 : ModelName(Legacy[j]) = ModelName(Legacy[i]) => j = i
  <2>1. \A i \in 1 .. 4 : i \in {1, 2, 3, 4} OBVIOUS
  <2> QED BY <1>3, <2>1, LegacyFacts DEF ModelName
<1>5. Candidates \cap 1 .. 4 \subseteq Best
  <2>1. \A i \in 1 .. 4 : i <= i OBVIOUS
  <2> QED BY <1>2, <1>4, <2>1
<1>6. \A i \in 1 .. 4 : i \in ConvertLegacyToModelList(cfg) => i \in Candidates
  <2>1. \A i \in 1 .. 4 : i \in {1, 2, 3, 4} OBVIOUS
  <2> QED BY <2>1, LegacyFacts DEF Buildable
<1> HIDE DEF Candidates, Best
<1>7. \A i \in 1 .. 4 : i \in ConvertLegacyToModelList(cfg) => Legacy[i] \in Providers(cfg)
  BY <1>1, <1>5, <1>6
<1>8. AvailableProviders(cfg) =
        (cfg.keys \cap {"openai", "anthropic", "gemini"}) \cup (IF cfg.host THEN {"ollama"} ELSE {})
  BY DEF AvailableProviders
<1>9. ASSUME NEW p \in AvailableProviders(cfg) PROVE p \in Providers(cfg)
  <2>1. CASE p = "openai"
    <3>1. 1 \in ConvertLegacyToModelList(cfg) BY <1>8, <1>9, <2>1, LegacyFacts DEF ConvertLegacyToModelList
    <3> QED BY <1>7, <2>1, <3>1, LegacyFacts
  <2>2. CASE p = "anthropic"
    <3>1. 2 \in ConvertLegacyToModelList(cfg) BY <1>8, <1>9, <2>2, LegacyFacts DEF ConvertLegacyToModelList
    <3> QED BY <1>7, <2>2, <3>1, LegacyFacts
  <2>3. CASE p = "gemini"
    <3>1. 4 \in ConvertLegacyToModelList(cfg) BY <1>8, <1>9, <2>3, LegacyFacts DEF ConvertLegacyToModelList
    <3> QED BY <1>7, <2>3, <3>1, LegacyFacts
  <2>4. CASE p = "ollama"
    <3>1. 3 \in ConvertLegacyToModelList(cfg) 
      <4>1. cfg.host \/ "ollama" \in cfg.keys BY <1>8, <1>9, <2>4
      <4> QED BY <4>1, LegacyFacts DEF ConvertLegacyToModelList
    <3> QED BY <1>7, <2>4, <3>1, LegacyFacts
  <2> QED BY <1>8, <1>9, <2>1, <2>2, <2>3, <2>4
<1> QED BY <1>9

\* What a program has written starts it, unless the level or the cipher's key is bad.
LEMMA OwnFileStarts ==
  ASSUME NEW e \in Environments, NEW d \in Environments
  PROVE  LET cfg == FromFile(Generated(e), d)
             laid == Overlay(Generated(e), d.set)
         IN  (cfg # NoConfig /\ Providers(cfg) # {}) <=> (laid.level /\ laid.cipher)
<1> DEFINE gen == Generated(e)
           laid == Overlay(gen, d.set)
           cfg == applyEnv(gen, d)
           mig == migrate(cfg)
           new == FromFile(gen, d)
<1>1. gen \in Settings BY GeneratedFacts
<1>2. DOMAIN gen = {"keys", "host", "list", "version", "level", "port", "interval", "cipher"}
  BY <1>1 DEF Settings
<1>3. /\ gen.host /\ gen.list = {} /\ gen.version = 0 /\ gen.port /\ gen.interval
  <2>1. gen = applyEnv(Defaults, e) BY DEF Generated
  <2>2. /\ DOMAIN Defaults = {"keys", "host", "list", "version", "level", "port", "interval", "cipher"}
        /\ Defaults.host /\ Defaults.list = {} /\ Defaults.version = 0
        /\ Defaults.port /\ Defaults.interval
    BY DEF Defaults
  <2> HIDE DEF gen
  <2>3. \A f \in DOMAIN Defaults \ {"keys"} :
          gen[f] = IF f \in DOMAIN e.set THEN e.set[f] ELSE Defaults[f]
    BY <2>1, DefaultsType, ApplyType
  <2>4. /\ DOMAIN e.set \subseteq {"host", "level", "cipher"}
        /\ "host" \in DOMAIN e.set => e.set["host"]
    BY EnvFacts
  <2>5. gen["host"] BY <2>2, <2>3, <2>4
  <2>6. \A f \in {"list", "version", "port", "interval"} : gen[f] = Defaults[f] BY <2>2, <2>3, <2>4
  <2> QED BY <2>2, <2>5, <2>6
<1>4. Overlay(Defaults, gen) = gen BY <1>1, WholeOverlay
<1>5. new = IF cfg.cipher THEN Settled(mig) ELSE NoConfig BY <1>4 DEF FromFile
<1>6. cfg \in Settings BY <1>1, ApplyType
<1>7. /\ cfg.host /\ cfg.list = {} /\ cfg.version = 0 /\ cfg.port /\ cfg.interval
      /\ cfg.level = laid.level /\ cfg.cipher = laid.cipher
  <2>1. \A f \in DOMAIN gen \ {"keys"} : cfg[f] = IF f \in DOMAIN d.set THEN d.set[f] ELSE gen[f]
    BY <1>1, ApplyType
  <2>2. /\ DOMAIN d.set \subseteq {"host", "level", "cipher"}
        /\ "host" \in DOMAIN d.set => d.set["host"]
    BY EnvFacts
  <2>3. \A f \in DOMAIN gen : laid[f] = IF f \in DOMAIN d.set THEN d.set[f] ELSE gen[f] BY DEF Overlay
  <2> HIDE DEF gen, laid, cfg
  <2>4. cfg["host"] BY <1>2, <1>3, <2>1, <2>2
  <2>5. \A f \in {"list", "version", "port", "interval"} : cfg[f] = gen[f] BY <1>2, <2>1, <2>2
  <2>6. cfg["level"] = laid["level"] /\ cfg["cipher"] = laid["cipher"] BY <1>2, <2>1, <2>3
  <2> QED BY <1>3, <2>4, <2>5, <2>6
<1> HIDE DEF gen, laid, cfg
<1>8. /\ mig \in Settings /\ mig.host /\ mig.port /\ mig.interval /\ mig.level = cfg.level
      /\ mig.list \in {{}, {"openai"}}
  <2>1. mig = cfg \/ mig = [cfg EXCEPT !.list = {"openai"}, !.version = 3] BY DEF migrate
  <2>2. mig \in Settings BY <1>6, MigrateType
  <2> HIDE DEF mig
  <2>3. CASE mig = cfg BY <1>7, <2>2, <2>3
  <2>4. CASE mig = [cfg EXCEPT !.list = {"openai"}, !.version = 3]
    <3>1. DOMAIN cfg = {"keys", "host", "list", "version", "level", "port", "interval", "cipher"}
      BY <1>6 DEF Settings
    <3>2. /\ mig.list = {"openai"} /\ mig.host = cfg.host /\ mig.port = cfg.port
          /\ mig.interval = cfg.interval /\ mig.level = cfg.level
      BY <2>4, <3>1
    <3> QED BY <1>7, <2>2, <3>2
  <2> QED BY <2>1, <2>3, <2>4
<1> HIDE DEF mig, new
<1>9. CASE ~cfg.cipher BY <1>5, <1>7, <1>9 DEF new, gen, laid
<1>10. CASE cfg.cipher /\ ~mig.level
  <2>1. new = NoConfig BY <1>5, <1>10 DEF Settled, validate
  <2> QED BY <1>7, <1>8, <1>10, <2>1 DEF new, gen, laid
<1>11. CASE cfg.cipher /\ mig.level
  <2>1. validate(mig) BY <1>8, <1>11 DEF validate
  <2>2. new = mig /\ mig # NoConfig BY <1>5, <1>8, <1>11, <2>1 DEF Settled, NoConfig
  <2>3. CASE mig.list = {"openai"}
    <3>1. "openai" \in Providers(mig) BY <2>3 DEF Providers, Buildable
    <3> QED BY <1>7, <1>8, <1>11, <2>2, <3>1 DEF new, gen, laid
  <2>4. CASE mig.list = {}
    <3>1. "ollama" \in AvailableProviders(mig) BY <1>8 DEF AvailableProviders
    <3>2. "ollama" \in Providers(mig) BY <1>8, <2>4, <3>1, AvailableAreBuilt
    <3> QED BY <1>7, <1>8, <1>11, <2>2, <3>2 DEF new, gen, laid
  <2> QED BY <1>8, <2>3, <2>4
<1> QED BY <1>6, <1>9, <1>10, <1>11 DEF Settings

\* A file cut short is the defaults, and what the wizard writes has values such as they have.
LEMMA EmptyFile == FileOK([f \in {} |-> FALSE])
<1>1. Overlay(Defaults, [f \in {} |-> FALSE]) = Defaults BY DEF Overlay, Defaults
<1> QED BY <1>1, DefaultsType DEF FileOK

\* So is what the wizard writes.
LEMMA WizardFile ==
  ASSUME NEW keys \in SUBSET {"openai", "anthropic", "gemini"}
  PROVE  FileOK([keys |-> keys, host |-> FALSE, list |-> {}, level |-> TRUE, port |-> FALSE,
                 interval |-> FALSE, cipher |-> TRUE])
<1> DEFINE part == [keys |-> keys, host |-> FALSE, list |-> {}, level |-> TRUE, port |-> FALSE,
                    interval |-> FALSE, cipher |-> TRUE]
<1> DEFINE all == Overlay(Defaults, part)
<1>1. /\ DOMAIN part = {"keys", "host", "list", "level", "port", "interval", "cipher"}
      /\ part.keys = keys /\ part.list = {}
      /\ \A f \in {"host", "level", "port", "interval", "cipher"} : part[f] \in BOOLEAN
  OBVIOUS
<1>2. /\ DOMAIN Defaults = {"keys", "host", "list", "version", "level", "port", "interval", "cipher"}
      /\ Defaults.version = 0
  BY DEF Defaults
<1> HIDE DEF part
<1>3. all = [f \in DOMAIN Defaults |-> IF f \in DOMAIN part THEN part[f] ELSE Defaults[f]] BY DEF Overlay
<1> HIDE DEF all
<1>5. /\ all = [f \in DOMAIN Defaults |-> all[f]] /\ all.keys = keys /\ all.list = {} /\ all.version = 0
      /\ \A f \in {"host", "level", "port", "interval", "cipher"} : all[f] \in BOOLEAN
  BY <1>1, <1>2, <1>3
<1>6. keys \subseteq Keys
  <2>1. 1 \in Ranks /\ 2 \in Ranks /\ 4 \in Ranks BY LegacyFacts
  <2> QED BY <2>1, LegacyFacts DEF Keys
<1>7. all \in Settings
  <2>1. /\ all.host \in BOOLEAN /\ all.level \in BOOLEAN /\ all.port \in BOOLEAN
        /\ all.interval \in BOOLEAN /\ all.cipher \in BOOLEAN
    BY <1>5
  <2> HIDE DEF Keys
  <2> QED BY <1>2, <1>5, <1>6, <2>1 DEF Settings, Keys
<1> QED BY <1>1, <1>2, <1>7 DEF FileOK, all, part

\* What a start loads, from whatever it finds.
LEMMA LoadsFacts ==
  ASSUME ConfigPlain, NEW writable \in BOOLEAN
  PROVE  Loads(file, env, writable) \in Settings
         /\ (Loads(file, env, writable) = NoConfig \/ validate(Loads(file, env, writable)))
<1>1. CASE file # Absent BY <1>1, FromFileFacts DEF ConfigPlain, Loads
<1>2. CASE file = Absent /\ Asks(env) /\ writable
  BY <1>2, FromFileFacts, GeneratedFacts DEF ConfigPlain, Loads
<1>3. CASE file = Absent /\ ~(Asks(env) /\ writable)
  BY <1>3, SettledFacts, ApplyType, DefaultsType DEF ConfigPlain, Loads
<1> QED BY <1>1, <1>2, <1>3

\* Every step keeps the invariant.
LEMMA ConfigSteps == ConfigInv /\ [ConfigNext]_fvars => ConfigInv'
<1> SUFFICES ASSUME ConfigInv, [ConfigNext]_fvars PROVE ConfigInv'
  OBVIOUS
<1>1. ConfigPlain /\ RunningIsSound /\ OwnFile /\ DeliveredIsValid BY DEF ConfigInv
<1>2. Editing => edits' \in 0 .. MaxEdits BY <1>1, FilesAssumption DEF Editing, ConfigPlain
<1>3. ASSUME NEW keys \in SUBSET {"openai", "anthropic", "gemini"}, Onboard(keys) PROVE ConfigInv'
  <2>1. FileOK(file') BY <1>3, WizardFile DEF Onboard
  <2>2. ConfigPlain' BY <1>1, <1>2, <1>3, <2>1, FileThere DEF Onboard, ConfigPlain, FileOK
  <2>3. RunningIsSound' BY <1>3 DEF Onboard, RunningIsSound
  <2>4. OwnFile' BY <1>3 DEF Onboard, OwnFile
  <2>5. DeliveredIsValid' BY <1>1, <1>3 DEF Onboard, DeliveredIsValid, validate
  <2> QED BY <2>2, <2>3, <2>4, <2>5 DEF ConfigInv
<1>4. ASSUME NEW e \in Environments, ChangeEnv(e) PROVE ConfigInv'
  <2>1. ConfigPlain' BY <1>1, <1>2, <1>4 DEF ChangeEnv, ConfigPlain, FileOK
  <2>2. RunningIsSound' BY <1>4 DEF ChangeEnv, RunningIsSound
  <2>3. OwnFile' BY <1>1, <1>4 DEF ChangeEnv, OwnFile
  <2>4. DeliveredIsValid' BY <1>1, <1>4 DEF ChangeEnv, DeliveredIsValid, validate
  <2> QED BY <2>1, <2>2, <2>3, <2>4 DEF ConfigInv
<1>5. ASSUME UNCHANGED <<env, program, config, latest>>, ConfigPlain', origin' # "program" PROVE ConfigInv'
  <2>1. RunningIsSound' BY <1>1, <1>5 DEF RunningIsSound, validate, Providers, AvailableProviders,
          ConvertLegacyToModelList, Buildable, ModelName
  <2>2. OwnFile' BY <1>5 DEF OwnFile
  <2>3. DeliveredIsValid' BY <1>1, <1>5 DEF DeliveredIsValid, validate
  <2> QED BY <1>5, <2>1, <2>2, <2>3 DEF ConfigInv
<1>6. watch \in {"off", "idle", "event", "blind"} /\ (Seen => watch' \in {"off", "idle", "event", "blind"})
  BY <1>1 DEF ConfigPlain, Seen
<1>7. ASSUME NEW part \in UserFiles, Truncate(part) PROVE ConfigInv'
  <2>1. FileOK(file') BY <1>7, EmptyFile DEF Truncate
  <2>2. ConfigPlain' BY <1>1, <1>2, <1>6, <1>7, <2>1, FileThere DEF Truncate, ConfigPlain, FileOK
  <2> QED BY <1>5, <1>7, <2>2 DEF Truncate
<1>8. ASSUME NEW part \in UserFiles, Replace(part) PROVE ConfigInv'
  <2>1. FileOK(file') BY <1>8, FilesAssumption DEF Replace, FileOK
  <2>2. watch' \in {"off", "idle", "event", "blind"} BY <1>6, <1>8 DEF Replace
  <2>3. ConfigPlain' BY <1>1, <1>2, <1>8, <2>1, <2>2, FileThere DEF Replace, ConfigPlain, FileOK
  <2> QED BY <1>5, <1>8, <2>3 DEF Replace
<1>9. ASSUME WriteFile PROVE ConfigInv'
  <2>1. rewriting \in UserFiles /\ origin # "program" BY <1>1, <1>9 DEF ConfigPlain, OwnFile, WriteFile
  <2>2. FileOK(file') BY <1>9, <2>1, FilesAssumption DEF WriteFile, FileOK
  <2>3. ConfigPlain' BY <1>1, <1>6, <1>9, <2>2, FileThere DEF WriteFile, ConfigPlain, FileOK
  <2> QED BY <1>5, <1>9, <2>1, <2>3 DEF WriteFile
<1>10. ASSUME Quit PROVE ConfigInv'
  <2>1. ConfigPlain' BY <1>1, <1>10 DEF Quit, ConfigPlain, FileOK
  <2>2. RunningIsSound' BY <1>10 DEF Quit, RunningIsSound
  <2>3. OwnFile' BY <1>1, <1>10 DEF Quit, OwnFile
  <2>4. DeliveredIsValid' BY <1>1, <1>10 DEF Quit, DeliveredIsValid, validate
  <2> QED BY <2>1, <2>2, <2>3, <2>4 DEF ConfigInv
<1>11. ASSUME ConfigPlain', DeliveredIsValid', UNCHANGED <<file, env, origin, program, config, rewriting>>
       PROVE  ConfigInv'
  <2>1. RunningIsSound' BY <1>1, <1>11 DEF RunningIsSound, validate, Providers, AvailableProviders,
          ConvertLegacyToModelList, Buildable, ModelName
  <2>2. OwnFile' BY <1>1, <1>11 DEF OwnFile
  <2> QED BY <1>11, <2>1, <2>2 DEF ConfigInv
<1>12. file # Absent => FromFile(file, env) \in Settings
                        /\ (FromFile(file, env) = NoConfig \/ validate(FromFile(file, env)))
  BY <1>1, FromFileFacts DEF ConfigPlain
<1>13. ASSUME WatchFile PROVE ConfigInv'
  <2>1. ConfigPlain' BY <1>1, <1>12, <1>13 DEF WatchFile, ConfigPlain, FileOK
  <2>2. DeliveredIsValid'
    <3>1. latest' = FromFile(file, env) /\ file # Absent BY <1>13 DEF WatchFile
    <3> QED BY <1>12, <3>1 DEF DeliveredIsValid, validate
  <2> QED BY <1>11, <1>13, <2>1, <2>2 DEF WatchFile
<1>14. ASSUME Reload PROVE ConfigInv'
  <2>1. file # Absent BY <1>1, <1>14 DEF ConfigPlain, Reload
  <2>2. latest' = latest \/ latest' = FromFile(file, env) BY <1>14 DEF Reload
  <2>3. latest' \in Settings BY <1>1, <1>12, <2>1, <2>2 DEF ConfigPlain
  <2>4. ConfigPlain' BY <1>1, <1>14, <2>1, <2>3 DEF Reload, ConfigPlain, FileOK
  <2>5. DeliveredIsValid' BY <1>1, <1>12, <2>1, <2>2 DEF DeliveredIsValid, validate
  <2> QED BY <1>11, <1>14, <2>4, <2>5 DEF Reload
<1>15. ASSUME NEW writable \in BOOLEAN, StartProgram(writable) PROVE ConfigInv'
  <2> DEFINE cfg == Loads(file, env, writable)
             writes == file = Absent /\ Asks(env) /\ writable
  <2>1. cfg \in Settings /\ (cfg = NoConfig \/ validate(cfg)) BY <1>1, LoadsFacts
  <2>2. /\ rewriting = Absent /\ file' = (IF writes THEN Generated(env) ELSE file)
        /\ origin' = (IF writes THEN "program" ELSE origin)
        /\ program' = (IF cfg.cipher /\ Providers(cfg) # {} THEN "running" ELSE "failed")
        /\ config' = cfg /\ watch' = "off" /\ latest' = NoConfig /\ UNCHANGED <<env, edits, rewriting>>
    BY <1>15 DEF StartProgram
  <2>3. writes => FileOK(Generated(env)) /\ Generated(env) # Absent BY <1>1, GeneratedFacts DEF ConfigPlain
  <2>4. writes => cfg = FromFile(Generated(env), env) BY DEF Loads
  <2>5. file # Absent => cfg = FromFile(file, env) BY DEF Loads
  <2>6. writes => file = Absent /\ Asks(env) OBVIOUS
  <2> HIDE DEF cfg, writes
  <2>7. file' # Absent => FileOK(file') BY <1>1, <2>2, <2>3 DEF ConfigPlain
  <2>8. ConfigPlain' BY <1>1, <2>1, <2>2, <2>7, DefaultsType DEF ConfigPlain, FileOK
  <2>9. RunningIsSound'
    <3>1. ASSUME program' = "running"
          PROVE  /\ validate(cfg) /\ cfg.cipher /\ Providers(cfg) # {}
                 /\ cfg.list = {} => AvailableProviders(cfg) \subseteq Providers(cfg)
      <4>1. cfg.cipher /\ Providers(cfg) # {} /\ cfg # NoConfig BY <2>2, <3>1 DEF NoConfig
      <4> QED BY <2>1, <4>1, AvailableAreBuilt
    <3> QED BY <2>2, <3>1 DEF RunningIsSound, validate, Providers, AvailableProviders,
          ConvertLegacyToModelList, Buildable, ModelName
  <2>10. OwnFile'
    <3>1. CASE writes
      <4>1. config' = FromFile(file', env') BY <2>2, <2>4, <3>1
      <4>2. env' \in Environments /\ Asks(env)' /\ file' = Generated(env') BY <1>1, <2>2, <2>6, <3>1 DEF ConfigPlain
      <4> QED BY <2>2, <4>1, <4>2 DEF OwnFile
    <3>2. CASE ~writes
      <4>1. ASSUME origin = "program" PROVE config' = FromFile(file', env') /\ file' = file
        <5>1. PICK e \in Environments : file = Generated(e) BY <1>1, <4>1 DEF OwnFile
        <5>2. file # Absent BY <5>1, GeneratedFacts
        <5> QED BY <2>2, <2>5, <3>2, <5>2
      <4> QED BY <1>1, <2>2, <3>2, <4>1 DEF OwnFile
    <3> QED BY <3>1, <3>2
  <2>11. DeliveredIsValid' BY <2>2 DEF DeliveredIsValid
  <2> QED BY <2>8, <2>9, <2>10, <2>11 DEF ConfigInv
<1>16. CASE UNCHANGED fvars
  <2>1. ConfigPlain' BY <1>1, <1>16 DEF fvars, ConfigPlain, FileOK
  <2>2. DeliveredIsValid' BY <1>1, <1>16 DEF fvars, DeliveredIsValid, validate
  <2> QED BY <1>11, <1>16, <2>1, <2>2 DEF fvars
<1> QED BY <1>3, <1>4, <1>7, <1>8, <1>9, <1>10, <1>13, <1>14, <1>15, <1>16 DEF ConfigNext

\* It holds before the first file.
LEMMA ConfigStarts == ConfigInit => ConfigInv
<1> SUFFICES ASSUME ConfigInit PROVE ConfigInv
  OBVIOUS
<1>1. 0 \in 0 .. MaxEdits BY FilesAssumption
<1>2. ConfigPlain BY <1>1, DefaultsType DEF ConfigInit, ConfigPlain
<1> QED BY <1>2 DEF ConfigInit, ConfigInv, RunningIsSound, OwnFile, DeliveredIsValid

\* The invariant gives the types,
LEMMA ConfigTypes == ConfigInv => ConfigTypeOK
BY DEF ConfigInv, ConfigPlain, ConfigTypeOK, FileOK

\* and what is said of the settings.
LEMMA ConfigSound == ConfigInv => ConfigIsSound
<1> SUFFICES ASSUME ConfigInv PROVE ConfigIsSound
  OBVIOUS
<1>1. GeneratedSuffices
  <2>1. ASSUME origin = "program"
        PROVE  /\ program = "running" => config = FromFile(file, env)
               /\ \A d \in Environments :
                    LET cfg == FromFile(file, d)
                        laid == Overlay(file, d.set)
                    IN  (cfg # NoConfig /\ Providers(cfg) # {}) <=> (laid.level /\ laid.cipher)
    <3>1. PICK e \in Environments : file = Generated(e) BY <2>1 DEF ConfigInv, OwnFile
    <3> QED BY <2>1, <3>1, OwnFileStarts DEF ConfigInv, OwnFile
  <2> QED BY <2>1 DEF GeneratedSuffices
<1> QED BY <1>1 DEF ConfigInv, ConfigIsSound

-----------------------------------------------------------------------------
(* Heartbeat *)

\* Every step of the scheduler keeps the types.
LEMMA HeartbeatSteps == ASSUME HeartbeatTypeOK, [HeartbeatNext]_hvars PROVE HeartbeatTypeOK'
BY DEF HeartbeatTypeOK, HeartbeatNext, hvars, Start, StartNothing, StartReturns, RunTasks, TasksEnd,
       FirstEnds, ContextEnds, Stop, LoopEnds, StopReturns

-----------------------------------------------------------------------------
(* Application *)

\* The steps of the start, and what Close closes.
LEMMA StepsAndClosing ==
  /\ Len(Steps) = 9 /\ 1 .. Len(Steps) + 1 = 1 .. 10 /\ Steps[2] = "core"
  /\ Len(Closing) = 3 /\ Closing[1] = "heartbeat" /\ Closing[2] = "channels" /\ Closing[3] = "databases"
  BY DEF Steps, Closing

\* What runs, and that the core database is open, at each place of the program.
AppAt ==
  /\ progress = "boot" => loops = {} /\ busy = {} /\ (step > 2 => "core" \in dbs)
  /\ progress = "begin" => step = 10 /\ "core" \in dbs /\ loops = {} /\ busy = {}
  /\ progress = "wait" =>
       /\ step = 10 /\ "core" \in dbs
       /\ \/ command = "gateway" /\ loops \subseteq {"channels", "heartbeat"}
          \/ command \in {"web", "terminal"} /\ loops = {command}
  /\ progress = "stop web" => step = 1 /\ "core" \in dbs /\ loops = {"web"}
  /\ progress = "close" =>
       /\ step \in 1 .. 3 /\ "core" \in dbs /\ loops \subseteq {"channels", "heartbeat"}
       /\ (step > 1 => "heartbeat" \notin loops) /\ (step > 2 => loops = {})
  /\ progress = "closed" => loops = {} /\ dbs = {}

\* A run of the heartbeat's loop is under way only while that loop is there.
BeatsHaveALoop == "beat" \in busy => "heartbeat" \in loops

\* The program's invariant.
AppInv == AppTypeOK /\ AppAt /\ BeatsHaveALoop /\ AppEndsWell

\* It holds before the program starts.
LEMMA AppInvInit == AppInit => AppInv
<1>. SUFFICES ASSUME AppInit PROVE AppInv OBVIOUS
<1>1. step \in 1 .. Len(Steps) + 1 BY StepsAndClosing DEF AppInit
<1>2. AppTypeOK BY <1>1 DEF AppInit, AppTypeOK
<1>3. AppAt /\ BeatsHaveALoop BY DEF AppInit, AppAt, BeatsHaveALoop
<1>4. AppEndsWell BY DEF AppInit, AppEndsWell, ReturnsClosed, OnlyStragglersAreLate
<1>. QED BY <1>2, <1>3, <1>4 DEF AppInv

\* Bootstrap, a step at a time.
LEMMA BootHolds ==
  ASSUME AppInv, BootStep \/ BootFails \/ Booted
  PROVE  AppInv'
<1>. USE DEF AppInv
<1>1. CASE BootStep
  <2>1. AppTypeOK'
    <3>1. step' \in 1 .. Len(Steps) + 1 BY <1>1, StepsAndClosing DEF BootStep, AppTypeOK
    <3>. QED BY <1>1, <3>1 DEF BootStep, AppTypeOK
  <2>2. AppAt' BY <1>1, StepsAndClosing DEF BootStep, AppTypeOK, AppAt
  <2>3. BeatsHaveALoop' BY <1>1, StepsAndClosing DEF BootStep, AppAt, BeatsHaveALoop
  <2>4. ReturnsClosed'
    BY <1>1, StepsAndClosing DEF BootStep, AppTypeOK, AppAt, AppEndsWell, ReturnsClosed
  <2>5. OnlyStragglersAreLate'
    BY <1>1, StepsAndClosing
     DEF BootStep, AppTypeOK, AppAt, BeatsHaveALoop, AppEndsWell, OnlyStragglersAreLate
  <2>. QED BY <2>1, <2>2, <2>3, <2>4, <2>5 DEF AppEndsWell
<1>2. CASE BootFails
  <2>1. AppTypeOK' BY <1>2, StepsAndClosing DEF BootFails, Abandoned, AppTypeOK
  <2>2. AppAt' BY <1>2 DEF BootFails, Abandoned, AppTypeOK, AppAt
  <2>3. BeatsHaveALoop' BY <1>2 DEF BootFails, Abandoned, AppAt, BeatsHaveALoop
  <2>4. ReturnsClosed'
    BY <1>2 DEF BootFails, Abandoned, AppTypeOK, AppAt, AppEndsWell, ReturnsClosed
  <2>5. OnlyStragglersAreLate'
    BY <1>2
     DEF BootFails, Abandoned, AppTypeOK, AppAt, BeatsHaveALoop, AppEndsWell, OnlyStragglersAreLate
  <2>. QED BY <2>1, <2>2, <2>3, <2>4, <2>5 DEF AppEndsWell
<1>3. CASE Booted
  <2>1. AppTypeOK' BY <1>3, StepsAndClosing DEF Booted, AppTypeOK
  <2>2. AppAt' BY <1>3, StepsAndClosing DEF Booted, AppTypeOK, AppAt
  <2>3. BeatsHaveALoop' BY <1>3, StepsAndClosing DEF Booted, AppAt, BeatsHaveALoop
  <2>4. ReturnsClosed'
    BY <1>3, StepsAndClosing DEF Booted, AppTypeOK, AppAt, AppEndsWell, ReturnsClosed
  <2>5. OnlyStragglersAreLate'
    BY <1>3, StepsAndClosing
     DEF Booted, AppTypeOK, AppAt, BeatsHaveALoop, AppEndsWell, OnlyStragglersAreLate
  <2>. QED BY <2>1, <2>2, <2>3, <2>4, <2>5 DEF AppEndsWell
<1>. QED BY <1>1, <1>2, <1>3

\* The commands begin.
LEMMA CommandsHold ==
  ASSUME AppInv, RunGateway \/ RunAgent \/ RunOneShot \/ RunStatus
  PROVE  AppInv'
<1>. USE DEF AppInv
<1>1. CASE RunGateway
  <2>1. AppTypeOK' BY <1>1, StepsAndClosing DEF RunGateway, Loop, Work, AppTypeOK
  <2>2. AppAt' BY <1>1 DEF RunGateway, Loop, Work, AppTypeOK, AppAt
  <2>3. BeatsHaveALoop' BY <1>1 DEF RunGateway, Loop, Work, AppAt, BeatsHaveALoop
  <2>4. ReturnsClosed'
    BY <1>1 DEF RunGateway, Loop, Work, AppTypeOK, AppAt, AppEndsWell, ReturnsClosed
  <2>5. OnlyStragglersAreLate'
    BY <1>1
     DEF RunGateway, Loop, Work, AppTypeOK, AppAt, BeatsHaveALoop, AppEndsWell, OnlyStragglersAreLate
  <2>. QED BY <2>1, <2>2, <2>3, <2>4, <2>5 DEF AppEndsWell
<1>2. CASE RunAgent
  <2>1. AppTypeOK' BY <1>2, StepsAndClosing DEF RunAgent, Loop, AppTypeOK
  <2>2. AppAt' BY <1>2 DEF RunAgent, Loop, AppTypeOK, AppAt
  <2>3. BeatsHaveALoop' BY <1>2 DEF RunAgent, Loop, AppAt, BeatsHaveALoop
  <2>4. ReturnsClosed'
    BY <1>2, StepsAndClosing DEF RunAgent, Loop, AppTypeOK, AppAt, AppEndsWell, ReturnsClosed
  <2>5. OnlyStragglersAreLate'
    BY <1>2
     DEF RunAgent, Loop, AppTypeOK, AppAt, BeatsHaveALoop, AppEndsWell, OnlyStragglersAreLate
  <2>. QED BY <2>1, <2>2, <2>3, <2>4, <2>5 DEF AppEndsWell
<1>3. CASE RunOneShot
  <2>1. AppTypeOK'
    <3>1. step' \in 1 .. Len(Steps) + 1 BY <1>3, StepsAndClosing DEF RunOneShot, AppTypeOK
    <3>. QED BY <1>3, <3>1 DEF RunOneShot, AppTypeOK
  <2>2. AppAt'
    <3>1. CASE progress' = "close" BY <1>3, <3>1 DEF RunOneShot, AppAt
    <3>2. CASE progress' = "exited" BY <1>3, <3>2 DEF RunOneShot, AppAt
    <3>. QED BY <1>3, <3>1, <3>2 DEF RunOneShot
  <2>3. BeatsHaveALoop' BY <1>3 DEF RunOneShot, AppAt, BeatsHaveALoop
  <2>4. ReturnsClosed'
    BY <1>3, StepsAndClosing DEF RunOneShot, AppTypeOK, AppAt, AppEndsWell, ReturnsClosed
  <2>5. OnlyStragglersAreLate'
    BY <1>3 DEF RunOneShot, AppTypeOK, AppAt, BeatsHaveALoop, AppEndsWell, OnlyStragglersAreLate
  <2>. QED BY <2>1, <2>2, <2>3, <2>4, <2>5 DEF AppEndsWell
<1>4. CASE RunStatus
  <2>1. AppTypeOK' BY <1>4, StepsAndClosing DEF RunStatus, AppTypeOK
  <2>2. AppAt' BY <1>4 DEF RunStatus, AppTypeOK, AppAt
  <2>3. BeatsHaveALoop' BY <1>4 DEF RunStatus, AppAt, BeatsHaveALoop
  <2>4. ReturnsClosed' BY <1>4 DEF RunStatus, AppTypeOK, AppAt, AppEndsWell, ReturnsClosed
  <2>5. OnlyStragglersAreLate'
    BY <1>4 DEF RunStatus, AppTypeOK, AppAt, BeatsHaveALoop, AppEndsWell, OnlyStragglersAreLate
  <2>. QED BY <2>1, <2>2, <2>3, <2>4, <2>5 DEF AppEndsWell
<1>. QED BY <1>1, <1>2, <1>3, <1>4

\* A command ends.
LEMMA CommandEndHolds ==
  ASSUME AppInv, Interrupt \/ TerminalFails \/ StopWeb
  PROVE  AppInv'
<1>. USE DEF AppInv
<1>1. CASE Interrupt
  <2>1. AppTypeOK'
    <3>1. step' \in 1 .. Len(Steps) + 1
      <4>1. step' = 1 BY <1>1 DEF Interrupt
      <4>. QED BY <4>1, StepsAndClosing
    <3>. QED BY <1>1, <3>1 DEF Interrupt, AppTypeOK
  <2>2. AppAt'
    <3>1. "core" \in dbs' /\ step' = 1 BY <1>1 DEF Interrupt, AppAt
    <3>2. CASE command = "web"
      <4>1. progress' = "stop web" /\ loops' = {"web"} BY <1>1, <3>2 DEF Interrupt, AppAt
      <4>. QED BY <3>1, <4>1 DEF AppAt
    <3>3. CASE command # "web"
      <4>1. progress' = "close" /\ loops' \subseteq {"channels", "heartbeat"}
        BY <1>1, <3>3 DEF Interrupt, AppAt
      <4>2. step' \in 1 .. 3 /\ ~(step' > 1) /\ ~(step' > 2) BY <3>1
      <4>. QED BY <3>1, <4>1, <4>2 DEF AppAt
    <3>. QED BY <3>2, <3>3
  <2>3. BeatsHaveALoop' BY <1>1 DEF Interrupt, AppAt, BeatsHaveALoop
  <2>4. ReturnsClosed' BY <1>1 DEF Interrupt, AppTypeOK, AppAt, AppEndsWell, ReturnsClosed
  <2>5. OnlyStragglersAreLate'
    BY <1>1 DEF Interrupt, AppTypeOK, AppAt, BeatsHaveALoop, AppEndsWell, OnlyStragglersAreLate
  <2>. QED BY <2>1, <2>2, <2>3, <2>4, <2>5 DEF AppEndsWell
<1>2. CASE TerminalFails
  <2>1. AppTypeOK' BY <1>2, StepsAndClosing DEF TerminalFails, AppTypeOK
  <2>2. AppAt' BY <1>2 DEF TerminalFails, AppTypeOK, AppAt
  <2>3. BeatsHaveALoop' BY <1>2 DEF TerminalFails, AppAt, BeatsHaveALoop
  <2>4. ReturnsClosed'
    BY <1>2, StepsAndClosing DEF TerminalFails, AppTypeOK, AppAt, AppEndsWell, ReturnsClosed
  <2>5. OnlyStragglersAreLate'
    BY <1>2
     DEF TerminalFails, AppTypeOK, AppAt, BeatsHaveALoop, AppEndsWell, OnlyStragglersAreLate
  <2>. QED BY <2>1, <2>2, <2>3, <2>4, <2>5 DEF AppEndsWell
<1>3. CASE StopWeb
  <2>1. AppTypeOK' BY <1>3, StepsAndClosing DEF StopWeb, AppTypeOK
  <2>2. AppAt'
    <3>1. progress' = "close" /\ step' = 1 /\ "core" \in dbs' /\ loops' = {}
      BY <1>3 DEF StopWeb, AppAt
    <3>2. step' \in 1 .. 3 /\ ~(step' > 1) /\ ~(step' > 2) BY <3>1
    <3>. QED BY <3>1, <3>2 DEF AppAt
  <2>3. BeatsHaveALoop' BY <1>3 DEF StopWeb, AppAt, BeatsHaveALoop
  <2>4. ReturnsClosed' BY <1>3 DEF StopWeb, AppTypeOK, AppAt, AppEndsWell, ReturnsClosed
  <2>5. OnlyStragglersAreLate'
    BY <1>3 DEF StopWeb, AppTypeOK, AppAt, BeatsHaveALoop, AppEndsWell, OnlyStragglersAreLate
  <2>. QED BY <2>1, <2>2, <2>3, <2>4, <2>5 DEF AppEndsWell
<1>. QED BY <1>1, <1>2, <1>3

\* Close, and main returns.
LEMMA CloseHolds ==
  ASSUME AppInv, CloseStep \/ MainReturns
  PROVE  AppInv'
<1>. USE DEF AppInv
<1>1. CASE CloseStep
  <2>1. AppTypeOK' BY <1>1, StepsAndClosing DEF CloseStep, AppTypeOK
  <2>2. AppAt' BY <1>1, StepsAndClosing DEF CloseStep, AppTypeOK, AppAt
  <2>3. BeatsHaveALoop' BY <1>1, StepsAndClosing DEF CloseStep, AppAt, BeatsHaveALoop
  <2>4. ReturnsClosed'
    BY <1>1, StepsAndClosing DEF CloseStep, AppTypeOK, AppAt, AppEndsWell, ReturnsClosed
  <2>5. OnlyStragglersAreLate'
    <3>1. late' = late /\ busy' = busy BY <1>1, StepsAndClosing DEF CloseStep
    <3>2. CASE progress' = "closed"
      <4>1. step = 3 /\ loops = {}
        BY <1>1, <3>2, StepsAndClosing DEF CloseStep, AppTypeOK, AppAt
      <4>2. loops' = {} /\ "beat" \notin busy
        BY <1>1, <4>1, StepsAndClosing DEF CloseStep, BeatsHaveALoop
      <4>. QED BY <3>1, <4>2 DEF AppEndsWell, OnlyStragglersAreLate
    <3>3. CASE progress' # "closed" BY <3>1, <3>3 DEF AppEndsWell, OnlyStragglersAreLate
    <3>. QED BY <3>2, <3>3
  <2>. QED BY <2>1, <2>2, <2>3, <2>4, <2>5 DEF AppEndsWell
<1>2. CASE MainReturns
  <2>1. AppTypeOK' BY <1>2, StepsAndClosing DEF MainReturns, AppTypeOK
  <2>2. AppAt' BY <1>2 DEF MainReturns, AppTypeOK, AppAt
  <2>3. BeatsHaveALoop' BY <1>2 DEF MainReturns, AppAt, BeatsHaveALoop
  <2>4. ReturnsClosed' BY <1>2 DEF MainReturns, AppTypeOK, AppAt, AppEndsWell, ReturnsClosed
  <2>5. OnlyStragglersAreLate'
    BY <1>2
     DEF MainReturns, AppTypeOK, AppAt, BeatsHaveALoop, AppEndsWell, OnlyStragglersAreLate
  <2>. QED BY <2>1, <2>2, <2>3, <2>4, <2>5 DEF AppEndsWell
<1>. QED BY <1>1, <1>2

\* Work begins and ends.
LEMMA WorkHolds ==
  ASSUME AppInv, NEW w \in Work, BeginWork(w) \/ FinishWork(w)
  PROVE  AppInv'
<1>. USE DEF AppInv
<1>1. CASE BeginWork(w)
  <2>1. AppTypeOK' BY <1>1, StepsAndClosing DEF BeginWork, Work, AppTypeOK
  <2>2. AppAt' BY <1>1 DEF BeginWork, Work, AppTypeOK, AppAt
  <2>3. BeatsHaveALoop' BY <1>1 DEF BeginWork, Work, AppAt, BeatsHaveALoop
  <2>4. ReturnsClosed' BY <1>1 DEF BeginWork, Work, AppTypeOK, AppAt, AppEndsWell, ReturnsClosed
  <2>5. OnlyStragglersAreLate'
    BY <1>1
     DEF BeginWork, Work, AppTypeOK, AppAt, BeatsHaveALoop, AppEndsWell, OnlyStragglersAreLate
  <2>. QED BY <2>1, <2>2, <2>3, <2>4, <2>5 DEF AppEndsWell
<1>2. CASE FinishWork(w)
  <2>1. AppTypeOK' BY <1>2, StepsAndClosing DEF FinishWork, Alive, Work, AppTypeOK
  <2>2. AppAt' BY <1>2 DEF FinishWork, Alive, Work, AppTypeOK, AppAt
  <2>3. BeatsHaveALoop' BY <1>2 DEF FinishWork, Alive, Work, AppAt, BeatsHaveALoop
  <2>4. ReturnsClosed'
    BY <1>2 DEF FinishWork, Alive, Work, AppTypeOK, AppAt, AppEndsWell, ReturnsClosed
  <2>5. OnlyStragglersAreLate'
    BY <1>2
     DEF FinishWork, Alive, Work, AppTypeOK, AppAt, BeatsHaveALoop, AppEndsWell, OnlyStragglersAreLate
  <2>. QED BY <2>1, <2>2, <2>3, <2>4, <2>5 DEF AppEndsWell
<1>. QED BY <1>1, <1>2

\* Every step of the program keeps the invariant.
LEMMA AppSteps == ASSUME AppInv, [AppNext]_appvars PROVE AppInv'
<1>1. CASE UNCHANGED appvars
  BY <1>1 DEF appvars, AppInv, AppTypeOK, AppAt, BeatsHaveALoop, AppEndsWell, ReturnsClosed,
              OnlyStragglersAreLate
<1>. QED BY <1>1, BootHolds, CommandsHold, CommandEndHolds, CloseHolds, WorkHolds DEF AppNext, Ending

\* A program that returns, or leaves before it is up, has closed its databases, and only
\* what nobody waits for can meet a closed one (app.go:57-145, 316-335).
THEOREM ProgramEndsWell == AppInit /\ [][AppNext]_appvars => []AppEndsWell
<1>1. AppInv /\ [AppNext]_appvars => AppInv' BY AppSteps
<1>2. AppInv => AppEndsWell BY DEF AppInv
<1>. QED BY <1>1, <1>2, AppInvInit, PTL

-----------------------------------------------------------------------------
(* The behaviours *)

\* The invariant of everything together: each component keeps its own.
AllInv == /\ SubInv /\ LimiterInv /\ AuditInv /\ PoolInv /\ HeartbeatTypeOK /\ GoalsInv
          /\ BusInv /\ CronInv /\ ConfigInv /\ AppInv /\ ProbesInv

\* It holds at the start.
LEMMA AllStarts == ASSUME AllInit PROVE AllInv
<1>1. HeartbeatTypeOK BY DEF AllInit, HeartbeatInit, HeartbeatTypeOK
<1>2. AuditInv BY AuditStarts DEF AllInit
<1>. QED
  BY <1>1, <1>2, SubStarts, LimiterStarts, PoolStarts, GoalsStart, BusStarts, CronStarts, ConfigStarts,
     AppInvInit, ProbesStarts
  DEF AllInit, AllInv

\* A step of one component leaves the others as they are.
LEMMA AllSteps == ASSUME AllInv, [AllNext]_allvars PROVE AllInv'
<1>1. /\ [Next]_vars /\ [LimiterNext]_lvars /\ [AuditNext]_avars /\ [PoolNext]_pvars
      /\ [HeartbeatNext]_hvars /\ [GoalsNext]_ovars /\ [BusNext]_bvars /\ [CronNext]_jvars
      /\ [ConfigNext]_fvars /\ [AppNext]_appvars /\ [ProbesNext]_pbvars
  <2>1. ASSUME NEW t \in Subject, OthersRest(t)
        PROVE  /\ t # "sub-agents" => UNCHANGED vars
               /\ t # "limiter" => UNCHANGED lvars
               /\ t # "audit" => UNCHANGED avars
               /\ t # "pool" => UNCHANGED pvars
               /\ t # "heartbeat" => UNCHANGED hvars
               /\ t # "goals" => UNCHANGED ovars
               /\ t # "bus" => UNCHANGED bvars
               /\ t # "cron" => UNCHANGED jvars
               /\ t # "config" => UNCHANGED fvars
               /\ t # "app" => UNCHANGED appvars
               /\ t # "probes" => UNCHANGED pbvars
    BY <2>1 DEF OthersRest, Still, Subject
  <2>2. CASE AllNext
    BY <2>1, <2>2 DEF AllNext, Subject
  <2>3. CASE UNCHANGED allvars
    BY <2>3 DEF allvars
  <2>. QED
    BY <2>2, <2>3
<1>. QED
  BY <1>1, SubSteps, LimiterSteps, AuditSteps, PoolSteps, HeartbeatSteps, GoalsSteps, BusSteps,
     CronSteps, ConfigSteps, AppSteps, ProbesSteps
  DEF AllInv

\* The invariant holds of every state of every behaviour of the services.
THEOREM AllInductive == AllSpec => []AllInv
  BY AllStarts, AllSteps, PTL DEF AllSpec

\* Every variable of the eleven components keeps its type: counts, windows, queues and
\* maps stay within the limits the code gives them (ratelimit.go:31-77,
\* bus.go:63-178, cron.go:105-265, router.go:244-363, config.go:413-505).
THEOREM AllTypesHold == AllSpec => []AllTypeOK
<1>1. AllInv => AllTypeOK
  BY ConfigTypes, ProbesTypes
  DEF AllInv, SubInv, LimiterInv, AuditInv, PoolInv, GoalsInv, BusInv, CronInv, AppInv, AllTypeOK
<1>. QED
  BY <1>1, AllInductive, PTL

\* A handler runs once for each event it subscribed to, tries a webhook as often as it
\* may, and its panic is among the latest dead letters; a job never runs sooner than its
\* interval after it ran; a race is lost only when every provider it asked has failed,
\* and a fallback only when it tried them all (bus.go:63-178, webhook.go:65-103,
\* cron.go:178-265, router.go:260-363, fallback.go:64-210).
THEOREM BackgroundStaysSound == AllSpec => []BackgroundIsSound
<1>1. AllInv => BackgroundIsSound
  BY BusAccounted, CronSpaced, ProbesLosers DEF AllInv, BackgroundIsSound
<1>. QED
  BY <1>1, AllInductive, PTL

\* A program that runs has valid settings and a provider it can build, the file it wrote
\* itself starts it again without its environment, and a watcher delivers no bad settings
\* (config.go:413-505, 711-749, loader.go:29-62); and what it opened it has closed when it
\* returns (app.go:57-157, 315-335).
THEOREM StartStaysSound == AllSpec => []StartIsSound
<1>1. AllInv => StartIsSound
  BY ConfigSound DEF AllInv, AppInv, StartIsSound
<1>. QED
  BY <1>1, AllInductive, PTL
=============================================================================
