----------------------------- MODULE MCServices -----------------------------
(***************************************************************************)
(* SubAgents, and beside it the services of the program that run in the    *)
(* background and its start and stop.  They share nothing that is modelled *)
(* here, so a behaviour is one of the component chosen at its start, and   *)
(* the others stay as they began.                                          *)
(***************************************************************************)
EXTENDS SubAgents, RateLimiter, AuditLog, AgentPool, Heartbeat, Goals, EventBus, CronJobs,
        Configuration, Application, Probes

VARIABLE subject   \* the component whose behaviour this is

Subject == {"sub-agents", "limiter", "audit", "pool", "heartbeat", "goals", "bus", "cron",
            "config", "app", "probes"}

allvars == <<vars, lvars, avars, pvars, hvars, ovars, bvars, jvars, fvars, appvars, pbvars,
             subject>>

\* Short identifiers are not full ones.
MCShort == [s \in Sub |-> "short"]

\* Files cut short, of which a part is bad, and such as a user or an old version wrote.
MCUserFiles == {[keys |-> {"groq", "zhipu"}, host |-> FALSE],
                [list |-> {"listed", "keyless"}], [list |-> {"nameless"}], [cipher |-> FALSE],
                [version |-> 3, keys |-> {"openai", "gemini"}]}

\* Nothing, a key, keys, a host; a bad level or key of the cipher, alone or beside keys,
\* and good ones.
MCEnvironments == {NoEnv, [keys |-> {"openai"}, set |-> NoEnv.set],
                   [keys |-> {"openai", "anthropic"}, set |-> NoEnv.set],
                   [keys |-> {}, set |-> [host |-> TRUE]],
                   [keys |-> {"openai"}, set |-> [level |-> FALSE]],
                   [keys |-> {"gemini"}, set |-> [cipher |-> FALSE]],
                   [keys |-> {}, set |-> [cipher |-> FALSE]],
                   [keys |-> {"anthropic"}, set |-> [level |-> TRUE, cipher |-> TRUE]]}

Still(t) == CASE t = "sub-agents" -> UNCHANGED vars
              [] t = "limiter" -> UNCHANGED lvars
              [] t = "audit" -> UNCHANGED avars
              [] t = "pool" -> UNCHANGED pvars
              [] t = "heartbeat" -> UNCHANGED hvars
              [] t = "goals" -> UNCHANGED ovars
              [] t = "bus" -> UNCHANGED bvars
              [] t = "cron" -> UNCHANGED jvars
              [] t = "config" -> UNCHANGED fvars
              [] t = "app" -> UNCHANGED appvars
              [] t = "probes" -> UNCHANGED pbvars

\* The others of t rest, and so its steps are those of this behaviour.
OthersRest(t) == /\ subject = t /\ UNCHANGED subject
                 /\ \A u \in Subject \ {t} : Still(u)

AllTypeOK == /\ TypeOK /\ LimiterTypeOK /\ AuditTypeOK /\ PoolTypeOK /\ HeartbeatTypeOK
             /\ GoalsTypeOK /\ BusTypeOK /\ CronTypeOK /\ ConfigTypeOK /\ AppTypeOK
             /\ ProbesTypeOK

AllInit ==
  /\ subject \in Subject
  /\ Init /\ LimiterInit /\ AuditInit /\ PoolInit /\ HeartbeatInit /\ GoalsInit
  /\ BusInit
  /\ CronInit /\ (subject # "cron" => callback = "none")
  /\ ConfigInit /\ (subject # "config" => env = NoEnv)
  /\ AppInit /\ (subject # "app" => command = "status")
  /\ ProbesInit /\ (subject # "probes" => \A p \in Probed : failures[p] = 0)

AllNext == \/ OthersRest("sub-agents") /\ Next
           \/ OthersRest("limiter") /\ LimiterNext
           \/ OthersRest("audit") /\ AuditNext
           \/ OthersRest("pool") /\ PoolNext
           \/ OthersRest("heartbeat") /\ HeartbeatNext
           \/ OthersRest("goals") /\ GoalsNext
           \/ OthersRest("bus") /\ BusNext
           \/ OthersRest("cron") /\ CronNext
           \/ OthersRest("config") /\ ConfigNext
           \/ OthersRest("app") /\ AppNext
           \/ OthersRest("probes") /\ ProbesNext

\* Goroutines run, handlers and requests end, tickers tick, and a lock is given to who
\* waits for it.  At rest a component has nothing of the kind to do, but for the goals,
\* whose cycles come and go.
AllFairness ==
  /\ Fairness
  /\ WF_ovars(subject = "goals" /\ Cycle)
  /\ WF_bvars(\E e \in DOMAIN events : Handling(e))
  /\ WF_jvars(CronLoop) /\ SF_jvars(CronLoopEnds)
  /\ WF_fvars(Reload)
  /\ WF_appvars(Ending) /\ WF_appvars(FinishWork("beat"))
  /\ \A p \in Process : WF_pbvars(CallStep(p))
  /\ \A r \in Racer, q \in Probed : WF_pbvars(ProbeEnds(r, q))

AllSpec == AllInit /\ [][AllNext]_allvars /\ AllFairness

\* What runs in the background is done in full and only as often as it should be: events
\* (EventsAreAccounted), jobs (CallbacksAreSpaced) and probes (LosersAskedAll).
BackgroundIsSound == EventsAreAccounted /\ CallbacksAreSpaced /\ LosersAskedAll

\* The program runs only with what it needs, and leaves nothing open: its settings
\* (ConfigIsSound), its start and its end (AppEndsWell).
StartIsSound == ConfigIsSound /\ AppEndsWell

\* Nothing that somebody waits for is waited for for ever: watchers of sub-agents, goals,
\* publishers, jobs, changed settings, a program told to end, and the callers of the
\* router.  A behaviour asks boundedly often, so that once all goes on, all gets quiet.
\* The waits that the code does not end are reachable here and are not counted: readers
\* of the router with a writer between their two locks (SelfLocked, router.go:272, 295),
\* jobs whose callback uses their tool (cron.go:255), goals that a fault or the end of the
\* program met (executor.go:147), or that wait for RunOnce to leave another alone
\* (executor.go:312-315).
SomeoneWaits == WatchersWait \/ GoalsWait \/ PublishersWait \/ CronWaits \/ WatchWaits \/ AppWaits
                \/ CallersWait

ServicesGoOn == SomeoneWaits ~> ~SomeoneWaits
=============================================================================
