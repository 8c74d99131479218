------------------------------ MODULE Heartbeat ------------------------------
(***************************************************************************)
(* The heartbeat scheduler (internal/heartbeat/scheduler.go), which the    *)
(* gateway starts (cmd/wunderpus/main.go:129) and App.Close stops.  Start  *)
(* runs the tasks once in a goroutine of their own and leaves another that *)
(* waits for a ticker; but it has deferred the stop of that ticker to its  *)
(* own return.                                                             *)
(***************************************************************************)

VARIABLES
  scheduler,  \* how far Start and Stop are
  context,    \* the one Start was given
  ticker,     \* whether ticks come
  first,      \* the run that Start began
  loop        \* the goroutine that repeats it

hvars == <<scheduler, context, ticker, first, loop>>

HeartbeatTypeOK ==
  /\ scheduler \in {"new", "starting", "started", "none", "stopping", "stopped"}
  /\ context \in {"live", "ended"}
  /\ ticker \in {"none", "live", "stopped"}
  /\ first \in {"none", "running", "over"}
  /\ loop \in {"none", "waiting", "running", "over"}

HeartbeatInit == /\ scheduler = "new" /\ context = "live" /\ ticker = "none"
                 /\ first = "none" /\ loop = "none"

\* Start, up to its return.
Start == /\ scheduler = "new" /\ scheduler' = "starting"
         /\ ticker' = "live" /\ first' = "running" /\ loop' = "waiting"
         /\ UNCHANGED context

\* The scheduler is disabled, or there is no HEARTBEAT.md to parse.
StartNothing == /\ scheduler = "new" /\ scheduler' = "none"
                /\ UNCHANGED <<context, ticker, first, loop>>

\* The deferred call: no tick is received once the ticker is stopped.
StartReturns == /\ scheduler = "starting" /\ scheduler' = "started"
                /\ ticker' = "stopped" /\ UNCHANGED <<context, first, loop>>

\* The loop receives a tick and runs the tasks.
RunTasks == /\ loop = "waiting" /\ ticker = "live" /\ loop' = "running"
            /\ UNCHANGED <<scheduler, context, ticker, first>>

\* A run ends: each task is done or has failed, or the file is gone.
TasksEnd == /\ loop = "running" /\ loop' = "waiting"
            /\ UNCHANGED <<scheduler, context, ticker, first>>

FirstEnds == /\ first = "running" /\ first' = "over"
             /\ UNCHANGED <<scheduler, context, ticker, loop>>

ContextEnds == /\ context = "live" /\ context' = "ended"
               /\ UNCHANGED <<scheduler, ticker, first, loop>>

\* Stop closes the channel; App.Close calls it though nothing was started.
Stop == /\ scheduler \in {"new", "started", "none"} /\ scheduler' = "stopping"
        /\ UNCHANGED <<context, ticker, first, loop>>

LoopEnds == /\ loop = "waiting" /\ loop' = "over"
            /\ scheduler = "stopping" \/ context = "ended"
            /\ UNCHANGED <<scheduler, context, ticker, first>>

\* Stop waits for the loop, not for the first run.
StopReturns == /\ scheduler = "stopping" /\ loop \in {"none", "over"}
               /\ scheduler' = "stopped" /\ UNCHANGED <<context, ticker, first, loop>>

HeartbeatNext == \/ Start \/ StartNothing \/ StartReturns
                 \/ RunTasks \/ TasksEnd \/ FirstEnds
                 \/ ContextEnds \/ Stop \/ LoopEnds \/ StopReturns

HeartbeatSpec == HeartbeatInit /\ [][HeartbeatNext]_hvars

\* The calls go on, ticks come as long as the ticker is live, and runs end.
HeartbeatFairSpec ==
  /\ HeartbeatSpec
  /\ WF_hvars(StartReturns) /\ WF_hvars(RunTasks) /\ WF_hvars(TasksEnd)
  /\ WF_hvars(FirstEnds) /\ WF_hvars(LoopEnds) /\ WF_hvars(StopReturns)

-----------------------------------------------------------------------------
\* Refuted by the code: docs/reference/heartbeat.md:8 has the scheduler parse
\* HEARTBEAT.md at configured intervals; then, as long as nothing ends it, a
\* scheduler that has started runs the tasks again.
RunsAgain == scheduler = "started" ~> \/ loop = "running"
                                      \/ scheduler = "stopping" \/ context = "ended"
=============================================================================
