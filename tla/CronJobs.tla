------------------------------- MODULE CronJobs -------------------------------
(***************************************************************************)
(* The cron tool (internal/tool/builtin/cron.go): jobs under one mutex, a  *)
(* loop that looks every second for those that are due, by the time it was *)
(* when it came to the mutex, and calls back for one after another while   *)
(* it holds that mutex and time goes on, and the tool's actions.  Where a  *)
(* reminder goes to (SetContext) is left out.                              *)
(***************************************************************************)
EXTENDS Integers, Sequences

CONSTANTS
  Interval,    \* whole seconds an agent asks for; less than one is none
  MaxJobs,     \* bounds the jobs
  MaxSeconds   \* and the clock

ASSUME CronAssumption == Interval \subseteq Nat /\ MaxJobs \in Nat /\ MaxSeconds \in Nat

VARIABLES
  jobs,        \* CronTool.jobs, in the order they came, with a place for each that is gone
  wanted,      \* the job that addJob has made and is to add, or none
  callback,    \* what SetCallback gave: nothing, one that returns, one that uses the tool
  cronLoop,    \* the goroutine of Start
  stopAsked,   \* Stop was called
  cronNow,     \* the time checkAndRunJobs goes by
  due,         \* the jobs it has found due and is not done with
  calling,     \* the one whose callback runs, or 0
  clock

pass == <<cronNow, due, calling>>
jvars == <<jobs, wanted, callback, cronLoop, stopAsked, pass, clock>>

\* With the moment it was added at, and how often it has called back.
Job == [kind : {"once", "every"}, after : Interval, next : Nat, enabled : BOOLEAN,
        added : Nat, calls : Nat]
NoJob == [none |-> TRUE]

CronTypeOK ==
  /\ jobs \in Seq(Job \cup {NoJob}) /\ Len(jobs) <= MaxJobs
  /\ wanted \in Job \cup {NoJob}
  /\ callback \in {"none", "returns", "reenters"}
  /\ cronLoop \in {"none", "running", "locking", "checking", "stuck", "stopped"}
  /\ stopAsked \in BOOLEAN
  /\ clock \in 0 .. MaxSeconds /\ cronNow \in 0 .. clock
  /\ due \subseteq DOMAIN jobs /\ calling \in due \cup {0}

CronInit == /\ jobs = <<>> /\ wanted = NoJob
            /\ cronLoop = "none" /\ stopAsked = FALSE
            /\ cronNow = 0 /\ due = {} /\ calling = 0 /\ clock = 0
            /\ callback \in {"none", "returns", "reenters"}

\* The mutex; a callback that waits for it keeps it.
Free == cronLoop \notin {"checking", "stuck"}

-----------------------------------------------------------------------------
\* addJob: the job by the time it is, and then its second lock.  Its first one, for where
\* the reminder goes, changes nothing.  Without a message, or either kind of time, it has
\* nothing to add.

PrepareJob(kind, after) ==
  /\ wanted = NoJob /\ Len(jobs) < MaxJobs
  /\ wanted' = [kind |-> kind, after |-> after, next |-> clock + after, enabled |-> TRUE,
                added |-> clock, calls |-> 0]
  /\ UNCHANGED <<jobs, callback, cronLoop, stopAsked, pass, clock>>

AddJob == /\ Free /\ wanted # NoJob /\ wanted' = NoJob /\ jobs' = Append(jobs, wanted)
          /\ UNCHANGED <<callback, cronLoop, stopAsked, pass, clock>>

RemoveJob(j) == /\ Free /\ jobs[j] # NoJob /\ jobs' = [jobs EXCEPT ![j] = NoJob]
                /\ UNCHANGED <<wanted, callback, cronLoop, stopAsked, pass, clock>>

EnableJob(j, enable) ==
  /\ Free /\ jobs[j] # NoJob /\ jobs[j].enabled # enable
  /\ jobs' = [jobs EXCEPT ![j].enabled = enable]
  /\ UNCHANGED <<wanted, callback, cronLoop, stopAsked, pass, clock>>

-----------------------------------------------------------------------------
\* The loop: a tick is read, the time is, and then the mutex taken.

CronStep(from, to) == /\ cronLoop = from /\ cronLoop' = to
                      /\ UNCHANGED <<wanted, callback, stopAsked, clock>>

StartCron == CronStep("none", "running") /\ UNCHANGED <<jobs, pass>>

ReadNow == /\ CronStep("running", "locking") /\ cronNow' = clock
           /\ UNCHANGED <<jobs, due, calling>>

\* Mutant: the moment itself counts as after it.
NotBefore(now, next) == now >= next

After(now, next) == now > next

DueAt(j, now) == jobs[j] # NoJob /\ jobs[j].enabled /\ After(now, jobs[j].next)

\* Nobody else changes a job while the loop has the mutex, so what is due now is what the
\* range over the map comes by, in any order.  With the last of them it returns, and its
\* time is gone.
Look(from, left) == /\ CronStep(from, IF left = {} THEN "running" ELSE "checking")
                    /\ due' = left /\ cronNow' = IF left = {} THEN 0 ELSE cronNow

TakeLock == /\ Look("locking", {j \in DOMAIN jobs : DueAt(j, cronNow)})
            /\ UNCHANGED <<jobs, calling>>

CallBack(j) == /\ callback # "none" /\ calling = 0 /\ j \in due
               /\ CronStep("checking", IF callback = "returns" THEN "checking" ELSE "stuck")
               /\ calling' = j /\ jobs' = [jobs EXCEPT ![j].calls = @ + 1]
               /\ UNCHANGED <<cronNow, due>>

\* What a job is after it was due: gone, or due its interval from the time the loop
\* goes by, however many intervals have passed.
Ran(job) == IF job.kind = "once" THEN NoJob
            ELSE [job EXCEPT !.next = cronNow + job.after]

\* The callback has returned, or there is none.
JobDone(j) == /\ j \in due /\ calling = (IF callback = "none" THEN 0 ELSE j)
              /\ Look("checking", due \ {j})
              /\ jobs' = [jobs EXCEPT ![j] = Ran(jobs[j])] /\ calling' = 0

StopCron == /\ cronLoop # "none" /\ ~stopAsked /\ stopAsked' = TRUE
            /\ UNCHANGED <<jobs, wanted, callback, cronLoop, pass, clock>>

\* The loop sees the closed channel, at once or after one more tick; Stop returns.
CronLoopEnds == stopAsked /\ CronStep("running", "stopped") /\ UNCHANGED <<jobs, pass>>

SecondPasses == /\ clock < MaxSeconds /\ clock' = clock + 1
                /\ UNCHANGED <<jobs, wanted, callback, cronLoop, stopAsked, pass>>

CronLoop == \/ ReadNow \/ TakeLock \/ CronLoopEnds
            \/ \E j \in due : CallBack(j) \/ JobDone(j)

CronNext ==
  \/ AddJob \/ StartCron \/ CronLoop \/ StopCron \/ SecondPasses
  \/ \E kind \in {"once", "every"}, after \in Interval : PrepareJob(kind, after)
  \/ \E j \in DOMAIN jobs : RemoveJob(j) \/ EnableJob(j, TRUE) \/ EnableJob(j, FALSE)

-----------------------------------------------------------------------------
\* However late the loop comes to the mutex, and however long other callbacks take, a job
\* has not called back n times before n of its intervals have passed since it was added:
\* never early, and what was missed is not made up for.  Two calls in a row may be less
\* than an interval apart, when the first was late.  A job for once calls back once, and
\* then is gone (cron.go:242-265).
CallbacksAreSpaced ==
  \A j \in DOMAIN jobs :
    LET job == jobs[j]
    IN  job # NoJob /\ job.calls > 0 =>
          /\ clock > job.added + job.calls * job.after
          /\ job.kind = "once" => job.calls = 1 /\ calling = j

\* A job is due while the loop runs, or the tool is to stop; a loop whose callback uses
\* the tool is stuck for ever, with all that wait for it, and is not counted
\* (cron.go:220-265).
CronWaits == /\ cronLoop \notin {"none", "stuck", "stopped"}
             /\ stopAsked \/ \E j \in DOMAIN jobs : DueAt(j, clock)
=============================================================================
