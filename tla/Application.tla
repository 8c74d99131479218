----------------------------- MODULE Application -----------------------------
(***************************************************************************)
(* The program from its start to its end (cmd/wunderpus/main.go,           *)
(* app/app.go): Bootstrap opens the two databases (db/db.go) and builds    *)
(* the parts on them, a command runs, and Close takes down what Bootstrap  *)
(* built.  The loops that commands start begin work of their own, which    *)
(* reads and writes the databases, and which nobody but the heartbeat's    *)
(* Stop waits for.  What the parts do is the other modules'.               *)
(***************************************************************************)
EXTENDS Integers, Sequences

CONSTANT Command   \* among "status", "gateway", "web", "terminal", "oneshot"

VARIABLES
  command,
  step,      \* the step of Bootstrap, or of Close, that is next
  progress,  \* where the program is
  dbs,       \* the databases that are open
  loops,     \* what runs that begins work
  busy,      \* the work that is under way
  cancelled, \* the context of the gateway
  late       \* history: the work that ended when the core database was closed

appvars == <<command, step, progress, dbs, loops, busy, cancelled, late>>

\* Bootstrap's steps that may fail; those before the databases leave nothing open.
Steps == <<"config", "core", "audit", "key", "audit log", "providers", "sandbox",
           "embeddings", "memory">>

\* Close: what has no loop of its own here (improver, browser, health) is left out.
Closing == <<"heartbeat", "channels", "databases">>

Work == {"first beat", "beat", "question"}
Loop == {"heartbeat", "channels", "web", "terminal"}

AppTypeOK ==
  /\ command \in Command /\ step \in 1 .. Len(Steps) + 1
  /\ progress \in {"boot", "begin", "wait", "stop web", "close", "closed", "returned", "exited"}
  /\ dbs \in SUBSET {"core", "audit"} /\ loops \in SUBSET Loop
  /\ busy \in SUBSET Work /\ cancelled \in BOOLEAN /\ late \in SUBSET Work

AppInit == /\ command \in Command /\ step = 1 /\ progress = "boot" /\ dbs = {}
           /\ loops = {} /\ busy = {} /\ cancelled = FALSE /\ late = {}

\* How a command ends that could not start, or that failed: main returns, or
\* os.Exit, which leaves out the deferred Close.
Abandoned == IF command \in {"status", "gateway"} THEN "returned" ELSE "exited"

-----------------------------------------------------------------------------
\* db.Open, and every other step of Bootstrap that succeeds; what fails without
\* consequence (tool synthesis, world model, perception) is no step.
BootStep ==
  /\ progress = "boot" /\ step <= Len(Steps) /\ step' = step + 1
  /\ dbs' = IF Steps[step] \in {"core", "audit"} THEN dbs \cup {Steps[step]} ELSE dbs
  /\ UNCHANGED <<command, progress, loops, busy, cancelled, late>>

\* Mutant: the databases stay open where the sandbox fails.
BootFailsOpen ==
  /\ progress = "boot" /\ step <= Len(Steps)
  /\ progress' = Abandoned
  /\ dbs' = IF Steps[step] = "sandbox" THEN dbs ELSE {}
  /\ UNCHANGED <<command, step, loops, busy, cancelled, late>>

\* A step fails: what is open is closed.
BootFails ==
  /\ progress = "boot" /\ step <= Len(Steps)
  /\ progress' = Abandoned /\ dbs' = {}
  /\ UNCHANGED <<command, step, loops, busy, cancelled, late>>

Booted == /\ progress = "boot" /\ step = Len(Steps) + 1 /\ progress' = "begin"
          /\ UNCHANGED <<command, step, dbs, loops, busy, cancelled, late>>

-----------------------------------------------------------------------------
\* The gateway: channels that start, or fail to, and the heartbeat, which is off,
\* or begins its first run at once.
RunGateway ==
  /\ progress = "begin" /\ command = "gateway" /\ progress' = "wait"
  /\ \E begun \in SUBSET {"channels", "heartbeat"} :
       /\ loops' = begun
       /\ busy' = IF "heartbeat" \in begun THEN {"first beat"} ELSE {}
  /\ UNCHANGED <<command, step, dbs, cancelled, late>>

\* runAgent: the web server, or the terminal; either may fail at once.
RunAgent ==
  /\ progress = "begin" /\ command \in {"web", "terminal"}
  /\ \/ progress' = "wait" /\ loops' = {command}
     \/ progress' = "exited" /\ UNCHANGED loops
  /\ UNCHANGED <<command, step, dbs, busy, cancelled, late>>

\* runOneShot asks itself; an error leaves by os.Exit.
RunOneShot ==
  /\ progress = "begin" /\ command = "oneshot"
  /\ \/ progress' = "close" /\ step' = 1
     \/ progress' = "exited" /\ UNCHANGED step
  /\ UNCHANGED <<command, dbs, loops, busy, cancelled, late>>

\* status, cron, skills and auth look, and return.
RunStatus == /\ progress = "begin" /\ command = "status" /\ progress' = "close" /\ step' = 1
             /\ UNCHANGED <<command, dbs, loops, busy, cancelled, late>>

\* The signal, or the user leaves the terminal; the gateway's cancel is deferred
\* after Close, and so runs before it: channels that listen to it end too.
Interrupt ==
  /\ progress = "wait" /\ cancelled' = (command = "gateway") /\ step' = 1
  /\ progress' = IF command = "web" THEN "stop web" ELSE "close"
  /\ loops' = loops \ {"terminal"}
  /\ UNCHANGED <<command, dbs, busy, late>>

TerminalFails == /\ progress = "wait" /\ command = "terminal" /\ progress' = "exited"
                 /\ UNCHANGED <<command, step, dbs, loops, busy, cancelled, late>>

StopWeb == /\ progress = "stop web" /\ progress' = "close" /\ loops' = loops \ {"web"}
           /\ UNCHANGED <<command, step, dbs, busy, cancelled, late>>

-----------------------------------------------------------------------------
Alive == progress \notin {"returned", "exited"}

\* A message, or a beat; the loop of the heartbeat sees the end of the context.
BeginWork(w) == /\ Alive /\ w \notin busy /\ busy' = busy \cup {w}
                /\ \/ w = "beat" /\ "heartbeat" \in loops /\ ~cancelled
                   \/ w = "question" /\ loops \cap {"channels", "web", "terminal"} # {}
                /\ UNCHANGED <<command, step, progress, dbs, loops, cancelled, late>>

FinishWork(w) == /\ Alive /\ w \in busy /\ busy' = busy \ {w}
                 /\ late' = IF "core" \in dbs THEN late ELSE late \cup {w}
                 /\ UNCHANGED <<command, step, progress, dbs, loops, cancelled>>

\* Close, a part at a time; the heartbeat waits for the run of its loop.
CloseStep ==
  /\ progress = "close" /\ step <= Len(Closing) /\ step' = step + 1
  /\ Closing[step] = "heartbeat" => "beat" \notin busy
  /\ loops' = loops \ {Closing[step]}
  /\ dbs' = IF Closing[step] = "databases" THEN {} ELSE dbs
  /\ progress' = IF step = Len(Closing) THEN "closed" ELSE progress
  /\ UNCHANGED <<command, busy, cancelled, late>>

\* main returns, and what is still under way ends with it.
MainReturns == /\ progress = "closed" /\ progress' = "returned" /\ busy' = {}
               /\ UNCHANGED <<command, step, dbs, loops, cancelled, late>>

Ending == StopWeb \/ CloseStep \/ MainReturns

AppNext ==
  \/ BootStep \/ BootFails \/ Booted
  \/ RunGateway \/ RunAgent \/ RunOneShot \/ RunStatus
  \/ Interrupt \/ TerminalFails
  \/ \E w \in Work : BeginWork(w) \/ FinishWork(w)
  \/ Ending

-----------------------------------------------------------------------------
\* A program that returns, wherever Bootstrap failed and whatever it ran, has
\* closed both databases; and so has one that leaves by os.Exit before it is up
\* (app.go:57-145, 316-335).
ReturnsClosed ==
  (progress = "returned" \/ (progress = "exited" /\ step <= Len(Steps))) => dbs = {}

\* Once the databases are closed nothing begins, and no run of the heartbeat's loop
\* is under way: only its first run, and questions, can meet the closed database
\* (app.go:316-335, scheduler.go:73, 99-103).
OnlyStragglersAreLate ==
  /\ progress = "closed" => loops = {} /\ "beat" \notin busy
  /\ late \subseteq {"first beat", "question"}

AppEndsWell == ReturnsClosed /\ OnlyStragglersAreLate

\* A program that was told to end has not returned (main.go:130-136, app.go:316-335).
AppWaits == progress \in {"stop web", "close"}
=============================================================================
