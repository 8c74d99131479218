----------------------------- MODULE RateLimiter -----------------------------
(***************************************************************************)
(* The sliding-window rate limiter (internal/security/ratelimit.go), which *)
(* the manager makes and every agent asks before it handles a message      *)
(* (internal/agent/manager.go:61, agent.go:117).  Each operation holds the *)
(* mutex throughout, and so is one step; the hazard is in the times: what  *)
(* is forgotten, by which call, at which instant.                          *)
(***************************************************************************)
EXTENDS Integers, FiniteSets

CONSTANTS
  Session,
  Window,       \* in ticks of the clock
  MaxRequests,
  MaxTime,      \* bounds the clock
  MaxAsked      \* and the requests

ASSUME LimiterAssumption == Window \in Nat /\ MaxRequests \in Nat

VARIABLES
  now,       \* the clock
  limits,    \* the requests kept for each session; a missing key is an empty set
  cleaner,   \* whether the goroutine of StartAutoCleanup runs
  asked,     \* how many requests there have been: tells them apart
  granted,   \* history: the requests each session was granted
  refused    \* history: and refused

lvars == <<now, limits, cleaner, asked, granted, refused>>

Request == [n : Nat, at : Nat]

LimiterTypeOK ==
  /\ now \in Nat /\ asked \in Nat
  /\ limits \in [Session -> SUBSET Request]
  /\ cleaner \in {"off", "running", "stopped"}
  /\ granted \in [Session -> SUBSET Request]
  /\ refused \in [Session -> SUBSET Request]

LimiterInit == /\ now = 0 /\ asked = 0 /\ cleaner = "off"
               /\ limits = [s \in Session |-> {}]
               /\ granted = [s \in Session |-> {}]
               /\ refused = [s \in Session |-> {}]

\* The requests of R in the window that ends at t: those after its cutoff.
Within(R, t) == {r \in R : t - Window < r.at /\ r.at <= t}

\* Mutant: the request at the cutoff counts too.
ValidAtCutoff(R) == {r \in R : now - Window <= r.at}

\* What both loops keep of a session's requests.
Valid(R) == {r \in R : now - Window < r.at}

Allow(s) ==
  LET valid == Valid(limits[s])
      request == [n |-> asked, at |-> now]
  IN /\ asked < MaxAsked /\ asked' = asked + 1
     /\ \/ /\ Cardinality(valid) >= MaxRequests
           /\ limits' = [limits EXCEPT ![s] = valid]
           /\ refused' = [refused EXCEPT ![s] = @ \cup {request}]
           /\ UNCHANGED granted
        \/ /\ Cardinality(valid) < MaxRequests
           /\ limits' = [limits EXCEPT ![s] = valid \cup {request}]
           /\ granted' = [granted EXCEPT ![s] = @ \cup {request}]
           /\ UNCHANGED refused
     /\ UNCHANGED <<now, cleaner>>

Cleanup == /\ limits' = [s \in Session |-> Valid(limits[s])]
           /\ UNCHANGED <<now, cleaner, asked, granted, refused>>

\* The ticks of the cleaner may come at any time.
AutoCleanup == cleaner = "running" /\ Cleanup

StartAutoCleanup == /\ cleaner = "off" /\ cleaner' = "running"
                    /\ UNCHANGED <<now, limits, asked, granted, refused>>

StopAutoCleanup == /\ cleaner = "running" /\ cleaner' = "stopped"
                   /\ UNCHANGED <<now, limits, asked, granted, refused>>

Tick == /\ now < MaxTime /\ now' = now + 1
        /\ UNCHANGED <<limits, cleaner, asked, granted, refused>>

LimiterNext == \/ \E s \in Session : Allow(s)
               \/ AutoCleanup \/ StartAutoCleanup \/ StopAutoCleanup \/ Tick

LimiterSpec == LimiterInit /\ [][LimiterNext]_lvars

-----------------------------------------------------------------------------
\* No window of time, wherever it ends and whatever was forgotten since, holds
\* more granted requests of a session than the maximum (ratelimit.go:38-53,
\* 64-76).
NeverOver ==
  \A s \in Session : \A t \in 0 .. now :
    Cardinality(Within(granted[s], t)) <= MaxRequests

\* And a request is refused only when the window that ends with it is full of
\* requests granted before it (ratelimit.go:47-50).
NeverUnder ==
  \A s \in Session : \A r \in refused[s] :
    Cardinality({g \in Within(granted[s], r.at) : g.n < r.n}) >= MaxRequests

LimitIsExact == NeverOver /\ NeverUnder
=============================================================================
