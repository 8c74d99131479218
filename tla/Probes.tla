------------------------------- MODULE Probes -------------------------------
(***************************************************************************)
(* The router's other ways to an answer (internal/provider: router.go,     *)
(* fallback.go): CompleteParallel asks the healthy providers all at once,  *)
(* EnhancedFallback one after the other with a record of its attempts, and *)
(* GetProviderHealth reports on all.  They share the failure counts under  *)
(* a read-write lock that lets no reader in while a writer waits, and two  *)
(* of them read under it twice.                                            *)
(***************************************************************************)
EXTENDS Integers, Sequences, FiniteSets

CONSTANTS
  Probed,        \* the providers
  Primary,       \* the active one
  Spares,        \* how many models EnhancedFallback has for it
  Watcher, Racer, Faller, \* who calls the three
  MaxProviders,  \* the limit of the configuration, 0 for none
  Tolerated,     \* a provider with more failures is unhealthy: 5 in the code
  Heated         \* more failures in one call than this start its cooldown: 5

ASSUME ProbesAssumption ==
  /\ Primary \in Probed /\ IsFiniteSet(Probed) /\ Racer \cap Faller = {}
  /\ Spares \in Nat /\ MaxProviders \in Nat /\ Tolerated \in Nat /\ Heated \in Nat

Process == Watcher \cup Racer \cup Faller

VARIABLES
  reading,   \* how often each process holds the lock for reading
  pending,   \* the processes that wait to write, and what: a provider and the verdict
  failures,  \* of each provider, up to what makes it unhealthy
  stage,     \* how far the call of each process is
  unseen,    \* the providers its loop has not come to
  models,    \* of a Faller: how many models of the active provider are left
  probes,    \* of a Racer: the providers it asked, and what became of each
  results,   \* of a Racer: its channel
  trials     \* of a Faller: the attempts, by provider: "failed", "skipped" or "hot"

pbvars == <<reading, pending, failures, stage, unseen, models, probes, results, trials>>

ProbesTypeOK ==
  /\ reading \in [Process -> 0 .. 1]
  /\ \A p \in DOMAIN pending : p \in Process /\ pending[p] \in Probed \X BOOLEAN
  /\ failures \in [Probed -> 0 .. Tolerated + 1]
  /\ stage \in [Process -> {"idle", "listing", "racing", "models", "others",
                            "answered", "failed"}]
  /\ unseen \in [Process -> SUBSET Probed] /\ models \in [Faller -> 0 .. Spares + 1]
  /\ \A r \in Racer : probes[r] \in UNION {[s -> {"asked", "good", "bad"}] : s \in SUBSET Probed}
                      /\ results[r] \in Seq(Probed \X BOOLEAN)
  /\ \A f \in Faller : \A n \in DOMAIN trials[f] :
       trials[f][n] \in Probed \X {"failed", "skipped", "hot"}

ProbesInit ==
  /\ reading = [p \in Process |-> 0] /\ pending = <<>>
  /\ failures \in [Probed -> {0, Tolerated + 1}]
  /\ stage = [p \in Process |-> "idle"] /\ unseen = [p \in Process |-> {}]
  /\ models = [f \in Faller |-> 0]
  /\ probes = [r \in Racer |-> <<>>] /\ results = [r \in Racer |-> <<>>]
  /\ trials = [f \in Faller |-> <<>>]

Waiting(p) == p \in DOMAIN pending
Healthy(q) == failures[q] <= Tolerated

\* RLock, and the second one that isHealthy takes, wait for the writers that wait.
MayRead == DOMAIN pending = {}

Stage(p, s) == stage' = [stage EXCEPT ![p] = s]

\* recordSuccess and recordFailure: wait to write, and write when nobody reads.
Record(p, q, good) == pending' = [w \in DOMAIN pending \cup {p} |->
                                    IF w = p THEN <<q, good>> ELSE pending[w]]

WriteFailures(p) ==
  /\ Waiting(p) /\ \A w \in Process : reading[w] = 0
  /\ LET q == pending[p][1] IN
     failures' = [failures EXCEPT ![q] = IF pending[p][2] THEN 0
                                         ELSE IF @ > Tolerated THEN @ ELSE @ + 1]
  /\ pending' = [w \in DOMAIN pending \ {p} |-> pending[w]]
  /\ UNCHANGED <<reading, stage, unseen, probes, results, trials, models>>

-----------------------------------------------------------------------------
\* GetProviderHealth and the beginning of CompleteParallel: under the lock, each
\* provider is asked for under the lock again.
List(p) ==
  /\ p \in Watcher \cup Racer /\ stage[p] = "idle" /\ MayRead
  /\ reading' = [reading EXCEPT ![p] = 1]
  /\ Stage(p, "listing") /\ unseen' = [unseen EXCEPT ![p] = Probed]
  /\ UNCHANGED <<pending, failures, probes, results, trials, models>>

AskHealth(p, q) ==
  /\ stage[p] = "listing" /\ q \in unseen[p] /\ MayRead
  /\ unseen' = [unseen EXCEPT ![p] = @ \ {q}]
  /\ probes' = IF p \in Racer /\ Healthy(q)
                 THEN [probes EXCEPT ![p] = [s \in DOMAIN @ \cup {q} |-> "asked"]] ELSE probes
  /\ UNCHANGED <<reading, pending, failures, stage, results, trials, models>>

ReportHealth(w) ==
  /\ w \in Watcher /\ stage[w] = "listing" /\ unseen[w] = {}
  /\ reading' = [reading EXCEPT ![w] = 0] /\ Stage(w, "answered")
  /\ UNCHANGED <<pending, failures, unseen, probes, results, trials, models>>

\* Mutant: the lock is kept when there is nobody to ask.
LaunchHeld(r) ==
  /\ r \in Racer /\ stage[r] = "listing" /\ unseen[r] = {}
  /\ reading' = [reading EXCEPT ![r] = IF DOMAIN probes[r] = {} THEN 1 ELSE 0]
  /\ Stage(r, IF DOMAIN probes[r] = {} THEN "failed" ELSE "racing")
  /\ UNCHANGED <<pending, failures, unseen, probes, results, trials, models>>

\* The healthy providers, as many as the configuration lets in, are asked at once.
LaunchProbes(r) ==
  /\ r \in Racer /\ stage[r] = "listing" /\ unseen[r] = {}
  /\ reading' = [reading EXCEPT ![r] = 0]
  /\ IF DOMAIN probes[r] = {} THEN Stage(r, "failed") /\ UNCHANGED probes
     ELSE /\ Stage(r, "racing")
          /\ \E s \in SUBSET DOMAIN probes[r] :
               /\ IF MaxProviders = 0 \/ Cardinality(DOMAIN probes[r]) <= MaxProviders
                    THEN s = DOMAIN probes[r] ELSE Cardinality(s) = MaxProviders
               /\ probes' = [probes EXCEPT ![r] = [q \in s |-> "asked"]]
  /\ UNCHANGED <<pending, failures, unseen, results, trials, models>>

\* The channel has room for every result, so that none is dropped.
Deliver(r, answer) == IF Len(results[r]) < Cardinality(DOMAIN probes[r])
                        THEN Append(results[r], answer) ELSE results[r]

\* A provider answers or fails, at the latest when the timeout of the call is over.
ProbeEnds(r, q) ==
  /\ stage[r] # "listing" /\ q \in DOMAIN probes[r] /\ probes[r][q] = "asked"
  /\ \E good \in BOOLEAN :
       /\ (good => stage[r] = "racing")    \* a call that returned has cancelled the rest
       /\ probes' = [probes EXCEPT ![r][q] = IF good THEN "good" ELSE "bad"]
       /\ results' = [results EXCEPT ![r] = Deliver(r, <<q, good>>)]
  /\ UNCHANGED <<reading, pending, failures, stage, unseen, trials, models>>

\* The first good result is recorded and returned; failures are recorded nowhere.
Collect(r) ==
  /\ r \in Racer /\ stage[r] = "racing" /\ ~Waiting(r) /\ results[r] # <<>>
  /\ results' = [results EXCEPT ![r] = Tail(@)]
  /\ IF Head(results[r])[2]
       THEN Stage(r, "answered") /\ Record(r, Head(results[r])[1], TRUE)
       ELSE UNCHANGED <<stage, pending>>
  /\ UNCHANGED <<reading, failures, unseen, probes, trials, models>>

NoneLeft(r) ==
  /\ r \in Racer /\ stage[r] = "racing" /\ results[r] = <<>>
  /\ \A q \in DOMAIN probes[r] : probes[r][q] # "asked"
  /\ Stage(r, "failed")
  /\ UNCHANGED <<reading, pending, failures, unseen, probes, results, trials, models>>

-----------------------------------------------------------------------------
\* EnhancedFallback: the cooldowns are those of this call alone.
Tried(f, q, how) == trials' = [trials EXCEPT ![f] = Append(@, <<q, how>>)]
Hot(f, q) == Cardinality({n \in DOMAIN trials[f] : trials[f][n] = <<q, "failed">>}) > Heated

Fall(f) ==
  /\ f \in Faller /\ stage[f] = "idle" /\ Stage(f, "models")
  /\ models' = [models EXCEPT ![f] = 1 + Spares]
  /\ UNCHANGED <<reading, pending, failures, unseen, probes, results, trials>>

\* The next model of the active provider.  What it says decides on its other models: an
\* error that another attempt could not mend, a quota for one, ends them.
TryModel(f) ==
  /\ f \in Faller /\ stage[f] = "models" /\ ~Waiting(f) /\ models[f] > 0
  /\ IF Hot(f, Primary)
       THEN /\ Tried(f, Primary, "hot") /\ models' = [models EXCEPT ![f] = @ - 1]
            /\ UNCHANGED <<pending, stage>>
       ELSE \/ /\ Record(f, Primary, TRUE) /\ Stage(f, "answered") /\ UNCHANGED <<models, trials>>
            \/ /\ Record(f, Primary, FALSE) /\ Tried(f, Primary, "failed")
               /\ \E again \in BOOLEAN :
                    models' = [models EXCEPT ![f] = IF again THEN @ - 1 ELSE 0]
               /\ UNCHANGED stage
  /\ UNCHANGED <<reading, failures, unseen, probes, results>>

TurnToOthers(f) ==
  /\ f \in Faller /\ stage[f] = "models" /\ ~Waiting(f) /\ models[f] = 0
  /\ Stage(f, "others") /\ unseen' = [unseen EXCEPT ![f] = Probed \ {Primary}]
  /\ UNCHANGED <<reading, pending, failures, models, probes, results, trials>>

\* Any other provider, when it is healthy, is asked for the model of the request.
TryOther(f, q) ==
  /\ f \in Faller /\ stage[f] = "others" /\ ~Waiting(f) /\ q \in unseen[f] /\ MayRead
  /\ unseen' = [unseen EXCEPT ![f] = @ \ {q}]
  /\ IF ~Healthy(q) THEN Tried(f, q, "skipped") /\ UNCHANGED <<pending, stage>>
     ELSE \/ Record(f, q, TRUE) /\ Stage(f, "answered") /\ UNCHANGED trials
          \/ Record(f, q, FALSE) /\ Tried(f, q, "failed") /\ UNCHANGED stage
  /\ UNCHANGED <<reading, failures, models, probes, results>>

GiveUp(f) ==
  /\ f \in Faller /\ stage[f] = "others" /\ ~Waiting(f) /\ unseen[f] = {}
  /\ Stage(f, "failed")
  /\ UNCHANGED <<reading, pending, failures, unseen, models, probes, results, trials>>

CallStep(p) ==
  \/ WriteFailures(p) \/ \E q \in Probed : AskHealth(p, q) \/ TryOther(p, q)
  \/ ReportHealth(p) \/ LaunchProbes(p) \/ Collect(p) \/ NoneLeft(p)
  \/ TryModel(p) \/ TurnToOthers(p) \/ GiveUp(p)

ProbesNext == \/ \E p \in Process : List(p) \/ Fall(p) \/ CallStep(p)
              \/ \E r \in Racer, q \in Probed : ProbeEnds(r, q)

-----------------------------------------------------------------------------
\* A race is lost only when every provider it asked has failed, and a fallback only when
\* every provider failed in it or was unhealthy; a model is left untried only after a
\* failure that no other attempt can mend, or after more failures than are tolerated.
LosersAskedAll ==
  /\ \A r \in Racer : stage[r] = "failed" => \A q \in DOMAIN probes[r] : probes[r][q] = "bad"
  /\ \A f \in Faller : stage[f] = "failed" =>
       /\ Probed = {trials[f][n][1] : n \in DOMAIN trials[f]}
       /\ \A n \in DOMAIN trials[f] : trials[f][n][2] = "hot" => n > Heated

\* Who reads twice waits for itself when a writer comes between (router.go:272, 295).
SelfLocked == /\ DOMAIN pending # {}
              /\ \E p \in Process : reading[p] > 0 /\ stage[p] = "listing" /\ unseen[p] # {}

InCall(p) == stage[p] \in {"listing", "racing", "models", "others"} \/ Waiting(p)

\* A call has not ended, or not given every lock back, and it is not that a call that
\* reads twice has locked itself out.
CallersWait == ~SelfLocked /\ \E p \in Process : InCall(p) \/ reading[p] > 0
=============================================================================
