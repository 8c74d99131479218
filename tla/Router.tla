------------------------------- MODULE Router -------------------------------
(***************************************************************************)
(* provider.Router (internal/provider/router.go): SetActive and            *)
(* CompleteWithFallback, which tries the active provider with each of its  *)
(* models, then every other healthy provider, and keeps failure counts.    *)
(*                                                                         *)
(* The active provider is two fields, its name and its object, written and *)
(* read without the mutex: each access is a step of its own.  The counts   *)
(* are changed under it.  A name stands for the provider Target gives; the *)
(* name of a protocol is an alias of the first provider that speaks it, and*)
(* shares its statistics (router.go:85-95).                                *)
(***************************************************************************)
EXTENDS Integers, FiniteSets

CONSTANTS
  Name,       \* the names providers are registered under
  Target,     \* the provider of each name, itself a name
  Models,     \* how many models each provider has, its default among them
  Caller,     \* the goroutines that call CompleteWithFallback
  FailLimit,  \* a provider with more failures is not healthy: 5
  None        \* no name

ASSUME TargetAssumption == /\ Target \in [Name -> Name]
                           /\ \A n \in Name : Target[Target[n]] = Target[n]
ASSUME ModelsAssumption == Models \in [Name -> Nat \ {0}]
ASSUME LimitAssumption == FailLimit \in Nat
ASSUME NoneAssumption == None \notin Name

Provider == {Target[n] : n \in Name}

VARIABLES
  activeName, activeProvider,
  setter,     \* {}: idle, {n}: SetActive(n) has written the name only
  pc,         \* where each caller is
  prov, name, \* its copies of the active provider and name
  left,       \* the models it has not tried
  todo,       \* the names its range over the map has not visited
  cur,        \* the name it is visiting
  failCount,  \* of each provider; more than FailLimit + 1 makes no difference
  recent,     \* whether it counts failures and the last is younger than five minutes
  \* What happened, for the properties:
  failed,     \* the requests each provider has failed since it last answered one;
              \* not kept for those in doubtful
  torn,       \* the callers whose two reads a SetActive overlapped and that hold
              \* one provider and the name of another
  doubtful,   \* the providers a torn call charged or left uncharged, until they
              \* answer a call that was not torn
  done, passed \* of each call: the providers it tried or found unhealthy, and the
               \* names it left out as active

active == <<activeName, activeProvider, setter>>
stats == <<failCount, recent, failed, doubtful>>
call == <<pc, prov, name, left, todo, cur, torn>>
seen == <<done, passed>>
read == <<prov, name, left, torn>>
vars == <<active, stats, call, seen>>

Count == 0 .. FailLimit + 1

TypeOK == /\ activeName \in Name /\ activeProvider \in Provider
          /\ setter \in SUBSET Name
          /\ pc \in [Caller -> {"idle", "name", "models", "others", "trying"}]
          /\ prov \in [Caller -> Provider \cup {None}]
          /\ name \in [Caller -> Name \cup {None}]
          /\ left \in [Caller -> Nat]
          /\ todo \in [Caller -> SUBSET Name]
          /\ cur \in [Caller -> Name \cup {None}]
          /\ failCount \in [Provider -> Count] /\ recent \in [Provider -> BOOLEAN]
          /\ failed \in [Provider -> Count]
          /\ torn \in SUBSET Caller /\ doubtful \in SUBSET Provider
          /\ done \in [Caller -> SUBSET Provider]
          /\ passed \in [Caller -> SUBSET Name]

Init == /\ activeName \in Name /\ activeProvider = Target[activeName]
        /\ setter = {}
        /\ pc = [c \in Caller |-> "idle"]
        /\ prov = [c \in Caller |-> None] /\ name = [c \in Caller |-> None]
        /\ left = [c \in Caller |-> 0] /\ todo = [c \in Caller |-> {}]
        /\ cur = [c \in Caller |-> None]
        /\ failCount = [p \in Provider |-> 0] /\ failed = failCount
        /\ recent = [p \in Provider |-> FALSE] /\ torn = {} /\ doubtful = {}
        /\ done = [c \in Caller |-> {}] /\ passed = [c \in Caller |-> {}]

-----------------------------------------------------------------------------
\* SetActive, called by the user interface.

\* The callers between their reads are torn.
Tear == /\ torn' = torn \cup {c \in Caller : pc[c] = "name"}
        /\ UNCHANGED <<stats, pc, prov, name, left, todo, cur, seen>>

SetName(n) == /\ setter = {} /\ setter' = {n} /\ activeName' = n
              /\ UNCHANGED activeProvider /\ Tear

SetProvider == \E n \in setter :
                 /\ activeProvider' = Target[n] /\ setter' = {}
                 /\ UNCHANGED activeName /\ Tear

\* Statistics, under the mutex.

Incremented(k) == IF k > FailLimit THEN k ELSE k + 1

RecordSuccess(p) == /\ failCount' = [failCount EXCEPT ![p] = 0]
                    /\ recent' = [recent EXCEPT ![p] = FALSE]

RecordFailure(p) == /\ failCount' = [failCount EXCEPT ![p] = Incremented(@)]
                    /\ recent' = [recent EXCEPT ![p] = TRUE]

isHealthy(p) == ~(failCount[p] > FailLimit /\ recent[p])

\* Five minutes pass since a failure.
Elapse(p) == /\ recent[p] /\ recent' = [recent EXCEPT ![p] = FALSE]
             /\ UNCHANGED <<active, failCount, failed, doubtful, call, seen>>

\* Provider p answers or fails a request that is charged to the name n; x when the
\* call that charges it is torn.
Charge(p, n, x, rest, k) ==
  /\ doubtful' = IF x THEN doubtful \cup {p, Target[n]} ELSE rest
  /\ failed' = [q \in Provider |-> IF q \in doubtful' THEN 0
                                   ELSE IF q = p THEN k ELSE failed[q]]

Answered(p, n, x) == RecordSuccess(Target[n]) /\ Charge(p, n, x, doubtful \ {p}, 0)
Failed(p, n, x) == /\ RecordFailure(Target[n])
                   /\ Charge(p, n, x, doubtful, Incremented(failed[p]))

-----------------------------------------------------------------------------
\* CompleteWithFallback.

Goto(c, l) == pc' = [pc EXCEPT ![c] = l]

\* With an answer or an error; the locals of a call go with it.
Return(c) == /\ Goto(c, "idle")
             /\ prov' = [prov EXCEPT ![c] = None]
             /\ name' = [name EXCEPT ![c] = None]
             /\ left' = [left EXCEPT ![c] = 0]
             /\ todo' = [todo EXCEPT ![c] = {}]
             /\ cur' = [cur EXCEPT ![c] = None]
             /\ done' = [done EXCEPT ![c] = {}]
             /\ passed' = [passed EXCEPT ![c] = {}]
             /\ torn' = torn \ {c}

ReadProvider(c) == /\ pc[c] = "idle" /\ Goto(c, "name")
                   /\ prov' = [prov EXCEPT ![c] = activeProvider]
                   /\ torn' = IF setter = {} THEN torn ELSE torn \cup {c}
                   /\ UNCHANGED <<active, stats, name, left, todo, cur, seen>>

\* The models tried are those of the provider the name stands for.
ReadName(c) == /\ pc[c] = "name" /\ Goto(c, "models")
               /\ name' = [name EXCEPT ![c] = activeName]
               /\ left' = [left EXCEPT ![c] = Models[Target[activeName]]]
               /\ torn' = IF prov[c] = Target[activeName] THEN torn \ {c} ELSE torn
               /\ UNCHANGED <<active, stats, prov, todo, cur, seen>>

ModelAnswers(c) == /\ pc[c] = "models" /\ Return(c)
                   /\ Answered(prov[c], name[c], c \in torn)
                   /\ UNCHANGED active

FailsWith(c, n) == /\ pc[c] = "models" /\ Failed(prov[c], n, c \in torn)
                   /\ done' = [done EXCEPT ![c] = @ \cup {prov[c]}]
                   /\ left' = [left EXCEPT ![c] = @ - 1]
                   /\ UNCHANGED <<active, prov, name, cur, passed>>

TryNext(c, more) ==
  IF more THEN UNCHANGED <<pc, todo, torn>>
  ELSE Goto(c, "others") /\ todo' = [todo EXCEPT ![c] = Name] /\ torn' = torn \ {c}

\* Mutant: the failure is charged to the provider that is active when it comes.
ModelFailsLate(c) == FailsWith(c, activeName) /\ TryNext(c, left[c] > 1)

\* Mutant: the models are counted from one too many.
ModelFailsOnceMore(c) == FailsWith(c, name[c]) /\ TryNext(c, left[c] >= 0)

ModelFails(c) == FailsWith(c, name[c]) /\ TryNext(c, left[c] > 1)

\* The next name of the range, in the order of the map: any.
Pass(c, n) == /\ pc[c] = "others" /\ n \in todo[c] /\ n = activeName
              /\ todo' = [todo EXCEPT ![c] = @ \ {n}]
              /\ passed' = [passed EXCEPT ![c] = @ \cup {n}]
              /\ UNCHANGED <<active, stats, pc, read, cur, done>>

Skip(c, n) == /\ pc[c] = "others" /\ n \in todo[c] \ {activeName}
              /\ ~isHealthy(Target[n])
              /\ todo' = [todo EXCEPT ![c] = @ \ {n}]
              /\ done' = [done EXCEPT ![c] = @ \cup {Target[n]}]
              /\ UNCHANGED <<active, stats, pc, read, cur, passed>>

Try(c, n) == /\ pc[c] = "others" /\ n \in todo[c] \ {activeName}
             /\ isHealthy(Target[n]) /\ Goto(c, "trying")
             /\ todo' = [todo EXCEPT ![c] = @ \ {n}]
             /\ cur' = [cur EXCEPT ![c] = n]
             /\ UNCHANGED <<active, stats, read, seen>>

OtherAnswers(c) == /\ pc[c] = "trying" /\ Return(c)
                   /\ Answered(Target[cur[c]], cur[c], FALSE)
                   /\ UNCHANGED active

Unanswered(c) == /\ pc[c] = "trying" /\ Goto(c, "others")
                 /\ Failed(Target[cur[c]], cur[c], FALSE)
                 /\ done' = [done EXCEPT ![c] = @ \cup {Target[cur[c]]}]
                 /\ cur' = [cur EXCEPT ![c] = None]
                 /\ UNCHANGED <<active, read, passed>>

\* Mutant: the first alternative that fails ends the range.
FirstOtherFails(c) == Unanswered(c) /\ todo' = [todo EXCEPT ![c] = {}]

OtherFails(c) == Unanswered(c) /\ UNCHANGED todo

Exhausted(c) == pc[c] = "others" /\ todo[c] = {}

AllFailed(c) == /\ Exhausted(c) /\ Return(c)
                /\ UNCHANGED <<active, stats>>

Complete(c) == \/ ReadName(c) \/ ModelAnswers(c) \/ ModelFails(c)
               \/ \E n \in Name : Pass(c, n) \/ Skip(c, n) \/ Try(c, n)
               \/ OtherAnswers(c) \/ OtherFails(c) \/ AllFailed(c)

Next == \/ \E n \in Name : SetName(n)
        \/ SetProvider
        \/ \E p \in Provider : Elapse(p)
        \/ \E c \in Caller : ReadProvider(c) \/ Complete(c)

Spec == Init /\ [][Next]_vars

-----------------------------------------------------------------------------
\* Properties.

\* The count a provider is judged by is the number of requests it failed since it
\* last answered one, in whatever order the calls of all callers end and SetActive
\* moves on while they run.  Only a call whose two reads SetActive overlapped may
\* miscount, and only until the provider next answers (router.go:165-242).
CountsAreExact == \A p \in Provider \ doubtful : failCount[p] = failed[p]

\* A call gives up only after every provider was tried by it or found
\* unhealthy, but for one that became active during the call
\* (router.go:195-216).
GivesUpLast ==
  \A c \in Caller : Exhausted(c) => \A n \in Name :
    \/ Target[n] \in done[c]
    \/ n \in passed[c] /\ (n # name[c] \/ prov[c] # Target[name[c]])
=============================================================================
