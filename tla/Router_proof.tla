---------------------------- MODULE Router_proof ----------------------------
(***************************************************************************)
(* Proofs about Router: for any providers, aliases, models, callers and    *)
(* failure limit.                                                          *)
(***************************************************************************)
EXTENDS Router, TLAPS

\* What a caller holds where it is.
Locals ==
  \A c \in Caller :
    /\ pc[c] \in {"name", "models", "others", "trying"} => prov[c] \in Provider
    /\ pc[c] \in {"models", "others", "trying"} => name[c] \in Name
    /\ pc[c] = "models" => left[c] > 0
    /\ pc[c] = "trying" => cur[c] \in Name

\* A caller past its first provider has tried it, and has every name ahead of
\* it, at hand, or accounted for.
Covered ==
  \A c \in Caller : pc[c] \in {"others", "trying"} =>
    /\ prov[c] \in done[c]
    /\ \A n \in Name :
         \/ n \in todo[c]
         \/ pc[c] = "trying" /\ cur[c] = n
         \/ Target[n] \in done[c]
         \/ n \in passed[c] /\ (n # name[c] \/ prov[c] # Target[name[c]])

\* With no SetActive under way the two fields agree, and a call that none overlapped
\* holds the provider its name stands for.
Whole == /\ setter = {} => activeProvider = Target[activeName]
         /\ setter \subseteq {activeName}
         /\ \A c \in Caller \ torn :
              /\ pc[c] = "name" => setter = {} /\ prov[c] = activeProvider
              /\ pc[c] = "models" => prov[c] = Target[name[c]]

IInv == TypeOK /\ Locals /\ Whole /\ CountsAreExact /\ Covered

-----------------------------------------------------------------------------
LEMMA TargetsAreProviders == \A n \in Name : Target[n] \in Provider
  BY DEF Provider

LEMMA Saturates == \A k \in Count : Incremented(k) \in Count
  BY LimitAssumption DEF Count, Incremented

\* A request that provider p answered or failed, charged to the name n, keeps the
\* counts typed, and those of the providers that are not in doubt exact.
LEMMA Charged ==
  ASSUME TypeOK, CountsAreExact, NEW p \in Provider, NEW n \in Name,
         NEW x, x \/ p = Target[n], Answered(p, n, x) \/ Failed(p, n, x)
  PROVE  /\ failCount' \in [Provider -> Count] /\ recent' \in [Provider -> BOOLEAN]
         /\ failed' \in [Provider -> Count] /\ doubtful' \in SUBSET Provider
         /\ CountsAreExact'
<1>. USE DEF TypeOK, Charge
<1>1. Target[n] \in Provider /\ 0 \in Count
  BY TargetsAreProviders, LimitAssumption DEF Count
<1>2. CASE Answered(p, n, x)
  BY <1>1, <1>2 DEF Answered, RecordSuccess, CountsAreExact
<1>3. CASE Failed(p, n, x)
  <2>1. /\ failCount' = [failCount EXCEPT ![Target[n]] = Incremented(failCount[Target[n]])]
        /\ recent' = [recent EXCEPT ![Target[n]] = TRUE]
    BY <1>3 DEF Failed, RecordFailure
  <2>2. Incremented(failCount[Target[n]]) \in Count /\ Incremented(failed[p]) \in Count
    BY <1>1, Saturates
  <2>3. /\ failCount' \in [Provider -> Count] /\ recent' \in [Provider -> BOOLEAN]
        /\ failed' \in [Provider -> Count] /\ doubtful' \in SUBSET Provider
    BY <1>1, <1>3, <2>1, <2>2 DEF Failed
  <2>4. ASSUME NEW q \in Provider \ doubtful' PROVE failCount'[q] = failed'[q]
    <3>1. q \notin doubtful /\ failCount[q] = failed[q]
      BY <1>3, <2>4 DEF Failed, CountsAreExact
    <3>2. q = p <=> q = Target[n]
      BY <1>3, <2>4 DEF Failed
    <3>3. failed'[q] = IF q = p THEN Incremented(failed[p]) ELSE failed[q]
      BY <1>3, <2>4 DEF Failed
    <3>4. failCount'[q] = IF q = Target[n] THEN Incremented(failCount[Target[n]])
                          ELSE failCount[q]
      BY <2>1
    <3>. QED
      BY <3>1, <3>2, <3>3, <3>4
  <2>. QED
    BY <2>3, <2>4 DEF CountsAreExact
<1>. QED
  BY <1>2, <1>3

\* A call that returns leaves no locals.
LEMMA Returns ==
  ASSUME IInv, NEW c \in Caller, Return(c),
         UNCHANGED active, CountsAreExact',
         failCount' \in [Provider -> Count], recent' \in [Provider -> BOOLEAN],
         failed' \in [Provider -> Count], doubtful' \in SUBSET Provider
  PROVE  IInv'
<1>. USE DEF IInv, Return, Goto, active
<1>1. TypeOK'
  BY DEF TypeOK
<1>2. Locals'
  BY DEF TypeOK, Locals
<1>3. Covered'
  BY DEF TypeOK, Covered
<1>4. Whole'
  <2>1. torn' = torn \ {c} /\ setter' = setter /\ prov' = [prov EXCEPT ![c] = None]
        /\ name' = [name EXCEPT ![c] = None] /\ pc' = [pc EXCEPT ![c] = "idle"]
        /\ activeName' = activeName /\ activeProvider' = activeProvider
    OBVIOUS
  <2>2. ASSUME NEW d \in Caller \ torn'
        PROVE  /\ pc'[d] = "name" => setter' = {} /\ prov'[d] = activeProvider'
               /\ pc'[d] = "models" => prov'[d] = Target[name'[d]]
    <3>1. CASE d = c
      BY <2>1, <3>1 DEF TypeOK
    <3>2. CASE d # c
      BY <2>1, <2>2, <3>2 DEF TypeOK, Whole
    <3>. QED
      BY <3>1, <3>2
  <2>. QED
    BY <2>1, <2>2 DEF Whole
<1>. QED
  BY <1>1, <1>2, <1>3, <1>4

LEMMA InitHolds == Init => IInv
<1>. SUFFICES ASSUME Init PROVE IInv
  OBVIOUS
<1>1. TypeOK
  BY TargetsAreProviders, LimitAssumption DEF Init, TypeOK, Count
<1>. QED
  BY <1>1 DEF Init, IInv, Locals, Whole, CountsAreExact, Covered

\* SetActive and the passing of time change no caller.
LEMMA Surroundings ==
  ASSUME IInv,
         \/ \E n \in Name : SetName(n)
         \/ SetProvider
         \/ \E p \in Provider : Elapse(p)
         \/ UNCHANGED vars
  PROVE  IInv'
<1>. USE DEF IInv, SetName, SetProvider, Tear, Elapse, vars, active, stats, call, seen
<1>1. TypeOK'
  BY TargetsAreProviders DEF TypeOK
<1>2. Locals' /\ CountsAreExact' /\ Covered'
  BY DEF Locals, CountsAreExact, Covered
<1>3. Whole'
  <2>1. CASE UNCHANGED <<setter, activeName, activeProvider, torn, pc, prov, name>>
    BY <2>1 DEF Whole
  <2>2. CASE Tear /\ \E n \in Name : setter' = {n} /\ activeName' = n
    BY <2>2 DEF TypeOK, Whole
  <2>3. CASE Tear /\ SetProvider
    BY <2>3 DEF TypeOK, Whole
  <2>. QED
    BY <2>1, <2>2, <2>3
<1>. QED
  BY <1>1, <1>2, <1>3

LEMMA Reads ==
  ASSUME IInv, NEW c \in Caller, ReadProvider(c) \/ ReadName(c)
  PROVE  IInv'
<1>. USE DEF IInv, ReadProvider, ReadName, Goto, active, stats, seen
<1>0. Models[Target[activeName]] \in Nat \ {0}
  BY TargetAssumption, ModelsAssumption DEF TypeOK
<1>1. TypeOK'
  BY <1>0 DEF TypeOK
<1>2. Locals'
  BY <1>0 DEF TypeOK, Locals
<1>3. CountsAreExact' /\ Covered'
  BY DEF TypeOK, CountsAreExact, Covered
<1>4. Whole'
  BY DEF TypeOK, Whole
<1>. QED
  BY <1>1, <1>2, <1>3, <1>4

LEMMA ModelSteps ==
  ASSUME IInv, NEW c \in Caller, ModelAnswers(c) \/ ModelFails(c)
  PROVE  IInv'
<1>1. pc[c] = "models" /\ prov[c] \in Provider /\ name[c] \in Name
      /\ left[c] \in Nat \ {0}
  BY DEF ModelAnswers, ModelFails, FailsWith, IInv, Locals, TypeOK
<1>1a. left[c] - 1 \in Nat
  BY <1>1
<1>1b. c \in torn \/ prov[c] = Target[name[c]]
  BY <1>1 DEF IInv, Whole
<1>2. /\ failCount' \in [Provider -> Count] /\ recent' \in [Provider -> BOOLEAN]
      /\ failed' \in [Provider -> Count] /\ doubtful' \in SUBSET Provider
      /\ CountsAreExact'
  <2>1. Answered(prov[c], name[c], c \in torn) \/ Failed(prov[c], name[c], c \in torn)
    BY DEF ModelAnswers, ModelFails, FailsWith
  <2>. QED
    BY <1>1, <1>1b, <2>1, Charged DEF IInv
<1>3. CASE ModelAnswers(c)
  BY <1>2, <1>3, Returns DEF ModelAnswers
<1>4. CASE ModelFails(c)
  <2>. USE <1>1, <1>2, <1>4 DEF ModelFails, FailsWith, TryNext, Goto, IInv, active
  <2>1. TypeOK'
    <3>1. left' \in [Caller -> Nat]
      <4>1. left \in [Caller -> Nat]
        BY DEF TypeOK
      <4>2. left' = [left EXCEPT ![c] = left[c] - 1]
        OBVIOUS
      <4>. QED
        BY <1>1a, <4>1, <4>2
    <3>2. done' \in [Caller -> SUBSET Provider]
      BY DEF TypeOK
    <3>3. pc' \in [Caller -> {"idle", "name", "models", "others", "trying"}]
          /\ todo' \in [Caller -> SUBSET Name] /\ torn' \in SUBSET Caller
      BY DEF TypeOK
    <3>. QED
      BY <3>1, <3>2, <3>3 DEF TypeOK
  <2>2. Locals'
    BY DEF TypeOK, Locals
  <2>3. Covered'
    BY DEF TypeOK, Covered
  <2>4. Whole'
    BY DEF TypeOK, Whole
  <2>. QED
    BY <2>1, <2>2, <2>3, <2>4
<1>. QED
  BY <1>3, <1>4

LEMMA Ranges ==
  ASSUME IInv, NEW c \in Caller, NEW n \in Name, Pass(c, n) \/ Skip(c, n) \/ Try(c, n)
  PROVE  IInv'
<1>. USE DEF IInv, Pass, Skip, Try, Goto, active, stats, seen, read
<1>1. TypeOK'
  BY TargetsAreProviders DEF TypeOK
<1>2. Locals'
  BY DEF TypeOK, Locals
<1>3. CountsAreExact' /\ Whole'
  BY DEF TypeOK, CountsAreExact, Whole
<1>4. prov[c] \in done[c] /\ pc[c] = "others"
  BY DEF Covered
<1>5. Covered'
  <2>1. CASE Pass(c, n)
    <3>1. \/ Target[n] \in done[c]
          \/ n # name[c] \/ prov[c] # Target[name[c]]
      BY <1>4
    <3>. QED
      BY <1>4, <2>1, <3>1 DEF Covered, TypeOK
  <2>2. CASE Skip(c, n) \/ Try(c, n)
    BY <1>4, <2>2 DEF Covered, TypeOK
  <2>. QED
    BY <2>1, <2>2
<1>. QED
  BY <1>1, <1>2, <1>3, <1>5

LEMMA Others ==
  ASSUME IInv, NEW c \in Caller, OtherAnswers(c) \/ OtherFails(c) \/ AllFailed(c)
  PROVE  IInv'
<1>1. CASE AllFailed(c)
  <2>1. CountsAreExact' /\ UNCHANGED <<failCount, recent, failed, doubtful>>
    BY <1>1 DEF AllFailed, stats, IInv, CountsAreExact
  <2>. QED
    BY <1>1, <2>1, Returns DEF AllFailed, IInv, TypeOK
<1>2. CASE OtherAnswers(c) \/ OtherFails(c)
  <2>1. pc[c] = "trying" /\ cur[c] \in Name /\ Target[cur[c]] \in Provider
    BY <1>2, TargetsAreProviders
       DEF OtherAnswers, OtherFails, Unanswered, IInv, Locals
  <2>2. /\ failCount' \in [Provider -> Count] /\ recent' \in [Provider -> BOOLEAN]
        /\ failed' \in [Provider -> Count] /\ doubtful' \in SUBSET Provider
        /\ CountsAreExact'
    BY <1>2, <2>1, Charged DEF OtherAnswers, OtherFails, Unanswered, IInv
  <2>3. CASE OtherAnswers(c)
    BY <2>2, <2>3, Returns DEF OtherAnswers
  <2>4. CASE OtherFails(c)
    <3>. USE <2>1, <2>2, <2>4 DEF OtherFails, Unanswered, Goto, IInv, active, read
    <3>1. TypeOK'
      BY DEF TypeOK
    <3>2. Locals'
      BY DEF TypeOK, Locals
    <3>3. Covered' /\ Whole'
      BY DEF TypeOK, Covered, Whole
    <3>. QED
      BY <3>1, <3>2, <3>3
  <2>. QED
    BY <1>2, <2>3, <2>4
<1>. QED
  BY <1>1, <1>2

LEMMA StepHolds == IInv /\ [Next]_vars => IInv'
BY Surroundings, Reads, ModelSteps, Ranges, Others DEF Next, Complete

\* The inductive invariant: besides the types, that the two fields agree when no
\* SetActive is under way, what a call that none overlapped holds, and where each
\* name is that a call has not tried (router.go:128-216).
THEOREM Inductive == Spec => []IInv
BY InitHolds, StepHolds, PTL DEF Spec

\* Every variable keeps its type.
THEOREM TypeCorrect == Spec => []TypeOK
BY Inductive, PTL DEF IInv

\* However calls and SetActive overlap, the count of a provider that no torn call
\* touched since its last answer is the number of requests it failed since.
THEOREM CountsStayExact == Spec => []CountsAreExact
BY Inductive, PTL DEF IInv

\* No call gives up with a provider it neither tried nor found unhealthy, but
\* for one that became active during it.
THEOREM NeverGivesUpEarly == Spec => []GivesUpLast
<1>1. IInv => GivesUpLast
  BY DEF IInv, Covered, GivesUpLast, Exhausted
<1>. QED
  BY <1>1, Inductive, PTL
=============================================================================
