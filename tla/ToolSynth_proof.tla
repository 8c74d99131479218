-------------------------- MODULE ToolSynth_proof --------------------------
(***************************************************************************)
(* Proofs about ToolSynth: for any names, sources, candidates and bounds.  *)
(***************************************************************************)
EXTENDS ToolSynth, FiniteSetTheorems, WellFoundedInduction, TLAPS

\* Register, from the lock to its end.
Section == {"rewrite", "rewriting", "record", "persist"}

\* The mutex is held exactly by the section that is in it.
Held == /\ lock = "pipeline" <=> pc \in Section
        /\ lock = "remover" <=> remover # "idle"

\* A pipeline at work has a name, and from the tests on the valid candidate that both
\* places choose.
Working ==
  /\ pc \notin {"idle", "gap"} => work.name \in Name /\ left > 0
  /\ pc \notin {"idle", "gap", "code"} =>
       /\ work.best = FirstValid(work.candidates)
       /\ \E i \in DOMAIN work.candidates : Valid(work.candidates[i])

\* What Register has done before each of its steps: the file is there, and the entry.
Written == /\ pc \in {"rewriting", "record", "persist"} => file[work.name] # Absent
           /\ pc = "persist" => tools[work.name] # "none"

\* What Remove has done before each of its steps.
Removed == /\ remover # "idle" => target \in Name
           /\ remover \in {"forget", "delete"} => target \notin known

\* An entry without a file is one that Remove is about to forget.
Dangling == \A n \in Name : tools[n] # "none" /\ file[n] = Absent =>
                              remover = "forget" /\ target = n

Stopped == up = "down" => pc = "idle" /\ remover = "idle"

IInv == /\ TypeOK /\ Held /\ Working /\ Written /\ Removed /\ Dangling /\ Stopped
        /\ RegisteredSurvive

-----------------------------------------------------------------------------
\* Any set of indices has a least one.
LEMMA LeastIndex ==
  ASSUME NEW I \in SUBSET Nat, I # {}
  PROVE  \E i \in I : \A j \in I : i <= j
<1>. DEFINE R == OpToRel(<, Nat)
<1>1. \E i \in I : \A j \in I : <<j, i>> \notin R
  BY NatLessThanWellFounded, WFMin DEF R
<1>2. PICK i \in I : \A j \in I : <<j, i>> \notin R
  BY <1>1
<1>3. \A j \in I : ~(j < i)
  BY <1>2 DEF OpToRel
<1>. QED
  BY <1>3

\* A list of candidates one of which is valid has a first valid one: both places
\* that look for it find the same source.
LEMMA Choices ==
  ASSUME NEW cs \in CandidateLists, \E i \in DOMAIN cs : Valid(cs[i])
  PROVE  /\ Best(cs) \in Source /\ FirstValid(cs) = Best(cs)
         /\ \E i \in DOMAIN cs : Valid(cs[i]) /\ cs[i].source = Best(cs)
<1>. DEFINE I == {i \in DOMAIN cs : Valid(cs[i])}
<1>1. PICK n \in 0 .. Cardinality(Temperature) : cs \in [1 .. n -> Candidate]
  BY DEF CandidateLists
<1>2. n \in Nat
  BY <1>1, BoundAssumption, FS_CardinalityType
<1>3. I \in SUBSET Nat /\ I # {}
  BY <1>1, <1>2
<1>. HIDE DEF I
<1>4. \E i \in I : \A j \in I : i <= j
  BY <1>3, LeastIndex
<1>. DEFINE P(i) == Valid(cs[i]) /\ \A j \in DOMAIN cs : Valid(cs[j]) => i <= j
            c == CHOOSE i \in DOMAIN cs : P(i)
<1>5. \E i \in DOMAIN cs : P(i)
  BY <1>4 DEF I
<1>6. c \in DOMAIN cs /\ P(c)
  <2>. HIDE DEF P
  <2>. QED
    BY <1>5
<1>7. Best(cs) = cs[c].source /\ FirstValid(cs) = Best(cs)
  BY DEF FirstValid, Best
<1>. HIDE DEF c
<1>. QED
  BY <1>1, <1>6, <1>7 DEF Candidate

-----------------------------------------------------------------------------
LEMMA InitHolds == Init => IInv
<1>. SUFFICES ASSUME Init  PROVE IInv
  OBVIOUS
<1>. USE DEF Init, Listing, NoWork
<1>1. <<>> \in CandidateLists
  <2>1. Cardinality(Temperature) \in Nat
    BY BoundAssumption, FS_CardinalityType
  <2>2. 0 \in 0 .. Cardinality(Temperature) /\ <<>> \in [1 .. 0 -> Candidate]
    BY <2>1
  <2>. QED
    BY <2>2 DEF CandidateLists
<1>2. TypeOK
  BY <1>1, BoundAssumption DEF TypeOK, Work
<1>3. Held /\ Working /\ Written /\ Removed /\ Dangling /\ Stopped
  BY DEF Held, Section, Working, Written, Removed, Dangling, Stopped
<1>4. RegisteredSurvive
  BY DEF RegisteredSurvive
<1>. QED
  BY <1>2, <1>3, <1>4 DEF IInv

\* The work of a gap that is done with is typed, and so is what Answer makes.
LEMMA NoWorkTyped == NoWork \in Work
<1>1. Cardinality(Temperature) \in Nat
  BY BoundAssumption, FS_CardinalityType
<1>2. 0 \in 0 .. Cardinality(Temperature) /\ <<>> \in [1 .. 0 -> Candidate]
  BY <1>1
<1>. QED
  BY <1>2, BoundAssumption DEF NoWork, Work, CandidateLists

\* The steps that touch neither disk nor registrar.
LEMMA Outside ==
  ASSUME IInv, Up, UNCHANGED removal,
         Scan \/ Finish \/ Design \/ Generate \/ Test
  PROVE  IInv'
<1>. USE DEF IInv, Up, removal, disk, registrar
<1>1. UNCHANGED <<disk, registrar, known, removal, up>>
  BY DEF Scan, Finish, Design, Answer, Generate, Test
<1>2. Dangling' /\ RegisteredSurvive' /\ Removed'
  BY <1>1 DEF Dangling, RegisteredSurvive, Removed
<1>3. /\ pc \notin Section /\ pc' \notin Section
      /\ pc' \notin {"rewriting", "record", "persist"} /\ Stopped'
  BY <1>1 DEF Scan, Finish, Design, Answer, Generate, Test, Goto, Done, Section, Stopped
<1>4. Held' /\ Written'
  BY <1>1, <1>3 DEF Held, Written
<1>5. TypeOK' /\ Working'
  <2>1. CASE Scan
    BY <2>1, <1>1 DEF Scan, Goto, TypeOK, Working
  <2>2. CASE Finish
    BY <2>2, <1>1, BoundAssumption DEF Finish, Goto, TypeOK, Working
  <2>3. CASE Design
    <3>1. CASE Done
      BY <2>3, <3>1, <1>1, NoWorkTyped, BoundAssumption
      DEF Design, Done, TypeOK, Working
    <3>2. CASE \E n \in Name, c \in 1 .. MaxCases :
                 /\ Goto("gap", "code")
                 /\ work' = [NoWork EXCEPT !.name = n, !.cases = c]
                 /\ UNCHANGED left
      <4>1. PICK n \in Name, c \in 1 .. MaxCases :
                 /\ Goto("gap", "code")
                 /\ work' = [NoWork EXCEPT !.name = n, !.cases = c]
                 /\ UNCHANGED left
        BY <3>2
      <4>2. NoWork.candidates \in CandidateLists
        BY NoWorkTyped DEF Work, NoWork
      <4>3. work' = [name |-> n, cases |-> c, candidates |-> NoWork.candidates,
                     best |-> None, passed |-> 0]
        BY <4>1 DEF NoWork
      <4>4. work' \in Work /\ work'.name = n
        BY <4>2, <4>3, BoundAssumption DEF Work
      <4>. QED
        BY <2>3, <4>1, <4>4, <1>1 DEF Design, Goto, TypeOK, Working
    <3>. QED
      BY <2>3, <3>1, <3>2 DEF Design, Answer
  <2>4. CASE Generate
    <3>1. PICK cs \in Tries :
            IF \E i \in DOMAIN cs : Valid(cs[i])
            THEN /\ Goto("code", "test") /\ UNCHANGED left
                 /\ work' = [work EXCEPT !.candidates = cs, !.best = Best(cs)]
            ELSE Done
      BY <2>4 DEF Generate
    <3>2. CASE \E i \in DOMAIN cs : Valid(cs[i])
      <4>1. /\ work' = [work EXCEPT !.candidates = cs, !.best = Best(cs)]
            /\ cs \in CandidateLists /\ Best(cs) \in Source /\ FirstValid(cs) = Best(cs)
        BY <3>1, <3>2, Choices DEF Tries
      <4>2. /\ work' \in Work /\ work'.candidates = cs /\ work'.name = work.name
            /\ work'.best = FirstValid(work'.candidates)
        BY <4>1 DEF TypeOK, Work
      <4>3. pc' = "test" /\ UNCHANGED left /\ pc = "code"
        BY <3>1, <3>2 DEF Goto
      <4>4. work'.name \in Name /\ left' > 0
        BY <4>2, <4>3 DEF Working
      <4>5. Working'
        BY <3>2, <4>2, <4>3, <4>4 DEF Working
      <4>. QED
        BY <1>1, <4>2, <4>3, <4>5 DEF TypeOK
    <3>3. CASE ~\E i \in DOMAIN cs : Valid(cs[i])
      <4>1. Done /\ pc = "code"
        BY <2>4, <3>1, <3>3 DEF Generate
      <4>2. left \in Nat /\ left > 0 /\ work' = NoWork /\ pc' = "gap" /\ left' = left - 1
        BY <4>1, <1>1, BoundAssumption DEF Done, TypeOK, Working
      <4>. QED
        BY <4>1, <4>2, <1>1, NoWorkTyped, BoundAssumption DEF Done, TypeOK, Working
    <3>. QED
      BY <3>2, <3>3
  <2>5. CASE Test
    <3>1. CASE Done
      BY <2>5, <3>1, <1>1, NoWorkTyped, BoundAssumption DEF Test, Done, TypeOK, Working
    <3>2. CASE /\ Goto("test", "write") /\ UNCHANGED left
               /\ \E passed \in 0 .. work.cases : work' = [work EXCEPT !.passed = passed]
      <4>1. \A passed \in 0 .. work.cases : passed \in 0 .. MaxCases
        BY BoundAssumption DEF TypeOK, Work
      <4>2. /\ work' \in Work /\ work'.candidates = work.candidates
            /\ work'.name = work.name /\ work'.best = work.best
        BY <4>1, <3>2 DEF TypeOK, Work
      <4>. QED
        BY <2>5, <3>2, <4>2, <1>1 DEF Test, Goto, TypeOK, Working
    <3>. QED
      BY <2>5, <3>1, <3>2 DEF Test
  <2>. QED
    BY <2>1, <2>2, <2>3, <2>4, <2>5
<1>. QED
  BY <1>2, <1>3, <1>4, <1>5

\* The steps that write a source, in and out of the mutex.
LEMMA Writes ==
  ASSUME IInv, Up, UNCHANGED removal, WriteValidSource \/ Rewrite
  PROVE  IInv'
<1>. USE DEF IInv, Up, removal, registrar, Section
<1>1. /\ UNCHANGED <<registry, tools, known, removal, up>>
      /\ pc \in {"write", "writing", "rewrite", "rewriting"}
  BY DEF WriteValidSource, Rewrite, Truncate, Fill, Goto
<1>2. work.name \in Name /\ left > 0 /\ work.best \in Source
  BY <1>1, Choices DEF Working, TypeOK, Work
<1>3. FirstValid(work.candidates) = work.best
  BY <1>1 DEF Working
<1>4. Torn # Absent /\ work.best # Absent
  BY <1>2, NamesAssumption DEF Torn, Absent
<1>5. \/ /\ file' = [file EXCEPT ![work.name] = Torn]
         /\ \/ Goto("write", "writing") /\ UNCHANGED lock
            \/ Goto("rewrite", "rewriting") /\ UNCHANGED lock
         /\ UNCHANGED <<work, left>>
      \/ /\ file' = [file EXCEPT ![work.name] = IF @ = Absent THEN Absent ELSE work.best]
         /\ \/ Goto("writing", "register") /\ UNCHANGED lock
            \/ Goto("rewriting", "record") /\ UNCHANGED lock
         /\ UNCHANGED <<work, left>>
      \/ /\ UNCHANGED file /\ Done
         /\ \/ pc \in {"write", "writing"} /\ UNCHANGED lock
            \/ pc \in {"rewrite", "rewriting"} /\ lock' = "free"
  BY <1>3 DEF WriteValidSource, Rewrite, Truncate, Fill, Goto
<1>6. /\ \A n \in Name : file'[n] = Absent => file[n] = Absent
      /\ pc' = "rewriting" => file'[work.name] = Torn
      /\ pc' = "record" => file'[work.name] # Absent
  BY <1>1, <1>2, <1>4, <1>5 DEF TypeOK, Goto, Done, Written
<1>7. TypeOK'
  <2>1. CASE Done
    BY <2>1, <1>1, <1>2, <1>5, NoWorkTyped, BoundAssumption DEF TypeOK, Done
  <2>2. CASE UNCHANGED <<work, left>>
    BY <2>2, <1>1, <1>2, <1>5 DEF TypeOK, Goto, Done
  <2>. QED
    BY <1>5, <2>1, <2>2
<1>8. Held' /\ Working' /\ Stopped'
  BY <1>1, <1>5 DEF Held, Working, Stopped, Goto, Done
<1>9. Written'
  BY <1>1, <1>2, <1>4, <1>5, <1>6 DEF Written, Goto, Done
<1>10. Removed' /\ Dangling' /\ RegisteredSurvive'
  BY <1>1, <1>6 DEF TypeOK, Removed, Dangling, RegisteredSurvive
<1>. QED
  BY <1>7, <1>8, <1>9, <1>10

\* The steps of Register that take the mutex and record the tool.
LEMMA Records ==
  ASSUME IInv, Up, UNCHANGED removal, Lock \/ Record \/ Persist
  PROVE  IInv'
<1>. USE DEF IInv, Up, removal, disk, registrar, Section
<1>1. work.name \in Name /\ left > 0
  BY DEF Lock, Record, Persist, Working, Goto
<1>2. CASE Lock
  <2>. USE <1>2 DEF Lock, Goto
  <2>1. TypeOK' /\ Held' /\ Working' /\ Written' /\ Stopped'
    BY DEF TypeOK, Held, Working, Written, Stopped
  <2>. QED
    BY <2>1 DEF Removed, Dangling, RegisteredSurvive
<1>3. CASE Record
  <2>. USE <1>3 DEF Record, Goto
  <2>1. TypeOK' /\ Held' /\ Working' /\ Stopped'
    BY <1>1 DEF TypeOK, Held, Working, Stopped
  <2>2. Written' /\ Removed'
    BY <1>1 DEF TypeOK, Written, Removed
  <2>3. Dangling' /\ RegisteredSurvive'
    BY <1>1 DEF TypeOK, Dangling, Written, RegisteredSurvive
  <2>. QED
    BY <2>1, <2>2, <2>3
<1>4. CASE Persist
  <2>. USE <1>4 DEF Persist, Done
  <2>1. TypeOK'
    BY <1>1, NoWorkTyped, BoundAssumption DEF TypeOK
  <2>2. Held' /\ Working' /\ Written' /\ Stopped'
    BY DEF Held, Working, Written, Stopped
  <2>3. Removed' /\ Dangling'
    BY DEF Held, Removed, Dangling
  <2>4. RegisteredSurvive'
    BY <1>1 DEF Written, RegisteredSurvive
  <2>. QED
    BY <2>1, <2>2, <2>3, <2>4
<1>. QED
  BY <1>2, <1>3, <1>4

\* The steps of Remove.
LEMMA Removes ==
  ASSUME IInv, Up, UNCHANGED pipeline, Removing \/ \E n \in Name : Remove(n)
  PROVE  IInv'
<1>. USE DEF IInv, Up, pipeline, disk, registrar, Leave
<1>1. ASSUME NEW n \in Name, Remove(n)  PROVE IInv'
  <2>. USE <1>1 DEF Remove
  <2>1. TypeOK' /\ Held' /\ Working' /\ Written' /\ Stopped'
    BY DEF TypeOK, Held, Working, Written, Stopped, Section
  <2>2. Removed' /\ Dangling' /\ RegisteredSurvive'
    BY DEF Held, Removed, Dangling, RegisteredSurvive
  <2>. QED
    BY <2>1, <2>2
<1>2. CASE Unlink
  <2>. USE <1>2 DEF Unlink
  <2>1. TypeOK' /\ Held' /\ Working' /\ Stopped'
    BY DEF TypeOK, Held, Working, Stopped, Section, Removed
  <2>2. Written'
    BY DEF TypeOK, Held, Written, Section, Removed
  <2>3. Removed' /\ Dangling' /\ RegisteredSurvive'
    BY NamesAssumption DEF TypeOK, Removed, Dangling, RegisteredSurvive
  <2>. QED
    BY <2>1, <2>2, <2>3
<1>3. CASE Forget
  <2>. USE <1>3 DEF Forget
  <2>1. TypeOK' /\ Held' /\ Working' /\ Stopped'
    BY DEF TypeOK, Held, Working, Stopped, Section, Removed
  <2>2. Written'
    BY DEF TypeOK, Held, Written, Section
  <2>3. Removed' /\ Dangling' /\ RegisteredSurvive'
    BY DEF TypeOK, Removed, Dangling, RegisteredSurvive
  <2>. QED
    BY <2>1, <2>2, <2>3
<1>4. CASE Delete
  <2>. USE <1>4 DEF Delete
  <2>1. TypeOK' /\ Held' /\ Working' /\ Stopped'
    BY DEF TypeOK, Held, Working, Stopped, Section, Removed
  <2>2. Written' /\ Removed' /\ Dangling' /\ RegisteredSurvive'
    BY DEF Written, Removed, Dangling, RegisteredSurvive
  <2>. QED
    BY <2>1, <2>2
<1>. QED
  BY <1>1, <1>2, <1>3, <1>4 DEF Removing

LEMMA Stops ==
  ASSUME IInv, Crash \/ Restart
  PROVE  IInv'
<1>. USE DEF IInv, disk, pipeline, removal
<1>1. CASE Crash
  BY <1>1, NoWorkTyped, BoundAssumption
  DEF Crash, TypeOK, Held, Section, Working, Written, Removed, Dangling, Stopped,
      RegisteredSurvive
<1>2. CASE Restart
  <2>. USE <1>2 DEF Restart, Start, Listing
  <2>1. TypeOK' /\ Held' /\ Working' /\ Written' /\ Removed' /\ Stopped'
    BY DEF TypeOK, Held, Section, Working, Written, Removed, Stopped
  <2>2. Dangling' /\ RegisteredSurvive'
    BY DEF TypeOK, Dangling, RegisteredSurvive
  <2>. QED
    BY <2>1, <2>2
<1>. QED
  BY <1>1, <1>2

\* The inductive invariant holds throughout (all of registrar.go and pipeline.go).
THEOREM Inductive == Spec => []IInv
<1>1. IInv /\ [Next]_vars => IInv'
  <2>. SUFFICES ASSUME IInv, [Next]_vars  PROVE IInv'
    OBVIOUS
  <2>1. CASE Up /\ Synthesize /\ UNCHANGED removal
    BY <2>1, Outside, Writes, Records DEF Synthesize, Register
  <2>2. CASE Up /\ (Removing \/ \E n \in Name : Remove(n)) /\ UNCHANGED pipeline
    BY <2>2, Removes
  <2>3. CASE Crash \/ Restart
    BY <2>3, Stops
  <2>4. CASE UNCHANGED vars
    BY <2>4 DEF vars, disk, registrar, pipeline, removal, IInv, TypeOK, Held, Section,
                Working, Written, Removed, Dangling, Stopped, RegisteredSurvive
  <2>. QED
    BY <2>1, <2>2, <2>3, <2>4 DEF Next
<1>. QED
  BY InitHolds, <1>1, PTL DEF Spec

\* Every variable keeps its type (ToolSynth's TypeOK).
THEOREM TypeCorrect == Spec => []TypeOK
<1>1. IInv => TypeOK
  BY DEF IInv
<1>. QED
  BY <1>1, Inductive, PTL

\* A registered tool survives crashes and overtaking removals until it is removed
\* (registrar.go:85-140, 180-238).
THEOREM RegistrationsSurvive == Spec => []RegisteredSurvive
<1>1. IInv => RegisteredSurvive
  BY DEF IInv
<1>. QED
  BY <1>1, Inductive, PTL

\* Whoever finds a tool in the map, the mutex being free, finds its file
\* (registrar.go:143-177).
THEOREM NoDanglingEntry == Spec => []EntriesHaveFiles
<1>1. IInv => EntriesHaveFiles
  BY DEF IInv, Held, Dangling, EntriesHaveFiles
<1>. QED
  BY <1>1, Inductive, PTL

-----------------------------------------------------------------------------
\* From the choice to its end, a pipeline has the valid candidate that both places
\* choose; and from the tests, that enough cases passed.
Chosen == /\ pc \in {"test", "write", "writing", "register"} \cup Section =>
               /\ work.best = FirstValid(work.candidates)
               /\ \E i \in DOMAIN work.candidates :
                    Valid(work.candidates[i]) /\ work.candidates[i].source = work.best
          /\ pc \in {"write", "writing", "register"} \cup Section =>
               Enough(work.passed, work.cases)

LEMMA ChosenInductive == IInv /\ Chosen /\ [Next]_vars => Chosen'
<1>. SUFFICES ASSUME IInv, Chosen, [Next]_vars  PROVE Chosen'
  OBVIOUS
<1>. USE DEF Chosen, Section
<1>1. ASSUME UNCHANGED <<pc, work>>  PROVE Chosen'
  BY <1>1
<1>2. ASSUME pc' \in {"idle", "gap", "code"}  PROVE Chosen'
  BY <1>2
<1>3. ASSUME work' = work, pc \in {"write", "writing", "register"} \cup Section
      PROVE  Chosen'
  BY <1>3
<1>4. CASE Scan \/ Finish \/ Design
  BY <1>2, <1>4 DEF Scan, Finish, Design, Answer, Goto, Done
<1>5. CASE Generate
  <2>1. CASE Done
    BY <1>2, <2>1 DEF Done
  <2>2. ASSUME NEW cs \in Tries, \E i \in DOMAIN cs : Valid(cs[i]), Goto("code", "test"),
               work' = [work EXCEPT !.candidates = cs, !.best = Best(cs)]
        PROVE  Chosen'
    <3>1. cs \in CandidateLists
      BY DEF Tries
    <3>2. /\ FirstValid(cs) = Best(cs)
          /\ \E i \in DOMAIN cs : Valid(cs[i]) /\ cs[i].source = Best(cs)
      BY <2>2, <3>1, Choices
    <3>3. work'.best = Best(cs) /\ work'.candidates = cs /\ pc' = "test"
      BY <2>2 DEF IInv, TypeOK, Work, Goto
    <3>. QED
      BY <3>2, <3>3
  <2>. QED
    BY <1>5, <2>1, <2>2 DEF Generate
<1>6. CASE Test
  <2>1. CASE Done
    BY <1>2, <2>1 DEF Done
  <2>2. ASSUME NEW passed \in 0 .. work.cases, Enough(passed, work.cases),
               Goto("test", "write"), work' = [work EXCEPT !.passed = passed]
        PROVE  Chosen'
    <3>1. /\ work'.passed = passed /\ work'.cases = work.cases /\ work'.best = work.best
          /\ work'.candidates = work.candidates /\ pc = "test"
      BY <2>2 DEF IInv, TypeOK, Work, Goto
    <3>. QED
      BY <2>2, <3>1
  <2>. QED
    BY <1>6, <2>1, <2>2 DEF Test
<1>7. CASE WriteValidSource \/ Register
  BY <1>2, <1>3, <1>7
  DEF WriteValidSource, Register, Lock, Rewrite, Record, Persist, Truncate, Fill, Goto, Done
<1>8. CASE (Removing \/ \E n \in Name : Remove(n)) /\ UNCHANGED pipeline
  BY <1>1, <1>8 DEF pipeline
<1>9. CASE Crash \/ Restart
  BY <1>1, <1>2, <1>9 DEF Crash, Restart, Start, pipeline
<1>10. CASE UNCHANGED vars
  BY <1>1, <1>10 DEF vars, pipeline
<1>. QED
  BY <1>4, <1>5, <1>6, <1>7, <1>8, <1>9, <1>10 DEF Next, Synthesize

\* Whatever is written for a tool is the valid candidate that was chosen, under the name
\* of the design of which enough cases passed (pipeline.go:163-195, coder.go:104-119).
THEOREM WritesStayChosen == Spec => WrittenIsChosen
<1>. DEFINE Step == \A n \in Name : file'[n] \notin {file[n], Absent, Torn} =>
                    /\ n = work.name /\ file'[n] = work.best /\ Enough(work.passed, work.cases)
                    /\ \E i \in DOMAIN work.candidates :
                         Valid(work.candidates[i]) /\ work.candidates[i].source = file'[n]
<1>1. Init => Chosen
  BY DEF Init, Chosen, Section
<1>2. IInv /\ Chosen /\ [Next]_vars => Step \/ UNCHANGED vars
  <2>. SUFFICES ASSUME IInv, Chosen, [Next]_vars, ~UNCHANGED vars  PROVE Step
    OBVIOUS
  <2>1. ASSUME UNCHANGED file  PROVE Step
    BY <2>1
  <2>2. file \in [Name -> Source \cup {Absent, Torn}]
    BY DEF IInv, TypeOK
  <2>3. ASSUME NEW n, file' = [file EXCEPT ![n] = Torn] \/ file' = [file EXCEPT ![n] = Absent]
        PROVE  Step
    BY <2>2, <2>3
  <2>4. ASSUME NEW from, NEW to, Fill(from, to, work.best),
               pc \in {"write", "writing", "register"} \cup Section
        PROVE  Step
    BY <2>2, <2>4 DEF Fill, Chosen
  <2>5. CASE Scan \/ Finish \/ Design \/ Generate \/ Test
    BY <2>1, <2>5 DEF Scan, Finish, Design, Answer, Generate, Test, disk
  <2>6. CASE WriteValidSource
    <3>1. pc \in {"write", "writing"}
      BY <2>6 DEF WriteValidSource, Truncate, Fill, Goto
    <3>2. work.best = FirstValid(work.candidates)
      BY <3>1 DEF Chosen
    <3>. QED
      BY <2>1, <2>3, <2>4, <2>6, <3>1, <3>2 DEF WriteValidSource, Truncate
  <2>7. CASE Register
    <3>1. CASE Rewrite
      <4>1. pc \in Section
        BY <3>1 DEF Rewrite, Truncate, Fill, Goto, Section
      <4>. QED
        BY <2>1, <2>3, <2>4, <3>1, <4>1 DEF Rewrite, Truncate
    <3>2. CASE Lock \/ Record \/ Persist
      BY <2>1, <3>2 DEF Lock, Record, Persist, disk
    <3>. QED
      BY <2>7, <3>1, <3>2 DEF Register
  <2>8. CASE Removing \/ \E n \in Name : Remove(n)
    BY <2>1, <2>3, <2>8 DEF Removing, Unlink, Forget, Delete, Remove, disk
  <2>9. CASE Crash \/ Restart
    BY <2>1, <2>9 DEF Crash, Restart, Start, disk
  <2>. QED
    BY <2>5, <2>6, <2>7, <2>8, <2>9 DEF Next, Synthesize
<1>. HIDE DEF Step
<1>3. Spec => [][Step]_vars
  BY <1>1, <1>2, Inductive, ChosenInductive, PTL DEF Spec
<1>. QED
  BY <1>3 DEF WrittenIsChosen, Step
=============================================================================
