----------------------------- MODULE WorldModel -----------------------------
(***************************************************************************)
(* The knowledge graph (internal/worldmodel): the store of entities and    *)
(* relations, the extractor and the event handlers that fill it, the daily *)
(* cycle of the updater and the queries.  Nothing keeps two extractions    *)
(* apart: each looks an entity or a relation up in one statement and       *)
(* writes it in another.  Properties and texts are left out; confidences   *)
(* are whole percentages.                                                  *)
(***************************************************************************)
EXTENDS Integers, Sequences, FiniteSets, FiniteSetsExt, SequencesExt

CONSTANTS
  Thing,      \* the names of entities
  Kind,       \* and their types
  Writer,     \* the extractions and handlers that run at once
  Level,      \* ConfidenceForSource: what a source is worth
  DecayAfter, \* the days an entity keeps its confidence, 30
  DecayBy,    \* what it then loses a day, 10
  MaxHops,
  MaxFacts,   \* bounds what is extracted
  MaxDay      \* and the days

ASSUME WorldAssumption == /\ Level \subseteq 0 .. 100 /\ Level # {} /\ Kind # {}
                          /\ IsFiniteSet(Thing) /\ IsFiniteSet(Writer) /\ Writer # {}
                          /\ DecayAfter \in Nat /\ DecayBy \in Nat /\ MaxHops \in Nat
                          /\ MaxFacts \in Nat /\ MaxDay \in Nat

VARIABLES
  entities,   \* wm_entities
  links,      \* wm_relations
  writers,    \* where each writer is with the fact it stores
  facts,      \* how many were extracted
  day

kvars == <<entities, links, writers, facts, day>>

\* The last two fields are what a source last said, and when.
EntityRow == [name : Thing, kind : Kind, confidence : 0 .. 100, updated : 0 .. MaxDay,
              told : 0 .. 100, toldOn : 0 .. MaxDay]
Id == 1 .. MaxFacts + Cardinality(Thing)
NoFact == [at |-> "idle"]

WorldTypeOK ==
  /\ entities \in Seq(EntityRow) /\ Len(entities) <= MaxFacts + Cardinality(Thing)
  /\ links \in SUBSET (Id \X Id)
  /\ DOMAIN writers = Writer
  /\ \A w \in Writer : writers[w].at \in {"idle", "looking", "writing", "linking"}
  /\ facts \in 0 .. MaxFacts /\ day \in 0 .. MaxDay

Stored == LET things == SetToSeq(Thing)
              level == Max(Level)
          IN  [i \in DOMAIN things |->
                 [name |-> things[i], kind |-> CHOOSE k \in Kind : TRUE, confidence |-> level,
                  updated |-> 0, told |-> level, toldOn |-> 0]]

\* A new store, or one that earlier runs have filled.
WorldInit == /\ day = 0 /\ writers = [w \in Writer |-> NoFact]
             /\ \/ entities = <<>> /\ links = {} /\ facts = 0
                \/ /\ entities = Stored /\ facts = MaxFacts
                   /\ links \in SUBSET ((DOMAIN Stored) \X (DOMAIN Stored))

-----------------------------------------------------------------------------
\* findEntityByNameType, GetEntityByName: any, and any of the most certain.
Rows == DOMAIN entities
ByNameType(n, k) == {i \in Rows : entities[i].name = n /\ entities[i].kind = k}
ByName(n) == LET named == {i \in Rows : entities[i].name = n}
             IN  {i \in named : \A j \in named :
                                  entities[j].confidence <= entities[i].confidence}

At(w, at) == writers[w].at = at
To(w, record) == writers' = [writers EXCEPT ![w] = record]

\* The model's reply is parsed: an entity, and its relations to things that may not
\* be defined anywhere.
Extract(w) ==
  /\ At(w, "idle") /\ facts < MaxFacts /\ facts' = facts + 1
  /\ \E n \in Thing, k \in Kind, level \in Level, to \in SUBSET Thing :
       To(w, [at |-> "looking", name |-> n, kind |-> k, level |-> level, to |-> to, found |-> {}])
  /\ UNCHANGED <<entities, links, day>>

\* UpsertEntity looks for the name and type, and keeps the confidence it reads.
Look(w) == LET there == ByNameType(writers[w].name, writers[w].kind)
               Following(found) == To(w, [writers[w] EXCEPT !.at = "writing", !.found = found])
           IN  /\ At(w, "looking")
               /\ \/ there = {} /\ Following({})
                  \/ \E i \in there : Following({<<i, entities[i].confidence>>})
               /\ UNCHANGED <<entities, links, facts, day>>

\* And writes: the mean of the confidences over what it found, or a new row.
WriteEntity(w) ==
  LET f == writers[w]
      new == [name |-> f.name, kind |-> f.kind, confidence |-> f.level, updated |-> day,
              told |-> f.level, toldOn |-> day]
  IN  /\ At(w, "writing") /\ To(w, [f EXCEPT !.at = "linking", !.found = {}])
      /\ \/ f.found = {} /\ entities' = Append(entities, new)
         \/ \E old \in f.found :
              LET mean == (old[2] + f.level) \div 2
              IN  entities' = [entities EXCEPT ![old[1]] = [@ EXCEPT !.confidence = mean,
                                 !.updated = day, !.told = mean, !.toldOn = day]]
      /\ UNCHANGED <<links, facts, day>>

\* UpsertRelation: both ends are looked up by name; without one, the relation is
\* passed over.  Its confidence, and a second row for the same ends, are left out.
Link(w) ==
  LET f == writers[w]
      Rest(n) == To(w, [f EXCEPT !.to = @ \ {n}])
  IN  /\ At(w, "linking")
      /\ \/ f.to = {} /\ To(w, NoFact) /\ UNCHANGED links
         \/ \E n \in f.to : /\ Rest(n)
                            /\ \/ ByName(n) = {} /\ UNCHANGED links
                               \/ \E i \in ByName(f.name), k \in ByName(n) :
                                    links' = links \cup {<<i, k>>}
      /\ UNCHANGED <<entities, facts, day>>

\* Mutant: the date of the last update stays.
DecayAgain ==
  /\ entities' = [i \in Rows |->
       LET late == day - entities[i].updated - DecayAfter
       IN  IF late <= 0 THEN entities[i]
           ELSE [entities[i] EXCEPT !.confidence = IF @ < DecayBy * late THEN 0
                                                   ELSE @ - DecayBy * late]]
  /\ UNCHANGED <<links, writers, facts, day>>

\* The cycle of the updater; InitWorldModel gives it no searcher.  Each decay
\* counts as an update.
ApplyConfidenceDecay ==
  /\ entities' = [i \in Rows |->
       LET late == day - entities[i].updated - DecayAfter
       IN  IF late <= 0 \/ entities[i].confidence = 0 THEN entities[i]
           ELSE [entities[i] EXCEPT !.updated = day,
                                    !.confidence = IF @ < DecayBy * late THEN 0
                                                   ELSE @ - DecayBy * late]]
  /\ UNCHANGED <<links, writers, facts, day>>

Dawn == day < MaxDay /\ day' = day + 1 /\ UNCHANGED <<entities, links, writers, facts>>

WorldNext == \/ \E w \in Writer : \/ Extract(w) \/ Look(w) \/ WriteEntity(w)
                                  \/ Link(w)
             \/ ApplyConfidenceDecay \/ Dawn

-----------------------------------------------------------------------------
\* FindPath: the recursive query takes the rows of its queue in turn, and so finds
\* every simple path of a length before any longer one; it stops at the first.
Joined(i, j) == <<i, j>> \in links
Paths(i) ==
  LET Of[d \in 0 .. MaxHops] ==
        IF d = 0 THEN {<<i>>}
        ELSE UNION {{Append(p, j) : j \in {k \in Rows : /\ Joined(p[Len(p)], k)
                                                        /\ \A n \in DOMAIN p : p[n] # k}}
                    : p \in Of[d - 1]}
  IN  Of
FindPath(i, j) ==
  LET ends == [d \in 0 .. MaxHops |-> {p \in Paths(i)[d] : p[Len(p)] = j}]
      hits == {d \in 0 .. MaxHops : ends[d] # {}}
  IN  IF hits = {} THEN {} ELSE ends[Min(hits)]

\* The places that h steps along the relations can reach from i.
Reach(i, h) ==
  LET R[n \in 0 .. h] == IF n = 0 THEN {i}
                         ELSE R[n - 1] \cup {j \in Rows : \E k \in R[n - 1] : Joined(k, j)}
  IN  R[h]

-----------------------------------------------------------------------------
\* A path is found exactly where one of at most MaxHops relations leads, along
\* relations that are there, and none is shorter (store.go:253-335).
PathsAreShortest ==
  \A i, j \in Rows :
    /\ FindPath(i, j) = {} <=> j \notin Reach(i, MaxHops)
    /\ \A p \in FindPath(i, j) :
         /\ \A n \in 1 .. Len(p) - 1 : Joined(p[n], p[n + 1])
         /\ \A h \in 0 .. Len(p) - 2 : j \notin Reach(i, h)

\* Extractions that overlap may store an entity twice, but never more often than
\* they overlap: what a writer has stored the next one finds (store.go:79-137).
\* And a relation joins rows that are there (store.go:140-197).
RowsAreFew ==
  /\ \A n \in Thing, k \in Kind : Cardinality(ByNameType(n, k)) <= Cardinality(Writer)
  /\ links \subseteq Rows \X Rows

\* However often the cycle runs, or is missed, no entity loses more than its share
\* for each day beyond those it was given (store.go:337-357).
DecayIsFair ==
  \A i \in Rows :
    LET e == entities[i]
        late == e.updated - e.toldOn - DecayAfter
    IN  e.confidence >= e.told - DecayBy * (IF late > 0 THEN late ELSE 0)
=============================================================================
