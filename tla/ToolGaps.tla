------------------------------- MODULE ToolGaps -------------------------------
(***************************************************************************)
(* What tool synthesis is made for: the detector of gaps                   *)
(* (internal/toolsynth/detector.go).  A scan reads the latest messages,    *)
(* newest first, counts the phrases that tell of a missing, a slow or a    *)
(* wrong tool, and ranks what it counted.  The timing of tools adds        *)
(* nothing: the query selects five columns and four are scanned, so every  *)
(* row of the profiler is skipped (detector.go:271-301).                   *)
(***************************************************************************)
EXTENDS Integers, Sequences, SequencesExt

CONSTANTS
  Gap,            \* the keys of gaps
  Phrase, KeyOf,  \* what messages say, and the key a phrase is normalized to
  Text,           \* the patterns a message may match, in turn: phrase and type
  Feasible(_),    \* 3, 5 or 8 tenths, by the words in a key
  ScanLimit,      \* the messages of a scan
  MinPriority,    \* in thousandths
  MaxMessages     \* bounds the messages

GapType == {"hard", "soft", "efficiency"}
Match == [phrase : Phrase, type : GapType]

ASSUME GapAssumption == /\ KeyOf \in [Phrase -> Gap] /\ ScanLimit \in Nat \ {0}
                        /\ Text \subseteq Seq(Match)
                        /\ \A g \in Gap : Feasible(g) \in {3, 5, 8}
                        /\ MinPriority \in Nat /\ MaxMessages \in Nat

VARIABLES
  messages,   \* mem_messages: who wrote each, and the patterns that match it in turn
  ranking     \* what the last scan returned

gvars == <<messages, ranking>>

Found == [gap : Gap, type : GapType, frequency : Nat, priority : Nat]

GapsTypeOK == /\ messages \in Seq([role : {"user", "assistant", "tool"}, matches : Seq(Match)])
              /\ ranking \in Seq(Found)

GapsInit == messages = <<>> /\ ranking = <<>>

-----------------------------------------------------------------------------
Say(role, matches) == /\ Len(messages) < MaxMessages
                      /\ messages' = Append(messages, [role |-> role, matches |-> matches])
                      /\ UNCHANGED ranking

\* The rows of a scan: the latest, newest first.
Entries == [i \in 1 .. IF Len(messages) < ScanLimit THEN Len(messages) ELSE ScanLimit |->
              messages[Len(messages) + 1 - i]]

\* Mutant: a candidate takes the type of each match, not of the first.
CountedAnew(candidates, match) ==
  [candidates EXCEPT ![KeyOf[match.phrase]] = [type |-> match.type, frequency |-> @.frequency + 1]]

\* A match of a new key begins a candidate of its type, each match counts.
Counted(candidates, match) ==
  LET g == KeyOf[match.phrase]
  IN  IF candidates[g].frequency = 0
      THEN [candidates EXCEPT ![g] = [type |-> match.type, frequency |-> 1]]
      ELSE [candidates EXCEPT ![g].frequency = @ + 1]

\* What users say is not counted.
Read(candidates, entry) ==
  LET after[n \in 0 .. Len(entry.matches)] ==
        IF n = 0 THEN candidates ELSE Counted(after[n - 1], entry.matches[n])
  IN  IF entry.role = "user" THEN candidates ELSE after[Len(entry.matches)]

NoCandidates == [g \in Gap |-> [type |-> "hard", frequency |-> 0]]

Candidates ==
  LET after[n \in 0 .. Len(Entries)] ==
        IF n = 0 THEN NoCandidates ELSE Read(after[n - 1], Entries[n])
  IN  after[Len(Entries)]

Impact(type) == CASE type = "hard" -> 10 [] type = "soft" -> 7 [] type = "efficiency" -> 4

\* frequency * impact * feasibility, rounded to thousandths.
Priority(g, c) == LET raw == 10 * c.frequency * Impact(c.type) * Feasible(g)
                  IN  (2 * raw + ScanLimit) \div (2 * ScanLimit)

\* sortGapsByPriority: a gap moves forward past those of a lower priority.
Insert(sorted, f) ==
  LET ahead == CHOOSE n \in 0 .. Len(sorted) :
                 /\ n > 0 => sorted[n].priority >= f.priority
                 /\ \A i \in n + 1 .. Len(sorted) : sorted[i].priority < f.priority
  IN  [i \in 1 .. Len(sorted) + 1 |-> IF i <= ahead THEN sorted[i]
                                      ELSE IF i = ahead + 1 THEN f ELSE sorted[i - 1]]

Sorted(found) ==
  LET after[n \in 0 .. Len(found)] == IF n = 0 THEN <<>> ELSE Insert(after[n - 1], found[n])
  IN  after[Len(found)]

Scored(candidates, g) == [gap |-> g, type |-> candidates[g].type, frequency |-> candidates[g].frequency,
                          priority |-> Priority(g, candidates[g])]

\* Scan: the candidates come in the order of a map.
ScanMemory ==
  LET candidates == Candidates
      kept == {g \in Gap : candidates[g].frequency > 0
                           /\ Priority(g, candidates[g]) >= MinPriority}
  IN  /\ \E order \in SetToSeqs(kept) :
           ranking' = Sorted([i \in DOMAIN order |-> Scored(candidates, order[i])])
      /\ UNCHANGED messages

GapsNext == \/ \E role \in {"user", "assistant", "tool"}, matches \in Text : Say(role, matches)
            \/ ScanMemory

-----------------------------------------------------------------------------
\* The matches of g in the latest messages not by a user, each where it is.
Telling(g) == UNION {{<<i, j>> : j \in {k \in DOMAIN messages[i].matches :
                        KeyOf[messages[i].matches[k].phrase] = g}} :
                     i \in {k \in DOMAIN messages : /\ k > Len(messages) - ScanLimit
                                                    /\ messages[k].role # "user"}}

\* The first a scan comes to: in the newest message, the first pattern.
Newest(places) == CHOOSE p \in places : \A q \in places :
                    q[1] < p[1] \/ (q[1] = p[1] /\ q[2] >= p[2])

Due(g) == LET newest == Newest(Telling(g))
          IN  [type |-> messages[newest[1]].matches[newest[2]].type,
               frequency |-> Cardinality(Telling(g))]

Ranks(r) ==
  /\ {r[i].gap : i \in DOMAIN r} =
       {g \in Gap : Telling(g) # {} /\ Priority(g, Due(g)) >= MinPriority}
  /\ \A i, j \in DOMAIN r :
       /\ i < j => r[i].priority >= r[j].priority /\ r[i].gap # r[j].gap
       /\ LET g == r[i].gap
          IN  r[i] = [gap |-> g, type |-> Due(g).type, frequency |-> Due(g).frequency,
                      priority |-> Priority(g, Due(g))]

\* A scan ranks every gap it should and no other, once each, highest first: its
\* frequency is the matches of its key in the latest messages not by a user, its type
\* that of the newest of them (detector.go:49-94, 114-261, 336-366, 436-442).
RankingIsRight == [][ScanMemory => Ranks(ranking')]_gvars
=============================================================================
