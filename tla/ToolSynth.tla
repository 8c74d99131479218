------------------------------ MODULE ToolSynth ------------------------------
(***************************************************************************)
(* Tool synthesis (internal/toolsynth): a run of the pipeline takes the    *)
(* gaps the detector finds and has a tool designed, coded, tested, written *)
(* and registered for each; meanwhile tools are removed; and the program   *)
(* may crash between any two steps, to find on disk what it left there.    *)
(*                                                                         *)
(* The directory of sources is what a restart goes by; the registrar's map *)
(* is in memory, under its mutex; the pipeline writes a source without it. *)
(* A source in progress is Torn: os.WriteFile truncates, then writes.      *)
(* Run is for one caller: the detector keeps its statistics without a lock.*)
(***************************************************************************)
EXTENDS Integers, FiniteSets

CONSTANTS
  Name,         \* what a model may call the tools it designs
  Source,       \* the source files it may write
  Broken,       \* those that do not compile
  Temperature,  \* CandidateTemperatures, as the indices of the tries
  MaxGaps,      \* bounds what a scan finds
  MaxCases,     \* bounds the test cases of a design
  MinPassRate   \* in per cent

ASSUME SourceAssumption == Broken \subseteq Source
ASSUME RateAssumption == MinPassRate \in 0 .. 100
ASSUME BoundAssumption == /\ IsFiniteSet(Temperature)
                          /\ MaxGaps \in Nat /\ MaxCases \in Nat

Absent == "absent"
Torn == "torn"
None == "none"

ASSUME NamesAssumption == {Absent, Torn, None} \cap (Name \cup Source) = {}

VARIABLES
  up,        \* whether the program runs, and could list its directory
  file,      \* the directory of sources
  registry,  \* the names in synth_tools_registry, which nothing reads back
  tools,     \* the registrar's map: how it knows each name
  lock,      \* who holds its mutex
  pc,        \* where the pipeline is
  work,      \* the gap it works on
  left,      \* the gaps its scan found and it is not done with
  remover,   \* where a call of Remove is
  target,    \* and the name it removes
  known      \* the names Register has returned nil for, until they are removed

disk == <<file, registry>>
registrar == <<tools, lock>>
pipeline == <<pc, work, left>>
removal == <<remover, target>>
vars == <<up, disk, registrar, pipeline, removal, known>>

\* A candidate, with its BuildError: a message, or none.
Candidate == [source : Source, error : {"", "diagnostics"}]
CandidateLists == UNION {[1 .. n -> Candidate] : n \in 0 .. Cardinality(Temperature)}

NoWork == [name |-> None, cases |-> 0, candidates |-> <<>>, best |-> None, passed |-> 0]
Work == [name : Name \cup {None}, cases : 0 .. MaxCases, candidates : CandidateLists,
         best : Source \cup {None}, passed : 0 .. MaxCases]

TypeOK == /\ up \in {"down", "listed", "blind"}
          /\ file \in [Name -> Source \cup {Absent, Torn}]
          /\ registry \subseteq Name
          /\ tools \in [Name -> {"none", "loaded", "registered"}]
          /\ lock \in {"free", "pipeline", "remover"}
          /\ pc \in {"idle", "gap", "code", "test", "write", "writing", "register",
                     "rewrite", "rewriting", "record", "persist"}
          /\ work \in Work /\ left \in 0 .. MaxGaps
          /\ remover \in {"idle", "unlink", "forget", "delete"}
          /\ target \in Name \cup {None}
          /\ known \subseteq Name

\* What a restart finds in the directory (loadExisting).
Listing == [n \in Name |-> IF file[n] = Absent THEN "none" ELSE "loaded"]

Init == /\ up = "listed"
        /\ file = [n \in Name |-> Absent] /\ registry = {}
        /\ tools = Listing /\ lock = "free"
        /\ pc = "idle" /\ work = NoWork /\ left = 0
        /\ remover = "idle" /\ target = None
        /\ known = {}

Goto(from, to) == pc = from /\ pc' = to

-----------------------------------------------------------------------------
\* Pipeline.Run and processGap.

\* The scan reads the last messages; what it makes of them is up to their text.
Scan == /\ Goto("idle", "gap")
        /\ left' \in 0 .. MaxGaps
        /\ UNCHANGED <<work, disk, registrar, known>>

\* The gap is done with, one way or the other; its result tells which.
Done == pc' = "gap" /\ work' = NoWork /\ left' = left - 1

\* No gap is left, or the context was cancelled.
Finish == /\ Goto("gap", "idle") /\ left' = 0
          /\ UNCHANGED <<work, disk, registrar, known>>

\* The specification is also stored, in a table that nothing reads.
Answer == /\ \/ \E n \in Name, c \in 1 .. MaxCases :
                   /\ Goto("gap", "code")
                   /\ work' = [NoWork EXCEPT !.name = n, !.cases = c]
                   /\ UNCHANGED left
             \/ Done
          /\ UNCHANGED <<disk, registrar, known>>

Design == pc = "gap" /\ left > 0 /\ Answer

\* What the validator may return of a source: a source that does not compile has
\* diagnostics; any source may fail without, when there is no directory to build in
\* or no go to build it with.
Validate(s) == [source : {s}, error : {"", IF s \in Broken THEN "diagnostics" ELSE ""}]

Valid(c) == c.error = ""

\* One try at each temperature; a model that does not answer leaves no candidate.
Tries == {cs \in CandidateLists : \A i \in DOMAIN cs : cs[i] \in Validate(cs[i].source)}

\* Mutant: the coder takes the last valid candidate.
LastValid(cs) ==
  cs[CHOOSE i \in DOMAIN cs :
       Valid(cs[i]) /\ \A j \in DOMAIN cs : Valid(cs[j]) => j <= i].source

\* The coder's choice of the candidate to write,
FirstValid(cs) ==
  cs[CHOOSE i \in DOMAIN cs :
       Valid(cs[i]) /\ \A j \in DOMAIN cs : Valid(cs[j]) => i <= j].source

\* and processGap's of bestSource, the one to register.
Best(cs) ==
  cs[CHOOSE i \in DOMAIN cs :
       Valid(cs[i]) /\ \A j \in DOMAIN cs : Valid(cs[j]) => i <= j].source

\* When none is valid, Generate fails, and the result counts no candidate.
Generate ==
  /\ pc = "code"
  /\ \E cs \in Tries :
       IF \E i \in DOMAIN cs : Valid(cs[i])
       THEN /\ Goto("code", "test") /\ UNCHANGED left
            /\ work' = [work EXCEPT !.candidates = cs, !.best = Best(cs)]
       ELSE Done
  /\ UNCHANGED <<disk, registrar, known>>

Enough(passed, cases) == 100 * passed >= MinPassRate * cases

\* The tester has its runner run every case by the name of the tool, and drops the source
\* it is given: how many pass is up to what the runner runs.
Test == /\ pc = "test"
        /\ \E passed \in 0 .. work.cases :
             IF Enough(passed, work.cases)
             THEN /\ Goto("test", "write") /\ UNCHANGED left
                  /\ work' = [work EXCEPT !.passed = passed]
             ELSE Done
        /\ UNCHANGED <<disk, registrar, known>>

\* os.WriteFile: it truncates, and then writes, unless either fails.  A file that
\* was unlinked in between gets the text, and not the name.
Truncate(from, to) == /\ Goto(from, to) /\ file' = [file EXCEPT ![work.name] = Torn]
                      /\ UNCHANGED <<work, left>>
Fill(from, to, s) ==
  /\ Goto(from, to) /\ UNCHANGED <<work, left>>
  /\ file' = [file EXCEPT ![work.name] = IF @ = Absent THEN Absent ELSE s]

\* Coder.WriteValidSource, outside the registrar's mutex.
WriteValidSource ==
  /\ \/ Truncate("write", "writing")
     \/ Fill("writing", "register", FirstValid(work.candidates))
     \/ pc \in {"write", "writing"} /\ Done /\ UNCHANGED file
  /\ UNCHANGED <<registry, registrar, known>>

\* Registrar.Register, under its mutex to its end.
Lock == /\ Goto("register", "rewrite") /\ lock = "free" /\ lock' = "pipeline"
        /\ UNCHANGED <<work, left, disk, tools, known>>

\* Mutant: Register leaves the file to the coder.
RewriteNothing == /\ Goto("rewrite", "record")
                  /\ UNCHANGED <<work, left, disk, registrar, known>>

Rewrite ==
  /\ \/ Truncate("rewrite", "rewriting") /\ UNCHANGED lock
     \/ Fill("rewriting", "record", work.best) /\ UNCHANGED lock
     \/ /\ pc \in {"rewrite", "rewriting"} /\ Done
        /\ lock' = "free" /\ UNCHANGED file
  /\ UNCHANGED <<registry, tools, known>>

Record == /\ Goto("record", "persist")
          /\ tools' = [tools EXCEPT ![work.name] = "registered"]
          /\ UNCHANGED <<work, left, disk, lock, known>>

\* A row that is not stored is only logged; then Register returns nil.
Persist ==
  /\ pc = "persist" /\ Done
  /\ registry' \in {registry, registry \cup {work.name}}
  /\ lock' = "free" /\ known' = known \cup {work.name}
  /\ UNCHANGED <<file, tools>>

Register == Lock \/ Rewrite \/ Record \/ Persist

-----------------------------------------------------------------------------
\* Registrar.Remove.

Remove(n) ==
  /\ remover = "idle" /\ lock = "free" /\ tools[n] # "none"
  /\ lock' = "remover" /\ remover' = "unlink" /\ target' = n
  /\ UNCHANGED <<disk, tools, known>>

\* Mutant: the mutex is kept when the file cannot be removed.
LeaveLocked == remover' = "idle" /\ target' = None /\ UNCHANGED lock

Leave == remover' = "idle" /\ target' = None /\ lock' = "free"

Unlink == /\ remover = "unlink"
          /\ \/ /\ file' = [file EXCEPT ![target] = Absent]
                /\ known' = known \ {target} /\ remover' = "forget"
                /\ UNCHANGED <<target, lock>>
             \/ Leave /\ UNCHANGED <<file, known>>
          /\ UNCHANGED <<registry, tools>>

Forget == /\ remover = "forget" /\ remover' = "delete"
          /\ tools' = [tools EXCEPT ![target] = "none"]
          /\ UNCHANGED <<target, lock, disk, known>>

\* The result of the DELETE is not looked at.
Delete == /\ remover = "delete" /\ Leave
          /\ registry' \in {registry, registry \ {target}}
          /\ UNCHANGED <<file, tools, known>>

-----------------------------------------------------------------------------
\* The program.

Crash == /\ up # "down" /\ up' = "down" /\ tools' = [n \in Name |-> "none"] /\ lock' = "free"
         /\ pc' = "idle" /\ work' = NoWork /\ left' = 0
         /\ remover' = "idle" /\ target' = None
         /\ UNCHANGED <<disk, known>>

Start(listing) ==
  /\ up = "down"
  /\ \/ up' = "listed" /\ tools' = listing
     \/ up' = "blind" /\ UNCHANGED tools
  /\ UNCHANGED <<lock, pipeline, removal, disk, known>>

\* Mutant: the tools are looked up in the registry, not in the directory.
RestartFromRegistry ==
  Start([n \in Name |-> IF n \in registry THEN "loaded" ELSE "none"])

\* An error of ReadDir is dropped, and the map stays empty.
Restart == Start(Listing)

Up == up # "down" /\ UNCHANGED up

Synthesize == Scan \/ Finish \/ Design \/ Generate \/ Test \/ WriteValidSource \/ Register
Removing == Unlink \/ Forget \/ Delete

Next == \/ Up /\ Synthesize /\ UNCHANGED removal
        \/ Up /\ (Removing \/ \E n \in Name : Remove(n)) /\ UNCHANGED pipeline
        \/ Crash
        \/ Restart

Spec == Init /\ [][Next]_vars

\* The two goroutines run; models and test cases end; a mutex is not kept from one
\* that waits.
FairSpec == /\ Spec
            /\ WF_vars(Up /\ Synthesize /\ pc # "register" /\ UNCHANGED removal)
            /\ SF_vars(Up /\ Lock /\ UNCHANGED removal)
            /\ WF_vars(Up /\ Removing /\ UNCHANGED pipeline)

-----------------------------------------------------------------------------
\* Properties.

\* Whatever is written for a tool, by the coder or again by the registrar, which choose
\* apart, is bestSource, in which validation found nothing, under the name of the design
\* of which enough cases passed: the directory is what a restart loads tools from.  That
\* the cases were run by that source is not so, see Test (pipeline.go:163-195,
\* coder.go:104-119, registrar.go:97-102).
WrittenIsChosen ==
  [][\A n \in Name : file'[n] \notin {file[n], Absent, Torn} =>
       /\ n = work.name /\ file'[n] = work.best /\ Enough(work.passed, work.cases)
       /\ \E i \in DOMAIN work.candidates :
            Valid(work.candidates[i]) /\ work.candidates[i].source = file'[n]]_vars

\* A tool that was registered survives a crash at any point, and the writes of a
\* pipeline that Remove overtakes, until it is removed: its file is in the
\* directory a restart reads, and a program that could read it knows the tool
\* (registrar.go:85-140, 180-238).
RegisteredSurvive == \A n \in known : file[n] # Absent /\ (up = "listed" => tools[n] # "none")

\* Whoever finds a tool in the map, the mutex being free, finds its file
\* (registrar.go:143-177).
EntriesHaveFiles ==
  lock = "free" => \A n \in Name : tools[n] # "none" => file[n] # Absent

\* A run of the pipeline ends, whatever fails and whoever removes tools meanwhile
\* (pipeline.go:72-135).
RunEnds == pc = "gap" ~> pc = "idle"
=============================================================================
