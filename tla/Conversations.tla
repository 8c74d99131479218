---------------------------- MODULE Conversations ----------------------------
(***************************************************************************)
(* Sessions, their branches and the rows that outlive the program: the     *)
(* agent manager (internal/agent/manager.go), the part of an agent that    *)
(* keeps and saves its messages (agent.go, context.go) and the message     *)
(* store (internal/memory/store.go).  A question comes from a goroutine of *)
(* its own (web/server.go), so two of one session may overlap, and nothing *)
(* locks an agent's messages: what a goroutine writes back is made from    *)
(* what it read in an earlier step, and what others wrote between is lost. *)
(***************************************************************************)
EXTENDS Integers, Sequences, SequencesExt, Subsequences

CONSTANTS
  Session,
  MaxQuestions,   \* bounds the questions
  MaxRows,        \* the rows a branch is made from
  MaxSwitches,    \* and the branch switches
  MaxMemory       \* messages the context window has room for

ASSUME ConversationAssumption == /\ MaxQuestions \in Nat /\ MaxRows \in Nat
                                 /\ MaxSwitches \in Nat /\ MaxMemory \in Nat \ {0, 1}

VARIABLES
  rows,       \* mem_messages: the session, branch and message of each id
  agents,     \* Manager.agents, and the branch and messages of each
  questions,  \* what was asked: of which session, on which branch, how far it is,
              \* and the messages its goroutine has read and will write back
  \* What happened, for the properties:
  switches,   \* how often a branch was switched
  unsaved     \* the lines whose save has failed since the program began

cvars == <<rows, agents, questions, switches, unsaved>>

Main == 0
Branch == 0 .. MaxRows      \* CreateBranch names a branch after a row
Question == 1 .. MaxQuestions
Line == Question \X {"user", "assistant"}

QuestionRow == [session : Session, branch : Branch,
                phase : {"waiting", "binding", "bound", "asking", "asked", "cutting",
                         "thinking", "answering", "replied", "closing", "answered",
                         "failed", "lost"},
                read : Seq(Line)]

ConversationsTypeOK ==
  /\ rows \in Seq([session : Session, branch : Branch, line : Line])
  /\ agents \in [Session -> [made : BOOLEAN, branch : Branch, memory : Seq(Line)]]
  /\ questions \in Seq(QuestionRow) /\ Len(questions) <= MaxQuestions
  /\ switches \in 0 .. MaxSwitches /\ unsaved \subseteq Line

NoAgents == [s \in Session |-> [made |-> FALSE, branch |-> Main, memory |-> <<>>]]

ConversationsInit == rows = <<>> /\ agents = NoAgents /\ questions = <<>>
                     /\ switches = 0 /\ unsaved = {}

-----------------------------------------------------------------------------
\* What a session has on a branch, oldest first.
LoadSessionBranch(s, b) ==
  Subsequence([i \in DOMAIN rows |-> rows[i].line],
              {i \in DOMAIN rows : rows[i].session = s /\ rows[i].branch = b})

\* The query may fail, and nothing is loaded.
Loaded(s, b) == {LoadSessionBranch(s, b), <<>>}

\* The oldest messages go when there is no room.
Truncated(m) == SubSeq(m, IF Len(m) > MaxMemory THEN Len(m) - MaxMemory + 1 ELSE 1, Len(m))

\* GetAgent: one that is made begins with the main branch of its session.
Got(s, there) == IF agents[s].made THEN agents[s]
                 ELSE [made |-> TRUE, branch |-> Main, memory |-> there]

\* SetMessages, unless the branch was empty.
Replaced(m, there) == IF there = <<>> THEN m ELSE Truncated(there)

\* A question goes on, with what its goroutine has read.
Go(q, from, to, m) ==
  /\ questions[q].phase = from
  /\ questions' = [questions EXCEPT ![q].phase = to, ![q].read = m]

\* A goroutine of its own begins with a question.
Ask(s, b) == /\ Len(questions) < MaxQuestions
             /\ questions' = Append(questions, [session |-> s, branch |-> b,
                                               phase |-> "waiting", read |-> <<>>])
             /\ UNCHANGED <<rows, agents, switches, unsaved>>

\* Mutant: the messages loaded are those of any session.
BindAny(q) ==
  LET s == questions[q].session
  IN  /\ Go(q, "waiting", "bound", <<>>) /\ UNCHANGED <<rows, switches, unsaved>>
      /\ \E any \in Session : \E there \in Loaded(any, Main) :
           agents' = [agents EXCEPT ![s] = Got(s, there)]

\* ProcessMessageWithBranch, up to HandleMessage: the agent, and, for a branch other
\* than main, its name and what it has, which SetMessages puts in place afterwards.
Bind(q) ==
  LET s == questions[q].session
      b == questions[q].branch
  IN  /\ \E main \in Loaded(s, Main) :
           agents' = [agents EXCEPT ![s] = IF b = Main THEN Got(s, main)
                                           ELSE [Got(s, main) EXCEPT !.branch = b]]
      /\ IF b = Main THEN Go(q, "waiting", "bound", <<>>)
         ELSE \E there \in Loaded(s, b) : Go(q, "waiting", "binding", there)
      /\ UNCHANGED <<rows, switches, unsaved>>

SetMessages(q) ==
  /\ Go(q, "binding", "bound", <<>>) /\ UNCHANGED <<rows, switches, unsaved>>
  /\ agents' = [agents EXCEPT ![questions[q].session].memory = Replaced(@, questions[q].read)]

\* The session is over its budget, or the limiter or the sanitizer answers for it.
Refuse(q) == /\ Go(q, "waiting", "answered", <<>>) \/ Go(q, "bound", "answered", <<>>)
             /\ UNCHANGED <<rows, agents, switches, unsaved>>

\* AddMessage: append reads the slice of messages,
ReadMemory(q, from, to) == /\ Go(q, from, to, agents[questions[q].session].memory)
                     /\ UNCHANGED <<rows, agents, switches, unsaved>>

\* and writes the longer one;
Remember(q, role, from, to) ==
  /\ Go(q, from, to, <<>>) /\ UNCHANGED <<rows, switches, unsaved>>
  /\ agents' = [agents EXCEPT ![questions[q].session].memory =
                  Append(questions[q].read, <<q, role>>)]

\* SaveMessage stores the line on the agent's branch of that moment, or fails, which is
\* logged and no more; then truncate reads the slice
SaveMessage(q, role, from, to) ==
  LET s == questions[q].session
  IN  /\ Go(q, from, to, agents[s].memory) /\ UNCHANGED <<agents, switches>>
      /\ \/ /\ rows' = Append(rows, [session |-> s, branch |-> agents[s].branch,
                                     line |-> <<q, role>>])
            /\ UNCHANGED unsaved
         \/ unsaved' = unsaved \cup {<<q, role>>} /\ UNCHANGED rows

\* and cuts it, if it is too long.
Cut(q, from, to) ==
  LET s == questions[q].session
      m == questions[q].read
  IN  /\ Go(q, from, to, <<>>) /\ UNCHANGED <<rows, switches, unsaved>>
      /\ agents' = IF Len(m) > MaxMemory THEN [agents EXCEPT ![s].memory = Truncated(m)]
                   ELSE agents

AddQuestion(q) == \/ ReadMemory(q, "bound", "asking") \/ Remember(q, "user", "asking", "asked")
                  \/ SaveMessage(q, "user", "asked", "cutting")
                  \/ Cut(q, "cutting", "thinking")

AddAnswer(q) == \/ ReadMemory(q, "thinking", "answering")
                \/ Remember(q, "assistant", "answering", "replied")
                \/ SaveMessage(q, "assistant", "replied", "closing")
                \/ Cut(q, "closing", "answered")

\* The providers fail, or three minutes are over.
Fail(q) == Go(q, "thinking", "failed", <<>>) /\ UNCHANGED <<rows, agents, switches, unsaved>>

Handle(q) == \/ Bind(q) \/ SetMessages(q) \/ Refuse(q) \/ AddQuestion(q) \/ AddAnswer(q)
             \/ Fail(q)

\* POST /api/branches: the row itself moves to the new branch.
CreateBranch(s, id) ==
  /\ id \in DOMAIN rows /\ id <= MaxRows
  /\ rows' = IF rows[id].session = s THEN [rows EXCEPT ![id].branch = id] ELSE rows
  /\ UNCHANGED <<agents, questions, switches, unsaved>>

\* SwitchBranch, which does nothing when the session has no agent yet.
SwitchBranch(s, b) ==
  /\ agents[s].made /\ switches < MaxSwitches /\ switches' = switches + 1
  /\ UNCHANGED <<rows, questions, unsaved>>
  /\ \E there \in Loaded(s, b) :
       agents' = [agents EXCEPT ![s] = [made |-> TRUE, branch |-> b,
                                       memory |-> Replaced(agents[s].memory, there)]]

\* The program ends and begins again: the rows are what is left.
Restart == /\ agents # NoAgents /\ agents' = NoAgents
           /\ questions' = [q \in DOMAIN questions |-> [questions[q] EXCEPT !.phase =
                               IF @ \in {"answered", "failed"} THEN @ ELSE "lost",
                                                             !.read = <<>>]]
           /\ unsaved' = {} /\ UNCHANGED <<rows, switches>>

ConversationsNext ==
  \/ \E s \in Session, b \in Branch : Ask(s, b) \/ SwitchBranch(s, b) \/ CreateBranch(s, b)
  \/ \E q \in DOMAIN questions : Handle(q)
  \/ Restart

-----------------------------------------------------------------------------
\* Whatever is switched, branched, restarted or asked at the same time, and whichever
\* additions are lost, an agent has in memory only messages of its own session, none
\* of them twice, and each of them saved, about to be, or one whose save failed since
\* the program began (context.go:65-77, agent.go:532-541, manager.go:81-151).
MemoryIsSaved ==
  \A s \in Session :
    LET memory == agents[s].memory
        own(l) == l[1] \in DOMAIN questions /\ questions[l[1]].session = s
        saved == {rows[i].line : i \in {j \in DOMAIN rows : rows[j].session = s}}
        saving == {l \in Line : own(l) /\ questions[l[1]].phase =
                                   IF l[2] = "user" THEN "asked" ELSE "replied"}
    IN  /\ IsInjective(memory)
        /\ ToSet(memory) \subseteq saved \cup saving \cup {l \in unsaved : own(l)}
=============================================================================
