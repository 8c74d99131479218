----------------------------- MODULE AgentLoop -----------------------------
(***************************************************************************)
(* Agent.HandleMessage and StreamMessage (internal/agent/agent.go) over    *)
(* one session's ContextManager (context.go) and its rows in the message   *)
(* store: the loop that asks a provider, runs the tools it calls, one      *)
(* goroutine each, and asks again, within a token budget that truncation   *)
(* and summarization keep.                                                 *)
(*                                                                         *)
(* A message is known by the call of HandleMessage and the iteration it    *)
(* belongs to, and by its place among the results of one exchange.  Its    *)
(* text is its size in tokens.  One call of the session is handled at a    *)
(* time, as by a channel that waits for each answer (cmd; tui, but for     *)
(* Escape), and AgentOverlap is for those that do not: here nobody sees an *)
(* addition half done, and a crash within it is one before or after its    *)
(* save, for memory is lost.                                               *)
(***************************************************************************)
EXTENDS Integers, Sequences, FiniteSets, SequencesExt

CONSTANTS
  MaxCalls,       \* bound: messages the user sends
  MaxIterations,  \* constants.MaxIterations
  MaxTools,       \* bound: tool calls in one answer
  Sizes,          \* bound: sizes of a tool's output, or of a summary
  Budget,         \* maxTokens
  MaxFaults,      \* bound: saves that fail
  MaxCrashes      \* bound: crashes of the process

ASSUME BoundAssumption ==
  /\ {MaxCalls, MaxIterations, MaxTools, Budget} \subseteq Nat \ {0}
  /\ Sizes \subseteq Nat \ {0} /\ {MaxFaults, MaxCrashes} \subseteq Nat

Call == 1 .. MaxCalls
Tool == 1 .. MaxTools

VARIABLES
  pc, iter,   \* of each call: where it is, and its iteration
  gor, out,   \* of each call's tool goroutines: state, and results[i] (0: none)
  pos,        \* of each call: how many results it has added
  prompt,     \* of each call: the messages it sent to the provider
  outcome,    \* of each call: how it ended
  messages,   \* ContextManager.messages
  rows,       \* the session's rows in mem_messages
  unsaved,    \* the messages whose save failed
  crashes     \* crashes so far

vars == <<pc, iter, gor, out, pos, prompt, outcome, messages, rows, unsaved,
          crashes>>

Msg(role, h, i, x, s) == [role |-> role, call |-> h, iter |-> i, idx |-> x,
                          size |-> s]
\* idx of a "calls" message is the number of tools it calls.
Message == [role : {"user", "assistant", "calls", "tool", "summary"},
            call : 0 .. MaxCalls, iter : 0 .. MaxIterations,
            idx : 0 .. MaxTools, size : Nat]

TypeOK ==
  /\ pc \in [Call -> {"idle", "loop", "asking", "tools", "results", "summarizing",
                      "streaming", "done"}]
  /\ iter \in [Call -> 0 .. MaxIterations]
  /\ gor \in [Call -> UNION {[1 .. n -> {"running", "stored", "ended"}]
                             : n \in 0 .. MaxTools}]
  /\ \A h \in Call : out[h] \in [DOMAIN gor[h] -> Sizes \cup {0, 1}]
  /\ pos \in [Call -> 0 .. MaxTools]
  /\ outcome \in [Call -> {"none", "refused", "reply", "error", "iterations",
                           "lost"}]
  /\ \A s \in {messages, rows} \cup {prompt[h] : h \in Call} :
       Range(s) \subseteq Message
  /\ unsaved \subseteq Message /\ crashes \in 0 .. MaxCrashes

Init == /\ pc = [h \in Call |-> "idle"] /\ iter = [h \in Call |-> 0]
        /\ gor = [h \in Call |-> << >>] /\ out = [h \in Call |-> << >>]
        /\ pos = [h \in Call |-> 0] /\ prompt = [h \in Call |-> << >>]
        /\ outcome = [h \in Call |-> "none"]
        /\ messages = << >> /\ rows = << >> /\ unsaved = {} /\ crashes = 0

-----------------------------------------------------------------------------
\* The ContextManager.

Tokens(s) == FoldSeq(LAMBDA m, n : m.size + n, 0, s)

Drop(s, k) == SubSeq(s, k + 1, Len(s))

\* Mutant: the newest message goes first.
TruncatedAtEnd(s) ==
  IF Tokens(s) <= Budget \/ Len(s) <= 2 THEN s ELSE Front(s)

\* The shortest cut from the front that fits, never leaving fewer than two.
Truncated(s) ==
  LET Fits(k) == Tokens(Drop(s, k)) <= Budget \/ Len(s) - k <= 2
  IN  Drop(s, CHOOSE k \in 0 .. Len(s) :
                Fits(k) /\ \A j \in 0 .. k - 1 : ~Fits(j))

\* AddMessage, AddToolCallMessage, AddToolResultMessage: a save that fails is
\* logged and forgotten.
Add(m) == /\ messages' = Truncated(Append(messages, m))
          /\ \/ rows' = Append(rows, m) /\ UNCHANGED unsaved
             \/ /\ Cardinality(unsaved) < MaxFaults
                /\ unsaved' = unsaved \cup {m} /\ UNCHANGED rows

NeedsSummarization == Tokens(messages) * 5 > Budget * 4

WithSummary(s, z, kept) ==
  IF Len(s) < 4 THEN s ELSE <<Msg("summary", 0, 0, 0, z)>> \o kept

\* Mutant: what is kept is what came first.
SummarizedNewest(s, z) == WithSummary(s, z, SubSeq(s, 1, 2))

Summarized(s, z) == WithSummary(s, z, Drop(s, Len(s) - 2))

\* Between calls, the user clears the conversation; its rows stay.
ClearContext == /\ \A h \in Call : pc[h] \in {"idle", "done"}
                /\ messages # << >> /\ messages' = << >>
                /\ UNCHANGED <<pc, iter, gor, out, pos, prompt, outcome, rows,
                               unsaved, crashes>>

-----------------------------------------------------------------------------
\* HandleMessage.

Goto(h, l) == pc' = [pc EXCEPT ![h] = l]

Return(h, o) == /\ Goto(h, "done") /\ outcome' = [outcome EXCEPT ![h] = o]
                /\ prompt' = [prompt EXCEPT ![h] = << >>]

Active == {h \in Call : pc[h] \notin {"idle", "done"}}

MayStart(h) == pc[h] = "idle" /\ Active = {} /\ \A g \in 1 .. h - 1 : pc[g] # "idle"

\* Over the rate limit, or flagged by the sanitizer: nothing is remembered.
Refuse(h) == /\ MayStart(h) /\ Return(h, "refused")
             /\ UNCHANGED <<iter, gor, out, pos, messages, rows, unsaved, crashes>>

Start(h) == /\ MayStart(h) /\ Goto(h, "loop") /\ Add(Msg("user", h, 0, 0, 1))
            /\ UNCHANGED <<iter, gor, out, pos, prompt, outcome, crashes>>

\* Mutant: one iteration too many.
AskOnceMore(h) == /\ pc[h] = "loop" /\ iter[h] <= MaxIterations
                  /\ messages' = Truncated(messages)
                  /\ prompt' = [prompt EXCEPT ![h] = messages'] /\ Goto(h, "asking")
                  /\ UNCHANGED <<iter, gor, out, pos, outcome, rows, unsaved,
                                 crashes>>

\* buildMessages: GetMessages truncates first.
Ask(h) == /\ pc[h] = "loop" /\ iter[h] < MaxIterations
          /\ messages' = Truncated(messages)
          /\ prompt' = [prompt EXCEPT ![h] = messages'] /\ Goto(h, "asking")
          /\ UNCHANGED <<iter, gor, out, pos, outcome, rows, unsaved, crashes>>

OutOfIterations(h) ==
  /\ pc[h] = "loop" /\ iter[h] = MaxIterations /\ Return(h, "iterations")
  /\ UNCHANGED <<iter, gor, out, pos, messages, rows, unsaved, crashes>>

\* The cache or a provider answers with a text.
Reply(h) == /\ pc[h] = "asking" /\ Return(h, "reply")
            /\ Add(Msg("assistant", h, iter[h], 0, 1))
            /\ UNCHANGED <<iter, gor, out, pos, crashes>>

\* Every provider failed.
AskFails(h) == /\ pc[h] = "asking" /\ Return(h, "error")
               /\ UNCHANGED <<iter, gor, out, pos, messages, rows, unsaved,
                              crashes>>

CallTools(h, n) == /\ pc[h] = "asking" /\ Goto(h, "tools")
                   /\ Add(Msg("calls", h, iter[h], n, 1))
                   /\ gor' = [gor EXCEPT ![h] = [t \in 1 .. n |-> "running"]]
                   /\ out' = [out EXCEPT ![h] = [t \in 1 .. n |-> 0]]
                   /\ pos' = [pos EXCEPT ![h] = 0]
                   /\ prompt' = [prompt EXCEPT ![h] = << >>]
                   /\ UNCHANGED <<iter, outcome, crashes>>

\* The goroutine of a tool call.

ToolStep(h, t, from, to, s) ==
  /\ pc[h] = "tools" /\ t \in DOMAIN gor[h] /\ gor[h][t] = from
  /\ gor' = [gor EXCEPT ![h][t] = to] /\ out' = [out EXCEPT ![h][t] = s]
  /\ UNCHANGED <<pc, iter, pos, prompt, outcome, messages, rows, unsaved, crashes>>

\* The tool returned, in time or with an error.
StoreOutput(h, t) == \E s \in Sizes : ToolStep(h, t, "running", "stored", s)
\* Its arguments do not parse: an error message, and no callback.
BadArguments(h, t) == ToolStep(h, t, "running", "ended", 1)
Callback(h, t) == ToolStep(h, t, "stored", "ended", out[h][t])
\* The tool, or the callback after the result was stored, panics: the recover
\* writes the result, over the one that was there.
ToolPanics(h, t) == \E from \in {"running", "stored"} : ToolStep(h, t, from, "ended", 1)

\* Mutant: the wait group is waited on before the last Add.
JoinedButLast(h) == \A t \in DOMAIN gor[h] : t < Len(gor[h]) => gor[h][t] = "ended"
Joined(h) == \A t \in DOMAIN gor[h] : gor[h][t] = "ended"

Join(h) == /\ pc[h] = "tools" /\ Joined(h) /\ Goto(h, "results")
           /\ UNCHANGED <<iter, gor, out, pos, prompt, outcome, messages, rows,
                          unsaved, crashes>>

AddResult(h) == /\ pc[h] = "results" /\ pos[h] < Len(out[h])
                /\ pos' = [pos EXCEPT ![h] = @ + 1]
                /\ Add(Msg("tool", h, iter[h], pos[h] + 1, out[h][pos[h] + 1]))
                /\ UNCHANGED <<pc, iter, gor, out, prompt, outcome, crashes>>

NextIteration(h) == /\ Goto(h, "loop") /\ iter' = [iter EXCEPT ![h] = @ + 1]
                    /\ gor' = [gor EXCEPT ![h] = << >>]
                    /\ out' = [out EXCEPT ![h] = << >>]
                    /\ pos' = [pos EXCEPT ![h] = 0]

ResultsAdded(h) == pc[h] = "results" /\ pos[h] = Len(out[h])

NoSummary(h) == /\ ResultsAdded(h) /\ ~NeedsSummarization /\ NextIteration(h)
                /\ UNCHANGED <<prompt, outcome, messages, rows, unsaved, crashes>>

\* triggerSummarization asks the active provider only.
AskSummary(h) == /\ ResultsAdded(h) /\ NeedsSummarization
                 /\ messages' = Truncated(messages)
                 /\ IF Len(messages') < 4 THEN NextIteration(h)
                    ELSE Goto(h, "summarizing") /\ UNCHANGED <<iter, gor, out, pos>>
                 /\ UNCHANGED <<prompt, outcome, rows, unsaved, crashes>>

\* The answer replaces the oldest messages; an error leaves them.
EndSummary(h) == /\ pc[h] = "summarizing" /\ NextIteration(h)
                 /\ messages' \in {messages} \cup {Summarized(messages, z) : z \in Sizes}
                 /\ UNCHANGED <<prompt, outcome, rows, unsaved, crashes>>

\* StreamMessage: one request without a loop, its goroutine adds the answer.
Stream(h) == /\ MayStart(h) /\ Goto(h, "streaming") /\ Add(Msg("user", h, 0, 0, 1))
             /\ prompt' = [prompt EXCEPT ![h] = Truncated(messages')]
             /\ UNCHANGED <<iter, gor, out, pos, outcome, crashes>>

StreamEnds(h) == /\ pc[h] = "streaming"
                 /\ \/ Return(h, "reply") /\ Add(Msg("assistant", h, 0, 0, 1))
                    \/ Return(h, "error") /\ UNCHANGED <<messages, rows, unsaved>>
                 /\ UNCHANGED <<iter, gor, out, pos, crashes>>

\* The process dies; a new agent loads the rows of the session.
Crash == /\ crashes < MaxCrashes /\ crashes' = crashes + 1
         /\ messages' = rows
         /\ pc' = [h \in Call |-> IF h \in Active THEN "done" ELSE pc[h]]
         /\ outcome' = [h \in Call |-> IF h \in Active THEN "lost" ELSE outcome[h]]
         /\ prompt' = [h \in Call |-> << >>]
         /\ gor' = [h \in Call |-> << >>] /\ out' = [h \in Call |-> << >>]
         /\ pos' = [h \in Call |-> 0]
         /\ UNCHANGED <<iter, rows, unsaved>>

Loop(h) == \/ Ask(h) \/ OutOfIterations(h) \/ Reply(h) \/ AskFails(h)
           \/ \E n \in Tool : CallTools(h, n)
           \/ Join(h) \/ AddResult(h) \/ NoSummary(h) \/ AskSummary(h)
           \/ EndSummary(h) \/ StreamEnds(h)
ToolRuns(h, t) == \/ StoreOutput(h, t) \/ BadArguments(h, t)
                  \/ Callback(h, t) \/ ToolPanics(h, t)

Finished == (\A h \in Call : pc[h] = "done") /\ UNCHANGED vars

Next == \/ \E h \in Call : \/ Start(h) \/ Stream(h) \/ Refuse(h) \/ Loop(h)
                           \/ \E t \in Tool : ToolRuns(h, t)
        \/ ClearContext \/ Crash \/ Finished

Spec == Init /\ [][Next]_vars

-----------------------------------------------------------------------------
\* Properties.

\* What stands right before a tool result in an exchange that is whole: the
\* result before it, or the calls.
Precedes(m, r) == /\ m.call = r.call /\ m.iter = r.iter
                  /\ IF r.idx = 1 THEN m.role = "calls"
                     ELSE m.role = "tool" /\ m.idx = r.idx - 1

\* Tool results follow their call, in the order of the calls.  A result that
\* does not was left at the cut by truncation or summarization, or its
\* neighbour is missing from the store because its save failed
\* (agent.go:223-293, context.go:65-135).
ResultsFollowCalls ==
  \A p \in DOMAIN messages : messages[p].role = "tool" =>
    \/ p > 1 /\ Precedes(messages[p - 1], messages[p])
    \/ p = 1
    \/ p = 2 /\ messages[1].role = "summary"
    \/ \E m \in unsaved : Precedes(m, messages[p])

\* A provider is never sent a tool call without its results, unless a crash
\* cut that exchange short or a result was not saved before it.
PromptsAreAnswered ==
  \A h \in Call : \A p \in DOMAIN prompt[h] :
    LET m == prompt[h][p] IN m.role = "calls" =>
      \/ \A t \in 1 .. m.idx :
           /\ p + t <= Len(prompt[h]) /\ prompt[h][p + t].role = "tool"
           /\ prompt[h][p + t].call = m.call /\ prompt[h][p + t].iter = m.iter
           /\ prompt[h][p + t].idx = t
      \/ outcome[m.call] = "lost" /\ m.iter = iter[m.call]
      \/ \E r \in unsaved : r.call = m.call /\ r.iter = m.iter

\* What a provider is sent ends with what is new: the user's message, or the
\* last result of the exchange before, however much was cut or summarized.
PromptsEndWithNews ==
  \A h \in Call : pc[h] \in {"asking", "streaming"} =>
    LET last == Last(prompt[h])
    IN  /\ last.call = h
        /\ IF iter[h] = 0 THEN last.role = "user"
           ELSE last.role = "tool" /\ last.iter = iter[h] - 1

\* A prompt fits the budget, or is down to the last two messages, even after
\* a summary that was not truncated (context.go:112-135).
PromptsFit ==
  \A h \in Call : Tokens(prompt[h]) <= Budget \/ Len(prompt[h]) <= 2

\* What a provider is sent is complete, has what is new, and fits.
PromptsAreSound == PromptsAreAnswered /\ PromptsEndWithNews /\ PromptsFit

\* A result is added only when its tool has ended: never an empty one
\* (agent.go:228-293).
ResultsAreReal == \A p \in DOMAIN messages : messages[p].size > 0

\* The results in memory are those of the calls they follow, and have all come.
ResultsAreSound == ResultsFollowCalls /\ ResultsAreReal

\* Memory, but for the summary and what could not be saved, is an end of the
\* stored history: a restart brings back what was cut, and nothing else, in the
\* same order.  Counted from the end, memory and rows agree (context.go:65-110,
\* 154-161, memory/store.go:170).
Saved(m) == m.role # "summary" /\ m \notin unsaved

SavedAfter(p) == {q \in p + 1 .. Len(messages) : Saved(messages[q])}

MemoryEndsHistory ==
  \A p \in DOMAIN messages : Saved(messages[p]) =>
    LET n == Len(rows) - Cardinality(SavedAfter(p))
    IN  n \in DOMAIN rows /\ rows[n] = messages[p]
=============================================================================
