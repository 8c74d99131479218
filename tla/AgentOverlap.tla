---------------------------- MODULE AgentOverlap ----------------------------
(***************************************************************************)
(* Calls of HandleMessage (internal/agent/agent.go) on one session that    *)
(* overlap: a channel that does not wait gives each message a goroutine of *)
(* its own (web/server.go), and neither Agent nor ContextManager           *)
(* (context.go) has a lock.  What a call adds is its question, and then    *)
(* nothing but its answer or one exchange of tools; AgentLoop has the rest *)
(* of a call, one at a time.  An addition is four steps.  The race on the  *)
(* slice of messages is taken at its mildest: a whole slice is read, and a *)
(* whole one written.                                                      *)
(***************************************************************************)
EXTENDS Integers, Sequences, SequencesExt

CONSTANTS
  MaxCalls,    \* bound: messages the user sends
  MaxTools,    \* bound: tool calls in one answer
  MaxMessages  \* maxTokens: as many messages fit, and never fewer than two

Call == 1 .. MaxCalls

VARIABLES
  pc,        \* where each call is: out of an addition, or at one of its steps
  todo,      \* the messages each call has still to add
  read,      \* the slice that a call has read
  messages,  \* ContextManager.messages
  rows       \* the session's rows in mem_messages

ovars == <<pc, todo, read, messages, rows>>

Msg(role, h, i) == [role |-> role, call |-> h, idx |-> i]

\* What a call adds, for an answer with n tool calls.
Exchange(h, n) ==
  IF n = 0 THEN <<Msg("user", h, 0), Msg("assistant", h, 0)>>
  ELSE <<Msg("user", h, 0), Msg("calls", h, n)>> \o [i \in 1 .. n |-> Msg("tool", h, i)]

Init == /\ pc = [h \in Call |-> "idle"] /\ todo = [h \in Call |-> << >>]
        /\ read = [h \in Call |-> << >>] /\ messages = << >> /\ rows = << >>

Goto(h, from, to) == pc[h] = from /\ pc' = [pc EXCEPT ![h] = to]

\* A message comes: its goroutine is started.
Start(h, n) == /\ Goto(h, "idle", "between") /\ todo' = [todo EXCEPT ![h] = Exchange(h, n)]
               /\ UNCHANGED <<read, messages, rows>>

\* c.messages = append(c.messages, msg): the slice is read,
Read(h) == /\ todo[h] # << >> /\ Goto(h, "between", "appending")
           /\ read' = [read EXCEPT ![h] = messages]
           /\ UNCHANGED <<todo, messages, rows>>

\* and written;
Write(h) == /\ Goto(h, "appending", "saving") /\ messages' = Append(read[h], Head(todo[h]))
            /\ UNCHANGED <<todo, read, rows>>

\* the message is saved, one transaction of the store,
Save(h) == /\ Goto(h, "saving", "truncating") /\ rows' = Append(rows, Head(todo[h]))
           /\ UNCHANGED <<todo, read, messages>>

\* and the oldest are cut off.
Truncate(h) == /\ IF Len(messages) > MaxMessages /\ Len(messages) > 2
                  THEN messages' = Tail(messages) /\ UNCHANGED <<pc, todo>>
                  ELSE /\ Goto(h, "truncating", "between") /\ UNCHANGED messages
                       /\ todo' = [todo EXCEPT ![h] = Tail(@)]
               /\ pc[h] = "truncating" /\ UNCHANGED <<read, rows>>

Finished == (\A h \in Call : pc[h] = "between" /\ todo[h] = << >>) /\ UNCHANGED ovars

Next == \/ \E h \in Call : \/ Read(h) \/ Write(h) \/ Save(h) \/ Truncate(h)
                           \/ \E n \in 0 .. MaxTools : Start(h, n)
        \/ Finished

Spec == Init /\ [][Next]_ovars

-----------------------------------------------------------------------------
Precedes(m, r) == m.call = r.call /\ IF r.idx = 1 THEN m.role = "calls"
                                     ELSE m.role = "tool" /\ m.idx = r.idx - 1

\* agent.go:290, "Add tool results to context in order": the results of one answer stand
\* together after its calls, in the context and in what a restart loads, but where
\* truncation has cut.
InOrder ==
  /\ \A p \in DOMAIN messages : messages[p].role = "tool" =>
       p = 1 \/ Precedes(messages[p - 1], messages[p])
  /\ \A p \in DOMAIN rows : rows[p].role = "tool" => p > 1 /\ Precedes(rows[p - 1], rows[p])
=============================================================================
