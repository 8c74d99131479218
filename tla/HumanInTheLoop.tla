--------------------------- MODULE HumanInTheLoop ---------------------------
(***************************************************************************)
(* The ask_human tool and its pending requests                             *)
(* (internal/tool/builtin/ask_human.go), with the handlers by which people *)
(* answer them (internal/channel/discord/discord.go), each a goroutine.    *)
(*                                                                         *)
(* A request has a channel for one answer.  SendResponse holds the read    *)
(* lock from its check to its end; the asker adds and removes its request  *)
(* under the write lock.  Two handlers may pass the check together: the    *)
(* second then sends to, or closes, a closed channel, and the program      *)
(* panics.                                                                 *)
(***************************************************************************)
EXTENDS Integers, FiniteSets

CONSTANTS
  Request,  \* the calls of ask_human
  Human,    \* the handlers that run at once
  None

ASSUME NoneAssumption == None \notin Request \cup Human
ASSUME FiniteAssumption == IsFiniteSet(Request)

VARIABLES
  asker,      \* where each call is
  pending,    \* the requests in the map
  completed,  \* those marked so
  buffer,     \* the channel of each, by who sent what is in it
  closed,     \* the channels that are closed
  at,         \* where each handler is
  of,         \* the request it answers
  wants,      \* the request its user wants to answer
  index,      \* and the place that had in the list the user was shown
  crashed

request == <<asker, pending>>
channel == <<completed, buffer, closed>>
handler == <<at, of, wants, index>>
vars == <<request, channel, handler, crashed>>

TypeOK == /\ asker \in [Request -> {"idle", "waiting", "answered", "gaveUp", "done"}]
          /\ pending \in SUBSET Request /\ completed \in SUBSET Request
          /\ buffer \in [Request -> Human \cup {None}]
          /\ closed \in SUBSET completed
          /\ at \in [Human -> {"idle", "shown", "indexed", "checked", "sending",
                               "closing"}]
          /\ of \in [Human -> Request \cup {None}]
          /\ wants \in [Human -> Request \cup {None}]
          /\ index \in [Human -> Nat]
          /\ crashed \in BOOLEAN

Init == /\ asker = [r \in Request |-> "idle"]
        /\ pending = {} /\ completed = {} /\ closed = {}
        /\ buffer = [r \in Request |-> None]
        /\ at = [h \in Human |-> "idle"] /\ of = [h \in Human |-> None]
        /\ wants = [h \in Human |-> None] /\ index = [h \in Human |-> 0]
        /\ crashed = FALSE

\* The handlers that hold the read lock.
Readers == {h \in Human : at[h] \in {"checked", "sending", "closing"}}

-----------------------------------------------------------------------------
\* AskHumanTool.Execute.

Turn(r, from, to) == /\ asker[r] = from /\ asker' = [asker EXCEPT ![r] = to]
                     /\ UNCHANGED handler

Ask(r) == /\ Readers = {} /\ Turn(r, "idle", "waiting")
          /\ pending' = pending \cup {r} /\ UNCHANGED channel

Receive(r) == /\ buffer[r] # None /\ Turn(r, "waiting", "answered")
              /\ buffer' = [buffer EXCEPT ![r] = None]
              /\ UNCHANGED <<pending, completed, closed>>

\* The timeout, or the end of the call's context; the select may choose it over
\* an answer that is there.
GiveUp(r) == Turn(r, "waiting", "gaveUp") /\ UNCHANGED <<pending, channel>>

Removed(r) == /\ Readers = {}
              /\ pending' = pending \ {r} /\ UNCHANGED channel

\* Mutant: a call that gave up leaves its request.
EndAnswered(r) == \/ Turn(r, "answered", "done") /\ Removed(r)
                  \/ /\ Turn(r, "gaveUp", "done")
                     /\ UNCHANGED <<pending, channel>>

End(r) == /\ Turn(r, "answered", "done") \/ Turn(r, "gaveUp", "done")
          /\ Removed(r)

-----------------------------------------------------------------------------
\* SendResponse.

Goto(h, from, to) == at[h] = from /\ at' = [at EXCEPT ![h] = to]

\* What a handler knows goes with it.
Return(h) == /\ at' = [at EXCEPT ![h] = "idle"]
             /\ of' = [of EXCEPT ![h] = None] /\ wants' = [wants EXCEPT ![h] = None]
             /\ index' = [index EXCEPT ![h] = 0]

Check(h) == /\ at[h] = "indexed"
            /\ IF of[h] \in pending \ completed
               THEN Goto(h, "indexed", "checked") /\ UNCHANGED <<of, wants, index>>
               ELSE Return(h)
            /\ UNCHANGED <<request, channel>>

\* Mutant: the request is not marked.
MarkNothing(h) == /\ Goto(h, "checked", "sending")
                  /\ UNCHANGED <<request, channel, of, wants, index>>

Mark(h) == /\ Goto(h, "checked", "sending") /\ completed' = completed \cup {of[h]}
           /\ UNCHANGED <<request, buffer, closed, of, wants, index>>

Full(h) == at[h] = "sending" /\ buffer[of[h]] # None

Put(h) == /\ ~Full(h) /\ Goto(h, "sending", "closing") /\ of[h] \notin closed
          /\ buffer' = [buffer EXCEPT ![of[h]] = h]
          /\ UNCHANGED <<request, completed, closed, of, wants, index>>

\* Mutant: an answer that finds the buffer full is put aside, not waited with.
PutOrDrop(h) == \/ Put(h)
                \/ /\ Full(h) /\ Goto(h, "sending", "closing")
                   /\ buffer' = [buffer EXCEPT ![of[h]] = None]
                   /\ UNCHANGED <<request, completed, closed, of, wants, index>>

\* The channel holds one answer; a second waits for the asker to take it.
Send(h) == Put(h)

Close(h) == /\ at[h] = "closing" /\ of[h] \notin closed
            /\ closed' = closed \cup {of[h]} /\ Return(h)
            /\ UNCHANGED <<request, completed, buffer>>

\* Sending to a closed channel, closing it again, or closing it under a sender.
Panic(h) == /\ ~crashed /\ at[h] \in {"sending", "closing"} /\ of[h] \in closed
            /\ crashed' = TRUE /\ UNCHANGED <<request, channel, handler>>

-----------------------------------------------------------------------------
\* The commands !pending and !respond.  ListPending ranges over a map: its order
\* differs from call to call, so any request may be at any place.

Show(h, r) == /\ r \in pending /\ Goto(h, "idle", "shown")
              /\ wants' = [wants EXCEPT ![h] = r]
              /\ \E i \in 0 .. Cardinality(pending) - 1 :
                   index' = [index EXCEPT ![h] = i]
              /\ UNCHANGED <<request, channel, of>>

SendResponseByIndex(h) ==
  /\ at[h] = "shown"
  /\ \/ /\ index[h] < Cardinality(pending) /\ Goto(h, "shown", "indexed")
        /\ \E r \in pending : of' = [of EXCEPT ![h] = r]
        /\ UNCHANGED <<wants, index>>
     \/ index[h] >= Cardinality(pending) /\ Return(h)
  /\ UNCHANGED <<request, channel>>

-----------------------------------------------------------------------------
Answer(h) == Check(h) \/ Mark(h) \/ Send(h) \/ Close(h)

Up == ~crashed /\ UNCHANGED crashed

Step == /\ Up
        /\ \/ \E r \in Request : Ask(r) \/ Receive(r) \/ GiveUp(r) \/ End(r)
           \/ \E h \in Human : \/ \E r \in Request : Show(h, r)
                               \/ SendResponseByIndex(h) \/ Answer(h)

Next == Step \/ \E h \in Human : Panic(h)

Spec == Init /\ [][Next]_vars

\* Goroutines run, a timer goes off, and a writer that waits for the lock gets it:
\* Go's read-write mutex lets no reader in past a waiting writer.
Fairness ==
  /\ \A r \in Request : WF_vars(Up /\ GiveUp(r)) /\ SF_vars(Up /\ End(r))
  /\ \A h \in Human : WF_vars(Panic(h) \/ (Up /\ Answer(h)))

FairSpec == Spec /\ Fairness

-----------------------------------------------------------------------------
\* Properties.

\* The list shows only requests whose call has not returned: an index never leads
\* to a question nobody waits with (ask_human.go:126-146, 194-202).
ListedAreAsked ==
  \A r \in pending : asker[r] \in {"waiting", "answered", "gaveUp"}

\* An answer that a user is told was sent is there for the asker as long as it
\* waits, whoever else answers the same request (ask_human.go:212-222).
SentIsThere ==
  \A r \in closed : asker[r] = "waiting" => buffer[r] # None

\* Somebody waits: a call for its answer or the lock a handler holds while it sends
\* (ask_human.go:128-146, 175-180), or a handler in the channel of a call, which may have
\* given up (ask_human.go:116, 203-223).
HumanWaits == ~crashed /\ \/ \E r \in Request : asker[r] \in {"waiting", "answered", "gaveUp"}
                          \/ \E h \in Human : at[h] = "sending"

\* Refuted by the code: discord.go:164 has users answer by the index !pending
\* shows; then the answer a call gets is one that was meant for it.
AnswersTheirQuestion ==
  \A h \in Human : at[h] \in {"checked", "sending", "closing"} => of[h] = wants[h]
=============================================================================
