------------------------------ MODULE Terminal ------------------------------
(***************************************************************************)
(* The terminal interface (internal/tui), and the way a streamed reply     *)
(* comes to it: the provider's goroutine reads the body of the response    *)
(* and fills one channel, the agent's goroutine empties it into another    *)
(* and keeps the answer in the context, and the command of the interface   *)
(* reads that one.  Escape only lowers the flag that says a reply is on    *)
(* its way; nothing is cancelled.                                          *)
(***************************************************************************)
EXTENDS Integers, Sequences, FiniteSets

CONSTANTS
  Provider,     \* the configured providers, named after their protocol
  Default,      \* the one the configuration makes active
  Retries,      \* MaxRetries: how often a request is sent again
  MaxPieces,    \* bounds the pieces of a reply
  Capacity,     \* of the channels, 64 in the code
  MaxAsks, MaxEscapes, MaxPresses

ASSUME TerminalAssumption ==
  /\ Default \in Provider /\ Provider \subseteq {"openai", "anthropic", "ollama", "gemini"}
  /\ Retries \in Nat /\ MaxPieces \in Nat /\ Capacity \in Nat \ {0}
  /\ MaxAsks \in Nat /\ MaxEscapes \in Nat /\ MaxPresses \in Nat

VARIABLES
  active,      \* the router's active provider
  streaming,   \* the flag of the interface
  requests,    \* what was asked since the start, and how far each reply is
  context,     \* the agent's context: [who, of, pieces]
  escapes,     \* history: how often Escape was pressed while the flag was up
  presses      \* counts the switches and the clearings

tvars == <<active, streaming, requests, context, escapes, presses>>

\* producer: the provider's goroutine; pump: the agent's; reader: the command.
StreamRequest ==
  [by : Provider, tries : 0 .. Retries + 1, sent : 0 .. MaxPieces, whole : BOOLEAN,
   producer : {"asked", "connecting", "reading", "breaking", "closed", "never"},
   pump : {"reading", "keeping", "closed"}, got : 0 .. MaxPieces,
   reader : {"reading", "replied", "failed"}, read : 0 .. MaxPieces,
   pipe : Seq({"piece", "done", "error"}), out : Seq({"piece", "done", "error"})]

TerminalTypeOK ==
  /\ active \in Provider /\ streaming \in BOOLEAN
  /\ requests \in Seq(StreamRequest) /\ escapes \in 0 .. MaxEscapes /\ presses \in 0 .. MaxPresses
  /\ \A i \in DOMAIN requests : Len(requests[i].pipe) <= Capacity /\ Len(requests[i].out) <= Capacity
  /\ \A n \in DOMAIN context : context[n] \in
       [who : {"user", "assistant"}, of : DOMAIN requests, pieces : 0 .. MaxPieces]

TerminalInit ==
  /\ active = Default /\ streaming = FALSE
  /\ requests = <<>> /\ context = <<>> /\ escapes = 0 /\ presses = 0

InFlight == {i \in DOMAIN requests : requests[i].reader = "reading"}

Becomes(i, r) == requests' = [requests EXCEPT ![i] = r]
Keep == UNCHANGED <<active, streaming, escapes, presses>>

-----------------------------------------------------------------------------
\* The keys.

\* Enter, with a question: the command of the interface is started on it.
Enter ==
  /\ ~streaming /\ Len(requests) < MaxAsks
  /\ streaming' = TRUE
  /\ requests' = Append(requests,
       [by |-> Default, tries |-> 0, sent |-> 0, whole |-> FALSE, producer |-> "asked",
        pump |-> "reading", got |-> 0, reader |-> "reading", read |-> 0,
        pipe |-> <<>>, out |-> <<>>])
  /\ UNCHANGED <<active, context, escapes, presses>>

Escape ==
  /\ streaming /\ escapes < MaxEscapes
  /\ streaming' = FALSE /\ escapes' = escapes + 1
  /\ UNCHANGED <<active, requests, context, presses>>

\* Ctrl+L and /clear.
ClearScreen ==
  /\ presses < MaxPresses /\ presses' = presses + 1
  /\ context' = <<>>
  /\ UNCHANGED <<active, streaming, requests, escapes>>

\* Tab and Ctrl+S go to the next provider of a list that comes in any order; the commands
\* /provider and /set name one.
Switch ==
  /\ presses < MaxPresses /\ presses' = presses + 1
  /\ active' \in Provider \ {active}
  /\ UNCHANGED <<streaming, requests, context, escapes>>

\* Ctrl+C or /exit, and a start with the provider of the configuration or the one /set
\* saved: the goroutines end with the program.
Again ==
  /\ active' \in Provider
  /\ streaming' = FALSE /\ requests' = <<>> /\ context' = <<>> /\ escapes' = 0 /\ presses' = 0

-----------------------------------------------------------------------------
\* The command runs StreamMessage: a message that looks like an injection is refused
\* with a warning that comes with the mark of the end; any other enters the context and
\* goes to the provider that is active by now.
StreamMessage(i) ==
  LET r == requests[i] IN
  /\ r.producer = "asked" /\ Keep
  /\ \/ /\ Becomes(i, [r EXCEPT !.producer = "never", !.pump = "closed", !.out = <<"done">>])
        /\ UNCHANGED context
     \/ /\ Becomes(i, [r EXCEPT !.producer = "connecting", !.by = active])
        /\ context' = Append(context, [who |-> "user", of |-> i, pieces |-> 0])

\* Stream's error is all the reader gets.
Refused(r) == [r EXCEPT !.producer = "never", !.pump = "closed", !.out = <<"error">>]

\* RetryDo, which Ollama does without: the server accepts, refuses for good, or fails in
\* a way that is tried again after a pause, MaxRetries times.
RetryDo(i) ==
  LET r == requests[i] IN
  /\ r.producer = "connecting" /\ Keep /\ UNCHANGED context
  /\ \/ Becomes(i, [r EXCEPT !.producer = "reading", !.tries = @ + 1])
     \/ Becomes(i, Refused(r))
     \/ IF r.by = "ollama" \/ r.tries = Retries
          THEN Becomes(i, Refused(r)) ELSE Becomes(i, [r EXCEPT !.tries = @ + 1])

Fill(r, chunk) == [r EXCEPT !.pipe = Append(@, chunk)]

\* The provider's goroutine passes on a piece of the reply.
Piece(i) ==
  LET r == requests[i] IN
  /\ r.producer = "reading" /\ ~r.whole /\ r.sent < MaxPieces /\ Len(r.pipe) < Capacity
  /\ Becomes(i, [Fill(r, "piece") EXCEPT !.sent = @ + 1])
  /\ Keep /\ UNCHANGED context

\* The mark of the end comes, which Gemini's streams have none of: there the body ends.
EndMark(i) ==
  LET r == requests[i] IN
  /\ r.producer = "reading" /\ Len(r.pipe) < Capacity
  /\ Becomes(i, [Fill(r, "done") EXCEPT !.producer = "closed", !.whole = TRUE])
  /\ Keep /\ UNCHANGED context

\* Mutant: the channel is not closed when the body ends early.
EarlyEndOpen(i) ==
  LET r == requests[i] IN
  /\ r.producer = "reading" /\ Len(r.pipe) < Capacity
  /\ Becomes(i, [(IF r.by = "gemini" THEN Fill(r, "done") ELSE r) EXCEPT !.producer = "never"])
  /\ Keep /\ UNCHANGED context

\* The body ends before the mark.  Gemini's reader takes this for the end of the reply.
EarlyEnd(i) ==
  LET r == requests[i] IN
  /\ r.producer = "reading" /\ (r.by = "gemini" => Len(r.pipe) < Capacity)
  /\ Becomes(i, [(IF r.by = "gemini" THEN Fill(r, "done") ELSE r) EXCEPT !.producer = "closed"])
  /\ Keep /\ UNCHANGED context

\* Reading fails, at the latest when the client's timeout of 60 seconds is over.  Gemini's
\* reader says that the reply is done, and then what failed.
Break(i) ==
  LET r == requests[i] IN
  /\ r.producer \in {"reading", "breaking"} /\ Len(r.pipe) < Capacity
  /\ Becomes(i, IF r.by = "gemini" /\ r.producer = "reading"
                  THEN [Fill(r, "done") EXCEPT !.producer = "breaking"]
                  ELSE [Fill(r, "error") EXCEPT !.producer = "closed"])
  /\ Keep /\ UNCHANGED context

\* The agent's goroutine: a chunk goes on, and the one that says done is then followed by
\* the answer entering the context; it ends after an error or with the provider's channel.
Pump(i) ==
  LET r == requests[i]
      on(state) == [r EXCEPT !.pipe = Tail(@), !.out = Append(@, Head(r.pipe)), !.pump = state]
  IN /\ r.pump = "reading" /\ Keep /\ UNCHANGED context
     /\ IF r.pipe # <<>>
          THEN /\ Len(r.out) < Capacity
               /\ Becomes(i, CASE Head(r.pipe) = "piece" -> [on("reading") EXCEPT !.got = @ + 1]
                               [] Head(r.pipe) = "done" -> on("keeping")
                               [] Head(r.pipe) = "error" -> on("closed"))
          ELSE r.producer = "closed" /\ Becomes(i, [r EXCEPT !.pump = "closed"])

KeepAnswer(i) ==
  LET r == requests[i] IN
  /\ r.pump = "keeping" /\ Keep
  /\ context' = Append(context, [who |-> "assistant", of |-> i, pieces |-> r.got])
  /\ Becomes(i, [r EXCEPT !.pump = "reading"])

\* The command of the interface takes the pieces together and ends with a done, an error
\* or the channel; the interface shows what it has, and lowers the flag, whichever request
\* that was raised for.
Read(i) ==
  LET r == requests[i]
      next == IF r.out # <<>> THEN Head(r.out) ELSE "closed"
  IN /\ r.reader = "reading" /\ (next = "closed" => r.pump = "closed")
     /\ Becomes(i, [r EXCEPT !.out = IF next = "closed" THEN @ ELSE Tail(@),
                             !.read = IF next = "piece" THEN @ + 1 ELSE @,
                             !.reader = CASE next = "piece" -> "reading"
                                          [] next = "error" -> "failed"
                                          [] next \in {"done", "closed"} -> "replied"])
     /\ streaming' = (streaming /\ next = "piece")
     /\ UNCHANGED <<active, context, escapes, presses>>

Goroutine(i) == \/ StreamMessage(i) \/ RetryDo(i) \/ Pump(i) \/ KeepAnswer(i)
                \/ Read(i)
Server(i) == Piece(i) \/ EndMark(i) \/ EarlyEnd(i) \/ Break(i)

TerminalNext ==
  \/ Enter \/ Escape \/ ClearScreen \/ Switch \/ Again
  \/ \E i \in DOMAIN requests : Goroutine(i) \/ Server(i)

-----------------------------------------------------------------------------
\* An answer enters the context only when it came to its end, unless it is Gemini's, and
\* it has all the pieces that came; who was shown a reply with less was shown an error,
\* or one that broke off.
AnswersAreWhole ==
  \A n \in DOMAIN context :
    LET r == requests[context[n].of] IN
    context[n].who = "assistant" =>
      /\ context[n].pieces = r.sent
      /\ r.by # "gemini" => r.whole
      /\ r.reader = "replied" /\ r.whole => r.read = context[n].pieces

\* There are no more questions on their way than Escape made room for.
OneAtATime == Cardinality(InFlight) <= escapes + (IF streaming THEN 1 ELSE 0)

\* What the terminal shows and what the agent remembers agree.
TerminalIsSound == AnswersAreWhole /\ OneAtATime

Ended(i) == /\ requests[i].producer \in {"closed", "never"}
            /\ requests[i].pump = "closed" /\ requests[i].reader # "reading"

\* A goroutine that a question started runs, its reader's or one behind it.
TerminalWaits == \E i \in DOMAIN requests : ~Ended(i)
=============================================================================
