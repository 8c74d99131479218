------------------------------ MODULE WebServer ------------------------------
(***************************************************************************)
(* The web interface (web/server.go, web/channel.go): a read loop and a    *)
(* ping goroutine per connection, a goroutine per question, and one mutex  *)
(* that every frame but a ping is written under.  A write to a client that *)
(* has stopped reading does not end, and no deadline is set: whoever       *)
(* writes it keeps the mutex.  What the agent does with a question is      *)
(* Conversations.                                                          *)
(***************************************************************************)
EXTENDS Integers, Sequences, FiniteSets

CONSTANTS
  Conn,
  NoWriter,     \* nobody holds the mutex
  MaxFrames,    \* bounds the frames the read loops are sent
  MaxQuestions  \* and the questions among them

ASSUME WriterAssumption == /\ NoWriter \notin Conn \cup {"question", "server"}
                           /\ MaxFrames \in Nat /\ MaxQuestions \in Nat

VARIABLES
  loops,     \* the read loop of each connection, and the frame it has to write
  questions, \* the questions: the connection each came by, and how far it is
  mutex,     \* Server.mu: free, or kept by a write that does not end
  stalled,   \* the clients that have stopped reading
  inbox,     \* history: the frames each client was sent
  frames,    \* how many the server was sent
  web        \* the server

wvars == <<loops, questions, mutex, stalled, inbox, frames, web>>

Frame == [kind : {"none", "log", "error", "token", "complete", "branches"}, about : 0 .. MaxQuestions]
Plain(kind) == [kind |-> kind, about |-> 0]

WebTypeOK ==
  /\ loops \in [Conn -> [at : {"none", "reading", "writing", "leaving", "left"}, out : Frame]]
  /\ questions \in Seq([via : Conn, phase : {"notice", "working", "answered", "failed", "token", "done"}])
  /\ mutex \in {NoWriter, "question", "server"} \cup Conn
  /\ stalled \in SUBSET Conn /\ inbox \in [Conn -> Seq(Frame)]
  /\ frames \in 0 .. MaxFrames /\ web \in {"up", "stopping", "stopped", "panicked"}

WebInit == /\ loops = [c \in Conn |-> [at |-> "none", out |-> Plain("none")]]
           /\ questions = <<>> /\ mutex = NoWriter /\ stalled = {}
           /\ inbox = [c \in Conn |-> <<>>] /\ frames = 0 /\ web = "up"

Open(c) == loops[c].at \in {"reading", "writing", "leaving"}

\* sendMessage: it arrives, it fails on a closed connection, or it does not end;
\* or it meets a ping, which takes no mutex, and the library panics.
SendMessage(w, c, frame) ==
  /\ mutex = NoWriter
  /\ \/ /\ c \notin stalled /\ UNCHANGED <<mutex, web>>
        /\ inbox' = IF Open(c) THEN [inbox EXCEPT ![c] = Append(@, frame)] ELSE inbox
     \/ /\ c \in stalled /\ Open(c) /\ mutex' = w /\ UNCHANGED <<inbox, web>>
     \/ /\ Open(c) /\ web' = "panicked" /\ UNCHANGED <<mutex, inbox>>
  /\ UNCHANGED <<stalled, frames>>

-----------------------------------------------------------------------------
\* handleWebSocket, up to its first frame.
Connect(c) == /\ loops[c].at = "none" /\ web = "up"
              /\ loops' = [loops EXCEPT ![c] = [at |-> "writing", out |-> Plain("log")]]
              /\ UNCHANGED <<questions, mutex, stalled, inbox, frames, web>>

\* The read loop has a frame, to which out is the answer.
ReadFrame(c, out) == /\ loops[c].at = "reading" /\ frames < MaxFrames /\ frames' = frames + 1
                     /\ loops' = [loops EXCEPT ![c] = [at |-> "writing", out |-> out]]
                     /\ UNCHANGED <<mutex, stalled, inbox, web>>

\* The envelope or the payload is not what it should be, or the message is empty;
\* or the branch is switched, or the branches are listed.
ReadInvalid(c) == ReadFrame(c, Plain("error")) /\ UNCHANGED questions
ReadBranchSwitch(c) == ReadFrame(c, Plain("log")) /\ UNCHANGED questions
ReadListBranches(c) == ReadFrame(c, Plain("branches")) /\ UNCHANGED questions

ReadQuestion(c) == /\ Len(questions) < MaxQuestions
                   /\ ReadFrame(c, [kind |-> "log", about |-> Len(questions) + 1])
                   /\ questions' = Append(questions, [via |-> c, phase |-> "notice"])

Further(q, from, to) == /\ questions[q].phase = from
                        /\ questions' = [questions EXCEPT ![q].phase = to]

\* The read loop writes, and reads on; the goroutine of a question starts after
\* its notice.
WriteFrame(c) ==
  LET frame == loops[c].out
  IN  /\ loops[c].at = "writing" /\ SendMessage(c, c, frame)
      /\ loops' = [loops EXCEPT ![c].at = IF mutex' = c THEN "writing" ELSE "reading"]
      /\ questions' = IF frame.about = 0 \/ mutex' = c THEN questions
                      ELSE [questions EXCEPT ![frame.about].phase = "working"]

\* ProcessMessageWithBranch returns, within its three minutes.
ProcessMessage(q) == /\ Further(q, "working", "answered") \/ Further(q, "working", "failed")
                     /\ UNCHANGED <<loops, mutex, stalled, inbox, frames, web>>

\* Mutant: no return after the error.
ReportBoth(q) ==
  LET Say(kind) == SendMessage("question", questions[q].via, [kind |-> kind, about |-> q])
  IN  /\ \/ Further(q, "failed", "answered") /\ Say("error")
         \/ Further(q, "answered", "token") /\ Say("token")
         \/ Further(q, "token", "done") /\ Say("complete")
      /\ UNCHANGED loops

\* The goroutine of a question: an error, or the answer twice.
Report(q) ==
  LET Say(kind) == SendMessage("question", questions[q].via, [kind |-> kind, about |-> q])
  IN  /\ \/ Further(q, "failed", "done") /\ Say("error")
         \/ Further(q, "answered", "token") /\ Say("token")
         \/ Further(q, "token", "done") /\ Say("complete")
      /\ UNCHANGED loops

\* The client closes, or ninety seconds pass without a pong.
Hangup(c) == /\ loops[c].at = "reading"
             /\ loops' = [loops EXCEPT ![c].at = "leaving"]
             /\ UNCHANGED <<questions, mutex, stalled, inbox, frames, web>>

\* The deferred calls: the map under the mutex first, the connection last.
Leave(c) == /\ loops[c].at = "leaving" /\ mutex = NoWriter
            /\ loops' = [loops EXCEPT ![c].at = "left"]
            /\ UNCHANGED <<questions, mutex, stalled, inbox, frames, web>>

Stall(c) == /\ Open(c) /\ c \notin stalled /\ stalled' = stalled \cup {c}
            /\ UNCHANGED <<loops, questions, mutex, inbox, frames, web>>

StopServer == /\ web = "up" /\ web' = "stopping"
              /\ UNCHANGED <<loops, questions, mutex, stalled, inbox, frames>>

\* Stop writes to every connection under the mutex, and closes it.
CloseConns ==
  /\ web = "stopping" /\ mutex = NoWriter
  /\ \/ /\ \A c \in Conn : Open(c) => c \notin stalled
        /\ web' = "stopped" /\ UNCHANGED mutex
        /\ loops' = [c \in Conn |-> IF Open(c) THEN [loops[c] EXCEPT !.at = "left"]
                                    ELSE loops[c]]
     \/ /\ \E c \in Conn : Open(c) /\ c \in stalled
        /\ mutex' = "server" /\ UNCHANGED <<loops, web>>
  /\ UNCHANGED <<questions, stalled, inbox, frames>>

Client == \E c \in Conn : \/ Connect(c) \/ Hangup(c) \/ Stall(c) \/ ReadInvalid(c)
                          \/ ReadBranchSwitch(c) \/ ReadListBranches(c) \/ ReadQuestion(c)

ServerSteps == \/ \E c \in Conn : WriteFrame(c) \/ Leave(c)
               \/ \E q \in DOMAIN questions : ProcessMessage(q) \/ Report(q)
               \/ CloseConns

Serving == web \in {"up", "stopping"} /\ ServerSteps

WebNext == \/ Serving
           \/ web \in {"up", "stopping"} /\ (Client \/ StopServer)

-----------------------------------------------------------------------------
\* The frames about a question are such a reply, or how it begins.
About(box, q) == {i \in DOMAIN box : box[i].about = q}
Begins(box, q, reply) ==
  \A i \in About(box, q) :
    LET n == Cardinality({j \in About(box, q) : j <= i})
    IN  n \in DOMAIN reply /\ box[i].kind = reply[n]

\* Of every question a client sees on its own connection, and on no other, one
\* notice, and after it the error, or the answer as it ends and then as a whole;
\* never both, and nothing twice (server.go:216-288).
RepliesAreWhole ==
  \A c \in Conn : \A q \in DOMAIN questions :
    IF c # questions[q].via THEN About(inbox[c], q) = {}
    ELSE \/ Begins(inbox[c], q, <<"log", "error">>)
         \/ Begins(inbox[c], q, <<"log", "token", "complete">>)

\* Somebody waits for the server, and nothing a client does is in its way: a question
\* that is not answered yet, or a server told to stop (server.go:110-125, 343-356).  A
\* client that stops reading, or a ping that meets a write, makes everybody wait.
WebWaits == /\ stalled = {}
            /\ \/ web = "up" /\ \E q \in DOMAIN questions : questions[q].phase # "done"
               \/ web = "stopping"
=============================================================================
