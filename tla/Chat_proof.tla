----------------------------- MODULE Chat_proof -----------------------------
(***************************************************************************)
(* Proofs about HumanInTheLoop, WebServer, ChatChannels and Terminal, and  *)
(* of the behaviours of MCChat: for any requests and handlers, connections,*)
(* questions, messages, providers and bounds.                              *)
(***************************************************************************)
EXTENDS MCChat, FiniteSetTheorems, TLAPS

-----------------------------------------------------------------------------
(* HumanInTheLoop *)

\* What a handler answers, and what is marked, was asked.
Asked ==
  /\ \A h \in Human : at[h] \in {"indexed", "checked", "sending", "closing"} =>
       of[h] \in Request /\ asker[of[h]] # "idle"
  /\ \A r \in completed : asker[r] # "idle"

\* A handler about to close a channel has marked its request, and its answer, or
\* another, is there for as long as the asker waits.
Answering ==
  \A h \in Human :
    /\ at[h] \in {"sending", "closing"} => of[h] \in completed
    /\ at[h] = "closing" /\ asker[of[h]] = "waiting" => buffer[of[h]] # None

HumanInv == TypeOK /\ Asked /\ Answering /\ ListedAreAsked /\ SentIsThere

LEMMA HumanStarts == Init => HumanInv
<1>. SUFFICES ASSUME Init  PROVE HumanInv
  OBVIOUS
<1>. USE DEF Init
<1>1. TypeOK
  BY DEF TypeOK
<1>2. Asked /\ Answering /\ ListedAreAsked /\ SentIsThere
  BY DEF Asked, Answering, ListedAreAsked, SentIsThere
<1>. QED
  BY <1>1, <1>2 DEF HumanInv

\* The steps of a call of ask_human.
LEMMA Asks ==
  ASSUME HumanInv, UNCHANGED crashed, NEW r \in Request,
         Ask(r) \/ Receive(r) \/ GiveUp(r) \/ End(r)
  PROVE  HumanInv'
<1>. USE NoneAssumption
     DEF HumanInv, TypeOK, Turn, handler, channel
<1>1. ASSUME Ask(r)  PROVE HumanInv'
  <2>. USE <1>1 DEF Ask
  <2>1. TypeOK'
    OBVIOUS
  <2>2. Asked'
    BY DEF Asked
  <2>3. Answering'
    BY DEF Answering, Asked
  <2>4. ListedAreAsked'
    BY DEF ListedAreAsked
  <2>5. SentIsThere'
    BY DEF SentIsThere, Asked
  <2>. QED
    BY <2>1, <2>2, <2>3, <2>4, <2>5
<1>2. ASSUME Receive(r)  PROVE HumanInv'
  <2>. USE <1>2 DEF Receive
  <2>1. TypeOK'
    OBVIOUS
  <2>2. Asked' /\ Answering'
    BY DEF Asked, Answering
  <2>3. ListedAreAsked' /\ SentIsThere'
    BY DEF ListedAreAsked, SentIsThere
  <2>. QED
    BY <2>1, <2>2, <2>3
<1>3. ASSUME GiveUp(r) \/ End(r)  PROVE HumanInv'
  <2>. USE <1>3 DEF GiveUp, End, Removed
  <2>1. TypeOK'
    OBVIOUS
  <2>2. Asked' /\ Answering'
    BY DEF Asked, Answering
  <2>3. ListedAreAsked' /\ SentIsThere'
    BY DEF ListedAreAsked, SentIsThere
  <2>. QED
    BY <2>1, <2>2, <2>3
<1>. QED
  BY <1>1, <1>2, <1>3

\* A handler that moves without touching requests and channels.
LEMMA Surroundings ==
  ASSUME HumanInv, UNCHANGED <<request, channel>>, TypeOK', Asked', Answering'
  PROVE  HumanInv'
BY DEF HumanInv, ListedAreAsked, SentIsThere, request, channel

\* The steps of a handler.
LEMMA Handles ==
  ASSUME HumanInv, UNCHANGED crashed, NEW h \in Human,
         \/ \E r \in Request : Show(h, r)
         \/ SendResponseByIndex(h) \/ Answer(h)
  PROVE  HumanInv'
<1>. USE NoneAssumption DEF HumanInv, TypeOK, Goto
<1>1. ASSUME NEW r \in Request, Show(h, r)  PROVE HumanInv'
  <2>. USE <1>1 DEF Show, request, channel
  <2>1. IsFiniteSet(pending)
    BY FiniteAssumption, FS_Subset
  <2>2. 0 .. Cardinality(pending) - 1 \in SUBSET Nat
    BY <2>1, FS_CardinalityType
  <2>3. TypeOK'
    BY <2>2
  <2>4. Asked' /\ Answering'
    BY DEF Asked, Answering
  <2>. QED
    BY <2>3, <2>4, Surroundings
<1>2. ASSUME SendResponseByIndex(h)  PROVE HumanInv'
  <2>. USE <1>2 DEF SendResponseByIndex, Return, request, channel
  <2>1. TypeOK'
    OBVIOUS
  <2>2. Asked'
    BY DEF Asked, ListedAreAsked
  <2>3. Answering'
    BY DEF Answering
  <2>. QED
    BY <2>1, <2>2, <2>3, Surroundings
<1>3. ASSUME Check(h)  PROVE HumanInv'
  <2>. USE <1>3 DEF Check, Return, request, channel
  <2>1. TypeOK'
    OBVIOUS
  <2>2. Asked' /\ Answering'
    BY DEF Asked, Answering
  <2>. QED
    BY <2>1, <2>2, Surroundings
<1>4. ASSUME Mark(h)  PROVE HumanInv'
  <2>. USE <1>4 DEF Mark, request
  <2>1. of[h] \in Request /\ asker[of[h]] # "idle"
    BY DEF Asked
  <2>2. TypeOK'
    BY <2>1
  <2>3. Asked' /\ Answering'
    BY <2>1 DEF Asked, Answering
  <2>4. ListedAreAsked' /\ SentIsThere'
    BY DEF ListedAreAsked, SentIsThere
  <2>. QED
    BY <2>2, <2>3, <2>4
<1>5. ASSUME Send(h)  PROVE HumanInv'
  <2>. USE <1>5 DEF Send, Put, request
  <2>1. of[h] \in Request /\ of[h] \in completed
    BY DEF Asked, Answering
  <2>2. TypeOK'
    BY <2>1
  <2>3. Asked' /\ Answering'
    BY <2>1 DEF Asked, Answering
  <2>4. ListedAreAsked' /\ SentIsThere'
    BY <2>1 DEF ListedAreAsked, SentIsThere
  <2>. QED
    BY <2>2, <2>3, <2>4
<1>6. ASSUME Close(h)  PROVE HumanInv'
  <2>. USE <1>6 DEF Close, Return, request
  <2>1. of[h] \in completed
    BY DEF Answering
  <2>2. TypeOK'
    BY <2>1
  <2>3. Asked' /\ Answering'
    BY DEF Asked, Answering
  <2>4. ListedAreAsked'
    BY DEF ListedAreAsked
  <2>5. SentIsThere'
    BY <2>1 DEF SentIsThere, Answering
  <2>. QED
    BY <2>2, <2>3, <2>4, <2>5
<1>. QED
  BY <1>1, <1>2, <1>3, <1>4, <1>5, <1>6 DEF Answer

\* Every step, a panic and none keep the invariant.
LEMMA HumanSteps == ASSUME HumanInv, [Next]_vars PROVE HumanInv'
<1>1. CASE Step
  BY <1>1, Asks, Handles DEF Step, Up
<1>2. ASSUME NEW h \in Human, Panic(h)  PROVE HumanInv'
  BY <1>2 DEF Panic, HumanInv, TypeOK, Asked, Answering, ListedAreAsked, SentIsThere,
     request, channel, handler
<1>3. CASE UNCHANGED vars
  BY <1>3 DEF vars, HumanInv, TypeOK, Asked, Answering, ListedAreAsked, SentIsThere,
     request, channel, handler
<1>. QED
  BY <1>1, <1>2, <1>3 DEF Next

-----------------------------------------------------------------------------
(* WebServer *)

\* A box holds finitely many frames.
LEMMA AboutIsFinite ==
  ASSUME NEW box \in Seq(Frame), NEW q
  PROVE  IsFiniteSet(About(box, q)) /\ Cardinality(About(box, q)) \in Nat
<1>1. IsFiniteSet(1 .. Len(box)) BY FS_Interval
<1>2. IsFiniteSet(About(box, q)) BY <1>1, FS_Subset DEF About
<1> QED BY <1>2, FS_CardinalityType

\* A frame about something else leaves what a question got as it was.
LEMMA OtherFrame ==
  ASSUME NEW box \in Seq(Frame), NEW q, NEW frame \in Frame, frame.about # q
  PROVE  /\ About(Append(box, frame), q) = About(box, q)
         /\ \A reply : Begins(box, q, reply) <=> Begins(Append(box, frame), q, reply)
<1> DEFINE more == Append(box, frame)
<1>1. /\ more \in Seq(Frame) /\ DOMAIN more = 1 .. Len(box) + 1 /\ DOMAIN box = 1 .. Len(box)
      /\ Len(box) \in Nat
      /\ \A i \in DOMAIN box : more[i] = box[i]
      /\ more[Len(box) + 1] = frame
  OBVIOUS
<1> HIDE DEF more
<1>2. About(more, q) = About(box, q) BY <1>1 DEF About
<1>3. \A i \in About(box, q) : more[i] = box[i] BY <1>1 DEF About
<1>4. \A reply : Begins(box, q, reply) <=> Begins(more, q, reply)
  BY <1>2, <1>3 DEF Begins
<1> QED BY <1>2, <1>4 DEF more

\* The next frame of a reply makes one more, and still its beginning.
LEMMA NextFrame ==
  ASSUME NEW box \in Seq(Frame), NEW q, NEW frame \in Frame, frame.about = q,
         NEW reply, Begins(box, q, reply),
         Cardinality(About(box, q)) + 1 \in DOMAIN reply,
         reply[Cardinality(About(box, q)) + 1] = frame.kind
  PROVE  /\ Begins(Append(box, frame), q, reply)
         /\ Cardinality(About(Append(box, frame), q)) = Cardinality(About(box, q)) + 1
<1> DEFINE more == Append(box, frame)  n == Cardinality(About(box, q))
<1>1. /\ more \in Seq(Frame) /\ DOMAIN more = 1 .. Len(box) + 1 /\ DOMAIN box = 1 .. Len(box)
      /\ Len(box) \in Nat
      /\ \A i \in DOMAIN box : more[i] = box[i]
      /\ more[Len(box) + 1] = frame
  OBVIOUS
<1> HIDE DEF more
<1>2. About(more, q) = About(box, q) \cup {Len(box) + 1} BY <1>1 DEF About
<1>3. Len(box) + 1 \notin About(box, q) /\ \A i \in About(box, q) : i \in Nat /\ i < Len(box) + 1
  BY <1>1 DEF About
<1>4. Cardinality(About(more, q)) = n + 1
  <2>1. IsFiniteSet(About(box, q)) BY AboutIsFinite
  <2> QED BY <2>1, <1>2, <1>3, FS_AddElement
<1>5. Begins(more, q, reply)
  <2> SUFFICES ASSUME NEW i \in About(more, q)
               PROVE  LET k == Cardinality({j \in About(more, q) : j <= i})
                      IN  k \in DOMAIN reply /\ more[i].kind = reply[k]
    BY DEF Begins
  <2>1. CASE i \in About(box, q)
    <3>1. {j \in About(more, q) : j <= i} = {j \in About(box, q) : j <= i}
      BY <1>1, <1>2, <1>3, <2>1
    <3>2. more[i] = box[i] BY <1>1, <2>1 DEF About
    <3> QED BY <2>1, <3>1, <3>2 DEF Begins
  <2>2. CASE i = Len(box) + 1
    <3>1. \A j \in About(more, q) : j <= i BY <1>1, <1>2, <1>3, <2>2
    <3>2. {j \in About(more, q) : j <= i} = About(more, q) BY <3>1
    <3> QED BY <1>1, <1>4, <2>2, <3>2
  <2> QED BY <1>2, <2>1, <2>2
<1> QED BY <1>4, <1>5 DEF more

\* The two replies a question may get, and the types of what the server keeps.
Failure == <<"log", "error">>
Success == <<"log", "token", "complete">>
Phase == {"notice", "working", "answered", "failed", "token", "done"}
Loop == [at : {"none", "reading", "writing", "leaving", "left"}, out : Frame]
Question == [via : Conn, phase : Phase]

\* A frame that is sent to c arrives.
Works(c) == mutex = NoWriter /\ web # "panicked" /\ Open(c)

\* What was sent about a question, by how far it is; all of it, as far as frames arrive.
SentSoFar(q) ==
  LET c == questions[q].via  box == inbox[c]  phase == questions[q].phase
  IN  /\ phase = "notice" => About(box, q) = {}
      /\ phase \in {"working", "answered", "failed"} =>
           /\ Begins(box, q, Failure) /\ Begins(box, q, Success)
           /\ Works(c) => Cardinality(About(box, q)) = 1
      /\ phase = "token" => /\ Begins(box, q, Success)
                            /\ Works(c) => Cardinality(About(box, q)) = 2
      /\ phase = "done" => Begins(box, q, Failure) \/ Begins(box, q, Success)

\* A loop that writes a notice writes that of its own question, which waits for it.
NoticesWait ==
  \A c \in Conn : loops[c].at = "writing" /\ loops[c].out.about # 0 =>
    LET q == loops[c].out.about
    IN  /\ q \in DOMAIN questions /\ loops[c].out.kind = "log"
        /\ questions[q].via = c /\ questions[q].phase = "notice"

\* What a connection got about a question was asked on it.
Apart ==
  \A c \in Conn : \A i \in DOMAIN inbox[c] :
    LET q == inbox[c][i].about
    IN  q # 0 => q \in DOMAIN questions /\ questions[q].via = c

\* The server's invariant: every question got what its phase says.
WebInv ==
  /\ WebTypeOK /\ Len(questions) <= MaxQuestions
  /\ NoticesWait /\ Apart
  /\ \A q \in DOMAIN questions : SentSoFar(q) /\ loops[questions[q].via].at # "none"

\* Questions, one by one.
LEMMA QuestionType ==
  ASSUME WebTypeOK
  PROVE  /\ questions \in Seq(Question) /\ DOMAIN questions = 1 .. Len(questions) /\ Len(questions) \in Nat
         /\ \A q \in DOMAIN questions : questions[q] \in Question /\ questions[q].via \in Conn
                                        /\ questions[q].phase \in Phase
<1>1. questions \in Seq(Question) BY DEF WebTypeOK, Question, Phase
<1>2. \A q \in DOMAIN questions : questions[q] \in Question BY <1>1
<1> QED BY <1>1, <1>2 DEF Question

\* Steps that neither send nor ask, and open nothing.
LEMMA QuietStep ==
  ASSUME WebInv, WebTypeOK', UNCHANGED <<inbox, questions>>, NoticesWait',
         \A c \in Conn : (loops[c].at # "none" => loops'[c].at # "none" /\ (Open(c)' => Open(c))),
         mutex' = NoWriter => mutex = NoWriter, web' # "panicked" => web # "panicked"
  PROVE  WebInv'
<1>1. \A q \in DOMAIN questions : questions[q].via \in Conn BY QuestionType DEF WebInv
<1>2. \A q \in DOMAIN questions : Works(questions[q].via)' => Works(questions[q].via)
  BY <1>1 DEF WebInv, Works
<1>3. ASSUME NEW q \in DOMAIN questions PROVE SentSoFar(q)' /\ loops'[questions[q].via].at # "none"
  BY <1>1, <1>2, <1>3 DEF WebInv, SentSoFar
<1> QED BY <1>3 DEF WebInv, Apart

\* What clients do, but for a question, and the stop of the server.
LEMMA ClientStep ==
  ASSUME WebInv, web \in {"up", "stopping"},
         \/ StopServer \/ CloseConns
         \/ \E c \in Conn : \/ Connect(c) \/ Hangup(c) \/ Stall(c) \/ ReadInvalid(c) \/ Leave(c)
                            \/ ReadBranchSwitch(c) \/ ReadListBranches(c)
  PROVE  WebInv'
<1>1. WebTypeOK BY DEF WebInv
<1>2. WebTypeOK' /\ UNCHANGED <<inbox, questions>>
  <2>1. CASE StopServer \/ CloseConns
    <3>1. loops' \in [Conn -> Loop] BY <1>1, <2>1 DEF StopServer, CloseConns, WebTypeOK, Loop
    <3>2. mutex' \in {mutex, "server"} /\ web' \in {web, "stopping", "stopped"}
          /\ UNCHANGED <<questions, stalled, inbox, frames>>
      BY <2>1 DEF StopServer, CloseConns
    <3> QED BY <1>1, <3>1, <3>2 DEF WebTypeOK, Loop
  <2>2. ASSUME NEW c \in Conn, Connect(c) \/ Hangup(c) \/ Stall(c) \/ Leave(c)
        PROVE  WebTypeOK' /\ UNCHANGED <<inbox, questions>>
    <3>1. loops' \in [Conn -> Loop]
      <4>1. Plain("log") \in Frame BY WriterAssumption DEF Plain, Frame
      <4>2. loops \in [Conn -> Loop] BY <1>1 DEF WebTypeOK, Loop
      <4>3. [at |-> "writing", out |-> Plain("log")] \in Loop BY <4>1 DEF Loop
      <4>4. \A to \in {"leaving", "left"} : [loops[c] EXCEPT !.at = to] \in Loop BY <4>2 DEF Loop
      <4>5. \/ loops' = [loops EXCEPT ![c] = [at |-> "writing", out |-> Plain("log")]]
            \/ \E to \in {"leaving", "left"} : loops' = [loops EXCEPT ![c] = [loops[c] EXCEPT !.at = to]]
            \/ loops' = loops
        BY <2>2 DEF Connect, Hangup, Stall, Leave
      <4> HIDE DEF Loop
      <4> QED BY <4>2, <4>3, <4>4, <4>5
    <3>2. stalled' \in SUBSET Conn /\ UNCHANGED <<questions, mutex, web, inbox, frames>>
      BY <1>1, <2>2 DEF Connect, Hangup, Stall, Leave, WebTypeOK
    <3> QED BY <1>1, <3>1, <3>2 DEF WebTypeOK, Loop
  <2>3. ASSUME NEW c \in Conn, ReadInvalid(c) \/ ReadBranchSwitch(c) \/ ReadListBranches(c)
        PROVE  WebTypeOK' /\ UNCHANGED <<inbox, questions>>
    <3>1. PICK kind \in {"error", "log", "branches"} : ReadFrame(c, Plain(kind)) /\ UNCHANGED questions
      BY <2>3 DEF ReadInvalid, ReadBranchSwitch, ReadListBranches
    <3>2. Plain(kind) \in Frame BY WriterAssumption DEF Plain, Frame
    <3>3. loops' \in [Conn -> Loop] BY <1>1, <3>1, <3>2 DEF ReadFrame, WebTypeOK, Loop
    <3>4. frames' \in 0 .. MaxFrames BY <1>1, <3>1, WriterAssumption DEF ReadFrame, WebTypeOK
    <3> QED BY <1>1, <3>1, <3>3, <3>4 DEF ReadFrame, WebTypeOK, Loop
  <2> QED BY <2>1, <2>2, <2>3
<1>3. \A c \in Conn : loops'[c].at = "writing" /\ loops'[c].out.about # 0 => loops'[c] = loops[c]
  BY <1>1 DEF ReadInvalid, ReadBranchSwitch, ReadListBranches, ReadFrame, Plain, StopServer, CloseConns, Connect, Hangup, Stall, Leave, WebTypeOK, Frame
<1>4. NoticesWait' BY <1>2, <1>3 DEF WebInv, NoticesWait
<1>5. \A c \in Conn : (loops[c].at # "none" => loops'[c].at # "none" /\ (Open(c)' => Open(c)))
  BY <1>1 DEF ReadInvalid, ReadBranchSwitch, ReadListBranches, ReadFrame, StopServer, CloseConns, Connect, Hangup, Stall, Leave, WebTypeOK, Open
<1>6. mutex' = NoWriter => mutex = NoWriter
  BY WriterAssumption DEF StopServer, CloseConns, Connect, Hangup, Stall, Leave, ReadInvalid,
     ReadBranchSwitch, ReadListBranches, ReadFrame
<1> QED BY <1>2, <1>4, <1>5, <1>6, QuietStep

\* What SendMessage may do: write, fail, wait for the mutex, or panic.
LEMMA SendFacts ==
  ASSUME WebTypeOK, NEW c \in Conn, NEW w \in Conn \cup {"question"}, NEW frame \in Frame,
         SendMessage(w, c, frame)
  PROVE  /\ inbox' \in [Conn -> Seq(Frame)] /\ \A d \in Conn \ {c} : inbox'[d] = inbox[d]
         /\ mutex = NoWriter /\ UNCHANGED <<stalled, frames>>
         /\ \/ UNCHANGED <<mutex, web>> /\ Open(c) /\ inbox'[c] = Append(inbox[c], frame)
            \/ UNCHANGED <<mutex, web>> /\ ~Open(c) /\ inbox'[c] = inbox[c]
            \/ mutex' = w /\ UNCHANGED web /\ inbox' = inbox
            \/ Open(c) /\ UNCHANGED mutex /\ web' = "panicked" /\ inbox' = inbox
<1>1. inbox \in [Conn -> Seq(Frame)] BY DEF WebTypeOK
<1>2. CASE inbox' = [inbox EXCEPT ![c] = Append(@, frame)]
  <2>1. Append(inbox[c], frame) \in Seq(Frame) BY <1>1
  <2> HIDE DEF Frame
  <2> QED BY <1>1, <1>2, <2>1 DEF SendMessage
<1>3. CASE inbox' # [inbox EXCEPT ![c] = Append(@, frame)]
  BY <1>1, <1>3 DEF SendMessage
<1> QED BY <1>2, <1>3

\* Nothing changes for the other questions.
LEMMA OthersTold ==
  ASSUME WebInv, NEW q \in DOMAIN questions, NEW c \in Conn, NEW frame \in Frame,
         NEW w \in Conn \cup {"question"}, web \in {"up", "stopping"},
         SendMessage(w, c, frame), frame.about # q, questions'[q] = questions[q],
         \A d \in Conn : Open(d)' => Open(d)
  PROVE  SentSoFar(q)'
<1> DEFINE d == questions[q].via
<1>1. d \in Conn /\ WebTypeOK BY QuestionType DEF WebInv
<1>2. Works(d)' => Works(d) BY <1>1, SendFacts DEF Works
<1>3. inbox[d] \in Seq(Frame) BY <1>1 DEF WebTypeOK
<1>4. inbox'[d] = inbox[d] \/ inbox'[d] = Append(inbox[d], frame) BY <1>1, SendFacts
<1>5. /\ About(inbox'[d], q) = About(inbox[d], q)
      /\ \A reply : Begins(inbox[d], q, reply) <=> Begins(inbox'[d], q, reply)
  <2> HIDE DEF d
  <2>1. CASE inbox'[d] = inbox[d] BY <2>1
  <2>2. CASE inbox'[d] = Append(inbox[d], frame)
    <3>1. /\ About(Append(inbox[d], frame), q) = About(inbox[d], q)
          /\ \A reply : Begins(inbox[d], q, reply) <=> Begins(Append(inbox[d], frame), q, reply)
      BY <1>3, OtherFrame
    <3> QED BY <2>2, <3>1
  <2> QED BY <1>4, <2>1, <2>2
<1>6. SentSoFar(q) BY DEF WebInv
<1> QED BY <1>2, <1>5, <1>6 DEF SentSoFar

\* A loop writes its frame; a notice moves its question on.
LEMMA WriteStep ==
  ASSUME WebInv, web \in {"up", "stopping"}, NEW c \in Conn, WriteFrame(c)
  PROVE  WebInv'
<1> DEFINE frame == loops[c].out  q == frame.about
<1>1. WebTypeOK /\ loops[c].at = "writing" /\ frame \in Frame /\ SendMessage(c, c, frame) /\ Open(c)
  BY DEF WebInv, WebTypeOK, WriteFrame, Open
<1>2. loops' = [loops EXCEPT ![c].at = IF mutex' = c THEN "writing" ELSE "reading"]
  BY DEF WriteFrame
<1>3. /\ inbox' \in [Conn -> Seq(Frame)] /\ \A d \in Conn \ {c} : inbox'[d] = inbox[d]
      /\ mutex = NoWriter /\ UNCHANGED <<stalled, frames>>
      /\ \/ UNCHANGED <<mutex, web>> /\ inbox'[c] = Append(inbox[c], frame)
         \/ mutex' = c /\ UNCHANGED web /\ inbox' = inbox
         \/ UNCHANGED mutex /\ web' = "panicked" /\ inbox' = inbox
  BY <1>1, SendFacts
<1>4. \A d \in Conn : /\ Open(d)' <=> Open(d)
                      /\ loops'[d].out = loops[d].out /\ (loops[d].at # "none" => loops'[d].at # "none")
                      /\ loops'[d].at = "writing" => loops[d].at = "writing"
                      /\ d = c /\ mutex' # c => loops'[d].at # "writing"
  BY <1>1, <1>2 DEF WebTypeOK, Open
<1>5. questions \in Seq(Question) /\ DOMAIN questions = 1 .. Len(questions)
  BY <1>1, QuestionType
<1>6. CASE q = 0 \/ mutex' = c
  <2>1. UNCHANGED questions BY <1>6 DEF WriteFrame
  <2>2. WebTypeOK' BY <1>1, <1>2, <1>3, <2>1 DEF WebTypeOK
  <2>3. NoticesWait' BY <1>4, <2>1 DEF WebInv, NoticesWait
  <2>4. Apart'
    <3>1. \A d \in Conn : inbox'[d] = inbox[d] \/ (inbox'[d] = Append(inbox[d], frame) /\ frame.about = 0)
      BY <1>1, <1>3, <1>6, WriterAssumption
    <3> SUFFICES ASSUME NEW d \in Conn, NEW i \in DOMAIN inbox'[d], inbox'[d][i].about # 0
                 PROVE  i \in DOMAIN inbox[d] /\ inbox'[d][i] = inbox[d][i]
      BY <2>1 DEF WebInv, Apart
    <3>2. CASE inbox'[d] = inbox[d] BY <3>2
    <3>3. CASE inbox'[d] = Append(inbox[d], frame) /\ frame.about = 0
      <4>1. inbox[d] \in Seq(Frame) BY <1>1 DEF WebTypeOK
      <4> HIDE DEF frame
      <4> QED BY <4>1, <3>3, <1>1
    <3> QED BY <3>1, <3>2, <3>3
  <2>5. ASSUME NEW p \in DOMAIN questions PROVE SentSoFar(p)' /\ loops'[questions[p].via].at # "none"
    <3>1. loops'[questions[p].via].at # "none" BY <1>1, <1>4, QuestionType DEF WebInv
    <3>2. CASE q = 0
      <4>1. frame.about # p /\ questions'[p] = questions[p] BY <1>5, <2>1, <3>2
      <4>2. \A d \in Conn : Open(d)' => Open(d) BY <1>4
      <4> HIDE DEF frame
      <4> QED BY <1>1, <4>1, <4>2, <3>1, OthersTold
    <3>3. CASE mutex' = c
      <4>1. ~Works(questions[p].via)' BY <3>3, WriterAssumption DEF Works
      <4>2. inbox' = inbox BY <1>3, <3>3, WriterAssumption
      <4> QED BY <2>1, <3>1, <4>1, <4>2 DEF WebInv, SentSoFar
    <3> QED BY <1>6, <3>1, <3>2, <3>3
  <2> QED BY <2>1, <2>2, <2>3, <2>4, <2>5 DEF WebInv
<1>7. CASE q # 0 /\ mutex' # c
  <2>1. /\ q \in DOMAIN questions /\ frame.kind = "log"
        /\ questions[q].via = c /\ questions[q].phase = "notice"
    BY <1>1, <1>7 DEF WebInv, NoticesWait
  <2>2. questions' = [questions EXCEPT ![q].phase = "working"] BY <1>7 DEF WriteFrame
  <2>3. /\ questions' \in Seq(Question) /\ DOMAIN questions' = DOMAIN questions
        /\ Len(questions') = Len(questions)
        /\ \A p \in DOMAIN questions : questions'[p].via = questions[p].via
                                       /\ (p # q => questions'[p] = questions[p])
        /\ questions'[q].phase = "working"
    <3>1. questions[q] \in Question BY <1>1, <2>1, QuestionType
    <3>2. [questions[q] EXCEPT !.phase = "working"] \in Question BY <3>1 DEF Question, Phase
    <3> DEFINE new == [questions[q] EXCEPT !.phase = "working"]
    <3>3. new \in Question /\ new.via = questions[q].via /\ new.phase = "working"
      BY <3>1, <3>2 DEF Question
    <3>4. questions' = [questions EXCEPT ![q] = new] BY <2>2
    <3> HIDE DEF q, new
    <3> QED BY <1>5, <2>1, <3>3, <3>4
  <2>4. WebTypeOK' BY <1>1, <1>2, <1>3, <2>3 DEF WebTypeOK, Question, Phase
  <2>5. NoticesWait'
    <3>1. \A d \in Conn : loops'[d].at = "writing" /\ loops'[d].out.about # 0 =>
             loops[d].at = "writing" /\ d # c /\ loops'[d].out = loops[d].out
      BY <1>4, <1>7
    <3> QED BY <2>1, <2>3, <3>1 DEF WebInv, NoticesWait
  <2>6. Apart'
    <3> SUFFICES ASSUME NEW d \in Conn, NEW i \in DOMAIN inbox'[d], inbox'[d][i].about # 0
                 PROVE  /\ inbox'[d][i].about \in DOMAIN questions
                        /\ questions[inbox'[d][i].about].via = d
      BY <2>3 DEF Apart
    <3>1. CASE inbox'[d] = inbox[d] BY <3>1 DEF WebInv, Apart
    <3>2. CASE inbox'[d] = Append(inbox[d], frame) /\ d = c
      <4>1. inbox[d] \in Seq(Frame) BY <1>1 DEF WebTypeOK
      <4>2. CASE i \in DOMAIN inbox[d]
        <5>1. inbox'[d][i] = inbox[d][i]
          <6> HIDE DEF frame
          <6> QED BY <1>1, <3>2, <4>1, <4>2
        <5> QED BY <4>2, <5>1 DEF WebInv, Apart
      <4>3. CASE i \notin DOMAIN inbox[d]
        <5>1. inbox'[d][i] = frame
          <6> HIDE DEF frame
          <6> QED BY <1>1, <3>2, <4>1, <4>3
        <5> QED BY <2>1, <3>2, <5>1
      <4> QED BY <4>2, <4>3
    <3> QED BY <1>3, <3>1, <3>2
  <2>7. ASSUME NEW p \in DOMAIN questions PROVE SentSoFar(p)' /\ loops'[questions[p].via].at # "none"
    <3>1. loops'[questions[p].via].at # "none" BY <1>1, <1>4, QuestionType DEF WebInv
    <3>2. CASE p # q
      <4>1. frame.about # p /\ questions'[p] = questions[p] BY <2>3, <3>2
      <4>2. \A d \in Conn : Open(d)' => Open(d) BY <1>4
      <4> HIDE DEF frame
      <4> QED BY <1>1, <4>1, <4>2, <3>1, OthersTold
    <3>3. CASE p = q
      <4>1. inbox[c] \in Seq(Frame) /\ About(inbox[c], q) = {}
        BY <1>1, <2>1 DEF WebInv, WebTypeOK, SentSoFar
      <4>2. Begins(inbox[c], q, Failure) /\ Begins(inbox[c], q, Success) /\ Cardinality(About(inbox[c], q)) = 0
        BY <4>1, FS_EmptySet DEF Begins
      <4>3. CASE inbox'[c] = Append(inbox[c], frame)
        <5>1. /\ Begins(inbox'[c], q, Failure) /\ Cardinality(About(inbox'[c], q)) = 1
          <6>1. /\ Cardinality(About(inbox[c], q)) + 1 \in DOMAIN Failure
                /\ Failure[Cardinality(About(inbox[c], q)) + 1] = frame.kind
            BY <2>1, <4>2 DEF Failure
          <6>2. q = frame.about OBVIOUS
          <6> HIDE DEF frame, q
          <6>3. /\ Begins(inbox'[c], q, Failure)
                /\ Cardinality(About(inbox'[c], q)) = Cardinality(About(inbox[c], q)) + 1
            BY <1>1, <4>1, <4>2, <4>3, <6>1, <6>2, NextFrame
          <6> QED BY <4>2, <6>3
        <5>2. Begins(inbox'[c], q, Success)
          <6>1. /\ Cardinality(About(inbox[c], q)) + 1 \in DOMAIN Success
                /\ Success[Cardinality(About(inbox[c], q)) + 1] = frame.kind
            BY <2>1, <4>2 DEF Success
          <6> HIDE DEF frame
          <6> QED BY <1>1, <4>1, <4>2, <4>3, <6>1, NextFrame
        <5> QED BY <3>1, <3>3, <2>1, <2>3, <5>1, <5>2 DEF SentSoFar
      <4>4. CASE inbox' = inbox /\ web' = "panicked"
        <5>1. ~Works(c)' BY <4>4 DEF Works
        <5> QED BY <3>1, <3>3, <2>1, <2>3, <4>2, <4>4, <5>1 DEF SentSoFar
      <4> QED BY <1>3, <1>7, <4>3, <4>4
    <3> QED BY <3>2, <3>3
  <2> QED BY <2>3, <2>4, <2>5, <2>6, <2>7 DEF WebInv
<1> QED BY <1>6, <1>7

\* A question is read, and its notice is to be written.
LEMMA AskedStep ==
  ASSUME WebInv, NEW c \in Conn, ReadQuestion(c)
  PROVE  WebInv'
<1> DEFINE n == Len(questions) + 1
           frame == [kind |-> "log", about |-> n]
           question == [via |-> c, phase |-> "notice"]
<1>1. WebTypeOK /\ questions \in Seq(Question) /\ DOMAIN questions = 1 .. Len(questions)
      /\ Len(questions) \in Nat /\ n \in 1 .. MaxQuestions
  BY WriterAssumption, QuestionType DEF WebInv, ReadQuestion
<1>2. frame \in Frame /\ question \in Question BY <1>1 DEF Frame, Question, Phase
<1>3. /\ questions' \in Seq(Question) /\ Len(questions') = n /\ DOMAIN questions' = 1 .. n
      /\ \A q \in DOMAIN questions : questions'[q] = questions[q] /\ q \in DOMAIN questions'
      /\ questions'[n] = question
  <2>1. questions' = Append(questions, question) BY DEF ReadQuestion
  <2> HIDE DEF question
  <2> QED BY <1>1, <1>2, <2>1
<1>4. /\ loops[c].at = "reading" /\ UNCHANGED <<mutex, stalled, inbox, web>>
      /\ frames' \in 0 .. MaxFrames
      /\ loops' = [loops EXCEPT ![c] = [at |-> "writing", out |-> frame]]
  BY <1>1, WriterAssumption DEF ReadQuestion, ReadFrame, WebTypeOK
<1>5. loops' \in [Conn -> Loop] /\ \A d \in Conn \ {c} : loops'[d] = loops[d]
  <2>1. [at |-> "writing", out |-> frame] \in Loop BY <1>2 DEF Loop
  <2>2. loops \in [Conn -> Loop] BY <1>1 DEF WebTypeOK, Loop
  <2> HIDE DEF Loop, frame
  <2> QED BY <1>4, <2>1, <2>2
<1>6. loops'[c].at = "writing" /\ loops'[c].out = frame BY <1>1, <1>4 DEF WebTypeOK
<1>7. WebTypeOK' BY <1>1, <1>3, <1>4, <1>5 DEF WebTypeOK, Loop, Question, Phase
<1>8. NoticesWait' BY <1>1, <1>3, <1>5, <1>6 DEF WebInv, NoticesWait
<1>9. Apart' BY <1>3, <1>4 DEF WebInv, Apart
<1>10. About(inbox[c], n) = {}
  BY <1>1 DEF WebInv, Apart, About
<1>11. \A d \in Conn : Open(d)' <=> Open(d) BY <1>4, <1>5, <1>6 DEF Open
<1>12. ASSUME NEW q \in DOMAIN questions' PROVE SentSoFar(q)' /\ loops'[questions'[q].via].at # "none"
  <2>1. CASE q = n BY <2>1, <1>3, <1>4, <1>6, <1>10 DEF SentSoFar
  <2>2. CASE q \in DOMAIN questions
    <3>1. SentSoFar(q) /\ loops[questions[q].via].at # "none" /\ questions[q].via \in Conn
      BY <2>2, <1>1, QuestionType DEF WebInv
    <3>2. Works(questions[q].via)' => Works(questions[q].via) BY <2>2, <3>1, <1>3, <1>4, <1>11 DEF Works, Open
    <3>3. SentSoFar(q)' BY <2>2, <3>1, <3>2, <1>3, <1>4 DEF SentSoFar
    <3> QED BY <3>1, <3>3, <2>2, <1>3, <1>5, <1>6
  <2> QED BY <2>1, <2>2, <1>1, <1>3
<1> QED BY <1>1, <1>3, <1>7, <1>8, <1>9, <1>12 DEF WebInv

\* A question that moves on, alone.
LEMMA FurtherType ==
  ASSUME WebInv, NEW q \in DOMAIN questions, NEW from \in Phase, NEW to \in Phase, Further(q, from, to)
  PROVE  /\ questions[q].phase = from
         /\ questions' \in Seq(Question) /\ DOMAIN questions' = DOMAIN questions
         /\ Len(questions') = Len(questions)
         /\ \A p \in DOMAIN questions : questions'[p].via = questions[p].via
                                        /\ (p # q => questions'[p] = questions[p])
         /\ questions'[q].phase = to
<1>1. WebTypeOK BY DEF WebInv
<1>2. questions[q] \in Question /\ questions \in Seq(Question) BY <1>1, QuestionType
<1> DEFINE new == [questions[q] EXCEPT !.phase = to]
<1>3. new \in Question /\ new.via = questions[q].via /\ new.phase = to BY <1>2 DEF Question
<1>4. questions' = [questions EXCEPT ![q] = new] /\ questions[q].phase = from BY DEF Further
<1> HIDE DEF new
<1> QED BY <1>2, <1>3, <1>4

\* The agent ends with an answer or an error, and sends nothing yet.
LEMMA ChunkStep ==
  ASSUME WebInv, NEW q \in DOMAIN questions, ProcessMessage(q)
  PROVE  WebInv'
<1>1. PICK to \in {"answered", "failed"} : Further(q, "working", to)
  BY DEF ProcessMessage
<1>2. /\ questions[q].phase = "working"
      /\ questions' \in Seq(Question) /\ DOMAIN questions' = DOMAIN questions
      /\ Len(questions') = Len(questions)
      /\ \A p \in DOMAIN questions : questions'[p].via = questions[p].via
                                     /\ (p # q => questions'[p] = questions[p])
      /\ questions'[q].phase = to
  BY <1>1, FurtherType DEF Phase
<1>3. UNCHANGED <<loops, mutex, stalled, inbox, frames, web>> BY DEF ProcessMessage
<1>4. WebTypeOK' BY <1>2, <1>3 DEF WebInv, WebTypeOK, Question, Phase
<1>5. NoticesWait' BY <1>2, <1>3 DEF WebInv, NoticesWait
<1>6. Apart' BY <1>2, <1>3 DEF WebInv, Apart
<1>7. \A d \in Conn : Works(d)' <=> Works(d) BY <1>3 DEF Works, Open
<1>8. ASSUME NEW p \in DOMAIN questions PROVE SentSoFar(p)' /\ loops'[questions'[p].via].at # "none"
  <2>1. SentSoFar(p) /\ loops[questions[p].via].at # "none" /\ questions[p].via \in Conn
    BY QuestionType DEF WebInv
  <2>2. CASE p = q BY <2>1, <2>2, <1>2, <1>3, <1>7 DEF SentSoFar
  <2>3. CASE p # q BY <2>1, <2>3, <1>2, <1>3, <1>7 DEF SentSoFar
  <2> QED BY <2>2, <2>3
<1> QED BY <1>2, <1>4, <1>5, <1>6, <1>8 DEF WebInv

\* A reply goes on by the next of its frames, if it arrives.
LEMMA SaidStep ==
  ASSUME WebInv, web \in {"up", "stopping"}, NEW q \in DOMAIN questions, UNCHANGED loops,
         NEW from \in {"failed", "answered", "token"}, NEW to \in {"token", "done"},
         NEW kind \in {"error", "token", "complete"},
         Further(q, from, to), SendMessage("question", questions[q].via, [kind |-> kind, about |-> q]),
         <<from, to, kind>> \in {<<"failed", "done", "error">>, <<"answered", "token", "token">>,
                                 <<"token", "done", "complete">>}
  PROVE  WebInv'
<1> DEFINE c == questions[q].via
           frame == [kind |-> kind, about |-> q]
           reply == IF from = "failed" THEN Failure ELSE Success
<1>1. WebTypeOK /\ Len(questions) <= MaxQuestions /\ SentSoFar(q) /\ loops[c].at # "none" BY DEF WebInv
<1>2. /\ questions[q].phase = from
      /\ questions' \in Seq(Question) /\ DOMAIN questions' = DOMAIN questions
      /\ Len(questions') = Len(questions)
      /\ \A p \in DOMAIN questions : questions'[p].via = questions[p].via
                                     /\ (p # q => questions'[p] = questions[p])
      /\ questions'[q].phase = to
  BY FurtherType DEF Phase
<1>3. c \in Conn /\ q \in 1 .. MaxQuestions /\ inbox[c] \in Seq(Frame)
  BY <1>1, QuestionType, WriterAssumption DEF WebTypeOK
<1>4. frame \in Frame BY <1>3 DEF Frame
<1>5. /\ inbox' \in [Conn -> Seq(Frame)] /\ \A d \in Conn \ {c} : inbox'[d] = inbox[d]
      /\ mutex = NoWriter /\ UNCHANGED <<stalled, frames>>
      /\ \/ UNCHANGED <<mutex, web>> /\ Open(c) /\ inbox'[c] = Append(inbox[c], frame)
         \/ UNCHANGED <<mutex, web>> /\ ~Open(c) /\ inbox'[c] = inbox[c]
         \/ mutex' = "question" /\ UNCHANGED web /\ inbox' = inbox
         \/ Open(c) /\ UNCHANGED mutex /\ web' = "panicked" /\ inbox' = inbox
  <2> HIDE DEF c, frame
  <2>1. SendMessage("question", c, frame) BY DEF c, frame
  <2> QED BY <1>1, <1>3, <1>4, <2>1, SendFacts
<1>6. \A d \in Conn : Open(d)' <=> Open(d) BY DEF Open
<1>7. WebTypeOK' BY <1>1, <1>2, <1>5 DEF WebTypeOK, Question, Phase
<1>8. NoticesWait' BY <1>2 DEF WebInv, NoticesWait
<1>9. Apart'
  <2> SUFFICES ASSUME NEW d \in Conn, NEW i \in DOMAIN inbox'[d], inbox'[d][i].about # 0
               PROVE  /\ inbox'[d][i].about \in DOMAIN questions
                      /\ questions[inbox'[d][i].about].via = d
    BY <1>2 DEF Apart
  <2>1. CASE inbox'[d] = inbox[d] BY <2>1 DEF WebInv, Apart
  <2>2. CASE inbox'[d] = Append(inbox[d], frame) /\ d = c
    <3>1. CASE i \in DOMAIN inbox[d]
      <4>1. inbox'[d][i] = inbox[d][i]
        <5> HIDE DEF frame
        <5> QED BY <1>3, <1>4, <2>2, <3>1
      <4> QED BY <3>1, <4>1 DEF WebInv, Apart
    <3>2. CASE i \notin DOMAIN inbox[d]
      <4>1. inbox'[d][i] = frame
        <5> HIDE DEF frame, c
        <5> QED BY <1>3, <1>4, <2>2, <3>2
      <4> QED BY <2>2, <4>1
    <3> QED BY <3>1, <3>2
  <2> QED BY <1>5, <2>1, <2>2
<1>10. ASSUME NEW p \in DOMAIN questions PROVE SentSoFar(p)' /\ loops'[questions'[p].via].at # "none"
  <2>1. loops'[questions'[p].via].at # "none" BY <1>2 DEF WebInv
  <2>2. CASE p # q
    <3>1. frame.about # p /\ questions'[p] = questions[p] BY <2>2, <1>2
    <3>2. \A d \in Conn : Open(d)' => Open(d) BY <1>6
    <3>3. SendMessage("question", c, frame) OBVIOUS
    <3> HIDE DEF frame, c
    <3> QED BY <1>3, <1>4, <3>1, <3>2, <3>3, <2>1, OthersTold
  <2>3. CASE p = q
    <3>1. Begins(inbox[c], q, reply) BY <1>1, <1>2 DEF SentSoFar
    <3>2. CASE inbox'[c] = Append(inbox[c], frame) /\ Open(c) /\ UNCHANGED <<mutex, web>>
      <4>1. Works(c) BY <3>2, <1>5 DEF Works
      <4>2. Cardinality(About(inbox[c], q)) = IF from = "token" THEN 2 ELSE 1
        BY <4>1, <1>1, <1>2 DEF SentSoFar
      <4>3. /\ Cardinality(About(inbox[c], q)) + 1 \in DOMAIN reply
            /\ reply[Cardinality(About(inbox[c], q)) + 1] = kind
        BY <4>2 DEF Failure, Success
      <4>4. frame.about = q /\ frame.kind = kind OBVIOUS
      <4>5. /\ Begins(inbox'[c], q, reply)
            /\ Cardinality(About(inbox'[c], q)) = Cardinality(About(inbox[c], q)) + 1
        <5> HIDE DEF frame, reply, c
        <5> QED BY <1>3, <1>4, <3>1, <3>2, <4>3, <4>4, NextFrame
      <4> QED BY <2>1, <2>3, <1>2, <4>2, <4>5 DEF SentSoFar
    <3>3. CASE inbox'[c] = inbox[c] /\ ~Works(c)'
      BY <2>1, <2>3, <3>1, <3>3, <1>2 DEF SentSoFar
    <3>4. mutex' = "question" \/ web' = "panicked" \/ ~Open(c) => ~Works(c)'
      BY <1>2, <1>3, WriterAssumption DEF Works, Open
    <3> QED BY <1>5, <3>2, <3>3, <3>4
  <2> QED BY <2>2, <2>3
<1> QED BY <1>1, <1>2, <1>7, <1>8, <1>9, <1>10 DEF WebInv

\* Every step of the server keeps the invariant.
LEMMA WebSteps == ASSUME WebInv, [WebNext]_wvars PROVE WebInv'
<1>1. CASE UNCHANGED wvars
  BY <1>1 DEF wvars, WebInv, WebTypeOK, NoticesWait, Apart, SentSoFar, Works, Open
<1>2. ASSUME NEW q \in DOMAIN questions, Report(q), web \in {"up", "stopping"} PROVE WebInv'
  BY <1>2, SaidStep DEF Report
<1>3. CASE WebNext
  BY <1>2, <1>3, ClientStep, WriteStep, AskedStep, ChunkStep DEF WebNext, Serving, Client, ServerSteps
<1> QED BY <1>1, <1>3

\* It holds before the first connection.
LEMMA WebStarts == ASSUME WebInit PROVE WebInv
<1>1. WebTypeOK BY WriterAssumption DEF WebInit, WebTypeOK, Frame, Plain
<1> QED BY <1>1, WriterAssumption DEF WebInit, WebInv, NoticesWait, Apart

\* And it says that replies are whole.
LEMMA WebReplies == ASSUME WebInv PROVE RepliesAreWhole
<1>1. ASSUME NEW q \in DOMAIN questions
      PROVE  \/ Begins(inbox[questions[q].via], q, Failure)
             \/ Begins(inbox[questions[q].via], q, Success)
  <2>1. SentSoFar(q) /\ questions[q].phase \in Phase BY QuestionType DEF WebInv
  <2>2. CASE questions[q].phase = "notice" BY <2>1, <2>2 DEF SentSoFar, Begins
  <2> QED BY <2>1, <2>2 DEF SentSoFar, Phase
<1>2. ASSUME NEW c \in Conn, NEW q \in DOMAIN questions, c # questions[q].via
      PROVE  About(inbox[c], q) = {}
  <2>1. q # 0 BY QuestionType DEF WebInv
  <2> QED BY <1>2, <2>1 DEF WebInv, Apart, About
<1> QED BY <1>1, <1>2 DEF RepliesAreWhole, Failure, Success

-----------------------------------------------------------------------------
(* ChatChannels *)

\* The messages' names, and the types of what is asked and said.
Known == {m.id : m \in Message}
AskRec == [of : Message, at : {"taken", "answered", "failed", "done"}]
SaidRec == [about : Nat, to : {m.author : m \in Message} \cup {m.chat : m \in Message},
            what : {"answer", "error"}]

\* What was asked how often, and who was told of what.
TakenOf(m) == {i \in DOMAIN asks : asks[i].of = m}

\* Counts stay below the deliveries, and a session remembers its own.
ChatKeeps ==
  /\ said \in Seq(SaidRec)
  /\ Len(asks) <= deliveries
  /\ \A n \in Known : forgotten[n] <= deliveries
  /\ \A s \in Sessions : \A i \in memory[s] : i \in DOMAIN asks /\ Session(asks[i].of) = s

\* A reply is about something asked that is done, home, and the only one.
ToldOnce ==
  \A i \in DOMAIN said :
    /\ said[i].about \in DOMAIN asks
    /\ asks[said[i].about].at = "done"
    /\ said[i].to \in {asks[said[i].about].of.author, asks[said[i].about].of.chat}
    /\ \A j \in DOMAIN said : said[i].about = said[j].about => i = j

\* QQ took a message once for each time it forgot it, and once if it knows it.
TakenInv ==
  \A m \in Message : m.channel \in QQs =>
    Cardinality(TakenOf(m)) <= forgotten[m.id] + (IF m.id \in processed THEN 1 ELSE 0)

\* The channels' invariant.
ChatInv == ChatTypeOK /\ ChatKeeps /\ ToldOnce /\ TakenInv

\* A session's name that no client gave tells the channel, and the person or the chat.
LEMMA SessionNames ==
  ASSUME NEW a \in Message, NEW b \in Message, a.names = {}, b.names = {},
         Session(a) = Session(b)
  PROVE  a.channel = b.channel /\ (a.author = b.author \/ a.chat = b.chat)
<1>1. a.channel \in DOMAIN Channel /\ b.channel \in DOMAIN Channel BY MessageAssumption
<1>2. SessionName(a) = SessionName(b) BY DEF Session
<1>3. SessionName(a)["channel"] = SessionName(b)["channel"] BY <1>2
<1>4. a.channel = b.channel BY <1>3 DEF SessionName
<1>5. "author" \in Of(a).session \/ "chat" \in Of(a).session
  BY <1>1 DEF Of, Channel, Telegram, Discord, Slack, WhatsApp, WebSocket, OneBot, WeCom,
     DingTalk, QQ, QQGroup, Feishu
<1>6. Of(a) = Of(b) BY <1>4 DEF Of
<1>7. CASE "author" \in Of(a).session
  <2>1. SessionName(a)["author"] = SessionName(b)["author"] BY <1>2
  <2> QED BY <1>4, <1>6, <1>7, <2>1 DEF SessionName
<1>8. CASE "chat" \in Of(a).session
  <2>1. SessionName(a)["chat"] = SessionName(b)["chat"] BY <1>2
  <2> QED BY <1>4, <1>6, <1>8, <2>1 DEF SessionName
<1> QED BY <1>5, <1>7, <1>8

\* A reply goes to the author of its message or to its chat.
LEMMA HomeIsOfMessage ==
  ASSUME NEW m \in Message, Home(m) # "nobody"
  PROVE  Home(m) \in {m.author, m.chat}
<1>1. m.channel \in DOMAIN Channel BY MessageAssumption
<1>2. Of(m).home \in {"author", "chat", "nobody"}
  BY <1>1 DEF Of, Channel, Telegram, Discord, Slack, WhatsApp, WebSocket, OneBot, WeCom,
     DingTalk, QQ, QQGroup, Feishu
<1> QED BY <1>2 DEF Home

\* Only asks change the count of what was taken.
LEMMA SameTaken ==
  ASSUME ChatTypeOK, ChatTypeOK', TakenInv, DOMAIN asks' = DOMAIN asks,
         \A i \in DOMAIN asks : asks'[i].of = asks[i].of,
         UNCHANGED <<processed, forgotten>>
  PROVE  TakenInv'
<1>1. \A m \in Message : TakenOf(m)' = TakenOf(m) BY DEF TakenOf
<1> QED BY <1>1 DEF TakenInv

\* What QQ learns and forgets
LEMMA LearnStep ==
  ASSUME ChatTypeOK, TakenInv, ChatKeeps, NEW m \in Message, Processed(m), deliveries' = deliveries + 1
  PROVE  /\ processed' \in SUBSET Known
         /\ DOMAIN forgotten' = Known
         /\ \A n \in Known : /\ forgotten'[n] \in Nat
                             /\ forgotten'[n] <= forgotten[n] + 1
                             /\ forgotten[n] + (IF n \in processed \cup {m.id} THEN 1 ELSE 0)
                                <= forgotten'[n] + (IF n \in processed' THEN 1 ELSE 0)
<1>1. forgotten \in [Known -> 0 .. MaxDeliveries] /\ processed \in SUBSET Known /\ m.id \in Known
  BY DEF ChatTypeOK, Known
<1>2. PICK old : /\ old \in SUBSET (processed \cup {m.id})
                 /\ processed' = (processed \cup {m.id}) \ old
                 /\ forgotten' = [i \in DOMAIN forgotten |-> forgotten[i] + IF i \in old THEN 1 ELSE 0]
  BY DEF Processed
<1>3. processed' \in SUBSET Known BY <1>1, <1>2
<1>4. DOMAIN forgotten' = Known BY <1>1, <1>2
<1>5. ASSUME NEW n \in Known
      PROVE  /\ forgotten'[n] \in Nat
             /\ forgotten'[n] <= forgotten[n] + 1
             /\ forgotten[n] + (IF n \in processed \cup {m.id} THEN 1 ELSE 0)
                 <= forgotten'[n] + (IF n \in processed' THEN 1 ELSE 0)
  <2>1. forgotten[n] \in Nat BY <1>1, ChatAssumption
  <2>2. forgotten'[n] = forgotten[n] + IF n \in old THEN 1 ELSE 0 BY <1>1, <1>2
  <2> QED BY <2>1, <2>2, <1>2
<1> QED BY <1>3, <1>4, <1>5

\* A message that nobody asks the agent about.
LEMMA DeliverStep ==
  ASSUME ChatInv, NEW m \in Message, Deliver(m), UNCHANGED asks,
         \/ Fresh(m) /\ UNCHANGED memory
         \/ UNCHANGED <<memory, processed, forgotten>>
         \/ /\ \E s \in Sessions : memory' = [memory EXCEPT ![s] = {}]
            /\ UNCHANGED <<processed, forgotten>>
  PROVE  ChatInv'
<1> USE DEF ChatInv
<1>1. /\ deliveries' = deliveries + 1 /\ deliveries' \in 0 .. MaxDeliveries /\ deliveries \in Nat
      /\ UNCHANGED <<channels, said, tokens, asks>>
  BY ChatAssumption DEF ChatTypeOK, Deliver
<1>2. forgotten \in [Known -> 0 .. MaxDeliveries] /\ \A n \in Known : forgotten[n] <= deliveries
      /\ forgotten[n] \in Nat
  BY ChatAssumption DEF ChatTypeOK, ChatKeeps, Known
<1>3. /\ processed' \in SUBSET Known
      /\ forgotten' \in [Known -> 0 .. MaxDeliveries]
      /\ \A n \in Known : /\ forgotten'[n] <= deliveries'
                          /\ forgotten[n] + (IF n \in processed THEN 1 ELSE 0)
                                <= forgotten'[n] + (IF n \in processed' THEN 1 ELSE 0)
  <2>1. CASE UNCHANGED <<processed, forgotten>>
    <3>1. \A n \in Known : forgotten[n] <= deliveries + 1 BY <1>1, <1>2
    <3> QED BY <1>1, <1>2, <2>1, <3>1 DEF ChatTypeOK, Known
  <2>2. CASE Processed(m)
    <3>1. /\ processed' \in SUBSET Known
          /\ DOMAIN forgotten' = Known
          /\ \A n \in Known : /\ forgotten'[n] \in Nat
                             /\ forgotten'[n] <= forgotten[n] + 1
                             /\ forgotten[n] + (IF n \in processed \cup {m.id} THEN 1 ELSE 0)
                                <= forgotten'[n] + (IF n \in processed' THEN 1 ELSE 0)
      BY <1>1, <2>2, LearnStep
    <3>2. forgotten' = [n \in Known |-> forgotten'[n]]
      BY <2>2, <1>2 DEF Processed
    <3>3. ASSUME NEW n \in Known
          PROVE  /\ forgotten'[n] \in 0 .. MaxDeliveries
                 /\ forgotten'[n] <= deliveries'
                 /\ forgotten[n] + (IF n \in processed THEN 1 ELSE 0)
                                <= forgotten'[n] + (IF n \in processed' THEN 1 ELSE 0)
      BY <3>1, <1>1, <1>2, ChatAssumption
    <3> QED BY <3>1, <3>2, <3>3
  <2> QED BY <2>1, <2>2 DEF Fresh
<1>4. /\ memory' \in [Sessions -> SUBSET (1 .. MaxDeliveries)]
      /\ \A s \in Sessions : memory'[s] \subseteq memory[s]
  BY DEF ChatTypeOK
<1>5. ChatTypeOK' BY <1>1, <1>3, <1>4 DEF ChatTypeOK, Known
<1>6. ChatKeeps'
  <2>1. Len(asks) <= deliveries + 1 BY <1>1 DEF ChatKeeps, ChatTypeOK
  <2> QED BY <2>1, <1>1, <1>3, <1>4 DEF ChatKeeps
<1>7. ToldOnce' BY <1>1 DEF ToldOnce
<1>8. TakenInv'
  <2> SUFFICES ASSUME NEW k \in Message, k.channel \in QQs
               PROVE  Cardinality(TakenOf(k)) <= forgotten'[k.id] + (IF k.id \in processed' THEN 1 ELSE 0)
    BY <1>1 DEF TakenInv, TakenOf
  <2>1. k.id \in Known BY DEF Known
  <2>2. IsFiniteSet(TakenOf(k))
    <3>1. IsFiniteSet(1 .. Len(asks)) BY FS_Interval DEF ChatTypeOK
    <3> QED BY <3>1, FS_Subset DEF TakenOf, ChatTypeOK
  <2>3. Cardinality(TakenOf(k)) \in Nat BY <2>2, FS_CardinalityType
  <2>4. forgotten'[k.id] \in Nat BY <2>1, <1>3, ChatAssumption
  <2> QED BY <2>1, <2>3, <2>4, <1>2, <1>3 DEF TakenInv
<1> QED BY <1>5, <1>6, <1>7, <1>8

\* What was taken can be counted.
LEMMA FiniteTaken == ASSUME ChatTypeOK, NEW m PROVE IsFiniteSet(TakenOf(m)) /\ Cardinality(TakenOf(m)) \in Nat
<1>1. IsFiniteSet(1 .. Len(asks)) BY FS_Interval DEF ChatTypeOK
<1>2. IsFiniteSet(TakenOf(m)) BY <1>1, FS_Subset DEF TakenOf, ChatTypeOK
<1> QED BY <1>2, FS_CardinalityType

\* A message that is taken, and asked about.
LEMMA AskStep == ASSUME ChatInv, NEW m \in Message, AskAgent(m) PROVE ChatInv'
<1> DEFINE ask == [of |-> m, at |-> "taken"]
<1>1. ChatTypeOK /\ ChatKeeps /\ ToldOnce /\ TakenInv BY DEF ChatInv
<1>2. /\ deliveries' = deliveries + 1 /\ deliveries' \in 0 .. MaxDeliveries /\ deliveries \in Nat
      /\ UNCHANGED <<channels, said, tokens, memory>> /\ asks' = Append(asks, ask)
  BY <1>1, ChatAssumption DEF ChatTypeOK, AskAgent, Takes, Deliver
<1>3. /\ asks \in Seq(AskRec) /\ ask \in AskRec /\ DOMAIN asks = 1 .. Len(asks) /\ Len(asks) \in Nat
  BY <1>1 DEF ChatTypeOK, AskRec
<1>4. /\ asks' \in Seq(AskRec)
      /\ Len(asks') = Len(asks) + 1 /\ DOMAIN asks' = 1 .. Len(asks) + 1
      /\ \A i \in 1 .. Len(asks) : asks'[i] = asks[i]
      /\ asks'[Len(asks) + 1] = ask
  <2> HIDE DEF ask
  <2> QED BY <1>2, <1>3
<1>5. \A n \in Known : forgotten[n] <= deliveries /\ forgotten[n] \in 0 .. MaxDeliveries /\ forgotten[n] \in Nat
  BY <1>1, ChatAssumption DEF ChatTypeOK, ChatKeeps, Known
<1>6. /\ processed' \in SUBSET Known
      /\ forgotten' \in [Known -> 0 .. MaxDeliveries]
      /\ \A n \in Known :
           /\ forgotten'[n] <= deliveries'
           /\ forgotten'[n] \in Nat
           /\ forgotten[n] + (IF n \in processed THEN 1 ELSE 0)
                <= forgotten'[n] + (IF n \in processed' THEN 1 ELSE 0)
           /\ m.channel \in QQs /\ n = m.id =>
                /\ n \notin processed
                /\ forgotten[n] + 1 <= forgotten'[n] + (IF n \in processed' THEN 1 ELSE 0)
  <2>1. CASE m.channel \notin QQs
    <3>1. UNCHANGED <<processed, forgotten>> BY <2>1 DEF AskAgent, Fresh
    <3>2. \A n \in Known : forgotten[n] <= deliveries + 1 BY <1>2, <1>5
    <3> QED BY <1>1, <1>2, <1>5, <2>1, <3>1, <3>2 DEF ChatTypeOK, Known
  <2>2. CASE m.channel \in QQs
    <3>0. Processed(m) /\ m.id \notin processed BY <2>2 DEF AskAgent, Fresh
    <3>1. /\ processed' \in SUBSET Known
          /\ DOMAIN forgotten' = Known
          /\ \A n \in Known : /\ forgotten'[n] \in Nat
                             /\ forgotten'[n] <= forgotten[n] + 1
                             /\ forgotten[n] + (IF n \in processed \cup {m.id} THEN 1 ELSE 0)
                                <= forgotten'[n] + (IF n \in processed' THEN 1 ELSE 0)
      BY <1>1, <1>2, <3>0, LearnStep
    <3>2. forgotten' = [n \in Known |-> forgotten'[n]]
      BY <3>0, <1>1 DEF Processed, ChatTypeOK, Known
    <3>3. ASSUME NEW n \in Known
          PROVE  /\ forgotten'[n] \in 0 .. MaxDeliveries
                 /\ forgotten'[n] <= deliveries'
                 /\ forgotten[n] + (IF n \in processed THEN 1 ELSE 0)
                                <= forgotten'[n] + (IF n \in processed' THEN 1 ELSE 0)
                 /\ n = m.id => forgotten[n] + 1 <= forgotten'[n] + (IF n \in processed' THEN 1 ELSE 0)
      BY <3>1, <1>2, <1>5, ChatAssumption
    <3> QED BY <3>0, <3>1, <3>2, <3>3
  <2> QED BY <2>1, <2>2
<1>7. ChatTypeOK' 
  <2> HIDE DEF ask
  <2> QED BY <1>1, <1>2, <1>4, <1>6 DEF ChatTypeOK, Known, AskRec
<1>8. ChatKeeps'
  <2>0. DOMAIN asks \subseteq DOMAIN asks' BY <1>3, <1>4
  <2>1. \A s \in Sessions : \A i \in memory[s] : i \in DOMAIN asks' /\ Session(asks'[i].of) = s
    BY <1>1, <1>3, <1>4, <2>0 DEF ChatKeeps
  <2>2. Len(asks') <= deliveries' BY <1>1, <1>2, <1>3, <1>4 DEF ChatKeeps
  <2> QED BY <1>1, <1>2, <1>6, <2>1, <2>2 DEF ChatKeeps
<1>9. ToldOnce'
  <2>0. DOMAIN asks \subseteq DOMAIN asks' BY <1>3, <1>4
  <2> QED BY <1>1, <1>2, <1>3, <1>4, <2>0 DEF ToldOnce
<1>10. TakenInv'
  <2> SUFFICES ASSUME NEW k \in Message, k.channel \in QQs
               PROVE  Cardinality(TakenOf(k)') <= forgotten'[k.id] + (IF k.id \in processed' THEN 1 ELSE 0)
    BY DEF TakenInv
  <2>1. k.id \in Known BY DEF Known
  <2>2. IsFiniteSet(TakenOf(k)) /\ Cardinality(TakenOf(k)) \in Nat BY <1>1, FiniteTaken
  <2>3. Cardinality(TakenOf(k)) <= forgotten[k.id] + (IF k.id \in processed THEN 1 ELSE 0)
    BY <1>1 DEF TakenInv
  <2>4. CASE k # m
    <3>1. TakenOf(k)' = TakenOf(k) BY <1>3, <1>4, <2>4 DEF TakenOf
    <3> QED BY <3>1, <2>1, <2>2, <2>3, <1>5, <1>6
  <2>5. CASE k = m
    <3>1. TakenOf(k)' = TakenOf(k) \cup {Len(asks) + 1} BY <1>3, <1>4, <2>5 DEF TakenOf
    <3>2. /\ IsFiniteSet(TakenOf(k) \cup {Len(asks) + 1})
          /\ Cardinality(TakenOf(k) \cup {Len(asks) + 1})
             = IF Len(asks) + 1 \in TakenOf(k) THEN Cardinality(TakenOf(k))
               ELSE Cardinality(TakenOf(k)) + 1
      BY <2>2, FS_AddElement
    <3>3. Cardinality(TakenOf(k)') <= Cardinality(TakenOf(k)) + 1
          /\ Cardinality(TakenOf(k)') \in Nat
      BY <3>1, <3>2, <2>2
    <3> QED BY <3>3, <2>1, <2>2, <2>3, <2>5, <1>5, <1>6
  <2> QED BY <2>4, <2>5
<1> QED BY <1>7, <1>8, <1>9, <1>10 DEF ChatInv

\* The agent ends, and the session remembers.
LEMMA ProcessStep == ASSUME ChatInv, NEW i \in DOMAIN asks, Process(i) PROVE ChatInv'
<1>1. ChatTypeOK /\ ChatKeeps /\ ToldOnce /\ TakenInv BY DEF ChatInv
<1>2. /\ asks \in Seq(AskRec) /\ DOMAIN asks = 1 .. Len(asks) /\ Len(asks) \in Nat
      /\ asks[i] \in AskRec /\ asks[i].of \in Message /\ asks[i].at = "taken"
  <2>1. asks \in Seq(AskRec) BY <1>1 DEF ChatTypeOK, AskRec
  <2>2. asks[i] \in AskRec /\ DOMAIN asks = 1 .. Len(asks) /\ Len(asks) \in Nat BY <2>1
  <2>3. asks[i].of \in Message BY <2>2 DEF AskRec
  <2> QED BY <2>1, <2>2, <2>3 DEF Process
<1>3. PICK end \in {"failed", "answered"} : asks' = [asks EXCEPT ![i].at = end] 
  BY DEF Process
<1>4. /\ asks' \in Seq(AskRec) /\ Len(asks') = Len(asks) /\ DOMAIN asks' = DOMAIN asks
      /\ \A j \in DOMAIN asks : asks'[j].of = asks[j].of /\ (j # i => asks'[j].at = asks[j].at)
  BY <1>2, <1>3 DEF AskRec
<1>5. Session(asks[i].of) \in Sessions BY <1>2 DEF Sessions
<1>6. UNCHANGED <<channels, said, tokens, processed, forgotten, deliveries>> BY DEF Process
<1>7. i \in 1 .. MaxDeliveries BY <1>1, <1>2, ChatAssumption DEF ChatKeeps, ChatTypeOK
<1>8. /\ memory' \in [Sessions -> SUBSET (1 .. MaxDeliveries)]
      /\ \A s \in Sessions : memory'[s] = IF s = Session(asks[i].of) THEN memory[s] \cup {i} ELSE memory[s]
  BY <1>1, <1>5, <1>7 DEF Process, ChatTypeOK
<1>9. ChatTypeOK' BY <1>1, <1>4, <1>6, <1>8 DEF ChatTypeOK, AskRec
<1>10. ChatKeeps' BY <1>1, <1>4, <1>6, <1>8 DEF ChatKeeps
<1>11. ToldOnce' BY <1>1, <1>2, <1>4, <1>6 DEF ToldOnce
<1>12. TakenInv' BY <1>1, <1>9, <1>4, <1>6, SameTaken
<1> QED BY <1>9, <1>10, <1>11, <1>12 DEF ChatInv

\* The reply, the only one about what was asked.
LEMMA ReplyStep == ASSUME ChatInv, NEW i \in DOMAIN asks, Reply(i) PROVE ChatInv'
<1>1. ChatTypeOK /\ ChatKeeps /\ ToldOnce /\ TakenInv BY DEF ChatInv
<1>2. /\ asks \in Seq(AskRec) /\ DOMAIN asks = 1 .. Len(asks) /\ Len(asks) \in Nat
      /\ asks[i] \in AskRec /\ asks[i].of \in Message /\ asks[i].at # "done"
  <2>1. asks \in Seq(AskRec) BY <1>1 DEF ChatTypeOK, AskRec
  <2>2. asks[i] \in AskRec /\ DOMAIN asks = 1 .. Len(asks) /\ Len(asks) \in Nat BY <2>1
  <2>3. asks[i].of \in Message BY <2>2 DEF AskRec
  <2> QED BY <2>1, <2>2, <2>3 DEF Reply
<1>3. asks' = [asks EXCEPT ![i].at = "done"] BY DEF Reply
<1>4. /\ asks' \in Seq(AskRec) /\ Len(asks') = Len(asks) /\ DOMAIN asks' = DOMAIN asks
      /\ \A j \in DOMAIN asks : asks'[j].of = asks[j].of /\ (j # i => asks'[j].at = asks[j].at)
      /\ asks'[i].at = "done"
  BY <1>2, <1>3 DEF AskRec
<1>6. UNCHANGED <<channels, memory, tokens, processed, forgotten, deliveries>> BY DEF Reply
<1>7. CASE UNCHANGED said
  <2>1. ChatTypeOK' BY <1>1, <1>4, <1>6, <1>7 DEF ChatTypeOK, AskRec
  <2>2. ChatKeeps' BY <1>1, <1>4, <1>6, <1>7 DEF ChatKeeps
  <2>3. ToldOnce' BY <1>1, <1>2, <1>4, <1>6, <1>7 DEF ToldOnce
  <2>4. TakenInv' BY <1>1, <1>4, <1>6, <2>1, SameTaken
  <2> QED BY <2>1, <2>2, <2>3, <2>4 DEF ChatInv
<1>8. ASSUME ~UNCHANGED said PROVE ChatInv'
  <2>1. Home(asks[i].of) # "nobody" BY <1>8 DEF Reply
  <2>2. Home(asks[i].of) \in {asks[i].of.author, asks[i].of.chat} BY <1>2, <2>1, HomeIsOfMessage
  <2>3. PICK what \in {"error", "answer"} :
          said' = Append(said, [about |-> i, to |-> Home(asks[i].of), what |-> what])
    BY <1>8 DEF Reply
  <2> DEFINE reply == [about |-> i, to |-> Home(asks[i].of), what |-> what]
  <2>4. reply \in SaidRec BY <1>2, <2>2 DEF SaidRec
  <2>5. said \in Seq(SaidRec) /\ said' = Append(said, reply) BY <1>1, <2>3 DEF ChatKeeps
  <2> HIDE DEF reply
  <2>6. /\ said' \in Seq(SaidRec) /\ DOMAIN said' = 1 .. Len(said) + 1 /\ DOMAIN said = 1 .. Len(said)
        /\ Len(said) \in Nat
        /\ \A n \in DOMAIN said : said'[n] = said[n]
        /\ said'[Len(said) + 1] = reply
    BY <2>4, <2>5
  <2>7. reply.about = i /\ reply.to = Home(asks[i].of) /\ reply.what \in {"error", "answer"} BY DEF reply
  <2>8. \A n \in DOMAIN said' : said'[n] \in SaidRec BY <2>6
  <2>9. ChatTypeOK' BY <1>1, <1>4, <1>6, <2>8 DEF ChatTypeOK, AskRec, SaidRec
  <2>10. ChatKeeps' BY <1>1, <1>4, <1>6, <2>6 DEF ChatKeeps
  <2>11. ToldOnce' 
    <3>1. \A n \in DOMAIN said : said[n].about # i /\ said[n].about \in DOMAIN asks BY <1>1, <1>2 DEF ToldOnce
    <3> SUFFICES ASSUME NEW n \in DOMAIN said'
                 PROVE  /\ said'[n].about \in DOMAIN asks
                        /\ asks'[said'[n].about].at = "done"
                        /\ said'[n].to \in {asks[said'[n].about].of.author, asks[said'[n].about].of.chat}
                        /\ \A j \in DOMAIN said' : said'[n].about = said'[j].about => n = j
      BY <1>4, <2>6, <2>7, <3>1 DEF ToldOnce
    <3>2. CASE n \in DOMAIN said
      <4>1. said'[n] = said[n] /\ said[n].about \in DOMAIN asks /\ said[n].about # i
        BY <3>1, <3>2, <2>6
      <4>2. /\ asks[said[n].about].at = "done"
            /\ said[n].to \in {asks[said[n].about].of.author, asks[said[n].about].of.chat}
            /\ \A j \in DOMAIN said : said[n].about = said[j].about => n = j
        BY <3>2, <1>1 DEF ToldOnce
      <4>3. asks'[said[n].about].at = "done" BY <4>1, <4>2, <1>4
      <4>4. ASSUME NEW j \in DOMAIN said', said'[n].about = said'[j].about PROVE n = j
        <5>1. CASE j \in DOMAIN said BY <4>1, <4>2, <4>4, <5>1, <2>6
        <5>2. CASE j = Len(said) + 1 BY <4>1, <4>4, <5>2, <2>6, <2>7
        <5> QED BY <5>1, <5>2, <2>6
      <4> QED BY <4>1, <4>2, <4>3, <4>4
    <3>3. CASE n = Len(said) + 1 BY <3>3, <3>1, <1>4, <2>2, <2>6, <2>7
    <3> QED BY <3>2, <3>3, <2>6
  <2>12. TakenInv' BY <1>1, <1>4, <1>6, <2>9, SameTaken
  <2> QED BY <2>9, <2>10, <2>11, <2>12 DEF ChatInv
<1> QED BY <1>7, <1>8

\* A channel's own steps touch no message.
LEMMA ChannelStep ==
  ASSUME ChatInv, DialFails \/ LoopEnds \/ \E c \in DOMAIN channels : Start(c) \/ Stop(c) \/ Refresh(c)
  PROVE  ChatInv'
<1> USE DEF Become, ChatInv
<1>1. /\ UNCHANGED <<asks, said, memory, processed, forgotten, deliveries>>
      /\ DOMAIN channels' = DOMAIN channels
      /\ \A c \in DOMAIN channels : channels'[c] \in {"off", "on", "deaf", "stopping", "stopped"}
      /\ tokens' \subseteq DOMAIN channels
  BY DEF DialFails, LoopEnds, Start, Stop, Refresh, ChatTypeOK
<1>2. ChatTypeOK' BY <1>1 DEF ChatTypeOK
<1>3. ChatKeeps' /\ ToldOnce' BY <1>1 DEF ChatKeeps, ToldOnce
<1>4. TakenInv' BY <1>1, <1>2, SameTaken
<1> QED BY <1>2, <1>3, <1>4

\* Every step of the channels keeps the invariant.
LEMMA ChatSteps == ASSUME ChatInv, [ChatNext]_cvars PROVE ChatInv'
<1>1. ASSUME NEW m \in Message, Duplicate(m) \/ Drop(m) \/ Tell(m) \/ Clear(m) PROVE ChatInv'
  <2>1. Deliver(m) /\ UNCHANGED asks BY <1>1 DEF Duplicate, Drop, Tell, Clear, Takes
  <2>2. Session(m) \in Sessions BY DEF Sessions
  <2>3. \/ Fresh(m) /\ UNCHANGED memory
        \/ UNCHANGED <<memory, processed, forgotten>>
        \/ /\ \E s \in Sessions : memory' = [memory EXCEPT ![s] = {}]
           /\ UNCHANGED <<processed, forgotten>>
    BY <1>1, <2>2 DEF Duplicate, Drop, Tell, Clear
  <2> QED BY <2>1, <2>3, DeliverStep
<1>2. CASE UNCHANGED cvars
  BY <1>2 DEF cvars, ChatInv, ChatTypeOK, ChatKeeps, ToldOnce, TakenInv, TakenOf
<1> QED BY <1>1, <1>2, AskStep, ProcessStep, ReplyStep, ChannelStep DEF ChatNext, Goroutines

\* It holds before the first message.
LEMMA ChatStarts == ASSUME ChatInit PROVE ChatInv
<1>1. ChatTypeOK BY ChatAssumption DEF ChatInit, ChatTypeOK
<1>2. ChatKeeps BY ChatAssumption DEF ChatInit, ChatKeeps, Known
<1>3. ToldOnce BY DEF ChatInit, ToldOnce
<1>4. TakenInv
  <2>1. \A m \in Message : TakenOf(m) = {} BY DEF ChatInit, TakenOf
  <2>2. \A m \in Message : forgotten[m.id] = 0 /\ m.id \notin processed BY DEF ChatInit
  <2> QED BY <2>1, <2>2, FS_EmptySet DEF TakenInv
<1> QED BY <1>1, <1>2, <1>3, <1>4 DEF ChatInv

\* And it says what is kept.
LEMMA ChatKept == ASSUME ChatInv PROVE ChatsAreKept
<1>1. ChatTypeOK /\ ChatKeeps /\ ToldOnce /\ TakenInv BY DEF ChatInv
<1>2. SessionsAreApart
  <2>1. \A s \in DOMAIN memory : s \in Sessions BY <1>1 DEF ChatTypeOK
  <2>2. \A i \in DOMAIN asks : asks[i].of \in Message
    <3>1. asks \in Seq(AskRec) BY <1>1 DEF ChatTypeOK, AskRec
    <3>2. \A i \in DOMAIN asks : asks[i] \in AskRec BY <3>1
    <3> QED BY <3>2 DEF AskRec
  <2> QED BY <1>1, <2>1, <2>2, SessionNames DEF SessionsAreApart, ChatKeeps
<1>3. RepliesGoHome BY <1>1 DEF ToldOnce, RepliesGoHome
<1>4. TakenOnce
  <2> SUFFICES ASSUME NEW m \in Message, m.channel \in QQs
               PROVE  Cardinality(TakenOf(m)) <= 1 + forgotten[m.id]
    BY DEF TakenOnce, TakenOf
  <2>1. forgotten[m.id] \in Nat BY <1>1, ChatAssumption DEF ChatTypeOK
  <2> QED BY <1>1, <2>1, FiniteTaken DEF TakenInv
<1> QED BY <1>2, <1>3, <1>4 DEF ChatsAreKept

-----------------------------------------------------------------------------
(* Terminal *)

\* What a stream's channel carries, and when the provider may still add to it.
Chunk == {"piece", "done", "error"}
Active == {"asked", "connecting", "reading"}

\* The first n chunks of a queue are pieces, and then come none.
PiecesFirst(queue, n) ==
  /\ n \in 0 .. Len(queue)
  /\ \A k \in DOMAIN queue : queue[k] = "piece" <=> k <= n

\* One reply, from the provider by way of the agent's pump to the screen: each
\* channel holds the pieces sent and not yet taken, and after them at most its marks.
ReplyOK(r) ==
  /\ r \in StreamRequest /\ Len(r.pipe) <= Capacity /\ Len(r.out) <= Capacity
  /\ r.producer \in {"asked", "connecting"} => r.tries <= Retries
  /\ r.producer \in {"asked", "connecting"} => r.sent = 0 /\ r.pipe = << >> /\ r.out = << >>
  /\ PiecesFirst(r.pipe, r.sent - r.got) /\ PiecesFirst(r.out, r.got - r.read)
  /\ r.producer \in Active => Len(r.pipe) = r.sent - r.got /\ r.pump = "reading"
  /\ r.producer \in Active \/ r.sent > r.got => Len(r.out) = r.got - r.read
  /\ r.pump # "reading" => r.sent = r.got
  /\ r.reader = "replied" => r.producer \notin Active /\ r.sent = r.got /\ r.got = r.read
  /\ r.by # "gemini" /\ r.pump = "keeping" => r.whole
  /\ r.by # "gemini" => \A k \in DOMAIN r.pipe : r.pipe[k] = "done" => r.whole

\* What the agent remembers of a reply is all that was sent of it, and it is over.
ContextOK ==
  \A n \in DOMAIN context :
    LET r == requests[context[n].of] IN
    context[n].who = "assistant" =>
      /\ context[n].pieces = r.sent /\ r.producer \notin Active
      /\ r.by # "gemini" => r.whole

\* What the agent remembers.
Said == [who : {"user", "assistant"}, of : DOMAIN requests, pieces : 0 .. MaxPieces]

\* The terminal's invariant.
TerminalInv ==
  /\ active \in Provider /\ streaming \in BOOLEAN
  /\ escapes \in 0 .. MaxEscapes /\ presses \in 0 .. MaxPresses
  /\ requests \in Seq(StreamRequest) /\ \A i \in DOMAIN requests : ReplyOK(requests[i])
  /\ context \in Seq(Said)
  /\ ContextOK /\ OneAtATime

\* A chunk is put into a channel, and taken out of it.
LEMMA LastChunk ==
  ASSUME NEW queue \in Seq(Chunk), NEW chunk \in Chunk
  PROVE  /\ Append(queue, chunk) \in Seq(Chunk)
         /\ Len(Append(queue, chunk)) = Len(queue) + 1
         /\ DOMAIN Append(queue, chunk) = 1 .. Len(queue) + 1 /\ Len(queue) \in Nat
         /\ DOMAIN queue = 1 .. Len(queue)
         /\ \A k \in DOMAIN queue : Append(queue, chunk)[k] = queue[k]
         /\ Append(queue, chunk)[Len(queue) + 1] = chunk
  OBVIOUS

\* A piece after pieces.
LEMMA PieceLast ==
  ASSUME NEW queue \in Seq(Chunk), NEW n, PiecesFirst(queue, n), n = Len(queue)
  PROVE  PiecesFirst(Append(queue, "piece"), n + 1)
BY LastChunk DEF PiecesFirst, Chunk

\* A mark after whatever was there.
LEMMA MarkLast ==
  ASSUME NEW queue \in Seq(Chunk), NEW n, PiecesFirst(queue, n), NEW chunk \in {"done", "error"}
  PROVE  PiecesFirst(Append(queue, chunk), n)
BY LastChunk DEF PiecesFirst, Chunk

\* What is left of a channel.
LEMMA FirstChunk ==
  ASSUME NEW queue \in Seq(Chunk), queue # << >>
  PROVE  /\ Tail(queue) \in Seq(Chunk) /\ Len(Tail(queue)) = Len(queue) - 1
         /\ DOMAIN Tail(queue) = 1 .. Len(queue) - 1 /\ Len(queue) \in Nat \ {0}
         /\ DOMAIN queue = 1 .. Len(queue)
         /\ \A k \in DOMAIN Tail(queue) : Tail(queue)[k] = queue[k + 1] /\ k + 1 \in DOMAIN queue
         /\ Head(queue) \in Chunk /\ Head(queue) = queue[1] /\ 1 \in DOMAIN queue
  OBVIOUS

\* The first chunk is a piece as long as there are pieces.
LEMMA FirstGone ==
  ASSUME NEW queue \in Seq(Chunk), queue # << >>, NEW n, PiecesFirst(queue, n)
  PROVE  /\ Head(queue) = "piece" => n \in Nat \ {0} /\ PiecesFirst(Tail(queue), n - 1)
         /\ Head(queue) # "piece" => n = 0 /\ PiecesFirst(Tail(queue), n)
<1>1. n \in 0 .. Len(queue) /\ \A k \in DOMAIN queue : queue[k] = "piece" <=> k <= n
  BY DEF PiecesFirst
<1>2. CASE Head(queue) = "piece"
  <2>1. n \in Nat \ {0} /\ n - 1 \in 0 .. Len(Tail(queue)) BY <1>1, <1>2, FirstChunk
  <2>2. \A k \in DOMAIN Tail(queue) : Tail(queue)[k] = "piece" <=> k <= n - 1
    BY <1>1, <2>1, FirstChunk
  <2> QED BY <1>2, <2>1, <2>2 DEF PiecesFirst
<1>3. CASE Head(queue) # "piece"
  <2>1. n = 0 BY <1>1, <1>3, FirstChunk
  <2>2. \A k \in DOMAIN Tail(queue) : Tail(queue)[k] = "piece" <=> k <= n
    BY <1>1, <2>1, FirstChunk
  <2> QED BY <1>3, <2>1, <2>2, FirstChunk DEF PiecesFirst
<1> QED BY <1>2, <1>3

\* The fields of a reply
Fields(r) ==
  /\ r.by \in Provider /\ r.tries \in 0 .. Retries + 1 /\ r.sent \in 0 .. MaxPieces
  /\ r.whole \in BOOLEAN
  /\ r.producer \in {"asked", "connecting", "reading", "breaking", "closed", "never"}
  /\ r.pump \in {"reading", "keeping", "closed"} /\ r.got \in 0 .. MaxPieces
  /\ r.reader \in {"reading", "replied", "failed"} /\ r.read \in 0 .. MaxPieces
  /\ r.pipe \in Seq(Chunk) /\ r.out \in Seq(Chunk)

\* A reply's fields have their types.
LEMMA FieldsType ==
  ASSUME NEW r \in StreamRequest
  PROVE  Fields(r)
BY DEF StreamRequest, Fields, Chunk

\* The provider is not there, or the stream connects.
LEMMA ConnectStep ==
  ASSUME NEW r, ReplyOK(r), r.producer = "asked", NEW p \in Provider
  PROVE  /\ ReplyOK([r EXCEPT !.producer = "never", !.pump = "closed", !.out = <<"done">>])
         /\ ReplyOK([r EXCEPT !.producer = "connecting", !.by = p])
<1> DEFINE s == [r EXCEPT !.producer = "never", !.pump = "closed", !.out = <<"done">>]
           t == [r EXCEPT !.producer = "connecting", !.by = p]
<1>1. r \in StreamRequest /\ Fields(r) BY FieldsType DEF ReplyOK
<1>2. s \in StreamRequest /\ t \in StreamRequest
  <2>1. <<"done">> \in Seq({"piece", "done", "error"}) OBVIOUS
  <2>2. s \in StreamRequest BY <1>1, <2>1 DEF StreamRequest
  <2>3. t \in StreamRequest BY <1>1 DEF StreamRequest
  <2> QED BY <2>2, <2>3
<1>3. /\ s.by = r.by /\ s.tries = r.tries /\ s.sent = r.sent /\ s.whole = r.whole
      /\ s.producer = "never" /\ s.pump = "closed" /\ s.got = r.got /\ s.reader = r.reader
      /\ s.read = r.read /\ s.pipe = r.pipe /\ s.out = <<"done">>
  BY <1>1 DEF StreamRequest
<1>4. /\ t.by = p /\ t.tries = r.tries /\ t.sent = r.sent /\ t.whole = r.whole
      /\ t.producer = "connecting" /\ t.pump = r.pump /\ t.got = r.got /\ t.reader = r.reader
      /\ t.read = r.read /\ t.pipe = r.pipe /\ t.out = r.out
  BY <1>1 DEF StreamRequest
<1> HIDE DEF s, t
<1>5. /\ r.sent = 0 /\ r.got = 0 /\ r.read = 0 /\ r.pipe = << >> /\ r.out = << >>
      /\ r.reader # "replied" /\ r.pump = "reading"
  BY <1>1 DEF ReplyOK, PiecesFirst, Active, Fields
<1>6. ReplyOK(s) BY <1>1, <1>2, <1>3, <1>5, TerminalAssumption DEF ReplyOK, PiecesFirst, Active, Fields
<1>7. ReplyOK(t)
  <2>1. t.tries <= Retries BY <1>1, <1>2, <1>4 DEF ReplyOK
  <2> QED BY <1>1, <1>2, <1>4, <1>5, <2>1, TerminalAssumption DEF ReplyOK, PiecesFirst, Active, Fields
<1> QED BY <1>6, <1>7 DEF s, t

\* What is over stays as it is.
Settled(r, s) ==
  r.producer \notin Active =>
    s.producer \notin Active /\ s.by = r.by /\ s.sent = r.sent /\ s.whole = r.whole

\* The connection is made, or tried again.
LEMMA RetryStep ==
  ASSUME NEW r, ReplyOK(r), r.producer = "connecting"
  PROVE  /\ ReplyOK([r EXCEPT !.producer = "reading", !.tries = @ + 1])
         /\ ReplyOK(Refused(r))
         /\ r.tries # Retries => ReplyOK([r EXCEPT !.tries = @ + 1])
<1> DEFINE s == [r EXCEPT !.producer = "reading", !.tries = @ + 1]
           t == Refused(r)
           u == [r EXCEPT !.tries = @ + 1]
<1>1. r \in StreamRequest /\ Fields(r) BY FieldsType DEF ReplyOK
<1>2. /\ r.sent = 0 /\ r.got = 0 /\ r.read = 0 /\ r.pipe = << >> /\ r.out = << >>
      /\ r.reader # "replied" /\ r.pump = "reading" /\ r.tries \in 0 .. Retries
      /\ r.tries + 1 \in 0 .. Retries + 1 /\ r.tries \in Nat
  <2>1. /\ r.sent = 0 /\ r.got = 0 /\ r.read = 0 /\ r.pipe = << >> /\ r.out = << >>
        /\ r.reader # "replied" /\ r.pump = "reading" 
    BY <1>1 DEF ReplyOK, PiecesFirst, Active, Fields
  <2>2. r.tries \in 0 .. Retries + 1 /\ r.tries <= Retries BY <1>1 DEF ReplyOK, Fields
  <2> QED BY <2>1, <2>2, TerminalAssumption
<1>3. s \in StreamRequest /\ t \in StreamRequest /\ (r.tries # Retries => u \in StreamRequest)
  <2>1. <<"error">> \in Seq({"piece", "done", "error"}) OBVIOUS
  <2>2. s \in StreamRequest BY <1>1, <1>2, TerminalAssumption DEF StreamRequest
  <2>3. t \in StreamRequest BY <1>1, <2>1 DEF StreamRequest, Refused
  <2>4. r.tries # Retries => u \in StreamRequest BY <1>1, <1>2, TerminalAssumption DEF StreamRequest
  <2> QED BY <2>2, <2>3, <2>4
<1>4. /\ s.sent = 0 /\ s.producer = "reading" /\ s.pump = r.pump /\ s.got = 0 /\ s.reader = r.reader
      /\ s.read = 0 /\ s.pipe = << >> /\ s.out = << >>
  BY <1>1, <1>2 DEF StreamRequest
<1>5. /\ t.sent = 0 /\ t.producer = "never" /\ t.pump = "closed" /\ t.got = 0 /\ t.reader = r.reader
      /\ t.read = 0 /\ t.pipe = << >> /\ t.out = <<"error">>
  BY <1>1, <1>2 DEF StreamRequest, Refused
<1>6. /\ u.tries = r.tries + 1
      /\ u.sent = 0 /\ u.producer = r.producer /\ u.pump = r.pump /\ u.got = 0 /\ u.reader = r.reader
      /\ u.read = 0 /\ u.pipe = << >> /\ u.out = << >>
  BY <1>1, <1>2 DEF StreamRequest
<1> HIDE DEF s, t, u
<1>7. ReplyOK(s) BY <1>1, <1>2, <1>3, <1>4, TerminalAssumption DEF ReplyOK, PiecesFirst, Active
<1>8. ReplyOK(t) BY <1>1, <1>2, <1>3, <1>5, TerminalAssumption DEF ReplyOK, PiecesFirst, Active
<1>9. r.tries # Retries => ReplyOK(u)
  <2>1. r.tries # Retries => u.tries <= Retries BY <1>2, <1>6, TerminalAssumption
  <2> QED BY <1>1, <1>2, <1>3, <1>6, <2>1, TerminalAssumption DEF ReplyOK, PiecesFirst, Active
<1> QED BY <1>7, <1>8, <1>9 DEF s, t, u

\* The provider sends a piece.
LEMMA PieceStep ==
  ASSUME NEW r, ReplyOK(r), r.producer = "reading", r.sent < MaxPieces, Len(r.pipe) < Capacity
  PROVE  ReplyOK([Fill(r, "piece") EXCEPT !.sent = @ + 1])
<1> DEFINE s == [Fill(r, "piece") EXCEPT !.sent = @ + 1]
<1>1. r \in StreamRequest /\ Fields(r) BY FieldsType DEF ReplyOK
<1>2. /\ Append(r.pipe, "piece") \in Seq({"piece", "done", "error"})
      /\ Len(Append(r.pipe, "piece")) = Len(r.pipe) + 1 /\ Len(r.pipe) \in Nat
  BY <1>1, LastChunk DEF Fields, Chunk
<1>3. s \in StreamRequest
  <2>1. r.sent + 1 \in 0 .. MaxPieces BY <1>1, TerminalAssumption DEF Fields
  <2> QED BY <1>1, <1>2, <2>1 DEF StreamRequest, Fill
<1>4. /\ s.by = r.by /\ s.sent = r.sent + 1 /\ s.producer = "reading" /\ s.pump = r.pump
      /\ s.got = r.got /\ s.reader = r.reader /\ s.whole = r.whole
      /\ s.read = r.read /\ s.pipe = Append(r.pipe, "piece") /\ s.out = r.out
  BY <1>1 DEF StreamRequest, Fill
<1> HIDE DEF s
<1>5. /\ PiecesFirst(r.pipe, r.sent - r.got) /\ Len(r.pipe) = r.sent - r.got /\ r.sent \in Nat /\ r.got \in Nat
      /\ r.pump = "reading" /\ r.reader # "replied"
  BY <1>1 DEF ReplyOK, Active, Fields
<1>6. PiecesFirst(s.pipe, s.sent - s.got)
  <2>1. PiecesFirst(s.pipe, (r.sent - r.got) + 1) BY <1>1, <1>4, <1>5, PieceLast DEF Fields
  <2>2. s.sent - s.got = (r.sent - r.got) + 1 BY <1>4, <1>5
  <2> QED BY <2>1, <2>2
<1>7. Len(s.pipe) = s.sent - s.got /\ Len(s.pipe) <= Capacity BY <1>2, <1>4, <1>5, TerminalAssumption
<1>8. s.by # "gemini" => \A k \in DOMAIN s.pipe : s.pipe[k] = "done" => s.whole
  BY <1>1, <1>4, LastChunk DEF ReplyOK, Fields, Chunk
<1>9. PiecesFirst(s.out, s.got - s.read) /\ Len(s.out) <= Capacity /\ Len(s.out) = s.got - s.read
  BY <1>4 DEF ReplyOK, Active
<1> QED BY <1>3, <1>4, <1>5, <1>6, <1>7, <1>8, <1>9 DEF ReplyOK, Active, s

\* The provider's goroutine ends with a mark, or without, or goes on to a second one.
LEMMA MarkStep ==
  ASSUME NEW r, ReplyOK(r), r.producer \in {"reading", "breaking"}, Len(r.pipe) < Capacity,
         NEW chunk \in {"done", "error"}, NEW end \in {"closed", "breaking"},
         NEW whole \in {r.whole, TRUE}, chunk = "done" /\ r.by # "gemini" => whole
  PROVE  ReplyOK([Fill(r, chunk) EXCEPT !.producer = end, !.whole = whole])
<1> DEFINE s == [Fill(r, chunk) EXCEPT !.producer = end, !.whole = whole]
<1>1. r \in StreamRequest /\ Fields(r) BY FieldsType DEF ReplyOK
<1>2. /\ Append(r.pipe, chunk) \in Seq({"piece", "done", "error"})
      /\ Len(Append(r.pipe, chunk)) = Len(r.pipe) + 1 /\ Len(r.pipe) \in Nat
  BY <1>1, LastChunk DEF Fields, Chunk
<1>3. s \in StreamRequest BY <1>1, <1>2, TerminalAssumption DEF StreamRequest, Fill, Fields
<1>4. /\ s.by = r.by /\ s.sent = r.sent /\ s.producer = end /\ s.pump = r.pump
      /\ s.got = r.got /\ s.reader = r.reader /\ s.whole = whole
      /\ s.read = r.read /\ s.pipe = Append(r.pipe, chunk) /\ s.out = r.out
  BY <1>1 DEF StreamRequest, Fill
<1> HIDE DEF s
<1>5. /\ PiecesFirst(r.pipe, r.sent - r.got) /\ r.sent \in Nat /\ r.got \in Nat
  BY <1>1 DEF ReplyOK, Active, Fields
<1>6. PiecesFirst(s.pipe, s.sent - s.got) BY <1>1, <1>4, <1>5, MarkLast DEF Fields
<1>7. Len(s.pipe) <= Capacity BY <1>2, <1>4, <1>5, TerminalAssumption
<1>8. s.by # "gemini" => \A k \in DOMAIN s.pipe : s.pipe[k] = "done" => s.whole
  <2> SUFFICES ASSUME r.by # "gemini", NEW k \in DOMAIN Append(r.pipe, chunk),
                      Append(r.pipe, chunk)[k] = "done"
               PROVE  whole
    BY <1>4
  <2>1. CASE k \in DOMAIN r.pipe
    <3>1. r.pipe[k] = "done" BY <1>1, <2>1, LastChunk DEF Fields, Chunk
    <3>2. r.whole = TRUE BY <1>1, <2>1, <3>1 DEF ReplyOK, Fields
    <3> QED BY <3>2
  <2>2. CASE k \notin DOMAIN r.pipe
    <3>1. chunk = "done" BY <1>1, <2>2, LastChunk DEF Fields, Chunk
    <3> QED BY <3>1
  <2> QED BY <2>1, <2>2
<1>9. PiecesFirst(s.out, s.got - s.read) /\ Len(s.out) <= Capacity
      /\ (s.sent > s.got => Len(s.out) = s.got - s.read)
  BY <1>4 DEF ReplyOK, Active
<1>10. s.reader = "replied" => s.sent = s.got /\ s.got = s.read BY <1>4 DEF ReplyOK
<1>11. s.pump # "reading" => s.sent = s.got BY <1>4 DEF ReplyOK
<1>12. s.by # "gemini" /\ s.pump = "keeping" => s.whole BY <1>4 DEF ReplyOK
<1> QED BY <1>3, <1>4, <1>6, <1>7, <1>8, <1>9, <1>10, <1>11, <1>12 DEF ReplyOK, Active, s

\* It closes its channel.
LEMMA CloseStep ==
  ASSUME NEW r, ReplyOK(r), r.producer = "reading"
  PROVE  ReplyOK([r EXCEPT !.producer = "closed"])
<1> DEFINE s == [r EXCEPT !.producer = "closed"]
<1>1. r \in StreamRequest /\ Fields(r) BY FieldsType DEF ReplyOK
<1>2. s \in StreamRequest BY <1>1 DEF StreamRequest
<1>3. /\ s.by = r.by /\ s.sent = r.sent /\ s.producer = "closed" /\ s.pump = r.pump
      /\ s.got = r.got /\ s.reader = r.reader /\ s.whole = r.whole
      /\ s.read = r.read /\ s.pipe = r.pipe /\ s.out = r.out
  BY <1>1 DEF StreamRequest
<1> HIDE DEF s
<1> QED BY <1>2, <1>3 DEF ReplyOK, Active, s

\* What the agent's goroutine passes on, and where it is then.
PassedOn(r, to) ==
  [r EXCEPT !.pipe = Tail(@), !.out = Append(@, Head(r.pipe)), !.pump = to]

\* The pump passes on what it gets.
LEMMA PassStep ==
  ASSUME NEW r, ReplyOK(r), r.pump = "reading", r.pipe # << >>, Len(r.out) < Capacity
  PROVE  /\ Head(r.pipe) = "piece" => ReplyOK([PassedOn(r, "reading") EXCEPT !.got = @ + 1])
         /\ Head(r.pipe) = "done" => ReplyOK(PassedOn(r, "keeping"))
         /\ Head(r.pipe) = "error" => ReplyOK(PassedOn(r, "closed"))
<1>1. r \in StreamRequest /\ Fields(r) /\ Head(r.pipe) \in Chunk BY FieldsType, FirstChunk DEF ReplyOK, Fields
<1>2. /\ Tail(r.pipe) \in Seq({"piece", "done", "error"})
      /\ Len(Tail(r.pipe)) = Len(r.pipe) - 1 /\ Len(r.pipe) \in Nat \ {0}
      /\ Append(r.out, Head(r.pipe)) \in Seq({"piece", "done", "error"})
      /\ Len(Append(r.out, Head(r.pipe))) = Len(r.out) + 1 /\ Len(r.out) \in Nat
  BY <1>1, FirstChunk, LastChunk DEF Fields, Chunk
<1>3. /\ PiecesFirst(r.pipe, r.sent - r.got) /\ PiecesFirst(r.out, r.got - r.read)
      /\ r.sent \in Nat /\ r.sent <= MaxPieces /\ r.got \in Nat /\ r.read \in Nat
      /\ Len(r.pipe) <= Capacity /\ Len(r.out) <= Capacity
  BY <1>1, TerminalAssumption DEF ReplyOK, Fields
<1>4. r.by # "gemini" => /\ \A k \in DOMAIN Tail(r.pipe) : Tail(r.pipe)[k] = "done" => r.whole
                         /\ Head(r.pipe) = "done" => r.whole
  <2>1. r.by # "gemini" => \A k \in DOMAIN r.pipe : r.pipe[k] = "done" => r.whole BY DEF ReplyOK
  <2> QED BY <1>1, <2>1, FirstChunk DEF Fields
<1>5. CASE Head(r.pipe) = "piece"
  <2> DEFINE s == [PassedOn(r, "reading") EXCEPT !.got = @ + 1]
  <2>1. /\ r.sent - r.got \in Nat \ {0} /\ PiecesFirst(Tail(r.pipe), (r.sent - r.got) - 1)
    BY <1>1, <1>3, <1>5, FirstGone DEF Fields
  <2>2. r.sent > r.got /\ Len(r.out) = r.got - r.read /\ r.got + 1 \in 0 .. MaxPieces
    BY <1>3, <2>1, TerminalAssumption DEF ReplyOK
  <2>3. PiecesFirst(Append(r.out, "piece"), (r.got - r.read) + 1)
    BY <1>1, <1>3, <2>2, PieceLast DEF Fields
  <2>4. s \in StreamRequest BY <1>1, <1>2, <2>2 DEF StreamRequest, PassedOn
  <2>5. /\ s.by = r.by /\ s.sent = r.sent /\ s.producer = r.producer /\ s.pump = "reading"
        /\ s.got = r.got + 1 /\ s.reader = r.reader /\ s.whole = r.whole /\ s.tries = r.tries
        /\ s.read = r.read /\ s.pipe = Tail(r.pipe) /\ s.out = Append(r.out, "piece")
    BY <1>1, <1>5 DEF StreamRequest, PassedOn
  <2> HIDE DEF s
  <2>6. s.sent - s.got = (r.sent - r.got) - 1 /\ s.got - s.read = (r.got - r.read) + 1
    <3>1. /\ r.sent \in Nat /\ r.got \in Nat /\ r.read \in Nat
          /\ s.sent = r.sent /\ s.got = r.got + 1 /\ s.read = r.read
      BY <1>3, <2>5
    <3> QED BY <3>1
  <2>7. /\ PiecesFirst(s.pipe, s.sent - s.got) /\ PiecesFirst(s.out, s.got - s.read)
        /\ Len(s.out) = s.got - s.read /\ Len(s.out) <= Capacity /\ Len(s.pipe) <= Capacity
    <3>1. Len(s.out) = Len(r.out) + 1 /\ Len(s.pipe) = Len(r.pipe) - 1 BY <1>2, <1>5, <2>5
    <3>2. Len(s.out) = s.got - s.read BY <1>3, <2>2, <2>6, <3>1
    <3>3. Len(s.out) <= Capacity BY <1>2, <3>1, TerminalAssumption
    <3>4. Len(s.pipe) <= Capacity BY <1>2, <1>3, <3>1, TerminalAssumption
    <3> QED BY <2>1, <2>3, <2>5, <2>6, <3>2, <3>3, <3>4
  <2>8. r.reader # "replied" BY <2>2, <1>3 DEF ReplyOK
  <2>9. r.producer \notin {"asked", "connecting"} BY <1>2 DEF ReplyOK
  <2>10. s.producer \in Active => Len(s.pipe) = s.sent - s.got
    <3>1. r.producer \in Active => Len(r.pipe) = r.sent - r.got BY DEF ReplyOK
    <3> QED BY <3>1, <1>2, <2>5, <2>6
  <2>11. ReplyOK(s)
    BY <2>4, <2>5, <2>7, <2>8, <2>9, <2>10, <1>4 DEF ReplyOK
  <2> QED BY <1>5, <2>11 DEF s
<1>6. ASSUME NEW to \in {"keeping", "closed"}, Head(r.pipe) # "piece",
             to = "keeping" => Head(r.pipe) = "done"
      PROVE  ReplyOK(PassedOn(r, to))
  <2> DEFINE s == PassedOn(r, to)  chunk == Head(r.pipe)
  <2>0. chunk \in {"done", "error"} BY <1>1, <1>6 DEF Chunk
  <2>1. r.sent - r.got = 0 /\ PiecesFirst(Tail(r.pipe), r.sent - r.got)
    BY <1>1, <1>3, <1>6, FirstGone DEF Fields
  <2>2. r.sent = r.got /\ r.producer \notin Active
    BY <1>2, <1>3, <2>1 DEF ReplyOK
  <2>3. PiecesFirst(Append(r.out, chunk), r.got - r.read)
    <3> HIDE DEF chunk
    <3> QED BY <1>1, <1>3, <2>0, MarkLast DEF Fields
  <2>4. s \in StreamRequest BY <1>1, <1>2 DEF StreamRequest, PassedOn
  <2>5. /\ s.by = r.by /\ s.sent = r.sent /\ s.producer = r.producer /\ s.pump = to
        /\ s.got = r.got /\ s.reader = r.reader /\ s.whole = r.whole /\ s.tries = r.tries
        /\ s.read = r.read /\ s.pipe = Tail(r.pipe) /\ s.out = Append(r.out, chunk)
    BY <1>1 DEF StreamRequest, PassedOn
  <2>6. Len(s.out) <= Capacity /\ Len(s.pipe) <= Capacity
    BY <1>2, <1>3, <2>5, TerminalAssumption
  <2>7. s.by # "gemini" /\ s.pump = "keeping" => s.whole BY <1>4, <1>6, <2>5
  <2>8. s.reader = "replied" => s.producer \notin Active /\ s.sent = s.got /\ s.got = s.read
    BY <2>5 DEF ReplyOK
  <2> HIDE DEF s, chunk
  <2>9. ReplyOK(s)
    BY <1>3, <1>4, <2>1, <2>2, <2>3, <2>4, <2>5, <2>6, <2>7, <2>8 DEF ReplyOK, Active
  <2> QED BY <2>9 DEF s
<1> QED BY <1>1, <1>5, <1>6 DEF Chunk

\* The pump closes its own channel.
LEMMA StopStep ==
  ASSUME NEW r, ReplyOK(r), NEW to \in {"reading", "closed"},
         \/ r.pump = "reading" /\ r.pipe = << >> /\ r.producer = "closed" /\ to = "closed"
         \/ r.pump = "keeping" /\ to = "reading"
  PROVE  ReplyOK([r EXCEPT !.pump = to])
<1> DEFINE s == [r EXCEPT !.pump = to]
<1>1. r \in StreamRequest /\ Fields(r) BY FieldsType DEF ReplyOK
<1>2. s \in StreamRequest BY <1>1 DEF StreamRequest
<1>3. /\ s.by = r.by /\ s.sent = r.sent /\ s.producer = r.producer /\ s.pump = to
      /\ s.got = r.got /\ s.reader = r.reader /\ s.whole = r.whole /\ s.tries = r.tries
      /\ s.read = r.read /\ s.pipe = r.pipe /\ s.out = r.out
  BY <1>1 DEF StreamRequest
<1>4. r.sent = r.got BY <1>1 DEF ReplyOK, PiecesFirst, Fields
<1>5. r.producer \notin Active BY DEF ReplyOK, Active
<1> HIDE DEF s
<1>6. ReplyOK(s) BY <1>2, <1>3, <1>4, <1>5 DEF ReplyOK, Active
<1> QED BY <1>6 DEF s

\* What the command of the interface makes of what it reads.
ReadOn(r, next) ==
  [r EXCEPT !.out = IF next = "closed" THEN @ ELSE Tail(@),
            !.read = IF next = "piece" THEN @ + 1 ELSE @,
            !.reader = CASE next = "piece" -> "reading"
                         [] next = "error" -> "failed"
                         [] next \in {"done", "closed"} -> "replied"]

\* The screen's reader takes the next chunk.
LEMMA ReadStep ==
  ASSUME NEW r, ReplyOK(r), r.reader = "reading", NEW next,
         next = IF r.out # << >> THEN Head(r.out) ELSE "closed",
         next = "closed" => r.pump = "closed"
  PROVE  ReplyOK(ReadOn(r, next))
<1> DEFINE s == ReadOn(r, next)
<1>1. r \in StreamRequest /\ Fields(r) BY FieldsType DEF ReplyOK
<1>2. r.out # << >> =>
        /\ Tail(r.out) \in Seq({"piece", "done", "error"})
        /\ Len(Tail(r.out)) = Len(r.out) - 1 /\ Len(r.out) \in Nat \ {0} /\ Head(r.out) \in Chunk
  BY <1>1, FirstChunk DEF Fields, Chunk
<1>3. next \in Chunk \cup {"closed"} /\ (next \in Chunk <=> r.out # << >>) BY <1>2 DEF Chunk
<1>4. /\ PiecesFirst(r.pipe, r.sent - r.got) /\ PiecesFirst(r.out, r.got - r.read)
      /\ r.sent \in Nat /\ r.got \in Nat /\ r.got <= MaxPieces /\ r.read \in Nat
      /\ Len(r.pipe) <= Capacity /\ Len(r.out) <= Capacity /\ r.producer \notin {"asked"}
  <2>1. r.producer = "asked" => next = "closed" /\ r.pump = "reading" BY <1>3 DEF ReplyOK, Active
  <2> QED BY <1>1, <2>1, TerminalAssumption DEF ReplyOK, Fields
<1>5. CASE next = "piece"
  <2>1. r.out # << >> /\ Head(r.out) = "piece" BY <1>3, <1>5 DEF Chunk
  <2>2. r.got - r.read \in Nat \ {0} /\ PiecesFirst(Tail(r.out), (r.got - r.read) - 1)
    BY <1>1, <1>4, <2>1, FirstGone DEF Fields
  <2>3. r.read + 1 \in 0 .. MaxPieces
    <3>1. r.got - r.read > 0 BY <1>4, <2>2
    <3>2. r.read + 1 <= r.got BY <1>4, <3>1
    <3> QED BY <1>4, <3>2, TerminalAssumption
  <2>4. s \in StreamRequest BY <1>1, <1>2, <1>5, <2>1, <2>3 DEF StreamRequest, ReadOn
  <2>5. /\ s.by = r.by /\ s.sent = r.sent /\ s.producer = r.producer /\ s.pump = r.pump
        /\ s.got = r.got /\ s.reader = "reading" /\ s.whole = r.whole /\ s.tries = r.tries
        /\ s.read = r.read + 1 /\ s.pipe = r.pipe /\ s.out = Tail(r.out)
    BY <1>1, <1>5 DEF StreamRequest, ReadOn
  <2> HIDE DEF s
  <2>6. s.got - s.read = (r.got - r.read) - 1 BY <1>4, <2>5
  <2>7. PiecesFirst(s.out, s.got - s.read) /\ Len(s.out) <= Capacity
    BY <1>2, <1>4, <2>1, <2>2, <2>5, <2>6, TerminalAssumption
  <2>8. s.producer \in Active \/ s.sent > s.got => Len(s.out) = s.got - s.read
    <3>1. r.producer \in Active \/ r.sent > r.got => Len(r.out) = r.got - r.read BY DEF ReplyOK
    <3> QED BY <1>2, <2>1, <2>5, <2>6, <3>1
  <2>9. s.producer \notin {"asked", "connecting"} BY <2>1, <2>5 DEF ReplyOK
  <2>10. ReplyOK(s) BY <1>4, <2>4, <2>5, <2>7, <2>8, <2>9 DEF ReplyOK
  <2> QED BY <2>10 DEF s
<1>6. CASE next # "piece"
  <2>1. r.got = r.read /\ PiecesFirst(s.out, r.got - r.read) /\ r.producer \notin Active /\ r.sent = r.got
    <3>1. CASE next = "closed"
      <4>1. r.out = << >> /\ r.pump = "closed" BY <1>3, <3>1 DEF Chunk
      <4>2. r.got = r.read BY <1>4, <4>1 DEF PiecesFirst
      <4>3. s.out = r.out BY <1>1, <3>1 DEF ReadOn, StreamRequest
      <4> QED BY <1>4, <4>1, <4>2, <4>3 DEF ReplyOK
    <3>2. CASE next # "closed"
      <4>1. r.out # << >> /\ Head(r.out) # "piece" BY <1>3, <1>6, <3>2
      <4>2. r.got - r.read = 0 /\ PiecesFirst(Tail(r.out), r.got - r.read)
        BY <1>1, <1>4, <4>1, FirstGone DEF Fields
      <4>3. s.out = Tail(r.out) BY <1>1, <3>2 DEF ReadOn, StreamRequest
      <4>4. r.producer \notin Active /\ ~(r.sent > r.got)
        BY <1>2, <4>1, <4>2 DEF ReplyOK
      <4>5. r.sent - r.got \in Nat BY <1>4 DEF PiecesFirst
      <4> QED BY <1>4, <4>2, <4>3, <4>4, <4>5
    <3> QED BY <3>1, <3>2
  <2>2. s \in StreamRequest BY <1>1, <1>2, <1>3, <1>6 DEF StreamRequest, ReadOn, Chunk
  <2>3. /\ s.by = r.by /\ s.sent = r.sent /\ s.producer = r.producer /\ s.pump = r.pump
        /\ s.got = r.got /\ s.whole = r.whole /\ s.tries = r.tries
        /\ s.read = r.read /\ s.pipe = r.pipe
    BY <1>1, <1>6 DEF StreamRequest, ReadOn
  <2>4. Len(s.out) <= Capacity
    <3>1. s.out = r.out \/ (r.out # << >> /\ s.out = Tail(r.out))
      BY <1>1, <1>3, <1>6 DEF StreamRequest, ReadOn
    <3>2. r.out # << >> => Len(Tail(r.out)) <= Capacity BY <1>2, <1>4, TerminalAssumption
    <3> QED BY <1>4, <3>1, <3>2
  <2> HIDE DEF s
  <2>5. ReplyOK(s) BY <1>4, <2>1, <2>2, <2>3, <2>4 DEF ReplyOK, Active
  <2> QED BY <2>5 DEF s
<1> QED BY <1>5, <1>6

\* There are finitely many questions on their way.
LEMMA InFlightIsFinite ==
  ASSUME requests \in Seq(StreamRequest)
  PROVE  IsFiniteSet(InFlight) /\ Cardinality(InFlight) \in Nat
<1>1. IsFiniteSet(1 .. Len(requests)) BY FS_Interval
<1>2. IsFiniteSet(InFlight) BY <1>1, FS_Subset DEF InFlight
<1> QED BY <1>2, FS_CardinalityType

\* One request goes on to what is left of it.
LEMMA GoesOn ==
  ASSUME TerminalInv, NEW i \in DOMAIN requests, NEW s, Becomes(i, s), ReplyOK(s),
         Settled(requests[i], s), UNCHANGED <<active, escapes, presses>>,
         \/ UNCHANGED streaming /\ s.reader = requests[i].reader
         \/ streaming' = FALSE /\ requests[i].reader = "reading" /\ s.reader # "reading",
         \/ UNCHANGED context
         \/ \E kept \in Said :
              /\ context' = Append(context, kept)
              /\ kept.who = "assistant" =>
                   /\ kept.of = i /\ kept.pieces = s.sent /\ s.producer \notin Active
                   /\ s.by # "gemini" => s.whole
  PROVE  TerminalInv'
<1>1. requests \in Seq(StreamRequest) /\ context \in Seq(Said) /\ ContextOK /\ OneAtATime
  BY DEF TerminalInv
<1>2. s \in StreamRequest BY DEF ReplyOK
<1>3. /\ requests' \in Seq(StreamRequest) /\ DOMAIN requests' = DOMAIN requests
      /\ requests'[i] = s /\ \A j \in DOMAIN requests \ {i} : requests'[j] = requests[j]
  BY <1>1, <1>2 DEF Becomes
<1>4. \A j \in DOMAIN requests' : ReplyOK(requests'[j]) BY <1>3 DEF TerminalInv
<1>5. Said' = Said BY <1>3 DEF Said
<1>6. \A j \in DOMAIN requests : Settled(requests[j], requests'[j]) BY <1>3 DEF Settled
<1>7. \A n \in DOMAIN context : context[n].of \in DOMAIN requests
  <2>1. \A n \in DOMAIN context : context[n] \in Said BY <1>1
  <2> QED BY <2>1 DEF Said
<1>8. ASSUME NEW n \in DOMAIN context, context[n].who = "assistant"
      PROVE  LET r == requests'[context[n].of] IN
             /\ context[n].pieces = r.sent /\ r.producer \notin Active
             /\ r.by # "gemini" => r.whole
  <2>1. /\ context[n].pieces = requests[context[n].of].sent
        /\ requests[context[n].of].producer \notin Active
        /\ requests[context[n].of].by # "gemini" => requests[context[n].of].whole
    BY <1>1, <1>8 DEF ContextOK
  <2> QED BY <2>1, <1>6, <1>7 DEF Settled
<1>9. context' \in Seq(Said)' /\ ContextOK'
  <2>1. CASE UNCHANGED context BY <2>1, <1>1, <1>5, <1>8 DEF ContextOK
  <2>2. CASE ~UNCHANGED context
    <3>1. PICK kept \in Said :
              /\ context' = Append(context, kept)
              /\ kept.who = "assistant" =>
                   /\ kept.of = i /\ kept.pieces = s.sent /\ s.producer \notin Active
                   /\ s.by # "gemini" => s.whole
      BY <2>2
    <3>2. /\ context' \in Seq(Said) /\ DOMAIN context' = 1 .. Len(context) + 1
          /\ DOMAIN context = 1 .. Len(context)
          /\ \A n \in DOMAIN context : context'[n] = context[n]
          /\ context'[Len(context) + 1] = kept
      BY <1>1, <3>1
    <3>3. ContextOK'
      <4> SUFFICES ASSUME NEW n \in DOMAIN context', context'[n].who = "assistant"
                   PROVE  LET r == requests'[context'[n].of] IN
                          /\ context'[n].pieces = r.sent /\ r.producer \notin Active
                          /\ r.by # "gemini" => r.whole
        BY DEF ContextOK
      <4>1. CASE n \in DOMAIN context BY <4>1, <1>8, <3>2
      <4>2. CASE n = Len(context) + 1 BY <4>2, <1>3, <3>1, <3>2
      <4> QED BY <4>1, <4>2, <3>2
    <3> QED BY <1>5, <3>2, <3>3
  <2> QED BY <2>1, <2>2
<1>10. OneAtATime'
  <2>1. CASE UNCHANGED streaming /\ s.reader = requests[i].reader
    <3>1. InFlight' = InFlight BY <1>3, <2>1 DEF InFlight
    <3> QED BY <1>1, <2>1, <3>1 DEF OneAtATime
  <2>2. CASE streaming' = FALSE /\ requests[i].reader = "reading" /\ s.reader # "reading"
    <3>1. InFlight' = InFlight \ {i} /\ i \in InFlight BY <1>3, <2>2 DEF InFlight
    <3>2. IsFiniteSet(InFlight) /\ Cardinality(InFlight) \in Nat BY <1>1, InFlightIsFinite
    <3>3. Cardinality(InFlight') = Cardinality(InFlight) - 1 BY <3>1, <3>2, FS_RemoveElement
    <3>4. escapes \in Nat BY TerminalAssumption DEF TerminalInv
    <3> QED BY <1>1, <2>2, <3>2, <3>3, <3>4 DEF OneAtATime
  <2> QED BY <2>1, <2>2
<1>11. streaming' \in BOOLEAN BY DEF TerminalInv
<1> QED BY <1>3, <1>4, <1>9, <1>10, <1>11 DEF TerminalInv

\* The invariant gives the types,
LEMMA TerminalTypes == ASSUME TerminalInv PROVE TerminalTypeOK
<1>1. \A i \in DOMAIN requests : Len(requests[i].pipe) <= Capacity /\ Len(requests[i].out) <= Capacity
  BY DEF TerminalInv, ReplyOK
<1>2. \A n \in DOMAIN context : context[n] \in Said BY DEF TerminalInv
<1> QED BY <1>1, <1>2 DEF TerminalInv, TerminalTypeOK, Said

\* and what the screen shows.
LEMMA TerminalSound == ASSUME TerminalInv PROVE TerminalIsSound
<1>1. context \in Seq(Said) /\ ContextOK /\ OneAtATime BY DEF TerminalInv
<1>2. AnswersAreWhole
  <2> SUFFICES ASSUME NEW n \in DOMAIN context, context[n].who = "assistant"
               PROVE  LET r == requests[context[n].of] IN
                      /\ context[n].pieces = r.sent
                      /\ r.by # "gemini" => r.whole
                      /\ r.reader = "replied" /\ r.whole => r.read = context[n].pieces
    BY DEF AnswersAreWhole
  <2>1. context[n].of \in DOMAIN requests
    <3>1. context[n] \in Said BY <1>1
    <3> QED BY <3>1 DEF Said
  <2>2. ReplyOK(requests[context[n].of]) BY <2>1 DEF TerminalInv
  <2> QED BY <1>1, <2>2 DEF ContextOK, ReplyOK
<1> QED BY <1>1, <1>2 DEF TerminalIsSound

\* A sequence of one type whose elements are of another.
LEMMA SeqOf ==
  ASSUME NEW S, NEW T, NEW q \in Seq(S), \A n \in DOMAIN q : q[n] \in T
  PROVE  q \in Seq(T)
OBVIOUS

\* The keys: a question, Escape, another provider.
LEMMA KeyStep ==
  ASSUME TerminalInv, Enter \/ Escape \/ ClearScreen \/ Switch \/ Again
  PROVE  TerminalInv'
<1>1. /\ requests \in Seq(StreamRequest) /\ context \in Seq(Said) /\ ContextOK /\ OneAtATime
      /\ \A i \in DOMAIN requests : ReplyOK(requests[i])
      /\ active \in Provider /\ streaming \in BOOLEAN
      /\ escapes \in 0 .. MaxEscapes /\ presses \in 0 .. MaxPresses
      /\ escapes \in Nat /\ presses \in Nat
  BY TerminalAssumption DEF TerminalInv
<1>2. CASE Enter
  <2> DEFINE r == [by |-> Default, tries |-> 0, sent |-> 0, whole |-> FALSE, producer |-> "asked",
                   pump |-> "reading", got |-> 0, reader |-> "reading", read |-> 0,
                   pipe |-> <<>>, out |-> <<>>]
  <2>1. r \in StreamRequest BY TerminalAssumption DEF StreamRequest
  <2>2. ReplyOK(r) BY <2>1, TerminalAssumption DEF ReplyOK, PiecesFirst
  <2>3. r.reader = "reading" /\ requests' = Append(requests, r) BY <1>2 DEF Enter
  <2> HIDE DEF r
  <2>4. /\ requests' \in Seq(StreamRequest) /\ DOMAIN requests' = 1 .. Len(requests) + 1
        /\ DOMAIN requests = 1 .. Len(requests) /\ Len(requests) \in Nat
        /\ \A i \in DOMAIN requests : requests'[i] = requests[i]
        /\ requests'[Len(requests) + 1] = r
    BY <1>1, <2>1, <2>3
  <2>5. \A i \in DOMAIN requests' : ReplyOK(requests'[i]) BY <1>1, <2>2, <2>4
  <2>6. \A n \in DOMAIN context : context[n].of \in DOMAIN requests /\ context[n] \in Said'
    <3>1. \A n \in DOMAIN context : context[n] \in Said BY <1>1
    <3> QED BY <3>1, <2>4 DEF Said
  <2>7. context' \in Seq(Said)'
    <3>1. context \in Seq(Said') BY <1>1, <2>6, SeqOf
    <3> QED BY <1>2, <3>1 DEF Enter
  <2>8. ContextOK' BY <1>1, <1>2, <2>4, <2>6 DEF ContextOK, Enter
  <2>9. OneAtATime'
    <3>1. InFlight' = InFlight \cup {Len(requests) + 1} /\ Len(requests) + 1 \notin InFlight
      BY <2>3, <2>4 DEF InFlight
    <3>2. IsFiniteSet(InFlight) /\ Cardinality(InFlight) \in Nat BY <1>1, InFlightIsFinite
    <3>3. Cardinality(InFlight') = Cardinality(InFlight) + 1 BY <3>1, <3>2, FS_AddElement
    <3> QED BY <1>1, <1>2, <3>2, <3>3 DEF OneAtATime, Enter
  <2> QED BY <1>1, <1>2, <2>4, <2>5, <2>7, <2>8, <2>9 DEF TerminalInv, Enter
<1>3. CASE Escape
  <2>1. OneAtATime'
    <3>1. InFlight' = InFlight BY <1>3 DEF InFlight, Escape
    <3>2. Cardinality(InFlight) \in Nat BY <1>1, InFlightIsFinite
    <3> QED BY <1>1, <1>3, <3>1, <3>2 DEF OneAtATime, Escape
  <2>2. escapes' \in 0 .. MaxEscapes BY <1>1, <1>3, TerminalAssumption DEF Escape
  <2>3. Said' = Said /\ ContextOK' BY <1>1, <1>3 DEF Escape, Said, ContextOK
  <2> QED BY <1>1, <1>3, <2>1, <2>2, <2>3 DEF TerminalInv, Escape
<1>4. CASE ClearScreen
  <2>1. OneAtATime' BY <1>1, <1>4 DEF OneAtATime, InFlight, ClearScreen
  <2>2. presses' \in 0 .. MaxPresses BY <1>1, <1>4, TerminalAssumption DEF ClearScreen
  <2>3. context' \in Seq(Said)' /\ ContextOK' BY <1>4 DEF ClearScreen, ContextOK
  <2> QED BY <1>1, <1>4, <2>1, <2>2, <2>3 DEF TerminalInv, ClearScreen
<1>5. CASE Switch
  <2>1. OneAtATime' BY <1>1, <1>5 DEF OneAtATime, InFlight, Switch
  <2>2. presses' \in 0 .. MaxPresses BY <1>1, <1>5, TerminalAssumption DEF Switch
  <2>3. Said' = Said /\ ContextOK' BY <1>1, <1>5 DEF Switch, Said, ContextOK
  <2> QED BY <1>1, <1>5, <2>1, <2>2, <2>3 DEF TerminalInv, Switch
<1>6. CASE Again
  <2>1. InFlight' = {} BY <1>6 DEF InFlight, Again
  <2>2. OneAtATime' BY <1>6, <2>1, FS_EmptySet DEF OneAtATime, Again
  <2>3. context' \in Seq(Said)' /\ ContextOK' BY <1>6 DEF Again, ContextOK
  <2>4. requests' \in Seq(StreamRequest) /\ DOMAIN requests' = {} BY <1>6 DEF Again
  <2>5. escapes' \in 0 .. MaxEscapes /\ presses' \in 0 .. MaxPresses
    BY <1>6, TerminalAssumption DEF Again
  <2>6. active' \in Provider /\ streaming' \in BOOLEAN BY <1>6 DEF Again
  <2> QED BY <2>2, <2>3, <2>4, <2>5, <2>6 DEF TerminalInv
<1> QED BY <1>2, <1>3, <1>4, <1>5, <1>6

\* The goroutines behind a question.
LEMMA GoroutineStep ==
  ASSUME TerminalInv, NEW i \in DOMAIN requests, Goroutine(i) \/ Server(i)
  PROVE  TerminalInv'
<1> DEFINE r == requests[i]
<1>1. ReplyOK(r) /\ r \in StreamRequest /\ Fields(r)
  <2>1. ReplyOK(r) BY DEF TerminalInv
  <2>2. r \in StreamRequest BY <2>1 DEF ReplyOK
  <2> HIDE DEF r
  <2> QED BY <2>1, <2>2, FieldsType
<1>2. CASE StreamMessage(i)
  <2> DEFINE s == [r EXCEPT !.producer = "never", !.pump = "closed", !.out = <<"done">>]
             t == [r EXCEPT !.producer = "connecting", !.by = active]
  <2>0. r.producer = "asked" /\ active \in Provider BY <1>2 DEF StreamMessage, TerminalInv
  <2>1. ReplyOK(s) /\ ReplyOK(t)
    <3> HIDE DEF r
    <3> QED BY <1>1, <2>0, ConnectStep
  <2>2. s.reader = r.reader /\ t.reader = r.reader BY <1>1 DEF StreamRequest
  <2>3. Settled(r, s) /\ Settled(r, t) BY <2>0 DEF Settled, Active
  <2>4. CASE Becomes(i, s) /\ UNCHANGED context
    <3> HIDE DEF s
    <3> QED BY <1>2, <2>1, <2>2, <2>3, <2>4, GoesOn DEF StreamMessage, Keep
  <2>5. CASE Becomes(i, t) /\ context' = Append(context, [who |-> "user", of |-> i, pieces |-> 0])
    <3>1. [who |-> "user", of |-> i, pieces |-> 0] \in Said BY TerminalAssumption DEF Said
    <3>2. \E kept \in Said : /\ context' = Append(context, kept)
                             /\ kept.who = "assistant" =>
                                /\ kept.of = i /\ kept.pieces = t.sent /\ t.producer \notin Active
                                /\ t.by # "gemini" => t.whole
      BY <2>5, <3>1
    <3> HIDE DEF t
    <3> QED BY <1>2, <2>1, <2>2, <2>3, <2>5, <3>2, GoesOn DEF StreamMessage, Keep
  <2> QED BY <1>2, <2>4, <2>5 DEF StreamMessage
<1>3. CASE RetryDo(i)
  <2> DEFINE s == [r EXCEPT !.producer = "reading", !.tries = @ + 1]
             t == Refused(r)
             u == [r EXCEPT !.tries = @ + 1]
  <2>0. r.producer = "connecting" /\ UNCHANGED context BY <1>3 DEF RetryDo
  <2>1. ReplyOK(s) /\ ReplyOK(t) /\ (r.tries # Retries => ReplyOK(u))
    <3> HIDE DEF r
    <3> QED BY <1>1, <2>0, RetryStep
  <2>2. s.reader = r.reader /\ t.reader = r.reader /\ u.reader = r.reader
    BY <1>1 DEF StreamRequest, Refused
  <2>3. Settled(r, s) /\ Settled(r, t) /\ Settled(r, u) BY <2>0 DEF Settled, Active
  <2>4. PICK x \in {s, t, u} : Becomes(i, x) /\ (x = u => ReplyOK(u))
    BY <1>3, <2>1 DEF RetryDo
  <2>5. ReplyOK(x) /\ x.reader = r.reader /\ Settled(r, x)
    <3> HIDE DEF s, t, u
    <3> QED BY <2>1, <2>2, <2>3, <2>4
  <2> QED BY <1>3, <2>0, <2>4, <2>5, GoesOn DEF RetryDo, Keep
<1>4. CASE Pump(i)
  <2> DEFINE s == [PassedOn(r, "reading") EXCEPT !.got = @ + 1]
  <2>0. r.pump = "reading" /\ UNCHANGED context BY <1>4 DEF Pump
  <2>1. CASE r.pipe # << >>
    <3>1. PICK x : /\ Becomes(i, x)
                   /\ \/ Head(r.pipe) = "piece" /\ x = s
                      \/ Head(r.pipe) = "done" /\ x = PassedOn(r, "keeping")
                      \/ Head(r.pipe) = "error" /\ x = PassedOn(r, "closed")
      <4>1. Head(r.pipe) \in Chunk BY <1>1, <2>1, FirstChunk DEF Fields
      <4> QED BY <1>4, <2>1, <4>1 DEF Pump, PassedOn, Chunk
    <3>2. Len(r.out) < Capacity BY <1>4, <2>1 DEF Pump
    <3>3. ReplyOK(x)
      <4> HIDE DEF r
      <4> QED BY <1>1, <2>0, <2>1, <3>1, <3>2, PassStep
    <3>4. x.reader = r.reader /\ Settled(r, x)
      BY <1>1, <3>1 DEF StreamRequest, PassedOn, Settled
    <3> QED BY <1>4, <2>0, <3>1, <3>3, <3>4, GoesOn DEF Pump, Keep
  <2>2. CASE r.pipe = << >>
    <3> DEFINE x == [r EXCEPT !.pump = "closed"]
    <3>1. r.producer = "closed" /\ Becomes(i, x) BY <1>4, <2>2 DEF Pump
    <3>2. ReplyOK(x)
      <4> HIDE DEF r
      <4> QED BY <1>1, <2>0, <2>2, <3>1, StopStep
    <3>3. x.reader = r.reader /\ Settled(r, x) BY <1>1 DEF StreamRequest, Settled
    <3> HIDE DEF x
    <3> QED BY <1>4, <2>0, <3>1, <3>2, <3>3, GoesOn DEF Pump, Keep
  <2> QED BY <2>1, <2>2
<1>5. CASE KeepAnswer(i)
  <2> DEFINE s == [r EXCEPT !.pump = "reading"]
             kept == [who |-> "assistant", of |-> i, pieces |-> r.got]
  <2>1. r.pump = "keeping" /\ Becomes(i, s) /\ context' = Append(context, kept)
    BY <1>5 DEF KeepAnswer
  <2>2. ReplyOK(s)
    <3> HIDE DEF r
    <3> QED BY <1>1, <2>1, StopStep
  <2>3. s.reader = r.reader /\ Settled(r, s) BY <1>1 DEF StreamRequest, Settled
  <2>4. /\ s.sent = r.sent /\ r.got = r.sent /\ s.producer \notin Active
        /\ s.by # "gemini" => s.whole
    BY <1>1, <2>1 DEF StreamRequest, ReplyOK, Active
  <2>5. kept \in Said BY <1>1 DEF Said, Fields
  <2>6. \E m \in Said : /\ context' = Append(context, m)
                        /\ m.who = "assistant" =>
                             /\ m.of = i /\ m.pieces = s.sent /\ s.producer \notin Active
                             /\ s.by # "gemini" => s.whole
    <3>1. kept.of = i /\ kept.pieces = r.got OBVIOUS
    <3> HIDE DEF kept, s
    <3> QED BY <2>1, <2>4, <2>5, <3>1
  <2> HIDE DEF s
  <2> QED BY <1>5, <2>1, <2>2, <2>3, <2>6, GoesOn DEF KeepAnswer, Keep
<1>6. CASE Read(i)
  <2> DEFINE next == IF r.out # << >> THEN Head(r.out) ELSE "closed"
             s == ReadOn(r, next)
  <2>1. r.reader = "reading" /\ (next = "closed" => r.pump = "closed") /\ Becomes(i, s)
        /\ streaming' = (streaming /\ next = "piece") /\ UNCHANGED <<active, context, escapes, presses>>
    BY <1>6 DEF Read, ReadOn
  <2>2. ReplyOK(s)
    <3> HIDE DEF r, next
    <3>1. next = IF r.out # << >> THEN Head(r.out) ELSE "closed" BY DEF next
    <3> QED BY <1>1, <2>1, <3>1, ReadStep DEF s
  <2>3. next \in Chunk \cup {"closed"} BY <1>1, FirstChunk DEF Fields
  <2>4. Settled(r, s) BY <1>1 DEF StreamRequest, Settled, ReadOn
  <2>5. s.reader = (IF next = "piece" THEN "reading" ELSE IF next = "error" THEN "failed" ELSE "replied")
    <3> HIDE DEF r, next
    <3> QED BY <1>1, <2>3 DEF StreamRequest, ReadOn, Chunk
  <2>6. \/ UNCHANGED streaming /\ s.reader = r.reader
        \/ streaming' = FALSE /\ r.reader = "reading" /\ s.reader # "reading"
    <3> streaming \in BOOLEAN BY DEF TerminalInv
    <3> HIDE DEF r, next, s
    <3> QED BY <2>1, <2>5
  <2> HIDE DEF s, next
  <2> QED BY <2>1, <2>2, <2>4, <2>6, GoesOn
<1>7. CASE Server(i)
  <2>1. PICK s : /\ Becomes(i, s) /\ ReplyOK(s) /\ s.reader = r.reader /\ Settled(r, s)
                 /\ Keep /\ UNCHANGED context
    <3>1. CASE Piece(i)
      <4>1. r.producer = "reading" /\ r.sent < MaxPieces /\ Len(r.pipe) < Capacity
            /\ Becomes(i, [Fill(r, "piece") EXCEPT !.sent = @ + 1])
        BY <3>1 DEF Piece
      <4>2. ReplyOK([Fill(r, "piece") EXCEPT !.sent = @ + 1])
        <5> HIDE DEF r
        <5> QED BY <1>1, <4>1, PieceStep
      <4>3. [Fill(r, "piece") EXCEPT !.sent = @ + 1].reader = r.reader BY <1>1 DEF StreamRequest, Fill
      <4> QED BY <3>1, <4>1, <4>2, <4>3 DEF Piece, Settled, Active
    <3>2. ASSUME NEW chunk \in {"done", "error"}, NEW end \in {"closed", "breaking"},
                 NEW whole \in {r.whole, TRUE}, chunk = "done" /\ r.by # "gemini" => whole,
                 r.producer \in {"reading", "breaking"}, Len(r.pipe) < Capacity,
                 r.producer = "breaking" => whole = r.whole
          PROVE  LET s == [Fill(r, chunk) EXCEPT !.producer = end, !.whole = whole] IN
                 ReplyOK(s) /\ s.reader = r.reader /\ Settled(r, s)
      <4>1. ReplyOK([Fill(r, chunk) EXCEPT !.producer = end, !.whole = whole])
        <5> HIDE DEF r
        <5> QED BY <1>1, <3>2, MarkStep
      <4> QED BY <1>1, <3>2, <4>1 DEF StreamRequest, Fill, Settled, Active
    <3>3. \A chunk, end : [Fill(r, chunk) EXCEPT !.producer = end]
                          = [Fill(r, chunk) EXCEPT !.producer = end, !.whole = r.whole]
      BY <1>1 DEF StreamRequest, Fill
    <3>4. CASE EndMark(i)
      <4>1. r.producer = "reading" /\ Len(r.pipe) < Capacity
            /\ Becomes(i, [Fill(r, "done") EXCEPT !.producer = "closed", !.whole = TRUE])
        BY <3>4 DEF EndMark
      <4> HIDE DEF r
      <4> QED BY <3>2, <3>4, <4>1 DEF EndMark
    <3>5. CASE EarlyEnd(i) /\ r.by = "gemini"
      <4>1. r.producer = "reading" /\ Len(r.pipe) < Capacity
            /\ Becomes(i, [Fill(r, "done") EXCEPT !.producer = "closed", !.whole = r.whole])
        BY <3>3, <3>5 DEF EarlyEnd
      <4> HIDE DEF r
      <4> QED BY <3>2, <3>5, <4>1 DEF EarlyEnd
    <3>6. CASE EarlyEnd(i) /\ r.by # "gemini"
      <4> DEFINE s == [r EXCEPT !.producer = "closed"]
      <4>1. r.producer = "reading" /\ Becomes(i, s) BY <3>6 DEF EarlyEnd
      <4>2. ReplyOK(s)
        <5> HIDE DEF r
        <5> QED BY <1>1, <4>1, CloseStep
      <4>3. s.reader = r.reader /\ Settled(r, s) BY <1>1, <4>1 DEF StreamRequest, Settled, Active
      <4> HIDE DEF s
      <4> QED BY <3>6, <4>1, <4>2, <4>3 DEF EarlyEnd
    <3>7. CASE Break(i)
      <4>1. r.producer \in {"reading", "breaking"} /\ Len(r.pipe) < Capacity
            /\ \/ r.by = "gemini" /\ Becomes(i, [Fill(r, "done") EXCEPT !.producer = "breaking", !.whole = r.whole])
               \/ Becomes(i, [Fill(r, "error") EXCEPT !.producer = "closed", !.whole = r.whole])
        BY <3>3, <3>7 DEF Break
      <4> HIDE DEF r
      <4> QED BY <3>2, <3>7, <4>1 DEF Break
    <3> QED BY <1>7, <3>1, <3>4, <3>5, <3>6, <3>7 DEF Server
  <2> QED BY <2>1, GoesOn DEF Keep
<1> QED BY <1>2, <1>3, <1>4, <1>5, <1>6, <1>7 DEF Goroutine

\* Every step of the terminal keeps the invariant.
LEMMA TerminalSteps == ASSUME TerminalInv, [TerminalNext]_tvars PROVE TerminalInv'
<1>1. CASE UNCHANGED tvars
  <2>1. /\ requests' = requests /\ context' = context /\ active' = active
        /\ streaming' = streaming /\ escapes' = escapes /\ presses' = presses
    BY <1>1 DEF tvars
  <2>2. Said' = Said /\ InFlight' = InFlight BY <2>1 DEF Said, InFlight
  <2>3. ContextOK' BY <2>1 DEF TerminalInv, ContextOK
  <2>4. OneAtATime' BY <2>1, <2>2 DEF TerminalInv, OneAtATime
  <2>5. \A i \in DOMAIN requests' : ReplyOK(requests'[i]) BY <2>1 DEF TerminalInv
  <2> QED BY <2>1, <2>2, <2>3, <2>4, <2>5 DEF TerminalInv
<1> QED BY <1>1, KeyStep, GoroutineStep DEF TerminalNext

\* It holds before the first key.
LEMMA TerminalStarts == ASSUME TerminalInit PROVE TerminalInv
<1>1. InFlight = {} BY DEF InFlight, TerminalInit
<1>2. OneAtATime BY <1>1, FS_EmptySet DEF OneAtATime, TerminalInit
<1>3. escapes \in 0 .. MaxEscapes /\ presses \in 0 .. MaxPresses
  BY TerminalAssumption DEF TerminalInit
<1>6. active \in Provider /\ streaming \in BOOLEAN
  BY TerminalAssumption DEF TerminalInit
<1>4. requests \in Seq(StreamRequest) /\ DOMAIN requests = {} BY DEF TerminalInit
<1>5. context \in Seq(Said) /\ ContextOK BY DEF TerminalInit, ContextOK
<1> QED BY <1>2, <1>3, <1>4, <1>5, <1>6 DEF TerminalInv

-----------------------------------------------------------------------------
(* The behaviours *)

\* The invariant of everything together: each component keeps its own.
AllInv == HumanInv /\ WebInv /\ ChatInv /\ TerminalInv

LEMMA AllStarts == ASSUME AllInit PROVE AllInv
BY HumanStarts, WebStarts, ChatStarts, TerminalStarts DEF AllInit, AllInv

\* A step of one component leaves the others as they are.
LEMMA AllSteps == ASSUME AllInv, [AllNext]_allvars PROVE AllInv'
<1>1. [Next]_vars /\ [WebNext]_wvars /\ [ChatNext]_cvars /\ [TerminalNext]_tvars
  <2>1. ASSUME NEW t \in Subject, OthersRest(t)
        PROVE  /\ t # "human" => UNCHANGED vars
               /\ t # "web" => UNCHANGED wvars
               /\ t # "chat" => UNCHANGED cvars
               /\ t # "terminal" => UNCHANGED tvars
    BY <2>1 DEF OthersRest, Still, Subject
  <2>2. CASE AllNext
    BY <2>1, <2>2 DEF AllNext, Subject
  <2>3. CASE UNCHANGED allvars
    BY <2>3 DEF allvars
  <2>. QED
    BY <2>2, <2>3
<1>. QED
  BY <1>1, HumanSteps, WebSteps, ChatSteps, TerminalSteps DEF AllInv

\* The invariant holds of every state of every behaviour of people who talk to the
\* program (ask_human.go, server.go, internal/channel/, tui.go).
THEOREM AllInductive == AllSpec => []AllInv
  BY AllStarts, AllSteps, PTL DEF AllSpec

\* Every variable of the four components keeps its type: a phase, a chunk and a place
\* in a channel are those the code has (server.go:216-288, agent.go:381-483).
THEOREM AllTypesHold == AllSpec => []AllTypeOK
<1>1. AllInv => AllTypeOK
  BY TerminalTypes DEF AllInv, HumanInv, WebInv, ChatInv, AllTypeOK
<1>. QED
  BY <1>1, AllInductive, PTL

\* The list shows only requests whose call has not returned
\* (ask_human.go:126-146, 167-180).
THEOREM ListedStayAsked == AllSpec => []ListedAreAsked
<1>1. AllInv => ListedAreAsked
  BY DEF AllInv, HumanInv
<1>. QED
  BY <1>1, AllInductive, PTL

\* An answer a user is told was sent is there for the asker as long as it waits,
\* whoever else answers the same request (ask_human.go:203-223).
THEOREM SentStaysThere == AllSpec => []SentIsThere
<1>1. AllInv => SentIsThere
  BY DEF AllInv, HumanInv
<1>. QED
  BY <1>1, AllInductive, PTL

\* Every client of the web server gets of its questions a notice and one whole reply, or
\* how it begins, however writes, pings and hang-ups meet (server.go:216-288); and what
\* the terminal remembers of a streamed reply is all that was sent of it, and no more
\* questions are on their way than Escape made room for (agent.go:457-483,
\* tui.go:218-287, 485-507).
THEOREM ScreensStayRight == AllSpec => []ScreensAreRight
<1>1. AllInv => ScreensAreRight
  BY WebReplies, TerminalSound DEF AllInv, ScreensAreRight
<1>. QED
  BY <1>1, AllInductive, PTL

\* Sessions of different people and chats stay apart unless a client of the WebSocket
\* server names another's, a reply goes home once even then, and QQ takes a message again
\* only when it forgot it (telegram.go:90-142, websocket/server.go:137-158,
\* qq.go:172-193).
THEOREM ChatsStayKept == AllSpec => []ChatsAreKept
<1>1. AllInv => ChatsAreKept
  BY ChatKept DEF AllInv
<1>. QED
  BY <1>1, AllInductive, PTL
=============================================================================
