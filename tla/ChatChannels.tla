---------------------------- MODULE ChatChannels ----------------------------
(***************************************************************************)
(* The chat channels (internal/channel, contrib/channels): each takes the  *)
(* messages of its platform, drops some, obeys some, and asks the agent of *)
(* the session about the others, each in a goroutine of its own that then  *)
(* replies.  A platform may deliver a message again; only QQ looks.  What  *)
(* the agent does is Conversations, what a response to a pending question  *)
(* does is HumanInTheLoop.                                                 *)
(***************************************************************************)
EXTENDS Integers, Sequences, FiniteSets

CONSTANTS
  Message,         \* [id, channel, author, chat, kind, names]: names holds the session that
                   \* a client of the WebSocket server names in it, if it does
  Setups,          \* the sets of channels an installation may have
  MaxDeliveries,   \* bounds the deliveries
  Cap, Forget      \* QQ remembers Cap messages, and beyond that forgets Forget

ASSUME ChatAssumption == /\ MaxDeliveries \in Nat /\ Cap \in Nat
                         /\ Forget \in Nat /\ Forget <= Cap

VARIABLES
  channels,    \* the channels of this installation, and how each stands
  asks,        \* the messages taken to the agent, and how far each is
  said,        \* history: the replies the platforms were sent
  memory,      \* the asks whose exchange the context of a session holds
  tokens,      \* the channels whose access token is empty
  processed,   \* QQ's processedIDs
  forgotten,   \* history: how often QQ forgot each message
  deliveries

cvars == <<channels, asks, said, memory, tokens, processed, forgotten, deliveries>>

\* What a channel does with a message of each kind it may be sent, the parts of a
\* message its session is named after, where the reply goes, and whether the 120
\* nanoseconds it gives the agent, for two minutes, let the agent answer.
Telegram ==
  [takes |-> [text |-> "ask", empty |-> "drop", reset |-> "clear", command |-> "tell",
              respond |-> "tell"],
   session |-> {"chat"}, home |-> "chat", hasty |-> FALSE]

Discord ==
  [takes |-> [text |-> "ask", own |-> "drop", empty |-> "drop", aside |-> "drop",
              reset |-> "clear", command |-> "tell", respond |-> "tell"],
   session |-> {"author", "chat"}, home |-> "chat", hasty |-> FALSE]

Slack ==
  [takes |-> [text |-> "ask", empty |-> "ask", own |-> "drop", aside |-> "drop"],
   session |-> {"author", "chat"}, home |-> "chat", hasty |-> FALSE]

WhatsApp ==
  [takes |-> [text |-> "ask", empty |-> "drop", own |-> "drop"],
   session |-> {"author"}, home |-> "chat", hasty |-> FALSE]

\* The author is a connection: its address names the session of a message that does not,
\* and it is replied to.
WebSocket ==
  [takes |-> [text |-> "ask", empty |-> "ask", aside |-> "drop"],
   session |-> {"author"}, home |-> "author", hasty |-> FALSE]

\* An error is not reported, and the reply is addressed to the session's name.
OneBot ==
  [takes |-> [text |-> "ask", empty |-> "drop", aside |-> "drop"],
   session |-> {"author"}, home |-> "nobody", hasty |-> TRUE]

WeCom ==
  [takes |-> [text |-> "ask", empty |-> "ask", aside |-> "drop"],
   session |-> {"author"}, home |-> "author", hasty |-> TRUE]

DingTalk ==
  [takes |-> [text |-> "ask", empty |-> "drop", aside |-> "drop"],
   session |-> {"chat"}, home |-> "author", hasty |-> TRUE]

QQ ==
  [takes |-> [text |-> "ask", empty |-> "drop", aside |-> "drop"],
   session |-> {"author"}, home |-> "author", hasty |-> TRUE]

\* The messages of a group share a session; the reply is a private message.
QQGroup == [QQ EXCEPT !.session = {"chat"}]

\* The reply is only logged.
Feishu ==
  [takes |-> [text |-> "ask", empty |-> "ask", aside |-> "drop"],
   session |-> {"author"}, home |-> "nobody", hasty |-> FALSE]

Channel ==
  [telegram |-> Telegram, discord |-> Discord, slack |-> Slack, whatsapp |-> WhatsApp,
   websocket |-> WebSocket, onebot |-> OneBot, wecom |-> WeCom, dingtalk |-> DingTalk,
   qq |-> QQ, qq_group |-> QQGroup, feishu |-> Feishu]

ASSUME MessageAssumption ==
  \A m \in Message : /\ m.channel \in DOMAIN Channel
                     /\ m.names # {} => m.channel = "websocket"

Of(m) == Channel[m.channel]
QQs == {"qq", "qq_group"}

\* Every channel puts its own name before it (tg_, discord_, ...).
SessionName(m) == [f \in Of(m).session \cup {"channel"} |-> m[f]]

\* Mutant: the name of the channel is left out of the name of the session.
SessionOfPeople(m) == [f \in Of(m).session |-> m[f]]

\* What a client of the WebSocket server names is taken as it is.
Session(m) == IF m.names = {} THEN SessionName(m) ELSE CHOOSE s \in m.names : TRUE
Sessions == {Session(m) : m \in Message} \cup {SessionOfPeople(m) : m \in Message}

Home(m) == IF Of(m).home = "nobody" THEN "nobody" ELSE m[Of(m).home]

ChatTypeOK ==
  /\ DOMAIN channels \in Setups
  /\ \A c \in DOMAIN channels : channels[c] \in {"off", "on", "deaf", "stopping", "stopped"}
  /\ asks \in Seq([of : Message, at : {"taken", "answered", "failed", "done"}])
  /\ memory \in [Sessions -> SUBSET (1 .. MaxDeliveries)]
  /\ \A i \in DOMAIN said : said[i].what \in {"answer", "error"}
  /\ tokens \subseteq DOMAIN channels /\ processed \in SUBSET {m.id : m \in Message}
  /\ forgotten \in [{m.id : m \in Message} -> 0 .. MaxDeliveries]
  /\ deliveries \in 0 .. MaxDeliveries

ChatInit ==
  /\ \E s \in Setups : channels = [c \in s |-> "off"]
  /\ asks = <<>> /\ said = <<>> /\ memory = [s \in Sessions |-> {}] /\ tokens = {}
  /\ processed = {} /\ forgotten = [i \in {m.id : m \in Message} |-> 0] /\ deliveries = 0

Become(c, from, to) == /\ c \in DOMAIN channels /\ channels[c] \in from
                       /\ channels' = [channels EXCEPT ![c] = to]
                       /\ UNCHANGED <<asks, said, memory, processed, forgotten, deliveries>>

-----------------------------------------------------------------------------
\* OneBot's Start returns before it has dialled, and what it then meets is only
\* printed; it is deaf from then on, and so it is when its connection breaks.
Start(c) == Become(c, {"off"}, "on") /\ UNCHANGED tokens
DialFails == Become("onebot", {"off", "on"}, "deaf") /\ UNCHANGED tokens

\* Slack and the webhooks are not stopped by Stop; Telegram's loop ends later.
Unstopped == {"slack", "wecom", "dingtalk", "feishu"}
Stop(c) == /\ c \notin Unstopped
           /\ Become(c, {"on", "deaf"}, IF c = "telegram" THEN "stopping" ELSE "stopped")
           /\ UNCHANGED tokens

\* The loop sees stopCh, or first the closed updates, and stopCh where it would
\* wait to reconnect.
LoopEnds == Become("telegram", {"stopping"}, "stopped") /\ UNCHANGED tokens

\* A reply without a token empties DingTalk's; WeCom looks at the error code.
Refresh(c) == /\ c \in {"dingtalk", "wecom"} /\ Become(c, {"on"}, "on")
              /\ tokens' \in {tokens \ {c}} \cup (IF c = "dingtalk" THEN {tokens \cup {c}} ELSE {})

-----------------------------------------------------------------------------
\* isDuplicate: what it forgets may be what it has just learnt.
Processed(m) ==
  LET known == processed \cup {m.id}
      gone == IF Cardinality(known) > Cap
              THEN {old \in SUBSET known : Cardinality(old) = Forget} ELSE {{}}
  IN  \E old \in gone :
        /\ processed' = known \ old
        /\ forgotten' = [i \in DOMAIN forgotten |-> forgotten[i] + IF i \in old THEN 1 ELSE 0]

Deliver(m) == /\ m.channel \in DOMAIN channels /\ channels[m.channel] = "on"
              /\ deliveries < MaxDeliveries /\ deliveries' = deliveries + 1
              /\ UNCHANGED <<channels, said, tokens>>

Fresh(m) == IF m.channel \in QQs THEN m.id \notin processed /\ Processed(m)
            ELSE UNCHANGED <<processed, forgotten>>

Takes(m, what) == Deliver(m) /\ m.kind \in DOMAIN Of(m).takes /\ Of(m).takes[m.kind] = what

AskAgent(m) == /\ Takes(m, "ask") /\ Fresh(m)
               /\ asks' = Append(asks, [of |-> m, at |-> "taken"]) /\ UNCHANGED memory

Duplicate(m) == /\ Deliver(m) /\ m.channel \in QQs /\ m.id \in processed
                /\ UNCHANGED <<asks, memory, processed, forgotten>>

\* Dropped, or a command that only tells something.
Drop(m) == Takes(m, "drop") /\ Fresh(m) /\ UNCHANGED <<asks, memory>>
Tell(m) == Takes(m, "tell") /\ UNCHANGED <<asks, memory, processed, forgotten>>

\* /reset, while the goroutines of other messages go on.
Clear(m) == /\ Takes(m, "clear") /\ memory' = [memory EXCEPT ![Session(m)] = {}]
            /\ UNCHANGED <<asks, processed, forgotten>>

\* ProcessRequest, within the time the channel gives it.
Process(i) ==
  LET m == asks[i].of
  IN  /\ asks[i].at = "taken"
      /\ \E end \in {"failed"} \cup (IF Of(m).hasty THEN {} ELSE {"answered"}) :
           asks' = [asks EXCEPT ![i].at = end]
      /\ memory' = [memory EXCEPT ![Session(m)] = @ \cup {i}]
      /\ UNCHANGED <<channels, said, tokens, processed, forgotten, deliveries>>

\* Whether a reply can leave: an empty token, and a closed connection, lose it.
Reachable(c) == /\ c \notin tokens
                /\ c \in {"whatsapp", "websocket", "onebot"} => channels[c] = "on"

\* The error is told, or the answer; a platform that refuses it is not asked again.
Reply(i) ==
  LET m == asks[i].of
      what == IF asks[i].at = "failed" THEN "error" ELSE "answer"
  IN  /\ asks[i].at \in {"answered", "failed"}
      /\ asks' = [asks EXCEPT ![i].at = "done"]
      /\ \/ UNCHANGED said
         \/ /\ Reachable(m.channel) /\ Home(m) # "nobody"
            /\ said' = Append(said, [about |-> i, to |-> Home(m), what |-> what])
      /\ UNCHANGED <<channels, memory, tokens, processed, forgotten, deliveries>>

Goroutines == LoopEnds \/ \E i \in DOMAIN asks : Process(i) \/ Reply(i)

ChatNext ==
  \/ \E c \in DOMAIN channels : Start(c) \/ Stop(c) \/ Refresh(c)
  \/ DialFails
  \/ \E m \in Message : AskAgent(m) \/ Duplicate(m) \/ Drop(m) \/ Tell(m) \/ Clear(m)
  \/ Goroutines

-----------------------------------------------------------------------------
\* Two messages one session remembers came by one channel, from one person or in one
\* chat, but for those of a client of the WebSocket server that named the session, which
\* may be that of any channel (telegram.go:90, discord.go:86, websocket/server.go:144).
SessionsAreApart ==
  \A s \in DOMAIN memory : \A i, j \in memory[s] :
    LET a == asks[i].of  b == asks[j].of
    IN  a.names = {} /\ b.names = {} =>
          a.channel = b.channel /\ (a.author = b.author \/ a.chat = b.chat)

\* A message is replied to at most once for each time it is taken, and where it came
\* from, to the chat, or to the author alone, whoever shares its session
\* (telegram.go:108-142).
RepliesGoHome ==
  /\ \A i \in DOMAIN said :
       said[i].to \in {asks[said[i].about].of.author, asks[said[i].about].of.chat}
  /\ \A i, j \in DOMAIN said : said[i].about = said[j].about => i = j

\* However often QQ delivers a message, it is taken once, and once more for each
\* time it was forgotten (qq.go:172-193).
TakenOnce ==
  \A m \in Message : m.channel \in QQs =>
    Cardinality({i \in DOMAIN asks : asks[i].of = m}) <= 1 + forgotten[m.id]

ChatsAreKept == SessionsAreApart /\ RepliesGoHome /\ TakenOnce

\* Somebody waits for a channel: what is taken and neither answered nor refused, or a
\* Telegram channel told to stop (telegram.go:68-148).
ChatWaits == \/ \E i \in DOMAIN asks : asks[i].at # "done"
             \/ \E c \in DOMAIN channels : channels[c] = "stopping"
=============================================================================
