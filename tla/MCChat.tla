------------------------------- MODULE MCChat -------------------------------
(***************************************************************************)
(* HumanInTheLoop, and beside it the ways in which people talk to the      *)
(* program: the web server, the chat channels and the terminal.  They      *)
(* share nothing that is modelled here, so a behaviour is one of the       *)
(* component chosen at its start, and the others stay as they began.       *)
(***************************************************************************)
EXTENDS HumanInTheLoop, WebServer, ChatChannels, Terminal

VARIABLE subject   \* the component whose behaviour this is

Subject == {"human", "web", "chat", "terminal"}

allvars == <<vars, wvars, cvars, tvars, subject>>

\* Everyone at work alone, but for those that name sessions by the same part of a message,
\* and the WebSocket server, whose clients name those of others.
MCSetups == {{"telegram", "dingtalk"}, {"discord"}, {"slack"}, {"whatsapp"}, {"onebot"},
             {"websocket", "telegram"}, {"websocket", "wecom"}, {"qq", "qq_group"}, {"feishu"}}

\* Two people in a room and in private, commands, and what is to be dropped.
Sent(c, i, a, h, k) ==
  [id |-> i, channel |-> c, author |-> a, chat |-> h, kind |-> k, names |-> {}]
Naming(i, a, s) == [Sent("websocket", i, a, a, "text") EXCEPT !.names = {s}]
MCMessage ==
  UNION {{Sent(c, "m1", "ann", "room", "text"), Sent(c, "m2", "bob", "ann", "text")} :
           c \in DOMAIN Channel}
  \cup {Sent(c, "m3", "ann", "room", "reset") : c \in {"telegram", "discord"}}
  \cup {Sent(c, "m4", "ann", "ann", k) : c \in {"discord", "qq"}, k \in {"aside", "own"}}
  \cup {Sent("telegram", "m5", "ann", "ann", "command"),
        Naming("m6", "ann", [channel |-> "telegram", chat |-> "room"]),
        Naming("m7", "bob", [channel |-> "wecom", author |-> "ann"]),
        Naming("m8", "bob", [channel |-> "websocket", author |-> "ann"])}

Still(t) == CASE t = "human" -> UNCHANGED vars
              [] t = "web" -> UNCHANGED wvars
              [] t = "chat" -> UNCHANGED cvars
              [] t = "terminal" -> UNCHANGED tvars

\* The others of t rest, and so its steps are those of this behaviour.
OthersRest(t) == /\ subject = t /\ UNCHANGED subject
                 /\ \A u \in Subject \ {t} : Still(u)

AllTypeOK == TypeOK /\ WebTypeOK /\ ChatTypeOK /\ TerminalTypeOK

AllInit == /\ subject \in Subject
           /\ Init /\ WebInit /\ TerminalInit
           /\ ChatInit /\ (subject # "chat" => DOMAIN channels = {"slack"})

AllNext == \/ OthersRest("human") /\ Next
           \/ OthersRest("web") /\ WebNext
           \/ OthersRest("chat") /\ ChatNext
           \/ OthersRest("terminal") /\ TerminalNext

\* Goroutines run, requests time out, and a lock is given to who waits for it.  At
\* rest a component has nothing of the kind to do.
AllFairness ==
  /\ Fairness /\ WF_wvars(Serving) /\ WF_cvars(Goroutines)
  /\ \A i \in 1 .. MaxAsks : /\ WF_tvars(i \in DOMAIN requests /\ Goroutine(i))
                            /\ WF_tvars(i \in DOMAIN requests /\ Server(i))

AllSpec == AllInit /\ [][AllNext]_allvars /\ AllFairness

\* What a client of the web server sees is whole (RepliesAreWhole), and so is what the
\* terminal shows (TerminalIsSound).
ScreensAreRight == RepliesAreWhole /\ TerminalIsSound

\* Nobody who asked waits for ever, whether for a human, the web server, a channel or the
\* terminal.  A behaviour asks boundedly often, so that once all goes on, all gets quiet.
\* The waits that the code does not end are reachable here and are not counted: those for
\* a web client that stopped reading, which all others share (web/server.go:172), and those
\* of a program that has panicked (ask_human.go:212).
SomeoneWaits == HumanWaits \/ WebWaits \/ ChatWaits \/ TerminalWaits

ChatGoesOn == SomeoneWaits ~> ~SomeoneWaits
=============================================================================
