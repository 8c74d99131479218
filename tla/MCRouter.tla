------------------------------ MODULE MCRouter ------------------------------
(***************************************************************************)
(* An instance of Router with two providers, the second with two models,   *)
(* and beside it the components that store, look up and rank.  They share  *)
(* nothing that is modelled here, so a behaviour is one of the component   *)
(* chosen at its start, and the others stay as they began.                 *)
(***************************************************************************)
EXTENDS Router, ProviderMessages, Conversations, WorldModel, GoalSynthesis,
        GoalWeights, ToolGaps, Records, TLC

VARIABLE subject   \* the component whose behaviour this is

Subject == {"router", "messages", "conversations", "world", "synthesis", "weights",
            "gaps", "tools", "migrations"}

allvars == <<vars, dvars, cvars, kvars, yvars, zvars, gvars, xvars, mvars, subject>>

MCTarget == [n \in Name |-> n]
MCModels == [n \in Name |-> IF n = "b" THEN 2 ELSE 1]
CallerSymmetry == Permutations(Caller) \cup Permutations(Session)

\* Titles are alike when they are the same; a model may repeat itself, or propose what is
\* faulty.
MCAlike == {<<t, t>> : t \in Title}
MCProposals == {<<"b", "a">>, <<"faulty", "a", "a">>}

\* Two phrases for one gap, and messages that tell of one gap, of two, or of none.
MCKeyOf == [p \in Phrase |-> IF p = "pdf" THEN "pdf" ELSE "gui"]
MCFeasible(g) == IF g = "gui" THEN 3 ELSE 8
Tells(p, t) == [phrase |-> p, type |-> t]
MCText == {<<>>, <<Tells("pdf", "hard")>>, <<Tells("gui", "soft")>>,
           <<Tells("pdf", "efficiency"), Tells("a gui", "hard")>>,
           <<Tells("gui", "hard"), Tells("a gui", "soft")>>}

Still(t) == CASE t = "router" -> UNCHANGED vars
              [] t = "messages" -> UNCHANGED dvars
              [] t = "conversations" -> UNCHANGED cvars
              [] t = "world" -> UNCHANGED kvars
              [] t = "synthesis" -> UNCHANGED yvars
              [] t = "weights" -> UNCHANGED zvars
              [] t = "gaps" -> UNCHANGED gvars
              [] t = "tools" -> UNCHANGED xvars
              [] t = "migrations" -> UNCHANGED mvars

AllTypeOK ==
  /\ TypeOK /\ MessagesTypeOK /\ ConversationsTypeOK /\ WorldTypeOK /\ SynthesisTypeOK
  /\ WeightsTypeOK /\ GapsTypeOK /\ ToolsTypeOK /\ MigrationsTypeOK

AllInit ==
  /\ subject \in Subject
  /\ Init /\ (subject # "router" => activeName = "a")
  /\ MessagesInit /\ (subject # "messages" => speaker = "openai")
  /\ MigrationsInit /\ (subject # "migrations" => born = "fresh")
  /\ WorldInit /\ (subject # "world" => entities = <<>>)
  /\ ConversationsInit /\ SynthesisInit /\ WeightsInit /\ GapsInit /\ ToolsInit

AllNext ==
  /\ \/ subject = "router" /\ Next
     \/ subject = "messages" /\ MessagesNext
     \/ subject = "conversations" /\ ConversationsNext
     \/ subject = "world" /\ WorldNext
     \/ subject = "synthesis" /\ SynthesisNext
     \/ subject = "weights" /\ WeightsNext
     \/ subject = "gaps" /\ GapsNext
     \/ subject = "tools" /\ ToolsNext
     \/ subject = "migrations" /\ MigrationsNext
  /\ \A t \in Subject \ {subject} : Still(t)
  /\ UNCHANGED subject

AllSpec == AllInit /\ [][AllNext]_allvars

\* What the program learns by itself stays sound: its knowledge graph (PathsAreShortest,
\* RowsAreFew, DecayIsFair), the goals it sets itself (TwinsAreExplained) and the weights
\* it ranks them by (WeightsStaySound).
LearningIsSound == /\ PathsAreShortest /\ RowsAreFew /\ DecayIsFair
                   /\ TwinsAreExplained /\ WeightsStaySound
=============================================================================
