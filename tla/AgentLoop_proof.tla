-------------------------- MODULE AgentLoop_proof --------------------------
(***************************************************************************)
(* Proofs about AgentLoop: for every number of calls, iterations and tools,*)
(* every budget and every size of output.                                  *)
(***************************************************************************)
EXTENDS AgentLoop, FiniteSetTheorems, SequenceTheorems, WellFoundedInduction,
        TLAPS

Exchange == Call \X (0 .. MaxIterations)

Where == {"idle", "loop", "asking", "tools", "results", "summarizing", "streaming",
          "done"}
Ways == {"none", "refused", "reply", "error", "iterations", "lost"}
GoState == {"running", "stored", "ended"}

\* The goroutines of a call, and what they have left in results.
Goroutines(g, o) == \E n \in 0 .. MaxTools :
                      g \in [1 .. n -> GoState] /\ o \in [1 .. n -> Sizes \cup {0, 1}]

Control ==
  /\ pc \in [Call -> Where] /\ iter \in [Call -> 0 .. MaxIterations]
  /\ pos \in [Call -> 0 .. MaxTools] /\ outcome \in [Call -> Ways]
  /\ crashes \in 0 .. MaxCrashes
  /\ DOMAIN gor = Call /\ DOMAIN out = Call
  /\ \A h \in Call : Goroutines(gor[h], out[h])

Memory ==
  /\ messages \in Seq(Message) /\ rows \in Seq(Message)
  /\ unsaved \in SUBSET Message
  /\ prompt \in [Call -> Seq(Message)]

\* What each call holds where it is.
Place(h) ==
  /\ pc[h] \in {"idle", "streaming"} => iter[h] = 0
  /\ pc[h] \in {"asking", "tools", "results", "summarizing"} => iter[h] < MaxIterations
  /\ pc[h] = "tools" => pos[h] = 0
  /\ pc[h] \in {"tools", "results"} => pos[h] <= Len(out[h]) /\ Len(out[h]) > 0
  /\ pc[h] = "results" => Joined(h)
  /\ \A t \in DOMAIN gor[h] : gor[h][t] # "running" => out[h][t] > 0
  /\ outcome[h] = "lost" => pc[h] = "done"

Places == \A h \in Call : Place(h)

\* The call of a message has come far enough to have added it.
Reached(m, at, it, ps) ==
  m.role # "summary" =>
    /\ m.call \in Call
    /\ at[m.call] # "idle"
    /\ m.iter <= it[m.call]
    /\ m.role = "assistant" => at[m.call] = "done"
    /\ m.iter = it[m.call] /\ m.role \in {"calls", "tool"} =>
         /\ at[m.call] \in {"tools", "results", "summarizing", "done"}
         /\ m.role = "tool" => at[m.call] # "tools"
         /\ m.role = "tool" /\ at[m.call] = "results" => m.idx <= ps[m.call]

Past(m) == Reached(m, pc, iter, pos)
Then(m) == Reached(m, pc', iter', pos')

Pasts == /\ \A p \in DOMAIN messages : Past(messages[p])
         /\ \A p \in DOMAIN rows : Past(rows[p])
         /\ \A p \in DOMAIN rows : rows[p].role # "summary"
         /\ \A p \in DOMAIN rows : rows[p] \notin unsaved
         /\ \A m \in unsaved : Past(m)
         /\ \A m \in unsaved : m.role # "summary"

\* Result t of the exchange of m stands t after it, for the first n.
Answers(s, p, n) ==
  \A t \in 1 .. n :
    /\ p + t <= Len(s) /\ s[p + t].role = "tool"
    /\ s[p + t].call = s[p].call /\ s[p + t].iter = s[p].iter
    /\ s[p + t].idx = t

\* Every tool call in s has its results, or its exchange is one of E.
Settled(s, E) ==
  \A p \in DOMAIN s : s[p].role = "calls" =>
    Answers(s, p, s[p].idx) \/ <<s[p].call, s[p].iter>> \in E

\* Or it is the exchange x, with n calls, of whose results c have come, the last
\* of them last in s.
SettledBut(s, E, x, n, c) ==
  \A p \in DOMAIN s : s[p].role = "calls" =>
    \/ Answers(s, p, s[p].idx)
    \/ <<s[p].call, s[p].iter>> \in E
    \/ /\ <<s[p].call, s[p].iter>> = x /\ s[p].idx = n
       /\ Len(s) = p + c /\ Answers(s, p, c)

\* Every result in s follows its neighbour, or stands where s was cut, or its
\* neighbour is in U.
Follows(s, U) ==
  \A p \in DOMAIN s : s[p].role = "tool" =>
    \/ p > 1 /\ Precedes(s[p - 1], s[p])
    \/ p = 1
    \/ p = 2 /\ s[1].role = "summary"
    \/ \E m \in U : Precedes(m, s[p])

\* The exchanges a crash cut short, or of which a message was not saved.
Excused == {x \in Exchange : \/ outcome[x[1]] = "lost" /\ x[2] = iter[x[1]]
                             \/ \E r \in unsaved : r.call = x[1] /\ r.iter = x[2]}

\* The last message of the exchange a call is at, c results in.
Newest(m, h, i, c) == /\ m.call = h /\ m.iter = i
                      /\ IF c = 0 THEN m.role = "calls"
                         ELSE m.role = "tool" /\ m.idx = c

\* What a call that is about to ask has to tell.
News(m, h, i) == m.call = h /\ IF i = 0 THEN m.role = "user"
                               ELSE m.role = "tool" /\ m.iter = i - 1

\* The calls whose exchange is open.
Exchanging == {h \in Call : pc[h] \in {"tools", "results"}}

\* Every exchange in s is settled, but for the open ones.
WholeIn(s, X, E, it, o, ps) ==
  /\ \A h \in X : SettledBut(s, E, <<h, it[h]>>, Len(o[h]), ps[h])
  /\ X = {} => Settled(s, E)

Whole(s) == WholeIn(s, Exchanging, Excused, iter, out, pos)
WholeThen(s) == WholeIn(s, Exchanging', Excused', iter', out', pos')

Single == \A g, h \in Active : g = h

\* Where a call is says what memory, and its prompt, end with.
Tells(h) ==
  /\ h \in Exchanging =>
       /\ messages # << >> /\ Newest(Last(messages), h, iter[h], pos[h])
       /\ \/ rows # << >> /\ Newest(Last(rows), h, iter[h], pos[h])
          \/ \E m \in unsaved : Newest(m, h, iter[h], pos[h])
  /\ pc[h] = "loop" => messages # << >> /\ News(Last(messages), h, iter[h])
  /\ pc[h] = "summarizing" => messages # << >> /\ News(Last(messages), h, iter[h] + 1)
  /\ pc[h] \in {"asking", "streaming"} =>
       prompt[h] # << >> /\ News(Last(prompt[h]), h, iter[h])

Order == /\ Single
         /\ Whole(messages) /\ Whole(rows)
         /\ Follows(messages, unsaved) /\ Follows(rows, unsaved)
         /\ \A h \in Call : Tells(h)
         /\ \A h \in Call : Settled(prompt[h], Excused)

-----------------------------------------------------------------------------
\* Sequences of messages.

\* Of a set of numbers, one is the least.
LEMMA LeastNumber ==
  ASSUME NEW T \in SUBSET Nat, T # {}
  PROVE  \E n \in T : \A m \in T : n <= m
<1>. DEFINE less == {p \in Nat \X Nat : p[1] < p[2]}
<1>1. IsWellFoundedOn(less, Nat)
  BY NatLessThanWellFounded DEF OpToRel
<1>2. PICK n \in T : \A m \in T : ~(<<m, n>> \in less)
  <2>. HIDE DEF less
  <2>. QED
    BY <1>1, WFMin
<1>3. \A m \in T : ~(m < n)
  BY <1>2
<1>4. \A m \in T : n <= m
  BY <1>3
<1>. QED
  BY <1>4

\* u is what is left of s without its first k messages.
IsEnd(u, s, k) == /\ u \in Seq(Message) /\ k \in 0 .. Len(s)
                  /\ Len(u) = Len(s) - k
                  /\ \A p \in 1 .. Len(u) : u[p] = s[p + k]

LEMMA DropIsEnd ==
  ASSUME NEW s \in Seq(Message), NEW k \in 0 .. Len(s)
  PROVE  IsEnd(Drop(s, k), s, k)
<1>1. Len(s) \in Nat /\ k \in Nat /\ \A p \in 1 .. Len(s) : s[p] \in Message
  OBVIOUS
<1>2. \A p \in k + 1 .. Len(s) : s[p] \in Message
  BY <1>1
<1>3. /\ Drop(s, k) \in Seq(Message) /\ Len(Drop(s, k)) = Len(s) - k
      /\ \A p \in 1 .. Len(s) - k : Drop(s, k)[p] = s[p + k]
  <2>1. SubSeq(s, k + 1, Len(s)) \in Seq(Message)
    BY <1>1, <1>2
  <2>2. Len(SubSeq(s, k + 1, Len(s))) = Len(s) - k
    BY <1>1
  <2>3. \A p \in 1 .. Len(s) - k : SubSeq(s, k + 1, Len(s))[p] = s[p + k]
    BY <1>1
  <2>. QED
    BY <2>1, <2>2, <2>3 DEF Drop
<1>. QED
  BY <1>3 DEF IsEnd

\* Truncation cuts from the front, stops where the rest fits, and leaves the
\* last two messages.
LEMMA TruncatedIsEnd ==
  ASSUME NEW s \in Seq(Message)
  PROVE  /\ Tokens(Truncated(s)) <= Budget \/ Len(Truncated(s)) <= 2
         /\ \E k \in 0 .. Len(s) :
              IsEnd(Truncated(s), s, k) /\ (k > 0 => Len(s) - k >= 2)
<1>. DEFINE F(k) == Tokens(Drop(s, k)) <= Budget \/ Len(s) - k <= 2
            K == {k \in 0 .. Len(s) : F(k)}
            P(k) == F(k) /\ \A j \in 0 .. k - 1 : ~ F(j)
            c == CHOOSE k \in 0 .. Len(s) : P(k)
<1>1. Len(s) \in Nat
  OBVIOUS
<1>2. Truncated(s) = Drop(s, c)
  BY DEF Truncated
<1>3. F(Len(s)) /\ Len(s) \in K /\ K \in SUBSET Nat
  BY <1>1
<1>4. PICK n \in K : \A m \in K : n <= m
  <2>. HIDE DEF K
  <2>. QED
    BY <1>3, LeastNumber
<1>5. n \in 0 .. Len(s) /\ F(n)
  BY <1>4
<1>6. \A j \in 0 .. n - 1 : ~ F(j)
  <2>. SUFFICES ASSUME NEW j \in 0 .. n - 1, F(j) PROVE FALSE
    OBVIOUS
  <2>. HIDE DEF F
  <2>1. j \in K
    BY <1>1, <1>5
  <2>. QED
    BY <1>1, <1>4, <1>5, <2>1
<1>7. c \in 0 .. Len(s) /\ P(c)
  <2>1. \E k \in 0 .. Len(s) : P(k)
    <3>. HIDE DEF F
    <3>. QED
      BY <1>5, <1>6
  <2>. HIDE DEF P
  <2>. QED
    BY <2>1
<1>8. IsEnd(Truncated(s), s, c)
  BY <1>2, <1>7, DropIsEnd
<1>9. Tokens(Truncated(s)) <= Budget \/ Len(Truncated(s)) <= 2
  BY <1>2, <1>7, <1>8 DEF IsEnd
<1>10. c > 0 => Len(s) - c >= 2
  <2>. SUFFICES ASSUME c > 0 PROVE Len(s) - c >= 2
    OBVIOUS
  <2>1. c - 1 \in 0 .. c - 1 /\ c \in Nat
    BY <1>1, <1>7
  <2>2. ~ F(c - 1)
    BY <1>7, <2>1
  <2>3. ~ (Len(s) - (c - 1) <= 2)
    BY <2>2
  <2>. HIDE DEF c
  <2>. QED
    BY <1>1, <2>1, <2>3
<1>. QED
  <2>. HIDE DEF c
  <2>. QED
    BY <1>7, <1>8, <1>9, <1>10

LEMMA AppendHas ==
  ASSUME NEW s \in Seq(Message), NEW m \in Message
  PROVE  /\ Append(s, m) \in Seq(Message) /\ Len(Append(s, m)) = Len(s) + 1
         /\ \A p \in 1 .. Len(s) : Append(s, m)[p] = s[p]
         /\ Append(s, m)[Len(s) + 1] = m
  OBVIOUS

\* What Add leaves in memory ends with the message.
LEMMA TruncatedEndsSame ==
  ASSUME NEW s \in Seq(Message), s # << >>
  PROVE  Truncated(s) # << >> /\ Last(Truncated(s)) = Last(s)
<1>1. PICK k \in 0 .. Len(s) : IsEnd(Truncated(s), s, k) /\ (k > 0 => Len(s) - k >= 2)
  BY TruncatedIsEnd
<1>2. Len(s) \in Nat /\ Len(s) > 0 /\ k \in Nat
  BY <1>1
<1>3. Len(Truncated(s)) = Len(s) - k /\ Len(s) - k > 0
  BY <1>1, <1>2 DEF IsEnd
<1>4. Truncated(s)[Len(s) - k] = s[Len(s)]
  BY <1>1, <1>2, <1>3 DEF IsEnd
<1>5. Truncated(s) # << >>
  BY <1>2, <1>3
<1>. QED
  BY <1>3, <1>4, <1>5 DEF Last

\* A summary, and the last two messages after it.
LEMMA SummarizedHas ==
  ASSUME NEW s \in Seq(Message), NEW z \in Sizes, Len(s) >= 4
  PROVE  /\ Summarized(s, z) \in Seq(Message) /\ Len(Summarized(s, z)) = 3
         /\ Summarized(s, z)[1] = Msg("summary", 0, 0, 0, z)
         /\ Summarized(s, z)[2] = s[Len(s) - 1]
         /\ Summarized(s, z)[3] = s[Len(s)]
<1>. DEFINE m == Msg("summary", 0, 0, 0, z)
            l == Len(s)
            u == Drop(s, l - 2)
<1>1. l \in Nat /\ l >= 4 /\ l - 2 \in 0 .. l
  OBVIOUS
<1>2. IsEnd(u, s, l - 2)
  BY <1>1, DropIsEnd
<1>3. u \in Seq(Message) /\ Len(u) = 2 /\ u[1] = s[l - 1] /\ u[2] = s[l]
  <2>. HIDE DEF u
  <2>. QED
    BY <1>1, <1>2 DEF IsEnd
<1>4. m \in Message
  BY BoundAssumption DEF Msg, Message
<1>5. Summarized(s, z) = <<m>> \o u
  BY <1>1 DEF Summarized, WithSummary
<1>. HIDE DEF m, u, l
<1>6. /\ <<m>> \o u \in Seq(Message) /\ Len(<<m>> \o u) = 3
      /\ (<<m>> \o u)[1] = m /\ (<<m>> \o u)[2] = u[1] /\ (<<m>> \o u)[3] = u[2]
  <2>1. <<m>> \in Seq(Message) /\ Len(<<m>>) = 1 /\ <<m>>[1] = m
    BY <1>4
  <2>. DEFINE w == <<m>>
  <2>2. w \in Seq(Message) /\ Len(w) = 1 /\ w[1] = m
    BY <2>1
  <2>. HIDE DEF w
  <2>3. /\ w \o u \in Seq(Message) /\ Len(w \o u) = Len(w) + Len(u)
        /\ \A i \in 1 .. Len(w) + Len(u) :
             (w \o u)[i] = IF i <= Len(w) THEN w[i] ELSE u[i - Len(w)]
    BY <1>3, <2>2, ConcatProperties
  <2>4. Len(w) = 1 /\ Len(u) = 2 /\ w[1] = m
    BY <1>3, <2>2
  <2>5. (w \o u)[1] = m /\ (w \o u)[2] = u[1] /\ (w \o u)[3] = u[2]
    BY <2>3, <2>4
  <2>. QED
    BY <2>3, <2>4, <2>5 DEF w
<1>. QED
  BY <1>3, <1>5, <1>6 DEF l, m
-----------------------------------------------------------------------------
\* What cutting, adding and summarizing keep of the order of messages.

LEMMA FollowsCut ==
  ASSUME NEW s \in Seq(Message), NEW u, NEW k, IsEnd(u, s, k), NEW U, Follows(s, U)
  PROVE  Follows(u, U)
<1>1. Len(s) \in Nat /\ k \in Nat /\ Len(u) = Len(s) - k /\ u \in Seq(Message)
      /\ DOMAIN u = 1 .. Len(u) /\ DOMAIN s = 1 .. Len(s)
  BY DEF IsEnd
<1>2. ASSUME NEW p \in DOMAIN u, u[p].role = "tool"
      PROVE  \/ p > 1 /\ Precedes(u[p - 1], u[p])
             \/ p = 1
             \/ p = 2 /\ u[1].role = "summary"
             \/ \E m \in U : Precedes(m, u[p])
  <2>1. PICK q \in DOMAIN s : q = p + k
    BY <1>1
  <2>2. p \in Nat /\ q \in Nat /\ u[p] = s[q] /\ p > 0
    BY <1>1, <1>2, <2>1 DEF IsEnd
  <2>3. \/ q > 1 /\ Precedes(s[q - 1], s[q])
        \/ q = 1
        \/ q = 2 /\ s[1].role = "summary"
        \/ \E m \in U : Precedes(m, s[q])
    BY <1>2, <2>1, <2>2 DEF Follows
  <2>4. CASE p = 1
    BY <2>4
  <2>5. CASE p # 1
    <3>1. p - 1 \in 1 .. Len(u) /\ (p - 1) + k = q - 1 /\ p > 1 /\ q # 1
      BY <1>1, <2>1, <2>2, <2>5
    <3>2. u[p - 1] = s[q - 1]
      BY <3>1 DEF IsEnd
    <3>3. q = 2 => p = 2 /\ k = 0
      BY <1>1, <2>1, <2>2, <2>5
    <3>4. q = 2 => u[1] = s[1]
      BY <3>1, <3>2, <3>3
    <3>. QED
      BY <2>2, <2>3, <3>1, <3>2, <3>3, <3>4
  <2>. QED
    BY <2>4, <2>5
<1>. QED
  BY <1>2 DEF Follows

LEMMA FollowsAdded ==
  ASSUME NEW s \in Seq(Message), NEW m \in Message, NEW U, Follows(s, U),
         m.role = "tool" => \/ s # << >> /\ Precedes(Last(s), m)
                            \/ \E x \in U : Precedes(x, m)
  PROVE  Follows(Append(s, m), U)
<1>. DEFINE u == Append(s, m)
<1>1. /\ u \in Seq(Message) /\ Len(u) = Len(s) + 1
      /\ \A p \in 1 .. Len(s) : u[p] = s[p]
      /\ u[Len(s) + 1] = m
  BY AppendHas
<1>. HIDE DEF u
<1>2. Len(s) \in Nat /\ DOMAIN u = 1 .. Len(u) /\ DOMAIN s = 1 .. Len(s)
  BY <1>1
<1>3. ASSUME NEW p \in DOMAIN u, u[p].role = "tool"
      PROVE  \/ p > 1 /\ Precedes(u[p - 1], u[p])
             \/ p = 1
             \/ p = 2 /\ u[1].role = "summary"
             \/ \E x \in U : Precedes(x, u[p])
  <2>1. CASE p \in 1 .. Len(s)
    <3>1. u[p] = s[p] /\ (p > 1 => u[p - 1] = s[p - 1]) /\ (p = 2 => u[1] = s[1])
      BY <1>1, <1>2, <2>1
    <3>. QED
      BY <1>2, <1>3, <2>1, <3>1 DEF Follows
  <2>2. CASE p = Len(s) + 1
    <3>1. u[p] = m /\ m.role = "tool"
      BY <1>1, <1>3, <2>2
    <3>2. s # << >> => p > 1 /\ u[p - 1] = Last(s)
      BY <1>1, <1>2, <2>2 DEF Last
    <3>. QED
      BY <3>1, <3>2
  <2>. QED
    BY <1>1, <1>2, <2>1, <2>2
<1>4. Follows(u, U)
  BY <1>3 DEF Follows
<1>. QED
  BY <1>4 DEF u

LEMMA FollowsSummary ==
  ASSUME NEW s \in Seq(Message), NEW z \in Sizes, Len(s) >= 4, NEW U, Follows(s, U)
  PROVE  Follows(Summarized(s, z), U)
<1>. DEFINE u == Summarized(s, z)
<1>1. /\ u \in Seq(Message) /\ Len(u) = 3
      /\ u[1] = Msg("summary", 0, 0, 0, z)
      /\ u[2] = s[Len(s) - 1] /\ u[3] = s[Len(s)]
  BY SummarizedHas
<1>. HIDE DEF u
<1>2. u[1].role = "summary" /\ DOMAIN u = 1 .. 3
  BY <1>1 DEF Msg
<1>3. u[3].role = "tool" =>
        \/ Precedes(u[2], u[3])
        \/ \E m \in U : Precedes(m, u[3])
  <2>1. Len(s) \in Nat /\ Len(s) \in DOMAIN s /\ Len(s) # 1 /\ Len(s) # 2
    OBVIOUS
  <2>. QED
    BY <1>1, <2>1 DEF Follows
<1>4. Follows(u, U)
  BY <1>2, <1>3 DEF Follows
<1>. QED
  BY <1>4 DEF u

LEMMA FollowsMore ==
  ASSUME NEW s, NEW U, NEW V, U \subseteq V, Follows(s, U)
  PROVE  Follows(s, V)
  BY DEF Follows

LEMMA AnswersCut ==
  ASSUME NEW s \in Seq(Message), NEW u, NEW k, IsEnd(u, s, k), NEW p \in DOMAIN u,
         NEW n \in Nat, Answers(s, p + k, n)
  PROVE  Answers(u, p, n)
<1>1. Len(s) \in Nat /\ k \in Nat /\ Len(u) = Len(s) - k /\ u \in Seq(Message)
      /\ DOMAIN u = 1 .. Len(u) /\ p \in Nat /\ p > 0
  BY DEF IsEnd
<1>2. u[p] = s[p + k]
  BY <1>1 DEF IsEnd
<1>3. ASSUME NEW t \in 1 .. n
      PROVE  p + t <= Len(u) /\ u[p + t] = s[p + k + t]
  <2>1. p + k + t <= Len(s) /\ t \in Nat
    BY <1>3 DEF Answers
  <2>2. p + t \in 1 .. Len(u) /\ (p + t) + k = p + k + t
    BY <1>1, <2>1
  <2>. QED
    BY <1>1, <2>2 DEF IsEnd
<1>. QED
  BY <1>2, <1>3 DEF Answers

LEMMA AnswersAdded ==
  ASSUME NEW s \in Seq(Message), NEW m \in Message, NEW p \in DOMAIN s,
         NEW n \in Nat, Answers(s, p, n)
  PROVE  Answers(Append(s, m), p, n) /\ Append(s, m)[p] = s[p]
<1>. DEFINE u == Append(s, m)
<1>1. /\ u \in Seq(Message) /\ Len(u) = Len(s) + 1 /\ \A q \in 1 .. Len(s) : u[q] = s[q]
  BY AppendHas
<1>2. Len(s) \in Nat /\ p \in 1 .. Len(s)
  OBVIOUS
<1>. HIDE DEF u
<1>3. u[p] = s[p]
  BY <1>1, <1>2
<1>4. ASSUME NEW t \in 1 .. n
      PROVE  p + t <= Len(u) /\ u[p + t] = s[p + t]
  <2>1. p + t <= Len(s) /\ t \in Nat /\ t > 0
    BY <1>4 DEF Answers
  <2>. QED
    BY <1>1, <1>2, <2>1
<1>5. Answers(u, p, n)
  BY <1>3, <1>4 DEF Answers
<1>. QED
  BY <1>3, <1>5 DEF u

LEMMA MessageShape ==
  ASSUME NEW s \in Seq(Message), NEW p \in DOMAIN s
  PROVE  s[p] \in Message /\ s[p].idx \in Nat /\ s[p].size \in Nat
         /\ s[p].call \in 0 .. MaxCalls /\ s[p].iter \in 0 .. MaxIterations
<1>1. s[p] \in Message
  OBVIOUS
<1>2. MaxTools \in Nat
  BY BoundAssumption
<1>. QED
  BY <1>1, <1>2 DEF Message

LEMMA SettledCut ==
  ASSUME NEW s \in Seq(Message), NEW u, NEW k, IsEnd(u, s, k), NEW E, Settled(s, E)
  PROVE  Settled(u, E)
<1>1. Len(s) \in Nat /\ k \in Nat /\ Len(u) = Len(s) - k /\ u \in Seq(Message)
      /\ DOMAIN u = 1 .. Len(u) /\ DOMAIN s = 1 .. Len(s)
  BY DEF IsEnd
<1>2. ASSUME NEW p \in DOMAIN u, u[p].role = "calls"
      PROVE  Answers(u, p, u[p].idx) \/ <<u[p].call, u[p].iter>> \in E
  <2>1. p + k \in DOMAIN s /\ u[p] = s[p + k]
    BY <1>1 DEF IsEnd
  <2>2. s[p + k].idx \in Nat
    BY <2>1, MessageShape
  <2>. QED
    BY <1>2, <2>1, <2>2, AnswersCut DEF Settled
<1>. QED
  BY <1>2 DEF Settled

LEMMA SettledAdded ==
  ASSUME NEW s \in Seq(Message), NEW m \in Message, m.role # "calls",
         NEW E, Settled(s, E)
  PROVE  Settled(Append(s, m), E)
<1>. DEFINE u == Append(s, m)
<1>1. /\ u \in Seq(Message) /\ Len(u) = Len(s) + 1 /\ DOMAIN u = 1 .. Len(u)
      /\ u[Len(s) + 1] = m /\ Len(s) \in Nat
  BY AppendHas
<1>2. ASSUME NEW p \in DOMAIN s
      PROVE  /\ u[p] = s[p]
             /\ \A n \in Nat : Answers(s, p, n) => Answers(u, p, n)
  <2>1. u[p] = s[p]
    OBVIOUS
  <2>. HIDE DEF u
  <2>2. ASSUME NEW n \in Nat, Answers(s, p, n)
        PROVE  Answers(u, p, n)
    BY <2>2, AnswersAdded DEF u
  <2>. QED
    BY <2>1, <2>2
<1>. HIDE DEF u
<1>3. ASSUME NEW p \in DOMAIN u, u[p].role = "calls"
      PROVE  Answers(u, p, u[p].idx) \/ <<u[p].call, u[p].iter>> \in E
  <2>1. p \in DOMAIN s
    BY <1>1, <1>3
  <2>2. u[p] = s[p] /\ s[p].idx \in Nat
    BY <1>2, <2>1, MessageShape
  <2>. QED
    BY <1>2, <1>3, <2>1, <2>2 DEF Settled
<1>4. Settled(u, E)
  BY <1>3 DEF Settled
<1>. QED
  BY <1>4 DEF u

LEMMA SettledSummary ==
  ASSUME NEW s \in Seq(Message), NEW z \in Sizes, Len(s) >= 4, NEW E, Settled(s, E)
  PROVE  Settled(Summarized(s, z), E)
<1>. DEFINE u == Summarized(s, z)
            l == Len(s)
<1>1. /\ u \in Seq(Message) /\ Len(u) = 3
      /\ u[1] = Msg("summary", 0, 0, 0, z)
      /\ u[2] = s[l - 1] /\ u[3] = s[l]
  BY SummarizedHas
<1>2. l \in Nat /\ l >= 4 /\ DOMAIN s = 1 .. l
  OBVIOUS
<1>. HIDE DEF u, l
<1>3. u[1].role = "summary" /\ DOMAIN u = 1 .. 3 /\ l \in DOMAIN s /\ l - 1 \in DOMAIN s
  BY <1>1, <1>2 DEF Msg
<1>4. s[l].idx \in Nat /\ s[l - 1].idx \in Nat
  BY <1>3, MessageShape
<1>5. ASSUME s[l].role = "calls"
      PROVE  Answers(u, 3, u[3].idx) \/ <<u[3].call, u[3].iter>> \in E
  <2>1. Answers(s, l, s[l].idx) => s[l].idx = 0
    BY <1>2, <1>4 DEF Answers, l
  <2>2. s[l].idx = 0 => Answers(u, 3, u[3].idx)
    BY <1>1 DEF Answers
  <2>. QED
    BY <1>1, <1>3, <1>5, <2>1, <2>2 DEF Settled
<1>6. ASSUME s[l - 1].role = "calls"
      PROVE  Answers(u, 2, u[2].idx) \/ <<u[2].call, u[2].iter>> \in E
  <2>1. ASSUME Answers(s, l - 1, s[l - 1].idx)
        PROVE  Answers(u, 2, u[2].idx)
    <3>1. \A t \in 1 .. s[l - 1].idx : t <= 1
      BY <1>2, <1>4, <2>1 DEF Answers, l
    <3>2. ASSUME NEW t \in 1 .. s[l - 1].idx
          PROVE  /\ t = 1 /\ l - 1 + t = l /\ 2 + t = 3
                 /\ s[l].role = "tool" /\ s[l].call = s[l - 1].call
                 /\ s[l].iter = s[l - 1].iter /\ s[l].idx = 1
      <4>1. t = 1 /\ l - 1 + t = l /\ 2 + t = 3
        BY <1>2, <1>4, <3>1, <3>2
      <4>. QED
        BY <2>1, <3>2, <4>1 DEF Answers
    <3>. QED
      BY <1>1, <3>2 DEF Answers
  <2>. QED
    BY <1>1, <1>3, <1>6, <2>1 DEF Settled
<1>7. Settled(u, E)
  <2>1. \A p \in DOMAIN u : p = 1 \/ p = 2 \/ p = 3
    BY <1>3
  <2>. QED
    BY <1>1, <1>3, <1>5, <1>6, <2>1 DEF Settled
<1>. QED
  BY <1>7 DEF u

LEMMA SettledMore ==
  ASSUME NEW s, NEW E, NEW F, E \subseteq F
  PROVE  /\ Settled(s, E) => Settled(s, F)
         /\ \A x, n, c : SettledBut(s, E, x, n, c) => SettledBut(s, F, x, n, c)
<1>1. Settled(s, E) => Settled(s, F)
  BY DEF Settled
<1>2. \A x, n, c : SettledBut(s, E, x, n, c) => SettledBut(s, F, x, n, c)
  BY DEF SettledBut
<1>. QED
  BY <1>1, <1>2

\* An exchange begins, goes on, ends, or is given up.
LEMMA SettledBegins ==
  ASSUME NEW s \in Seq(Message), NEW m \in Message, NEW E, Settled(s, E)
  PROVE  /\ SettledBut(Append(s, m), E, <<m.call, m.iter>>, m.idx, 0)
         /\ \A x, n, c : SettledBut(s, E, x, n, c)
<1>. DEFINE u == Append(s, m)
<1>1. /\ u \in Seq(Message) /\ Len(u) = Len(s) + 1 /\ DOMAIN u = 1 .. Len(u)
      /\ u[Len(s) + 1] = m /\ Len(s) \in Nat
  BY AppendHas
<1>2. ASSUME NEW p \in DOMAIN s
      PROVE  /\ u[p] = s[p]
             /\ \A n \in Nat : Answers(s, p, n) => Answers(u, p, n)
  <2>1. u[p] = s[p]
    OBVIOUS
  <2>. HIDE DEF u
  <2>2. ASSUME NEW n \in Nat, Answers(s, p, n)
        PROVE  Answers(u, p, n)
    BY <2>2, AnswersAdded DEF u
  <2>. QED
    BY <2>1, <2>2
<1>. HIDE DEF u
<1>3. ASSUME NEW p \in DOMAIN u, u[p].role = "calls"
      PROVE  \/ Answers(u, p, u[p].idx)
             \/ <<u[p].call, u[p].iter>> \in E
             \/ u[p] = m /\ Len(u) = p + 0 /\ Answers(u, p, 0)
  <2>1. CASE p = Len(s) + 1
    <3>1. Answers(u, p, 0)
      BY DEF Answers
    <3>. QED
      BY <1>1, <2>1, <3>1
  <2>2. CASE p \in DOMAIN s
    <3>1. u[p] = s[p] /\ s[p].idx \in Nat
      BY <1>2, <2>2, MessageShape
    <3>. QED
      BY <1>2, <1>3, <2>2, <3>1 DEF Settled
  <2>. QED
    BY <1>1, <2>1, <2>2
<1>4. SettledBut(u, E, <<m.call, m.iter>>, m.idx, 0)
  BY <1>3 DEF SettledBut
<1>5. \A x, n, c : SettledBut(s, E, x, n, c)
  BY DEF Settled, SettledBut
<1>. QED
  BY <1>4, <1>5 DEF u

LEMMA SettledGoesOn ==
  ASSUME NEW s \in Seq(Message), NEW m \in Message, NEW E, NEW h, NEW i, NEW n,
         NEW c \in Nat, SettledBut(s, E, <<h, i>>, n, c),
         m.role = "tool", m.call = h, m.iter = i, m.idx = c + 1
  PROVE  SettledBut(Append(s, m), E, <<h, i>>, n, c + 1)
<1>. DEFINE u == Append(s, m)
<1>1. /\ u \in Seq(Message) /\ Len(u) = Len(s) + 1 /\ DOMAIN u = 1 .. Len(u)
      /\ u[Len(s) + 1] = m /\ Len(s) \in Nat
  BY AppendHas
<1>2. ASSUME NEW p \in DOMAIN s
      PROVE  /\ u[p] = s[p]
             /\ \A k \in Nat : Answers(s, p, k) => Answers(u, p, k)
  <2>1. u[p] = s[p]
    OBVIOUS
  <2>. HIDE DEF u
  <2>2. ASSUME NEW k \in Nat, Answers(s, p, k)
        PROVE  Answers(u, p, k)
    BY <2>2, AnswersAdded DEF u
  <2>. QED
    BY <2>1, <2>2
<1>. HIDE DEF u
<1>3. ASSUME NEW p \in DOMAIN u, u[p].role = "calls"
      PROVE  \/ Answers(u, p, u[p].idx)
             \/ <<u[p].call, u[p].iter>> \in E
             \/ /\ <<u[p].call, u[p].iter>> = <<h, i>> /\ u[p].idx = n
                /\ Len(u) = p + (c + 1) /\ Answers(u, p, c + 1)
  <2>1. p \in DOMAIN s
    BY <1>1, <1>3
  <2>2. u[p] = s[p] /\ s[p].idx \in Nat /\ p \in Nat
    BY <1>2, <2>1, MessageShape
  <2>3. CASE Answers(s, p, s[p].idx)
    BY <1>2, <2>1, <2>2, <2>3
  <2>4. CASE <<s[p].call, s[p].iter>> \in E
    BY <2>2, <2>4
  <2>5. CASE <<s[p].call, s[p].iter>> = <<h, i>> /\ s[p].idx = n /\ Len(s) = p + c
             /\ Answers(s, p, c)
    <3>1. s[p].call = h /\ s[p].iter = i
      BY <2>5
    <3>2. Answers(u, p, c)
      BY <1>2, <2>1, <2>5
    <3>3. p + (c + 1) = Len(s) + 1 /\ Len(u) = p + (c + 1)
      BY <1>1, <2>2, <2>5
    <3>4. u[p + (c + 1)] = m
      BY <1>1, <3>3
    <3>5. ASSUME NEW t \in 1 .. c + 1
          PROVE  /\ p + t <= Len(u) /\ u[p + t].role = "tool"
                 /\ u[p + t].call = u[p].call /\ u[p + t].iter = u[p].iter
                 /\ u[p + t].idx = t
      <4>1. CASE t \in 1 .. c
        BY <3>2, <4>1 DEF Answers
      <4>2. CASE t = c + 1
        BY <1>1, <2>2, <3>1, <3>3, <3>4, <4>2
      <4>. QED
        BY <4>1, <4>2
    <3>6. Answers(u, p, c + 1)
      BY <3>5 DEF Answers
    <3>. QED
      BY <2>2, <2>5, <3>3, <3>6
  <2>. QED
    BY <1>3, <2>1, <2>2, <2>3, <2>4, <2>5 DEF SettledBut
<1>4. SettledBut(u, E, <<h, i>>, n, c + 1)
  BY <1>3 DEF SettledBut
<1>. QED
  BY <1>4 DEF u

LEMMA SettledEnds ==
  ASSUME NEW s, NEW E, NEW x, NEW n, NEW c, SettledBut(s, E, x, n, c),
         n = c \/ x \in E
  PROVE  Settled(s, E)
  BY DEF SettledBut, Settled

LEMMA SettledButCut ==
  ASSUME NEW s \in Seq(Message), NEW u, NEW k, IsEnd(u, s, k), NEW E, NEW x, NEW n,
         NEW c \in Nat, SettledBut(s, E, x, n, c)
  PROVE  SettledBut(u, E, x, n, c)
<1>1. Len(s) \in Nat /\ k \in Nat /\ Len(u) = Len(s) - k /\ u \in Seq(Message)
      /\ DOMAIN u = 1 .. Len(u) /\ DOMAIN s = 1 .. Len(s)
  BY DEF IsEnd
<1>2. ASSUME NEW p \in DOMAIN u, u[p].role = "calls"
      PROVE  \/ Answers(u, p, u[p].idx)
             \/ <<u[p].call, u[p].iter>> \in E
             \/ /\ <<u[p].call, u[p].iter>> = x /\ u[p].idx = n
                /\ Len(u) = p + c /\ Answers(u, p, c)
  <2>1. p + k \in DOMAIN s /\ u[p] = s[p + k] /\ p \in Nat
    BY <1>1 DEF IsEnd
  <2>2. s[p + k].idx \in Nat
    BY <2>1, MessageShape
  <2>3. CASE Answers(s, p + k, s[p + k].idx)
    BY <2>1, <2>2, <2>3, AnswersCut
  <2>4. CASE <<s[p + k].call, s[p + k].iter>> \in E
    BY <2>1, <2>4
  <2>5. CASE <<s[p + k].call, s[p + k].iter>> = x /\ s[p + k].idx = n
             /\ Len(s) = p + k + c /\ Answers(s, p + k, c)
    <3>1. Answers(u, p, c)
      BY <2>5, AnswersCut
    <3>2. Len(u) = p + c
      BY <1>1, <2>1, <2>5
    <3>. QED
      BY <2>1, <2>5, <3>1, <3>2
  <2>. QED
    BY <1>2, <2>1, <2>3, <2>4, <2>5 DEF SettledBut
<1>. QED
  BY <1>2 DEF SettledBut
-----------------------------------------------------------------------------
\* Memory and rows, counted from the end.

Kept(m, U) == m.role # "summary" /\ m \notin U

KeptAfter(s, p, U) == {q \in p + 1 .. Len(s) : Kept(s[q], U)}

EndsIn(s, r, U) ==
  \A p \in DOMAIN s : Kept(s[p], U) =>
    LET n == Len(r) - Cardinality(KeptAfter(s, p, U))
    IN  n \in DOMAIN r /\ r[n] = s[p]

LEMMA HistoryIsEndsIn == MemoryEndsHistory <=> EndsIn(messages, rows, unsaved)
<1>1. \A p : SavedAfter(p) = KeptAfter(messages, p, unsaved)
  BY DEF SavedAfter, KeptAfter, Saved, Kept
<1>2. \A p : Saved(messages[p]) <=> Kept(messages[p], unsaved)
  BY DEF Saved, Kept
<1>. QED
  BY <1>1, <1>2 DEF MemoryEndsHistory, EndsIn

LEMMA KeptAfterIsFinite ==
  ASSUME NEW s \in Seq(Message), NEW p \in Nat, NEW U
  PROVE  IsFiniteSet(KeptAfter(s, p, U)) /\ Cardinality(KeptAfter(s, p, U)) \in Nat
<1>. DEFINE l == Len(s)
<1>1. l \in Nat
  OBVIOUS
<1>2. IsFiniteSet(p + 1 .. l)
  <2>. HIDE DEF l
  <2>. QED
    BY <1>1, FS_Interval
<1>3. KeptAfter(s, p, U) \subseteq p + 1 .. l
  BY DEF KeptAfter
<1>. QED
  BY <1>2, <1>3, FS_Subset, FS_CardinalityType

\* From p on, u is what s is from e on.
EndAlike(s, u, p, e) ==
  /\ s \in Seq(Message) /\ u \in Seq(Message)
  /\ p \in DOMAIN u /\ e \in DOMAIN s
  /\ Len(s) - e = Len(u) - p
  /\ \A q \in p .. Len(u) : u[q] = s[q + (e - p)]

LEMMA SameCount ==
  ASSUME NEW s, NEW u, NEW p, NEW e, NEW U, EndAlike(s, u, p, e)
  PROVE  Cardinality(KeptAfter(u, p, U)) = Cardinality(KeptAfter(s, e, U))
<1>. DEFINE d == e - p
            A == KeptAfter(u, p, U)
            B == KeptAfter(s, e, U)
            f == [q \in A |-> q + d]
<1>1. p \in Nat /\ p + d \in Nat /\ Len(u) \in Nat /\ Len(s) \in Nat /\ p > 0
      /\ e = p + d /\ Len(s) = Len(u) + d /\ d \in Int
      /\ s \in Seq(Message) /\ u \in Seq(Message)
  <2>1. s \in Seq(Message) /\ u \in Seq(Message) /\ p \in DOMAIN u /\ e \in DOMAIN s
        /\ Len(s) - e = Len(u) - p
    BY DEF EndAlike
  <2>2. p \in Nat /\ e \in Nat /\ Len(u) \in Nat /\ Len(s) \in Nat /\ p > 0
    BY <2>1
  <2>3. p + (e - p) = e /\ e - p \in Int
    BY <2>2
  <2>4. Len(s) = Len(u) + (e - p)
    <3>. DEFINE ls == Len(s)
                lu == Len(u)
    <3>1. ls \in Nat /\ lu \in Nat /\ ls - e = lu - p
      BY <2>1, <2>2
    <3>. HIDE DEF ls, lu
    <3>2. ls = lu + (e - p)
      BY <2>2, <3>1
    <3>. QED
      BY <3>2 DEF ls, lu
  <2>. QED
    BY <2>1, <2>2, <2>3, <2>4
<1>0. \A q \in p .. Len(u) : u[q] = s[q + d]
  BY DEF EndAlike
<1>. HIDE DEF d
<1>2. IsFiniteSet(A)
  BY <1>1, KeptAfterIsFinite
<1>3. \A q \in A : q \in Int /\ q \in p + 1 .. Len(u) /\ u[q] = s[q + d] /\ Kept(u[q], U)
  <2>1. \A q \in A : q \in p + 1 .. Len(u) /\ Kept(u[q], U)
    BY DEF KeptAfter
  <2>2. \A q \in p + 1 .. Len(u) : q \in Int /\ q \in p .. Len(u)
    BY <1>1
  <2>. HIDE DEF A
  <2>. QED
    BY <1>0, <2>1, <2>2
<1>4. \A q \in A : q + d \in B
  <2>. SUFFICES ASSUME NEW q \in A PROVE q + d \in B
    OBVIOUS
  <2>1. q + d \in e + 1 .. Len(s)
    BY <1>1, <1>3
  <2>2. Kept(s[q + d], U)
    BY <1>3
  <2>. QED
    BY <2>1, <2>2 DEF KeptAfter
<1>5. \A q \in B : q - d \in A /\ (q - d) + d = q
  <2>. SUFFICES ASSUME NEW q \in B PROVE q - d \in A /\ (q - d) + d = q
    OBVIOUS
  <2>1. q \in e + 1 .. Len(s) /\ Kept(s[q], U)
    BY DEF KeptAfter
  <2>2. q - d \in p + 1 .. Len(u) /\ q - d \in p .. Len(u) /\ (q - d) + d = q
    BY <1>1, <2>1
  <2>3. u[q - d] = s[q]
    BY <1>0, <2>2
  <2>. QED
    BY <2>1, <2>2, <2>3 DEF KeptAfter
<1>. HIDE DEF A, B
<1>6. f \in [A -> B]
  BY <1>4
<1>7. \A q, r \in A : f[q] = f[r] => q = r
  BY <1>1, <1>3
<1>8. \A q \in B : \E r \in A : f[r] = q
  BY <1>5
<1>9. f \in Bijection(A, B)
  <2>. HIDE DEF f
  <2>. QED
    BY <1>6, <1>7, <1>8 DEF Bijection, Injection, Surjection, IsInjective
<1>10. Cardinality(A) = Cardinality(B)
  <2>. HIDE DEF f
  <2>. QED
    BY <1>2, <1>9, FS_Bijection DEF ExistsBijection
<1>. QED
  BY <1>10 DEF A, B

LEMMA EndsCut ==
  ASSUME NEW s \in Seq(Message), NEW u, NEW k, IsEnd(u, s, k),
         NEW r \in Seq(Message), NEW U, EndsIn(s, r, U)
  PROVE  EndsIn(u, r, U)
<1>1. Len(s) \in Nat /\ k \in Nat /\ Len(u) = Len(s) - k /\ u \in Seq(Message)
      /\ Len(s) = Len(u) + k
  BY DEF IsEnd
<1>2. ASSUME NEW p \in DOMAIN u
      PROVE  /\ p + k \in DOMAIN s /\ u[p] = s[p + k]
             /\ Cardinality(KeptAfter(u, p, U)) = Cardinality(KeptAfter(s, p + k, U))
  <2>1. p + k \in DOMAIN s /\ p \in Nat /\ p > 0
    BY <1>1
  <2>2. \A q \in p .. Len(u) : u[q] = s[q + k]
    BY <1>1, <2>1 DEF IsEnd
  <2>3. u[p] = s[p + k]
    BY <1>1 DEF IsEnd
  <2>4. k \in Int /\ u \in Seq(Message) /\ Len(s) = Len(u) + k
    BY <1>1
  <2>5. Cardinality(KeptAfter(u, p, U)) = Cardinality(KeptAfter(s, p + k, U))
    <3>1. Len(s) - (p + k) = Len(u) - p /\ (p + k) - p = k
      BY <1>1, <2>1
    <3>2. EndAlike(s, u, p, p + k)
      BY <2>1, <2>2, <2>4, <3>1 DEF EndAlike
    <3>. QED
      BY <3>2, SameCount
  <2>. QED
    BY <2>1, <2>3, <2>5
<1>. QED
  BY <1>2 DEF EndsIn

LEMMA EndsSummary ==
  ASSUME NEW s \in Seq(Message), NEW z \in Sizes, Len(s) >= 4,
         NEW r \in Seq(Message), NEW U, EndsIn(s, r, U)
  PROVE  EndsIn(Summarized(s, z), r, U)
<1>. DEFINE u == Summarized(s, z)
            d == Len(s) - 3
<1>1. /\ u \in Seq(Message) /\ Len(u) = 3
      /\ u[1] = Msg("summary", 0, 0, 0, z)
      /\ u[2] = s[Len(s) - 1] /\ u[3] = s[Len(s)]
  BY SummarizedHas
<1>. HIDE DEF u
<1>2. u[1].role = "summary" /\ DOMAIN u = 1 .. 3
  BY <1>1 DEF Msg
<1>3. d \in Int /\ Len(s) \in Nat /\ Len(s) = Len(u) + d /\ d >= 1
  BY <1>1
<1>4. /\ 2 + d \in DOMAIN s /\ 3 + d \in DOMAIN s
      /\ 2 + d = Len(s) - 1 /\ 3 + d = Len(s)
  BY <1>3
<1>5. u[2] = s[2 + d] /\ u[3] = s[3 + d]
  BY <1>1, <1>4
<1>. HIDE DEF d
<1>6. ASSUME NEW p \in DOMAIN u, Kept(u[p], U)
      PROVE  /\ p + d \in DOMAIN s /\ u[p] = s[p + d]
             /\ Cardinality(KeptAfter(u, p, U)) = Cardinality(KeptAfter(s, p + d, U))
  <2>1. p = 2 \/ p = 3
    BY <1>2, <1>6 DEF Kept
  <2>2. p + d \in DOMAIN s /\ u[p] = s[p + d]
    BY <1>4, <1>5, <2>1
  <2>3. \A q \in p .. Len(u) : u[q] = s[q + d]
    BY <1>1, <1>5, <2>1
  <2>4. Cardinality(KeptAfter(u, p, U)) = Cardinality(KeptAfter(s, p + d, U))
    <3>1. Len(s) - (p + d) = Len(u) - p /\ (p + d) - p = d
      BY <1>3, <1>1, <2>1
    <3>2. EndAlike(s, u, p, p + d)
      BY <1>1, <2>2, <2>3, <3>1 DEF EndAlike
    <3>. QED
      BY <3>2, SameCount
  <2>. QED
    BY <2>2, <2>4
<1>7. EndsIn(u, r, U)
  BY <1>6 DEF EndsIn
<1>. QED
  BY <1>7 DEF u

LEMMA EndsReloaded ==
  ASSUME NEW r \in Seq(Message), NEW U,
         \A p \in DOMAIN r : Kept(r[p], U)
  PROVE  EndsIn(r, r, U)
<1>. DEFINE l == Len(r)
<1>1. l \in Nat /\ DOMAIN r = 1 .. l
  OBVIOUS
<1>2. ASSUME NEW p \in DOMAIN r
      PROVE  l - Cardinality(KeptAfter(r, p, U)) = p
  <2>1. KeptAfter(r, p, U) = p + 1 .. l
    <3>1. \A q \in p + 1 .. l : q \in DOMAIN r
      BY <1>1
    <3>. QED
      BY <3>1 DEF KeptAfter
  <2>2. p \in Int /\ p <= l
    BY <1>1
  <2>3. Cardinality(p + 1 .. l) = l - p
    <3>. HIDE DEF l
    <3>1. p + 1 \in Int /\ l \in Int
      BY <1>1, <2>2
    <3>2. Cardinality(p + 1 .. l) = IF p + 1 > l THEN 0 ELSE l - (p + 1) + 1
      BY <3>1, FS_Interval
    <3>. QED
      BY <1>1, <2>2, <3>2
  <2>. HIDE DEF l
  <2>. QED
    BY <1>1, <2>1, <2>2, <2>3
<1>. QED
  BY <1>2 DEF EndsIn

LEMMA EndsSaved ==
  ASSUME NEW s \in Seq(Message), NEW r \in Seq(Message), NEW U, NEW m \in Message,
         EndsIn(s, r, U), Kept(m, U)
  PROVE  EndsIn(Append(s, m), Append(r, m), U)
<1>. DEFINE u == Append(s, m)
            v == Append(r, m)
            l == Len(s)
<1>1. /\ u \in Seq(Message) /\ Len(u) = l + 1 /\ u[l + 1] = m
      /\ \A p \in 1 .. l : u[p] = s[p]
      /\ DOMAIN u = 1 .. l + 1 /\ DOMAIN s = 1 .. l /\ l \in Nat
  BY AppendHas
<1>2. /\ v \in Seq(Message) /\ Len(v) = Len(r) + 1 /\ v[Len(r) + 1] = m
      /\ \A p \in 1 .. Len(r) : v[p] = r[p]
      /\ DOMAIN v = 1 .. Len(r) + 1 /\ DOMAIN r = 1 .. Len(r) /\ Len(r) \in Nat
  BY AppendHas
<1>. HIDE DEF u, v, l
<1>3. ASSUME NEW p \in DOMAIN u, Kept(u[p], U)
      PROVE  LET n == Len(v) - Cardinality(KeptAfter(u, p, U))
             IN  n \in DOMAIN v /\ v[n] = u[p]
  <2>. DEFINE A == KeptAfter(s, p, U)
              c == Cardinality(A)
  <2>1. CASE p = l + 1
    <3>1. KeptAfter(u, p, U) = {}
      BY <1>1, <2>1 DEF KeptAfter
    <3>2. Cardinality(KeptAfter(u, p, U)) = 0
      BY <3>1, FS_EmptySet
    <3>. QED
      BY <1>1, <1>2, <2>1, <3>2
  <2>2. CASE p \in 1 .. l
    <3>1. p \in Nat /\ p \in DOMAIN s /\ u[p] = s[p]
      BY <1>1, <2>2
    <3>2. IsFiniteSet(A) /\ c \in Nat
      BY <3>1, KeptAfterIsFinite
    <3>3. l + 1 \notin A
      BY <1>1 DEF KeptAfter, l
    <3>4. KeptAfter(u, p, U) = A \cup {l + 1}
      <4>1. \A q \in p + 1 .. l : u[q] = s[q]
        BY <1>1, <3>1
      <4>2. p + 1 .. l + 1 = (p + 1 .. l) \cup {l + 1}
        BY <1>1, <2>2
      <4>3. KeptAfter(u, p, U) = {q \in p + 1 .. l + 1 : Kept(u[q], U)}
        BY <1>1 DEF KeptAfter
      <4>4. A = {q \in p + 1 .. l : Kept(s[q], U)}
        BY DEF KeptAfter, l
      <4>. HIDE DEF A
      <4>. QED
        BY <1>1, <4>1, <4>2, <4>3, <4>4
    <3>. HIDE DEF A
    <3>5. Cardinality(KeptAfter(u, p, U)) = c + 1
      BY <3>2, <3>3, <3>4, FS_AddElement
    <3>6. Len(r) - c \in DOMAIN r /\ r[Len(r) - c] = s[p]
      BY <1>3, <3>1 DEF EndsIn, A
    <3>. HIDE DEF c
    <3>7. Len(v) - (c + 1) = Len(r) - c
      BY <1>2, <3>2
    <3>. QED
      BY <1>2, <3>1, <3>5, <3>6, <3>7
  <2>. QED
    BY <1>1, <2>1, <2>2
<1>4. EndsIn(u, v, U)
  BY <1>3 DEF EndsIn
<1>. QED
  BY <1>4 DEF u, v

LEMMA EndsUnsaved ==
  ASSUME NEW s \in Seq(Message), NEW r \in Seq(Message), NEW U, NEW m \in Message,
         EndsIn(s, r, U), \A p \in DOMAIN s : s[p] # m
  PROVE  EndsIn(Append(s, m), r, U \cup {m})
<1>. DEFINE u == Append(s, m)
            V == U \cup {m}
            l == Len(s)
<1>1. /\ u \in Seq(Message) /\ Len(u) = l + 1 /\ u[l + 1] = m
      /\ \A p \in 1 .. l : u[p] = s[p]
      /\ DOMAIN u = 1 .. l + 1 /\ DOMAIN s = 1 .. l /\ l \in Nat
  BY AppendHas
<1>2. \A p \in DOMAIN s : Kept(s[p], V) <=> Kept(s[p], U)
  BY DEF Kept
<1>3. ~ Kept(u[l + 1], V)
  BY <1>1 DEF Kept
<1>. HIDE DEF u, l, V
<1>4. ASSUME NEW p \in DOMAIN u, Kept(u[p], V)
      PROVE  LET n == Len(r) - Cardinality(KeptAfter(u, p, V))
             IN  n \in DOMAIN r /\ r[n] = u[p]
  <2>1. p \in 1 .. l /\ p \in Nat /\ p > 0 /\ p \in DOMAIN s /\ u[p] = s[p]
    BY <1>1, <1>3, <1>4
  <2>2. KeptAfter(u, p, V) = KeptAfter(s, p, U)
    <3>1. \A q \in p + 1 .. l : u[q] = s[q] /\ q \in DOMAIN s
      BY <1>1, <2>1
    <3>2. p + 1 .. l + 1 = (p + 1 .. l) \cup {l + 1}
      BY <1>1, <2>1
    <3>3. KeptAfter(u, p, V) = {q \in p + 1 .. l + 1 : Kept(u[q], V)}
      BY <1>1 DEF KeptAfter
    <3>4. KeptAfter(s, p, U) = {q \in p + 1 .. l : Kept(s[q], U)}
      BY DEF KeptAfter, l
    <3>. QED
      BY <1>2, <1>3, <3>1, <3>2, <3>3, <3>4
  <2>. QED
    BY <1>2, <1>4, <2>1, <2>2 DEF EndsIn
<1>5. EndsIn(u, r, V)
  BY <1>4 DEF EndsIn
<1>. QED
  BY <1>5 DEF u, V
-----------------------------------------------------------------------------
\* The steps, and where they take a call.

LEMMA Bounds ==
  /\ MaxCalls \in Nat /\ MaxIterations \in Nat
  /\ MaxTools \in Nat /\ Budget \in Nat /\ MaxFaults \in Nat /\ MaxCrashes \in Nat
  /\ \A s \in Sizes : s \in Nat /\ s > 0
  BY BoundAssumption

LEMMA OutShape ==
  ASSUME Control, NEW h \in Call
  PROVE  /\ Len(out[h]) \in 0 .. MaxTools /\ Len(out[h]) \in Nat
         /\ DOMAIN out[h] = 1 .. Len(out[h]) /\ DOMAIN gor[h] = 1 .. Len(out[h])
         /\ \A t \in 1 .. Len(out[h]) : out[h][t] \in Sizes \cup {0, 1} /\ out[h][t] \in Nat
         /\ \A t \in 1 .. Len(out[h]) : gor[h][t] \in GoState
<1>1. PICK n \in 0 .. MaxTools :
        gor[h] \in [1 .. n -> GoState] /\ out[h] \in [1 .. n -> Sizes \cup {0, 1}]
  BY DEF Control, Goroutines
<1>2. n \in Nat
  BY Bounds
<1>3. Len(out[h]) = n
  BY <1>1, <1>2
<1>4. \A t \in 1 .. n : out[h][t] \in Nat
  BY <1>1, Bounds
<1>. QED
  BY <1>1, <1>2, <1>3, <1>4

\* What a call of h does: it leaves the other calls alone.
Steps(h) == \/ Start(h) \/ Stream(h) \/ Refuse(h) \/ Loop(h)
            \/ \E t \in Tool : ToolRuns(h, t)

LEMMA ToolStepControl ==
  ASSUME Control, NEW h \in Call, NEW t, NEW from, NEW to \in GoState,
         NEW s \in Sizes \cup {0, 1}, ToolStep(h, t, from, to, s)
  PROVE  Control'
<1>1. PICK n \in 0 .. MaxTools :
        gor[h] \in [1 .. n -> GoState] /\ out[h] \in [1 .. n -> Sizes \cup {0, 1}]
  BY DEF Control, Goroutines
<1>2. DOMAIN gor = Call /\ DOMAIN out = Call /\ DOMAIN gor' = Call /\ DOMAIN out' = Call
  BY DEF Control, ToolStep
<1>3. gor'[h] = [gor[h] EXCEPT ![t] = to] /\ out'[h] = [out[h] EXCEPT ![t] = s]
  BY <1>2 DEF ToolStep
<1>4. t \in 1 .. n
  BY <1>1 DEF ToolStep
<1>5. Goroutines(gor'[h], out'[h])
  BY <1>1, <1>3, <1>4 DEF Goroutines
<1>6. \A g \in Call \ {h} : gor'[g] = gor[g] /\ out'[g] = out[g]
  BY <1>2 DEF ToolStep
<1>7. \A g \in Call : Goroutines(gor'[g], out'[g])
  BY <1>5, <1>6 DEF Control
<1>8. UNCHANGED <<pc, iter, pos, outcome, crashes>>
  BY DEF ToolStep
<1>. QED
  BY <1>2, <1>7, <1>8 DEF Control

LEMMA NoGoroutines == Goroutines(<< >>, << >>)
<1>1. 0 \in 0 .. MaxTools /\ << >> \in [1 .. 0 -> GoState]
      /\ << >> \in [1 .. 0 -> Sizes \cup {0, 1}]
  BY Bounds
<1>. QED
  BY <1>1 DEF Goroutines

LEMMA NextIterationControl ==
  ASSUME Control, NEW h \in Call, iter[h] < MaxIterations, NextIteration(h),
         UNCHANGED <<outcome, crashes>>
  PROVE  Control'
<1>1. pc' \in [Call -> Where] /\ iter' \in [Call -> 0 .. MaxIterations]
      /\ pos' \in [Call -> 0 .. MaxTools]
  BY Bounds DEF NextIteration, Goto, Control, Where
<1>2. DOMAIN gor' = Call /\ DOMAIN out' = Call
  BY DEF NextIteration, Control
<1>3. \A g \in Call : Goroutines(gor'[g], out'[g])
  <2>1. gor'[h] = << >> /\ out'[h] = << >>
    BY DEF NextIteration, Control
  <2>2. \A g \in Call \ {h} : gor'[g] = gor[g] /\ out'[g] = out[g]
    BY DEF NextIteration, Control
  <2>. QED
    BY <2>1, <2>2, NoGoroutines DEF Control
<1>. QED
  BY <1>1, <1>2, <1>3 DEF Control

LEMMA StepControl ==
  ASSUME Control, Places, NEW h \in Call, Steps(h)
  PROVE  Control'
<1>1. CASE Start(h) \/ Stream(h) \/ Ask(h) \/ Join(h)
  <2>1. /\ pc' \in [Call -> Where]
        /\ UNCHANGED <<iter, gor, out, pos, outcome, crashes>>
    BY <1>1 DEF Control, Start, Stream, Ask, Join, Goto, Where
  <2>. QED
    BY <2>1 DEF Control
<1>2. CASE Refuse(h) \/ OutOfIterations(h) \/ Reply(h) \/ AskFails(h) \/ StreamEnds(h)
  <2>1. /\ pc' \in [Call -> Where] /\ outcome' \in [Call -> Ways]
        /\ UNCHANGED <<iter, gor, out, pos, crashes>>
    BY <1>2 DEF Control, Refuse, OutOfIterations, Reply, AskFails, StreamEnds, Return,
                Goto, Where, Ways
  <2>. QED
    BY <2>1 DEF Control
<1>3. ASSUME NEW n \in Tool, CallTools(h, n)
      PROVE  Control'
  <2>1. /\ pc' \in [Call -> Where] /\ pos' \in [Call -> 0 .. MaxTools]
        /\ UNCHANGED <<iter, outcome, crashes>>
    BY <1>3, Bounds DEF Control, CallTools, Goto, Where
  <2>2. DOMAIN gor' = Call /\ DOMAIN out' = Call
    BY <1>3 DEF CallTools, Control
  <2>3. Goroutines(gor'[h], out'[h])
    <3>1. gor'[h] = [t \in 1 .. n |-> "running"] /\ out'[h] = [t \in 1 .. n |-> 0]
      BY <1>3 DEF CallTools, Control
    <3>2. n \in 0 .. MaxTools
      BY Bounds DEF Tool
    <3>. QED
      BY <3>1, <3>2 DEF Goroutines, GoState
  <2>4. \A g \in Call \ {h} : gor'[g] = gor[g] /\ out'[g] = out[g]
    BY <1>3 DEF CallTools, Control
  <2>5. \A g \in Call : Goroutines(gor'[g], out'[g])
    BY <2>3, <2>4 DEF Control
  <2>. QED
    BY <2>1, <2>2, <2>5 DEF Control
<1>4. CASE AddResult(h)
  <2>1. pos[h] \in Nat /\ pos[h] + 1 \in 0 .. MaxTools
    BY <1>4, OutShape, Bounds DEF AddResult, Control
  <2>2. pos' \in [Call -> 0 .. MaxTools] /\ UNCHANGED <<pc, iter, gor, out, outcome, crashes>>
    BY <1>4, <2>1 DEF AddResult, Control
  <2>. QED
    BY <2>2 DEF Control
<1>5. CASE NoSummary(h) \/ EndSummary(h)
  <2>1. iter[h] < MaxIterations /\ NextIteration(h) /\ UNCHANGED <<outcome, crashes>>
    BY <1>5 DEF NoSummary, EndSummary, ResultsAdded, Places, Place
  <2>. QED
    BY <2>1, NextIterationControl
<1>6. CASE AskSummary(h)
  <2>1. iter[h] < MaxIterations /\ UNCHANGED <<outcome, crashes>>
    BY <1>6 DEF AskSummary, ResultsAdded, Places, Place
  <2>2. CASE NextIteration(h)
    BY <2>1, <2>2, NextIterationControl
  <2>3. CASE Goto(h, "summarizing") /\ UNCHANGED <<iter, gor, out, pos>>
    <3>1. pc' \in [Call -> Where]
      BY <2>3 DEF Control, Goto, Where
    <3>. QED
      BY <2>1, <2>3, <3>1 DEF Control
  <2>. QED
    BY <1>6, <2>2, <2>3 DEF AskSummary
<1>7. ASSUME NEW t \in Tool, ToolRuns(h, t)
      PROVE  Control'
  <2>1. CASE StoreOutput(h, t)
    BY <2>1, ToolStepControl DEF StoreOutput, GoState
  <2>2. CASE BadArguments(h, t)
    BY <2>2, ToolStepControl DEF BadArguments, GoState
  <2>3. CASE Callback(h, t)
    <3>1. out[h][t] \in Sizes \cup {0, 1}
      BY <2>3, OutShape DEF Callback, ToolStep
    <3>. QED
      BY <2>3, <3>1, ToolStepControl DEF Callback, GoState
  <2>4. CASE ToolPanics(h, t)
    BY <2>4, ToolStepControl DEF ToolPanics, GoState
  <2>. QED
    BY <1>7, <2>1, <2>2, <2>3, <2>4 DEF ToolRuns
<1>. QED
  BY <1>1, <1>2, <1>3, <1>4, <1>5, <1>6, <1>7 DEF Steps, Loop

\* The other calls stay where they are.
LEMMA StepIsOwn ==
  ASSUME Control, NEW h \in Call, Steps(h), NEW g \in Call, g # h
  PROVE  /\ pc'[g] = pc[g] /\ iter'[g] = iter[g] /\ gor'[g] = gor[g] /\ out'[g] = out[g]
         /\ pos'[g] = pos[g] /\ outcome'[g] = outcome[g]
<1>1. CASE Start(h) \/ Stream(h) \/ Ask(h) \/ Join(h)
  BY <1>1 DEF Control, Start, Stream, Ask, Join, Goto
<1>2. CASE Refuse(h) \/ OutOfIterations(h) \/ Reply(h) \/ AskFails(h) \/ StreamEnds(h)
  BY <1>2 DEF Control, Refuse, OutOfIterations, Reply, AskFails, StreamEnds, Return, Goto
<1>3. CASE \E n \in Tool : CallTools(h, n)
  BY <1>3 DEF Control, CallTools, Goto
<1>4. CASE AddResult(h)
  BY <1>4 DEF Control, AddResult
<1>5. CASE NoSummary(h) \/ EndSummary(h)
  BY <1>5 DEF Control, NoSummary, EndSummary, NextIteration, Goto
<1>6. CASE AskSummary(h)
  BY <1>6 DEF Control, AskSummary, NextIteration, Goto
<1>7. CASE \E t \in Tool : ToolRuns(h, t)
  BY <1>7 DEF Control, ToolRuns, StoreOutput, BadArguments, Callback, ToolPanics, ToolStep
<1>. QED
  BY <1>1, <1>2, <1>3, <1>4, <1>5, <1>6, <1>7 DEF Steps, Loop
-----------------------------------------------------------------------------
\* What each call holds.

LEMMA NextIterationPlace ==
  ASSUME Control, NEW h \in Call, Place(h), NextIteration(h), outcome' = outcome,
         pc[h] # "done"
  PROVE  Place(h)'
<1>1. pc'[h] = "loop" /\ gor'[h] = << >>
  BY DEF NextIteration, Goto, Control
<1>2. outcome'[h] # "lost"
  BY DEF Place
<1>. QED
  BY <1>1, <1>2 DEF Place

LEMMA ToolStepPlace ==
  ASSUME Control, NEW h \in Call, Place(h), NEW t, NEW from, NEW to \in GoState,
         NEW s, ToolStep(h, t, from, to, s), s > 0
  PROVE  Place(h)'
<1>0. /\ Len(out[h]) \in Nat
      /\ DOMAIN out[h] = 1 .. Len(out[h]) /\ DOMAIN gor[h] = 1 .. Len(out[h])
  BY OutShape
<1>1. gor'[h] = [gor[h] EXCEPT ![t] = to] /\ out'[h] = [out[h] EXCEPT ![t] = s]
  BY DEF ToolStep, Control
<1>2. UNCHANGED <<pc, iter, pos, outcome>> /\ pc[h] = "tools"
  BY DEF ToolStep
<1>3. PICK n \in 0 .. MaxTools :
        gor[h] \in [1 .. n -> GoState] /\ out[h] \in [1 .. n -> Sizes \cup {0, 1}]
  BY DEF Control, Goroutines
<1>4. Len(out'[h]) = Len(out[h])
  <2>1. n \in Nat
    BY Bounds
  <2>2. DOMAIN out'[h] = 1 .. n /\ out'[h] \in [1 .. n -> Sizes \cup {0, 1, s}]
    BY <1>1, <1>3
  <2>3. Len(out'[h]) = n /\ Len(out[h]) = n
    BY <2>1, <2>2, <1>3
  <2>. QED
    BY <2>3
<1>5. \A u \in DOMAIN gor'[h] : gor'[h][u] # "running" => out'[h][u] > 0
  <2>1. \A u \in DOMAIN gor[h] : gor[h][u] # "running" => out[h][u] > 0
    BY DEF Place
  <2>2. DOMAIN gor'[h] = 1 .. n /\ t \in 1 .. n
    BY <1>1, <1>3 DEF ToolStep
  <2>3. \A u \in 1 .. n : u # t => gor'[h][u] = gor[h][u] /\ out'[h][u] = out[h][u]
    BY <1>1, <1>3
  <2>4. out'[h][t] = s
    BY <1>1, <1>3, <2>2
  <2>. QED
    BY <1>3, <2>1, <2>2, <2>3, <2>4
<1>. QED
  BY <1>2, <1>4, <1>5 DEF Place

LEMMA StepPlace ==
  ASSUME Control, Places, NEW h \in Call, Steps(h)
  PROVE  Place(h)'
<1>0. Place(h) /\ pc[h] \in Where /\ iter[h] \in 0 .. MaxIterations /\ pos[h] \in Nat
  BY Bounds DEF Places, Control
<1>1. CASE Start(h) \/ Stream(h)
  <2>1. /\ pc'[h] \in {"loop", "streaming"} /\ pc[h] = "idle"
        /\ UNCHANGED <<iter, gor, out, pos, outcome>>
    BY <1>1 DEF Control, Start, Stream, Goto, MayStart
  <2>. QED
    BY <1>0, <2>1 DEF Place
<1>2. CASE Ask(h)
  <2>1. /\ pc'[h] = "asking" /\ iter[h] < MaxIterations /\ pc[h] = "loop"
        /\ UNCHANGED <<iter, gor, out, pos, outcome>>
    BY <1>2 DEF Control, Ask, Goto
  <2>. QED
    BY <1>0, <2>1 DEF Place
<1>3. CASE Join(h)
  <2>1. /\ pc'[h] = "results" /\ pc[h] = "tools" /\ Joined(h)
        /\ UNCHANGED <<iter, gor, out, pos, outcome>>
    BY <1>3 DEF Control, Join, Goto
  <2>2. Joined(h)'
    BY <2>1 DEF Joined
  <2>. QED
    BY <1>0, <2>1, <2>2 DEF Place
<1>4. CASE Refuse(h) \/ OutOfIterations(h) \/ Reply(h) \/ AskFails(h) \/ StreamEnds(h)
  <2>1. pc'[h] = "done" /\ UNCHANGED <<iter, gor, out, pos>>
    BY <1>4 DEF Control, Refuse, OutOfIterations, Reply, AskFails, StreamEnds, Return, Goto
  <2>. QED
    BY <1>0, <2>1 DEF Place
<1>5. ASSUME NEW n \in Tool, CallTools(h, n)
      PROVE  Place(h)'
  <2>1. /\ pc'[h] = "tools" /\ pos'[h] = 0 /\ pc[h] = "asking"
        /\ gor'[h] = [t \in 1 .. n |-> "running"] /\ out'[h] = [t \in 1 .. n |-> 0]
        /\ UNCHANGED <<iter, outcome>>
    BY <1>5 DEF Control, CallTools, Goto
  <2>2. Len(out'[h]) = n /\ n \in Nat /\ n > 0
    BY <2>1, Bounds DEF Tool
  <2>. QED
    BY <1>0, <2>1, <2>2 DEF Place
<1>6. CASE AddResult(h)
  <2>1. /\ pos'[h] = pos[h] + 1 /\ pos[h] < Len(out[h]) /\ pc[h] = "results"
        /\ UNCHANGED <<pc, iter, gor, out, outcome>>
    BY <1>6 DEF Control, AddResult
  <2>2. Joined(h)' <=> Joined(h)
    BY <2>1 DEF Joined
  <2>3. Len(out[h]) \in Nat
    BY OutShape
  <2>. QED
    BY <1>0, <2>1, <2>2, <2>3 DEF Place
<1>7. CASE NoSummary(h) \/ EndSummary(h)
  <2>1. NextIteration(h) /\ outcome' = outcome /\ pc[h] # "done"
    BY <1>7 DEF NoSummary, EndSummary, ResultsAdded
  <2>. QED
    BY <1>0, <2>1, NextIterationPlace
<1>8. CASE AskSummary(h)
  <2>1. outcome' = outcome /\ pc[h] = "results"
    BY <1>8 DEF AskSummary, ResultsAdded
  <2>2. CASE NextIteration(h)
    BY <1>0, <2>1, <2>2, NextIterationPlace
  <2>3. CASE Goto(h, "summarizing") /\ UNCHANGED <<iter, gor, out, pos>>
    <3>1. pc'[h] = "summarizing"
      BY <2>3 DEF Goto, Control
    <3>. QED
      BY <1>0, <2>1, <2>3, <3>1 DEF Place
  <2>. QED
    BY <1>8, <2>2, <2>3 DEF AskSummary
<1>9. ASSUME NEW t \in Tool, ToolRuns(h, t)
      PROVE  Place(h)'
  <2>1. CASE StoreOutput(h, t)
    <3>1. PICK s \in Sizes : ToolStep(h, t, "running", "stored", s)
      BY <2>1 DEF StoreOutput
    <3>2. s > 0
      BY Bounds
    <3>. QED
      BY <1>0, <3>1, <3>2, ToolStepPlace DEF GoState
  <2>2. CASE BadArguments(h, t)
    BY <1>0, <2>2, ToolStepPlace DEF BadArguments, GoState
  <2>3. CASE Callback(h, t)
    <3>1. t \in DOMAIN gor[h] /\ gor[h][t] = "stored"
      BY <2>3 DEF Callback, ToolStep
    <3>2. out[h][t] > 0
      BY <1>0, <3>1 DEF Place
    <3>. QED
      BY <1>0, <2>3, <3>2, ToolStepPlace DEF Callback, GoState
  <2>4. CASE ToolPanics(h, t)
    BY <1>0, <2>4, ToolStepPlace DEF ToolPanics, GoState
  <2>. QED
    BY <1>9, <2>1, <2>2, <2>3, <2>4 DEF ToolRuns
<1>. QED
  BY <1>1, <1>2, <1>3, <1>4, <1>5, <1>6, <1>7, <1>8, <1>9 DEF Steps, Loop

LEMMA CrashControl ==
  ASSUME Control, Places, Crash
  PROVE  Control' /\ Places'
<1>1. \A h \in Call : /\ gor'[h] = << >> /\ out'[h] = << >> /\ pos'[h] = 0
                      /\ iter'[h] = iter[h]
                      /\ IF h \in Active THEN pc'[h] = "done" /\ outcome'[h] = "lost"
                         ELSE pc'[h] = pc[h] /\ outcome'[h] = outcome[h]
  BY DEF Crash
<1>2. \A h \in Call : pc'[h] \in {"idle", "done"}
  BY <1>1 DEF Active, Control
<1>3. Control'
  <2>1. /\ pc' \in [Call -> Where] /\ outcome' \in [Call -> Ways]
        /\ pos' \in [Call -> 0 .. MaxTools] /\ iter' = iter
    BY Bounds DEF Crash, Control, Where, Ways
  <2>2. crashes' \in 0 .. MaxCrashes
    BY Bounds DEF Crash, Control
  <2>3. DOMAIN gor' = Call /\ DOMAIN out' = Call
    BY DEF Crash
  <2>4. \A h \in Call : Goroutines(gor'[h], out'[h])
    BY <1>1, NoGoroutines
  <2>. QED
    BY <2>1, <2>2, <2>3, <2>4 DEF Control
<1>4. ASSUME NEW h \in Call
      PROVE  Place(h)'
  <2>1. Place(h)
    BY DEF Places
  <2>. QED
    BY <1>1, <1>2, <2>1 DEF Place, Active
<1>. QED
  BY <1>3, <1>4 DEF Places

\* A step is a call's own, or one of the whole session.
LEMMA NextIs ==
  ASSUME [Next]_vars
  PROVE  \/ \E h \in Call : Steps(h)
         \/ ClearContext \/ Crash \/ UNCHANGED vars
  BY DEF Next, Steps, Finished

LEMMA ControlStep ==
  ASSUME Control, Places, [Next]_vars
  PROVE  Control' /\ Places'
<1>1. ASSUME NEW h \in Call, Steps(h)
      PROVE  Control' /\ Places'
  <2>1. Control'
    BY <1>1, StepControl
  <2>2. ASSUME NEW g \in Call
        PROVE  Place(g)'
    <3>1. CASE g = h
      BY <1>1, <3>1, StepPlace
    <3>2. CASE g # h
      <4>1. /\ pc'[g] = pc[g] /\ iter'[g] = iter[g] /\ gor'[g] = gor[g]
            /\ out'[g] = out[g] /\ pos'[g] = pos[g] /\ outcome'[g] = outcome[g]
        BY <1>1, <3>2, StepIsOwn
      <4>2. Place(g)
        BY DEF Places
      <4>3. Joined(g)' <=> Joined(g)
        BY <4>1 DEF Joined
      <4>. QED
        BY <4>1, <4>2, <4>3 DEF Place
    <3>. QED
      BY <3>1, <3>2
  <2>. QED
    BY <2>1, <2>2 DEF Places
<1>2. CASE Crash
  BY <1>2, CrashControl
<1>3. CASE ClearContext \/ UNCHANGED vars
  <2>1. UNCHANGED <<pc, iter, gor, out, pos, outcome, crashes>>
    BY <1>3 DEF ClearContext, vars
  <2>2. Control'
    BY <2>1 DEF Control
  <2>3. Places'
    BY <2>1 DEF Places, Place, Joined
  <2>. QED
    BY <2>2, <2>3
<1>. QED
  BY <1>1, <1>2, <1>3, NextIs
-----------------------------------------------------------------------------
\* What a step does to memory, rows and what was not saved.

\* A new message: one the call has just come to, and is past from now on.
Adds(m) == /\ m \in Message /\ m.role # "summary" /\ m.size > 0
           /\ ~ Past(m) /\ Add(m)

Kinds == {"user", "assistant", "calls", "tool", "summary"}

LEMMA MsgIsMessage ==
  ASSUME NEW r \in Kinds, NEW h \in Call, NEW i \in 0 .. MaxIterations,
         NEW x \in 0 .. MaxTools, NEW s \in Nat
  PROVE  /\ Msg(r, h, i, x, s) \in Message
         /\ Msg(r, h, i, x, s).role = r /\ Msg(r, h, i, x, s).call = h
         /\ Msg(r, h, i, x, s).iter = i /\ Msg(r, h, i, x, s).idx = x
         /\ Msg(r, h, i, x, s).size = s
<1>1. h \in 0 .. MaxCalls
  BY Bounds DEF Call
<1>. QED
  BY <1>1 DEF Msg, Message, Kinds

\* The message of a call, and where the call is when it adds it.
Says(h, m) ==
  /\ m \in Message /\ m.call = h /\ m.role # "summary" /\ m.size > 0
  /\ Add(m)
  /\ \/ /\ m.role = "user" /\ pc[h] = "idle" /\ pc'[h] \in {"loop", "streaming"}
        /\ m.iter = 0 /\ UNCHANGED <<iter, gor, out, pos, outcome>>
     \/ /\ m.role = "assistant" /\ pc[h] \in {"asking", "streaming"} /\ pc'[h] = "done"
        /\ m.iter = iter[h] /\ UNCHANGED <<iter, gor, out, pos>>
     \/ /\ m.role = "calls" /\ pc[h] = "asking" /\ pc'[h] = "tools" /\ pos'[h] = 0
        /\ m.iter = iter[h] /\ m.idx = Len(out'[h]) /\ UNCHANGED <<iter, outcome>>
     \/ /\ m.role = "tool" /\ pc[h] = "results" /\ pc'[h] = "results"
        /\ m.iter = iter[h] /\ m.idx = pos[h] + 1 /\ pos'[h] = pos[h] + 1
        /\ UNCHANGED <<iter, gor, out, outcome>>

LEMMA StepSays ==
  ASSUME Control, Places, NEW h \in Call,
         \/ Start(h) \/ Stream(h) \/ Reply(h) \/ AddResult(h)
         \/ \E n \in Tool : CallTools(h, n)
         \/ StreamEnds(h) /\ Add(Msg("assistant", h, 0, 0, 1))
  PROVE  \E m \in Message : Says(h, m)
<1>0. /\ 0 \in 0 .. MaxIterations /\ 0 \in 0 .. MaxTools /\ 1 \in Nat
      /\ iter[h] \in 0 .. MaxIterations /\ pos[h] \in 0 .. MaxTools /\ Place(h)
  BY Bounds DEF Control, Places
<1>1. CASE Start(h) \/ Stream(h)
  <2>. DEFINE m == Msg("user", h, 0, 0, 1)
  <2>1. /\ m \in Message /\ m.role = "user" /\ m.call = h /\ m.iter = 0 /\ m.size = 1
    BY <1>0, MsgIsMessage DEF Kinds
  <2>2. Add(m)
    BY <1>1 DEF Start, Stream
  <2>. HIDE DEF m
  <2>3. /\ pc[h] = "idle" /\ pc'[h] \in {"loop", "streaming"}
        /\ UNCHANGED <<iter, gor, out, pos, outcome>>
    BY <1>1 DEF Start, Stream, MayStart, Goto, Control
  <2>4. Says(h, m)
    BY <2>1, <2>2, <2>3 DEF Says
  <2>. QED
    BY <2>1, <2>4
<1>2. CASE Reply(h)
  <2>. DEFINE m == Msg("assistant", h, iter[h], 0, 1)
  <2>1. /\ m \in Message /\ m.role = "assistant" /\ m.call = h /\ m.iter = iter[h]
        /\ m.size = 1
    BY <1>0, MsgIsMessage DEF Kinds
  <2>2. Add(m)
    BY <1>2 DEF Reply
  <2>. HIDE DEF m
  <2>3. /\ pc[h] = "asking" /\ pc'[h] = "done" /\ UNCHANGED <<iter, gor, out, pos>>
    BY <1>2 DEF Reply, Return, Goto, Control
  <2>4. Says(h, m)
    BY <2>1, <2>2, <2>3 DEF Says
  <2>. QED
    BY <2>1, <2>4
<1>3. CASE StreamEnds(h) /\ Add(Msg("assistant", h, 0, 0, 1))
  <2>. DEFINE m == Msg("assistant", h, 0, 0, 1)
  <2>1. /\ m \in Message /\ m.role = "assistant" /\ m.call = h /\ m.iter = 0
        /\ m.size = 1
    BY <1>0, MsgIsMessage DEF Kinds
  <2>2. Add(m)
    BY <1>3
  <2>. HIDE DEF m
  <2>3. /\ pc[h] = "streaming" /\ pc'[h] = "done" /\ UNCHANGED <<iter, gor, out, pos>>
    BY <1>3 DEF StreamEnds, Return, Goto, Control
  <2>4. iter[h] = 0
    BY <1>0, <2>3 DEF Place
  <2>5. Says(h, m)
    BY <2>1, <2>2, <2>3, <2>4 DEF Says
  <2>. QED
    BY <2>1, <2>5
<1>4. ASSUME NEW n \in Tool, CallTools(h, n)
      PROVE  \E m \in Message : Says(h, m)
  <2>. DEFINE m == Msg("calls", h, iter[h], n, 1)
  <2>0. n \in 0 .. MaxTools /\ n \in Nat
    BY Bounds DEF Tool
  <2>1. /\ m \in Message /\ m.role = "calls" /\ m.call = h /\ m.iter = iter[h]
        /\ m.size = 1 /\ m.idx = n
    BY <1>0, <2>0, MsgIsMessage DEF Kinds
  <2>2. Add(m)
    BY <1>4 DEF CallTools
  <2>. HIDE DEF m
  <2>3. /\ pc[h] = "asking" /\ pc'[h] = "tools" /\ pos'[h] = 0
        /\ UNCHANGED <<iter, outcome>>
    BY <1>4 DEF CallTools, Goto, Control
  <2>4. Len(out'[h]) = n
    <3>1. out'[h] = [t \in 1 .. n |-> 0]
      BY <1>4 DEF CallTools, Control
    <3>. QED
      BY <2>0, <3>1
  <2>5. Says(h, m)
    BY <2>1, <2>2, <2>3, <2>4 DEF Says
  <2>. QED
    BY <2>1, <2>5
<1>5. CASE AddResult(h)
  <2>. DEFINE m == Msg("tool", h, iter[h], pos[h] + 1, out[h][pos[h] + 1])
  <2>0. /\ pos[h] + 1 \in 0 .. MaxTools /\ pos[h] + 1 \in 1 .. Len(out[h])
    BY <1>0, <1>5, OutShape, Bounds DEF AddResult
  <2>6. /\ out[h][pos[h] + 1] \in Nat /\ out[h][pos[h] + 1] > 0
    <3>1. pos[h] + 1 \in DOMAIN gor[h] /\ out[h][pos[h] + 1] \in Nat
      BY <2>0, OutShape
    <3>2. gor[h][pos[h] + 1] = "ended"
      BY <1>0, <1>5, <3>1 DEF AddResult, Place, Joined
    <3>. QED
      BY <1>0, <3>1, <3>2 DEF Place
  <2>1. /\ m \in Message /\ m.role = "tool" /\ m.call = h /\ m.iter = iter[h]
        /\ m.size > 0 /\ m.idx = pos[h] + 1
    <3>. DEFINE x == pos[h] + 1
                z == out[h][x]
    <3>1. x \in 0 .. MaxTools /\ z \in Nat /\ z > 0
      BY <2>0, <2>6
    <3>. HIDE DEF x, z
    <3>2. /\ Msg("tool", h, iter[h], x, z) \in Message
          /\ Msg("tool", h, iter[h], x, z).role = "tool"
          /\ Msg("tool", h, iter[h], x, z).call = h
          /\ Msg("tool", h, iter[h], x, z).iter = iter[h]
          /\ Msg("tool", h, iter[h], x, z).idx = x
          /\ Msg("tool", h, iter[h], x, z).size = z
      BY <1>0, <3>1, MsgIsMessage DEF Kinds
    <3>3. m = Msg("tool", h, iter[h], x, z)
      BY DEF x, z
    <3>. HIDE DEF m
    <3>4. m.size > 0 /\ m.idx = x
      BY <3>1, <3>2, <3>3
    <3>. QED
      BY <3>2, <3>3, <3>4 DEF x
  <2>2. Add(m)
    BY <1>5 DEF AddResult
  <2>. HIDE DEF m
  <2>3. /\ pc[h] = "results" /\ pc'[h] = "results" /\ pos'[h] = pos[h] + 1
        /\ UNCHANGED <<iter, gor, out, outcome>>
    BY <1>5 DEF AddResult, Control
  <2>4. Says(h, m)
    BY <2>1, <2>2, <2>3 DEF Says
  <2>. QED
    BY <2>1, <2>4
<1>. QED
  BY <1>1, <1>2, <1>3, <1>4, <1>5

LEMMA SaidIsNew ==
  ASSUME Control, Places, NEW h \in Call, NEW m \in Message, Says(h, m)
  PROVE  ~ Past(m) /\ Then(m)
<1>0. iter[h] \in Nat /\ pos[h] \in Nat
  BY Bounds DEF Control
<1>1. ~ Past(m)
  BY <1>0 DEF Past, Reached, Says
<1>2. Then(m)
  BY <1>0 DEF Then, Reached, Says
<1>. QED
  BY <1>1, <1>2

\* What memory can become.
Cut == /\ messages' = Truncated(messages) /\ UNCHANGED <<rows, unsaved>>
Summary == /\ Len(messages) >= 4 /\ \E z \in Sizes : messages' = Summarized(messages, z)
           /\ UNCHANGED <<rows, unsaved>>
Clear == messages' = << >> /\ UNCHANGED <<rows, unsaved>>
Reload == messages' = rows /\ UNCHANGED <<rows, unsaved>>

LEMMA StepMemory ==
  ASSUME Control, Places, NEW h \in Call, Steps(h)
  PROVE  \/ \E m \in Message : Says(h, m)
         \/ Cut \/ Summary \/ UNCHANGED <<messages, rows, unsaved>>
<1>1. CASE \/ Start(h) \/ Stream(h) \/ Reply(h) \/ AddResult(h)
           \/ \E n \in Tool : CallTools(h, n)
           \/ StreamEnds(h) /\ Add(Msg("assistant", h, 0, 0, 1))
  BY <1>1, StepSays
<1>2. CASE Ask(h) \/ AskSummary(h)
  BY <1>2 DEF Ask, AskSummary, Cut
<1>3. CASE EndSummary(h)
  <2>1. CASE Len(messages) < 4
    BY <1>3, <2>1 DEF EndSummary, Summarized, WithSummary
  <2>2. CASE ~ (Len(messages) < 4) /\ messages' # messages
    <3>1. \E z \in Sizes : messages' = Summarized(messages, z)
      BY <1>3, <2>2 DEF EndSummary
    <3>2. ASSUME NEW l, ~ (l < 4), l \in Nat
          PROVE  l >= 4
      BY <3>2
    <3>. QED
      BY <1>3, <2>2, <3>1, <3>2 DEF EndSummary, Summary
  <2>. QED
    BY <1>3, <2>1, <2>2 DEF EndSummary
<1>4. CASE \/ Refuse(h) \/ OutOfIterations(h) \/ AskFails(h) \/ Join(h) \/ NoSummary(h)
           \/ \E t \in Tool : ToolRuns(h, t)
           \/ StreamEnds(h) /\ ~ Add(Msg("assistant", h, 0, 0, 1))
  BY <1>4 DEF Refuse, OutOfIterations, AskFails, Join, NoSummary, ToolRuns, StoreOutput,
              BadArguments, Callback, ToolPanics, ToolStep, StreamEnds
<1>. QED
  BY <1>1, <1>2, <1>3, <1>4 DEF Steps, Loop

LEMMA NextMemory ==
  ASSUME Control, Places, [Next]_vars
  PROVE  \/ \E h \in Call, m \in Message : Says(h, m)
         \/ Cut \/ Summary \/ Clear \/ Reload \/ UNCHANGED <<messages, rows, unsaved>>
<1>1. CASE \E h \in Call : Steps(h)
  BY <1>1, StepMemory
<1>2. CASE ClearContext \/ Crash \/ UNCHANGED vars
  BY <1>2 DEF ClearContext, Crash, vars, Clear, Reload
<1>. QED
  BY <1>1, <1>2, NextIs
-----------------------------------------------------------------------------
\* What holds of memory whatever runs at the same time.

Real == /\ \A p \in DOMAIN messages : messages[p].size > 0
        /\ \A p \in DOMAIN rows : rows[p].size > 0

IsMap == gor = [h \in Call |-> gor[h]]

Base == /\ Control /\ Places /\ Memory /\ Pasts /\ Real /\ IsMap
        /\ EndsIn(messages, rows, unsaved)

\* A call only comes further.
Further(h) ==
  \/ UNCHANGED <<pc, iter, pos>>
  \/ /\ iter'[h] = iter[h]
     /\ \/ pc[h] = "idle" /\ pc'[h] \in {"loop", "streaming", "done"}
        \/ pc[h] = "loop" /\ pc'[h] \in {"asking", "done"}
        \/ pc[h] = "asking" /\ pc'[h] \in {"tools", "done"}
        \/ pc[h] = "tools" /\ pc'[h] = "results" /\ pos'[h] = pos[h]
        \/ pc[h] = "results" /\ pc'[h] = "results" /\ pos'[h] = pos[h] + 1
        \/ pc[h] = "results" /\ pc'[h] = "summarizing"
        \/ pc[h] = "streaming" /\ pc'[h] = "done"
  \/ pc[h] \in {"results", "summarizing"} /\ pc'[h] = "loop" /\ iter'[h] = iter[h] + 1

LEMMA StepsFurther ==
  ASSUME Control, NEW h \in Call, Steps(h)
  PROVE  Further(h)
<1>1. CASE Start(h) \/ Stream(h) \/ Ask(h) \/ Join(h)
  BY <1>1 DEF Control, Start, Stream, Ask, Join, Goto, MayStart, Further
<1>2. CASE Refuse(h) \/ OutOfIterations(h) \/ Reply(h) \/ AskFails(h) \/ StreamEnds(h)
  BY <1>2 DEF Control, Refuse, OutOfIterations, Reply, AskFails, StreamEnds, Return, Goto,
              MayStart, Further
<1>3. CASE \E n \in Tool : CallTools(h, n)
  BY <1>3 DEF Control, CallTools, Goto, Further
<1>4. CASE AddResult(h)
  BY <1>4 DEF Control, AddResult, Further
<1>5. CASE NoSummary(h) \/ EndSummary(h)
  BY <1>5 DEF Control, NoSummary, EndSummary, NextIteration, Goto, ResultsAdded, Further
<1>6. CASE AskSummary(h)
  BY <1>6 DEF Control, AskSummary, NextIteration, Goto, ResultsAdded, Further
<1>7. CASE \E t \in Tool : ToolRuns(h, t)
  BY <1>7 DEF ToolRuns, StoreOutput, BadArguments, Callback, ToolPanics, ToolStep, Further
<1>. QED
  BY <1>1, <1>2, <1>3, <1>4, <1>5, <1>6, <1>7 DEF Steps, Loop

LEMMA PastStays ==
  ASSUME Control, Places, [Next]_vars, NEW m \in Message, Past(m)
  PROVE  Then(m)
<1>. SUFFICES ASSUME m.role # "summary" PROVE Then(m)
  BY DEF Past, Reached, Then, Reached
<1>. DEFINE g == m.call
<1>0. /\ g \in Call /\ m.iter \in Nat /\ m.idx \in Nat /\ iter[g] \in Nat /\ pos[g] \in Nat
      /\ pc[g] # "idle" /\ m.iter <= iter[g]
  BY Bounds DEF Past, Reached, Message, Control
<1>1. ASSUME NEW h \in Call, Steps(h)
      PROVE  Then(m)
  <2>1. CASE g # h
    <3>1. pc'[g] = pc[g] /\ iter'[g] = iter[g] /\ pos'[g] = pos[g]
      BY <1>0, <1>1, <2>1, StepIsOwn
    <3>. QED
      BY <3>1 DEF Past, Reached, Then, Reached
  <2>2. CASE g = h
    <3>1. Further(g)
      BY <1>1, <2>2, StepsFurther
    <3>2. CASE UNCHANGED <<pc, iter, pos>>
      BY <3>2 DEF Past, Reached, Then, Reached
    <3>3. CASE /\ iter'[g] = iter[g]
               /\ \/ pc[g] = "loop" /\ pc'[g] \in {"asking", "done"}
                  \/ pc[g] = "asking" /\ pc'[g] \in {"tools", "done"}
                  \/ pc[g] = "tools" /\ pc'[g] = "results" /\ pos'[g] = pos[g]
                  \/ pc[g] = "results" /\ pc'[g] = "results" /\ pos'[g] = pos[g] + 1
                  \/ pc[g] = "results" /\ pc'[g] = "summarizing"
                  \/ pc[g] = "streaming" /\ pc'[g] = "done"
      BY <1>0, <3>3 DEF Past, Reached, Then, Reached
    <3>4. CASE pc[g] \in {"results", "summarizing"} /\ pc'[g] = "loop"
               /\ iter'[g] = iter[g] + 1
      BY <1>0, <3>4 DEF Past, Reached, Then, Reached
    <3>. QED
      BY <1>0, <3>1, <3>2, <3>3, <3>4 DEF Further
  <2>. QED
    BY <2>1, <2>2
<1>2. CASE Crash
  <2>1. iter'[g] = iter[g] /\ (pc'[g] = "done" \/ (pc'[g] = pc[g] /\ pc[g] = "done"))
    BY <1>0, <1>2 DEF Crash, Active
  <2>. QED
    BY <1>0, <2>1 DEF Past, Reached, Then, Reached
<1>3. CASE ClearContext \/ UNCHANGED vars
  BY <1>3 DEF ClearContext, vars, Past, Then, Reached
<1>. QED
  BY <1>1, <1>2, <1>3, NextIs

LEMMA MemoryMessages ==
  ASSUME Memory
  PROVE  /\ \A p \in DOMAIN messages : messages[p] \in Message
         /\ \A p \in DOMAIN rows : rows[p] \in Message
         /\ \A m \in unsaved : m \in Message
  BY DEF Memory

\* A cut keeps whatever holds of each message.
LEMMA EndKeeps ==
  ASSUME NEW s \in Seq(Message), NEW u, NEW k, IsEnd(u, s, k)
  PROVE  \A p \in DOMAIN u : \E q \in DOMAIN s : u[p] = s[q]
<1>1. Len(s) \in Nat /\ k \in Nat /\ Len(u) = Len(s) - k /\ u \in Seq(Message)
  BY DEF IsEnd
<1>. SUFFICES ASSUME NEW p \in DOMAIN u PROVE \E q \in DOMAIN s : u[p] = s[q]
  OBVIOUS
<1>2. PICK q \in 1 .. Len(s) : q = p + k
  BY <1>1
<1>3. u[p] = s[q]
  BY <1>2 DEF IsEnd
<1>. QED
  BY <1>2, <1>3

LEMMA SummaryKeeps ==
  ASSUME NEW s \in Seq(Message), NEW z \in Sizes, Len(s) >= 4
  PROVE  \A p \in DOMAIN Summarized(s, z) :
           \/ \E q \in DOMAIN s : Summarized(s, z)[p] = s[q]
           \/ Summarized(s, z)[p] = Msg("summary", 0, 0, 0, z)
<1>. DEFINE u == Summarized(s, z)
<1>1. /\ u \in Seq(Message) /\ Len(u) = 3
      /\ u[1] = Msg("summary", 0, 0, 0, z)
      /\ u[2] = s[Len(s) - 1] /\ u[3] = s[Len(s)]
  BY SummarizedHas
<1>2. Len(s) \in DOMAIN s /\ Len(s) - 1 \in DOMAIN s
  OBVIOUS
<1>. HIDE DEF u
<1>3. \A p \in DOMAIN u : p = 1 \/ p = 2 \/ p = 3
  BY <1>1
<1>4. \A p \in DOMAIN u : \/ \E q \in DOMAIN s : u[p] = s[q]
                          \/ u[p] = Msg("summary", 0, 0, 0, z)
  BY <1>1, <1>2, <1>3
<1>. QED
  BY <1>4 DEF u

LEMMA AppendKeeps ==
  ASSUME NEW s \in Seq(Message), NEW m \in Message
  PROVE  \A p \in DOMAIN Append(s, m) :
           \/ \E q \in DOMAIN s : Append(s, m)[p] = s[q]
           \/ Append(s, m)[p] = m
<1>. DEFINE u == Append(s, m)
<1>1. /\ u \in Seq(Message) /\ Len(u) = Len(s) + 1 /\ u[Len(s) + 1] = m
      /\ \A p \in 1 .. Len(s) : u[p] = s[p]
  BY AppendHas
<1>2. Len(s) \in Nat
  OBVIOUS
<1>. HIDE DEF u
<1>3. \A p \in DOMAIN u : p \in DOMAIN s \/ p = Len(s) + 1
  BY <1>1, <1>2
<1>4. \A p \in DOMAIN u : (\E q \in DOMAIN s : u[p] = s[q]) \/ u[p] = m
  BY <1>1, <1>3
<1>. QED
  BY <1>4 DEF u

\* The messages of memory come from memory, from the rows, from a call or from a
\* summary; those of the rows from the rows or from a call.
Comes(m) == \/ \E q \in DOMAIN messages : m = messages[q]
            \/ \E q \in DOMAIN rows : m = rows[q]
            \/ \E h \in Call, x \in Message : Says(h, x) /\ m = x
            \/ \E z \in Sizes : m = Msg("summary", 0, 0, 0, z)

LEMMA MemoryComes ==
  ASSUME Control, Places, Memory, [Next]_vars
  PROVE  /\ messages' \in Seq(Message) /\ rows' \in Seq(Message)
         /\ unsaved' \in SUBSET Message
         /\ \A p \in DOMAIN messages' : Comes(messages'[p])
<1>0. messages \in Seq(Message) /\ rows \in Seq(Message) /\ unsaved \in SUBSET Message
  BY DEF Memory
<1>1. ASSUME NEW h \in Call, NEW m \in Message, Says(h, m)
      PROVE  /\ messages' \in Seq(Message) /\ rows' \in Seq(Message)
             /\ unsaved' \in SUBSET Message
             /\ \A p \in DOMAIN messages' : Comes(messages'[p])
  <2>. DEFINE a == Append(messages, m)
  <2>1. a \in Seq(Message) /\ Append(rows, m) \in Seq(Message)
    BY <1>0, AppendHas
  <2>2. messages' = Truncated(a)
    BY <1>1 DEF Says, Add
  <2>3. \A p \in DOMAIN a : (\E q \in DOMAIN messages : a[p] = messages[q]) \/ a[p] = m
    BY <1>0, AppendKeeps
  <2>. HIDE DEF a
  <2>4. PICK k \in 0 .. Len(a) : IsEnd(messages', a, k)
    BY <2>1, <2>2, TruncatedIsEnd
  <2>5. messages' \in Seq(Message)
    BY <2>4 DEF IsEnd
  <2>6. \A p \in DOMAIN messages' : \E q \in DOMAIN a : messages'[p] = a[q]
    BY <2>1, <2>4, EndKeeps
  <2>7. \A p \in DOMAIN messages' : Comes(messages'[p])
    BY <1>1, <2>3, <2>6 DEF Comes
  <2>8. rows' \in Seq(Message) /\ unsaved' \in SUBSET Message
    BY <1>0, <1>1, <2>1 DEF Says, Add
  <2>. QED
    BY <2>5, <2>7, <2>8
<1>2. CASE Cut
  <2>1. PICK k \in 0 .. Len(messages) : IsEnd(messages', messages, k)
    BY <1>0, <1>2, TruncatedIsEnd DEF Cut
  <2>2. messages' \in Seq(Message)
    BY <2>1 DEF IsEnd
  <2>3. \A p \in DOMAIN messages' : \E q \in DOMAIN messages : messages'[p] = messages[q]
    BY <1>0, <2>1, EndKeeps
  <2>. QED
    BY <1>0, <1>2, <2>2, <2>3 DEF Cut, Comes
<1>3. CASE Summary
  <2>1. PICK z \in Sizes : messages' = Summarized(messages, z)
    BY <1>3 DEF Summary
  <2>2. messages' \in Seq(Message)
    BY <1>0, <1>3, <2>1, SummarizedHas DEF Summary
  <2>3. \A p \in DOMAIN messages' :
          \/ \E q \in DOMAIN messages : messages'[p] = messages[q]
          \/ messages'[p] = Msg("summary", 0, 0, 0, z)
    BY <1>0, <1>3, <2>1, SummaryKeeps DEF Summary
  <2>. QED
    BY <1>0, <1>3, <2>2, <2>3 DEF Summary, Comes
<1>4. CASE Clear
  <2>1. messages' \in Seq(Message) /\ DOMAIN messages' = {}
    BY <1>4 DEF Clear
  <2>. QED
    BY <1>0, <1>4, <2>1 DEF Clear
<1>5. CASE Reload
  BY <1>0, <1>5 DEF Reload, Comes
<1>6. CASE UNCHANGED <<messages, rows, unsaved>>
  BY <1>0, <1>6 DEF Comes
<1>. QED
  BY <1>1, <1>2, <1>3, <1>4, <1>5, <1>6, NextMemory

LEMMA RowsCome ==
  ASSUME Control, Places, Memory, [Next]_vars
  PROVE  \/ UNCHANGED <<rows, unsaved>>
         \/ \E h \in Call, m \in Message :
              /\ Says(h, m)
              /\ \/ rows' = Append(rows, m) /\ unsaved' = unsaved
                 \/ rows' = rows /\ unsaved' = unsaved \cup {m}
  BY NextMemory DEF Cut, Summary, Clear, Reload, Says, Add

LEMMA PastsStep ==
  ASSUME Control, Places, Memory, Pasts, [Next]_vars
  PROVE  Pasts'
<1>1. \A m \in Message : Past(m) => Then(m)
  BY PastStays
<1>2. \A h \in Call, m \in Message : Says(h, m) => ~ Past(m) /\ Then(m)
  BY SaidIsNew
<1>3. \A m : m.role = "summary" => Then(m)
  BY DEF Then, Reached
<1>4. \A z \in Sizes : Msg("summary", 0, 0, 0, z).role = "summary"
  BY DEF Msg
<1>5. /\ \A p \in DOMAIN messages : Past(messages[p]) /\ messages[p] \in Message
      /\ \A p \in DOMAIN rows : Past(rows[p]) /\ rows[p] \in Message
  BY MemoryMessages DEF Pasts
<1>6. \A m : Comes(m) => Then(m)
  BY <1>1, <1>2, <1>3, <1>4, <1>5 DEF Comes
<1>7. \A p \in DOMAIN messages' : Then(messages'[p])
  BY <1>6, MemoryComes
<1>. DEFINE R(r, u) == /\ \A p \in DOMAIN r : Then(r[p])
                       /\ \A p \in DOMAIN r : r[p].role # "summary"
                       /\ \A p \in DOMAIN r : r[p] \notin u
                       /\ \A m \in u : Then(m)
                       /\ \A m \in u : m.role # "summary"
<1>8. R(rows, unsaved)
  <2>1. \A p \in DOMAIN rows : Then(rows[p])
    BY <1>1, <1>5
  <2>2. \A m \in unsaved : Then(m)
    BY <1>1, MemoryMessages DEF Pasts
  <2>. QED
    BY <2>1, <2>2 DEF Pasts
<1>9. R(rows', unsaved')
  <2>1. CASE UNCHANGED <<rows, unsaved>>
    BY <1>8, <2>1
  <2>2. ASSUME NEW h \in Call, NEW m \in Message, Says(h, m), rows' = Append(rows, m),
               unsaved' = unsaved
        PROVE  R(rows', unsaved')
    <3>1. ~ Past(m) /\ Then(m)
      BY <1>2, <2>2
    <3>2. m.role # "summary"
      BY <2>2 DEF Says
    <3>3. \A p \in DOMAIN rows' : (\E q \in DOMAIN rows : rows'[p] = rows[q]) \/ rows'[p] = m
      BY <2>2, AppendKeeps DEF Memory
    <3>4. m \notin unsaved
      BY <3>1 DEF Pasts
    <3>5. \A p \in DOMAIN rows' : Then(rows'[p])
      BY <1>8, <3>1, <3>3
    <3>6. \A p \in DOMAIN rows' : rows'[p].role # "summary"
      BY <1>8, <3>2, <3>3
    <3>7. \A p \in DOMAIN rows' : rows'[p] \notin unsaved'
      BY <1>8, <2>2, <3>3, <3>4
    <3>. QED
      BY <1>8, <2>2, <3>5, <3>6, <3>7
  <2>3. ASSUME NEW h \in Call, NEW m \in Message, Says(h, m), rows' = rows,
               unsaved' = unsaved \cup {m}
        PROVE  R(rows', unsaved')
    <3>1. ~ Past(m) /\ Then(m)
      BY <1>2, <2>3
    <3>2. m.role # "summary"
      BY <2>3 DEF Says
    <3>3. \A p \in DOMAIN rows : rows[p] # m
      BY <1>5, <3>1
    <3>4. \A p \in DOMAIN rows' : rows'[p] \notin unsaved'
      BY <1>8, <2>3, <3>3
    <3>5. \A x \in unsaved' : Then(x)
      BY <1>8, <2>3, <3>1
    <3>6. \A x \in unsaved' : x.role # "summary"
      BY <1>8, <2>3, <3>2
    <3>. QED
      BY <1>8, <2>3, <3>4, <3>5, <3>6
  <2>. QED
    BY <2>1, <2>2, <2>3, RowsCome
<1>10. \A m : Past(m)' <=> Then(m)
  BY DEF Past, Then
<1>. QED
  BY <1>7, <1>9, <1>10 DEF Pasts, Past, Then

LEMMA RealStep ==
  ASSUME Control, Places, Memory, Real, [Next]_vars
  PROVE  Real'
<1>1. ASSUME NEW m, Comes(m)
      PROVE  m.size > 0
  <2>1. \A z \in Sizes : Msg("summary", 0, 0, 0, z).size > 0
    BY Bounds DEF Msg
  <2>. QED
    BY <1>1, <2>1 DEF Comes, Says, Real
<1>2. \A p \in DOMAIN rows' : rows'[p].size > 0
  <2>1. CASE rows' = rows
    BY <2>1 DEF Real
  <2>2. ASSUME NEW h \in Call, NEW m \in Message, Says(h, m), rows' = Append(rows, m)
        PROVE  \A p \in DOMAIN rows' : rows'[p].size > 0
    <3>1. \A p \in DOMAIN rows' : (\E q \in DOMAIN rows : rows'[p] = rows[q]) \/ rows'[p] = m
      BY <2>2, AppendKeeps DEF Memory
    <3>. QED
      BY <2>2, <3>1 DEF Real, Says
  <2>. QED
    BY <2>1, <2>2, RowsCome
<1>. QED
  BY <1>1, <1>2, MemoryComes DEF Real

LEMMA EndsStep ==
  ASSUME Base, [Next]_vars
  PROVE  EndsIn(messages, rows, unsaved)'
<1>0. /\ messages \in Seq(Message) /\ rows \in Seq(Message) /\ Control /\ Places /\ Pasts
      /\ EndsIn(messages, rows, unsaved)
  BY DEF Base, Memory
<1>. SUFFICES EndsIn(messages', rows', unsaved')
  OBVIOUS
<1>1. ASSUME NEW h \in Call, NEW m \in Message, Says(h, m)
      PROVE  EndsIn(messages', rows', unsaved')
  <2>. DEFINE a == Append(messages, m)
  <2>1. a \in Seq(Message) /\ Append(rows, m) \in Seq(Message)
    BY <1>0, AppendHas
  <2>2. messages' = Truncated(a)
    BY <1>1 DEF Says, Add
  <2>3. ~ Past(m) /\ m.role # "summary"
    BY <1>0, <1>1, SaidIsNew DEF Says
  <2>4. CASE rows' = Append(rows, m) /\ unsaved' = unsaved
    <3>1. Kept(m, unsaved)
      BY <1>0, <2>3 DEF Kept, Pasts
    <3>2. EndsIn(a, rows', unsaved')
      BY <1>0, <2>4, <3>1, EndsSaved
    <3>3. rows' \in Seq(Message)
      BY <2>1, <2>4
    <3>. HIDE DEF a
    <3>4. PICK k \in 0 .. Len(a) : IsEnd(messages', a, k)
      BY <2>1, <2>2, TruncatedIsEnd
    <3>. QED
      BY <2>1, <3>2, <3>3, <3>4, EndsCut
  <2>5. CASE rows' = rows /\ unsaved' = unsaved \cup {m}
    <3>1. \A p \in DOMAIN messages : messages[p] # m
      BY <1>0, <2>3 DEF Pasts
    <3>2. EndsIn(a, rows', unsaved')
      BY <1>0, <2>5, <3>1, EndsUnsaved
    <3>3. rows' \in Seq(Message)
      BY <1>0, <2>5
    <3>. HIDE DEF a
    <3>4. PICK k \in 0 .. Len(a) : IsEnd(messages', a, k)
      BY <2>1, <2>2, TruncatedIsEnd
    <3>. QED
      BY <2>1, <3>2, <3>3, <3>4, EndsCut
  <2>. QED
    BY <1>1, <2>4, <2>5 DEF Says, Add
<1>2. CASE Cut
  <2>1. PICK k \in 0 .. Len(messages) : IsEnd(messages', messages, k)
    BY <1>0, <1>2, TruncatedIsEnd DEF Cut
  <2>. QED
    BY <1>0, <1>2, <2>1, EndsCut DEF Cut
<1>3. CASE Summary
  BY <1>0, <1>3, EndsSummary DEF Summary
<1>4. CASE Clear
  <2>1. DOMAIN messages' = {}
    BY <1>4 DEF Clear
  <2>. QED
    BY <2>1 DEF EndsIn
<1>5. CASE Reload
  <2>1. \A p \in DOMAIN rows : Kept(rows[p], unsaved)
    BY <1>0 DEF Pasts, Kept
  <2>2. EndsIn(rows, rows, unsaved)
    BY <1>0, <2>1, EndsReloaded
  <2>. QED
    BY <1>5, <2>2 DEF Reload
<1>6. CASE UNCHANGED <<messages, rows, unsaved>>
  BY <1>0, <1>6
<1>. QED
  BY <1>0, <1>1, <1>2, <1>3, <1>4, <1>5, <1>6, NextMemory
-----------------------------------------------------------------------------
\* What a call sends.

LEMMA StepPrompt ==
  ASSUME Memory, NEW h \in Call, Steps(h)
  PROVE  /\ prompt' = [prompt EXCEPT ![h] = prompt'[h]]
         /\ \A g \in Call : g # h => prompt'[g] = prompt[g]
         /\ \/ Ask(h) /\ prompt'[h] = messages'
            \/ Stream(h) /\ prompt'[h] = Truncated(messages')
            \/ prompt'[h] = << >>
            \/ prompt'[h] = prompt[h]
<1>0. prompt = [g \in Call |-> prompt[g]]
  BY DEF Memory
<1>1. CASE Ask(h)
  BY <1>0, <1>1 DEF Ask
<1>2. CASE Stream(h)
  BY <1>0, <1>2 DEF Stream
<1>3. CASE Refuse(h) \/ OutOfIterations(h) \/ Reply(h) \/ AskFails(h) \/ StreamEnds(h)
  BY <1>0, <1>3 DEF Refuse, OutOfIterations, Reply, AskFails, StreamEnds, Return
<1>4. CASE \E n \in Tool : CallTools(h, n)
  BY <1>0, <1>4 DEF CallTools
<1>5. CASE Start(h) \/ Join(h) \/ AddResult(h) \/ NoSummary(h) \/ AskSummary(h) \/ EndSummary(h)
  BY <1>0, <1>5 DEF Start, Join, AddResult, NoSummary, AskSummary, EndSummary
<1>6. CASE \E t \in Tool : ToolRuns(h, t)
  BY <1>0, <1>6 DEF ToolRuns, StoreOutput, BadArguments, Callback, ToolPanics, ToolStep
<1>. QED
  BY <1>1, <1>2, <1>3, <1>4, <1>5, <1>6 DEF Steps, Loop

Fits(x) == Tokens(x) <= Budget \/ Len(x) <= 2

LEMMA PromptStep ==
  ASSUME Control, Places, Memory, PromptsFit, [Next]_vars
  PROVE  Memory' /\ PromptsFit'
<1>0. /\ messages' \in Seq(Message) /\ rows' \in Seq(Message)
      /\ unsaved' \in SUBSET Message /\ messages \in Seq(Message)
  BY MemoryComes DEF Memory
<1>1. Fits(<< >>) /\ << >> \in Seq(Message)
  BY DEF Fits
<1>2. \A s \in Seq(Message) : Fits(Truncated(s)) /\ Truncated(s) \in Seq(Message)
  <2>. SUFFICES ASSUME NEW s \in Seq(Message)
                PROVE  Fits(Truncated(s)) /\ Truncated(s) \in Seq(Message)
    OBVIOUS
  <2>. QED
    BY TruncatedIsEnd DEF Fits, IsEnd
<1>3. /\ prompt \in [Call -> Seq(Message)]
      /\ \A g \in Call : Fits(prompt[g])
  BY DEF Memory, PromptsFit, Fits
<1>4. /\ prompt' \in [Call -> Seq(Message)]
      /\ \A g \in Call : Fits(prompt'[g])
  <2>1. ASSUME NEW h \in Call, Steps(h)
        PROVE  /\ prompt' \in [Call -> Seq(Message)]
               /\ \A g \in Call : Fits(prompt'[g])
    <3>1. prompt'[h] \in Seq(Message) /\ Fits(prompt'[h])
      <4>1. CASE Ask(h) /\ prompt'[h] = messages'
        BY <1>0, <1>2, <4>1 DEF Ask
      <4>2. CASE Stream(h) /\ prompt'[h] = Truncated(messages')
        BY <1>0, <1>2, <4>2
      <4>3. CASE prompt'[h] = << >> \/ prompt'[h] = prompt[h]
        BY <1>1, <1>3, <4>3
      <4>. QED
        BY <2>1, <4>1, <4>2, <4>3, StepPrompt
    <3>2. prompt' = [prompt EXCEPT ![h] = prompt'[h]]
      BY <2>1, StepPrompt
    <3>3. prompt' \in [Call -> Seq(Message)]
      BY <1>3, <3>1, <3>2
    <3>. QED
      BY <1>3, <2>1, <3>1, <3>3, StepPrompt
  <2>2. CASE Crash
    BY <1>1, <2>2 DEF Crash
  <2>3. CASE ClearContext \/ UNCHANGED vars
    BY <1>3, <2>3 DEF ClearContext, vars
  <2>. QED
    BY <2>1, <2>2, <2>3, NextIs
<1>. QED
  BY <1>0, <1>4 DEF Memory, PromptsFit, Fits

LEMMA MapStep ==
  ASSUME IsMap, [Next]_vars
  PROVE  IsMap'
<1>1. \/ UNCHANGED gor
      \/ \E h \in Call : \E x : gor' = [gor EXCEPT ![h] = x]
      \/ gor' = [h \in Call |-> << >>]
  <2>1. ASSUME NEW h \in Call, Steps(h)
        PROVE  UNCHANGED gor \/ \E x : gor' = [gor EXCEPT ![h] = x]
    <3>1. CASE \E n \in Tool : CallTools(h, n)
      BY <3>1 DEF CallTools
    <3>2. CASE NoSummary(h) \/ EndSummary(h) \/ AskSummary(h)
      BY <3>2 DEF NoSummary, EndSummary, AskSummary, NextIteration
    <3>3. CASE \E t \in Tool : ToolRuns(h, t)
      BY <3>3 DEF ToolRuns, StoreOutput, BadArguments, Callback, ToolPanics, ToolStep
    <3>4. CASE \/ Start(h) \/ Stream(h) \/ Refuse(h) \/ Ask(h) \/ OutOfIterations(h)
               \/ Reply(h) \/ AskFails(h) \/ Join(h) \/ AddResult(h) \/ StreamEnds(h)
      BY <3>4 DEF Start, Stream, Refuse, Ask, OutOfIterations, Reply, AskFails, Join,
                  AddResult, StreamEnds
    <3>. QED
      BY <2>1, <3>1, <3>2, <3>3, <3>4 DEF Steps, Loop
  <2>2. CASE Crash
    BY <2>2 DEF Crash
  <2>3. CASE ClearContext \/ UNCHANGED vars
    BY <2>3 DEF ClearContext, vars
  <2>. QED
    BY <2>1, <2>2, <2>3, NextIs
<1>. QED
  BY <1>1 DEF IsMap

LEMMA BaseStep ==
  ASSUME Base, PromptsFit, [Next]_vars
  PROVE  Base' /\ PromptsFit'
<1>1. Control /\ Places /\ Memory /\ Pasts /\ Real /\ IsMap
  BY DEF Base
<1>. QED
  BY <1>1, MapStep, ControlStep, PromptStep, PastsStep, RealStep, EndsStep DEF Base

LEMMA BaseInit ==
  ASSUME Init
  PROVE  Base /\ PromptsFit
<1>1. Control
  <2>1. /\ pc \in [Call -> Where] /\ iter \in [Call -> 0 .. MaxIterations]
        /\ pos \in [Call -> 0 .. MaxTools] /\ outcome \in [Call -> Ways]
        /\ crashes \in 0 .. MaxCrashes
    BY Bounds DEF Init, Where, Ways
  <2>2. /\ DOMAIN gor = Call /\ DOMAIN out = Call
        /\ \A h \in Call : gor[h] = << >> /\ out[h] = << >>
    BY DEF Init
  <2>. QED
    BY <2>1, <2>2, NoGoroutines DEF Control
<1>2. Places
  BY DEF Init, Places, Place
<1>3. Memory
  BY DEF Init, Memory
<1>4. /\ Pasts /\ Real /\ EndsIn(messages, rows, unsaved)
  <2>1. DOMAIN messages = {} /\ DOMAIN rows = {} /\ unsaved = {}
    BY DEF Init
  <2>. QED
    BY <2>1 DEF Pasts, Real, EndsIn
<1>5. PromptsFit
  BY DEF Init, PromptsFit
<1>6. IsMap
  BY DEF Init, IsMap
<1>. QED
  BY <1>1, <1>2, <1>3, <1>4, <1>5, <1>6 DEF Base

LEMMA BaseType ==
  ASSUME Base
  PROVE  TypeOK
<1>0. Control /\ Memory /\ IsMap
  BY DEF Base
<1>1. /\ pc \in [Call -> {"idle", "loop", "asking", "tools", "results", "summarizing",
                          "streaming", "done"}]
      /\ iter \in [Call -> 0 .. MaxIterations]
      /\ pos \in [Call -> 0 .. MaxTools]
      /\ outcome \in [Call -> {"none", "refused", "reply", "error", "iterations", "lost"}]
      /\ unsaved \subseteq Message /\ crashes \in 0 .. MaxCrashes
  BY <1>0 DEF Control, Memory, Where, Ways
<1>. DEFINE G == UNION {[1 .. n -> {"running", "stored", "ended"}] : n \in 0 .. MaxTools}
<1>2. \A h \in Call : gor[h] \in G
  <2>1. \A n \in 0 .. MaxTools : [1 .. n -> {"running", "stored", "ended"}] \subseteq G
    OBVIOUS
  <2>. HIDE DEF G
  <2>. QED
    BY <1>0, <2>1 DEF Control, Goroutines, GoState
<1>3. gor \in [Call -> G]
  <2>. HIDE DEF G
  <2>. QED
    BY <1>0, <1>2 DEF IsMap
<1>4. \A h \in Call : out[h] \in [DOMAIN gor[h] -> Sizes \cup {0, 1}]
  BY <1>0 DEF Control, Goroutines
<1>5. \A s \in {messages, rows} \cup {prompt[h] : h \in Call} : Range(s) \subseteq Message
  <2>1. \A s \in Seq(Message) : Range(s) \subseteq Message
    BY DEF Range
  <2>. QED
    BY <1>0, <2>1 DEF Memory
<1>. QED
  BY <1>1, <1>3, <1>4, <1>5 DEF TypeOK

LEMMA BaseAlways == Spec => [](Base /\ PromptsFit)
<1>1. Init => Base /\ PromptsFit
  BY BaseInit
<1>2. Base /\ PromptsFit /\ [Next]_vars => (Base /\ PromptsFit)'
  BY BaseStep
<1>. QED
  BY <1>1, <1>2, PTL DEF Spec

\* The loop keeps to its shapes.
THEOREM TypeCorrect == Spec => []TypeOK
<1>1. Base /\ PromptsFit => TypeOK
  BY BaseType
<1>. QED
  BY <1>1, BaseAlways, PTL

\* Whatever was cut, summarized, cleared, lost or not saved, memory is an end of the
\* stored history.
THEOREM HistoryStaysEnd == Spec => []MemoryEndsHistory
<1>1. Base /\ PromptsFit => MemoryEndsHistory
  BY HistoryIsEndsIn DEF Base
<1>. QED
  BY <1>1, BaseAlways, PTL
-----------------------------------------------------------------------------
\* One call at a time.

LEMMA StepsAlone ==
  ASSUME Control, Single, NEW h \in Call, Steps(h)
  PROVE  /\ \A g \in Active : g = h
         /\ \A g \in Active' : g = h
         /\ Exchanging \subseteq {h} /\ Exchanging' \subseteq {h}
<1>1. \A g \in Active : g = h
  <2>1. CASE MayStart(h)
    BY <2>1 DEF MayStart
  <2>2. CASE ~ MayStart(h)
    <3>1. pc[h] \notin {"idle", "done"}
      <4>1. CASE \/ Ask(h) \/ OutOfIterations(h) \/ Reply(h) \/ AskFails(h) \/ Join(h)
                 \/ AddResult(h) \/ NoSummary(h) \/ AskSummary(h) \/ EndSummary(h)
                 \/ StreamEnds(h)
        BY <4>1 DEF Ask, OutOfIterations, Reply, AskFails, Join, AddResult, NoSummary,
                    AskSummary, EndSummary, StreamEnds, ResultsAdded
      <4>2. CASE \E n \in Tool : CallTools(h, n)
        BY <4>2 DEF CallTools
      <4>3. CASE \E t \in Tool : ToolRuns(h, t)
        BY <4>3 DEF ToolRuns, StoreOutput, BadArguments, Callback, ToolPanics, ToolStep
      <4>4. CASE Start(h) \/ Stream(h) \/ Refuse(h)
        BY <2>2, <4>4 DEF Start, Stream, Refuse
      <4>. QED
        BY <4>1, <4>2, <4>3, <4>4 DEF Steps, Loop
    <3>2. h \in Active
      BY <3>1 DEF Active
    <3>. QED
      BY <3>2 DEF Single
  <2>. QED
    BY <2>1, <2>2
<1>2. \A g \in Call : g # h => pc'[g] = pc[g]
  BY StepIsOwn
<1>3. \A g \in Active' : g = h
  BY <1>1, <1>2 DEF Active
<1>4. Exchanging \subseteq Active /\ Exchanging' \subseteq Active'
  BY DEF Exchanging, Active
<1>. QED
  BY <1>1, <1>3, <1>4

LEMMA SingleStep ==
  ASSUME Control, Single, [Next]_vars
  PROVE  Single'
<1>1. CASE \E h \in Call : Steps(h)
  BY <1>1, StepsAlone DEF Single
<1>2. CASE Crash
  <2>1. \A h \in Call : pc'[h] \in {"idle", "done"}
    BY <1>2 DEF Crash, Active
  <2>. QED
    BY <2>1 DEF Single, Active
<1>3. CASE ClearContext \/ UNCHANGED vars
  BY <1>3 DEF ClearContext, vars, Single, Active
<1>. QED
  BY <1>1, <1>2, <1>3, NextIs

\* What excuses an exchange stays.
LEMMA ExcusedStays ==
  ASSUME Control, Places, Memory, [Next]_vars
  PROVE  Excused \subseteq Excused'
<1>1. \A g \in Call : outcome[g] = "lost" => outcome'[g] = "lost" /\ iter'[g] = iter[g]
  <2>1. ASSUME NEW h \in Call, Steps(h), NEW g \in Call, outcome[g] = "lost"
        PROVE  outcome'[g] = "lost" /\ iter'[g] = iter[g]
    <3>1. CASE g # h
      BY <2>1, <3>1, StepIsOwn
    <3>2. CASE g = h
      <4>1. pc[h] = "done"
        BY <2>1, <3>2 DEF Places, Place
      <4>2. Further(h)
        BY <2>1, StepsFurther
      <4>3. UNCHANGED <<pc, iter, pos>>
        BY <4>1, <4>2 DEF Further
      <4>4. \A t \in Tool : ~ ToolRuns(h, t)
        BY <4>1 DEF ToolRuns, StoreOutput, BadArguments, Callback, ToolPanics, ToolStep
      <4>5. ~ Loop(h) /\ ~ MayStart(h)
        BY <4>1 DEF Loop, Ask, OutOfIterations, Reply, AskFails, Join, AddResult, NoSummary,
                    AskSummary, EndSummary, StreamEnds, ResultsAdded, CallTools, MayStart
      <4>. QED
        BY <2>1, <4>4, <4>5 DEF Steps, Start, Stream, Refuse
    <3>. QED
      BY <3>1, <3>2
  <2>2. CASE Crash
    BY <2>2 DEF Crash
  <2>3. CASE ClearContext \/ UNCHANGED vars
    BY <2>3 DEF ClearContext, vars
  <2>. QED
    BY <2>1, <2>2, <2>3, NextIs
<1>2. unsaved \subseteq unsaved'
  BY RowsCome
<1>3. \A x \in Exchange : x[1] \in Call
  BY DEF Exchange
<1>. QED
  BY <1>1, <1>2, <1>3 DEF Excused

\* How a step turns the exchange of its call.
Rests(h) == h \notin Exchanging /\ h \notin Exchanging'
Goes(h) == /\ h \in Exchanging /\ h \in Exchanging'
           /\ iter'[h] = iter[h] /\ pos'[h] = pos[h] /\ Len(out'[h]) = Len(out[h])
           /\ UNCHANGED <<messages, rows, unsaved>>
Closes(h) == /\ h \in Exchanging /\ h \notin Exchanging' /\ pos[h] = Len(out[h])
             /\ Cut \/ UNCHANGED <<messages, rows, unsaved>>
Speaks(h) == \E m \in Message : Says(h, m) /\ m.role \in {"calls", "tool"}

LEMMA ToolStepLen ==
  ASSUME Control, NEW h \in Call, NEW t, NEW from, NEW to, NEW s, ToolStep(h, t, from, to, s)
  PROVE  Len(out'[h]) = Len(out[h])
<1>1. out'[h] = [out[h] EXCEPT ![t] = s]
  BY DEF ToolStep, Control
<1>2. PICK n \in 0 .. MaxTools : out[h] \in [1 .. n -> Sizes \cup {0, 1}]
  BY DEF Control, Goroutines
<1>3. n \in Nat
  BY Bounds
<1>4. out'[h] \in [1 .. n -> Sizes \cup {0, 1, s}]
  BY <1>1, <1>2
<1>. QED
  BY <1>2, <1>3, <1>4

LEMMA Turns ==
  ASSUME Control, Places, NEW h \in Call, Steps(h)
  PROVE  Rests(h) \/ Goes(h) \/ Closes(h) \/ Speaks(h)
<1>1. CASE Start(h) \/ Stream(h) \/ Ask(h)
  <2>1. pc[h] \in {"idle", "loop"} /\ pc'[h] \in {"loop", "streaming", "asking"}
    BY <1>1 DEF Start, Stream, Ask, MayStart, Goto, Control
  <2>. QED
    BY <2>1 DEF Rests, Exchanging
<1>2. CASE Refuse(h) \/ OutOfIterations(h) \/ Reply(h) \/ AskFails(h) \/ StreamEnds(h)
  <2>1. pc[h] \in {"idle", "loop", "asking", "streaming"} /\ pc'[h] = "done"
    BY <1>2 DEF Refuse, OutOfIterations, Reply, AskFails, StreamEnds, MayStart, Return, Goto,
                Control
  <2>. QED
    BY <2>1 DEF Rests, Exchanging
<1>3. CASE EndSummary(h)
  <2>1. pc[h] = "summarizing" /\ pc'[h] = "loop"
    BY <1>3 DEF EndSummary, NextIteration, Goto, Control
  <2>. QED
    BY <2>1 DEF Rests, Exchanging
<1>4. CASE Join(h)
  <2>1. /\ pc[h] = "tools" /\ pc'[h] = "results"
        /\ UNCHANGED <<iter, out, pos, messages, rows, unsaved>>
    BY <1>4 DEF Join, Goto, Control
  <2>. QED
    BY <2>1 DEF Goes, Exchanging
<1>5. ASSUME NEW t \in Tool, ToolRuns(h, t)
      PROVE  Goes(h)
  <2>1. \E from, to, s : ToolStep(h, t, from, to, s)
    BY <1>5 DEF ToolRuns, StoreOutput, BadArguments, Callback, ToolPanics
  <2>2. Len(out'[h]) = Len(out[h])
    BY <2>1, ToolStepLen
  <2>3. pc[h] = "tools" /\ UNCHANGED <<pc, iter, pos, messages, rows, unsaved>>
    BY <2>1 DEF ToolStep
  <2>. QED
    BY <2>2, <2>3 DEF Goes, Exchanging
<1>6. CASE NoSummary(h)
  <2>1. /\ pc[h] = "results" /\ pos[h] = Len(out[h]) /\ pc'[h] = "loop"
        /\ UNCHANGED <<messages, rows, unsaved>>
    BY <1>6 DEF NoSummary, ResultsAdded, NextIteration, Goto, Control
  <2>. QED
    BY <2>1 DEF Closes, Exchanging
<1>7. CASE AskSummary(h)
  <2>1. pc[h] = "results" /\ pos[h] = Len(out[h]) /\ Cut
    BY <1>7 DEF AskSummary, ResultsAdded, Cut
  <2>2. pc'[h] \in {"loop", "summarizing"}
    BY <1>7 DEF AskSummary, NextIteration, Goto, Control
  <2>. QED
    BY <2>1, <2>2 DEF Closes, Exchanging
<1>8. CASE AddResult(h) \/ \E n \in Tool : CallTools(h, n)
  <2>1. PICK m \in Message : Says(h, m)
    BY <1>8, StepSays
  <2>2. pc'[h] \in {"tools", "results"}
    BY <1>8 DEF AddResult, CallTools, Goto, Control
  <2>3. m.role \in {"calls", "tool"}
    BY <2>1, <2>2 DEF Says
  <2>. QED
    BY <2>1, <2>3 DEF Speaks
<1>. QED
  BY <1>1, <1>2, <1>3, <1>4, <1>5, <1>6, <1>7, <1>8 DEF Steps, Loop
-----------------------------------------------------------------------------
\* The exchanges of memory and of the rows stay whole.

LEMMA WholeMore ==
  ASSUME NEW s, NEW X, NEW E, NEW F, NEW it, NEW o, NEW ps, E \subseteq F,
         WholeIn(s, X, E, it, o, ps)
  PROVE  WholeIn(s, X, F, it, o, ps)
  BY SettledMore DEF WholeIn

LEMMA WholeCut ==
  ASSUME NEW s \in Seq(Message), NEW u, NEW k, IsEnd(u, s, k),
         NEW X, NEW E, NEW it, NEW o, NEW ps, \A h \in X : ps[h] \in Nat,
         WholeIn(s, X, E, it, o, ps)
  PROVE  WholeIn(u, X, E, it, o, ps)
<1>1. \A h \in X : SettledBut(u, E, <<h, it[h]>>, Len(o[h]), ps[h])
  <2>. SUFFICES ASSUME NEW h \in X
                PROVE  SettledBut(u, E, <<h, it[h]>>, Len(o[h]), ps[h])
    OBVIOUS
  <2>. DEFINE x == <<h, it[h]>>
              n == Len(o[h])
              c == ps[h]
  <2>1. SettledBut(s, E, x, n, c) /\ c \in Nat
    BY DEF WholeIn
  <2>. HIDE DEF x, n, c
  <2>2. SettledBut(u, E, x, n, c)
    BY <2>1, SettledButCut
  <2>. QED
    BY <2>2 DEF x, n, c
<1>2. X = {} => Settled(u, E)
  BY SettledCut DEF WholeIn
<1>. QED
  BY <1>1, <1>2 DEF WholeIn

LEMMA WholeRests ==
  ASSUME NEW s, NEW h, Exchanging \subseteq {h}, Exchanging' \subseteq {h},
         Rests(h), Excused \subseteq Excused', Settled(s, Excused)
  PROVE  WholeThen(s)
<1>1. Exchanging' = {}
  BY DEF Rests
<1>. QED
  BY <1>1, SettledMore DEF WholeThen, WholeIn

LEMMA WholeGoes ==
  ASSUME NEW s, NEW h, Exchanging \subseteq {h}, Exchanging' \subseteq {h},
         Goes(h), Excused \subseteq Excused', Whole(s)
  PROVE  WholeThen(s)
<1>1. Exchanging = {h} /\ Exchanging' = {h}
  BY DEF Goes
<1>2. SettledBut(s, Excused, <<h, iter[h]>>, Len(out[h]), pos[h])
  BY <1>1 DEF Whole, WholeIn
<1>3. SettledBut(s, Excused', <<h, iter[h]>>, Len(out[h]), pos[h])
  BY <1>2, SettledMore
<1>4. SettledBut(s, Excused', <<h, iter'[h]>>, Len(out'[h]), pos'[h])
  BY <1>3 DEF Goes
<1>. QED
  BY <1>1, <1>4 DEF WholeThen, WholeIn

LEMMA WholeCloses ==
  ASSUME NEW s, NEW h, Exchanging \subseteq {h}, Exchanging' \subseteq {h},
         Closes(h), Excused \subseteq Excused', Whole(s)
  PROVE  WholeThen(s)
<1>1. Exchanging = {h} /\ Exchanging' = {}
  BY DEF Closes
<1>2. SettledBut(s, Excused, <<h, iter[h]>>, Len(out[h]), pos[h])
  BY <1>1 DEF Whole, WholeIn
<1>3. Settled(s, Excused)
  BY <1>2, SettledEnds DEF Closes
<1>. QED
  BY <1>1, <1>3, SettledMore DEF WholeThen, WholeIn

\* A message of a call: appended to s, or, not saved, an excuse.
LEMMA WholeSays ==
  ASSUME Control, Places, Memory, NEW h \in Call, NEW m \in Message, Says(h, m),
         Exchanging \subseteq {h}, Exchanging' \subseteq {h},
         Excused \subseteq Excused', NEW s \in Seq(Message), Whole(s)
  PROVE  /\ WholeThen(Append(s, m))
         /\ m \in unsaved' => WholeThen(s)
<1>0. h \in Call /\ pos[h] \in Nat /\ iter[h] \in 0 .. MaxIterations
  BY Bounds DEF Control
<1>1. CASE m.role \in {"user", "assistant"}
  <2>1. Exchanging = {} /\ Exchanging' = {}
    BY <1>1 DEF Says, Exchanging
  <2>2. Settled(s, Excused)
    BY <2>1 DEF Whole, WholeIn
  <2>3. Settled(Append(s, m), Excused)
    BY <1>1, <2>2, SettledAdded
  <2>. QED
    BY <2>1, <2>2, <2>3, SettledMore DEF WholeThen, WholeIn
<1>2. CASE m.role = "calls"
  <2>1. Exchanging = {} /\ Exchanging' = {h}
    BY <1>2 DEF Says, Exchanging
  <2>2. Settled(s, Excused)
    BY <2>1 DEF Whole, WholeIn
  <2>3. Settled(s, Excused')
    BY <2>2, SettledMore
  <2>4. /\ SettledBut(Append(s, m), Excused', <<m.call, m.iter>>, m.idx, 0)
        /\ \A x, n, c : SettledBut(s, Excused', x, n, c)
    BY <2>3, SettledBegins
  <2>5. m.call = h /\ m.iter = iter'[h] /\ m.idx = Len(out'[h]) /\ pos'[h] = 0
    BY <1>2 DEF Says
  <2>6. SettledBut(Append(s, m), Excused', <<h, iter'[h]>>, Len(out'[h]), pos'[h])
    BY <2>4, <2>5
  <2>7. SettledBut(s, Excused', <<h, iter'[h]>>, Len(out'[h]), pos'[h])
    BY <2>4
  <2>. QED
    BY <2>1, <2>6, <2>7 DEF WholeThen, WholeIn
<1>3. CASE m.role = "tool"
  <2>. DEFINE i == iter[h]
              n == Len(out[h])
              c == pos[h]
  <2>1. /\ Exchanging = {h} /\ Exchanging' = {h}
        /\ iter'[h] = i /\ Len(out'[h]) = n /\ pos'[h] = c + 1
        /\ m.call = h /\ m.iter = i /\ m.idx = c + 1 /\ c \in Nat
    BY <1>0, <1>3 DEF Says, Exchanging
  <2>2. SettledBut(s, Excused, <<h, i>>, n, c)
    BY <2>1 DEF Whole, WholeIn
  <2>3. SettledBut(s, Excused', <<h, i>>, n, c)
    BY <2>2, SettledMore
  <2>5. m \in unsaved' => <<h, i>> \in Excused'
    BY <1>0, <2>1 DEF Excused, Exchange
  <2>. HIDE DEF i, n, c
  <2>6. SettledBut(Append(s, m), Excused', <<h, i>>, n, c + 1)
    BY <1>3, <2>1, <2>3, SettledGoesOn
  <2>7. SettledBut(Append(s, m), Excused', <<h, iter'[h]>>, Len(out'[h]), pos'[h])
    BY <2>1, <2>6
  <2>8. ASSUME m \in unsaved'
        PROVE  SettledBut(s, Excused', <<h, iter'[h]>>, Len(out'[h]), pos'[h])
    <3>1. Settled(s, Excused')
      BY <2>3, <2>5, <2>8, SettledEnds
    <3>. QED
      BY <3>1, SettledBegins
  <2>. QED
    BY <2>1, <2>7, <2>8 DEF WholeThen, WholeIn
<1>. QED
  BY <1>1, <1>2, <1>3 DEF Says

LEMMA WholeStep ==
  ASSUME Base, Order, [Next]_vars
  PROVE  WholeThen(messages') /\ WholeThen(rows')
<1>0. /\ Control /\ Places /\ Memory /\ Single /\ Whole(messages) /\ Whole(rows)
      /\ messages \in Seq(Message) /\ rows \in Seq(Message)
  BY DEF Base, Order, Memory
<1>1. Excused \subseteq Excused'
  BY <1>0, ExcusedStays
<1>2. /\ Control'
      /\ \A h \in Exchanging' : pos'[h] \in Nat
  BY <1>0, ControlStep, Bounds DEF Control, Exchanging
<1>3. ASSUME NEW s \in Seq(Message), NEW u, u = Truncated(s), WholeThen(s)
      PROVE  WholeThen(u)
  <2>1. PICK k : IsEnd(u, s, k)
    BY <1>3, TruncatedIsEnd
  <2>. QED
    BY <1>2, <1>3, <2>1, WholeCut DEF WholeThen
<1>4. ASSUME NEW h \in Call, Steps(h)
      PROVE  WholeThen(messages') /\ WholeThen(rows')
  <2>1. Exchanging \subseteq {h} /\ Exchanging' \subseteq {h}
    BY <1>0, <1>4, StepsAlone
  <2>2. ASSUME NEW m \in Message, Says(h, m)
        PROVE  WholeThen(messages') /\ WholeThen(rows')
    <3>1. Append(messages, m) \in Seq(Message)
      BY <1>0
    <3>2. WholeThen(Append(messages, m))
      BY <1>0, <1>1, <2>1, <2>2, WholeSays
    <3>3. WholeThen(messages')
      BY <1>3, <2>2, <3>1, <3>2 DEF Says, Add
    <3>4. WholeThen(Append(rows, m)) /\ (m \in unsaved' => WholeThen(rows))
      BY <1>0, <1>1, <2>1, <2>2, WholeSays
    <3>5. WholeThen(rows')
      BY <2>2, <3>4 DEF Says, Add
    <3>. QED
      BY <3>3, <3>5
  <2>3. CASE \A m \in Message : ~ Says(h, m)
    <3>1. Cut \/ Summary \/ UNCHANGED <<messages, rows, unsaved>>
      BY <1>0, <1>4, <2>3, StepMemory
    <3>2. rows' = rows
      BY <3>1 DEF Cut, Summary
    <3>3. CASE Rests(h)
      <4>1. Exchanging = {}
        BY <2>1, <3>3 DEF Rests
      <4>2. Settled(messages, Excused) /\ Settled(rows, Excused)
        BY <1>0, <4>1 DEF Whole, WholeIn
      <4>3. WholeThen(messages) /\ WholeThen(rows)
        BY <1>1, <2>1, <3>3, <4>2, WholeRests
      <4>4. CASE Cut
        BY <1>0, <1>3, <3>2, <4>3, <4>4 DEF Cut
      <4>5. CASE Summary
        <5>1. Settled(messages', Excused)
          BY <1>0, <4>2, <4>5, SettledSummary DEF Summary
        <5>. QED
          BY <1>1, <2>1, <3>2, <3>3, <4>3, <5>1, WholeRests
      <4>6. CASE UNCHANGED <<messages, rows, unsaved>>
        BY <4>3, <4>6
      <4>. QED
        BY <3>1, <4>4, <4>5, <4>6
    <3>4. CASE Goes(h)
      <4>1. WholeThen(messages) /\ WholeThen(rows)
        BY <1>0, <1>1, <2>1, <3>4, WholeGoes
      <4>. QED
        BY <3>4, <4>1 DEF Goes
    <3>5. CASE Closes(h)
      <4>1. WholeThen(messages) /\ WholeThen(rows)
        BY <1>0, <1>1, <2>1, <3>5, WholeCloses
      <4>. QED
        BY <1>0, <1>3, <3>2, <3>5, <4>1 DEF Closes, Cut
    <3>. QED
      BY <1>0, <1>4, <2>3, <3>3, <3>4, <3>5, Turns DEF Speaks
  <2>. QED
    BY <2>2, <2>3
<1>5. CASE Crash
  <2>1. messages' = rows /\ rows' = rows /\ Exchanging' = {}
    BY <1>5 DEF Crash, Exchanging, Active
  <2>2. \A h \in Exchanging : <<h, iter[h]>> \in Excused'
    <3>1. \A h \in Exchanging : /\ h \in Call /\ outcome'[h] = "lost" /\ iter'[h] = iter[h]
                                /\ iter[h] \in 0 .. MaxIterations
      BY <1>0, <1>5 DEF Crash, Exchanging, Active, Control
    <3>. QED
      BY <3>1 DEF Excused, Exchange
  <2>3. Settled(rows, Excused')
    <3>1. CASE Exchanging = {}
      BY <1>0, <1>1, <3>1, SettledMore DEF Whole, WholeIn
    <3>2. CASE Exchanging # {}
      <4>1. PICK h \in Exchanging : SettledBut(rows, Excused, <<h, iter[h]>>, Len(out[h]), pos[h])
        BY <1>0, <3>2 DEF Whole, WholeIn
      <4>2. SettledBut(rows, Excused', <<h, iter[h]>>, Len(out[h]), pos[h])
        BY <1>1, <4>1, SettledMore
      <4>. QED
        BY <2>2, <4>2, SettledEnds
    <3>. QED
      BY <3>1, <3>2
  <2>. QED
    BY <2>1, <2>3 DEF WholeThen, WholeIn
<1>6. CASE ClearContext \/ UNCHANGED vars
  <2>1. UNCHANGED <<pc, iter, out, pos, outcome, rows, unsaved>>
    BY <1>6 DEF ClearContext, vars
  <2>2. Exchanging' = Exchanging /\ Excused' = Excused
    BY <2>1 DEF Exchanging, Excused
  <2>3. WholeThen(rows') /\ WholeThen(messages)
    BY <1>0, <2>1, <2>2 DEF Whole, WholeThen
  <2>4. CASE ClearContext
    <3>1. Exchanging = {} /\ DOMAIN messages' = {}
      BY <2>4 DEF ClearContext, Exchanging
    <3>. QED
      BY <2>2, <2>3, <3>1 DEF WholeThen, WholeIn, Settled
  <2>. QED
    BY <1>6, <2>3, <2>4 DEF vars
<1>. QED
  BY <1>4, <1>5, <1>6, NextIs
-----------------------------------------------------------------------------
\* Results follow their calls.

LEMMA NewestPrecedes ==
  ASSUME NEW m, NEW r, NEW h, NEW i, NEW c \in Nat, Newest(m, h, i, c),
         r.call = h, r.iter = i, r.idx = c + 1
  PROVE  Precedes(m, r)
  BY DEF Newest, Precedes

LEMMA FollowsStep ==
  ASSUME Base, Order, [Next]_vars
  PROVE  Follows(messages', unsaved') /\ Follows(rows', unsaved')
<1>0. /\ Control /\ Places /\ Memory /\ Follows(messages, unsaved) /\ Follows(rows, unsaved)
      /\ messages \in Seq(Message) /\ rows \in Seq(Message)
      /\ \A h \in Call : pos[h] \in Nat
  BY Bounds DEF Base, Order, Memory, Control
<1>1. ASSUME NEW s \in Seq(Message), NEW U, Follows(s, U)
      PROVE  Follows(Truncated(s), U)
  <2>1. PICK k : IsEnd(Truncated(s), s, k)
    BY TruncatedIsEnd
  <2>. QED
    BY <1>1, <2>1, FollowsCut
<1>2. unsaved \subseteq unsaved'
  BY <1>0, RowsCome
<1>3. Follows(messages, unsaved') /\ Follows(rows, unsaved')
  BY <1>0, <1>2, FollowsMore
<1>4. ASSUME NEW h \in Call, NEW m \in Message, Says(h, m)
      PROVE  Follows(messages', unsaved') /\ Follows(rows', unsaved')
  <2>1. ASSUME m.role = "tool"
        PROVE  /\ messages # << >> /\ Precedes(Last(messages), m)
               /\ \/ rows # << >> /\ Precedes(Last(rows), m)
                  \/ \E x \in unsaved : Precedes(x, m)
    <3>1. /\ m.call = h /\ m.iter = iter[h] /\ m.idx = pos[h] + 1 /\ h \in Exchanging
      BY <1>4, <2>1 DEF Says, Exchanging
    <3>2. Tells(h) /\ pos[h] \in Nat
      BY <1>0 DEF Order
    <3>3. \A x : Newest(x, h, iter[h], pos[h]) => Precedes(x, m)
      BY <3>1, <3>2, NewestPrecedes
    <3>. QED
      BY <3>1, <3>2, <3>3 DEF Tells
  <2>2. Append(messages, m) \in Seq(Message)
    BY <1>0
  <2>3. Follows(Append(messages, m), unsaved')
    BY <1>0, <1>3, <2>1, FollowsAdded
  <2>4. Follows(messages', unsaved')
    BY <1>1, <1>4, <2>2, <2>3 DEF Says, Add
  <2>5. m.role = "tool" => \/ rows # << >> /\ Precedes(Last(rows), m)
                           \/ \E x \in unsaved' : Precedes(x, m)
    BY <1>2, <2>1
  <2>6. Follows(Append(rows, m), unsaved')
    BY <1>0, <1>3, <2>5, FollowsAdded
  <2>7. Follows(rows', unsaved')
    BY <1>3, <1>4, <2>6 DEF Says, Add
  <2>. QED
    BY <2>4, <2>7
<1>5. CASE Cut
  BY <1>0, <1>1, <1>3, <1>5 DEF Cut
<1>6. CASE Summary
  BY <1>0, <1>3, <1>6, FollowsSummary DEF Summary
<1>7. CASE Clear
  <2>1. DOMAIN messages' = {} /\ rows' = rows
    BY <1>7 DEF Clear
  <2>. QED
    BY <1>3, <2>1 DEF Follows
<1>8. CASE Reload \/ UNCHANGED <<messages, rows, unsaved>>
  BY <1>3, <1>8 DEF Reload
<1>. QED
  BY <1>0, <1>4, <1>5, <1>6, <1>7, <1>8, NextMemory

-----------------------------------------------------------------------------
\* What memory and the prompts end with.

LEMMA AddEnds ==
  ASSUME NEW s \in Seq(Message), NEW m \in Message
  PROVE  /\ Append(s, m) # << >> /\ Last(Append(s, m)) = m
         /\ Truncated(Append(s, m)) # << >> /\ Last(Truncated(Append(s, m))) = m
<1>. DEFINE a == Append(s, m)
<1>1. a \in Seq(Message) /\ Len(a) = Len(s) + 1 /\ a[Len(s) + 1] = m /\ Len(s) \in Nat
  BY AppendHas
<1>. HIDE DEF a
<1>2. a # << >> /\ Last(a) = m
  BY <1>1 DEF Last
<1>3. Truncated(a) # << >> /\ Last(Truncated(a)) = m
  BY <1>1, <1>2, TruncatedEndsSame
<1>. QED
  BY <1>2, <1>3 DEF a

LEMMA SummaryEnds ==
  ASSUME NEW s \in Seq(Message), NEW z \in Sizes, Len(s) >= 4
  PROVE  Summarized(s, z) # << >> /\ Last(Summarized(s, z)) = Last(s)
<1>1. PICK u : u = Summarized(s, z)
  OBVIOUS
<1>2. u \in Seq(Message) /\ Len(u) = 3 /\ u[3] = s[Len(s)]
  BY <1>1, SummarizedHas
<1>3. u # << >>
  <2>1. Len(<< >>) = 0
    OBVIOUS
  <2>. SUFFICES ASSUME u = << >> PROVE FALSE
    OBVIOUS
  <2>2. Len(u) = 0
    BY <2>1
  <2>. QED
    BY <1>2, <2>2
<1>4. Last(u) = u[3] /\ Last(s) = s[Len(s)]
  BY <1>2 DEF Last
<1>. QED
  BY <1>1, <1>2, <1>3, <1>4

LEMMA TellsOwn ==
  ASSUME Base, Order, NEW h \in Call, Steps(h)
  PROVE  Tells(h)'
<1>0. /\ Control /\ Places /\ Place(h) /\ Memory /\ Tells(h)
      /\ messages \in Seq(Message) /\ rows \in Seq(Message)
      /\ pos[h] \in Nat /\ iter[h] \in Nat /\ Len(out[h]) \in Nat
  BY Bounds, OutShape DEF Base, Order, Memory, Control, Places
<1>1. CASE Start(h) \/ Stream(h)
  <2>1. PICK m \in Message : Says(h, m)
    BY <1>0, <1>1, StepSays
  <2>2. /\ pc[h] = "idle" /\ UNCHANGED iter
        /\ \/ pc'[h] = "loop"
           \/ pc'[h] = "streaming" /\ prompt'[h] = Truncated(messages')
    BY <1>0, <1>1 DEF Start, Stream, MayStart, Goto, Control, Memory
  <2>3. m.role = "user" /\ m.call = h /\ iter[h] = 0
    BY <1>0, <2>1, <2>2 DEF Says, Place
  <2>4. messages' # << >> /\ Last(messages') = m /\ messages' \in Seq(Message)
    <3>1. messages' = Truncated(Append(messages, m)) /\ Append(messages, m) \in Seq(Message)
      BY <1>0, <2>1 DEF Says, Add
    <3>2. messages' # << >> /\ Last(messages') = m
      BY <1>0, <3>1, AddEnds
    <3>3. messages' \in Seq(Message)
      BY <3>1, TruncatedIsEnd DEF IsEnd
    <3>. QED
      BY <3>2, <3>3
  <2>5. News(Last(messages'), h, iter'[h])
    BY <2>2, <2>3, <2>4 DEF News
  <2>6. Truncated(messages') # << >> /\ Last(Truncated(messages')) = Last(messages')
    BY <2>4, TruncatedEndsSame
  <2>. QED
    BY <2>2, <2>4, <2>5, <2>6 DEF Tells, Exchanging
<1>2. CASE Ask(h)
  <2>1. /\ pc[h] = "loop" /\ pc'[h] = "asking" /\ iter'[h] = iter[h]
        /\ messages' = Truncated(messages) /\ prompt'[h] = messages'
    BY <1>0, <1>2 DEF Ask, Goto, Control, Memory
  <2>2. messages # << >> /\ News(Last(messages), h, iter[h])
    BY <1>0, <2>1 DEF Tells
  <2>3. messages' # << >> /\ Last(messages') = Last(messages)
    BY <1>0, <2>1, <2>2, TruncatedEndsSame
  <2>. QED
    BY <2>1, <2>2, <2>3 DEF Tells, Exchanging
<1>3. CASE Refuse(h) \/ OutOfIterations(h) \/ Reply(h) \/ AskFails(h) \/ StreamEnds(h)
  <2>1. pc'[h] = "done"
    BY <1>3 DEF Refuse, OutOfIterations, Reply, AskFails, StreamEnds, Return, Goto, Control,
                Base
  <2>. QED
    BY <2>1 DEF Tells, Exchanging
<1>4. CASE Goes(h)
  <2>1. pc'[h] \in {"tools", "results"} /\ h \in Exchanging
    BY <1>4 DEF Goes, Exchanging
  <2>2. /\ UNCHANGED <<messages, rows, unsaved>> /\ iter'[h] = iter[h] /\ pos'[h] = pos[h]
    BY <1>4 DEF Goes
  <2>. QED
    BY <1>0, <2>1, <2>2 DEF Tells
<1>5. CASE Closes(h)
  <2>1. messages # << >> /\ Newest(Last(messages), h, iter[h], pos[h])
    BY <1>0, <1>5 DEF Tells, Closes
  <2>2. pos[h] > 0
    BY <1>0, <1>5 DEF Closes, Place, Exchanging
  <2>3. News(Last(messages), h, iter[h] + 1)
    BY <1>0, <2>1, <2>2 DEF Newest, News
  <2>4. messages' # << >> /\ Last(messages') = Last(messages)
    BY <1>0, <1>5, <2>1, TruncatedEndsSame DEF Closes, Cut
  <2>5. \/ pc'[h] = "loop" /\ iter'[h] = iter[h] + 1
        \/ pc'[h] = "summarizing" /\ iter'[h] = iter[h]
    <3>1. Further(h)
      BY <1>0, StepsFurther
    <3>2. pc'[h] \notin {"tools", "results"} /\ pc[h] \in {"tools", "results"}
      BY <1>5 DEF Closes, Exchanging
    <3>. QED
      BY <3>1, <3>2 DEF Further
  <2>6. CASE pc'[h] = "loop" /\ iter'[h] = iter[h] + 1
    BY <2>3, <2>4, <2>6 DEF Tells, Exchanging
  <2>7. CASE pc'[h] = "summarizing" /\ iter'[h] = iter[h]
    BY <2>3, <2>4, <2>7 DEF Tells, Exchanging
  <2>. QED
    BY <2>5, <2>6, <2>7
<1>6. CASE Speaks(h)
  <2>1. PICK m \in Message : Says(h, m) /\ m.role \in {"calls", "tool"}
    BY <1>6 DEF Speaks
  <2>2. messages' # << >> /\ Last(messages') = m
    BY <1>0, <2>1, AddEnds DEF Says, Add
  <2>3. /\ m.call = h /\ m.iter = iter'[h] /\ pc'[h] \in {"tools", "results"}
        /\ Newest(m, h, iter'[h], pos'[h])
    BY <1>0, <2>1 DEF Says, Newest
  <2>4. (rows' # << >> /\ Last(rows') = m) \/ m \in unsaved'
    BY <1>0, <2>1, AddEnds DEF Says, Add
  <2>. QED
    BY <2>2, <2>3, <2>4 DEF Tells
<1>7. CASE EndSummary(h)
  <2>1. pc[h] = "summarizing" /\ pc'[h] = "loop" /\ iter'[h] = iter[h] + 1
    BY <1>0, <1>7 DEF EndSummary, NextIteration, Goto, Control
  <2>2. messages # << >> /\ News(Last(messages), h, iter[h] + 1)
    BY <1>0, <2>1 DEF Tells
  <2>3. messages' = messages \/ (\E z \in Sizes : messages' = Summarized(messages, z))
    BY <1>7 DEF EndSummary
  <2>4. messages' # << >> /\ Last(messages') = Last(messages)
    <3>1. CASE Len(messages) >= 4
      BY <1>0, <2>2, <2>3, <3>1, SummaryEnds
    <3>2. CASE ~ (Len(messages) >= 4)
      <4>1. Len(messages) < 4
        BY <1>0, <3>2
      <4>2. messages' = messages
        BY <2>3, <4>1 DEF Summarized, WithSummary
      <4>. QED
        BY <2>2, <4>2
    <3>. QED
      BY <3>1, <3>2
  <2>. QED
    BY <2>1, <2>2, <2>4 DEF Tells, Exchanging
<1>8. \/ Goes(h) \/ Closes(h) \/ Speaks(h) \/ EndSummary(h)
      \/ Start(h) \/ Stream(h) \/ Ask(h)
      \/ Refuse(h) \/ OutOfIterations(h) \/ Reply(h) \/ AskFails(h) \/ StreamEnds(h)
  <2>1. CASE Rests(h)
    <3>1. \A t \in Tool : ~ ToolRuns(h, t)
      BY <2>1 DEF Rests, Exchanging, ToolRuns, StoreOutput, BadArguments, Callback,
                  ToolPanics, ToolStep
    <3>2. ~ Join(h) /\ ~ AddResult(h) /\ ~ NoSummary(h) /\ ~ AskSummary(h)
      BY <2>1 DEF Rests, Exchanging, Join, AddResult, NoSummary, AskSummary, ResultsAdded
    <3>3. \A n \in Tool : ~ CallTools(h, n)
      BY <1>0, <2>1 DEF Rests, Exchanging, CallTools, Goto, Control
    <3>. QED
      BY <3>1, <3>2, <3>3 DEF Steps, Loop
  <2>. QED
    BY <1>0, <2>1, Turns
<1>. QED
  BY <1>1, <1>2, <1>3, <1>4, <1>5, <1>6, <1>7, <1>8

LEMMA TellsStep ==
  ASSUME Base, Order, [Next]_vars
  PROVE  \A g \in Call : Tells(g)'
<1>0. Control /\ Single
  BY DEF Base, Order
<1>1. ASSUME NEW g \in Call, pc'[g] \in {"idle", "done"}
      PROVE  Tells(g)'
  BY <1>1 DEF Tells, Exchanging
<1>2. ASSUME NEW h \in Call, Steps(h), NEW g \in Call
      PROVE  Tells(g)'
  <2>1. CASE g = h
    BY <1>2, <2>1, TellsOwn
  <2>2. CASE g # h
    <3>1. g \notin Active'
      BY <1>0, <1>2, <2>2, StepsAlone
    <3>. QED
      BY <1>1, <3>1 DEF Active
  <2>. QED
    BY <2>1, <2>2
<1>3. CASE Crash
  <2>1. \A g \in Call : pc'[g] \in {"idle", "done"}
    BY <1>3 DEF Crash, Active
  <2>. QED
    BY <1>1, <2>1
<1>4. CASE ClearContext
  <2>1. \A g \in Call : pc'[g] \in {"idle", "done"}
    BY <1>4 DEF ClearContext
  <2>. QED
    BY <1>1, <2>1
<1>5. CASE UNCHANGED vars
  <2>1. \A g \in Call : Tells(g)' <=> Tells(g)
    BY <1>5 DEF vars, Tells, Exchanging
  <2>. QED
    BY <2>1 DEF Order
<1>. QED
  BY <1>2, <1>3, <1>4, <1>5, NextIs

LEMMA PromptsStep ==
  ASSUME Base, Order, [Next]_vars
  PROVE  \A g \in Call : Settled(prompt'[g], Excused')
<1>0. /\ Control /\ Places /\ Memory /\ Single /\ Whole(messages)
      /\ messages \in Seq(Message) /\ DOMAIN prompt = Call
  BY DEF Base, Order, Memory
<1>1. Excused \subseteq Excused'
  BY <1>0, ExcusedStays
<1>2. \A g \in Call : Settled(prompt[g], Excused')
  BY <1>1, SettledMore DEF Order
<1>3. Settled(<< >>, Excused')
  BY DEF Settled
<1>4. messages' \in Seq(Message)
  BY <1>0, MemoryComes
<1>5. ASSUME NEW h \in Call, Steps(h), NEW g \in Call
      PROVE  Settled(prompt'[g], Excused')
  <2>1. CASE g # h
    BY <1>2, <1>5, <1>0, <2>1, StepPrompt
  <2>2. CASE g = h
    <3>1. CASE prompt'[h] = << >> \/ prompt'[h] = prompt[h]
      BY <1>2, <1>3, <2>2, <3>1
    <3>2. ASSUME Ask(h) \/ Stream(h)
          PROVE  Settled(messages', Excused')
      <4>1. Exchanging' = {}
        <5>1. pc'[h] \in {"asking", "streaming"}
          BY <1>0, <3>2 DEF Ask, Stream, Goto, Control
        <5>2. h \notin Exchanging'
          BY <5>1 DEF Exchanging
        <5>. QED
          BY <1>0, <1>5, <5>2, StepsAlone
      <4>. QED
        BY <4>1, WholeStep DEF WholeThen, WholeIn
    <3>3. CASE Ask(h) /\ prompt'[h] = messages'
      BY <2>2, <3>2, <3>3
    <3>4. CASE Stream(h) /\ prompt'[h] = Truncated(messages')
      <4>1. PICK k : IsEnd(Truncated(messages'), messages', k)
        BY <1>4, TruncatedIsEnd
      <4>. QED
        BY <1>4, <2>2, <3>2, <3>4, <4>1, SettledCut
    <3>. QED
      BY <1>0, <1>5, <3>1, <3>3, <3>4, StepPrompt
  <2>. QED
    BY <2>1, <2>2
<1>6. CASE Crash
  BY <1>3, <1>6 DEF Crash
<1>7. CASE ClearContext \/ UNCHANGED vars
  BY <1>2, <1>7 DEF ClearContext, vars
<1>. QED
  BY <1>5, <1>6, <1>7, NextIs
-----------------------------------------------------------------------------
\* The order of messages, when a channel waits for each answer.

LEMMA OrderStep ==
  ASSUME Base, Order, [Next]_vars
  PROVE  Order'
<1>1. Single'
  BY SingleStep DEF Base, Order
<1>2. Whole(messages)' /\ Whole(rows)'
  BY WholeStep DEF Whole, WholeThen
<1>. QED
  BY <1>1, <1>2, FollowsStep, TellsStep, PromptsStep DEF Order

LEMMA OrderInit ==
  ASSUME Init
  PROVE  Order
<1>1. \A h \in Call : pc[h] = "idle" /\ prompt[h] = << >>
  BY DEF Init
<1>2. Active = {} /\ Exchanging = {}
  BY <1>1 DEF Active, Exchanging
<1>3. messages = << >> /\ rows = << >>
  BY DEF Init
<1>4. \A E : Settled(<< >>, E)
  BY DEF Settled
<1>5. \A U : Follows(<< >>, U)
  BY DEF Follows
<1>6. Whole(messages) /\ Whole(rows)
  BY <1>2, <1>3, <1>4 DEF Whole, WholeIn
<1>7. \A h \in Call : Tells(h)
  BY <1>1, <1>2 DEF Tells
<1>. QED
  BY <1>1, <1>2, <1>3, <1>4, <1>5, <1>6, <1>7 DEF Order, Single

LEMMA OrderSound ==
  ASSUME Base, PromptsFit, Order
  PROVE  ResultsAreSound /\ PromptsAreSound
<1>1. ResultsAreSound
  BY DEF Base, Order, Real, Follows, ResultsAreSound, ResultsFollowCalls, ResultsAreReal
<1>2. PromptsAreAnswered
  <2>. SUFFICES ASSUME NEW h \in Call, NEW p \in DOMAIN prompt[h],
                       prompt[h][p].role = "calls"
                PROVE  \/ Answers(prompt[h], p, prompt[h][p].idx)
                       \/ /\ outcome[prompt[h][p].call] = "lost"
                          /\ prompt[h][p].iter = iter[prompt[h][p].call]
                       \/ \E r \in unsaved : /\ r.call = prompt[h][p].call
                                             /\ r.iter = prompt[h][p].iter
    BY DEF PromptsAreAnswered, Answers
  <2>. DEFINE m == prompt[h][p]
  <2>1. Answers(prompt[h], p, m.idx) \/ <<m.call, m.iter>> \in Excused
    BY DEF Order, Settled
  <2>. HIDE DEF m
  <2>2. <<m.call, m.iter>> \in Excused =>
          \/ outcome[m.call] = "lost" /\ m.iter = iter[m.call]
          \/ \E r \in unsaved : r.call = m.call /\ r.iter = m.iter
    BY DEF Excused
  <2>. QED
    BY <2>1, <2>2 DEF m
<1>3. PromptsEndWithNews
  <2>. SUFFICES ASSUME NEW h \in Call, pc[h] \in {"asking", "streaming"}
                PROVE  /\ Last(prompt[h]).call = h
                       /\ IF iter[h] = 0 THEN Last(prompt[h]).role = "user"
                          ELSE /\ Last(prompt[h]).role = "tool"
                               /\ Last(prompt[h]).iter = iter[h] - 1
    BY DEF PromptsEndWithNews
  <2>. QED
    BY DEF Order, Tells, News
<1>. QED
  BY <1>1, <1>2, <1>3 DEF PromptsAreSound

LEMMA OrderAlways ==
  Spec => [](Base /\ PromptsFit /\ Order)
<1>1. Init => Base /\ PromptsFit /\ Order
  BY BaseInit, OrderInit
<1>2. Base /\ PromptsFit /\ Order /\ [Next]_vars => (Base /\ PromptsFit /\ Order)'
  BY BaseStep, OrderStep
<1>. QED
  BY <1>1, <1>2, PTL DEF Spec

\* Every result in memory is found behind its call and its neighbours, unless a cut or
\* a save that failed parted them; and none is empty.
THEOREM ResultsStaySound == Spec => []ResultsAreSound
<1>1. Base /\ PromptsFit /\ Order => ResultsAreSound
  BY OrderSound
<1>. QED
  BY <1>1, OrderAlways, PTL

\* And a provider is sent whole exchanges, ending with what is new, within the
\* budget.
THEOREM PromptsStaySound == Spec => []PromptsAreSound
<1>1. Base /\ PromptsFit /\ Order => PromptsAreSound
  BY OrderSound
<1>. QED
  BY <1>1, OrderAlways, PTL
=============================================================================
