--------------------------- MODULE ProviderMessages ---------------------------
(***************************************************************************)
(* What a provider is sent of a conversation (internal/provider: openai.go,*)
(* anthropic.go, gemini.go, ollama.go).  Each adapter writes the messages  *)
(* in its protocol's form and reads the calls of a response from it; a     *)
(* result of a tool finds its call again by an identifier, by the name of  *)
(* the function or by its place, and not every protocol has identifiers.   *)
(* The conversation may go to another provider at every request.           *)
(***************************************************************************)
EXTENDS Integers, Sequences, SequencesExt

CONSTANTS
  Adapter,     \* the providers there are, named after their protocol
  Function,    \* the names of the tools
  MaxExchange  \* bounds the messages of the user and the rounds of calls

ASSUME AdapterAssumption ==
  /\ Adapter \subseteq {"openai", "anthropic", "gemini", "ollama"} /\ MaxExchange \in Nat

VARIABLES
  said,      \* the messages of the agent's context
  speaker,   \* the provider that is active
  request,   \* the last request, and whom it went to
  exchanges  \* counts the messages of the user and the rounds of calls

dvars == <<said, speaker, request, exchanges>>

\* An identifier is a prefix and a rest.  OpenAI's begin like the ones the adapters make
\* up, and so does not tell whose they are.
CallId(p, f, i, n) == CASE p = "openai" -> <<"call_", ToString(<<n, i>>)>>
                        [] p = "anthropic" -> <<"toolu_", ToString(<<n, i>>)>>
                        [] p = "gemini" -> <<"call_", f>>
                        [] p = "ollama" -> <<"call_", ToString(i - 1)>>

\* The calls of a response of p, the n-th of the conversation.
Calls(p, functions, n) ==
  [i \in DOMAIN functions |-> [id |-> CallId(p, functions[i], i, n), name |-> functions[i]]]

\* The agent keeps the calls and after them the results, in the order of the calls.
Exchange(p, functions, n) ==
  <<[role |-> "calls", by |-> p, calls |-> Calls(p, functions, n)]>>
  \o [i \in DOMAIN functions |-> [role |-> "tool", id |-> CallId(p, functions[i], i, n)]]

-----------------------------------------------------------------------------
\* toOpenAIMessages, toAnthropicMessages, buildGeminiBody, toOllamaMessages: by what a
\* call, and a result, are known in the request.
CallKey(p, c) == CASE p \in {"openai", "anthropic"} -> c.id
                   [] p = "gemini" -> <<c.name>>
                   [] p = "ollama" -> <<>>

\* Mutant: the prefix that Gemini's adapter puts before the name is not taken off.
ResultKeyUntrimmed(p, id) == CASE p \in {"openai", "anthropic"} -> id
                               [] p = "gemini" -> <<id[1], id[2]>>
                               [] p = "ollama" -> <<>>

ResultKey(p, id) == CASE p \in {"openai", "anthropic"} -> id
                      [] p = "gemini" -> IF id[1] = "call_" THEN <<id[2]>> ELSE id
                      [] p = "ollama" -> <<>>

\* extractSystem and buildGeminiBody: of several system messages the last one is sent.
System(p, ms) ==
  LET texts == SelectSeq(ms, LAMBDA m : m.role \in {"prompt", "summary"})
  IN IF p \in {"openai", "ollama"} THEN texts ELSE <<Last(texts)>>

Encoded(p, ms) ==
  [to |-> p, system |-> [i \in DOMAIN System(p, ms) |-> System(p, ms)[i].role],
   items |-> [i \in DOMAIN ms |->
     CASE ms[i].role = "calls" ->
            [j \in DOMAIN ms[i].calls |-> CallKey(p, ms[i].calls[j])]
       [] ms[i].role = "tool" -> <<ResultKey(p, ms[i].id)>>
       [] OTHER -> <<>>]]

\* buildMessages: the system prompt and the context.
Built == <<[role |-> "prompt"]>> \o said

-----------------------------------------------------------------------------
MessagesTypeOK ==
  /\ speaker \in Adapter /\ exchanges \in 0 .. MaxExchange
  /\ \A i \in DOMAIN said : said[i].role \in {"user", "assistant", "summary", "calls", "tool"}
  /\ request.to \in Adapter \cup {"nobody"}
  /\ \A i \in DOMAIN request.items : Len(request.items[i]) <= 2

MessagesInit == /\ said = <<>> /\ speaker \in Adapter /\ exchanges = 0
                /\ request = [to |-> "nobody", system |-> <<>>, items |-> <<>>]

\* A message of the user, or the results of the round before, go to the active provider,
\* which answers or calls tools; when it fails, another one is asked.
Send(p) == request' = Encoded(p, Built)

UserSpeaks ==
  /\ exchanges < MaxExchange /\ exchanges' = exchanges + 1
  /\ said # <<>> => Last(said).role \in {"assistant", "user"}
  /\ said' = Append(said, [role |-> "user"])
  /\ UNCHANGED <<speaker, request>>

AnswerBy(p) ==
  /\ said # <<>> /\ Last(said).role \in {"user", "tool"}
  /\ Send(p) /\ said' = Append(said, [role |-> "assistant"])
  /\ UNCHANGED <<speaker, exchanges>>

CallBy(p) ==
  /\ said # <<>> /\ Last(said).role \in {"user", "tool"}
  /\ exchanges < MaxExchange /\ exchanges' = exchanges + 1
  /\ Send(p)
  /\ \E functions \in {<<f>> : f \in Function} \cup {<<f, g>> : f, g \in Function} :
       said' = said \o Exchange(p, functions, exchanges)
  /\ UNCHANGED speaker

\* SummarizeOldest: of four messages or more, a system message with the summary and the
\* last two remain.
Summarize ==
  /\ Len(said) >= 4 /\ Last(said).role = "tool"
  /\ said' = <<[role |-> "summary"]>> \o SubSeq(said, Len(said) - 1, Len(said))
  /\ UNCHANGED <<speaker, request, exchanges>>

Choose == /\ speaker' \in Adapter \ {speaker} /\ UNCHANGED <<said, request, exchanges>>

MessagesNext == \/ UserSpeaks \/ Summarize \/ Choose
                \/ \E p \in Adapter : AnswerBy(p) \/ CallBy(p)

-----------------------------------------------------------------------------
\* The k-th result with a key belongs to the k-th call with it: so a provider must take it.
Nth(keys, j) == {i \in DOMAIN keys : i <= j /\ keys[i] = keys[j]}

ReachesItsCall(items, k, n) ==
  LET results == [j \in 1 .. n |-> items[k + j][1]]
  IN \A j \in 1 .. n : /\ items[k][j] = results[j]
                       /\ Nth(items[k], j) = Nth(results, j)

\* In every request each result of a tool reaches the call it answers, though neither
\* Gemini nor Ollama gives identifiers and both make up ones that come again; only the
\* calls of another provider are unknown to Gemini, which takes them by their names.
ResultsReachTheirCalls ==
  \A p \in Adapter : LET items == Encoded(p, Built).items IN
    \A k \in DOMAIN Built :
      Built[k].role = "calls" /\ (p # "gemini" \/ Built[k].by = "gemini")
        => ReachesItsCall(items, k, Len(Built[k].calls))
===============================================================================
