------------------------------- MODULE EventBus -------------------------------
(***************************************************************************)
(* The event bus (internal/events/bus.go, wiring.go) and the webhooks that *)
(* hang on it (internal/webhook/webhook.go), for the events of one type:   *)
(* types share nothing but the dead letters.  A handler that is a webhook  *)
(* tries its request three times and records one delivery.                 *)
(***************************************************************************)
EXTENDS Integers, Sequences, SequencesExt

CONSTANTS
  Handler, Hook,     \* the handlers, and those that are webhooks
  MaxDeadLetters,    \* dlqMaxSize
  MaxHandlers,       \* bounds the subscriptions
  MaxEvents          \* and the events

ASSUME BusAssumption == Hook \subseteq Handler /\ MaxDeadLetters \in Nat \ {0}
                        /\ MaxHandlers \in Nat /\ MaxEvents \in Nat

VARIABLES
  subscribers,   \* the handlers of the type
  events,        \* what was published: how, to whom, how far each handler is
  dlq,           \* the dead letters: the event and which of its handlers panicked
  deliveries     \* Manager.deliveries: event, handler, status and attempts

bvars == <<subscribers, events, dlq, deliveries>>

Attempts == 3
Ended == {"returned", "unbuilt", "recorded", "panicked", "cleared"}
HandlerRun == [at : {"todo", "running"} \cup Ended, attempts : 0 .. Attempts]
Event == [mode : {"high", "normal", "sync"}, to : Seq(Handler), runs : Seq(HandlerRun), back : BOOLEAN]

BusTypeOK ==
  /\ subscribers \in Seq(Handler) /\ events \in Seq(Event)
  /\ dlq \in Seq((1 .. MaxEvents) \X (1 .. MaxHandlers))
  /\ deliveries \subseteq [event : 1 .. MaxEvents, run : 1 .. MaxHandlers,
                           status : {"good", "bad"}, attempts : 1 .. Attempts]

BusInit == subscribers = <<>> /\ events = <<>> /\ dlq = <<>> /\ deliveries = {}

-----------------------------------------------------------------------------
Subscribe(h) == /\ Len(subscribers) < MaxHandlers
                /\ subscribers' = Append(subscribers, h)
                /\ UNCHANGED <<events, dlq, deliveries>>

\* Publish or PublishSync: it calls the handlers of this moment.
Publish(kind) ==
  /\ Len(events) < MaxEvents
  /\ events' = Append(events, [mode |-> kind, to |-> subscribers, back |-> kind = "normal",
                               runs |-> [i \in DOMAIN subscribers |->
                                           [at |-> "todo", attempts |-> 0]]])
  /\ UNCHANGED <<subscribers, dlq, deliveries>>

At(e, i) == events[e].runs[i].at
Set(e, i, place) == events' = [events EXCEPT ![e].runs[i].at = place]
Running(e, i) == At(e, i) = "running"

\* One after the other on the goroutine of the publisher, or each on its own.
BeginRun(e, i) ==
  /\ At(e, i) = "todo"
  /\ events[e].mode = "high" => \A j \in 1 .. i - 1 : At(e, j) \in Ended
  /\ Set(e, i, "running") /\ UNCHANGED <<subscribers, dlq, deliveries>>

HandlerReturns(e, i) == /\ Running(e, i) /\ events[e].to[i] \notin Hook
                        /\ Set(e, i, "returned") /\ UNCHANGED <<subscribers, dlq, deliveries>>

\* sendToDLQ: the oldest goes when there is no room.
SendToDLQ(letter) == dlq' = Append(IF Len(dlq) >= MaxDeadLetters THEN Tail(dlq) ELSE dlq, letter)

\* invokeHandler: a panic ends the handler and becomes a dead letter.
HandlerPanics(e, i) == /\ Running(e, i) /\ events[e].to[i] \notin Hook
                       /\ Set(e, i, "panicked") /\ SendToDLQ(<<e, i>>)
                       /\ UNCHANGED <<subscribers, deliveries>>

\* deliver: the payload of a webhook cannot be built, and nothing is recorded.
BuildFails(e, i) == /\ Running(e, i) /\ events[e].to[i] \in Hook
                    /\ events[e].runs[i].attempts = 0
                    /\ Set(e, i, "unbuilt") /\ UNCHANGED <<subscribers, dlq, deliveries>>

Attempted(e, i) == events[e].runs[i].attempts + 1

RecordDelivery(e, i, how) ==
  deliveries' = deliveries \cup {[event |-> e, run |-> i, status |-> how,
                                  attempts |-> Attempted(e, i)]}

\* deliver: an attempt; the good one and the last one are recorded, after the
\* others it sleeps.
Send(e, i, how) ==
  LET over == how = "good" \/ Attempted(e, i) = Attempts
  IN  /\ Running(e, i) /\ events[e].to[i] \in Hook
      /\ events' = [events EXCEPT ![e].runs[i] = [attempts |-> Attempted(e, i),
                        at |-> IF over THEN "recorded" ELSE "running"]]
      /\ IF over THEN RecordDelivery(e, i, how) ELSE UNCHANGED deliveries
      /\ UNCHANGED <<subscribers, dlq>>

\* The publisher goes on after the handlers it waits for.
GoOn(e) == /\ ~events[e].back /\ \A i \in DOMAIN events[e].to : At(e, i) \in Ended
           /\ events' = [events EXCEPT ![e].back = TRUE]
           /\ UNCHANGED <<subscribers, dlq, deliveries>>

Clear(r) == IF r.at = "panicked" THEN [r EXCEPT !.at = "cleared"] ELSE r

ClearDLQ == /\ dlq # <<>> /\ dlq' = <<>>
            /\ events' = [e \in DOMAIN events |-> [events[e] EXCEPT !.runs =
                            [i \in DOMAIN @ |-> Clear(@[i])]]]
            /\ UNCHANGED <<subscribers, deliveries>>

Handling(e) == \/ GoOn(e)
               \/ \E i \in DOMAIN events[e].to :
                    \/ BeginRun(e, i) \/ HandlerReturns(e, i) \/ HandlerPanics(e, i) \/ BuildFails(e, i)
                    \/ \E how \in {"good", "bad"} : Send(e, i, how)

BusNext == \/ \E h \in Handler : Subscribe(h)
           \/ \E kind \in {"high", "normal", "sync"} : Publish(kind)
           \/ \E e \in DOMAIN events : Handling(e)
           \/ ClearDLQ

-----------------------------------------------------------------------------
\* Every handler that was subscribed ends in one way that can be looked up: it
\* returned; or its panic is a dead letter, one of the latest MaxDeadLetters
\* since they were cleared and there once; or, of a webhook whose payload could
\* be built, one delivery tells a success or the third failure.  A publisher
\* that waits goes on after all of them (bus.go:57-180, webhook.go:68-107).
EventsAreAccounted ==
  LET RunsAt(place) == {run \in (DOMAIN events) \X (1 .. MaxHandlers) :
                          /\ run[2] \in DOMAIN events[run[1]].to
                          /\ At(run[1], run[2]) = place}
      Of(e, i) == {d \in deliveries : d.event = e /\ d.run = i}
      panicked == Cardinality(RunsAt("panicked"))
  IN  /\ IsInjective(dlq) /\ ToSet(dlq) \subseteq RunsAt("panicked")
      /\ Len(dlq) = IF panicked < MaxDeadLetters THEN panicked ELSE MaxDeadLetters
      /\ \A e \in DOMAIN events : \A i \in DOMAIN events[e].to :
           /\ Cardinality(Of(e, i)) = (IF At(e, i) = "recorded" THEN 1 ELSE 0)
           /\ \A d \in Of(e, i) : d.status = "good" \/ d.attempts = Attempts
           /\ events[e].back /\ events[e].mode # "normal" => At(e, i) \in Ended

\* A publisher has not gone on: it waits for its handlers, of which those of webhooks end
\* after three requests of thirty seconds at most.
PublishersWait == \E e \in DOMAIN events : ~events[e].back
=============================================================================
