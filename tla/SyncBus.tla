------------------------------ MODULE SyncBus ------------------------------
(***************************************************************************)
(* The synchronous event bus.  Publish appends the event to the outbox,    *)
(* runs the handlers that were subscribed when it was called, one after    *)
(* the other in the caller's goroutine, and marks the event processed or   *)
(* failed.  A handler may publish in turn, so a goroutine is inside a      *)
(* stack of calls of Publish; several goroutines share the handlers and    *)
(* the two once-only fault flags.                                          *)
(*                                                                         *)
(* The status of an event is what the recorder was last told; whether the  *)
(* surrounding transaction keeps it is the subject of PaymentFlow.         *)
(***************************************************************************)
EXTENDS Naturals, Sequences, FiniteSets

CONSTANTS
  Goroutines,      \* the goroutines that publish
  Names,           \* event names
  TopNames,        \* the names of the events use cases publish by themselves
  Handlers,        \* the handlers that may be subscribed
  Consumes,        \* the event name each handler is subscribed to
  Publishes,       \* the names of the events each handler may publish
  Module,          \* the module each handler belongs to
  Transactional,   \* the handlers that publish inside a transaction they commit
  Wiring,          \* the handlers NewModule calls have subscribed, by name
  BusOptions,      \* the SyncBusOptions the fault profiles give the bus
  MaxEvents,       \* how many events a behaviour may publish
  MaxFaults        \* how many handlers or outbox statements may fail

ASSUME BusAssumption ==
  /\ TopNames \subseteq Names
  /\ Consumes \in [Handlers -> Names]
  /\ Publishes \in [Handlers -> SUBSET Names]
  /\ Transactional \subseteq Handlers
  /\ Wiring \in [Names -> Seq(Handlers)]
  /\ \A name \in Names : \A k \in DOMAIN Wiring[name] :
       /\ Consumes[Wiring[name][k]] = name
       /\ \A j \in DOMAIN Wiring[name] : Wiring[name][j] = Wiring[name][k] => j = k
  /\ \A o \in BusOptions : DOMAIN o = {"duplicate", "failName", "failModule"}
  /\ MaxEvents \in Nat /\ MaxFaults \in Nat

VARIABLES
  options,             \* the options the process was started with
  handlers,            \* the subscribed handlers of each name, in order
  duplicateTriggered,  \* the once-only duplicate delivery has happened
  failTriggered,       \* the once-only consumer failure has happened
  events,              \* the events published so far, as their calls stand
  call,                \* the innermost running call of each goroutine, or 0
  faults               \* faults so far, up to MaxFaults

flags == <<options, duplicateTriggered, failTriggered>>
vars == <<handlers, flags, events, call, faults>>

\* A call of Publish and what became of its event.
NewEvent(name, parent) ==
  [name |-> name,
   parent |-> parent,             \* the call whose handler published it, or 0
   handlers |-> handlers[name],   \* copied under the read lock
   next |-> 1,                    \* the loop of dispatch
   deliveries |-> <<>>,           \* the handlers that returned no error
   duplicated |-> FALSE,
   injected |-> FALSE,
   phase |-> "append",
   status |-> "unrecorded",
   answer |-> "none"]

\* "handling" while the handler waits for what it published; "resumed" and
\* "refused" once that call returned without an error or with one.
Phases == {"append", "dispatch", "handling", "resumed", "refused", "mark", "fail",
           "returned"}
CanFault == faults < MaxFaults /\ faults' = faults + 1

-----------------------------------------------------------------------------
\* Under the write lock; each handler is subscribed once.
Subscribe(h) ==
  /\ \A name \in Names : \A k \in DOMAIN handlers[name] : handlers[name][k] # h
  /\ handlers' = [handlers EXCEPT ![Consumes[h]] = Append(@, h)]
  /\ UNCHANGED <<flags, events, call, faults>>

\* A goroutine that is in no call publishes.
Publish(g, name) ==
  /\ call[g] = 0
  /\ Len(events) < MaxEvents
  /\ events' = Append(events, NewEvent(name, 0))
  /\ call' = [call EXCEPT ![g] = Len(events) + 1]
  /\ UNCHANGED <<handlers, flags, faults>>

\* The handler of the call at hand returned no error.
Delivered(x) ==
  [x EXCEPT !.phase = "dispatch",
            !.next = @ + 1,
            !.deliveries = Append(@, x.handlers[x.next])]

\* dispatch returns the handler's error at once.
DispatchError(x) == [x EXCEPT !.phase = "fail"]

\* Publish of event e returns to its goroutine: to the handler that called it,
\* which goes on, or to the use case.
Return(g, e, status, answer) ==
  LET parent == events[e].parent
      returned == [events EXCEPT ![e].phase = "returned",
                                 ![e].status = status,
                                 ![e].answer = answer]
  IN /\ events' =
          IF parent = 0 THEN returned
          ELSE [returned EXCEPT ![parent].phase =
                  IF answer = "ok" THEN "resumed" ELSE "refused"]
     /\ call' = [call EXCEPT ![g] = parent]

\* Wrong variant: the append takes the write lock of the bus while every call of
\* Publish still holds the read lock.
AppendRecordLocked(g, e) ==
  /\ events[e].phase = "append"
  /\ \A f \in DOMAIN events : f # e => events[f].phase = "returned"
  /\ events' = [events EXCEPT ![e].phase = "dispatch", ![e].status = "pending"]
  /\ UNCHANGED <<handlers, flags, call, faults>>

\* appendRecord; its error is returned and nothing is dispatched.
AppendRecord(g, e) ==
  /\ events[e].phase = "append"
  /\ \/ /\ events' = [events EXCEPT ![e].phase = "dispatch",
                                    ![e].status = "pending"]
        /\ UNCHANGED <<call, faults>>
     \/ CanFault /\ Return(g, e, "unrecorded", "error")
  /\ UNCHANGED <<handlers, flags>>

HasNext(e) == events[e].next <= Len(events[e].handlers)
NextHandler(e) == events[e].handlers[events[e].next]

\* Test and set of the flag under faultMu.
ShouldFailConsumer(name, h) ==
  /\ name = options.failName
  /\ Module[h] = options.failModule
  /\ ~failTriggered

\* dispatch injects the failure instead of calling the handler.
InjectConsumerFailure(e) ==
  /\ events[e].phase = "dispatch"
  /\ HasNext(e)
  /\ ShouldFailConsumer(events[e].name, NextHandler(e))
  /\ failTriggered' = TRUE
  /\ events' = [events EXCEPT ![e] = [DispatchError(@) EXCEPT !.injected = TRUE]]
  /\ UNCHANGED <<options, handlers, duplicateTriggered, call, faults>>

\* The handler works and returns, with an error or without.
Handle(e) ==
  /\ events[e].phase = "dispatch"
  /\ HasNext(e)
  /\ ~ShouldFailConsumer(events[e].name, NextHandler(e))
  /\ \/ events' = [events EXCEPT ![e] = Delivered(@)] /\ UNCHANGED faults
     \/ events' = [events EXCEPT ![e] = DispatchError(@)] /\ CanFault
  /\ UNCHANGED <<handlers, flags, call>>

\* The handler publishes an event of its own and waits for that call.
HandlePublishes(g, e) ==
  /\ events[e].phase = "dispatch"
  /\ HasNext(e)
  /\ ~ShouldFailConsumer(events[e].name, NextHandler(e))
  /\ Len(events) < MaxEvents
  /\ \E name \in Publishes[NextHandler(e)] :
       events' = Append([events EXCEPT ![e].phase = "handling"],
                        NewEvent(name, e))
  /\ call' = [call EXCEPT ![g] = Len(events) + 1]
  /\ UNCHANGED <<handlers, flags, faults>>

\* The handler that published returns.  It returns the error of its nested
\* publication; after one that worked it has nothing left to do, unless it is to
\* commit a transaction, which may fail.
HandlerReturns(e) ==
  /\ \/ /\ events[e].phase = "resumed"
        /\ events' = [events EXCEPT ![e] = Delivered(@)]
        /\ UNCHANGED faults
     \/ /\ events[e].phase = "refused"
        /\ events' = [events EXCEPT ![e] = DispatchError(@)]
        /\ UNCHANGED faults
     \/ /\ events[e].phase = "resumed"
        /\ NextHandler(e) \in Transactional
        /\ events' = [events EXCEPT ![e] = DispatchError(@)]
        /\ CanFault
  /\ UNCHANGED <<handlers, flags, call>>

\* Wrong variant: the flag is not consulted.
ShouldDuplicateAlways(e) ==
  events[e].name = options.duplicate /\ ~events[e].duplicated

\* Test and set of the flag under faultMu, after the first dispatch only.
ShouldDuplicate(e) ==
  events[e].name = options.duplicate /\ ~duplicateTriggered

\* Wrong variant: the second round of a duplicated event skips a handler.
DispatchedSkipsFirst(e) ==
  /\ events[e].phase = "dispatch"
  /\ ~HasNext(e)
  /\ IF ShouldDuplicate(e)
       THEN /\ duplicateTriggered' = TRUE
            /\ events' = [events EXCEPT ![e].duplicated = TRUE, ![e].next = 2]
       ELSE /\ events' = [events EXCEPT ![e].phase = "mark"]
            /\ UNCHANGED duplicateTriggered
  /\ UNCHANGED <<options, handlers, failTriggered, call, faults>>

\* The loop of dispatch is through.  A duplicated event goes round once more;
\* its second time the flag is set.
Dispatched(e) ==
  /\ events[e].phase = "dispatch"
  /\ ~HasNext(e)
  /\ IF ShouldDuplicate(e)
       THEN /\ duplicateTriggered' = TRUE
            /\ events' = [events EXCEPT ![e].duplicated = TRUE, ![e].next = 1]
       ELSE /\ events' = [events EXCEPT ![e].phase = "mark"]
            /\ UNCHANGED duplicateTriggered
  /\ UNCHANGED <<options, handlers, failTriggered, call, faults>>

\* Wrong variant: the error of MarkProcessed is not returned.
MarkProcessedErrorIgnored(g, e) ==
  /\ events[e].phase = "mark"
  /\ \/ Return(g, e, "processed", "ok") /\ UNCHANGED faults
     \/ Return(g, e, "pending", "ok") /\ CanFault
  /\ UNCHANGED <<handlers, flags>>

\* The error of MarkProcessed is returned, and the event not marked failed.
MarkProcessed(g, e) ==
  /\ events[e].phase = "mark"
  /\ \/ Return(g, e, "processed", "ok") /\ UNCHANGED faults
     \/ Return(g, e, "pending", "error") /\ CanFault
  /\ UNCHANGED <<handlers, flags>>

\* The error of MarkFailed is logged; the error of the dispatch is returned.
HandleDispatchFailure(g, e) ==
  /\ events[e].phase = "fail"
  /\ \/ Return(g, e, "failed", "error") /\ UNCHANGED faults
     \/ Return(g, e, "pending", "error") /\ CanFault
  /\ UNCHANGED <<handlers, flags>>

-----------------------------------------------------------------------------
Init ==
  /\ options \in BusOptions
  /\ handlers = Wiring
  /\ duplicateTriggered = FALSE
  /\ failTriggered = FALSE
  /\ events = <<>>
  /\ call = [g \in Goroutines |-> 0]
  /\ faults = 0

\* The innermost call of a goroutine goes on.
Step(g) ==
  /\ call[g] # 0
  /\ \/ AppendRecord(g, call[g])
     \/ InjectConsumerFailure(call[g])
     \/ Handle(call[g])
     \/ HandlePublishes(g, call[g])
     \/ HandlerReturns(call[g])
     \/ Dispatched(call[g])
     \/ MarkProcessed(g, call[g])
     \/ HandleDispatchFailure(g, call[g])

\* No goroutine is inside Publish.
Quiescent == (\A g \in Goroutines : call[g] = 0) /\ UNCHANGED vars

Next ==
  \/ \E h \in Handlers : Subscribe(h)
  \/ \E g \in Goroutines : Step(g) \/ \E name \in TopNames : Publish(g, name)
  \/ Quiescent

Spec == Init /\ [][Next]_vars

-----------------------------------------------------------------------------
(* Properties                                                               *)

Event ==
  [name : Names, parent : 0..MaxEvents, handlers : Seq(Handlers),
   next : Nat \ {0}, deliveries : Seq(Handlers), duplicated : BOOLEAN,
   injected : BOOLEAN, phase : Phases,
   status : {"unrecorded", "pending", "processed", "failed"},
   answer : {"none", "ok", "error"}]

\* Every variable holds a value of its kind.
TypeOK ==
  /\ options \in BusOptions
  /\ handlers \in [Names -> Seq(Handlers)]
  /\ duplicateTriggered \in BOOLEAN
  /\ failTriggered \in BOOLEAN
  /\ events \in Seq(Event) /\ Len(events) <= MaxEvents
  /\ call \in [Goroutines -> 0..Len(events)]
  /\ faults \in 0..MaxFaults

Prefix(s, t) == Len(s) <= Len(t) /\ \A k \in DOMAIN s : s[k] = t[k]

\* The handlers an event owes a delivery to, in order.
Due(x) == IF x.duplicated THEN x.handlers \o x.handlers ELSE x.handlers

\* Deliveries follow the order of subscription and never skip a handler, however
\* subscriptions, other goroutines and nested publications intervene: a
\* processed event reached all its handlers, a failed one stopped at the
\* handler that failed, and the handlers of an event are the first ones that
\* subscribed to its name, never a later one before an earlier one.
DeliveredInOrder ==
  \A e \in DOMAIN events :
    LET x == events[e] IN
      /\ Prefix(x.handlers, handlers[x.name])
      /\ Prefix(x.deliveries, Due(x))
      /\ x.status = "processed" => x.deliveries = Due(x)
      /\ x.status = "failed" => Len(x.deliveries) < Len(Due(x))

\* A publication that answers without error is complete, what its handlers
\* published included: the event and every event under it are processed, and
\* nothing under it is still running.
AnswersTruthful ==
  \A e \in DOMAIN events :
    /\ events[e].answer = "ok" => events[e].status = "processed"
    /\ events[e].answer # "none" =>
         \A f \in DOMAIN events : events[f].parent = e =>
           /\ events[f].answer # "none"
           /\ events[e].answer = "ok" => events[f].answer = "ok"

\* Whichever goroutines race for them, the injected faults happen at most once:
\* one event is delivered twice, one consumer fails.
FaultsOnce ==
  /\ Cardinality({e \in DOMAIN events : events[e].duplicated}) <= 1
  /\ Cardinality({e \in DOMAIN events : events[e].injected}) <= 1

\* Every call of Publish returns.
PublishReturns == \A g \in Goroutines : call[g] # 0 ~> call[g] = 0
=============================================================================
