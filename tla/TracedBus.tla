----------------------------- MODULE TracedBus -----------------------------
(***************************************************************************)
(* What the observability runtime makes of the event bus.  Publish opens a *)
(* span that a deferred CompleteSpan ends, dispatch opens one per delivery *)
(* under it, and three counters say how many events were published,        *)
(* handed to a consumer and refused by one.  Every step is the step of     *)
(* SyncBus together with the telemetry it emits.                           *)
(*                                                                         *)
(* The attributes of spans are left out, but for the labels the counters   *)
(* are told apart by.  The spans of the use cases between a handler and    *)
(* what it publishes are left out too.                                     *)
(***************************************************************************)
EXTENDS SyncBus

VARIABLES
  spans,       \* the spans of each event: its own and one per delivery
  published,   \* atlas_erp_events_published_total, by event name
  consumed,    \* atlas_erp_events_consumed_total, by name and module
  failures     \* atlas_erp_event_handler_failures_total, likewise

counters == <<published, consumed, failures>>
tracedVars == <<vars, spans, counters>>

Labels == {<<Consumes[h], Module[h]>> : h \in Handlers}
Label(h) == <<Consumes[h], Module[h]>>
Count(counter, label) == [counter EXCEPT ![label] = @ + 1]

-----------------------------------------------------------------------------
(* Spans                                                                    *)

NoSpan == <<0, 0>>
NewSpan(parent) == [parent |-> parent, status |-> "unset", errors |-> 0, ends |-> 0]

\* The SDK keeps the highest of Unset, Error and Ok, and nothing once ended.
Rank == [code \in {"unset", "error", "ok"} |->
           CASE code = "unset" -> 0 [] code = "error" -> 1 [] OTHER -> 2]
SetStatus(span, code) ==
  IF span.ends > 0 \/ Rank[span.status] > Rank[code]
    THEN span ELSE [span EXCEPT !.status = code]

RecordSpanError(span) == SetStatus([span EXCEPT !.errors = @ + 1], "error")

CompleteSpan(span, err) ==
  [IF err THEN RecordSpanError(span) ELSE SetStatus(span, "ok")
     EXCEPT !.ends = @ + 1]

\* The parent of a consume span is the publish span of its event.
StartEventConsume(x) == [x EXCEPT !.consume = Append(@, NewSpan(NoSpan))]

\* Wrong variant: the branch of a failed handler returns without ending its span.
CompleteConsumeLeftOpen(x, err) ==
  [x EXCEPT !.consume[Len(x.consume)] =
     IF err THEN RecordSpanError(@) ELSE CompleteSpan(@, FALSE)]

CompleteConsume(x, err) ==
  [x EXCEPT !.consume[Len(x.consume)] = CompleteSpan(@, err)]

\* The handler's context carries its consume span to what it publishes.
ConsumeSpan(e) == <<e, Len(spans[e].consume) + 1>>

StartEventPublish(ss, parent) ==
  Append(ss, [publish |-> NewSpan(parent), consume |-> <<>>])

\* The deferred CompleteSpan of Publish knows no error; the branches of append
\* and mark recorded theirs before it runs.
CompletePublish(x, recorded) ==
  [x EXCEPT !.publish = CompleteSpan(IF recorded THEN RecordSpanError(@) ELSE @,
                                     FALSE)]

\* Publish of e returned and its deferred CompleteSpan ran; the delivery whose
\* handler called it goes on.
ReturnTraced(e, recorded) ==
  spans' = [spans EXCEPT ![e] = CompletePublish(@, recorded)]

-----------------------------------------------------------------------------
(* The steps of the bus                                                     *)

TracedSubscribe(h) == Subscribe(h) /\ UNCHANGED <<spans, counters>>

TracedPublish(g, name) ==
  /\ Publish(g, name)
  /\ spans' = StartEventPublish(spans, NoSpan)
  /\ UNCHANGED counters

\* Wrong variant: the event is counted before it is recorded.
TracedAppendCountsFirst(g, e) ==
  /\ AppendRecord(g, e)
  /\ published' = Count(published, events[e].name)
  /\ IF events'[e].phase = "returned" THEN ReturnTraced(e, TRUE)
                                      ELSE UNCHANGED spans
  /\ UNCHANGED <<consumed, failures>>

\* A recorded event counts as published before it is dispatched.
TracedAppend(g, e) ==
  /\ AppendRecord(g, e)
  /\ \/ events'[e].phase = "returned" /\ ReturnTraced(e, TRUE)
        /\ UNCHANGED published
     \/ events'[e].phase # "returned"
        /\ published' = Count(published, events[e].name)
        /\ UNCHANGED spans
  /\ UNCHANGED <<consumed, failures>>

\* The delivery is counted and its span opened before the handler runs, or
\* before the injected failure takes its place.
TracedDelivery(e) ==
  /\ InjectConsumerFailure(e) \/ Handle(e)
  /\ LET err == events'[e].phase = "fail" IN
       /\ spans' = [spans EXCEPT ![e] = CompleteConsume(StartEventConsume(@), err)]
       /\ consumed' = Count(consumed, Label(NextHandler(e)))
       /\ failures' = IF err THEN Count(failures, Label(NextHandler(e)))
                             ELSE failures
  /\ UNCHANGED published

TracedHandlePublishes(g, e) ==
  /\ HandlePublishes(g, e)
  /\ spans' = StartEventPublish([spans EXCEPT ![e] = StartEventConsume(@)],
                                ConsumeSpan(e))
  /\ consumed' = Count(consumed, Label(NextHandler(e)))
  /\ UNCHANGED <<published, failures>>

\* Wrong variant: the delivery is completed with the error of the nested
\* publication.
TracedHandlerReturnsNested(e) ==
  /\ HandlerReturns(e)
  /\ LET err == events[e].phase = "refused" IN
       /\ spans' = [spans EXCEPT ![e] = CompleteConsume(@, err)]
       /\ failures' = IF err THEN Count(failures, Label(NextHandler(e)))
                             ELSE failures
  /\ UNCHANGED <<published, consumed>>

\* The delivery is completed with the error the handler itself returned.
TracedHandlerReturns(e) ==
  /\ HandlerReturns(e)
  /\ LET err == events'[e].phase = "fail" IN
       /\ spans' = [spans EXCEPT ![e] = CompleteConsume(@, err)]
       /\ failures' = IF err THEN Count(failures, Label(NextHandler(e)))
                             ELSE failures
  /\ UNCHANGED <<published, consumed>>

TracedDispatched(e) == Dispatched(e) /\ UNCHANGED <<spans, counters>>

\* Only the error of MarkProcessed is recorded on the publish span.
TracedMark(g, e) ==
  /\ \/ MarkProcessed(g, e) /\ ReturnTraced(e, events'[e].answer = "error")
     \/ HandleDispatchFailure(g, e) /\ ReturnTraced(e, FALSE)
  /\ UNCHANGED counters

-----------------------------------------------------------------------------
TracedInit ==
  /\ Init
  /\ spans = <<>>
  /\ published = [name \in Names |-> 0]
  /\ consumed = [label \in Labels |-> 0]
  /\ failures = [label \in Labels |-> 0]

TracedStep(g) ==
  /\ call[g] # 0
  /\ \/ TracedAppend(g, call[g])
     \/ TracedDelivery(call[g])
     \/ TracedHandlePublishes(g, call[g])
     \/ TracedHandlerReturns(call[g])
     \/ TracedDispatched(call[g])
     \/ TracedMark(g, call[g])

TracedNext ==
  \/ \E h \in Handlers : TracedSubscribe(h)
  \/ \E g \in Goroutines :
       TracedStep(g) \/ \E name \in TopNames : TracedPublish(g, name)
  \/ Quiescent /\ UNCHANGED <<spans, counters>>

TracedSpec == TracedInit /\ [][TracedNext]_tracedVars

\* A goroutine inside Publish keeps running.
FairTracedSpec ==
  TracedSpec /\ \A g \in Goroutines : WF_tracedVars(TracedStep(g))

-----------------------------------------------------------------------------
(* Properties                                                               *)

\* A handler that published has not returned yet.
HandlerRuns(e) == events[e].phase \in {"handling", "resumed", "refused"}

\* Spans are ended once each and nest like the calls they stand for: a span is
\* open exactly while its call of Publish or its handler runs, whichever way
\* that returns, and a nested publication hangs under the very delivery that
\* made it, which is open as long as it is.
SpansNested ==
  \A e \in DOMAIN events :
    LET x == spans[e]
        parent == events[e].parent
    IN /\ x.publish.ends = IF events[e].phase = "returned" THEN 1 ELSE 0
       /\ \A k \in DOMAIN x.consume :
            x.consume[k].ends =
              IF HandlerRuns(e) /\ k = Len(x.consume) THEN 0 ELSE 1
       /\ x.publish.parent[1] = parent
       /\ parent # 0 =>
            LET above == spans[parent].consume[x.publish.parent[2]]
            IN x.publish.ends = 0 => above.ends = 0

\* Every publication that fails is to be found in the traces: the error is
\* recorded on its own span or on the one of the delivery that failed, the last
\* of the event, while the deliveries that worked read Ok.  That covers the
\* handler that fails at its COMMIT, after all it published answered Ok: its
\* delivery reads error above publications that do not.  (The status of the
\* publish span itself is always Ok in the end.)
FailuresTraced ==
  \A e \in DOMAIN events :
    LET x == spans[e]
        failed == {k \in DOMAIN x.consume : x.consume[k].status = "error"}
    IN /\ events[e].answer = "error" =>
            (x.publish.errors = 1) # (failed = {Len(x.consume)})
       /\ events[e].answer = "ok" => x.publish.errors = 0 /\ failed = {}
       /\ \A k \in DOMAIN x.consume :
            x.consume[k].status = "ok" <=> k <= Len(events[e].deliveries)

\* The deliveries to the handlers of a label that returned no error, and the
\* dispatches that stopped at one of them.
Deliveries(label) ==
  Cardinality(UNION {{<<e, k>> : k \in {k \in DOMAIN events[e].deliveries :
                                        Label(events[e].deliveries[k]) = label}} :
                     e \in DOMAIN events})
Stopped(label) ==
  Cardinality({e \in DOMAIN events :
    LET x == events[e]
    IN /\ \/ x.phase = "fail"
          \/ x.phase = "returned" /\ x.status # "unrecorded"
             /\ Len(x.deliveries) < Len(Due(x))
       /\ Label(Due(x)[Len(x.deliveries) + 1]) = label})

\* The counters agree with what the bus did, at every moment and whatever fails:
\* published counts the events in the outbox, consumed the deliveries that
\* worked, failed or are still running, failures the dispatches that stopped.
CountersAgree ==
  /\ \A name \in Names :
       published[name] =
         Cardinality({e \in DOMAIN events :
                        events[e].name = name /\ events[e].status # "unrecorded"})
  /\ \A label \in Labels :
       /\ failures[label] = Stopped(label)
       /\ consumed[label] = Deliveries(label) + failures[label]
         + Cardinality({e \in DOMAIN events :
             HandlerRuns(e) /\ Label(NextHandler(e)) = label})
=============================================================================
