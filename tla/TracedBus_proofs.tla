------------------------- MODULE TracedBus_proofs -------------------------
(* Proofs about the event bus and its telemetry, for every wiring of        *)
(* handlers, any number of goroutines and either once-only fault.           *)
EXTENDS TracedBus, FiniteSetTheorems, SequenceTheorems, TLAPS

-----------------------------------------------------------------------------
(* The inductive invariant of the bus                                       *)

\* The phases of a call whose handler published and has not returned.
InHandler == {"handling", "resumed", "refused"}

\* How far the loop of dispatch has got is how much was delivered; where a call
\* stands says which status and answer it may have.
Loop(x) ==
  /\ x.next <= Len(x.handlers) + 1
  /\ Len(x.deliveries) =
       x.next - 1 + (IF x.duplicated THEN Len(x.handlers) ELSE 0)
  /\ \A k \in 1..Len(x.deliveries) :
       x.deliveries[k] = IF k <= Len(x.handlers) THEN x.handlers[k]
                         ELSE x.handlers[k - Len(x.handlers)]
Standing(x) ==
  /\ x.phase \in InHandler \cup {"fail"} \/ x.status = "failed" =>
       x.next <= Len(x.handlers)
  /\ x.phase = "mark" \/ x.status = "processed" => x.next = Len(x.handlers) + 1
  /\ x.status \in {"processed", "failed"} => x.phase = "returned"
  /\ x.phase = "returned" <=> x.answer # "none"
  /\ x.answer = "ok" => x.status = "processed"
Sound(x) == x \in Event /\ Loop(x) /\ Standing(x)

\* The calls of Publish are stacks, one per goroutine: the innermost call is the
\* running one, and a call waits in a handler exactly for its only open child.
Calls ==
  /\ \A g \in Goroutines : call[g] # 0 =>
       events[call[g]].phase \notin {"handling", "returned"}
  /\ \A g, h \in Goroutines : call[g] # 0 /\ call[g] = call[h] => g = h
Nested(f) ==
  LET p == events[f].parent IN
    p # 0 =>
      /\ p < f
      /\ events[f].phase # "returned" => events[p].phase = "handling"
      /\ events[f].answer = "error" =>
           events[p].phase \in {"refused", "fail"} \/ events[p].answer = "error"
OnlyChild ==
  \A e, f \in DOMAIN events :
    /\ events[e].parent # 0 /\ events[e].parent = events[f].parent
    /\ events[e].phase # "returned" /\ events[f].phase # "returned"
    => e = f

\* A fault that happened to an event is on its flag, and happened to no other.
OnceEach ==
  \A e, f \in DOMAIN events :
    /\ events[e].duplicated => duplicateTriggered
    /\ events[e].duplicated /\ events[f].duplicated => e = f
    /\ events[e].injected => failTriggered
    /\ events[e].injected /\ events[f].injected => e = f

Subscribed ==
  \A e \in DOMAIN events : Prefix(events[e].handlers, handlers[events[e].name])

BusInv ==
  /\ TypeOK
  /\ \A e \in DOMAIN events : Sound(events[e])
  /\ Calls
  /\ \A f \in DOMAIN events : Nested(f)
  /\ OnlyChild
  /\ OnceEach
  /\ Subscribed

-----------------------------------------------------------------------------
(* One event at a time                                                      *)

\* The calls of Publish start sound.
LEMMA NewEventSound ==
  ASSUME TypeOK, NEW name \in Names, NEW parent \in 0..MaxEvents
  PROVE  Sound(NewEvent(name, parent))
<1> DEFINE x == NewEvent(name, parent)
<1>1. x \in Event
  BY DEF TypeOK, NewEvent, Event, Phases
<1>2. Loop(x) /\ Standing(x)
  BY DEF TypeOK, NewEvent, Loop, Standing, InHandler
<1> QED BY <1>1, <1>2 DEF Sound

\* The parts of a call, one by one.
LEMMA EventFields ==
  ASSUME NEW x \in Event
  PROVE  /\ x.handlers \in Seq(Handlers) /\ Len(x.handlers) \in Nat
         /\ DOMAIN x.handlers = 1..Len(x.handlers)
         /\ \A k \in 1..Len(x.handlers) : x.handlers[k] \in Handlers
         /\ x.deliveries \in Seq(Handlers) /\ Len(x.deliveries) \in Nat
         /\ DOMAIN x.deliveries = 1..Len(x.deliveries)
         /\ x.next \in Nat \ {0} /\ x.duplicated \in BOOLEAN
         /\ x.injected \in BOOLEAN
         /\ x.phase \in Phases /\ x.name \in Names /\ x.parent \in 0..MaxEvents
         /\ x.status \in {"unrecorded", "pending", "processed", "failed"}
         /\ x.answer \in {"none", "ok", "error"}
BY DEF Event

\* A handler that returned no error: the delivery of its turn is on record.
LEMMA DeliveredSound ==
  ASSUME NEW x, Sound(x), x.phase \in {"dispatch", "resumed"},
         x.next <= Len(x.handlers)
  PROVE  Sound(Delivered(x))
<1>1. x \in Event /\ Loop(x) /\ Standing(x)
  BY DEF Sound
<1> DEFINE h == x.handlers[x.next]
           d == Append(x.deliveries, h)
<1>2. h \in Handlers /\ x.next + 1 \in Nat \ {0}
  BY <1>1, EventFields
<1>3. /\ d \in Seq(Handlers) /\ Len(d) = Len(x.deliveries) + 1
      /\ \A k \in 1..Len(x.deliveries) : d[k] = x.deliveries[k]
      /\ d[Len(x.deliveries) + 1] = h
  BY <1>1, <1>2, EventFields
<1> HIDE DEF h, d
<1>4. Delivered(x) = [x EXCEPT !.phase = "dispatch", !.next = x.next + 1,
                               !.deliveries = d]
  BY <1>1 DEF Delivered, Event, d, h
<1>5. Delivered(x) \in Event
  BY <1>1, <1>2, <1>3, <1>4 DEF Event, Phases
<1>6. /\ Delivered(x).next = x.next + 1 /\ Delivered(x).deliveries = d
      /\ Delivered(x).handlers = x.handlers
      /\ Delivered(x).duplicated = x.duplicated
      /\ Delivered(x).phase = "dispatch" /\ Delivered(x).status = x.status
      /\ Delivered(x).answer = x.answer
  BY <1>1, <1>4 DEF Event
<1>7. Loop(Delivered(x))
  <2>1. /\ Len(d) = x.next + (IF x.duplicated THEN Len(x.handlers) ELSE 0)
        /\ \A k \in 1..Len(x.deliveries) :
             d[k] = IF k <= Len(x.handlers) THEN x.handlers[k]
                    ELSE x.handlers[k - Len(x.handlers)]
    BY <1>1, <1>3, EventFields DEF Loop
  <2>2. LET k == Len(x.deliveries) + 1
        IN d[k] = IF k <= Len(x.handlers) THEN x.handlers[k]
                  ELSE x.handlers[k - Len(x.handlers)]
    <3>1. /\ x.next \in Nat \ {0} /\ Len(x.handlers) \in Nat
          /\ Len(x.deliveries) =
               x.next - 1 + (IF x.duplicated THEN Len(x.handlers) ELSE 0)
      BY <1>1, EventFields DEF Loop
    <3>2. CASE x.duplicated
      <4>1. /\ ~(Len(x.deliveries) + 1 <= Len(x.handlers))
            /\ Len(x.deliveries) + 1 - Len(x.handlers) = x.next
        BY <3>1, <3>2
      <4>2. x.handlers[Len(x.deliveries) + 1 - Len(x.handlers)] = h
        BY <4>1 DEF h
      <4>3. d[Len(x.deliveries) + 1] = h
        BY <1>3
      <4> HIDE DEF h
      <4> QED BY <4>1, <4>2, <4>3
    <3>3. CASE ~x.duplicated
      <4>1. Len(x.deliveries) + 1 = x.next
        BY <3>1, <3>3
      <4> QED BY <1>3, <4>1 DEF h
    <3> QED BY <3>2, <3>3
  <2>3. \A k \in 1..Len(d) : k \in 1..Len(x.deliveries)
                               \/ k = Len(x.deliveries) + 1
    BY <1>1, <1>3, EventFields
  <2>4. \A k \in 1..Len(d) :
          d[k] = IF k <= Len(x.handlers) THEN x.handlers[k]
                 ELSE x.handlers[k - Len(x.handlers)]
    BY <2>1, <2>2, <2>3
  <2>5. /\ x.next + 1 <= Len(x.handlers) + 1
        /\ (x.next + 1) - 1 = x.next
    BY <1>1, EventFields
  <2> QED BY <1>6, <2>1, <2>4, <2>5 DEF Loop
<1>8. Standing(Delivered(x))
  BY <1>1, <1>6, EventFields DEF Standing, InHandler
<1> QED BY <1>5, <1>7, <1>8 DEF Sound

\* A change that leaves the loop alone.
LEMMA SoundExcept ==
  ASSUME NEW x, Sound(x), NEW v \in Event, Standing(v),
         v.next = x.next, v.handlers = x.handlers, v.deliveries = x.deliveries,
         v.duplicated = x.duplicated
  PROVE  Sound(v)
BY DEF Sound, Loop

\* What the steps inside a call make of its event.
Recorded(x) == [x EXCEPT !.phase = "dispatch", !.status = "pending"]
Injected(x) == [DispatchError(x) EXCEPT !.injected = TRUE]
Entered(x) == [x EXCEPT !.phase = "handling"]
Resumed(x, answer) ==
  [x EXCEPT !.phase = IF answer = "ok" THEN "resumed" ELSE "refused"]
Through(x) == [x EXCEPT !.phase = "mark"]
Again(x) == [x EXCEPT !.duplicated = TRUE, !.next = 1]
Ended(x, status, answer) ==
  [x EXCEPT !.phase = "returned", !.status = status, !.answer = answer]

\* The steps inside a call keep its event sound.
LEMMA AdvanceSound ==
  ASSUME NEW x, Sound(x)
  PROVE  /\ x.phase = "append" => Sound(Recorded(x))
         /\ x.phase \in {"dispatch", "resumed", "refused"}
            /\ x.next <= Len(x.handlers) =>
              Sound(DispatchError(x)) /\ Sound(Injected(x)) /\ Sound(Entered(x))
         /\ x.phase = "handling" => \A answer : Sound(Resumed(x, answer))
         /\ x.phase = "dispatch" /\ ~(x.next <= Len(x.handlers)) =>
              Sound(Through(x)) /\ (~x.duplicated => Sound(Again(x)))
<1>1. x \in Event /\ Loop(x) /\ Standing(x)
  BY DEF Sound
<1>2. ASSUME x.phase = "append" PROVE Sound(Recorded(x))
  <2>1. Recorded(x) \in Event
    BY <1>1 DEF Recorded, Event, Phases
  <2>2. Standing(Recorded(x))
    BY <1>1, <1>2 DEF Recorded, Event, Standing, InHandler
  <2> QED BY <1>1, <2>1, <2>2, SoundExcept DEF Recorded, Event
<1>3. ASSUME x.phase \in {"dispatch", "resumed", "refused"}, x.next <= Len(x.handlers)
      PROVE Sound(DispatchError(x)) /\ Sound(Injected(x)) /\ Sound(Entered(x))
  <2>1. DispatchError(x) \in Event /\ Injected(x) \in Event /\ Entered(x) \in Event
    BY <1>1 DEF DispatchError, Injected, Entered, Event, Phases
  <2>2. /\ Standing(DispatchError(x)) /\ Standing(Injected(x))
        /\ Standing(Entered(x))
    BY <1>1, <1>3 DEF DispatchError, Injected, Entered, Event, Standing, InHandler
  <2>3. Sound(DispatchError(x))
    BY <1>1, <2>1, <2>2, SoundExcept DEF DispatchError, Event
  <2>4. Sound(Injected(x))
    BY <1>1, <2>1, <2>2, SoundExcept DEF DispatchError, Injected, Event
  <2>5. Sound(Entered(x))
    BY <1>1, <2>1, <2>2, SoundExcept DEF Entered, Event
  <2> QED BY <2>3, <2>4, <2>5
<1>4. ASSUME x.phase = "dispatch", ~(x.next <= Len(x.handlers))
      PROVE  Sound(Through(x)) /\ (~x.duplicated => Sound(Again(x)))
  <2>1. x.next = Len(x.handlers) + 1
    BY <1>1, <1>4, EventFields DEF Loop
  <2>2. Through(x) \in Event /\ Again(x) \in Event
    <3>1. Through(x) \in Event
      BY <1>1 DEF Through, Event, Phases
    <3>2. 1 \in Nat \ {0} /\ TRUE \in BOOLEAN
      OBVIOUS
    <3>3. [x EXCEPT !.duplicated = TRUE] \in Event
      BY <1>1, <3>2 DEF Event
    <3>4. Again(x) = [[x EXCEPT !.duplicated = TRUE] EXCEPT !.next = 1]
      BY <1>1 DEF Again, Event
    <3> QED BY <3>1, <3>2, <3>3, <3>4 DEF Event
  <2>3. Standing(Through(x))
    BY <1>1, <1>4, <2>1, EventFields DEF Through, Event, Standing, InHandler
  <2>4. Sound(Through(x))
    BY <1>1, <2>2, <2>3, SoundExcept DEF Through, Event
  <2>5. ASSUME ~x.duplicated PROVE Sound(Again(x))
    <3>1. /\ Again(x).next = 1 /\ Again(x).duplicated
          /\ Again(x).handlers = x.handlers /\ Again(x).deliveries = x.deliveries
          /\ Again(x).phase = x.phase /\ Again(x).status = x.status
          /\ Again(x).answer = x.answer
      BY <1>1 DEF Again, Event
    <3>2. Loop(Again(x))
      BY <1>1, <2>1, <2>5, <3>1, EventFields DEF Loop
    <3>3. Standing(Again(x))
      BY <1>1, <1>4, <3>1, EventFields DEF Standing, InHandler
    <3> QED BY <2>2, <3>2, <3>3 DEF Sound
  <2> QED BY <2>4, <2>5
<1>5. ASSUME x.phase = "handling", NEW answer PROVE Sound(Resumed(x, answer))
  <2>1. Resumed(x, answer) \in Event
    BY <1>1 DEF Resumed, Event, Phases
  <2>2. Standing(Resumed(x, answer))
    BY <1>1, <1>5 DEF Resumed, Event, Standing, InHandler
  <2> QED BY <1>1, <2>1, <2>2, SoundExcept DEF Resumed, Event
<1> QED BY <1>2, <1>3, <1>4, <1>5

\* So do the ways a call may return.
LEMMA EndedSound ==
  ASSUME NEW x, Sound(x), NEW status, NEW answer,
         \/ x.phase = "append" /\ status = "unrecorded" /\ answer = "error"
         \/ x.phase = "mark" /\ status = "processed" /\ answer = "ok"
         \/ x.phase = "mark" /\ status = "pending" /\ answer = "error"
         \/ x.phase = "fail" /\ status = "failed" /\ answer = "error"
         \/ x.phase = "fail" /\ status = "pending" /\ answer = "error"
  PROVE  Sound(Ended(x, status, answer))
<1>1. x \in Event /\ Loop(x) /\ Standing(x)
  BY DEF Sound
<1>2. Ended(x, status, answer) \in Event
  BY <1>1 DEF Ended, Event, Phases
<1>3. Standing(Ended(x, status, answer))
  BY <1>1 DEF Ended, Event, Standing, InHandler
<1> QED BY <1>1, <1>2, <1>3, SoundExcept DEF Ended, Event

-----------------------------------------------------------------------------
(* The calls of all goroutines                                              *)

\* The events are a sequence of sound calls.
LEMMA EventsSound ==
  ASSUME BusInv
  PROVE  /\ events \in Seq(Event) /\ Len(events) \in Nat
         /\ DOMAIN events = 1..Len(events)
         /\ \A e \in 1..Len(events) : Sound(events[e]) /\ events[e] \in Event
         /\ \A g \in Goroutines : call[g] # 0 => call[g] \in 1..Len(events)
BY DEF BusInv, TypeOK, Sound

\* One call changes.
LEMMA TurnOne ==
  ASSUME BusInv, NEW e \in 1..Len(events), NEW v \in Event,
         events' = [events EXCEPT ![e] = v]
  PROVE  /\ events' \in Seq(Event) /\ Len(events') = Len(events)
         /\ DOMAIN events' = 1..Len(events)
         /\ events'[e] = v
         /\ \A f \in 1..Len(events) : f # e => events'[f] = events[f]
BY EventsSound, ExceptSeq

\* What Append makes of a sequence.
LEMMA AppendFacts ==
  ASSUME NEW S, NEW s \in Seq(S), NEW v \in S
  PROVE  /\ Append(s, v) \in Seq(S) /\ Len(Append(s, v)) = Len(s) + 1
         /\ DOMAIN Append(s, v) = 1..(Len(s) + 1)
         /\ Append(s, v)[Len(s) + 1] = v
         /\ \A k \in 1..Len(s) : Append(s, v)[k] = s[k]
OBVIOUS

\* What a step may do to the flag of a fault and to the mark of its event.
FlagStep(x, v) ==
  /\ duplicateTriggered' \in BOOLEAN /\ failTriggered' \in BOOLEAN
  /\ duplicateTriggered => duplicateTriggered'
  /\ failTriggered => failTriggered'
  /\ v.duplicated => x.duplicated \/ (~duplicateTriggered /\ duplicateTriggered')
  /\ v.injected => x.injected \/ (~failTriggered /\ failTriggered')

\* What a step leaves of a call in any case.
SameCall(x, v) ==
  v.name = x.name /\ v.parent = x.parent /\ v.handlers = x.handlers

\* The running call of a goroutine moves on and stays the running one.
LEMMA MovesOn ==
  ASSUME BusInv, NEW g \in Goroutines, call[g] # 0, NEW v,
         events' = [events EXCEPT ![call[g]] = v],
         Sound(v), SameCall(events[call[g]], v),
         events[call[g]].phase \in {"append", "dispatch", "resumed", "refused"},
         v.phase \in {"dispatch", "mark", "fail"},
         events[call[g]].phase = "refused" => v.phase = "fail",
         FlagStep(events[call[g]], v),
         call' = call, handlers' = handlers, options' = options,
         faults' \in 0..MaxFaults
  PROVE  BusInv'
<1> DEFINE e == call[g]
<1>0. /\ e \in 1..Len(events) /\ v \in Event
      /\ Sound(events[e]) /\ events[e] \in Event
  BY EventsSound DEF Sound
<1>1. /\ events' \in Seq(Event) /\ Len(events') = Len(events)
      /\ DOMAIN events' = 1..Len(events) /\ events'[e] = v
      /\ \A f \in 1..Len(events) : f # e => events'[f] = events[f]
  BY <1>0, TurnOne
<1>2. /\ events[e].answer = "none" /\ v.answer = "none"
      /\ events[e].answer # "error" /\ v.answer # "error"
      /\ v.parent = events[e].parent /\ v.name = events[e].name
      /\ v.handlers = events[e].handlers
  BY <1>0 DEF Sound, Standing, SameCall
<1>3. TypeOK'
  BY <1>1 DEF BusInv, TypeOK, FlagStep
<1>4. \A f \in DOMAIN events' : Sound(events'[f])
  BY <1>1, EventsSound
<1>5. Calls'
  BY <1>0, <1>1, EventsSound DEF BusInv, Calls
<1>6. ASSUME NEW f \in DOMAIN events' PROVE Nested(f)'
  <2>1. f \in DOMAIN events /\ Nested(f)
    BY <1>1, EventsSound DEF BusInv
  <2>2. /\ events'[f].parent = events[f].parent
        /\ events'[f].phase # "returned" => events[f].phase # "returned"
        /\ events'[f].answer = "error" => events[f].answer = "error"
    BY <1>1, <1>2
  <2>3. events[f].parent = e =>
          /\ events[f].phase = "returned"
          /\ events[f].answer = "error" => v.phase = "fail"
    BY <1>0, <1>2, <2>1 DEF Nested
  <2>4. events[f].parent # 0 => events[f].parent \in 1..Len(events)
    BY <1>1, <2>1, EventsSound, EventFields DEF Nested
  <2> QED BY <1>1, <2>1, <2>2, <2>3, <2>4 DEF Nested
<1>7. OnlyChild'
  BY <1>0, <1>1, <1>2, EventsSound DEF BusInv, OnlyChild
<1>8. OnceEach'
  BY <1>0, <1>1, EventsSound DEF BusInv, OnceEach, FlagStep
<1>9. Subscribed'
  BY <1>0, <1>1, <1>2, EventsSound DEF BusInv, Subscribed
<1> QED BY <1>3, <1>4, <1>5, <1>6, <1>7, <1>8, <1>9 DEF BusInv

\* The ways AppendRecord, MarkProcessed and HandleDispatchFailure let Publish
\* return.
MayEnd(x, status, answer) ==
  \/ x.phase = "append" /\ status = "unrecorded" /\ answer = "error"
  \/ x.phase = "mark" /\ status = "processed" /\ answer = "ok"
  \/ x.phase = "mark" /\ status = "pending" /\ answer = "error"
  \/ x.phase = "fail" /\ status = "failed" /\ answer = "error"
  \/ x.phase = "fail" /\ status = "pending" /\ answer = "error"

\* Publish returns: its own call ends, the call whose handler made it goes on.
ReturnsTo(g, status, answer) ==
  LET e == call[g]
      p == events[e].parent
      v == Ended(events[e], status, answer)
      w == Resumed(events[p], answer)
  IN /\ e \in 1..Len(events)
     /\ events' \in Seq(Event) /\ Len(events') = Len(events)
     /\ DOMAIN events' = 1..Len(events)
     /\ events'[e] = v /\ Sound(v)
     /\ p # 0 => /\ p \in 1..Len(events) /\ p # e
                 /\ events[p].phase = "handling"
                 /\ events'[p] = w /\ Sound(w)
     /\ \A f \in 1..Len(events) : f # e /\ f # p => events'[f] = events[f]
     /\ call' = [call EXCEPT ![g] = p]

\* That is what a return does.
LEMMA ReturnEffect ==
  ASSUME BusInv, NEW g \in Goroutines, call[g] # 0, NEW status, NEW answer,
         MayEnd(events[call[g]], status, answer),
         Return(g, call[g], status, answer)
  PROVE  ReturnsTo(g, status, answer)
<1> USE DEF ReturnsTo
<1> DEFINE e == call[g]
           p == events[e].parent
           v == Ended(events[e], status, answer)
           w == Resumed(events[p], answer)
           returned == [events EXCEPT ![e] = v]
<1>1. e \in 1..Len(events) /\ Sound(events[e]) /\ events[e] \in Event
  BY EventsSound
<1>2. Sound(v) /\ v \in Event
  BY <1>1, EndedSound DEF MayEnd, Sound
<1>3. /\ [events EXCEPT ![e].phase = "returned", ![e].status = status,
                        ![e].answer = answer] = returned
      /\ call' = [call EXCEPT ![g] = p]
  BY <1>1, EventsSound DEF Return, Ended
<1>4. p # 0 => /\ p \in 1..Len(events) /\ p # e /\ events[p].phase = "handling"
               /\ Sound(events[p])
  <2>1. events[e].phase # "returned" /\ Nested(e)
    BY <1>1, EventsSound DEF MayEnd, BusInv
  <2>2. p \in 0..MaxEvents
    BY <1>1, EventFields
  <2> QED BY <1>1, <2>1, <2>2, EventsSound DEF Nested
<1>5. p # 0 => Sound(w) /\ w \in Event
  BY <1>4, AdvanceSound DEF Sound
<1>6. /\ returned \in Seq(Event) /\ Len(returned) = Len(events)
      /\ returned[e] = v
      /\ \A f \in 1..Len(events) : f # e => returned[f] = events[f]
  BY <1>1, <1>2, EventsSound, ExceptSeq
<1>7. answer \in {"ok", "error"}
  BY DEF MayEnd
<1> HIDE DEF v, w, returned
<1>8. CASE p = 0
  <2>1. events' = returned
    BY <1>3, <1>8 DEF Return
  <2>2. DOMAIN returned = 1..Len(events)
    BY <1>6, EventsSound
  <2> QED BY <1>1, <1>2, <1>3, <1>6, <1>8, <2>1, <2>2, EventsSound DEF v, w
<1>9. CASE p # 0
  <2>1. returned[p] = events[p]
    BY <1>4, <1>6, <1>9
  <2>2. events' = [returned EXCEPT ![p] = w]
    <3>1. events' = [returned EXCEPT ![p].phase =
                       IF answer = "ok" THEN "resumed" ELSE "refused"]
      BY <1>3, <1>9 DEF Return
    <3> QED BY <2>1, <3>1 DEF w, Resumed
  <2>3. /\ events' \in Seq(Event) /\ Len(events') = Len(events)
        /\ events'[p] = w
        /\ \A f \in 1..Len(events) : f # p => events'[f] = returned[f]
    BY <1>4, <1>5, <1>6, <1>9, <2>2, ExceptSeq
  <2>4. DOMAIN events' = 1..Len(events)
    BY <2>3, EventsSound
  <2> QED BY <1>1, <1>2, <1>3, <1>4, <1>5, <1>6, <1>9, <2>3, <2>4 DEF v, w
<1> QED BY <1>8, <1>9

\* The invariant is kept when Publish returns.
LEMMA ReturnKeeps ==
  ASSUME BusInv, NEW g \in Goroutines, call[g] # 0, NEW status, NEW answer,
         MayEnd(events[call[g]], status, answer),
         Return(g, call[g], status, answer),
         UNCHANGED <<handlers, flags>>, faults' \in 0..MaxFaults
  PROVE  BusInv'
<1> DEFINE e == call[g]
           p == events[e].parent
           v == events'[e]
           w == events'[p]
<1>0. /\ e \in 1..Len(events)
      /\ events' \in Seq(Event) /\ Len(events') = Len(events)
      /\ DOMAIN events' = 1..Len(events)
      /\ events'[e] = Ended(events[e], status, answer)
      /\ Sound(Ended(events[e], status, answer))
      /\ p # 0 => /\ p \in 1..Len(events) /\ p # e
                  /\ events[p].phase = "handling"
                  /\ events'[p] = Resumed(events[p], answer)
                  /\ Sound(Resumed(events[p], answer))
      /\ \A f \in 1..Len(events) : f # e /\ f # p => events'[f] = events[f]
      /\ call' = [call EXCEPT ![g] = p]
  <2>1. ReturnsTo(g, status, answer)
    BY ReturnEffect
  <2> QED BY <2>1 DEF ReturnsTo
<1>1. /\ e \in 1..Len(events)
      /\ events' \in Seq(Event) /\ Len(events') = Len(events)
      /\ DOMAIN events' = 1..Len(events)
      /\ Sound(v)
      /\ p # 0 => /\ p \in 1..Len(events) /\ p # e
                  /\ events[p].phase = "handling" /\ Sound(w)
      /\ \A f \in 1..Len(events) : f # e /\ f # p => events'[f] = events[f]
      /\ call' = [call EXCEPT ![g] = p]
      /\ v = Ended(events[e], status, answer)
      /\ p # 0 => w = Resumed(events[p], answer)
  BY <1>0
<1>2. /\ events[e] \in Event /\ Sound(events[e]) /\ DOMAIN events = 1..Len(events)
      /\ p # 0 => events[p] \in Event
      /\ p \in 0..Len(events)
  BY <1>1, EventsSound
<1>3. /\ v.phase = "returned" /\ v.parent = p /\ v.answer = answer
      /\ v.name = events[e].name /\ v.handlers = events[e].handlers
      /\ v.duplicated = events[e].duplicated /\ v.injected = events[e].injected
  BY <1>1, <1>2 DEF Ended, Event
<1>4. p # 0 =>
        /\ w.phase = IF answer = "ok" THEN "resumed" ELSE "refused"
        /\ w.parent = events[p].parent /\ w.name = events[p].name
        /\ w.handlers = events[p].handlers /\ w.answer = events[p].answer
        /\ w.duplicated = events[p].duplicated
        /\ w.injected = events[p].injected
  BY <1>1, <1>2 DEF Resumed, Event
<1>5. /\ events[e].phase \notin {"returned", "handling"}
      /\ answer \in {"ok", "error"}
      /\ p # 0 => events[p].answer = "none"
  <2>1. p # 0 => Standing(events[p])
    BY <1>1, EventsSound DEF Sound
  <2> QED BY <1>1, <2>1 DEF MayEnd, Standing
<1>6. /\ handlers' = handlers /\ options' = options
      /\ duplicateTriggered' = duplicateTriggered
      /\ failTriggered' = failTriggered
  BY DEF flags
<1> HIDE DEF v, w
<1>7. /\ \A f \in 1..Len(events) :
           /\ events'[f].parent = events[f].parent
           /\ events'[f].name = events[f].name
           /\ events'[f].handlers = events[f].handlers
           /\ events'[f].duplicated = events[f].duplicated
           /\ events'[f].injected = events[f].injected
      /\ events'[e].phase = "returned" /\ events'[e].answer = answer
      /\ p # 0 => /\ events'[p].phase = IF answer = "ok" THEN "resumed" ELSE "refused"
                  /\ events'[p].answer = "none"
  BY <1>1, <1>3, <1>4, <1>5 DEF v, w
<1>8. TypeOK'
  <2>1. call' \in [Goroutines -> 0..Len(events')]
    BY <1>1, <1>2 DEF BusInv, TypeOK
  <2>2. Len(events') <= MaxEvents
    BY <1>1 DEF BusInv, TypeOK
  <2>3. /\ options' \in BusOptions /\ handlers' \in [Names -> Seq(Handlers)]
        /\ duplicateTriggered' \in BOOLEAN /\ failTriggered' \in BOOLEAN
    BY <1>6 DEF BusInv, TypeOK
  <2> QED BY <1>1, <2>1, <2>2, <2>3 DEF TypeOK
<1>9. \A f \in DOMAIN events' : Sound(events'[f])
  BY <1>1, EventsSound DEF v, w
<1>10. Calls'
  <2>1. call \in [Goroutines -> 0..Len(events)]
    BY DEF BusInv, TypeOK
  <2>2. \A h \in Goroutines : h # g /\ call[h] # 0 =>
          call[h] \in 1..Len(events) /\ call[h] # e /\ call[h] # p
    BY <1>1, EventsSound DEF BusInv, Calls
  <2> QED BY <1>1, <1>7, <2>1, <2>2 DEF BusInv, Calls
<1>11. ASSUME NEW f \in DOMAIN events' PROVE Nested(f)'
  <2>1. f \in 1..Len(events) /\ Nested(f) /\ events[f].parent \in 0..MaxEvents
    BY <1>1, <1>2, EventsSound, EventFields DEF BusInv
  <2> DEFINE q == events[f].parent
  <2>2. q # 0 => q \in 1..Len(events) /\ q < f
    BY <2>1 DEF Nested
  <2>3. CASE f = e
    <3>1. q = p /\ events'[f].parent = p
      BY <1>7, <2>1, <2>3
    <3>2. /\ events'[f].phase = "returned"
          /\ events'[f].answer = "error" /\ p # 0 => events'[p].phase = "refused"
      BY <1>5, <1>7, <2>3
    <3> QED BY <2>2, <3>1, <3>2 DEF Nested
  <2>4. CASE f # e /\ q = 0
    BY <1>7, <2>1, <2>4 DEF Nested
  <2>5. CASE f # e /\ q # 0 /\ q = p
    <3>1. events[f].phase = "returned" /\ events[f].answer # "error"
      BY <1>1, <1>2, <1>5, <2>1, <2>5 DEF Nested, BusInv, OnlyChild
    <3>2. f # p
      BY <2>1, <2>2, <2>5
    <3>3. events'[f] = events[f]
      BY <1>1, <2>1, <2>5, <3>2
    <3> QED BY <2>2, <3>1, <3>3 DEF Nested
  <2>6. CASE f # e /\ q # 0 /\ q # p
    <3>1. events'[q].phase = events[q].phase \/ (q = e /\ events'[q].phase = "returned")
      BY <1>1, <1>7, <2>2, <2>6
    <3>2. events'[q].answer = events[q].answer \/ q = e
      BY <1>1, <2>2, <2>6
    <3>3. /\ events'[f].phase # "returned" => events[f].phase # "returned"
          /\ events'[f].answer = "error" => events[f].answer = "error"
      BY <1>1, <1>7, <2>1, <2>6
    <3>4. CASE q # e
      BY <1>7, <2>1, <2>2, <3>1, <3>2, <3>3, <3>4 DEF Nested
    <3>5. CASE q = e
      <4>1. events[f].phase = "returned"
        BY <1>5, <2>1, <2>2, <3>5 DEF Nested
      <4>2. f # p
        BY <1>1, <2>1, <4>1
      <4>3. events'[f] = events[f]
        BY <1>1, <2>1, <2>6, <4>2
      <4>4. events[f].answer = "error" => answer = "error"
        <5>1. events[f].answer = "error" => events[e].phase \in {"refused", "fail"}
          <6>1. events[e].answer = "none"
            BY <1>2, <1>5 DEF Sound, Standing, InHandler
          <6> QED BY <2>1, <2>2, <3>5, <6>1 DEF Nested
        <5> QED BY <5>1 DEF MayEnd
      <4> QED BY <1>7, <2>2, <3>5, <4>1, <4>3, <4>4 DEF Nested
    <3> QED BY <3>4, <3>5
  <2> QED BY <2>3, <2>4, <2>5, <2>6
<1>12. OnlyChild'
  <2>1. \A f \in 1..Len(events) :
          events'[f].phase # "returned" => events[f].phase # "returned"
    BY <1>1, <1>7
  <2> QED BY <1>1, <1>2, <1>7, <2>1 DEF BusInv, OnlyChild
<1>13. OnceEach'
  BY <1>1, <1>2, <1>6, <1>7 DEF BusInv, OnceEach
<1>14. Subscribed'
  BY <1>1, <1>2, <1>6, <1>7 DEF BusInv, Subscribed
<1> QED BY <1>8, <1>9, <1>10, <1>11, <1>12, <1>13, <1>14 DEF BusInv

\* A new call begins, of an idle goroutine or of a handler that waits for it.
LEMMA AddedKeeps ==
  ASSUME BusInv, NEW g \in Goroutines, NEW name \in Names,
         NEW p \in 0..Len(events), call[g] = p,
         p # 0 => /\ events[p].phase = "dispatch"
                  /\ events[p].next <= Len(events[p].handlers),
         Len(events) < MaxEvents,
         events' = Append(IF p = 0 THEN events
                          ELSE [events EXCEPT ![p].phase = "handling"],
                          NewEvent(name, p)),
         call' = [call EXCEPT ![g] = Len(events) + 1],
         UNCHANGED <<handlers, flags, faults>>
  PROVE  BusInv'
<1> DEFINE n == Len(events) + 1
           x == NewEvent(name, p)
           base == IF p = 0 THEN events ELSE [events EXCEPT ![p] = Entered(@)]
<1>0. /\ TypeOK /\ MaxEvents \in Nat /\ Len(events) \in Nat
      /\ DOMAIN events = 1..Len(events)
      /\ call \in [Goroutines -> 0..Len(events)]
  BY EventsSound, BusAssumption DEF BusInv, TypeOK
<1>1. Sound(x) /\ x \in Event
  BY <1>0, NewEventSound DEF Sound
<1>2. p # 0 => Sound(Entered(events[p])) /\ Entered(events[p]) \in Event
  BY EventsSound, AdvanceSound DEF Sound
<1>3. p # 0 => [events EXCEPT ![p].phase = "handling"]
                 = [events EXCEPT ![p] = Entered(@)]
  BY EventsSound DEF Entered
<1>4. /\ base \in Seq(Event) /\ Len(base) = Len(events)
      /\ p # 0 => base[p] = Entered(events[p])
      /\ \A f \in 1..Len(events) : f # p => base[f] = events[f]
  <2>1. CASE p = 0
    BY <2>1, EventsSound
  <2>2. CASE p # 0
    <3>1. /\ p \in 1..Len(events) /\ Entered(events[p]) \in Event
          /\ events \in Seq(Event)
          /\ base = [events EXCEPT ![p] = Entered(events[p])]
      BY <1>0, <1>2, <2>2, EventsSound
    <3> HIDE DEF base
    <3> QED BY <2>2, <3>1, ExceptSeq
  <2> QED BY <2>1, <2>2
<1>5. events' = Append(base, x)
  <2>1. base = IF p = 0 THEN events ELSE [events EXCEPT ![p].phase = "handling"]
    BY <1>3
  <2> HIDE DEF base
  <2> QED BY <2>1
<1> HIDE DEF base, x
<1>6. /\ events' \in Seq(Event) /\ Len(events') = n /\ DOMAIN events' = 1..n
      /\ events'[n] = x
      /\ \A f \in 1..Len(events) : events'[f] = base[f]
  <2> DEFINE s == Append(base, x)
  <2>1. /\ s \in Seq(Event) /\ Len(s) = Len(base) + 1
        /\ DOMAIN s = 1..(Len(base) + 1)
        /\ s[Len(base) + 1] = x
        /\ \A k \in 1..Len(base) : s[k] = base[k]
    BY <1>1, <1>4, AppendFacts
  <2>2. events' = s
    BY <1>5
  <2> HIDE DEF s
  <2> QED BY <1>4, <2>1, <2>2
<1>7. /\ x.phase = "append" /\ x.answer = "none" /\ x.parent = p
      /\ x.name = name /\ x.handlers = handlers[name]
      /\ ~x.duplicated /\ ~x.injected
  BY DEF x, NewEvent
<1>8. \A f \in 1..Len(events) :
        /\ events'[f].parent = events[f].parent
        /\ events'[f].name = events[f].name
        /\ events'[f].handlers = events[f].handlers
        /\ events'[f].duplicated = events[f].duplicated
        /\ events'[f].injected = events[f].injected
        /\ events'[f].answer = events[f].answer
        /\ events'[f].phase = IF f = p THEN "handling" ELSE events[f].phase
        /\ Sound(events'[f])
  <2> SUFFICES ASSUME NEW f \in 1..Len(events) PROVE <1>8!(f)
    OBVIOUS
  <2>1. CASE f # p
    BY <1>4, <1>6, <2>1, EventsSound
  <2>2. CASE f = p
    <3>1. events'[f] = Entered(events[f]) /\ events[f] \in Event
      BY <1>0, <1>4, <1>6, <2>2, EventsSound
    <3>2. Sound(Entered(events[f]))
      BY <1>0, <1>2, <2>2
    <3>3. /\ Entered(events[f]).phase = "handling"
          /\ \A field \in {"parent", "name", "handlers", "duplicated",
                             "injected", "answer"} :
               Entered(events[f])[field] = events[f][field]
      BY <3>1 DEF Entered, Event
    <3> QED BY <2>2, <3>1, <3>2, <3>3
  <2> QED BY <2>1, <2>2
<1>9. /\ handlers' = handlers /\ options' = options /\ faults' = faults
      /\ duplicateTriggered' = duplicateTriggered
      /\ failTriggered' = failTriggered
  BY DEF flags
<1>10. TypeOK'
  <2>1. call' \in [Goroutines -> 0..Len(events')]
    BY <1>0, <1>6
  <2> QED BY <1>0, <1>6, <1>9, <2>1 DEF TypeOK
<1>11. \A f \in DOMAIN events' : Sound(events'[f])
  <2> SUFFICES ASSUME NEW f \in 1..n PROVE Sound(events'[f])
    BY <1>6
  <2>1. f \in 1..Len(events) \/ f = n
    BY <1>0
  <2> QED BY <1>1, <1>6, <1>8, <2>1
<1>12. Calls'
  <2>1. \A h \in Goroutines : h # g => call'[h] = call[h]
    BY <1>0
  <2>2. call'[g] = n /\ n # 0
    BY <1>0
  <2>3. \A h \in Goroutines : h # g /\ call[h] # 0 =>
          /\ call[h] \in 1..Len(events) /\ call[h] # p /\ call[h] # n
          /\ events'[call[h]].phase \notin {"handling", "returned"}
    <3> SUFFICES ASSUME NEW h \in Goroutines, h # g, call[h] # 0
                 PROVE  <2>3!(h)!2
      OBVIOUS
    <3>1. call[h] \in 1..Len(events)
      BY <1>0
    <3>2. call[h] # p /\ events[call[h]].phase \notin {"handling", "returned"}
      BY DEF BusInv, Calls
    <3> QED BY <1>0, <1>8, <3>1, <3>2
  <2>4. events'[n].phase \notin {"handling", "returned"}
    BY <1>6, <1>7
  <2>5. \A h1, h2 \in Goroutines : call[h1] # 0 /\ call[h1] = call[h2] => h1 = h2
    BY DEF BusInv, Calls
  <2> QED BY <2>1, <2>2, <2>3, <2>4, <2>5 DEF Calls
<1>13. ASSUME NEW f \in DOMAIN events' PROVE Nested(f)'
  <2>1. CASE f = n
    <3>1. events'[f].parent = p /\ events'[f].answer = "none"
      BY <1>6, <1>7, <2>1
    <3>2. p # 0 => p \in 1..Len(events) /\ p < f /\ events'[p].phase = "handling"
      BY <1>0, <1>8, <2>1
    <3> QED BY <3>1, <3>2 DEF Nested
  <2>2. CASE f # n
    <3>1. f \in 1..Len(events) /\ Nested(f)
      BY <1>0, <1>6, <2>2 DEF BusInv
    <3>2. events[f].parent # 0 => events[f].parent \in 1..Len(events)
      BY <3>1, EventsSound, EventFields DEF Nested
    <3>3. f = p => events[f].phase # "returned" /\ events'[f].phase # "returned"
      BY <1>8, <3>1
    <3>4. events[f].parent = p /\ p # 0 =>
            events[f].phase = "returned" /\ events[f].answer # "error"
      <4>1. p # 0 => events[p].answer = "none"
        BY EventsSound DEF Sound, Standing, InHandler
      <4> QED BY <3>1, <4>1 DEF Nested
    <3> QED BY <1>8, <3>1, <3>2, <3>3, <3>4 DEF Nested
  <2> QED BY <2>1, <2>2
<1>14. OnlyChild'
  <2>1. \A f \in 1..Len(events) : events[f].parent = p /\ p # 0 =>
          events[f].phase = "returned" /\ f # p
    <3> SUFFICES ASSUME NEW f \in 1..Len(events), events[f].parent = p, p # 0
                 PROVE  events[f].phase = "returned" /\ f # p
      OBVIOUS
    <3>1. Nested(f)
      BY <1>0 DEF BusInv
    <3> QED BY <3>1 DEF Nested
  <2>2. \A f \in 1..Len(events) :
          events'[f].phase # "returned" => events[f].phase # "returned" \/ f = p
    BY <1>8
  <2>3. \A f \in 1..n : f \in 1..Len(events) \/ f = n
    BY <1>0
  <2>4. \A e, f \in 1..Len(events) :
          /\ events[e].parent # 0 /\ events[e].parent = events[f].parent
          /\ events[e].phase # "returned" /\ events[f].phase # "returned"
          => e = f
    BY <1>0 DEF BusInv, OnlyChild
  <2>5. events'[n].parent = p
    BY <1>6, <1>7
  <2>6. p # 0 => events[p].phase # "returned"
    OBVIOUS
  <2>7. \A f \in 1..Len(events) :
          events'[f].phase # "returned" => events[f].phase # "returned"
    BY <1>8
  <2>8. \A f \in 1..Len(events) :
          events'[f].parent = p /\ p # 0 => events'[f].phase = "returned"
    BY <1>8, <2>1
  <2>9. \A f \in 1..Len(events) : events'[f].parent = events[f].parent
    BY <1>8
  <2> QED BY <1>6, <2>3, <2>4, <2>5, <2>7, <2>8, <2>9 DEF OnlyChild
<1>15. OnceEach'
  <2>1. \A f \in 1..n : f \in 1..Len(events) \/ f = n
    BY <1>0
  <2>2. ~events'[n].duplicated /\ ~events'[n].injected
    BY <1>6, <1>7
  <2> QED BY <1>0, <1>6, <1>8, <1>9, <2>1, <2>2 DEF BusInv, OnceEach
<1>16. Subscribed'
  <2>1. \A f \in 1..n : f \in 1..Len(events) \/ f = n
    BY <1>0
  <2>2. Prefix(events'[n].handlers, handlers[events'[n].name])
    <3>1. Len(handlers[name]) \in Nat
      BY <1>0 DEF TypeOK
    <3> QED BY <1>6, <1>7, <3>1 DEF Prefix
  <2>3. \A f \in 1..Len(events) :
          Prefix(events'[f].handlers, handlers[events'[f].name])
    BY <1>0, <1>8 DEF BusInv, Subscribed
  <2> QED BY <1>6, <1>9, <2>1, <2>2, <2>3 DEF Subscribed
<1> QED BY <1>10, <1>11, <1>12, <1>13, <1>14, <1>15, <1>16 DEF BusInv

-----------------------------------------------------------------------------
(* The steps of the bus                                                     *)

\* A change of one call, written field by field.
LEMMA OneCallChanges ==
  ASSUME BusInv, NEW e \in 1..Len(events)
  PROVE  /\ [events EXCEPT ![e].phase = "dispatch", ![e].status = "pending"]
              = [events EXCEPT ![e] = Recorded(events[e])]
         /\ [events EXCEPT ![e] = [DispatchError(@) EXCEPT !.injected = TRUE]]
              = [events EXCEPT ![e] = Injected(events[e])]
         /\ [events EXCEPT ![e].phase = "mark"]
              = [events EXCEPT ![e] = Through(events[e])]
         /\ [events EXCEPT ![e].duplicated = TRUE, ![e].next = 1]
              = [events EXCEPT ![e] = Again(events[e])]
BY EventsSound DEF Recorded, Injected, Through, Again

\* What every step inside a call leaves of it.
LEMMA AdvanceFields ==
  ASSUME NEW x \in Event
  PROVE  /\ SameCall(x, Recorded(x)) /\ Recorded(x).phase = "dispatch"
         /\ Recorded(x).duplicated = x.duplicated
         /\ Recorded(x).injected = x.injected
         /\ SameCall(x, Delivered(x)) /\ Delivered(x).phase = "dispatch"
         /\ Delivered(x).duplicated = x.duplicated
         /\ Delivered(x).injected = x.injected
         /\ SameCall(x, DispatchError(x)) /\ DispatchError(x).phase = "fail"
         /\ DispatchError(x).duplicated = x.duplicated
         /\ DispatchError(x).injected = x.injected
         /\ SameCall(x, Injected(x)) /\ Injected(x).phase = "fail"
         /\ Injected(x).duplicated = x.duplicated
         /\ SameCall(x, Through(x)) /\ Through(x).phase = "mark"
         /\ Through(x).duplicated = x.duplicated
         /\ Through(x).injected = x.injected
         /\ SameCall(x, Again(x)) /\ Again(x).phase = x.phase
         /\ Again(x).injected = x.injected
<1>1. /\ SameCall(x, Recorded(x)) /\ Recorded(x).phase = "dispatch"
      /\ Recorded(x).duplicated = x.duplicated
      /\ Recorded(x).injected = x.injected
  BY DEF SameCall, Recorded, Event
<1>2. /\ SameCall(x, Delivered(x)) /\ Delivered(x).phase = "dispatch"
      /\ Delivered(x).duplicated = x.duplicated
      /\ Delivered(x).injected = x.injected
  BY DEF SameCall, Delivered, Event
<1>3. /\ SameCall(x, DispatchError(x)) /\ DispatchError(x).phase = "fail"
      /\ DispatchError(x).duplicated = x.duplicated
      /\ DispatchError(x).injected = x.injected
      /\ SameCall(x, Injected(x)) /\ Injected(x).phase = "fail"
      /\ Injected(x).duplicated = x.duplicated
  BY DEF SameCall, DispatchError, Injected, Event
<1>4. /\ SameCall(x, Through(x)) /\ Through(x).phase = "mark"
      /\ Through(x).duplicated = x.duplicated
      /\ Through(x).injected = x.injected
  BY DEF SameCall, Through, Event
<1>5. /\ SameCall(x, Again(x)) /\ Again(x).phase = x.phase
      /\ Again(x).injected = x.injected
  BY DEF SameCall, Again, Event
<1> QED BY <1>1, <1>2, <1>3, <1>4, <1>5

\* Every step of a goroutine inside Publish keeps the invariant.
LEMMA StepKeeps ==
  ASSUME BusInv, NEW g \in Goroutines, Step(g)
  PROVE  BusInv'
<1> DEFINE e == call[g]
           x == events[e]
<1>0. /\ e # 0 /\ e \in 1..Len(events) /\ x \in Event /\ Sound(x)
      /\ duplicateTriggered \in BOOLEAN /\ failTriggered \in BOOLEAN
      /\ x.duplicated => duplicateTriggered
  BY EventsSound DEF Step, BusInv, TypeOK, OnceEach
<1>1. /\ faults \in 0..MaxFaults
      /\ CanFault => faults' \in 0..MaxFaults
  BY BusAssumption DEF BusInv, TypeOK, CanFault
<1>2. CASE AppendRecord(g, e)
  <2>1. UNCHANGED <<handlers, flags>> /\ x.phase = "append"
    BY <1>2 DEF AppendRecord
  <2>2. CASE events' = [events EXCEPT ![e].phase = "dispatch",
                                      ![e].status = "pending"]
             /\ UNCHANGED <<call, faults>>
    <3>1. events' = [events EXCEPT ![e] = Recorded(x)]
      BY <1>0, <2>2, OneCallChanges
    <3>2. Sound(Recorded(x))
      BY <1>0, <2>1, AdvanceSound
    <3>3. FlagStep(x, Recorded(x))
      BY <1>0, <2>1, AdvanceFields DEF FlagStep, flags
    <3> QED BY <1>0, <1>1, <2>1, <2>2, <3>1, <3>2, <3>3, AdvanceFields, MovesOn
            DEF flags
  <2>3. CASE CanFault /\ Return(g, e, "unrecorded", "error")
    <3>1. MayEnd(x, "unrecorded", "error")
      BY <2>1 DEF MayEnd
    <3> QED BY <1>0, <1>1, <2>1, <2>3, <3>1, ReturnKeeps
  <2> QED BY <1>2, <2>2, <2>3 DEF AppendRecord
<1>3. CASE InjectConsumerFailure(e)
  <2>1. /\ x.phase = "dispatch" /\ x.next <= Len(x.handlers)
        /\ ~failTriggered /\ failTriggered' = TRUE
        /\ UNCHANGED <<options, handlers, duplicateTriggered, call, faults>>
    BY <1>3 DEF InjectConsumerFailure, HasNext, ShouldFailConsumer
  <2>2. events' = [events EXCEPT ![e] = Injected(x)]
    BY <1>0, <1>3, OneCallChanges DEF InjectConsumerFailure
  <2>3. Sound(Injected(x))
    BY <1>0, <2>1, AdvanceSound
  <2>4. FlagStep(x, Injected(x))
    BY <1>0, <2>1, AdvanceFields DEF FlagStep
  <2> QED BY <1>0, <1>1, <2>1, <2>2, <2>3, <2>4, AdvanceFields, MovesOn
<1>4. CASE Handle(e)
  <2>1. /\ x.phase = "dispatch" /\ x.next <= Len(x.handlers)
        /\ UNCHANGED <<handlers, flags, call>>
        /\ faults' \in 0..MaxFaults
    BY <1>1, <1>4 DEF Handle, HasNext
  <2>2. \/ events' = [events EXCEPT ![e] = Delivered(x)]
        \/ events' = [events EXCEPT ![e] = DispatchError(x)]
    BY <1>4 DEF Handle
  <2>3. Sound(Delivered(x)) /\ Sound(DispatchError(x))
    BY <1>0, <2>1, AdvanceSound, DeliveredSound
  <2>4. FlagStep(x, Delivered(x)) /\ FlagStep(x, DispatchError(x))
    BY <1>0, <2>1, AdvanceFields DEF FlagStep, flags
  <2> QED BY <1>0, <2>1, <2>2, <2>3, <2>4, AdvanceFields, MovesOn DEF flags
<1>5. CASE HandlePublishes(g, e)
  <2>1. /\ x.phase = "dispatch" /\ x.next <= Len(x.handlers)
        /\ Len(events) < MaxEvents
        /\ call' = [call EXCEPT ![g] = Len(events) + 1]
        /\ UNCHANGED <<handlers, flags, faults>>
    BY <1>5 DEF HandlePublishes, HasNext
  <2>2. NextHandler(e) \in Handlers
    BY <1>0, <2>1, EventFields DEF NextHandler
  <2>3. PICK name \in Publishes[NextHandler(e)] :
          events' = Append([events EXCEPT ![e].phase = "handling"],
                           NewEvent(name, e))
    BY <1>5 DEF HandlePublishes
  <2>4. name \in Names
    BY <2>2, BusAssumption
  <2>5. /\ e \in 0..Len(events)
        /\ events' = Append(IF e = 0 THEN events
                            ELSE [events EXCEPT ![e].phase = "handling"],
                            NewEvent(name, e))
    BY <1>0, <2>3
  <2> QED BY <1>0, <2>1, <2>4, <2>5, AddedKeeps
<1>6. CASE Dispatched(e)
  <2>1. /\ x.phase = "dispatch" /\ ~(x.next <= Len(x.handlers))
        /\ UNCHANGED <<options, handlers, failTriggered, call, faults>>
    BY <1>6 DEF Dispatched, HasNext
  <2>2. CASE ShouldDuplicate(e)
    <3>1. /\ ~duplicateTriggered /\ duplicateTriggered' = TRUE
          /\ events' = [events EXCEPT ![e] = Again(x)]
      BY <1>0, <1>6, <2>2, OneCallChanges DEF Dispatched, ShouldDuplicate
    <3>2. Sound(Again(x))
      BY <1>0, <2>1, <3>1, AdvanceSound
    <3>3. FlagStep(x, Again(x))
      BY <1>0, <2>1, <3>1, AdvanceFields DEF FlagStep
    <3> QED BY <1>0, <1>1, <2>1, <3>1, <3>2, <3>3, AdvanceFields, MovesOn
  <2>3. CASE ~ShouldDuplicate(e)
    <3>1. /\ duplicateTriggered' = duplicateTriggered
          /\ events' = [events EXCEPT ![e] = Through(x)]
      BY <1>0, <1>6, <2>3, OneCallChanges DEF Dispatched
    <3>2. Sound(Through(x))
      BY <1>0, <2>1, AdvanceSound
    <3>3. FlagStep(x, Through(x))
      BY <1>0, <2>1, <3>1, AdvanceFields DEF FlagStep
    <3> QED BY <1>0, <1>1, <2>1, <3>1, <3>2, <3>3, AdvanceFields, MovesOn
  <2> QED BY <2>2, <2>3
<1>7. CASE MarkProcessed(g, e) \/ HandleDispatchFailure(g, e)
  <2>1. /\ UNCHANGED <<handlers, flags>> /\ faults' \in 0..MaxFaults
        /\ \E status, answer : /\ MayEnd(x, status, answer)
                               /\ Return(g, e, status, answer)
    BY <1>1, <1>7 DEF MarkProcessed, HandleDispatchFailure, MayEnd
  <2> QED BY <1>0, <2>1, ReturnKeeps
<1>8. CASE HandlerReturns(e)
  <2>1. /\ UNCHANGED <<handlers, flags, call>>
        /\ faults' \in 0..MaxFaults
        /\ x.phase \in {"resumed", "refused"}
    BY <1>1, <1>8 DEF HandlerReturns
  <2>2. x.next <= Len(x.handlers)
    BY <1>0, <2>1 DEF Sound, Standing, InHandler
  <2>3. \/ x.phase = "resumed" /\ events' = [events EXCEPT ![e] = Delivered(x)]
        \/ events' = [events EXCEPT ![e] = DispatchError(x)]
    BY <1>8 DEF HandlerReturns
  <2>4. /\ x.phase = "resumed" => Sound(Delivered(x))
        /\ Sound(DispatchError(x))
    BY <1>0, <2>1, <2>2, AdvanceSound, DeliveredSound
  <2>5. FlagStep(x, Delivered(x)) /\ FlagStep(x, DispatchError(x))
    BY <1>0, <2>1, AdvanceFields DEF FlagStep, flags
  <2> QED BY <1>0, <2>1, <2>3, <2>4, <2>5, AdvanceFields, MovesOn DEF flags
<1> QED BY <1>2, <1>3, <1>4, <1>5, <1>6, <1>7, <1>8 DEF Step

\* So does every other step.
LEMMA NextKeeps == BusInv /\ [Next]_vars => BusInv'
<1> SUFFICES ASSUME BusInv, [Next]_vars PROVE BusInv'
  OBVIOUS
<1>1. ASSUME NEW h \in Handlers, Subscribe(h) PROVE BusInv'
  <2>1. /\ handlers' = [handlers EXCEPT ![Consumes[h]] = Append(@, h)]
        /\ options' = options /\ duplicateTriggered' = duplicateTriggered
        /\ failTriggered' = failTriggered
        /\ events' = events /\ call' = call /\ faults' = faults
    BY <1>1 DEF Subscribe, flags
  <2>2. handlers \in [Names -> Seq(Handlers)] /\ Consumes[h] \in Names
    BY BusAssumption DEF BusInv, TypeOK
  <2>3. \A name \in Names :
          /\ handlers'[name] \in Seq(Handlers)
          /\ Len(handlers[name]) <= Len(handlers'[name])
          /\ \A k \in 1..Len(handlers[name]) :
               handlers'[name][k] = handlers[name][k]
    BY <2>1, <2>2
  <2>4. TypeOK'
    <3>1. handlers' \in [Names -> Seq(Handlers)]
      BY <2>1, <2>2
    <3> QED BY <2>1, <3>1 DEF BusInv, TypeOK
  <2>5. Subscribed'
    <3> SUFFICES ASSUME NEW f \in DOMAIN events
                 PROVE  Prefix(events[f].handlers, handlers'[events[f].name])
      BY <2>1 DEF Subscribed
    <3>1. /\ events[f].name \in Names /\ Len(events[f].handlers) \in Nat
          /\ DOMAIN events[f].handlers = 1..Len(events[f].handlers)
      BY EventsSound, EventFields
    <3>2. Prefix(events[f].handlers, handlers[events[f].name])
      BY DEF BusInv, Subscribed
    <3>3. /\ Len(handlers[events[f].name]) \in Nat
          /\ Len(handlers'[events[f].name]) \in Nat
      BY <2>2, <2>3, <3>1
    <3> QED BY <2>3, <3>1, <3>2, <3>3 DEF Prefix
  <2> QED BY <2>1, <2>4, <2>5 DEF BusInv, Calls, Nested, OnlyChild, OnceEach
<1>2. ASSUME NEW g \in Goroutines, Step(g) PROVE BusInv'
  BY <1>2, StepKeeps
<1>3. ASSUME NEW g \in Goroutines, NEW name \in TopNames, Publish(g, name)
      PROVE  BusInv'
  <2>1. /\ name \in Names /\ 0 \in 0..Len(events) /\ call[g] = 0
        /\ Len(events) < MaxEvents
        /\ events' = Append(IF 0 = 0 THEN events
                            ELSE [events EXCEPT ![0].phase = "handling"],
                            NewEvent(name, 0))
        /\ call' = [call EXCEPT ![g] = Len(events) + 1]
        /\ UNCHANGED <<handlers, flags, faults>>
    BY <1>3, BusAssumption, EventsSound DEF Publish
  <2> QED BY <2>1, AddedKeeps
<1>4. CASE Quiescent \/ UNCHANGED vars
  <2>1. /\ handlers' = handlers /\ options' = options
        /\ duplicateTriggered' = duplicateTriggered
        /\ failTriggered' = failTriggered
        /\ events' = events /\ call' = call /\ faults' = faults
    BY <1>4 DEF Quiescent, vars, flags
  <2> QED BY <2>1 DEF BusInv, TypeOK, Calls, Nested, OnlyChild, OnceEach, Subscribed
<1> QED BY <1>1, <1>2, <1>3, <1>4 DEF Next

\* The invariant holds when the process starts.
LEMMA InitBus == Init => BusInv
<1> SUFFICES ASSUME Init PROVE BusInv
  OBVIOUS
<1>1. /\ events = <<>> /\ events \in Seq(Event) /\ Len(events) = 0
      /\ DOMAIN events = {}
      /\ \A g \in Goroutines : call[g] = 0
  BY DEF Init
<1>2. TypeOK
  <2>1. /\ options \in BusOptions /\ handlers \in [Names -> Seq(Handlers)]
        /\ duplicateTriggered \in BOOLEAN /\ failTriggered \in BOOLEAN
    BY BusAssumption DEF Init
  <2>2. /\ Len(events) <= MaxEvents /\ faults \in 0..MaxFaults
        /\ call \in [Goroutines -> 0..Len(events)]
    BY <1>1, BusAssumption DEF Init
  <2> QED BY <1>1, <2>1, <2>2 DEF TypeOK
<1> QED BY <1>1, <1>2 DEF BusInv, Calls, OnlyChild, OnceEach, Subscribed

-----------------------------------------------------------------------------
(* The theorems about the bus                                               *)

\* The stacks of calls, the loop of every dispatch and the flags of the faults
\* agree in every reachable state.
THEOREM BusInvariant == Spec => []BusInv
<1>1. Init => BusInv
  BY InitBus
<1>2. BusInv /\ [Next]_vars => BusInv'
  BY NextKeeps
<1> QED BY <1>1, <1>2, PTL DEF Spec

\* The handlers an event owes a delivery to, by position.
LEMMA DueFacts ==
  ASSUME NEW x \in Event
  PROVE  /\ Due(x) \in Seq(Handlers)
         /\ Len(Due(x)) =
              Len(x.handlers) + (IF x.duplicated THEN Len(x.handlers) ELSE 0)
         /\ \A k \in 1..Len(Due(x)) :
              Due(x)[k] = IF k <= Len(x.handlers) THEN x.handlers[k]
                          ELSE x.handlers[k - Len(x.handlers)]
<1>1. x.handlers \in Seq(Handlers) /\ Len(x.handlers) \in Nat
  BY EventFields
<1>2. CASE x.duplicated
  <2>1. Due(x) = x.handlers \o x.handlers
    BY <1>2 DEF Due
  <2> QED BY <1>1, <1>2, <2>1, ConcatProperties
<1>3. CASE ~x.duplicated
  <2>1. Due(x) = x.handlers
    BY <1>3 DEF Due
  <2> QED BY <1>1, <1>3, <2>1
<1> QED BY <1>2, <1>3

\* For every wiring: no handler is skipped, overtaken or called out of turn, in
\* the second round of a duplicated event either, whatever is subscribed,
\* published or fails in between.
THEOREM DeliveredInOrderHolds == Spec => []DeliveredInOrder
<1>1. BusInv => DeliveredInOrder
  <2> SUFFICES ASSUME BusInv, NEW e \in DOMAIN events
               PROVE  LET x == events[e] IN
                        /\ Prefix(x.handlers, handlers[x.name])
                        /\ Prefix(x.deliveries, Due(x))
                        /\ x.status = "processed" => x.deliveries = Due(x)
                        /\ x.status = "failed" => Len(x.deliveries) < Len(Due(x))
    BY DEF DeliveredInOrder
  <2> DEFINE x == events[e]
  <2>1. x \in Event /\ Loop(x) /\ Standing(x)
    BY EventsSound DEF Sound
  <2>2. Prefix(x.handlers, handlers[x.name])
    BY DEF BusInv, Subscribed
  <2>3. /\ Len(x.deliveries) \in Nat /\ x.deliveries \in Seq(Handlers)
        /\ DOMAIN x.deliveries = 1..Len(x.deliveries)
        /\ Due(x) \in Seq(Handlers) /\ Len(Due(x)) \in Nat
        /\ Len(x.handlers) \in Nat /\ x.next \in Nat \ {0}
    <3>1. /\ Len(x.deliveries) \in Nat /\ x.deliveries \in Seq(Handlers)
          /\ DOMAIN x.deliveries = 1..Len(x.deliveries)
          /\ Len(x.handlers) \in Nat /\ x.next \in Nat \ {0}
      BY <2>1, EventFields
    <3>2. Due(x) \in Seq(Handlers)
      BY <2>1, DueFacts
    <3> QED BY <3>1, <3>2, LenProperties
  <2>4. /\ Len(x.deliveries) <= Len(Due(x))
        /\ x.status = "processed" => Len(x.deliveries) = Len(Due(x))
        /\ x.status = "failed" => Len(x.deliveries) < Len(Due(x))
    <3> DEFINE again == IF x.duplicated THEN Len(x.handlers) ELSE 0
    <3>1. again \in Nat
      BY <2>3
    <3>2. Len(Due(x)) = Len(x.handlers) + again
      BY <2>1, DueFacts
    <3>3. Len(x.deliveries) = x.next - 1 + again
      BY <2>1 DEF Loop
    <3>4. /\ x.next <= Len(x.handlers) + 1
          /\ x.status = "processed" => x.next = Len(x.handlers) + 1
          /\ x.status = "failed" => x.next <= Len(x.handlers)
      BY <2>1 DEF Loop, Standing
    <3>5. ASSUME NEW n \in Nat \ {0}, NEW h \in Nat, NEW a \in Nat,
                 n <= h + 1
          PROVE  /\ n - 1 + a <= h + a
                 /\ n = h + 1 => n - 1 + a = h + a
                 /\ n <= h => n - 1 + a < h + a
      BY <3>5
    <3> DEFINE n == x.next
               h == Len(x.handlers)
    <3>6. n \in Nat \ {0} /\ h \in Nat /\ n <= h + 1
      BY <2>3, <3>4
    <3> HIDE DEF again, n, h
    <3>7. /\ n - 1 + again <= h + again
          /\ n = h + 1 => n - 1 + again = h + again
          /\ n <= h => n - 1 + again < h + again
      BY <3>1, <3>5, <3>6
    <3>8. Len(x.deliveries) = n - 1 + again /\ Len(Due(x)) = h + again
      BY <3>2, <3>3 DEF n, h
    <3>9. /\ x.status = "processed" => n = h + 1
          /\ x.status = "failed" => n <= h
      BY <3>4 DEF n, h
    <3> HIDE DEF x
    <3> QED BY <3>7, <3>8, <3>9
  <2>5. \A k \in 1..Len(x.deliveries) : x.deliveries[k] = Due(x)[k]
    <3>1. \A k \in 1..Len(x.deliveries) : k \in 1..Len(Due(x))
      BY <2>3, <2>4
    <3> QED BY <2>1, <3>1, DueFacts DEF Loop
  <2>6. Prefix(x.deliveries, Due(x))
    BY <2>3, <2>4, <2>5 DEF Prefix
  <2>7. x.status = "processed" => x.deliveries = Due(x)
    BY <2>3, <2>4, <2>5, SeqEqual
  <2> QED BY <2>2, <2>4, <2>6, <2>7
<1> QED BY <1>1, BusInvariant, PTL

\* A publication answers only when everything under it is through, and without
\* error only when all of it is processed, to any depth of nesting.
THEOREM AnswersTruthfulHolds == Spec => []AnswersTruthful
<1>1. BusInv => AnswersTruthful
  <2> SUFFICES ASSUME BusInv, NEW e \in DOMAIN events
               PROVE  /\ events[e].answer = "ok" => events[e].status = "processed"
                      /\ events[e].answer # "none" =>
                           \A f \in DOMAIN events : events[f].parent = e =>
                             /\ events[f].answer # "none"
                             /\ events[e].answer = "ok" => events[f].answer = "ok"
    BY DEF AnswersTruthful
  <2>1. e \in 1..Len(events) /\ Standing(events[e]) /\ e # 0
    BY EventsSound DEF Sound
  <2>2. ASSUME events[e].answer # "none",
               NEW f \in DOMAIN events, events[f].parent = e
        PROVE  /\ events[f].answer # "none"
               /\ events[e].answer = "ok" => events[f].answer = "ok"
    <3>1. /\ Standing(events[f]) /\ Nested(f)
          /\ events[f].answer \in {"none", "ok", "error"}
      BY EventsSound, EventFields DEF Sound, BusInv
    <3>2. events[e].phase = "returned"
      BY <2>1, <2>2 DEF Standing
    <3>3. events[f].phase = "returned"
      BY <2>1, <2>2, <3>1, <3>2 DEF Nested
    <3>4. events[f].answer = "error" => events[e].answer = "error"
      BY <2>1, <2>2, <3>1, <3>2 DEF Nested
    <3> QED BY <3>1, <3>3, <3>4 DEF Standing
  <2> QED BY <2>1, <2>2 DEF Standing
<1> QED BY <1>1, BusInvariant, PTL

\* A set of which all members are equal has one at most.
LEMMA AtMostOne ==
  ASSUME NEW S, \A a, b \in S : a = b
  PROVE  Cardinality(S) <= 1
<1>1. CASE S = {}
  BY <1>1, FS_EmptySet
<1>2. CASE S # {}
  <2>1. PICK a \in S : TRUE
    BY <1>2
  <2>2. S = {a}
    BY <2>1
  <2>3. Cardinality(S) = 1
    BY <2>2, FS_Singleton
  <2> QED BY <2>3
<1> QED BY <1>1, <1>2

\* However many goroutines race for them, one event at most is delivered twice
\* and one consumer at most is made to fail in the life of the process.
THEOREM FaultsOnceHolds == Spec => []FaultsOnce
<1>1. BusInv => FaultsOnce
  BY AtMostOne DEF BusInv, OnceEach, FaultsOnce
<1> QED BY <1>1, BusInvariant, PTL

-----------------------------------------------------------------------------
(* The bus with its telemetry                                               *)

\* A step with telemetry is a step of the bus.
LEMMA TracedStepIsStep ==
  ASSUME [TracedNext]_tracedVars
  PROVE  [Next]_vars
<1>1. ASSUME NEW g \in Goroutines, TracedStep(g) PROVE Step(g)
  BY <1>1 DEF TracedStep, Step, TracedAppend, TracedDelivery,
              TracedHandlePublishes, TracedHandlerReturns, TracedDispatched,
              TracedMark
<1> QED BY <1>1 DEF TracedNext, tracedVars, Next, TracedSubscribe, TracedPublish

\* Telemetry adds nothing to what the bus does: what is proved of the bus holds
\* of the bus as it is observed.
THEOREM TracedImplementsBus == TracedSpec => Spec
<1>1. TracedInit => Init
  BY DEF TracedInit
<1>2. [TracedNext]_tracedVars => [Next]_vars
  BY TracedStepIsStep
<1> QED BY <1>1, <1>2, PTL DEF TracedSpec, Spec

-----------------------------------------------------------------------------
(* The spans: the inductive invariant                                       *)

Span == [parent : Nat \X Nat, status : DOMAIN Rank, errors : Nat, ends : Nat]
Trace == [publish : Span, consume : Seq(Span)]

Opened(span) == span.status = "unset" /\ span.errors = 0 /\ span.ends = 0
EndedWith(span, status) == span.status = status /\ span.ends = 1

\* What the spans of a call show, at each of its phases: one ended span per
\* delivery, and one more for the handler that is running or has failed.
Traces(x, s) ==
  LET n == Len(s.consume)
      d == Len(x.deliveries)
  IN /\ s.publish.parent[1] = x.parent
     /\ x.phase # "returned" => Opened(s.publish)
     /\ x.phase = "returned" => s.publish.ends = 1
     /\ \A k \in 1..d : EndedWith(s.consume[k], "ok")
     /\ x.phase \in {"append", "dispatch", "mark"} \/ x.answer = "ok" => n = d
     /\ x.phase \in InHandler \cup {"fail"} => n = d + 1
     /\ x.phase \in InHandler => Opened(s.consume[n])
     /\ x.phase = "fail" => EndedWith(s.consume[n], "error")
     /\ x.answer = "ok" => s.publish.errors = 0
     /\ x.answer = "error" =>
          \/ n = d /\ s.publish.errors = 1
          \/ n = d + 1 /\ s.publish.errors = 0 /\ EndedWith(s.consume[n], "error")

\* The span of a running publication hangs under the last delivery of its parent.
Hangs(e) ==
  events[e].parent # 0 /\ events[e].phase # "returned" =>
    spans[e].publish.parent[2] = Len(spans[events[e].parent].consume)

TraceInv ==
  /\ spans \in Seq(Trace) /\ Len(spans) = Len(events)
  /\ \A e \in 1..Len(events) : Traces(events[e], spans[e]) /\ Hangs(e)

-----------------------------------------------------------------------------
(* One span and one trace at a time                                         *)

\* A new span is open.
LEMMA NewSpanOpen ==
  ASSUME NEW parent \in Nat \X Nat
  PROVE  /\ NewSpan(parent) \in Span /\ Opened(NewSpan(parent))
         /\ NewSpan(parent).parent = parent
BY DEF NewSpan, Span, Opened, Rank

\* The ranks of the codes.
LEMMA RankValues ==
  /\ DOMAIN Rank = {"unset", "error", "ok"}
  /\ Rank["unset"] = 0 /\ Rank["error"] = 1 /\ Rank["ok"] = 2
BY DEF Rank

\* A code that is no lower than the status of a running span becomes its status.
LEMMA SetStatusRaises ==
  ASSUME NEW span \in Span, span.ends = 0, NEW code \in {"error", "ok"},
         span.status = "unset" \/ code = "ok"
  PROVE  /\ SetStatus(span, code) = [span EXCEPT !.status = code]
         /\ SetStatus(span, code) \in Span
<1>1. span.status \in {"unset", "error", "ok"}
  BY RankValues DEF Span
<1>2. ~(span.ends > 0 \/ Rank[span.status] > Rank[code])
  BY <1>1, RankValues
<1>3. SetStatus(span, code) = [span EXCEPT !.status = code]
  BY <1>2 DEF SetStatus
<1>4. code \in DOMAIN Rank
  BY RankValues
<1> QED BY <1>3, <1>4 DEF Span

\* RecordSpanError leaves a running span marked with its first error.
LEMMA RecordSpanErrorMarks ==
  ASSUME NEW span \in Span, Opened(span)
  PROVE  LET marked == RecordSpanError(span)
         IN /\ marked \in Span /\ marked.parent = span.parent
            /\ marked.status = "error" /\ marked.errors = 1 /\ marked.ends = 0
<1> DEFINE one == [span EXCEPT !.errors = @ + 1]
<1>1. /\ one \in Span /\ one.ends = 0 /\ one.status = "unset"
      /\ one.errors = 1 /\ one.parent = span.parent
  BY DEF Span, Opened
<1>2. RecordSpanError(span) = SetStatus(one, "error")
  BY DEF RecordSpanError
<1> HIDE DEF one
<1>3. /\ RecordSpanError(span) = [one EXCEPT !.status = "error"]
      /\ RecordSpanError(span) \in Span
  BY <1>1, <1>2, SetStatusRaises
<1> QED BY <1>1, <1>3 DEF Span

\* A running span is ended.
LEMMA EndOnce ==
  ASSUME NEW span \in Span, span.ends = 0
  PROVE  LET done == [span EXCEPT !.ends = @ + 1]
         IN /\ done \in Span /\ done.parent = span.parent /\ done.ends = 1
            /\ done.status = span.status /\ done.errors = span.errors
BY DEF Span

\* CompleteSpan ends an open span with the status of its error, and one that was
\* marked before with Ok.
LEMMA CompleteSpanEnds ==
  ASSUME NEW span \in Span, span.ends = 0, NEW err \in BOOLEAN,
         err => Opened(span)
  PROVE  LET done == CompleteSpan(span, err)
         IN /\ done \in Span /\ done.parent = span.parent
            /\ EndedWith(done, IF err THEN "error" ELSE "ok")
            /\ done.errors = IF err THEN 1 ELSE span.errors
<1>1. CASE err
  <2> DEFINE marked == RecordSpanError(span)
  <2>1. /\ marked \in Span /\ marked.parent = span.parent
        /\ marked.status = "error" /\ marked.errors = 1 /\ marked.ends = 0
    BY <1>1, RecordSpanErrorMarks
  <2>2. CompleteSpan(span, err) = [marked EXCEPT !.ends = @ + 1]
    BY <1>1 DEF CompleteSpan
  <2> HIDE DEF marked
  <2> QED BY <1>1, <2>1, <2>2, EndOnce DEF EndedWith
<1>2. CASE ~err
  <2> DEFINE marked == SetStatus(span, "ok")
  <2>1. marked = [span EXCEPT !.status = "ok"] /\ marked \in Span
    BY SetStatusRaises
  <2>2. CompleteSpan(span, err) = [marked EXCEPT !.ends = @ + 1]
    BY <1>2 DEF CompleteSpan
  <2>3. /\ marked.parent = span.parent /\ marked.status = "ok"
        /\ marked.errors = span.errors /\ marked.ends = 0
    BY <2>1 DEF Span
  <2> HIDE DEF marked
  <2> QED BY <1>2, <2>1, <2>2, <2>3, EndOnce DEF EndedWith
<1> QED BY <1>1, <1>2

\* The deferred CompleteSpan of Publish ends the publish span, with the error
\* that was recorded on it before, if any.
LEMMA CompletePublishEnds ==
  ASSUME NEW s \in Trace, Opened(s.publish), NEW recorded \in BOOLEAN
  PROVE  LET done == CompletePublish(s, recorded)
         IN /\ done \in Trace /\ done.consume = s.consume
            /\ done.publish.parent = s.publish.parent
            /\ done.publish.ends = 1
            /\ done.publish.errors = IF recorded THEN 1 ELSE 0
<1> DEFINE span == IF recorded THEN RecordSpanError(s.publish) ELSE s.publish
           v == CompleteSpan(span, FALSE)
<1>1. /\ span \in Span /\ span.parent = s.publish.parent /\ span.ends = 0
      /\ span.errors = IF recorded THEN 1 ELSE 0
  <2>1. s.publish \in Span
    BY DEF Trace
  <2>2. CASE recorded
    BY <2>1, <2>2, RecordSpanErrorMarks
  <2>3. CASE ~recorded
    BY <2>1, <2>3 DEF Opened
  <2> QED BY <2>2, <2>3
<1>2. CompletePublish(s, recorded) = [s EXCEPT !.publish = v]
  BY DEF CompletePublish, Trace
<1> HIDE DEF span
<1>3. /\ v \in Span /\ v.parent = s.publish.parent /\ v.ends = 1
      /\ v.errors = IF recorded THEN 1 ELSE 0
  BY <1>1, CompleteSpanEnds DEF EndedWith
<1> HIDE DEF v
<1> QED BY <1>2, <1>3 DEF Trace

\* StartEventConsume adds an open span.
LEMMA StartConsumeAdds ==
  ASSUME NEW s \in Trace
  PROVE  LET begun == StartEventConsume(s)
         IN /\ begun \in Trace /\ begun.publish = s.publish
            /\ Len(s.consume) \in Nat
            /\ Len(begun.consume) = Len(s.consume) + 1
            /\ \A k \in 1..Len(s.consume) : begun.consume[k] = s.consume[k]
            /\ Opened(begun.consume[Len(begun.consume)])
<1> DEFINE c == Append(s.consume, NewSpan(NoSpan))
<1>1. NewSpan(NoSpan) \in Span /\ Opened(NewSpan(NoSpan))
  BY NewSpanOpen DEF NoSpan
<1>2. s.consume \in Seq(Span) /\ Len(s.consume) \in Nat
  BY DEF Trace
<1>3. /\ c \in Seq(Span) /\ Len(c) = Len(s.consume) + 1
      /\ c[Len(s.consume) + 1] = NewSpan(NoSpan)
      /\ \A k \in 1..Len(s.consume) : c[k] = s.consume[k]
  BY <1>1, <1>2, AppendFacts
<1>4. StartEventConsume(s) = [s EXCEPT !.consume = c]
  BY DEF StartEventConsume, Trace
<1> HIDE DEF c
<1>5. /\ StartEventConsume(s) \in Trace
      /\ StartEventConsume(s).publish = s.publish
      /\ StartEventConsume(s).consume = c
  BY <1>3, <1>4 DEF Trace
<1> QED BY <1>1, <1>2, <1>3, <1>5

\* CompleteConsume ends the last span and leaves the others alone.
LEMMA CompleteConsumeEnds ==
  ASSUME NEW s \in Trace, s.consume # <<>>,
         Opened(s.consume[Len(s.consume)]), NEW err \in BOOLEAN
  PROVE  LET n == Len(s.consume)
             done == CompleteConsume(s, err)
         IN /\ done \in Trace /\ done.publish = s.publish
            /\ Len(done.consume) = n
            /\ \A k \in 1..n : k # n => done.consume[k] = s.consume[k]
            /\ EndedWith(done.consume[n], IF err THEN "error" ELSE "ok")
<1> DEFINE n == Len(s.consume)
           v == CompleteSpan(s.consume[n], err)
           c == [s.consume EXCEPT ![n] = v]
<1>1. s.consume \in Seq(Span) /\ n \in Nat /\ n \in 1..n /\ s.consume[n] \in Span
  BY DEF Trace
<1>2. v \in Span /\ EndedWith(v, IF err THEN "error" ELSE "ok")
  BY <1>1, CompleteSpanEnds DEF Opened
<1> HIDE DEF v
<1>3. /\ c \in Seq(Span) /\ Len(c) = n /\ c[n] = v
      /\ \A k \in 1..n : k # n => c[k] = s.consume[k]
  BY <1>1, <1>2, ExceptSeq
<1>4. CompleteConsume(s, err) = [s EXCEPT !.consume = c]
  BY DEF CompleteConsume, Trace, v
<1> HIDE DEF c
<1>5. /\ CompleteConsume(s, err) \in Trace
      /\ CompleteConsume(s, err).publish = s.publish
      /\ CompleteConsume(s, err).consume = c
  BY <1>3, <1>4 DEF Trace
<1> QED BY <1>2, <1>3, <1>5

\* What a trace depends on of the call it belongs to, as a step inside the call
\* changes it: its phase, and the number of its deliveries by d.
Goes(x, v, phase, d) ==
  /\ v.parent = x.parent /\ v.answer = x.answer /\ v.phase = phase
  /\ Len(v.deliveries) = Len(x.deliveries) + d

\* Those are the changes the steps inside a call make.
LEMMA AdvanceGoes ==
  ASSUME NEW x \in Event, x.next <= Len(x.handlers) + 1
  PROVE  /\ Goes(x, Recorded(x), "dispatch", 0)
         /\ Goes(x, Through(x), "mark", 0)
         /\ Goes(x, Again(x), x.phase, 0)
         /\ Goes(x, Entered(x), "handling", 0)
         /\ \A answer : /\ Resumed(x, answer).phase \in {"resumed", "refused"}
                        /\ Goes(x, Resumed(x, answer), Resumed(x, answer).phase, 0)
         /\ Goes(x, DispatchError(x), "fail", 0)
         /\ Goes(x, Injected(x), "fail", 0)
         /\ x.next <= Len(x.handlers) => Goes(x, Delivered(x), "dispatch", 1)
<1>1. Len(x.deliveries) + 0 = Len(x.deliveries)
  BY EventFields
<1>2. ASSUME x.next <= Len(x.handlers)
      PROVE  Goes(x, Delivered(x), "dispatch", 1)
  <2> DEFINE d == Append(x.deliveries, x.handlers[x.next])
  <2>1. Len(d) = Len(x.deliveries) + 1
    BY <1>2, EventFields, AppendFacts
  <2>2. Delivered(x) = [x EXCEPT !.phase = "dispatch", !.next = x.next + 1,
                                 !.deliveries = d]
    BY DEF Delivered, Event
  <2> HIDE DEF d
  <2> QED BY <2>1, <2>2 DEF Goes, Event
<1>3. /\ Goes(x, Recorded(x), "dispatch", 0)
      /\ Goes(x, Through(x), "mark", 0)
      /\ Goes(x, Again(x), x.phase, 0)
      /\ Goes(x, Entered(x), "handling", 0)
  BY <1>1 DEF Goes, Event, Recorded, Through, Again, Entered
<1>4. Goes(x, DispatchError(x), "fail", 0) /\ Goes(x, Injected(x), "fail", 0)
  BY <1>1 DEF Goes, Event, DispatchError, Injected
<1>5. ASSUME NEW answer
      PROVE  /\ Resumed(x, answer).phase \in {"resumed", "refused"}
             /\ Goes(x, Resumed(x, answer), Resumed(x, answer).phase, 0)
  BY <1>1 DEF Goes, Event, Resumed
<1> QED BY <1>2, <1>3, <1>4, <1>5

\* The lengths a trace is about are numbers.
LEMMA TraceLengths ==
  ASSUME NEW x \in Event, NEW s \in Trace
  PROVE  /\ Len(x.deliveries) \in Nat /\ Len(s.consume) \in Nat
         /\ s.consume \in Seq(Span) /\ s.publish \in Span
         /\ DOMAIN s.consume = 1..Len(s.consume)
BY EventFields DEF Trace

\* A step that opens and ends no span.
LEMMA TraceStays ==
  ASSUME NEW x, Sound(x), NEW s \in Trace, Traces(x, s), NEW v \in Event,
         x.phase \in {"append", "dispatch"},
         Goes(x, v, "dispatch", 0) \/ Goes(x, v, "mark", 0)
  PROVE  Traces(v, s)
<1>1. x \in Event /\ x.answer = "none"
  BY DEF Sound, Standing, InHandler
<1>2. /\ v.parent = x.parent /\ v.answer = x.answer
      /\ v.phase \in {"dispatch", "mark"}
      /\ Len(v.deliveries) = Len(x.deliveries)
  BY <1>1, TraceLengths DEF Goes
<1> QED BY <1>1, <1>2 DEF Traces, InHandler

\* What a handler published returns to it: its span stays open.
LEMMA TraceAnswered ==
  ASSUME NEW x, Sound(x), NEW s \in Trace, Traces(x, s), NEW v \in Event,
         x.phase = "handling", v.phase \in {"resumed", "refused"},
         Goes(x, v, v.phase, 0)
  PROVE  Traces(v, s)
<1>1. x \in Event /\ x.answer = "none"
  BY DEF Sound, Standing
<1>2. /\ v.parent = x.parent /\ v.answer = x.answer
      /\ Len(v.deliveries) = Len(x.deliveries)
  BY <1>1, TraceLengths DEF Goes
<1> QED BY <1>1, <1>2 DEF Traces, InHandler

\* A handler is entered.
LEMMA TraceEnters ==
  ASSUME NEW x, Sound(x), NEW s \in Trace, Traces(x, s), NEW v \in Event,
         x.phase = "dispatch", Goes(x, v, "handling", 0)
  PROVE  /\ Traces(v, StartEventConsume(s)) /\ StartEventConsume(s) \in Trace
         /\ StartEventConsume(s).publish = s.publish
         /\ Len(StartEventConsume(s).consume) = Len(s.consume) + 1
<1> DEFINE t == StartEventConsume(s)
<1>1. x \in Event /\ x.answer = "none"
  BY DEF Sound, Standing, InHandler
<1>2. /\ t \in Trace /\ t.publish = s.publish /\ Len(s.consume) \in Nat
      /\ Len(t.consume) = Len(s.consume) + 1
      /\ \A k \in 1..Len(s.consume) : t.consume[k] = s.consume[k]
      /\ Opened(t.consume[Len(t.consume)])
  BY StartConsumeAdds
<1>3. /\ v.parent = x.parent /\ v.answer = "none" /\ v.phase = "handling"
      /\ Len(v.deliveries) = Len(x.deliveries) /\ Len(x.deliveries) \in Nat
  BY <1>1, TraceLengths DEF Goes
<1>4. Len(s.consume) = Len(x.deliveries)
  BY DEF Traces
<1> HIDE DEF t
<1>5. \A k \in 1..Len(v.deliveries) : EndedWith(t.consume[k], "ok")
  BY <1>2, <1>3, <1>4 DEF Traces
<1>6. t.publish.parent[1] = v.parent /\ Opened(t.publish)
  BY <1>2, <1>3 DEF Traces
<1>7. Traces(v, t)
  BY <1>2, <1>3, <1>4, <1>5, <1>6 DEF Traces, InHandler
<1> QED BY <1>2, <1>7 DEF t

\* The handler that is running returns, with an error or without.
LEMMA TraceResumes ==
  ASSUME NEW x \in Event, x.answer = "none", NEW s \in Trace, Traces(x, s),
         NEW v \in Event, NEW err \in BOOLEAN, x.phase \in InHandler,
         IF err THEN Goes(x, v, "fail", 0) ELSE Goes(x, v, "dispatch", 1)
  PROVE  /\ Traces(v, CompleteConsume(s, err)) /\ CompleteConsume(s, err) \in Trace
         /\ CompleteConsume(s, err).publish = s.publish
         /\ Len(CompleteConsume(s, err).consume) = Len(s.consume)
<1> DEFINE t == CompleteConsume(s, err)
           n == Len(s.consume)
<1>1. /\ n = Len(x.deliveries) + 1 /\ Opened(s.consume[n])
      /\ Opened(s.publish) /\ s.publish.parent[1] = x.parent
      /\ \A k \in 1..Len(x.deliveries) : EndedWith(s.consume[k], "ok")
  BY DEF Traces, InHandler
<1>2. Len(x.deliveries) \in Nat /\ n \in Nat /\ n # 0 /\ s.consume # <<>>
  BY <1>1, TraceLengths
<1>3. /\ t \in Trace /\ t.publish = s.publish /\ Len(t.consume) = n
      /\ \A k \in 1..n : k # n => t.consume[k] = s.consume[k]
      /\ EndedWith(t.consume[n], IF err THEN "error" ELSE "ok")
  BY <1>1, <1>2, CompleteConsumeEnds
<1> HIDE DEF t
<1>4. \A k \in 1..Len(x.deliveries) : EndedWith(t.consume[k], "ok")
  BY <1>1, <1>2, <1>3
<1>5. CASE err
  <2>1. /\ v.parent = x.parent /\ v.answer = "none" /\ v.phase = "fail"
        /\ Len(v.deliveries) = Len(x.deliveries)
    BY <1>2, <1>5 DEF Goes
  <2>2. Traces(v, t)
    BY <1>1, <1>2, <1>3, <1>4, <1>5, <2>1 DEF Traces, InHandler
  <2> QED BY <1>3, <2>2 DEF t
<1>6. CASE ~err
  <2>1. /\ v.parent = x.parent /\ v.answer = "none" /\ v.phase = "dispatch"
        /\ Len(v.deliveries) = n
    BY <1>1, <1>2, <1>6 DEF Goes
  <2>2. \A k \in 1..n : k \in 1..Len(x.deliveries) \/ k = n
    BY <1>1, <1>2
  <2>3. \A k \in 1..n : EndedWith(t.consume[k], "ok")
    BY <1>3, <1>4, <1>6, <2>2
  <2>4. Traces(v, t)
    BY <1>1, <1>3, <2>1, <2>3 DEF Traces, InHandler
  <2> QED BY <1>3, <2>4 DEF t
<1> QED BY <1>5, <1>6

\* A delivery that starts and ends in one step.
LEMMA TraceDelivers ==
  ASSUME NEW x, Sound(x), NEW s \in Trace, Traces(x, s), NEW v \in Event,
         x.phase = "dispatch", NEW err \in BOOLEAN,
         IF err THEN Goes(x, v, "fail", 0) ELSE Goes(x, v, "dispatch", 1)
  PROVE  LET t == CompleteConsume(StartEventConsume(s), err)
         IN Traces(v, t) /\ t \in Trace /\ t.publish = s.publish
<1> DEFINE y == Entered(x)
           u == StartEventConsume(s)
<1>1. x \in Event /\ x.answer = "none" /\ x.next <= Len(x.handlers) + 1
  BY DEF Sound, Standing, Loop
<1>2. y \in Event /\ Goes(x, y, "handling", 0)
  <2>1. y \in Event
    BY <1>1 DEF Entered, Event, Phases
  <2> QED BY <1>1, <2>1, AdvanceGoes
<1>3. Traces(y, u) /\ u \in Trace /\ u.publish = s.publish
  BY <1>2, TraceEnters
<1>4. /\ y.answer = "none" /\ y.phase \in InHandler /\ y.parent = x.parent
      /\ y.answer = x.answer /\ Len(y.deliveries) = Len(x.deliveries)
  BY <1>1, <1>2, TraceLengths DEF Goes, InHandler
<1>5. IF err THEN Goes(y, v, "fail", 0) ELSE Goes(y, v, "dispatch", 1)
  BY <1>4 DEF Goes
<1> HIDE DEF y, u
<1> QED BY <1>2, <1>3, <1>4, <1>5, TraceResumes DEF u

\* Publish returns; its error is on its span unless it is that of a delivery.
LEMMA TraceEnds ==
  ASSUME NEW x, Sound(x), NEW s \in Trace, Traces(x, s), NEW status, NEW answer,
         MayEnd(x, status, answer), NEW recorded \in BOOLEAN,
         recorded <=> x.phase # "fail" /\ answer = "error"
  PROVE  LET t == CompletePublish(s, recorded)
         IN /\ Traces(Ended(x, status, answer), t) /\ t \in Trace
            /\ t.consume = s.consume
<1> DEFINE t == CompletePublish(s, recorded)
           v == Ended(x, status, answer)
<1>1. x \in Event /\ Opened(s.publish)
  BY DEF Sound, Traces, MayEnd
<1>2. /\ t \in Trace /\ t.consume = s.consume
      /\ t.publish.parent = s.publish.parent
      /\ t.publish.ends = 1
      /\ t.publish.errors = IF recorded THEN 1 ELSE 0
  BY <1>1, CompletePublishEnds
<1>3. /\ v.parent = x.parent /\ v.answer = answer /\ v.phase = "returned"
      /\ v.deliveries = x.deliveries
  BY <1>1 DEF Ended, Event
<1>4. /\ s.publish.parent[1] = x.parent
      /\ \A k \in 1..Len(x.deliveries) : EndedWith(s.consume[k], "ok")
      /\ x.phase \in {"append", "mark"} => Len(s.consume) = Len(x.deliveries)
      /\ x.phase = "fail" => /\ Len(s.consume) = Len(x.deliveries) + 1
                             /\ EndedWith(s.consume[Len(s.consume)], "error")
  BY DEF Traces
<1> HIDE DEF t, v
<1>5. Traces(v, t)
  BY <1>2, <1>3, <1>4 DEF Traces, MayEnd, InHandler
<1> QED BY <1>2, <1>5 DEF t, v

\* A call of Publish begins with its span.
LEMMA TraceBegins ==
  ASSUME TypeOK, NEW name \in Names, NEW p \in Nat, NEW k \in Nat
  PROVE  LET t == [publish |-> NewSpan(<<p, k>>), consume |-> <<>>]
         IN /\ Traces(NewEvent(name, p), t) /\ t \in Trace
            /\ t.publish.parent = <<p, k>>
<1> DEFINE span == NewSpan(<<p, k>>)
           t == [publish |-> span, consume |-> <<>>]
           x == NewEvent(name, p)
<1>1. span \in Span /\ Opened(span) /\ span.parent = <<p, k>>
  BY NewSpanOpen
<1> HIDE DEF span
<1>2. t \in Trace /\ t.publish = span /\ Len(t.consume) = 0
  BY <1>1 DEF Trace
<1>3. /\ x.parent = p /\ x.phase = "append" /\ x.answer = "none"
      /\ Len(x.deliveries) = 0
  BY DEF NewEvent
<1> HIDE DEF t, x
<1>4. Traces(x, t)
  BY <1>1, <1>2, <1>3 DEF Traces, InHandler
<1> QED BY <1>1, <1>2, <1>4 DEF span, t, x

-----------------------------------------------------------------------------
(* The spans of all calls                                                   *)

\* The traces, one by one.
LEMMA TracesAll ==
  ASSUME BusInv, TraceInv
  PROVE  /\ spans \in Seq(Trace) /\ Len(spans) = Len(events)
         /\ DOMAIN spans = 1..Len(events)
         /\ \A e \in 1..Len(events) :
              /\ spans[e] \in Trace /\ Traces(events[e], spans[e]) /\ Hangs(e)
              /\ Len(spans[e].consume) \in Nat
<1>1. /\ spans \in Seq(Trace) /\ Len(spans) = Len(events)
      /\ DOMAIN spans = 1..Len(events)
      /\ \A e \in 1..Len(events) :
           spans[e] \in Trace /\ Traces(events[e], spans[e]) /\ Hangs(e)
  BY EventsSound DEF TraceInv
<1>2. \A s \in Trace : Len(s.consume) \in Nat
  BY DEF Trace
<1> QED BY <1>1, <1>2

\* A step that publishes nothing new: a publication hangs where it did, for the
\* handler it runs in opens no other span before it returns.
LEMMA TraceMoves ==
  ASSUME BusInv, TraceInv, Len(events') = Len(events),
         spans' \in Seq(Trace), Len(spans') = Len(events),
         \A f \in 1..Len(events) :
           /\ Traces(events'[f], spans'[f])
           /\ events'[f].parent = events[f].parent
           /\ events'[f].phase # "returned" =>
                /\ events[f].phase # "returned"
                /\ spans'[f].publish = spans[f].publish
           /\ events[f].phase = "handling" =>
                Len(spans'[f].consume) = Len(spans[f].consume)
  PROVE  TraceInv'
<1>1. ASSUME NEW f \in 1..Len(events) PROVE Hangs(f)'
  <2> SUFFICES ASSUME events'[f].parent # 0, events'[f].phase # "returned"
               PROVE  spans'[f].publish.parent[2] =
                        Len(spans'[events'[f].parent].consume)
    BY DEF Hangs
  <2> DEFINE p == events[f].parent
  <2>1. events'[f].parent = p /\ p # 0 /\ events[f].phase # "returned"
    OBVIOUS
  <2>2. p \in 1..Len(events) /\ events[p].phase = "handling"
    <3>1. Nested(f) /\ p \in 0..MaxEvents
      BY EventsSound, EventFields DEF BusInv
    <3> QED BY <2>1, <3>1, EventsSound DEF Nested
  <2>3. spans[f].publish.parent[2] = Len(spans[p].consume)
    BY <2>1, TracesAll DEF Hangs
  <2> QED BY <2>1, <2>2, <2>3
<1> QED BY <1>1 DEF TraceInv

\* One call moves on, and its trace with it.
LEMMA TraceOneMoves ==
  ASSUME BusInv, TraceInv, NEW e \in 1..Len(events), NEW v \in Event,
         NEW t \in Trace,
         events' = [events EXCEPT ![e] = v], spans' = [spans EXCEPT ![e] = t],
         events[e].phase \in {"append", "dispatch", "resumed", "refused"},
         v.parent = events[e].parent, Traces(v, t),
         t.publish = spans[e].publish
  PROVE  TraceInv'
<1>1. /\ Len(events') = Len(events) /\ events'[e] = v
      /\ \A f \in 1..Len(events) : f # e => events'[f] = events[f]
  BY TurnOne
<1>2. /\ spans' \in Seq(Trace) /\ Len(spans') = Len(events) /\ spans'[e] = t
      /\ \A f \in 1..Len(events) : f # e => spans'[f] = spans[f]
  BY TracesAll, ExceptSeq
<1>3. ASSUME NEW f \in 1..Len(events)
      PROVE  /\ Traces(events'[f], spans'[f])
             /\ events'[f].parent = events[f].parent
             /\ events'[f].phase # "returned" =>
                  /\ events[f].phase # "returned"
                  /\ spans'[f].publish = spans[f].publish
             /\ events[f].phase = "handling" =>
                  Len(spans'[f].consume) = Len(spans[f].consume)
  <2>1. CASE f = e
    BY <1>1, <1>2, <2>1
  <2>2. CASE f # e
    BY <1>1, <1>2, <2>2, TracesAll
  <2> QED BY <2>1, <2>2
<1> QED BY <1>1, <1>2, <1>3, TraceMoves

\* Publish returns: its own span ends, that of the handler that called it does not.
LEMMA TraceReturns ==
  ASSUME BusInv, TraceInv, NEW g \in Goroutines, call[g] # 0,
         NEW status, NEW answer, MayEnd(events[call[g]], status, answer),
         Return(g, call[g], status, answer), NEW recorded \in BOOLEAN,
         recorded <=> events[call[g]].phase # "fail" /\ answer = "error",
         ReturnTraced(call[g], recorded)
  PROVE  TraceInv'
<1> DEFINE e == call[g]
           p == events[e].parent
           t == CompletePublish(spans[e], recorded)
<1>1. /\ e \in 1..Len(events) /\ Len(events') = Len(events)
      /\ events'[e] = Ended(events[e], status, answer)
      /\ p # 0 => /\ p \in 1..Len(events) /\ p # e
                  /\ events[p].phase = "handling"
                  /\ events'[p] = Resumed(events[p], answer)
                  /\ Sound(Resumed(events[p], answer))
      /\ \A f \in 1..Len(events) : f # e /\ f # p => events'[f] = events[f]
  <2>1. ReturnsTo(g, status, answer)
    BY ReturnEffect
  <2> QED BY <2>1 DEF ReturnsTo
<1>2. /\ Sound(events[e]) /\ events[e] \in Event /\ spans[e] \in Trace
      /\ Traces(events[e], spans[e])
      /\ answer \in {"ok", "error"} /\ events[e].phase # "handling"
  BY <1>1, EventsSound, TracesAll DEF MayEnd
<1>3. /\ Traces(events'[e], t) /\ t \in Trace /\ t.consume = spans[e].consume
      /\ events'[e].phase = "returned" /\ events'[e].parent = p
  <2>1. /\ Traces(Ended(events[e], status, answer), t) /\ t \in Trace
        /\ t.consume = spans[e].consume
    BY <1>2, TraceEnds
  <2> HIDE DEF t
  <2>2. events'[e].phase = "returned" /\ events'[e].parent = p
    BY <1>1, <1>2 DEF Ended, Event
  <2> QED BY <1>1, <2>1, <2>2
<1>4. ASSUME p # 0
      PROVE  Traces(events'[p], spans[p]) /\ events'[p].parent = events[p].parent
  <2> DEFINE x == events[p]
             w == Resumed(x, answer)
  <2>1. /\ x \in Event /\ Sound(x) /\ spans[p] \in Trace /\ Traces(x, spans[p])
        /\ w \in Event /\ x.phase = "handling" /\ events'[p] = w
    BY <1>1, <1>4, EventsSound, TracesAll DEF Sound
  <2>2. w.phase \in {"resumed", "refused"} /\ Goes(x, w, w.phase, 0)
    BY <2>1, AdvanceGoes DEF Sound, Loop
  <2> HIDE DEF w
  <2>3. Traces(w, spans[p])
    BY <2>1, <2>2, TraceAnswered
  <2> QED BY <2>1, <2>2, <2>3 DEF Goes
<1> HIDE DEF t
<1>5. /\ spans' \in Seq(Trace) /\ Len(spans') = Len(events) /\ spans'[e] = t
      /\ \A f \in 1..Len(events) : f # e => spans'[f] = spans[f]
  <2>1. spans' = [spans EXCEPT ![e] = t]
    BY DEF ReturnTraced, t
  <2> QED BY <1>1, <1>3, <2>1, TracesAll, ExceptSeq
<1>6. ASSUME NEW f \in 1..Len(events)
      PROVE  /\ Traces(events'[f], spans'[f])
             /\ events'[f].parent = events[f].parent
             /\ events'[f].phase # "returned" =>
                  /\ events[f].phase # "returned"
                  /\ spans'[f].publish = spans[f].publish
             /\ events[f].phase = "handling" =>
                  Len(spans'[f].consume) = Len(spans[f].consume)
  <2>1. CASE f = e
    BY <1>2, <1>3, <1>5, <2>1
  <2>2. CASE f # e /\ f = p
    <3>1. p # 0
      BY <2>2, EventsSound
    <3>2. events[p].phase # "returned"
      BY <1>1, <3>1
    <3> QED BY <1>4, <1>5, <2>2, <3>1, <3>2
  <2>3. CASE f # e /\ f # p
    BY <1>1, <1>5, <2>3, TracesAll
  <2> QED BY <2>1, <2>2, <2>3
<1> QED BY <1>1, <1>5, <1>6, TraceMoves

\* A call begins, and its span hangs under the delivery that makes it, if any.
LEMMA TraceAdds ==
  ASSUME BusInv, TraceInv, NEW name \in Names, NEW p \in 0..Len(events),
         p # 0 => /\ events[p].phase = "dispatch"
                  /\ events[p].next <= Len(events[p].handlers),
         events' = Append(IF p = 0 THEN events
                          ELSE [events EXCEPT ![p].phase = "handling"],
                          NewEvent(name, p)),
         NEW k \in Nat, p # 0 => k = Len(spans[p].consume) + 1,
         spans' = StartEventPublish(IF p = 0 THEN spans
                                    ELSE [spans EXCEPT ![p] = StartEventConsume(@)],
                                    <<p, k>>)
  PROVE  TraceInv'
<1> DEFINE n == Len(events) + 1
           x == NewEvent(name, p)
           y == Entered(events[p])
           t == [publish |-> NewSpan(<<p, k>>), consume |-> <<>>]
           u == StartEventConsume(spans[p])
           base == IF p = 0 THEN events ELSE [events EXCEPT ![p] = y]
           under == IF p = 0 THEN spans ELSE [spans EXCEPT ![p] = u]
<1>0. /\ TypeOK /\ Len(events) \in Nat /\ events \in Seq(Event)
      /\ spans \in Seq(Trace) /\ Len(spans) = Len(events) /\ p \in Nat
      /\ Len(events) <= MaxEvents /\ MaxEvents \in Nat
  BY EventsSound, TracesAll, BusAssumption DEF BusInv, TypeOK
<1>1. Traces(x, t) /\ t \in Trace /\ t.publish.parent = <<p, k>>
  BY <1>0, TraceBegins
<1>2. x \in Event /\ x.parent = p
  <2>1. p \in 0..MaxEvents
    BY <1>0
  <2> QED BY <1>0, <2>1, NewEventSound DEF Sound, NewEvent
<1>3. ASSUME p # 0
      PROVE  /\ p \in 1..Len(events) /\ y \in Event /\ y.parent = events[p].parent
             /\ events[p].phase \notin {"handling", "returned"}
             /\ u \in Trace /\ Traces(y, u) /\ u.publish = spans[p].publish
             /\ Len(u.consume) = k
  <2>1. /\ p \in 1..Len(events) /\ Sound(events[p]) /\ events[p] \in Event
        /\ spans[p] \in Trace /\ Traces(events[p], spans[p])
        /\ events[p].phase = "dispatch"
    BY <1>0, <1>3, EventsSound, TracesAll
  <2>2. y \in Event /\ Goes(events[p], y, "handling", 0)
    <3>1. Sound(y)
      BY <1>3, <2>1, AdvanceSound
    <3> QED BY <2>1, <3>1, AdvanceGoes DEF Sound, Loop
  <2>3. /\ Traces(y, u) /\ u \in Trace /\ u.publish = spans[p].publish
        /\ Len(u.consume) = Len(spans[p].consume) + 1
    <3> HIDE DEF y
    <3> QED BY <2>1, <2>2, TraceEnters
  <2>4. y.parent = events[p].parent
    BY <2>2 DEF Goes
  <2> QED BY <1>3, <2>1, <2>2, <2>3, <2>4
<1>4. /\ base \in Seq(Event) /\ Len(base) = Len(events)
      /\ under \in Seq(Trace) /\ Len(under) = Len(events)
      /\ p # 0 => base[p] = y /\ under[p] = u
      /\ \A f \in 1..Len(events) :
           f # p => base[f] = events[f] /\ under[f] = spans[f]
  <2>1. CASE p = 0
    BY <1>0, <2>1
  <2>2. CASE p # 0
    <3> HIDE DEF y, u
    <3>1. base = [events EXCEPT ![p] = y] /\ under = [spans EXCEPT ![p] = u]
      BY <2>2
    <3>2. /\ p \in 1..Len(events) /\ p \in 1..Len(spans)
          /\ y \in Event /\ u \in Trace
      BY <1>0, <1>3, <2>2
    <3> HIDE DEF base, under
    <3>3. /\ base \in Seq(Event) /\ Len(base) = Len(events) /\ base[p] = y
          /\ \A f \in 1..Len(events) : f # p => base[f] = events[f]
      BY <1>0, <3>1, <3>2, ExceptSeq
    <3>4. /\ under \in Seq(Trace) /\ Len(under) = Len(events) /\ under[p] = u
          /\ \A f \in 1..Len(events) : f # p => under[f] = spans[f]
      BY <1>0, <3>1, <3>2, ExceptSeq
    <3> QED BY <3>3, <3>4
  <2> QED BY <2>1, <2>2
<1>5. events' = Append(base, x) /\ spans' = Append(under, t)
  <2>1. base = IF p = 0 THEN events ELSE [events EXCEPT ![p].phase = "handling"]
    BY <1>0, EventsSound DEF Entered
  <2>2. under = IF p = 0 THEN spans
                ELSE [spans EXCEPT ![p] = StartEventConsume(@)]
    OBVIOUS
  <2>3. spans' = Append(under, t)
    BY <2>2 DEF StartEventPublish
  <2> HIDE DEF base, under, x, t
  <2>4. events' = Append(base, x)
    BY <2>1 DEF x
  <2> QED BY <2>3, <2>4
<1> HIDE DEF base, under, x, y, t, u
<1>6. /\ Len(events') = n /\ events'[n] = x
      /\ \A f \in 1..Len(events) : events'[f] = base[f]
  <2> DEFINE s == Append(base, x)
  <2>1. /\ s \in Seq(Event) /\ Len(s) = Len(base) + 1
        /\ s[Len(base) + 1] = x
        /\ \A f \in 1..Len(base) : s[f] = base[f]
    BY <1>1, <1>2, <1>4, AppendFacts
  <2>2. events' = s
    BY <1>5
  <2> HIDE DEF s
  <2> QED BY <1>4, <2>1, <2>2
<1>7. /\ spans' \in Seq(Trace) /\ Len(spans') = n /\ spans'[n] = t
      /\ \A f \in 1..Len(events) : spans'[f] = under[f]
  <2> DEFINE s == Append(under, t)
  <2>1. /\ s \in Seq(Trace) /\ Len(s) = Len(under) + 1
        /\ s[Len(under) + 1] = t
        /\ \A f \in 1..Len(under) : s[f] = under[f]
    BY <1>1, <1>2, <1>4, AppendFacts
  <2>2. spans' = s
    BY <1>5
  <2> HIDE DEF s
  <2> QED BY <1>4, <2>1, <2>2
<1>8. ASSUME NEW f \in 1..n PROVE Traces(events'[f], spans'[f]) /\ Hangs(f)'
  <2>1. CASE f = n
    <3>1. Traces(events'[f], spans'[f])
      BY <1>1, <1>6, <1>7, <2>1
    <3>2. /\ events'[f].parent = p /\ spans'[f].publish.parent[2] = k
          /\ p # 0 => spans'[p] = u /\ Len(u.consume) = k
      <4>1. events'[f] = x /\ spans'[f] = t
        BY <1>6, <1>7, <2>1
      <4>2. p # 0 => spans'[p] = u /\ Len(u.consume) = k
        BY <1>3, <1>4, <1>7
      <4>3. t.publish.parent[2] = k
        <5>1. <<p, k>>[2] = k
          OBVIOUS
        <5> QED BY <1>1, <5>1
      <4> QED BY <1>2, <4>1, <4>2, <4>3
    <3>3. p # 0 => spans'[f].publish.parent[2] = Len(spans'[p].consume)
      BY <3>2
    <3> QED BY <3>1, <3>2, <3>3 DEF Hangs
  <2>2. CASE f # n
    <3>1. f \in 1..Len(events)
      BY <1>0, <2>2
    <3>2. /\ Traces(events'[f], spans'[f])
          /\ events'[f].parent = events[f].parent
          /\ spans'[f].publish = spans[f].publish
          /\ events'[f].phase # "returned" => events[f].phase # "returned"
      <4>1. CASE f = p
        <5>1. p # 0 /\ p \in 1..Len(events)
          BY <1>0, <3>1, <4>1
        <5>2. events'[f] = y /\ spans'[f] = u
          BY <1>4, <1>6, <1>7, <4>1, <5>1
        <5> QED BY <1>3, <4>1, <5>1, <5>2
      <4>2. CASE f # p
        BY <1>4, <1>6, <1>7, <3>1, <4>2, TracesAll
      <4> QED BY <4>1, <4>2
    <3> DEFINE q == events[f].parent
    <3>3. ASSUME q # 0, events'[f].phase # "returned"
          PROVE  spans'[f].publish.parent[2] = Len(spans'[q].consume)
      <4>1. Nested(f) /\ q \in 0..MaxEvents /\ Hangs(f)
        BY <3>1, EventsSound, EventFields, TracesAll DEF BusInv
      <4>2. q \in 1..Len(events) /\ events[q].phase = "handling"
        BY <1>0, <3>1, <3>2, <3>3, <4>1 DEF Nested
      <4>3. q # p
        BY <1>3, <3>3, <4>2
      <4>4. spans'[q] = spans[q]
        BY <1>4, <1>7, <4>2, <4>3
      <4>5. spans[f].publish.parent[2] = Len(spans[q].consume)
        BY <3>2, <3>3, <4>1 DEF Hangs
      <4> QED BY <3>2, <4>4, <4>5
    <3> QED BY <3>2, <3>3 DEF Hangs
  <2> QED BY <2>1, <2>2
<1> QED BY <1>6, <1>7, <1>8 DEF TraceInv

\* A step inside Publish keeps the traces.
LEMMA TracedStepKeeps ==
  ASSUME BusInv, TraceInv, NEW g \in Goroutines, TracedStep(g)
  PROVE  TraceInv'
<1> DEFINE e == call[g]
           x == events[e]
           s == spans[e]
<1>0. /\ e # 0 /\ e \in 1..Len(events) /\ x \in Event /\ Sound(x)
      /\ s \in Trace /\ Traces(x, s) /\ x.next <= Len(x.handlers) + 1
      /\ spans = [spans EXCEPT ![e] = s]
  BY EventsSound, TracesAll DEF TracedStep, Sound, Loop
<1>1. CASE TracedAppend(g, e)
  <2>1. x.phase = "append" /\ AppendRecord(g, e)
    BY <1>1 DEF TracedAppend, AppendRecord
  <2>2. CASE events' = [events EXCEPT ![e].phase = "dispatch",
                                      ![e].status = "pending"]
    <3>1. events' = [events EXCEPT ![e] = Recorded(x)]
      BY <1>0, <2>2, OneCallChanges
    <3>2. Recorded(x) \in Event /\ Goes(x, Recorded(x), "dispatch", 0)
      BY <1>0, <2>1, AdvanceSound, AdvanceGoes DEF Sound
    <3>3. Traces(Recorded(x), s)
      BY <1>0, <2>1, <3>2, TraceStays
    <3>4. events'[e].phase = "dispatch"
      BY <1>0, <3>1, <3>2, TurnOne DEF Goes
    <3>5. spans' = [spans EXCEPT ![e] = s]
      BY <1>0, <1>1, <3>4 DEF TracedAppend
    <3>6. Recorded(x).parent = x.parent
      BY <3>2 DEF Goes
    <3> QED BY <1>0, <2>1, <3>1, <3>2, <3>3, <3>5, <3>6, TraceOneMoves
  <2>3. CASE Return(g, e, "unrecorded", "error")
    <3>1. MayEnd(x, "unrecorded", "error")
      BY <2>1 DEF MayEnd
    <3>2. events'[e].phase = "returned"
      <4>1. ReturnsTo(g, "unrecorded", "error")
        BY <1>0, <2>3, <3>1, ReturnEffect
      <4> QED BY <1>0, <4>1 DEF ReturnsTo, Ended, Event
    <3>3. ReturnTraced(e, TRUE)
      BY <1>1, <3>2 DEF TracedAppend
    <3>4. TRUE <=> x.phase # "fail" /\ "error" = "error"
      BY <2>1
    <3> QED BY <1>0, <2>3, <3>1, <3>3, <3>4, TraceReturns
  <2> QED BY <2>1, <2>2, <2>3 DEF AppendRecord
<1>2. CASE TracedDelivery(e)
  <2> DEFINE err == events'[e].phase = "fail"
             t == CompleteConsume(StartEventConsume(s), err)
  <2>1. x.phase = "dispatch" /\ x.next <= Len(x.handlers)
    BY <1>2 DEF TracedDelivery, InjectConsumerFailure, Handle, HasNext
  <2>2. /\ Delivered(x) \in Event /\ DispatchError(x) \in Event
        /\ Injected(x) \in Event
    BY <1>0, <2>1, AdvanceSound, DeliveredSound DEF Sound
  <2>3. /\ Goes(x, DispatchError(x), "fail", 0) /\ Goes(x, Injected(x), "fail", 0)
        /\ Goes(x, Delivered(x), "dispatch", 1)
    BY <1>0, <2>1, AdvanceGoes
  <2>4. \E v \in {Delivered(x), DispatchError(x), Injected(x)} :
          events' = [events EXCEPT ![e] = v]
    BY <1>0, <1>2, OneCallChanges DEF TracedDelivery, InjectConsumerFailure, Handle
  <2>5. PICK v \in Event :
          /\ events' = [events EXCEPT ![e] = v]
          /\ Goes(x, v, "fail", 0) \/ Goes(x, v, "dispatch", 1)
    BY <2>2, <2>3, <2>4
  <2>6. events'[e] = v
    BY <1>0, <2>5, TurnOne
  <2>7. IF err THEN Goes(x, v, "fail", 0) ELSE Goes(x, v, "dispatch", 1)
    BY <2>5, <2>6 DEF Goes
  <2>8. spans' = [spans EXCEPT ![e] = t] /\ err \in BOOLEAN
    BY <1>2 DEF TracedDelivery
  <2> HIDE DEF err
  <2>9. Traces(v, t) /\ t \in Trace /\ t.publish = s.publish
    BY <1>0, <2>1, <2>7, <2>8, TraceDelivers
  <2>10. v.parent = x.parent
    BY <2>5 DEF Goes
  <2> HIDE DEF t
  <2> QED BY <1>0, <2>1, <2>5, <2>8, <2>9, <2>10, TraceOneMoves
<1>3. CASE TracedHandlePublishes(g, e)
  <2>1. HandlePublishes(g, e) /\ x.phase = "dispatch" /\ x.next <= Len(x.handlers)
    BY <1>3 DEF TracedHandlePublishes, HandlePublishes, HasNext
  <2>2. NextHandler(e) \in Handlers
    BY <1>0, <2>1, EventFields DEF NextHandler
  <2>3. PICK name \in Publishes[NextHandler(e)] :
          events' = Append([events EXCEPT ![e].phase = "handling"],
                           NewEvent(name, e))
    BY <2>1 DEF HandlePublishes
  <2> DEFINE k == Len(spans[e].consume) + 1
  <2>4. name \in Names /\ e \in 0..Len(events) /\ k \in Nat
    BY <1>0, <2>2, BusAssumption, TracesAll, EventsSound
  <2>5. spans' = StartEventPublish([spans EXCEPT ![e] = StartEventConsume(@)],
                                   <<e, k>>)
    BY <1>3 DEF TracedHandlePublishes, ConsumeSpan
  <2>6. /\ events' = Append(IF e = 0 THEN events
                            ELSE [events EXCEPT ![e].phase = "handling"],
                            NewEvent(name, e))
        /\ spans' = StartEventPublish(IF e = 0 THEN spans
                                      ELSE [spans EXCEPT ![e] = StartEventConsume(@)],
                                      <<e, k>>)
    BY <1>0, <2>3, <2>5
  <2>7. k = Len(spans[e].consume) + 1
    OBVIOUS
  <2> HIDE DEF k
  <2> QED BY <2>1, <2>4, <2>6, <2>7, TraceAdds
<1>4. CASE TracedDispatched(e)
  <2>1. /\ x.phase = "dispatch" /\ ~(x.next <= Len(x.handlers))
        /\ spans' = [spans EXCEPT ![e] = s]
    BY <1>0, <1>4 DEF TracedDispatched, Dispatched, HasNext
  <2>2. \E v \in {Again(x), Through(x)} : events' = [events EXCEPT ![e] = v]
    BY <1>0, <1>4, OneCallChanges DEF TracedDispatched, Dispatched
  <2>3. Goes(x, Again(x), "dispatch", 0) /\ Goes(x, Through(x), "mark", 0)
    BY <1>0, <2>1, AdvanceGoes
  <2>4. Again(x) \in Event /\ Through(x) \in Event
    <3>1. Through(x) \in Event
      BY <1>0, <2>1, AdvanceSound DEF Sound
    <3>2. Again(x) \in Event
      <4>1. 1 \in Nat \ {0} /\ TRUE \in BOOLEAN
        OBVIOUS
      <4>2. [x EXCEPT !.duplicated = TRUE] \in Event
        BY <1>0, <4>1 DEF Event
      <4>3. Again(x) = [[x EXCEPT !.duplicated = TRUE] EXCEPT !.next = 1]
        BY <1>0 DEF Again, Event
      <4> QED BY <4>1, <4>2, <4>3 DEF Event
    <3> QED BY <3>1, <3>2
  <2>5. PICK v \in Event :
          /\ events' = [events EXCEPT ![e] = v]
          /\ Goes(x, v, "dispatch", 0) \/ Goes(x, v, "mark", 0)
    BY <2>2, <2>3, <2>4
  <2>6. Traces(v, s) /\ v.parent = x.parent
    <3>1. Traces(v, s)
      BY <1>0, <2>1, <2>5, TraceStays
    <3> QED BY <2>5, <3>1 DEF Goes
  <2> QED BY <1>0, <2>1, <2>5, <2>6, TraceOneMoves
<1>5. CASE TracedMark(g, e)
  <2>1. ASSUME NEW status, NEW answer, MayEnd(x, status, answer),
               Return(g, e, status, answer)
        PROVE  events'[e].answer = answer
    <3>1. ReturnsTo(g, status, answer)
      BY <1>0, <2>1, ReturnEffect
    <3> QED BY <1>0, <3>1 DEF ReturnsTo, Ended, Event
  <2>2. CASE MarkProcessed(g, e) /\ ReturnTraced(e, events'[e].answer = "error")
    <3>1. PICK status, answer : /\ MayEnd(x, status, answer)
                                /\ Return(g, e, status, answer)
      BY <2>2 DEF MarkProcessed, MayEnd
    <3> DEFINE recorded == events'[e].answer = "error"
    <3>2. recorded \in BOOLEAN /\ (recorded <=> x.phase # "fail" /\ answer = "error")
      BY <2>1, <2>2, <3>1 DEF MarkProcessed
    <3>3. ReturnTraced(e, recorded)
      BY <2>2
    <3> HIDE DEF recorded
    <3> QED BY <1>0, <3>1, <3>2, <3>3, TraceReturns
  <2>3. CASE HandleDispatchFailure(g, e) /\ ReturnTraced(e, FALSE)
    <3>1. PICK status, answer : /\ MayEnd(x, status, answer)
                                /\ Return(g, e, status, answer)
      BY <2>3 DEF HandleDispatchFailure, MayEnd
    <3>2. FALSE \in BOOLEAN /\ (FALSE <=> x.phase # "fail" /\ answer = "error")
      BY <2>3 DEF HandleDispatchFailure
    <3> QED BY <1>0, <2>3, <3>1, <3>2, TraceReturns
  <2> QED BY <1>5, <2>2, <2>3 DEF TracedMark
<1>6. CASE TracedHandlerReturns(e)
  <2> DEFINE err == events'[e].phase = "fail"
             t == CompleteConsume(s, err)
  <2>1. HandlerReturns(e) /\ x.phase \in {"resumed", "refused"}
    BY <1>6 DEF TracedHandlerReturns, HandlerReturns
  <2>2. x.answer = "none" /\ x.next <= Len(x.handlers) /\ x.phase \in InHandler
    BY <1>0, <2>1 DEF Sound, Standing, InHandler
  <2>3. PICK v \in Event :
          /\ events' = [events EXCEPT ![e] = v]
          /\ Goes(x, v, "fail", 0) \/ Goes(x, v, "dispatch", 1)
    <3>1. \/ x.phase = "resumed" /\ events' = [events EXCEPT ![e] = Delivered(x)]
          \/ events' = [events EXCEPT ![e] = DispatchError(x)]
      BY <2>1 DEF HandlerReturns
    <3>2. /\ x.phase = "resumed" => Delivered(x) \in Event
          /\ DispatchError(x) \in Event
      BY <1>0, <2>1, <2>2, AdvanceSound, DeliveredSound DEF Sound
    <3>3. /\ Goes(x, DispatchError(x), "fail", 0)
          /\ Goes(x, Delivered(x), "dispatch", 1)
      BY <1>0, <2>2, AdvanceGoes
    <3> QED BY <3>1, <3>2, <3>3
  <2>4. events'[e] = v
    BY <1>0, <2>3, TurnOne
  <2>5. IF err THEN Goes(x, v, "fail", 0) ELSE Goes(x, v, "dispatch", 1)
    BY <2>3, <2>4 DEF Goes
  <2>6. spans' = [spans EXCEPT ![e] = t] /\ err \in BOOLEAN
    BY <1>6 DEF TracedHandlerReturns
  <2> HIDE DEF err
  <2>7. Traces(v, t) /\ t \in Trace /\ t.publish = s.publish
    BY <1>0, <2>2, <2>5, <2>6, TraceResumes
  <2>8. v.parent = x.parent
    BY <2>3 DEF Goes
  <2> HIDE DEF t
  <2> QED BY <1>0, <2>1, <2>3, <2>6, <2>7, <2>8, TraceOneMoves
<1> QED BY <1>1, <1>2, <1>3, <1>4, <1>5, <1>6 DEF TracedStep

\* So does every other step.
LEMMA TracedNextKeeps == BusInv /\ TraceInv /\ [TracedNext]_tracedVars => TraceInv'
<1> SUFFICES ASSUME BusInv, TraceInv, [TracedNext]_tracedVars PROVE TraceInv'
  OBVIOUS
<1>1. ASSUME NEW g \in Goroutines, TracedStep(g) PROVE TraceInv'
  BY <1>1, TracedStepKeeps
<1>2. ASSUME NEW g \in Goroutines, NEW name \in TopNames, TracedPublish(g, name)
      PROVE  TraceInv'
  <2>1. /\ events' = Append(IF 0 = 0 THEN events
                            ELSE [events EXCEPT ![0].phase = "handling"],
                            NewEvent(name, 0))
        /\ spans' = StartEventPublish(IF 0 = 0 THEN spans
                                      ELSE [spans EXCEPT ![0] = StartEventConsume(@)],
                                      <<0, 0>>)
    BY <1>2 DEF TracedPublish, Publish, NoSpan
  <2>2. name \in Names /\ 0 \in 0..Len(events) /\ 0 \in Nat
    BY BusAssumption, EventsSound
  <2> QED BY <2>1, <2>2, TraceAdds
<1>3. CASE \/ \E h \in Handlers : TracedSubscribe(h)
           \/ Quiescent /\ UNCHANGED <<spans, counters>>
           \/ UNCHANGED tracedVars
  <2>1. events' = events /\ spans' = spans
    BY <1>3 DEF TracedSubscribe, Subscribe, Quiescent, vars, tracedVars
  <2> QED BY <2>1 DEF TraceInv, Hangs
<1> QED BY <1>1, <1>2, <1>3 DEF TracedNext

-----------------------------------------------------------------------------
(* The theorems about the spans                                             *)

\* Every call of Publish has its trace, which shows where the call stands, and
\* the span of a running one hangs under the delivery that waits for it.
THEOREM TraceInvariant == TracedSpec => [](BusInv /\ TraceInv)
<1>1. TracedInit => BusInv /\ TraceInv
  <2>1. TracedInit => BusInv
    BY InitBus DEF TracedInit
  <2>2. TracedInit => TraceInv
    BY DEF TracedInit, Init, TraceInv
  <2> QED BY <2>1, <2>2
<1>2. BusInv /\ TraceInv /\ [TracedNext]_tracedVars => (BusInv /\ TraceInv)'
  <2>1. BusInv /\ [TracedNext]_tracedVars => BusInv'
    BY TracedStepIsStep, NextKeeps
  <2> QED BY <2>1, TracedNextKeeps
<1> QED BY <1>1, <1>2, PTL DEF TracedSpec

\* The spans of a call by position: those of its deliveries have ended well, and
\* one more is there for a handler that is running or has failed.
LEMMA SpansByPosition ==
  ASSUME BusInv, TraceInv, NEW e \in DOMAIN events
  PROVE  LET x == events[e]
             s == spans[e]
             n == Len(s.consume)
             d == Len(x.deliveries)
         IN /\ d \in Nat /\ DOMAIN s.consume = 1..n
            /\ \A k \in 1..d : EndedWith(s.consume[k], "ok")
            /\ \/ n = d
               \/ /\ n = d + 1
                  /\ IF x.phase \in InHandler THEN Opened(s.consume[n])
                                              ELSE EndedWith(s.consume[n], "error")
            /\ x.phase \in InHandler => n = d + 1
            /\ x.answer = "ok" => n = d /\ s.publish.errors = 0
            /\ x.answer = "error" =>
                 \/ n = d /\ s.publish.errors = 1
                 \/ /\ n = d + 1 /\ s.publish.errors = 0
                    /\ EndedWith(s.consume[n], "error")
            /\ s.publish.ends = IF x.phase = "returned" THEN 1 ELSE 0
            /\ s.publish.parent[1] = x.parent
<1> DEFINE x == events[e]
           s == spans[e]
<1>1. /\ x \in Event /\ Standing(x) /\ s \in Trace /\ Traces(x, s)
  BY EventsSound, TracesAll DEF Sound
<1>2. /\ Len(x.deliveries) \in Nat /\ DOMAIN s.consume = 1..Len(s.consume)
      /\ x.phase \in InHandler \cup {"append", "dispatch", "mark", "fail", "returned"}
      /\ x.answer \in {"none", "ok", "error"}
  BY <1>1, TraceLengths, EventFields DEF Phases, InHandler
<1> HIDE DEF x, s
<1>3. x.phase = "returned" <=> x.answer # "none"
  BY <1>1 DEF Standing
<1> QED BY <1>1, <1>2, <1>3 DEF Traces, Opened, InHandler, x, s

\* For every wiring and depth of nesting: a span is open exactly while the call
\* it stands for runs, is ended once, and hangs under the open span of the
\* delivery that published.
THEOREM SpansNestedHolds == TracedSpec => []SpansNested
<1>1. BusInv /\ TraceInv => SpansNested
  <2> SUFFICES ASSUME BusInv, TraceInv, NEW e \in DOMAIN events
               PROVE  LET s == spans[e]
                          p == events[e].parent
                      IN /\ s.publish.ends = IF events[e].phase = "returned" THEN 1 ELSE 0
                         /\ \A k \in DOMAIN s.consume :
                              s.consume[k].ends =
                                IF events[e].phase \in InHandler /\ k = Len(s.consume)
                                  THEN 0 ELSE 1
                         /\ s.publish.parent[1] = p
                         /\ p # 0 =>
                              LET above == spans[p].consume[s.publish.parent[2]]
                              IN s.publish.ends = 0 => above.ends = 0
    BY DEF SpansNested, HandlerRuns, InHandler
  <2> DEFINE x == events[e]
             s == spans[e]
             n == Len(s.consume)
             d == Len(x.deliveries)
  <2>1. /\ d \in Nat /\ DOMAIN s.consume = 1..n
        /\ \A k \in 1..d : EndedWith(s.consume[k], "ok")
        /\ \/ n = d
           \/ /\ n = d + 1
              /\ IF x.phase \in InHandler THEN Opened(s.consume[n])
                                          ELSE EndedWith(s.consume[n], "error")
        /\ x.phase \in InHandler => n = d + 1
        /\ s.publish.ends = IF x.phase = "returned" THEN 1 ELSE 0
        /\ s.publish.parent[1] = x.parent
    BY SpansByPosition
  <2>2. ASSUME NEW k \in DOMAIN s.consume
        PROVE  s.consume[k].ends = IF x.phase \in InHandler /\ k = n THEN 0 ELSE 1
    <3>1. k \in 1..d \/ (k = n /\ n = d + 1)
      BY <2>1
    <3>2. k \in 1..d => ~(x.phase \in InHandler /\ k = n)
      BY <2>1
    <3> HIDE DEF x, s, n, d
    <3> QED BY <2>1, <3>1, <3>2 DEF EndedWith, Opened
  <2>3. ASSUME x.parent # 0, s.publish.ends = 0
        PROVE  spans[x.parent].consume[s.publish.parent[2]].ends = 0
    <3> DEFINE p == x.parent
    <3>1. x.phase # "returned"
      BY <2>1, <2>3
    <3>2. p \in DOMAIN events /\ events[p].phase = "handling"
      <4>1. Nested(e) /\ p \in 0..MaxEvents
        BY EventsSound, EventFields DEF BusInv
      <4> QED BY <2>3, <3>1, <4>1, EventsSound DEF Nested
    <3>3. s.publish.parent[2] = Len(spans[p].consume)
      BY <2>3, <3>1, EventsSound, TracesAll DEF Hangs
    <3>4. Opened(spans[p].consume[Len(spans[p].consume)])
      BY <3>2, SpansByPosition DEF InHandler
    <3> QED BY <3>3, <3>4 DEF Opened
  <2> QED BY <2>1, <2>2, <2>3
<1> QED BY <1>1, TraceInvariant, PTL

\* For every wiring: the error a publication answers is recorded once, on its own
\* span or on that of the delivery that failed, and on no other.
THEOREM FailuresTracedHolds == TracedSpec => []FailuresTraced
<1>1. BusInv /\ TraceInv => FailuresTraced
  <2> SUFFICES ASSUME BusInv, TraceInv, NEW e \in DOMAIN events
               PROVE  LET s == spans[e]
                          failed == {k \in DOMAIN s.consume :
                                       s.consume[k].status = "error"}
                      IN /\ events[e].answer = "error" =>
                              (s.publish.errors = 1) # (failed = {Len(s.consume)})
                         /\ events[e].answer = "ok" =>
                              s.publish.errors = 0 /\ failed = {}
                         /\ \A k \in DOMAIN s.consume :
                              s.consume[k].status = "ok"
                                <=> k <= Len(events[e].deliveries)
    BY DEF FailuresTraced
  <2> DEFINE x == events[e]
             s == spans[e]
             n == Len(s.consume)
             d == Len(x.deliveries)
             failed == {k \in DOMAIN s.consume : s.consume[k].status = "error"}
  <2>1. /\ d \in Nat /\ DOMAIN s.consume = 1..n
        /\ \A k \in 1..d : EndedWith(s.consume[k], "ok")
        /\ \/ n = d
           \/ /\ n = d + 1
              /\ IF x.phase \in InHandler THEN Opened(s.consume[n])
                                          ELSE EndedWith(s.consume[n], "error")
        /\ x.answer = "ok" => n = d /\ s.publish.errors = 0
        /\ x.answer = "error" =>
             \/ n = d /\ s.publish.errors = 1
             \/ /\ n = d + 1 /\ s.publish.errors = 0
                /\ EndedWith(s.consume[n], "error")
    BY SpansByPosition
  <2> HIDE DEF x, s, n, d
  <2>2. \A k \in 1..d : s.consume[k].status = "ok"
    BY <2>1 DEF EndedWith
  <2>3. n = d => failed = {}
    BY <2>1, <2>2
  <2>4. n = d + 1 /\ EndedWith(s.consume[n], "error") => failed = {n}
    <3> SUFFICES ASSUME n = d + 1, EndedWith(s.consume[n], "error")
                 PROVE  failed = {n}
      OBVIOUS
    <3>1. n \in 1..n /\ s.consume[n].status = "error"
      BY <2>1 DEF EndedWith
    <3>2. \A k \in 1..n : k # n => k \in 1..d
      BY <2>1
    <3> QED BY <2>1, <2>2, <3>1, <3>2
  <2>5. ASSUME NEW k \in DOMAIN s.consume
        PROVE  s.consume[k].status = "ok" <=> k <= d
    <3>1. CASE k <= d
      BY <2>1, <2>2, <3>1
    <3>2. CASE ~(k <= d)
      <4>1. k = n /\ n = d + 1
        BY <2>1, <3>2
      <4>2. s.consume[n].status # "ok"
        BY <2>1, <4>1 DEF EndedWith, Opened
      <4> QED BY <3>2, <4>1, <4>2
    <3> QED BY <3>1, <3>2
  <2>6. x.answer = "error" => (s.publish.errors = 1) # (failed = {n})
    <3>1. CASE n = d /\ s.publish.errors = 1
      BY <2>3, <3>1
    <3>2. CASE n = d + 1 /\ s.publish.errors = 0 /\ EndedWith(s.consume[n], "error")
      BY <2>4, <3>2
    <3> QED BY <2>1, <3>1, <3>2
  <2>7. x.answer = "ok" => s.publish.errors = 0 /\ failed = {}
    BY <2>1, <2>3
  <2> HIDE DEF failed
  <2> QED BY <2>5, <2>6, <2>7 DEF x, s, n, d, failed
<1> QED BY <1>1, TraceInvariant, PTL

-----------------------------------------------------------------------------
(* The counters: what each call contributes to them                         *)

OnRecord(x, name) == x.name = name /\ x.status # "unrecorded"
StoppedAt(x, label) ==
  /\ \/ x.phase = "fail"
     \/ x.phase = "returned" /\ x.status # "unrecorded"
        /\ Len(x.deliveries) < Len(Due(x))
  /\ Label(Due(x)[Len(x.deliveries) + 1]) = label
WaitsFor(x, label) == x.phase \in InHandler /\ Label(x.handlers[x.next]) = label

RecordSet(es, name) == {e \in DOMAIN es : OnRecord(es[e], name)}
StopSet(es, label) == {e \in DOMAIN es : StoppedAt(es[e], label)}
WaitSet(es, label) == {e \in DOMAIN es : WaitsFor(es[e], label)}
DeliverySet(es, label) ==
  UNION {{<<e, k>> : k \in {k \in DOMAIN es[e].deliveries :
                            Label(es[e].deliveries[k]) = label}} :
         e \in DOMAIN es}

\* The counters agree with a sequence of events.
Agree(es, pub, con, fai) ==
  /\ \A name \in Names : pub[name] = Cardinality(RecordSet(es, name))
  /\ \A label \in Labels :
       /\ fai[label] = Cardinality(StopSet(es, label))
       /\ IsFiniteSet(DeliverySet(es, label))
       /\ con[label] = Cardinality(DeliverySet(es, label))
            + Cardinality(StopSet(es, label)) + Cardinality(WaitSet(es, label))

\* An event is on record from its append on, unless that failed.
Settled(x) ==
  /\ x.phase = "append" => x.status = "unrecorded"
  /\ x.phase \in InHandler \cup {"dispatch", "mark", "fail"} =>
       x.status # "unrecorded"

CountInv ==
  /\ published \in [Names -> Nat]
  /\ consumed \in [Labels -> Nat]
  /\ failures \in [Labels -> Nat]
  /\ \A e \in DOMAIN events : Settled(events[e])
  /\ Agree(events, published, consumed, failures)

Bit(b) == IF b THEN 1 ELSE 0

OnlyChanges(es, fs, e, v) ==
  /\ DOMAIN fs = DOMAIN es /\ fs[e] = v
  /\ \A f \in DOMAIN es : f # e => fs[f] = es[f]

SameBut(e, n, S, T) == \A f \in 1..n : f # e => (f \in S <=> f \in T)

\* A set of positions of which one may come or go.
LEMMA OneMember ==
  ASSUME NEW n \in Nat, NEW S \in SUBSET (1..n), NEW T \in SUBSET (1..n),
         NEW e \in 1..n, SameBut(e, n, S, T)
  PROVE  /\ Cardinality(S) \in Nat /\ Cardinality(T) \in Nat
         /\ Cardinality(T) = Cardinality(S) - Bit(e \in S) + Bit(e \in T)
<1> DEFINE U == S \ {e}
<1>1. IsFiniteSet(1..n) /\ IsFiniteSet(S) /\ IsFiniteSet(T)
  <2>1. n \in Int /\ 1 \in Int
    OBVIOUS
  <2>2. IsFiniteSet(1..n)
    BY <2>1, FS_Interval, Zenon
  <2> QED BY <2>2, FS_Subset
<1>2. IsFiniteSet(U) /\ e \notin U
  BY <1>1, FS_RemoveElement
<1>3. Cardinality(U) \in Nat
  BY <1>2, FS_CardinalityType
<1>4. Cardinality(U \cup {e}) = Cardinality(U) + 1
  BY <1>2, FS_AddElement
<1>5. S = IF e \in S THEN U \cup {e} ELSE U
  OBVIOUS
<1>6. T = IF e \in T THEN U \cup {e} ELSE U
  BY DEF SameBut
<1> HIDE DEF U
<1>7. Cardinality(S) = Cardinality(U) + Bit(e \in S)
  <2>1. CASE e \in S
    BY <1>3, <1>4, <1>5, <2>1 DEF Bit
  <2>2. CASE e \notin S
    BY <1>3, <1>5, <2>2 DEF Bit
  <2> QED BY <2>1, <2>2
<1>8. Cardinality(T) = Cardinality(U) + Bit(e \in T)
  <2>1. CASE e \in T
    BY <1>3, <1>4, <1>6, <2>1 DEF Bit
  <2>2. CASE e \notin T
    BY <1>3, <1>6, <2>2 DEF Bit
  <2> QED BY <2>1, <2>2
<1>9. Bit(e \in S) \in {0, 1} /\ Bit(e \in T) \in {0, 1}
  BY DEF Bit
<1> QED BY <1>3, <1>7, <1>8, <1>9

\* The pairs a set of deliveries consists of.
LEMMA DeliveryPairs ==
  ASSUME NEW es, NEW label, NEW q
  PROVE  q \in DeliverySet(es, label) <=>
           \E e \in DOMAIN es : \E k \in DOMAIN es[e].deliveries :
             q = <<e, k>> /\ Label(es[e].deliveries[k]) = label
BY DEF DeliverySet

\* What a call that got a delivery more adds to the deliveries of a label.
Adds(x, v, label) ==
  IF v.deliveries = x.deliveries THEN 0
  ELSE Bit(Label(v.deliveries[Len(v.deliveries)]) = label)
MayAdd(x, v) ==
  v.deliveries = x.deliveries \/ \E h \in Handlers : v.deliveries = Append(x.deliveries, h)

\* One call changes: what becomes of the sets that are counted.
LEMMA TallyMoves ==
  ASSUME NEW es \in Seq(Event), NEW e \in 1..Len(es), NEW v \in Event,
         NEW fs, OnlyChanges(es, fs, e, v)
  PROVE  /\ \A name :
              /\ Cardinality(RecordSet(es, name)) \in Nat
              /\ Cardinality(RecordSet(fs, name)) =
                   Cardinality(RecordSet(es, name))
                     - Bit(OnRecord(es[e], name)) + Bit(OnRecord(v, name))
         /\ \A label :
              /\ Cardinality(StopSet(es, label)) \in Nat
              /\ Cardinality(StopSet(fs, label)) =
                   Cardinality(StopSet(es, label))
                     - Bit(StoppedAt(es[e], label)) + Bit(StoppedAt(v, label))
              /\ Cardinality(WaitSet(es, label)) \in Nat
              /\ Cardinality(WaitSet(fs, label)) =
                   Cardinality(WaitSet(es, label))
                     - Bit(WaitsFor(es[e], label)) + Bit(WaitsFor(v, label))
<1> DEFINE n == Len(es)
<1>1. /\ n \in Nat /\ DOMAIN es = 1..n /\ DOMAIN fs = 1..n /\ fs[e] = v
      /\ \A f \in 1..n : f # e => fs[f] = es[f]
  BY DEF OnlyChanges
<1> HIDE DEF n
<1>2. ASSUME NEW name
      PROVE  /\ Cardinality(RecordSet(es, name)) \in Nat
             /\ Cardinality(RecordSet(fs, name)) =
                  Cardinality(RecordSet(es, name))
                    - Bit(OnRecord(es[e], name)) + Bit(OnRecord(v, name))
  <2> DEFINE S == RecordSet(es, name)
             T == RecordSet(fs, name)
  <2>1. /\ n \in Nat /\ S \in SUBSET (1..n) /\ T \in SUBSET (1..n) /\ e \in 1..n
        /\ SameBut(e, n, S, T)
    BY <1>1 DEF RecordSet, SameBut, n
  <2>2. /\ e \in S <=> OnRecord(es[e], name)
        /\ e \in T <=> OnRecord(v, name)
    BY <1>1 DEF RecordSet, n
  <2> HIDE DEF S, T
  <2>3. /\ Cardinality(S) \in Nat
        /\ Cardinality(T) = Cardinality(S) - Bit(e \in S) + Bit(e \in T)
    BY <2>1, OneMember, Zenon
  <2>4. Bit(e \in S) = Bit(OnRecord(es[e], name)) /\ Bit(e \in T) = Bit(OnRecord(v, name))
    BY <2>2 DEF Bit
  <2> QED BY <2>3, <2>4 DEF S, T
<1>3. ASSUME NEW label
      PROVE  /\ Cardinality(StopSet(es, label)) \in Nat
             /\ Cardinality(StopSet(fs, label)) =
                  Cardinality(StopSet(es, label))
                    - Bit(StoppedAt(es[e], label)) + Bit(StoppedAt(v, label))
  <2> DEFINE S == StopSet(es, label)
             T == StopSet(fs, label)
  <2>1. /\ n \in Nat /\ S \in SUBSET (1..n) /\ T \in SUBSET (1..n) /\ e \in 1..n
        /\ SameBut(e, n, S, T)
    BY <1>1 DEF StopSet, SameBut, n
  <2>2. /\ e \in S <=> StoppedAt(es[e], label)
        /\ e \in T <=> StoppedAt(v, label)
    BY <1>1 DEF StopSet, n
  <2> HIDE DEF S, T
  <2>3. /\ Cardinality(S) \in Nat
        /\ Cardinality(T) = Cardinality(S) - Bit(e \in S) + Bit(e \in T)
    BY <2>1, OneMember, Zenon
  <2>4. /\ Bit(e \in S) = Bit(StoppedAt(es[e], label))
        /\ Bit(e \in T) = Bit(StoppedAt(v, label))
    BY <2>2 DEF Bit
  <2> QED BY <2>3, <2>4 DEF S, T
<1>4. ASSUME NEW label
      PROVE  /\ Cardinality(WaitSet(es, label)) \in Nat
             /\ Cardinality(WaitSet(fs, label)) =
                  Cardinality(WaitSet(es, label))
                    - Bit(WaitsFor(es[e], label)) + Bit(WaitsFor(v, label))
  <2> DEFINE S == WaitSet(es, label)
             T == WaitSet(fs, label)
  <2>1. /\ n \in Nat /\ S \in SUBSET (1..n) /\ T \in SUBSET (1..n) /\ e \in 1..n
        /\ SameBut(e, n, S, T)
    BY <1>1 DEF WaitSet, SameBut, n
  <2>2. /\ e \in S <=> WaitsFor(es[e], label)
        /\ e \in T <=> WaitsFor(v, label)
    BY <1>1 DEF WaitSet, n
  <2> HIDE DEF S, T
  <2>3. /\ Cardinality(S) \in Nat
        /\ Cardinality(T) = Cardinality(S) - Bit(e \in S) + Bit(e \in T)
    BY <2>1, OneMember, Zenon
  <2>4. /\ Bit(e \in S) = Bit(WaitsFor(es[e], label))
        /\ Bit(e \in T) = Bit(WaitsFor(v, label))
    BY <2>2 DEF Bit
  <2> QED BY <2>3, <2>4 DEF S, T
<1> QED BY <1>2, <1>3, <1>4

\* One call changes: what becomes of the deliveries that are counted.
LEMMA DeliveriesMove ==
  ASSUME NEW es \in Seq(Event), NEW e \in 1..Len(es), NEW v \in Event,
         NEW fs, OnlyChanges(es, fs, e, v), MayAdd(es[e], v),
         NEW label, IsFiniteSet(DeliverySet(es, label))
  PROVE  /\ IsFiniteSet(DeliverySet(fs, label))
         /\ Cardinality(DeliverySet(es, label)) \in Nat
         /\ Cardinality(DeliverySet(fs, label)) =
              Cardinality(DeliverySet(es, label)) + Adds(es[e], v, label)
<1> DEFINE n == Len(es)
           S == DeliverySet(es, label)
           T == DeliverySet(fs, label)
<1>1. /\ n \in Nat /\ DOMAIN es = 1..n /\ DOMAIN fs = 1..n /\ fs[e] = v
      /\ \A f \in 1..n : f # e => fs[f] = es[f]
      /\ es[e] \in Event
  BY DEF OnlyChanges
<1> HIDE DEF n
<1>2. Cardinality(S) \in Nat
  BY FS_CardinalityType
<1>3. \A q : q \in S <=> \E f \in 1..n : \E k \in DOMAIN es[f].deliveries :
                q = <<f, k>> /\ Label(es[f].deliveries[k]) = label
  <2>1. \A q : q \in S <=> \E f \in DOMAIN es : \E k \in DOMAIN es[f].deliveries :
                q = <<f, k>> /\ Label(es[f].deliveries[k]) = label
    BY DeliveryPairs
  <2> HIDE DEF S
  <2> QED BY <1>1, <2>1
<1>4. \A q : q \in T <=> \E f \in 1..n : \E k \in DOMAIN fs[f].deliveries :
                q = <<f, k>> /\ Label(fs[f].deliveries[k]) = label
  <2>1. \A q : q \in T <=> \E f \in DOMAIN fs : \E k \in DOMAIN fs[f].deliveries :
                q = <<f, k>> /\ Label(fs[f].deliveries[k]) = label
    BY DeliveryPairs
  <2> HIDE DEF T
  <2> QED BY <1>1, <2>1
<1> HIDE DEF S, T
<1>5. CASE v.deliveries = es[e].deliveries
  <2>1. \A f \in 1..n : fs[f].deliveries = es[f].deliveries
    BY <1>1, <1>5
  <2>2. \A q : q \in S <=> q \in T
    BY <1>3, <1>4, <2>1
  <2>3. S = T
    BY <2>2
  <2>4. Adds(es[e], v, label) = 0
    BY <1>5 DEF Adds
  <2>5. Cardinality(T) = Cardinality(S) + 0
    BY <1>2, <2>3
  <2> QED BY <1>2, <2>3, <2>4, <2>5 DEF S, T
<1>6. CASE v.deliveries # es[e].deliveries
  <2>1. PICK h \in Handlers : v.deliveries = Append(es[e].deliveries, h)
    BY <1>6 DEF MayAdd
  <2> DEFINE d == es[e].deliveries
             m == Len(d) + 1
  <2>2. d \in Seq(Handlers) /\ Len(d) \in Nat /\ DOMAIN d = 1..Len(d)
    BY <1>1, EventFields
  <2>3. /\ DOMAIN v.deliveries = DOMAIN d \cup {m} /\ m \notin DOMAIN d
        /\ Len(v.deliveries) = m
        /\ v.deliveries[m] = h
        /\ \A k \in DOMAIN d : v.deliveries[k] = d[k]
    <3>1. /\ DOMAIN v.deliveries = 1..m /\ Len(v.deliveries) = m
          /\ v.deliveries[m] = h
          /\ \A k \in 1..Len(d) : v.deliveries[k] = d[k]
      BY <2>1, <2>2, AppendFacts
    <3>2. 1..m = 1..Len(d) \cup {m} /\ m \notin 1..Len(d)
      BY <2>2
    <3> QED BY <2>2, <3>1, <3>2
  <2> HIDE DEF d, m
  <2>4. \A q : q \in T <=> q \in S \/ (q = <<e, m>> /\ Label(h) = label)
    <3> SUFFICES ASSUME NEW q
                 PROVE  q \in T <=> q \in S \/ (q = <<e, m>> /\ Label(h) = label)
      OBVIOUS
    <3>1. q \in T <=> \E f \in 1..n : \E k \in DOMAIN fs[f].deliveries :
                        q = <<f, k>> /\ Label(fs[f].deliveries[k]) = label
      BY <1>4
    <3>2. q \in S <=> \E f \in 1..n : \E k \in DOMAIN es[f].deliveries :
                        q = <<f, k>> /\ Label(es[f].deliveries[k]) = label
      BY <1>3
    <3>3. e \in 1..n /\ es[e].deliveries = d /\ fs[e].deliveries = v.deliveries
      BY <1>1 DEF d, n
    <3>4. ASSUME q \in T PROVE q \in S \/ (q = <<e, m>> /\ Label(h) = label)
      <4>1. PICK f \in 1..n : \E k \in DOMAIN fs[f].deliveries :
                   q = <<f, k>> /\ Label(fs[f].deliveries[k]) = label
        BY <3>1, <3>4
      <4>2. CASE f # e
        BY <1>1, <3>2, <4>1, <4>2
      <4>3. CASE f = e
        BY <2>3, <3>2, <3>3, <4>1, <4>3
      <4> QED BY <4>2, <4>3
    <3>5. ASSUME q \in S PROVE q \in T
      <4>1. PICK f \in 1..n : \E k \in DOMAIN es[f].deliveries :
                   q = <<f, k>> /\ Label(es[f].deliveries[k]) = label
        BY <3>2, <3>5
      <4>2. CASE f # e
        BY <1>1, <3>1, <4>1, <4>2
      <4>3. CASE f = e
        BY <2>3, <3>1, <3>3, <4>1, <4>3
      <4> QED BY <4>2, <4>3
    <3>6. ASSUME q = <<e, m>>, Label(h) = label PROVE q \in T
      BY <2>3, <3>1, <3>3, <3>6
    <3> QED BY <3>4, <3>5, <3>6
  <2>5. <<e, m>> \notin S
    <3>1. SUFFICES ASSUME <<e, m>> \in S PROVE FALSE
      OBVIOUS
    <3>2. \E f \in 1..n : \E k \in DOMAIN es[f].deliveries :
             <<e, m>> = <<f, k>> /\ Label(es[f].deliveries[k]) = label
      BY <1>3, <3>1
    <3> QED BY <2>3, <3>2 DEF d
  <2>6. Adds(es[e], v, label) = Bit(Label(h) = label)
    BY <1>6, <2>3 DEF Adds
  <2>7. CASE Label(h) = label
    <3>1. T = S \cup {<<e, m>>}
      BY <2>4, <2>7
    <3>2. IsFiniteSet(S)
      BY DEF S
    <3>3. IsFiniteSet(T) /\ Cardinality(T) = Cardinality(S) + 1
      BY <2>5, <3>1, <3>2, FS_AddElement
    <3>4. Adds(es[e], v, label) = 1
      BY <2>6, <2>7 DEF Bit
    <3> QED BY <1>2, <3>3, <3>4 DEF S, T
  <2>8. CASE Label(h) # label
    <3>1. T = S
      BY <2>4, <2>8
    <3>2. Adds(es[e], v, label) = 0
      BY <2>6, <2>8 DEF Bit
    <3>3. Cardinality(S) = Cardinality(S) + 0
      BY <1>2
    <3> QED BY <1>2, <3>1, <3>2, <3>3 DEF S, T
  <2> QED BY <2>7, <2>8
<1> QED BY <1>5, <1>6

\* The counters change by what a call contributes more or less.
PublishedMoves(x, v, pub, pub2) ==
  \A name \in Names :
    pub2[name] = pub[name] - Bit(OnRecord(x, name)) + Bit(OnRecord(v, name))
FailuresMove(x, v, fai, fai2) ==
  \A label \in Labels :
    fai2[label] = fai[label] - Bit(StoppedAt(x, label)) + Bit(StoppedAt(v, label))
ConsumedMoves(x, v, con, con2) ==
  \A label \in Labels :
    con2[label] = con[label] + Adds(x, v, label)
      - Bit(StoppedAt(x, label)) + Bit(StoppedAt(v, label))
      - Bit(WaitsFor(x, label)) + Bit(WaitsFor(v, label))

\* One call changes, and the counters by what it contributes more or less.
LEMMA AgreeMoves ==
  ASSUME NEW es \in Seq(Event), NEW e \in 1..Len(es), NEW v \in Event,
         NEW fs, OnlyChanges(es, fs, e, v), MayAdd(es[e], v),
         NEW pub, NEW con, NEW fai, NEW pub2, NEW con2, NEW fai2,
         Agree(es, pub, con, fai),
         PublishedMoves(es[e], v, pub, pub2),
         FailuresMove(es[e], v, fai, fai2), ConsumedMoves(es[e], v, con, con2)
  PROVE  Agree(fs, pub2, con2, fai2)
<1>1. ASSUME NEW name \in Names
      PROVE  pub2[name] = Cardinality(RecordSet(fs, name))
  <2>1. /\ pub[name] = Cardinality(RecordSet(es, name))
        /\ pub2[name] = pub[name] - Bit(OnRecord(es[e], name))
                                  + Bit(OnRecord(v, name))
    BY DEF Agree, PublishedMoves
  <2>2. Cardinality(RecordSet(fs, name)) =
          Cardinality(RecordSet(es, name))
            - Bit(OnRecord(es[e], name)) + Bit(OnRecord(v, name))
    BY TallyMoves
  <2> QED BY <2>1, <2>2
<1>2. ASSUME NEW label \in Labels
      PROVE  /\ fai2[label] = Cardinality(StopSet(fs, label))
             /\ IsFiniteSet(DeliverySet(fs, label))
             /\ con2[label] = Cardinality(DeliverySet(fs, label))
                  + Cardinality(StopSet(fs, label)) + Cardinality(WaitSet(fs, label))
  <2> DEFINE S == Cardinality(StopSet(es, label))
             W == Cardinality(WaitSet(es, label))
             D == Cardinality(DeliverySet(es, label))
             s1 == Bit(StoppedAt(es[e], label))
             s2 == Bit(StoppedAt(v, label))
             w1 == Bit(WaitsFor(es[e], label))
             w2 == Bit(WaitsFor(v, label))
             a == Adds(es[e], v, label)
  <2>1. /\ fai[label] = S /\ IsFiniteSet(DeliverySet(es, label))
        /\ con[label] = D + S + W
    BY DEF Agree
  <2>2. /\ S \in Nat /\ Cardinality(StopSet(fs, label)) = S - s1 + s2
        /\ W \in Nat /\ Cardinality(WaitSet(fs, label)) = W - w1 + w2
    BY TallyMoves
  <2>3. /\ D \in Nat /\ Cardinality(DeliverySet(fs, label)) = D + a
        /\ IsFiniteSet(DeliverySet(fs, label))
    BY <2>1, DeliveriesMove
  <2>4. s1 \in {0, 1} /\ s2 \in {0, 1} /\ w1 \in {0, 1} /\ w2 \in {0, 1} /\ a \in {0, 1}
    BY DEF Bit, Adds
  <2>5. /\ fai2[label] = fai[label] - s1 + s2
        /\ con2[label] = con[label] + a - s1 + s2 - w1 + w2
    BY DEF FailuresMove, ConsumedMoves
  <2> HIDE DEF S, W, D, s1, s2, w1, w2, a
  <2>6. fai2[label] = Cardinality(StopSet(fs, label))
    BY <2>1, <2>2, <2>5
  <2>7. con2[label] = (D + a) + (S - s1 + s2) + (W - w1 + w2)
    BY <2>1, <2>2, <2>3, <2>4, <2>5
  <2> QED BY <2>2, <2>3, <2>6, <2>7
<1> QED BY <1>1, <1>2 DEF Agree

\* A call that has not been appended yet contributes nothing.
LEMMA AgreeAppends ==
  ASSUME NEW es \in Seq(Event), NEW v \in Event, v.status = "unrecorded",
         v.phase = "append", v.deliveries = <<>>,
         NEW pub, NEW con, NEW fai, Agree(es, pub, con, fai)
  PROVE  Agree(Append(es, v), pub, con, fai)
<1> DEFINE n == Len(es)
           fs == Append(es, v)
<1>1. /\ n \in Nat /\ DOMAIN es = 1..n /\ DOMAIN fs = 1..(n + 1) /\ fs[n + 1] = v
      /\ \A f \in 1..n : fs[f] = es[f]
  BY AppendFacts
<1>2. 1..(n + 1) = (1..n) \cup {n + 1}
  BY <1>1
<1> HIDE DEF n, fs
<1>3. \A name : RecordSet(fs, name) = RecordSet(es, name)
  <2>1. \A name : ~OnRecord(v, name)
    BY DEF OnRecord
  <2> QED BY <1>1, <1>2, <2>1 DEF RecordSet
<1>4. \A label : StopSet(fs, label) = StopSet(es, label)
  <2>1. \A label : ~StoppedAt(v, label)
    BY DEF StoppedAt
  <2> QED BY <1>1, <1>2, <2>1 DEF StopSet
<1>5. \A label : WaitSet(fs, label) = WaitSet(es, label)
  <2>1. \A label : ~WaitsFor(v, label)
    BY DEF WaitsFor, InHandler
  <2> QED BY <1>1, <1>2, <2>1 DEF WaitSet
<1>6. ASSUME NEW label PROVE DeliverySet(fs, label) = DeliverySet(es, label)
  <2>1. DOMAIN v.deliveries = {}
    OBVIOUS
  <2>2. \A q : q \in DeliverySet(fs, label) <=>
               \E f \in 1..(n + 1) : \E k \in DOMAIN fs[f].deliveries :
                 q = <<f, k>> /\ Label(fs[f].deliveries[k]) = label
    BY <1>1, DeliveryPairs
  <2>3. \A q : q \in DeliverySet(es, label) <=>
               \E f \in 1..n : \E k \in DOMAIN es[f].deliveries :
                 q = <<f, k>> /\ Label(es[f].deliveries[k]) = label
    BY <1>1, DeliveryPairs
  <2>4. \A q : q \in DeliverySet(fs, label) <=> q \in DeliverySet(es, label)
    BY <1>1, <1>2, <2>1, <2>2, <2>3
  <2> QED BY <2>4
<1>7. Agree(fs, pub, con, fai)
  BY <1>3, <1>4, <1>5, <1>6 DEF Agree
<1> QED BY <1>7 DEF fs

-----------------------------------------------------------------------------
(* What each step makes a call contribute                                   *)

\* Where a call does not stand in a handler or behind a failed one.
LEMMA QuietPhases ==
  ASSUME NEW x
  PROVE  /\ x.phase \in InHandler \cup {"append", "dispatch", "mark"} =>
              \A label : ~StoppedAt(x, label)
         /\ x.phase \notin InHandler => \A label : ~WaitsFor(x, label)
BY DEF StoppedAt, WaitsFor, InHandler

\* The handler whose turn it is is the one the dispatch stops at when it fails.
LEMMA NextDue ==
  ASSUME NEW x, Sound(x)
  PROVE  /\ x.next <= Len(x.handlers) =>
              /\ Len(x.deliveries) < Len(Due(x))
              /\ Due(x)[Len(x.deliveries) + 1] = x.handlers[x.next]
         /\ x.next = Len(x.handlers) + 1 => ~(Len(x.deliveries) < Len(Due(x)))
<1>1. x \in Event /\ Loop(x)
  BY DEF Sound
<1>2. /\ Len(x.handlers) \in Nat /\ x.next \in Nat \ {0} /\ x.duplicated \in BOOLEAN
      /\ Len(x.deliveries) =
           x.next - 1 + (IF x.duplicated THEN Len(x.handlers) ELSE 0)
      /\ Len(Due(x)) =
           Len(x.handlers) + (IF x.duplicated THEN Len(x.handlers) ELSE 0)
  BY <1>1, EventFields, DueFacts DEF Loop
<1> DEFINE more == IF x.duplicated THEN Len(x.handlers) ELSE 0
           a == Len(x.handlers)
           b == x.next
           d == Len(x.deliveries)
           u == Len(Due(x))
<1>3. more \in Nat /\ a \in Nat /\ b \in Nat \ {0} /\ d = b - 1 + more /\ u = a + more
  BY <1>2
<1> HIDE DEF more, a, b, d, u
<1>4. /\ b = a + 1 => ~(d < u)
      /\ b <= a => d < u /\ d + 1 \in 1..u
  BY <1>3
<1>5. x.next = Len(x.handlers) + 1 => ~(Len(x.deliveries) < Len(Due(x)))
  BY <1>4 DEF a, b, d, u
<1>6. ASSUME x.next <= Len(x.handlers)
      PROVE  /\ Len(x.deliveries) < Len(Due(x))
             /\ Due(x)[Len(x.deliveries) + 1] = x.handlers[x.next]
  <2> DEFINE k == Len(x.deliveries) + 1
  <2>1. Len(x.deliveries) < Len(Due(x)) /\ k \in 1..Len(Due(x))
    BY <1>6, <1>4 DEF a, b, d, u
  <2>2. Due(x)[k] = IF k <= Len(x.handlers) THEN x.handlers[k]
                    ELSE x.handlers[k - Len(x.handlers)]
    BY <1>1, <2>1, DueFacts
  <2>3. CASE x.duplicated
    <3>1. ~(k <= Len(x.handlers)) /\ k - Len(x.handlers) = x.next
      BY <1>2, <2>3
    <3> HIDE DEF k
    <3>2. Due(x)[k] = x.handlers[x.next]
      BY <2>2, <3>1
    <3> QED BY <2>1, <3>2 DEF k
  <2>4. CASE ~x.duplicated
    <3>1. k <= Len(x.handlers) /\ k = x.next
      BY <1>2, <1>6, <2>4
    <3> HIDE DEF k
    <3>2. Due(x)[k] = x.handlers[x.next]
      BY <2>2, <3>1
    <3> QED BY <2>1, <3>2 DEF k
  <2> QED BY <2>3, <2>4
<1> QED BY <1>5, <1>6

\* The call contributes what it did.
SameRecord(x, v) == \A name : OnRecord(v, name) <=> OnRecord(x, name)
SameTally(x, v) ==
  /\ v.deliveries = x.deliveries /\ SameRecord(x, v)
  /\ \A label : /\ StoppedAt(v, label) <=> StoppedAt(x, label)
                /\ WaitsFor(v, label) <=> WaitsFor(x, label)

\* The steps that end the dispatch or the call contribute nothing: what was
\* counted as failed stays so when Publish returns, whatever it marks.
LEMMA QuietSteps ==
  ASSUME NEW x, Sound(x), Settled(x)
  PROVE  /\ x.phase = "dispatch" =>
              /\ SameTally(x, Through(x)) /\ Settled(Through(x))
              /\ SameTally(x, Again(x)) /\ Settled(Again(x))
         /\ x.phase = "handling" => \A answer :
              SameTally(x, Resumed(x, answer)) /\ Settled(Resumed(x, answer))
         /\ \A status, answer : MayEnd(x, status, answer) =>
              /\ SameTally(x, Ended(x, status, answer))
              /\ Settled(Ended(x, status, answer))
<1>1. x \in Event /\ Standing(x)
  BY DEF Sound
<1>2. ASSUME x.phase = "dispatch"
      PROVE  /\ SameTally(x, Through(x)) /\ Settled(Through(x))
             /\ SameTally(x, Again(x)) /\ Settled(Again(x))
  <2>1. /\ Through(x).phase = "mark" /\ Through(x).status = x.status
        /\ Through(x).name = x.name /\ Through(x).deliveries = x.deliveries
    BY <1>1 DEF Through, Event
  <2>2. /\ Again(x).phase = "dispatch" /\ Again(x).status = x.status
        /\ Again(x).name = x.name /\ Again(x).deliveries = x.deliveries
    BY <1>1, <1>2 DEF Again, Event
  <2>3. \A label : ~StoppedAt(x, label) /\ ~WaitsFor(x, label)
    BY <1>2, QuietPhases DEF InHandler
  <2>4. \A label : ~StoppedAt(Through(x), label) /\ ~WaitsFor(Through(x), label)
    BY <2>1, QuietPhases DEF InHandler
  <2>5. \A label : ~StoppedAt(Again(x), label) /\ ~WaitsFor(Again(x), label)
    BY <2>2, QuietPhases DEF InHandler
  <2>6. SameRecord(x, Through(x)) /\ SameRecord(x, Again(x))
    BY <2>1, <2>2 DEF SameRecord, OnRecord
  <2>7. Settled(Through(x)) /\ Settled(Again(x))
    BY <1>2, <2>1, <2>2 DEF Settled, InHandler
  <2> QED BY <2>1, <2>2, <2>3, <2>4, <2>5, <2>6, <2>7 DEF SameTally
<1>3. ASSUME NEW status, NEW answer, MayEnd(x, status, answer)
      PROVE  /\ SameTally(x, Ended(x, status, answer))
             /\ Settled(Ended(x, status, answer))
  <2> DEFINE v == Ended(x, status, answer)
  <2>1. /\ v.phase = "returned" /\ v.status = status /\ v.name = x.name
        /\ v.deliveries = x.deliveries /\ v.handlers = x.handlers
        /\ v.duplicated = x.duplicated
    BY <1>1 DEF Ended, Event
  <2> HIDE DEF v
  <2>2. \A label : ~WaitsFor(v, label) /\ ~WaitsFor(x, label)
    BY <1>3, <2>1, QuietPhases DEF MayEnd, InHandler
  <2>3. SameRecord(x, v) /\ Settled(v)
    BY <1>3, <2>1 DEF SameRecord, OnRecord, MayEnd, Settled, InHandler
  <2>4. Due(v) = Due(x)
    BY <2>1 DEF Due
  <2>5. ASSUME NEW label PROVE StoppedAt(v, label) <=> StoppedAt(x, label)
    <3>1. CASE x.phase = "append" /\ status = "unrecorded"
      BY <2>1, <3>1 DEF StoppedAt
    <3>2. CASE x.phase = "mark"
      <4>1. ~(Len(x.deliveries) < Len(Due(x)))
        BY <1>1, <3>2, NextDue DEF Standing
      <4> QED BY <2>1, <2>4, <3>2, <4>1 DEF StoppedAt
    <3>3. CASE x.phase = "fail" /\ status # "unrecorded"
      <4>1. Len(x.deliveries) < Len(Due(x))
        BY <1>1, <3>3, NextDue DEF Standing
      <4> QED BY <2>1, <2>4, <3>3, <4>1 DEF StoppedAt
    <3> QED BY <1>3, <3>1, <3>2, <3>3 DEF MayEnd
  <2> QED BY <2>1, <2>2, <2>3, <2>5 DEF SameTally, v
<1>4. ASSUME x.phase = "handling", NEW answer
      PROVE  SameTally(x, Resumed(x, answer)) /\ Settled(Resumed(x, answer))
  <2> DEFINE v == Resumed(x, answer)
  <2>1. /\ v.phase \in {"resumed", "refused"} /\ v.status = x.status
        /\ v.name = x.name /\ v.deliveries = x.deliveries
        /\ v.handlers = x.handlers /\ v.next = x.next
    BY <1>1 DEF Resumed, Event
  <2> HIDE DEF v
  <2>2. \A label : ~StoppedAt(x, label) /\ ~StoppedAt(v, label)
    BY <1>4, <2>1, QuietPhases DEF InHandler
  <2>3. \A label : WaitsFor(v, label) <=> WaitsFor(x, label)
    BY <1>4, <2>1 DEF WaitsFor, InHandler
  <2>4. SameRecord(x, v) /\ Settled(v)
    BY <1>4, <2>1 DEF SameRecord, OnRecord, Settled, InHandler
  <2> QED BY <2>1, <2>2, <2>3, <2>4 DEF SameTally, v
<1> QED BY <1>2, <1>3, <1>4

\* The append puts the event on record and contributes nothing else.
LEMMA RecordStep ==
  ASSUME NEW x, Sound(x), Settled(x), x.phase = "append"
  PROVE  LET v == Recorded(x) IN
         /\ v.deliveries = x.deliveries /\ Settled(v)
         /\ \A name : ~OnRecord(x, name) /\ (OnRecord(v, name) <=> name = x.name)
         /\ \A label : ~StoppedAt(x, label) /\ ~WaitsFor(x, label)
         /\ \A label : ~StoppedAt(v, label) /\ ~WaitsFor(v, label)
<1> DEFINE v == Recorded(x)
<1>1. x \in Event
  BY DEF Sound
<1>2. /\ v.phase = "dispatch" /\ v.status = "pending" /\ v.name = x.name
      /\ v.deliveries = x.deliveries
  BY <1>1 DEF Recorded, Event
<1> HIDE DEF v
<1>3. \A name : ~OnRecord(x, name) /\ (OnRecord(v, name) <=> name = x.name)
  BY <1>2 DEF OnRecord, Settled
<1>4. Settled(v)
  BY <1>2 DEF Settled, InHandler
<1>5. /\ \A label : ~StoppedAt(x, label) /\ ~WaitsFor(x, label)
      /\ \A label : ~StoppedAt(v, label) /\ ~WaitsFor(v, label)
  BY <1>2, QuietPhases DEF InHandler
<1> QED BY <1>2, <1>3, <1>4, <1>5 DEF v

\* A handler takes its turn: it returns no error, is waited for, or fails.
LEMMA TurnSteps ==
  ASSUME NEW x, Sound(x), Settled(x), x.phase \in {"dispatch", "resumed", "refused"},
         x.next <= Len(x.handlers)
  PROVE  LET h == x.handlers[x.next] IN
         /\ h \in Handlers
         /\ \A label : ~StoppedAt(x, label)
         /\ x.phase = "dispatch" => \A label : ~WaitsFor(x, label)
         /\ x.phase # "dispatch" => \A label : WaitsFor(x, label) <=> Label(h) = label
         /\ Delivered(x).deliveries = Append(x.deliveries, h)
         /\ SameRecord(x, Delivered(x)) /\ Settled(Delivered(x))
         /\ \A label : ~StoppedAt(Delivered(x), label) /\ ~WaitsFor(Delivered(x), label)
         /\ Entered(x).deliveries = x.deliveries
         /\ SameRecord(x, Entered(x)) /\ Settled(Entered(x))
         /\ \A label : /\ ~StoppedAt(Entered(x), label)
                       /\ WaitsFor(Entered(x), label) <=> Label(h) = label
         /\ \A v \in {DispatchError(x), Injected(x)} :
              /\ v.deliveries = x.deliveries
              /\ SameRecord(x, v) /\ Settled(v)
              /\ \A label : /\ StoppedAt(v, label) <=> Label(h) = label
                            /\ ~WaitsFor(v, label)
<1> DEFINE h == x.handlers[x.next]
<1>1. x \in Event /\ h \in Handlers
  BY EventFields DEF Sound
<1>2. /\ \A label : ~StoppedAt(x, label)
      /\ x.phase = "dispatch" => \A label : ~WaitsFor(x, label)
      /\ x.phase # "dispatch" => \A label : WaitsFor(x, label) <=> Label(h) = label
  BY QuietPhases DEF WaitsFor, InHandler
<1>3. /\ Delivered(x).deliveries = Append(x.deliveries, h)
      /\ SameRecord(x, Delivered(x)) /\ Settled(Delivered(x))
      /\ \A label : ~StoppedAt(Delivered(x), label) /\ ~WaitsFor(Delivered(x), label)
  <2> DEFINE v == Delivered(x)
  <2>1. /\ v.phase = "dispatch" /\ v.status = x.status /\ v.name = x.name
        /\ v.deliveries = Append(x.deliveries, h)
    BY <1>1 DEF Delivered, Event
  <2> HIDE DEF v, h
  <2>2. SameRecord(x, v) /\ Settled(v)
    BY <2>1 DEF SameRecord, OnRecord, Settled, InHandler
  <2>3. \A label : ~StoppedAt(v, label) /\ ~WaitsFor(v, label)
    BY <2>1, QuietPhases DEF InHandler
  <2> QED BY <2>1, <2>2, <2>3 DEF v
<1>4. /\ Entered(x).deliveries = x.deliveries
      /\ SameRecord(x, Entered(x)) /\ Settled(Entered(x))
      /\ \A label : /\ ~StoppedAt(Entered(x), label)
                    /\ WaitsFor(Entered(x), label) <=> Label(h) = label
  <2> DEFINE v == Entered(x)
  <2>1. /\ v.phase = "handling" /\ v.status = x.status /\ v.name = x.name
        /\ v.deliveries = x.deliveries /\ v.handlers = x.handlers
        /\ v.next = x.next
    BY <1>1 DEF Entered, Event
  <2> HIDE DEF v
  <2>2. SameRecord(x, v) /\ Settled(v)
    BY <2>1 DEF SameRecord, OnRecord, Settled, InHandler
  <2>3. \A label : ~StoppedAt(v, label)
    BY <2>1, QuietPhases DEF InHandler
  <2>4. \A label : WaitsFor(v, label) <=> Label(h) = label
    BY <2>1 DEF WaitsFor, InHandler
  <2> QED BY <2>1, <2>2, <2>3, <2>4 DEF v
<1>5. ASSUME NEW v \in {DispatchError(x), Injected(x)}
      PROVE  /\ v.deliveries = x.deliveries
             /\ SameRecord(x, v) /\ Settled(v)
             /\ \A label : /\ StoppedAt(v, label) <=> Label(h) = label
                           /\ ~WaitsFor(v, label)
  <2>1. /\ v.phase = "fail" /\ v.status = x.status /\ v.name = x.name
        /\ v.deliveries = x.deliveries /\ v.handlers = x.handlers
        /\ v.duplicated = x.duplicated
    BY <1>1 DEF DispatchError, Injected, Event
  <2>2. SameRecord(x, v) /\ Settled(v)
    BY <2>1 DEF SameRecord, OnRecord, Settled, InHandler
  <2>3. \A label : ~WaitsFor(v, label)
    BY <2>1, QuietPhases DEF InHandler
  <2>4. Due(v) = Due(x)
    BY <2>1 DEF Due
  <2>5. Due(v)[Len(v.deliveries) + 1] = h
    BY <2>1, <2>4, NextDue
  <2> HIDE DEF h
  <2>6. \A label : StoppedAt(v, label) <=> Label(h) = label
    BY <2>1, <2>5 DEF StoppedAt
  <2> QED BY <2>1, <2>2, <2>3, <2>6
<1> QED BY <1>1, <1>2, <1>3, <1>4, <1>5

-----------------------------------------------------------------------------
(* Each step and its counters                                               *)

\* A counter counts one more for one label.
LEMMA CountOne ==
  ASSUME NEW L, NEW c \in [L -> Nat], NEW l \in L
  PROVE  /\ Count(c, l) \in [L -> Nat]
         /\ \A m \in L : Count(c, l)[m] = c[m] + Bit(l = m)
BY DEF Count, Bit

\* A call that contributes what it did leaves the counters right.
LEMMA AgreeQuiet ==
  ASSUME NEW es \in Seq(Event), NEW e \in 1..Len(es), NEW v \in Event,
         NEW fs, OnlyChanges(es, fs, e, v), SameTally(es[e], v),
         NEW pub \in [Names -> Nat], NEW con \in [Labels -> Nat],
         NEW fai \in [Labels -> Nat], Agree(es, pub, con, fai)
  PROVE  Agree(fs, pub, con, fai)
<1>1. MayAdd(es[e], v) /\ \A label : Adds(es[e], v, label) = 0
  BY DEF SameTally, MayAdd, Adds
<1>2. /\ \A name : Bit(OnRecord(v, name)) = Bit(OnRecord(es[e], name))
      /\ \A label : /\ Bit(StoppedAt(v, label)) = Bit(StoppedAt(es[e], label))
                    /\ Bit(WaitsFor(v, label)) = Bit(WaitsFor(es[e], label))
  BY DEF SameTally, SameRecord, Bit
<1>3. /\ \A name : Bit(OnRecord(es[e], name)) \in {0, 1}
      /\ \A label : /\ Bit(StoppedAt(es[e], label)) \in {0, 1}
                    /\ Bit(WaitsFor(es[e], label)) \in {0, 1}
  BY DEF Bit
<1>4. PublishedMoves(es[e], v, pub, pub)
  BY <1>2, <1>3 DEF PublishedMoves
<1>5. ASSUME NEW label \in Labels
      PROVE  /\ fai[label] = fai[label] - Bit(StoppedAt(es[e], label))
                                        + Bit(StoppedAt(v, label))
             /\ con[label] = con[label] + Adds(es[e], v, label)
                  - Bit(StoppedAt(es[e], label)) + Bit(StoppedAt(v, label))
                  - Bit(WaitsFor(es[e], label)) + Bit(WaitsFor(v, label))
  <2> DEFINE s == Bit(StoppedAt(es[e], label))
             w == Bit(WaitsFor(es[e], label))
  <2>1. s \in {0, 1} /\ w \in {0, 1}
    BY <1>3
  <2>2. Bit(StoppedAt(v, label)) = s /\ Bit(WaitsFor(v, label)) = w
    BY <1>2
  <2>3. Adds(es[e], v, label) = 0
    BY <1>1
  <2>4. fai[label] \in Nat /\ con[label] \in Nat
    OBVIOUS
  <2> HIDE DEF s, w
  <2>5. fai[label] = fai[label] - s + s /\ con[label] = con[label] + 0 - s + s - w + w
    BY <2>1, <2>4
  <2> QED BY <2>2, <2>3, <2>5 DEF s, w
<1>6. FailuresMove(es[e], v, fai, fai) /\ ConsumedMoves(es[e], v, con, con)
  BY <1>5 DEF FailuresMove, ConsumedMoves
<1> QED BY <1>1, <1>4, <1>6, AgreeMoves

\* A recorded event counts as published.
LEMMA AgreeRecords ==
  ASSUME NEW es \in Seq(Event), NEW e \in 1..Len(es),
         Sound(es[e]), Settled(es[e]), es[e].phase = "append",
         NEW fs, OnlyChanges(es, fs, e, Recorded(es[e])),
         NEW pub \in [Names -> Nat], NEW con \in [Labels -> Nat],
         NEW fai \in [Labels -> Nat], Agree(es, pub, con, fai)
  PROVE  Agree(fs, Count(pub, es[e].name), con, fai)
<1> DEFINE x == es[e]
           v == Recorded(x)
<1>1. x.name \in Names /\ v \in Event
  BY AdvanceSound, EventFields DEF Sound
<1>2. /\ v.deliveries = x.deliveries
      /\ \A name : ~OnRecord(x, name) /\ (OnRecord(v, name) <=> name = x.name)
      /\ \A label : ~StoppedAt(x, label) /\ ~WaitsFor(x, label)
      /\ \A label : ~StoppedAt(v, label) /\ ~WaitsFor(v, label)
  BY RecordStep
<1>3. \A name \in Names : Count(pub, x.name)[name] = pub[name] + Bit(x.name = name)
  BY <1>1, CountOne
<1> HIDE DEF v
<1>4. /\ MayAdd(x, v) /\ \A label : Adds(x, v, label) = 0
      /\ \A label : /\ Bit(StoppedAt(x, label)) = 0 /\ Bit(StoppedAt(v, label)) = 0
                    /\ Bit(WaitsFor(x, label)) = 0 /\ Bit(WaitsFor(v, label)) = 0
  BY <1>2 DEF MayAdd, Adds, Bit
<1>5. \A name : /\ Bit(OnRecord(x, name)) = 0
                /\ Bit(OnRecord(v, name)) = Bit(x.name = name)
                /\ Bit(x.name = name) \in {0, 1}
  BY <1>2 DEF Bit
<1>6. PublishedMoves(x, v, pub, Count(pub, x.name))
  BY <1>3, <1>5 DEF PublishedMoves
<1>7. FailuresMove(x, v, fai, fai) /\ ConsumedMoves(x, v, con, con)
  BY <1>4 DEF FailuresMove, ConsumedMoves
<1>8. OnlyChanges(es, fs, e, v)
  BY DEF v
<1> QED BY <1>1, <1>4, <1>6, <1>7, <1>8, AgreeMoves DEF v

\* The turn of a handler, what it contributes and what is counted for it.
Turn(es, e) ==
  /\ es \in Seq(Event) /\ e \in 1..Len(es)
  /\ Sound(es[e]) /\ Settled(es[e])
  /\ es[e].phase \in {"dispatch", "resumed", "refused"}
  /\ es[e].next <= Len(es[e].handlers)

\* The bits of a turn add up to what is counted for it.
LEMMA AgreeTurns ==
  ASSUME NEW es, NEW e, Turn(es, e), NEW v \in Event,
         NEW fs, OnlyChanges(es, fs, e, v), MayAdd(es[e], v),
         SameRecord(es[e], v),
         NEW pub \in [Names -> Nat], NEW con \in [Labels -> Nat],
         NEW fai \in [Labels -> Nat], Agree(es, pub, con, fai),
         NEW con2, NEW fai2,
         FailuresMove(es[e], v, fai, fai2), ConsumedMoves(es[e], v, con, con2)
  PROVE  Agree(fs, pub, con2, fai2)
<1>1. \A name : /\ Bit(OnRecord(v, name)) = Bit(OnRecord(es[e], name))
                /\ Bit(OnRecord(es[e], name)) \in {0, 1}
  BY DEF SameRecord, Bit
<1>2. PublishedMoves(es[e], v, pub, pub)
  BY <1>1 DEF PublishedMoves
<1> QED BY <1>2, AgreeMoves DEF Turn

\* What is counted for each way a turn may go.
LEMMA TurnCounted ==
  ASSUME NEW es, NEW e, Turn(es, e), NEW v, NEW fs, OnlyChanges(es, fs, e, v),
         NEW pub \in [Names -> Nat], NEW con \in [Labels -> Nat],
         NEW fai \in [Labels -> Nat], Agree(es, pub, con, fai)
  PROVE  LET x == es[e]
             l == Label(x.handlers[x.next])
         IN /\ x.phase = "dispatch" /\ v = Delivered(x) =>
                 Agree(fs, pub, Count(con, l), fai)
            /\ x.phase = "dispatch" /\ v \in {DispatchError(x), Injected(x)} =>
                 Agree(fs, pub, Count(con, l), Count(fai, l))
            /\ x.phase = "dispatch" /\ v = Entered(x) =>
                 Agree(fs, pub, Count(con, l), fai)
            /\ x.phase = "resumed" /\ v = Delivered(x) => Agree(fs, pub, con, fai)
            /\ x.phase # "dispatch" /\ v = DispatchError(x) =>
                 Agree(fs, pub, con, Count(fai, l))
<1> DEFINE x == es[e]
           h == x.handlers[x.next]
           l == Label(h)
           t == [m \in Labels |-> Bit(l = m)]
<1>1. /\ Sound(x) /\ Settled(x) /\ x \in Event /\ x.next <= Len(x.handlers)
      /\ x.phase \in {"dispatch", "resumed", "refused"}
  BY DEF Turn, Sound
<1>2. /\ h \in Handlers
      /\ \A m : ~StoppedAt(x, m)
      /\ x.phase = "dispatch" => \A m : ~WaitsFor(x, m)
      /\ x.phase # "dispatch" => \A m : WaitsFor(x, m) <=> l = m
  BY <1>1, TurnSteps
<1>3. l \in Labels
  BY <1>2 DEF Labels, Label
<1>4. /\ \A m \in Labels : Count(con, l)[m] = con[m] + t[m]
      /\ \A m \in Labels : Count(fai, l)[m] = fai[m] + t[m]
      /\ \A m \in Labels : t[m] \in {0, 1}
  BY <1>3, CountOne DEF Bit
<1>5. \A m \in Labels : con[m] \in Nat /\ fai[m] \in Nat
  OBVIOUS
<1>6. /\ \A m \in Labels : Bit(StoppedAt(x, m)) = 0
      /\ x.phase = "dispatch" => \A m \in Labels : Bit(WaitsFor(x, m)) = 0
      /\ x.phase # "dispatch" => \A m \in Labels : Bit(WaitsFor(x, m)) = t[m]
  BY <1>2 DEF Bit
<1>7. ASSUME x.phase # "refused", v = Delivered(x)
      PROVE  /\ v \in Event /\ MayAdd(x, v) /\ SameRecord(x, v)
             /\ \A m \in Labels : /\ Adds(x, v, m) = t[m]
                                  /\ Bit(StoppedAt(v, m)) = 0
                                  /\ Bit(WaitsFor(v, m)) = 0
  <2>1. v \in Event
    BY <1>1, <1>7, DeliveredSound DEF Sound
  <2>2. /\ v.deliveries = Append(x.deliveries, h) /\ SameRecord(x, v)
        /\ \A m : ~StoppedAt(v, m) /\ ~WaitsFor(v, m)
    BY <1>1, <1>7, TurnSteps
  <2>3. /\ x.deliveries \in Seq(Handlers) /\ Len(x.deliveries) \in Nat
    BY <1>1, EventFields
  <2> HIDE DEF h
  <2>4. /\ Len(v.deliveries) = Len(x.deliveries) + 1
        /\ v.deliveries[Len(v.deliveries)] = h
    BY <1>2, <2>2, <2>3, AppendFacts
  <2>5. v.deliveries # x.deliveries
    BY <2>3, <2>4
  <2>6. \A m \in Labels : Adds(x, v, m) = t[m]
    BY <2>4, <2>5 DEF Adds
  <2>7. \A m \in Labels : Bit(StoppedAt(v, m)) = 0 /\ Bit(WaitsFor(v, m)) = 0
    BY <2>2 DEF Bit
  <2> QED BY <1>2, <2>1, <2>2, <2>6, <2>7 DEF MayAdd
<1>8. ASSUME v \in {DispatchError(x), Injected(x)}
      PROVE  /\ v \in Event /\ MayAdd(x, v) /\ SameRecord(x, v)
             /\ \A m \in Labels : /\ Adds(x, v, m) = 0
                                  /\ Bit(StoppedAt(v, m)) = t[m]
                                  /\ Bit(WaitsFor(v, m)) = 0
  <2>1. v \in Event
    BY <1>1, <1>8, AdvanceSound DEF Sound
  <2>2. /\ v.deliveries = x.deliveries /\ SameRecord(x, v)
        /\ \A m : (StoppedAt(v, m) <=> l = m) /\ ~WaitsFor(v, m)
    BY <1>1, <1>8, TurnSteps
  <2> HIDE DEF l
  <2>3. \A m \in Labels : Bit(StoppedAt(v, m)) = t[m] /\ Bit(WaitsFor(v, m)) = 0
    BY <2>2 DEF Bit
  <2> QED BY <2>1, <2>2, <2>3 DEF MayAdd, Adds
<1>9. ASSUME v = Entered(x)
      PROVE  /\ v \in Event /\ MayAdd(x, v) /\ SameRecord(x, v)
             /\ \A m \in Labels : /\ Adds(x, v, m) = 0
                                  /\ Bit(StoppedAt(v, m)) = 0
                                  /\ Bit(WaitsFor(v, m)) = t[m]
  <2>1. v \in Event
    BY <1>1, <1>9, AdvanceSound DEF Sound
  <2>2. /\ v.deliveries = x.deliveries /\ SameRecord(x, v)
        /\ \A m : ~StoppedAt(v, m) /\ (WaitsFor(v, m) <=> l = m)
    BY <1>1, <1>9, TurnSteps
  <2> HIDE DEF l
  <2>3. \A m \in Labels : Bit(StoppedAt(v, m)) = 0 /\ Bit(WaitsFor(v, m)) = t[m]
    BY <2>2 DEF Bit
  <2> QED BY <2>1, <2>2, <2>3 DEF MayAdd, Adds
<1> HIDE DEF t, h
<1>10. ASSUME x.phase = "dispatch", v = Delivered(x)
       PROVE  Agree(fs, pub, Count(con, l), fai)
  <2>1. FailuresMove(x, v, fai, fai) /\ ConsumedMoves(x, v, con, Count(con, l))
    BY <1>4, <1>5, <1>6, <1>7, <1>10 DEF FailuresMove, ConsumedMoves
  <2> QED BY <1>2, <1>7, <1>10, <2>1, AgreeTurns
<1>11. ASSUME x.phase = "dispatch", v \in {DispatchError(x), Injected(x)}
       PROVE  Agree(fs, pub, Count(con, l), Count(fai, l))
  <2>1. FailuresMove(x, v, fai, Count(fai, l)) /\ ConsumedMoves(x, v, con, Count(con, l))
    BY <1>4, <1>5, <1>6, <1>8, <1>11 DEF FailuresMove, ConsumedMoves
  <2> QED BY <1>2, <1>8, <1>11, <2>1, AgreeTurns
<1>12. ASSUME x.phase = "dispatch", v = Entered(x)
       PROVE  Agree(fs, pub, Count(con, l), fai)
  <2>1. FailuresMove(x, v, fai, fai) /\ ConsumedMoves(x, v, con, Count(con, l))
    BY <1>4, <1>5, <1>6, <1>9, <1>12 DEF FailuresMove, ConsumedMoves
  <2> QED BY <1>2, <1>9, <1>12, <2>1, AgreeTurns
<1>13. ASSUME x.phase = "resumed", v = Delivered(x)
       PROVE  Agree(fs, pub, con, fai)
  <2>1. FailuresMove(x, v, fai, fai) /\ ConsumedMoves(x, v, con, con)
    BY <1>4, <1>5, <1>6, <1>7, <1>13 DEF FailuresMove, ConsumedMoves
  <2> QED BY <1>2, <1>7, <1>13, <2>1, AgreeTurns
<1>14. ASSUME x.phase # "dispatch", v = DispatchError(x)
       PROVE  Agree(fs, pub, con, Count(fai, l))
  <2>1. FailuresMove(x, v, fai, Count(fai, l)) /\ ConsumedMoves(x, v, con, con)
    BY <1>4, <1>5, <1>6, <1>8, <1>14 DEF FailuresMove, ConsumedMoves
  <2> QED BY <1>2, <1>8, <1>14, <2>1, AgreeTurns
<1> QED BY <1>10, <1>11, <1>12, <1>13, <1>14 DEF h

\* A sequence with one entry replaced.
LEMMA OnlyOneChanges ==
  ASSUME NEW es \in Seq(Event), NEW e \in 1..Len(es), NEW v \in Event
  PROVE  /\ OnlyChanges(es, [es EXCEPT ![e] = v], e, v)
         /\ [es EXCEPT ![e] = v] \in Seq(Event)
         /\ Len([es EXCEPT ![e] = v]) = Len(es)
BY DEF OnlyChanges

\* What a step says about one call at a time adds up to the invariant.
LEMMA CountKept ==
  ASSUME CountInv, BusInv, NEW e \in 1..Len(events), NEW v \in Event, Settled(v),
         events' = [events EXCEPT ![e] = v],
         published' \in [Names -> Nat], consumed' \in [Labels -> Nat],
         failures' \in [Labels -> Nat],
         Agree(events', published', consumed', failures')
  PROVE  CountInv'
<1>1. /\ DOMAIN events' = 1..Len(events) /\ events'[e] = v
      /\ \A f \in 1..Len(events) : f # e => events'[f] = events[f]
  BY TurnOne
<1>2. \A f \in DOMAIN events' : Settled(events'[f])
  BY <1>1, EventsSound DEF CountInv
<1> QED BY <1>2 DEF CountInv

\* When Publish returns, its own call contributes what it did, and the delivery
\* whose handler called it still counts as running.
LEMMA CountReturns ==
  ASSUME BusInv, CountInv, NEW g \in Goroutines, call[g] # 0,
         NEW status, NEW answer, MayEnd(events[call[g]], status, answer),
         Return(g, call[g], status, answer), UNCHANGED counters
  PROVE  CountInv'
<1> DEFINE e == call[g]
           x == events[e]
           p == x.parent
           y == events[p]
           v == Ended(x, status, answer)
           w == Resumed(y, answer)
           mid == [events EXCEPT ![e] = v]
<1>1. ReturnsTo(g, status, answer)
  BY ReturnEffect
<1>2. /\ e \in 1..Len(events) /\ events' \in Seq(Event) /\ Len(events') = Len(events)
      /\ DOMAIN events' = 1..Len(events)
      /\ events'[e] = v /\ Sound(v)
      /\ p # 0 => /\ p \in 1..Len(events) /\ p # e /\ y.phase = "handling"
                  /\ events'[p] = w /\ Sound(w)
      /\ \A f \in 1..Len(events) : f # e /\ f # p => events'[f] = events[f]
  BY <1>1 DEF ReturnsTo
<1>3. /\ x \in Event /\ Sound(x) /\ Settled(x) /\ v \in Event
      /\ events \in Seq(Event) /\ DOMAIN events = 1..Len(events)
  BY <1>2, EventsSound DEF CountInv, Sound
<1>4. SameTally(x, v) /\ Settled(v)
  BY <1>3, QuietSteps
<1>5. /\ published' = published /\ consumed' = consumed /\ failures' = failures
      /\ published \in [Names -> Nat] /\ consumed \in [Labels -> Nat]
      /\ failures \in [Labels -> Nat]
      /\ Agree(events, published, consumed, failures)
  BY DEF CountInv, counters
<1>6. OnlyChanges(events, mid, e, v) /\ mid \in Seq(Event) /\ Len(mid) = Len(events)
  BY <1>2, <1>3, OnlyOneChanges
<1> HIDE DEF v, w, mid
<1>7. Agree(mid, published, consumed, failures)
  BY <1>2, <1>3, <1>4, <1>5, <1>6, AgreeQuiet
<1>8. CASE p = 0
  <2>1. OnlyChanges(events, events', e, v)
    <3>1. \A f \in 1..Len(events) : f # p
      BY <1>8
    <3> QED BY <1>2, <1>3, <3>1 DEF OnlyChanges
  <2>2. Agree(events', published, consumed, failures)
    BY <1>2, <1>3, <1>4, <1>5, <2>1, AgreeQuiet
  <2>3. \A f \in DOMAIN events' : Settled(events'[f])
    <3>1. \A f \in 1..Len(events) : f # e => events'[f] = events[f]
      BY <1>2, <1>8
    <3> QED BY <1>2, <1>3, <1>4, <3>1 DEF CountInv
  <2> QED BY <1>5, <2>2, <2>3 DEF CountInv
<1>9. CASE p # 0
  <2>1. /\ p \in 1..Len(events) /\ p # e /\ y.phase = "handling"
        /\ events'[p] = w /\ w \in Event
    BY <1>2, <1>9 DEF Sound
  <2>2. Sound(y) /\ Settled(y)
    BY <1>3, <2>1, EventsSound DEF CountInv
  <2>3. mid[p] = y
    BY <1>3, <1>6, <2>1 DEF OnlyChanges
  <2>4. OnlyChanges(mid, events', p, w)
    <3>1. DOMAIN mid = 1..Len(events) /\ mid[e] = v
          /\ \A f \in 1..Len(events) : f # e => mid[f] = events[f]
      BY <1>2, <1>3, <1>6 DEF OnlyChanges
    <3>2. \A f \in 1..Len(events) : f # p => events'[f] = mid[f]
      BY <1>2, <3>1
    <3> QED BY <1>2, <2>1, <3>1, <3>2 DEF OnlyChanges
  <2>5. SameTally(mid[p], w) /\ Settled(w)
    BY <2>1, <2>2, <2>3, QuietSteps DEF w
  <2>6. Agree(events', published, consumed, failures)
    <3>1. p \in 1..Len(mid)
      BY <1>6, <2>1
    <3> HIDE DEF p
    <3> QED BY <1>5, <1>6, <1>7, <2>1, <2>4, <2>5, <3>1, AgreeQuiet
  <2>7. \A f \in DOMAIN events' : Settled(events'[f])
    <3>1. \A f \in 1..Len(events) : Settled(events[f])
      BY <1>3 DEF CountInv
    <3> QED BY <1>2, <1>4, <2>1, <2>5, <3>1
  <2> QED BY <1>5, <2>6, <2>7 DEF CountInv
<1> QED BY <1>8, <1>9

\* A publication that begins is counted by nobody, and the handler it was made
\* by counts as handed its event.
LEMMA CountAdds ==
  ASSUME BusInv, CountInv, NEW name \in Names, NEW p \in 0..Len(events),
         p # 0 => /\ events[p].phase = "dispatch"
                  /\ events[p].next <= Len(events[p].handlers),
         Len(events) < MaxEvents,
         events' = Append(IF p = 0 THEN events
                          ELSE [events EXCEPT ![p].phase = "handling"],
                          NewEvent(name, p)),
         consumed' = IF p = 0 THEN consumed
                     ELSE Count(consumed, Label(NextHandler(p))),
         UNCHANGED <<published, failures>>
  PROVE  CountInv'
<1> DEFINE x == NewEvent(name, p)
           y == events[p]
           base == IF p = 0 THEN events ELSE [events EXCEPT ![p] = Entered(y)]
<1>0. /\ TypeOK /\ MaxEvents \in Nat /\ Len(events) \in Nat
      /\ DOMAIN events = 1..Len(events) /\ events \in Seq(Event)
  BY EventsSound, BusAssumption DEF BusInv, TypeOK
<1>1. x \in Event
  <2>1. p \in 0..MaxEvents
    BY <1>0
  <2> QED BY <1>0, <2>1, NewEventSound DEF Sound
<1>2. x.status = "unrecorded" /\ x.phase = "append" /\ x.deliveries = <<>>
  BY DEF NewEvent
<1>3. Settled(x)
  BY <1>2 DEF Settled, InHandler
<1>4. /\ published \in [Names -> Nat] /\ consumed \in [Labels -> Nat]
      /\ failures \in [Labels -> Nat]
      /\ \A f \in 1..Len(events) : Settled(events[f])
      /\ Agree(events, published, consumed, failures)
  BY <1>0 DEF CountInv
<1>5. events' = Append(base, x)
  BY <1>0 DEF Entered
<1> HIDE DEF x
<1>6. /\ base \in Seq(Event) /\ Len(base) = Len(events)
      /\ \A f \in 1..Len(events) : Settled(base[f])
      /\ consumed' \in [Labels -> Nat]
      /\ Agree(base, published, consumed', failures)
  <2>1. CASE p = 0
    <3>1. base = events /\ consumed' = consumed
      BY <2>1
    <3> QED BY <1>0, <1>4, <3>1
  <2>2. CASE p # 0
    <3> DEFINE v == Entered(y)
               l == Label(y.handlers[y.next])
    <3>1. /\ p \in 1..Len(events) /\ y.phase = "dispatch"
          /\ y.next <= Len(y.handlers)
          /\ y \in Event /\ Sound(y) /\ Settled(y)
          /\ base = [events EXCEPT ![p] = v] /\ consumed' = Count(consumed, l)
      BY <1>0, <1>4, <2>2, EventsSound DEF NextHandler
    <3>2. v \in Event /\ Settled(v)
      BY <3>1, AdvanceSound, TurnSteps DEF Sound
    <3>3. y.handlers[y.next] \in Handlers
      BY <3>1, EventFields
    <3>4. l \in Labels
      BY <3>3 DEF Labels, Label
    <3>5. consumed' \in [Labels -> Nat]
      BY <1>4, <3>1, <3>4, CountOne
    <3> HIDE DEF base
    <3>6. /\ OnlyChanges(events, base, p, v) /\ base \in Seq(Event)
          /\ Len(base) = Len(events)
      BY <1>0, <3>1, <3>2, OnlyOneChanges
    <3>7. \A f \in 1..Len(events) : Settled(base[f])
      BY <1>0, <1>4, <3>1, <3>2, <3>6 DEF OnlyChanges
    <3>8. Turn(events, p)
      BY <1>0, <3>1 DEF Turn
    <3>9. Agree(base, published, Count(consumed, l), failures)
      BY <1>4, <3>1, <3>6, <3>8, TurnCounted
    <3> QED BY <3>1, <3>5, <3>6, <3>7, <3>9
  <2> QED BY <2>1, <2>2
<1> HIDE DEF base
<1>7. Agree(events', published, consumed', failures)
  BY <1>1, <1>2, <1>5, <1>6, AgreeAppends
<1>8. \A f \in DOMAIN events' : Settled(events'[f])
  <2>1. /\ DOMAIN events' = 1..(Len(events) + 1)
        /\ events'[Len(events) + 1] = x
        /\ \A f \in 1..Len(events) : events'[f] = base[f]
    <3>1. /\ DOMAIN Append(base, x) = 1..(Len(base) + 1)
          /\ Append(base, x)[Len(base) + 1] = x
          /\ \A f \in 1..Len(base) : Append(base, x)[f] = base[f]
      BY <1>1, <1>6, AppendFacts
    <3>2. Len(base) = Len(events)
      BY <1>6
    <3> QED BY <1>5, <3>1, <3>2
  <2>2. \A f \in 1..(Len(events) + 1) :
          f \in 1..Len(events) \/ f = Len(events) + 1
    BY <1>0
  <2> QED BY <1>3, <1>6, <2>1, <2>2
<1> QED BY <1>4, <1>6, <1>7, <1>8 DEF CountInv

-----------------------------------------------------------------------------
(* The theorem about the counters                                           *)

\* Every step of a goroutine inside Publish keeps the counters right.
LEMMA CountStepKeeps ==
  ASSUME BusInv, CountInv, NEW g \in Goroutines, TracedStep(g)
  PROVE  CountInv'
<1> DEFINE e == call[g]
           x == events[e]
           l == Label(x.handlers[x.next])
<1>0. /\ e # 0 /\ e \in 1..Len(events) /\ x \in Event /\ Sound(x) /\ Settled(x)
      /\ events \in Seq(Event) /\ DOMAIN events = 1..Len(events)
      /\ published \in [Names -> Nat] /\ consumed \in [Labels -> Nat]
      /\ failures \in [Labels -> Nat]
      /\ Agree(events, published, consumed, failures)
  BY EventsSound DEF TracedStep, CountInv
<1>1. CASE TracedAppend(g, e)
  <2>1. x.phase = "append" /\ AppendRecord(g, e) /\ consumed' = consumed
    BY <1>1 DEF TracedAppend, AppendRecord
  <2>2. CASE events' = [events EXCEPT ![e].phase = "dispatch",
                                      ![e].status = "pending"]
    <3> DEFINE v == Recorded(x)
    <3>1. events' = [events EXCEPT ![e] = v]
      BY <1>0, <2>2, OneCallChanges
    <3>2. v \in Event /\ Settled(v) /\ v.phase = "dispatch" /\ x.name \in Names
      BY <1>0, <2>1, AdvanceSound, AdvanceFields, RecordStep, EventFields DEF Sound
    <3>3. events'[e] = v
      BY <1>0, <3>1, <3>2, TurnOne
    <3>4. published' = Count(published, x.name) /\ failures' = failures
      BY <1>1, <3>2, <3>3 DEF TracedAppend
    <3>5. published' \in [Names -> Nat]
      <4>1. Count(published, x.name) \in [Names -> Nat]
        BY <1>0, <3>2, CountOne
      <4> QED BY <3>4, <4>1
    <3>6. OnlyChanges(events, events', e, v)
      BY <1>0, <3>1, <3>2, OnlyOneChanges
    <3>7. Agree(events', published', consumed', failures')
      BY <1>0, <2>1, <3>4, <3>6, AgreeRecords
    <3> HIDE DEF v
    <3> QED BY <1>0, <2>1, <3>1, <3>2, <3>4, <3>5, <3>7, CountKept
  <2>3. CASE Return(g, e, "unrecorded", "error")
    <3>1. MayEnd(x, "unrecorded", "error")
      BY <2>1 DEF MayEnd
    <3>2. events'[e].phase = "returned"
      <4>1. ReturnsTo(g, "unrecorded", "error")
        BY <1>0, <2>3, <3>1, ReturnEffect
      <4> QED BY <1>0, <4>1 DEF ReturnsTo, Ended, Event
    <3>3. UNCHANGED counters
      BY <1>1, <3>2 DEF TracedAppend, counters
    <3> QED BY <1>0, <2>3, <3>1, <3>3, CountReturns
  <2> QED BY <2>1, <2>2, <2>3 DEF AppendRecord
<1>2. CASE TracedDelivery(e)
  <2>1. /\ x.phase = "dispatch" /\ x.next <= Len(x.handlers)
        /\ published' = published
    BY <1>2 DEF TracedDelivery, InjectConsumerFailure, Handle, HasNext
  <2>2. /\ Delivered(x) \in Event /\ DispatchError(x) \in Event
        /\ Injected(x) \in Event
    BY <1>0, <2>1, AdvanceSound, DeliveredSound DEF Sound
  <2>3. /\ Delivered(x).phase = "dispatch" /\ DispatchError(x).phase = "fail"
        /\ Injected(x).phase = "fail"
    BY <1>0, AdvanceFields
  <2>4. /\ Settled(Delivered(x)) /\ Settled(DispatchError(x)) /\ Settled(Injected(x))
        /\ x.handlers[x.next] \in Handlers
    BY <1>0, <2>1, TurnSteps
  <2>5. \E v \in {Delivered(x), DispatchError(x), Injected(x)} :
          events' = [events EXCEPT ![e] = v]
    BY <1>0, <1>2, OneCallChanges DEF TracedDelivery, InjectConsumerFailure, Handle
  <2>6. PICK v \in {Delivered(x), DispatchError(x), Injected(x)} :
          events' = [events EXCEPT ![e] = v]
    BY <2>5
  <2>7. v \in Event /\ Settled(v) /\ events'[e] = v
    <3>1. v \in Event /\ Settled(v)
      BY <2>2, <2>4
    <3> QED BY <1>0, <2>6, <3>1, TurnOne
  <2>8. /\ consumed' = Count(consumed, l)
        /\ failures' = IF v.phase = "fail" THEN Count(failures, l) ELSE failures
    BY <1>2, <2>7 DEF TracedDelivery, NextHandler
  <2>9. l \in Labels
    BY <2>4 DEF Labels, Label
  <2>10. OnlyChanges(events, events', e, v) /\ Turn(events, e)
    BY <1>0, <2>1, <2>6, <2>7, OnlyOneChanges DEF Turn
  <2>11. consumed' \in [Labels -> Nat] /\ failures' \in [Labels -> Nat]
    <3> HIDE DEF l
    <3>1. /\ Count(consumed, l) \in [Labels -> Nat]
          /\ Count(failures, l) \in [Labels -> Nat]
      BY <1>0, <2>9, CountOne
    <3> QED BY <1>0, <2>8, <3>1
  <2>12. Agree(events', published', consumed', failures')
    <3>1. CASE v = Delivered(x)
      <4>1. failures' = failures
        BY <2>3, <2>8, <3>1
      <4> QED BY <1>0, <2>1, <2>8, <2>10, <3>1, <4>1, TurnCounted
    <3>2. CASE v \in {DispatchError(x), Injected(x)}
      <4>1. failures' = Count(failures, l)
        BY <2>3, <2>8, <3>2
      <4> QED BY <1>0, <2>1, <2>8, <2>10, <3>2, <4>1, TurnCounted
    <3> QED BY <3>1, <3>2
  <2> QED BY <1>0, <2>1, <2>6, <2>7, <2>11, <2>12, CountKept
<1>3. CASE TracedHandlePublishes(g, e)
  <2>1. /\ HandlePublishes(g, e) /\ x.phase = "dispatch" /\ x.next <= Len(x.handlers)
        /\ Len(events) < MaxEvents
        /\ consumed' = Count(consumed, Label(NextHandler(e)))
        /\ UNCHANGED <<published, failures>>
    BY <1>3 DEF TracedHandlePublishes, HandlePublishes, HasNext
  <2>2. NextHandler(e) \in Handlers
    BY <1>0, <2>1, EventFields DEF NextHandler
  <2>3. PICK name \in Publishes[NextHandler(e)] :
          events' = Append([events EXCEPT ![e].phase = "handling"],
                           NewEvent(name, e))
    BY <2>1 DEF HandlePublishes
  <2>4. name \in Names /\ e \in 0..Len(events)
    BY <1>0, <2>2, BusAssumption
  <2>5. /\ events' = Append(IF e = 0 THEN events
                            ELSE [events EXCEPT ![e].phase = "handling"],
                            NewEvent(name, e))
        /\ consumed' = IF e = 0 THEN consumed
                       ELSE Count(consumed, Label(NextHandler(e)))
    BY <1>0, <2>1, <2>3
  <2> QED BY <2>1, <2>4, <2>5, CountAdds
<1>4. CASE TracedDispatched(e)
  <2>1. /\ x.phase = "dispatch" /\ ~(x.next <= Len(x.handlers))
        /\ UNCHANGED counters
    BY <1>4 DEF TracedDispatched, Dispatched, HasNext
  <2>2. \E v \in {Again(x), Through(x)} : events' = [events EXCEPT ![e] = v]
    BY <1>0, <1>4, OneCallChanges DEF TracedDispatched, Dispatched
  <2>3. PICK v \in {Again(x), Through(x)} : events' = [events EXCEPT ![e] = v]
    BY <2>2
  <2>4. SameTally(x, v) /\ Settled(v)
    BY <1>0, <2>1, QuietSteps
  <2>5. v \in Event
    <3>1. Through(x) \in Event
      BY <1>0, <2>1, AdvanceSound DEF Sound
    <3>2. Again(x) \in Event
      <4>1. 1 \in Nat \ {0} /\ TRUE \in BOOLEAN
        OBVIOUS
      <4>2. [x EXCEPT !.duplicated = TRUE] \in Event
        BY <1>0, <4>1 DEF Event
      <4>3. Again(x) = [[x EXCEPT !.duplicated = TRUE] EXCEPT !.next = 1]
        BY <1>0 DEF Again, Event
      <4> QED BY <4>1, <4>2, <4>3 DEF Event
    <3> QED BY <3>1, <3>2
  <2>6. OnlyChanges(events, events', e, v)
    BY <1>0, <2>3, <2>5, OnlyOneChanges
  <2>7. Agree(events', published, consumed, failures)
    BY <1>0, <2>4, <2>5, <2>6, AgreeQuiet
  <2>8. published' = published /\ consumed' = consumed /\ failures' = failures
    BY <2>1 DEF counters
  <2> QED BY <1>0, <2>3, <2>4, <2>5, <2>7, <2>8, CountKept
<1>5. CASE TracedMark(g, e)
  <2>1. UNCHANGED counters
    BY <1>5 DEF TracedMark
  <2>2. PICK status, answer : /\ MayEnd(x, status, answer)
                              /\ Return(g, e, status, answer)
    BY <1>5 DEF TracedMark, MarkProcessed, HandleDispatchFailure, MayEnd
  <2> QED BY <1>0, <2>1, <2>2, CountReturns
<1>6. CASE TracedHandlerReturns(e)
  <2>1. /\ HandlerReturns(e) /\ x.phase \in {"resumed", "refused"}
        /\ published' = published /\ consumed' = consumed
    BY <1>6 DEF TracedHandlerReturns, HandlerReturns
  <2>2. x.next <= Len(x.handlers)
    BY <1>0, <2>1 DEF Sound, Standing, InHandler
  <2>3. /\ Settled(Delivered(x)) /\ Settled(DispatchError(x))
        /\ x.handlers[x.next] \in Handlers
    BY <1>0, <2>1, <2>2, TurnSteps
  <2>4. l \in Labels
    BY <2>3 DEF Labels, Label
  <2>5. PICK v : /\ \/ x.phase = "resumed" /\ v = Delivered(x)
                    \/ v = DispatchError(x)
                 /\ events' = [events EXCEPT ![e] = v]
    BY <2>1 DEF HandlerReturns
  <2>6. v \in Event /\ Settled(v)
    <3>1. /\ x.phase = "resumed" => Delivered(x) \in Event
          /\ DispatchError(x) \in Event
      BY <1>0, <2>1, <2>2, AdvanceSound, DeliveredSound DEF Sound
    <3> QED BY <2>3, <2>5, <3>1
  <2>7. events'[e] = v
    BY <1>0, <2>5, <2>6, TurnOne
  <2>8. failures' = IF v.phase = "fail" THEN Count(failures, l) ELSE failures
    BY <1>6, <2>7 DEF TracedHandlerReturns, NextHandler
  <2>9. Delivered(x).phase = "dispatch" /\ DispatchError(x).phase = "fail"
    BY <1>0, AdvanceFields
  <2>10. OnlyChanges(events, events', e, v) /\ Turn(events, e)
    BY <1>0, <2>1, <2>2, <2>5, <2>6, OnlyOneChanges DEF Turn
  <2>11. failures' \in [Labels -> Nat]
    <3> HIDE DEF l
    <3>1. Count(failures, l) \in [Labels -> Nat]
      BY <1>0, <2>4, CountOne
    <3> QED BY <1>0, <2>8, <3>1
  <2>12. Agree(events', published, consumed, failures')
    <3>1. CASE x.phase = "resumed" /\ v = Delivered(x)
      <4>1. failures' = failures
        BY <2>8, <2>9, <3>1
      <4> QED BY <1>0, <2>10, <3>1, <4>1, TurnCounted
    <3>2. CASE v = DispatchError(x)
      <4>1. failures' = Count(failures, l) /\ x.phase # "dispatch"
        BY <2>1, <2>8, <2>9, <3>2
      <4> QED BY <1>0, <2>10, <3>2, <4>1, TurnCounted
    <3> QED BY <2>5, <3>1, <3>2
  <2> QED BY <1>0, <2>1, <2>5, <2>6, <2>11, <2>12, CountKept
<1> QED BY <1>1, <1>2, <1>3, <1>4, <1>5, <1>6 DEF TracedStep

\* So does every other step.
LEMMA CountNextKeeps == BusInv /\ CountInv /\ [TracedNext]_tracedVars => CountInv'
<1> SUFFICES ASSUME BusInv, CountInv, [TracedNext]_tracedVars PROVE CountInv'
  OBVIOUS
<1>1. ASSUME NEW g \in Goroutines, TracedStep(g) PROVE CountInv'
  BY <1>1, CountStepKeeps
<1>2. ASSUME NEW g \in Goroutines, NEW name \in TopNames, TracedPublish(g, name)
      PROVE  CountInv'
  <2>1. /\ events' = Append(IF 0 = 0 THEN events
                            ELSE [events EXCEPT ![0].phase = "handling"],
                            NewEvent(name, 0))
        /\ Len(events) < MaxEvents
        /\ consumed' = IF 0 = 0 THEN consumed
                       ELSE Count(consumed, Label(NextHandler(0)))
        /\ UNCHANGED <<published, failures>>
    BY <1>2 DEF TracedPublish, Publish, counters
  <2>2. name \in Names /\ 0 \in 0..Len(events)
    BY BusAssumption, EventsSound
  <2> QED BY <2>1, <2>2, CountAdds
<1>3. CASE \/ \E h \in Handlers : TracedSubscribe(h)
           \/ Quiescent /\ UNCHANGED <<spans, counters>>
           \/ UNCHANGED tracedVars
  <2>1. events' = events /\ UNCHANGED counters
    BY <1>3 DEF TracedSubscribe, Subscribe, Quiescent, vars, tracedVars
  <2> QED BY <2>1 DEF CountInv, counters
<1> QED BY <1>1, <1>2, <1>3 DEF TracedNext

\* Before anything is published all counters are zero.
LEMMA InitCounts == TracedInit => CountInv
<1> SUFFICES ASSUME TracedInit PROVE CountInv
  OBVIOUS
<1>1. /\ events = <<>> /\ DOMAIN events = {}
      /\ published = [name \in Names |-> 0]
      /\ consumed = [label \in Labels |-> 0] /\ failures = [label \in Labels |-> 0]
  BY DEF TracedInit, Init
<1>2. \A z : /\ RecordSet(events, z) = {} /\ StopSet(events, z) = {}
             /\ WaitSet(events, z) = {} /\ DeliverySet(events, z) = {}
  BY <1>1 DEF RecordSet, StopSet, WaitSet, DeliverySet
<1>3. Agree(events, published, consumed, failures)
  <2>1. /\ \A name \in Names : published[name] = 0
        /\ \A label \in Labels : consumed[label] = 0 /\ failures[label] = 0
    BY <1>1
  <2>2. IsFiniteSet({}) /\ Cardinality({}) = 0 /\ 0 = 0 + 0 + 0
    BY FS_EmptySet
  <2> QED BY <1>2, <2>1, <2>2 DEF Agree
<1> QED BY <1>1, <1>3 DEF CountInv

\* The counters count exactly the calls that stand where they say.
THEOREM CountInvariant == TracedSpec => [](BusInv /\ CountInv)
<1>1. TracedInit => BusInv /\ CountInv
  BY InitBus, InitCounts DEF TracedInit
<1>2. BusInv /\ CountInv /\ [TracedNext]_tracedVars => (BusInv /\ CountInv)'
  BY TracedStepIsStep, NextKeeps, CountNextKeeps
<1> QED BY <1>1, <1>2, PTL DEF TracedSpec

\* However goroutines, nested publications and faults interleave, the three
\* counters agree with the bus at every moment: no publication, delivery or
\* failure is counted twice, early or not at all.
THEOREM CountersAgreeHolds == TracedSpec => []CountersAgree
<1>1. BusInv /\ CountInv => CountersAgree
  <2> SUFFICES ASSUME CountInv PROVE CountersAgree
    OBVIOUS
  <2>1. \A name : RecordSet(events, name) =
          {e \in DOMAIN events :
             events[e].name = name /\ events[e].status # "unrecorded"}
    BY DEF RecordSet, OnRecord
  <2>2. \A label : Stopped(label) = Cardinality(StopSet(events, label))
    BY DEF Stopped, StopSet, StoppedAt
  <2>3. \A label : Deliveries(label) = Cardinality(DeliverySet(events, label))
    BY DEF Deliveries, DeliverySet
  <2>4. \A label : WaitSet(events, label) =
          {e \in DOMAIN events :
             HandlerRuns(e) /\ Label(NextHandler(e)) = label}
    BY DEF WaitSet, WaitsFor, HandlerRuns, InHandler, NextHandler
  <2>5. \A name \in Names : published[name] = Cardinality(RecordSet(events, name))
    BY DEF CountInv, Agree
  <2>6. \A label \in Labels :
          /\ failures[label] = Stopped(label)
          /\ consumed[label] = Deliveries(label) + failures[label]
               + Cardinality(WaitSet(events, label))
    BY <2>2, <2>3 DEF CountInv, Agree
  <2> QED BY <2>1, <2>4, <2>5, <2>6 DEF CountersAgree
<1> QED BY <1>1, CountInvariant, PTL
=============================================================================
