--------------------------- MODULE Server_proofs ---------------------------
(* Proofs about Server, for any number of requests and of statements.       *)
EXTENDS Server, TLAPS

-----------------------------------------------------------------------------
(* The inductive invariant                                                  *)

Unopened == {"config", "logger", "telemetry"}
PoolOpen == {"ping", "serve", "select", "shutdown", "closePool"}
PoolGone == {"shutdownMeter", "shutdownTracer", "exited"}

\* What run holds is determined by where it is.
Held ==
  /\ phase \in Unopened \cup {"exited"} => opened = {}
  /\ phase \in {"pool", "shutdownMeter"} => opened = {"meter", "tracer"}
  /\ phase \in PoolOpen => opened = {"meter", "tracer", "pool"}
  /\ phase = "shutdownTracer" => opened = {"tracer"}

\* The pool is closed only once run stopped serving, and when a process that
\* served is past that point, nobody holds or gets a connection any more.
Closed ==
  /\ closing => phase \in {"closePool"} \cup PoolGone
  /\ listener # "off" /\ phase \in PoolGone =>
       closing /\ \A r \in Requests : request[r] # "query"

\* Requests come only through the listener, which starts last.
Unserved ==
  /\ phase \in Startup => listener = "off"
  /\ listener = "off" => \A r \in Requests : request[r] = "new"

\* A request takes a connection only for a statement it has still to execute.
Remaining == \A r \in Requests : request[r] = "query" => left[r] > 0

\* What a request that was not answered says about the process.
Casualties ==
  \A r \in Requests :
    /\ request[r] = "failed" => closing
    /\ request[r] = "cut" => phase = "exited"

\* ErrServerClosed is sent by the shutdown the signal started, and nil returned.
Graceful ==
  /\ phase \in Startup \cup {"select"} =>
       errCh # "ErrServerClosed" /\ result # "nil"
  /\ phase = "shutdown" => signalled /\ listener = "closed" /\ result # "nil"
  /\ result = "nil" =>
       /\ signalled /\ listener = "closed"
       /\ \A r \in Requests : request[r] \in {"new", "answered"}

SInv ==
  TypeOK /\ Held /\ Closed /\ Unserved /\ Remaining /\ Casualties /\ Graceful

\* Nothing is open before the first step.
LEMMA InitSInv == Init => SInv
<1> SUFFICES ASSUME Init PROVE SInv
  OBVIOUS
<1>1. TypeOK
  <2>1. Statements \in 0..Statements
    BY ServerAssumption
  <2>2. left \in [Requests -> 0..Statements]
    BY <2>1 DEF Init
  <2> QED BY <2>2 DEF Init, TypeOK, Phases, Startup
<1>2. Held /\ Closed /\ Unserved
  BY DEF Init, Held, Closed, Unserved, Unopened, PoolOpen, PoolGone
<1>3. Remaining /\ Casualties /\ Graceful
  BY DEF Init, Remaining, Casualties, Graceful
<1> QED BY <1>1, <1>2, <1>3 DEF SInv

\* A step of the start-up, and the error return of any of them.
LEMMA StartupInv ==
  ASSUME SInv, LoadConfig \/ NewLogger \/ NewTelemetry \/ OpenPool \/ Ping \/ Serve
  PROVE  SInv'
<1>1. TypeOK'
  BY DEF SInv, TypeOK, Phases, Startup, LoadConfig, NewLogger, Prepare,
       NewTelemetry, OpenPool, Ping, Serve, Fail, Unwind, serving, work
<1>2. Held'
  BY DEF SInv, TypeOK, Held, Unopened, PoolOpen, Phases, Startup, LoadConfig,
       NewLogger, Prepare, NewTelemetry, OpenPool, Ping, Serve, Fail, Unwind
<1>3. Closed' /\ Unserved' /\ Remaining' /\ Casualties'
  BY DEF SInv, TypeOK, Closed, Unserved, Remaining, Casualties, PoolGone, Startup,
       LoadConfig, NewLogger, Prepare, NewTelemetry, OpenPool, Ping, Serve,
       Fail, Unwind, serving, work
<1>4. Graceful'
  BY DEF SInv, TypeOK, Graceful, Startup, LoadConfig, NewLogger, Prepare,
       NewTelemetry, OpenPool, Ping, Serve, Fail, Unwind, serving, work
<1> QED BY <1>1, <1>2, <1>3, <1>4 DEF SInv

\* The goroutine of the listener, and the signal.
LEMMA ListenerInv ==
  ASSUME SInv, Listen \/ AcceptFails \/ Signal
  PROVE  SInv'
<1>1. TypeOK' /\ Held'
  <2>1. Held'
    BY DEF SInv, Held, Listen, AcceptFails, Signal, mainVars
  <2>2. CASE Listen \/ AcceptFails
    BY <2>1, <2>2 DEF SInv, TypeOK, Listen, AcceptFails, mainVars, work
  <2>3. CASE Signal
    BY <2>1, <2>3 DEF SInv, TypeOK, Signal, mainVars, serving, work
  <2> QED BY <2>1, <2>2, <2>3
<1>2. Closed' /\ Unserved' /\ Remaining' /\ Casualties'
  BY DEF SInv, TypeOK, Closed, Unserved, Remaining, Casualties, Listen, AcceptFails,
       Signal, mainVars, serving, work
<1>3. Graceful'
  BY DEF SInv, TypeOK, Graceful, Listen, AcceptFails, Signal, mainVars, serving,
       work
<1> QED BY <1>1, <1>2, <1>3 DEF SInv

\* The select and the graceful shutdown.
LEMMA StopInv ==
  ASSUME SInv, SelectError \/ SelectDone \/ Shutdown
  PROVE  SInv'
<1>1. TypeOK' /\ Held'
  BY DEF SInv, TypeOK, Held, Unopened, PoolOpen, Phases, Startup, SelectError,
       SelectDone, Shutdown, serving, work
<1>2. Closed' /\ Unserved' /\ Remaining' /\ Casualties'
  BY DEF SInv, TypeOK, Closed, Unserved, Remaining, Casualties, PoolGone, Startup,
       SelectError, SelectDone, Shutdown, serving, work
<1>3. Graceful'
  <2>1. CASE SelectError \/ SelectDone
    BY <2>1 DEF SInv, TypeOK, Graceful, Startup, SelectError, SelectDone, work
  <2>2. CASE Shutdown
    <3>1. ~closing
      BY <2>2 DEF SInv, Closed, PoolGone, Shutdown
    <3>2. \A r \in Requests : ~Active(r) => request[r] \in {"new", "answered"}
      BY <2>2, <3>1 DEF SInv, TypeOK, Casualties, Active, Shutdown
    <3> QED BY <2>2, <3>2 DEF SInv, TypeOK, Graceful, Startup, Shutdown, serving,
              work
  <2> QED BY <2>1, <2>2
<1> QED BY <1>1, <1>2, <1>3 DEF SInv

\* The deferred calls.
LEMMA DeferredInv ==
  ASSUME SInv, BeginClose \/ ClosePool \/ ShutdownMeter \/ ShutdownTracer
  PROVE  SInv'
<1>1. TypeOK' /\ Held'
  <2>1. Held'
    BY DEF SInv, Held, Unopened, PoolOpen, BeginClose, ClosePool, ShutdownMeter,
         ShutdownTracer
  <2>2. CASE BeginClose \/ ClosePool \/ ShutdownMeter
    BY <2>1, <2>2 DEF SInv, TypeOK, Phases, BeginClose, ClosePool, ShutdownMeter,
         serving, work
  <2>3. CASE ShutdownTracer
    BY <2>1, <2>3 DEF SInv, TypeOK, Phases, ShutdownTracer, Active, serving, work
  <2> QED BY <2>1, <2>2, <2>3
<1>2. Closed'
  BY DEF SInv, TypeOK, Closed, Unserved, PoolGone, Startup, BeginClose,
       ClosePool, AllReturned, ShutdownMeter, ShutdownTracer, Active, serving,
       work
<1>3. Unserved' /\ Remaining' /\ Casualties'
  BY DEF SInv, TypeOK, Closed, Unserved, Remaining, Casualties, PoolGone, Startup,
       BeginClose, ClosePool, ShutdownMeter, ShutdownTracer, Active, serving, work
<1>4. Graceful'
  BY DEF SInv, TypeOK, Graceful, Startup, BeginClose, ClosePool, ShutdownMeter,
       ShutdownTracer, Active, serving, work
<1> QED BY <1>1, <1>2, <1>3, <1>4 DEF SInv

\* The requests.
LEMMA RequestInv ==
  ASSUME SInv, NEW r \in Requests, Accept(r) \/ Work(r)
  PROVE  SInv'
<1>1. TypeOK' /\ Held'
  <2>1. left' \in [Requests -> 0..Statements]
    <3>1. CASE Release(r)
      <4>1. left[r] - 1 \in 0..Statements
        BY <3>1, ServerAssumption DEF SInv, TypeOK, Remaining, Release
      <4> QED BY <3>1, <4>1 DEF SInv, TypeOK, Release
    <3>2. CASE ~Release(r)
      BY <3>2 DEF SInv, TypeOK, Accept, Work, Acquire, Answer
    <3> QED BY <3>1, <3>2
  <2>2. request' \in
          [Requests -> {"new", "running", "query", "failed", "answered", "cut"}]
    BY DEF SInv, TypeOK, Accept, Work, Acquire, Release, Answer
  <2>3. UNCHANGED <<phase, opened, closing, result, signalled, listener, errCh>>
    BY DEF Accept, Work, Acquire, Release, Answer, mainVars, serving
  <2> QED BY <2>1, <2>2, <2>3 DEF SInv, TypeOK, Held
<1>2. Closed' /\ Unserved' /\ Remaining' /\ Casualties'
  BY DEF SInv, TypeOK, Closed, Unserved, Remaining, Casualties, PoolGone, Accept, Work,
       Acquire, Release, Answer, mainVars, serving
<1>3. Graceful'
  BY DEF SInv, TypeOK, Graceful, Accept, Work, Acquire, Release, Answer,
       mainVars, serving
<1> QED BY <1>1, <1>2, <1>3 DEF SInv

\* Every step preserves the invariant.
LEMMA NextSInv == SInv /\ [Next]_vars => SInv'
<1> SUFFICES ASSUME SInv, [Next]_vars PROVE SInv'
  OBVIOUS
<1>1. CASE Main
  BY <1>1, StartupInv, StopInv, DeferredInv DEF Main
<1>2. CASE Listen \/ AcceptFails \/ Signal
  BY <1>2, ListenerInv
<1>3. ASSUME NEW r \in Requests, Accept(r) \/ Work(r) PROVE SInv'
  BY <1>3, RequestInv
<1>4. CASE Exited \/ UNCHANGED vars
  <2>1. UNCHANGED <<phase, opened, closing, result, signalled, listener, errCh,
                    request, left>>
    BY <1>4 DEF Exited, vars, mainVars, serving, work
  <2>2. TypeOK' /\ Held' /\ Closed'
    BY <2>1 DEF SInv, TypeOK, Held, Closed
  <2>3. Unserved' /\ Remaining' /\ Casualties' /\ Graceful'
    BY <2>1 DEF SInv, Unserved, Remaining, Casualties, Graceful
  <2> QED BY <2>2, <2>3 DEF SInv
<1> QED BY <1>1, <1>2, <1>3, <1>4 DEF Next

-----------------------------------------------------------------------------
(* The theorems                                                             *)

\* The inductive invariant holds in every reachable state.
THEOREM ServerInvariant == Spec => []SInv
<1>1. Init => SInv
  BY InitSInv
<1>2. SInv /\ [Next]_vars => SInv'
  BY NextSInv
<1> QED BY <1>1, <1>2, PTL DEF Spec

\* Every variable of the process keeps its type.
THEOREM ServerTypeCorrect == Spec => []TypeOK
<1>1. SInv => TypeOK
  BY DEF SInv
<1> QED BY <1>1, ServerInvariant, PTL

\* However the start-up, the signal, the listener and the requests interleave,
\* the deferred calls close what was opened, and the pool before telemetry.
THEOREM ClosedInOrderHolds == Spec => []ClosedInOrder
<1>1. SInv => ClosedInOrder
  <2> SUFFICES ASSUME SInv PROVE ClosedInOrder
    OBVIOUS
  <2>1. phase = "exited" => opened = {}
    BY DEF SInv, Held
  <2>2. "pool" \in opened => {"meter", "tracer"} \subseteq opened
    BY DEF SInv, TypeOK, Held, Phases, Startup, Unopened, PoolOpen
  <2>3. \A r \in Requests : request[r] = "query" => "pool" \in opened
    BY DEF SInv, TypeOK, Held, Closed, Unserved, Phases, Startup, Unopened,
         PoolOpen, PoolGone
  <2> QED BY <2>1, <2>2, <2>3 DEF ClosedInOrder
<1> QED BY <1>1, ServerInvariant, PTL

\* run returns nil only after the signal and when every request it accepted was
\* answered in full, for any number of requests in flight.
THEOREM NilMeansGracefulHolds == Spec => []NilMeansGraceful
<1>1. SInv => NilMeansGraceful
  BY DEF SInv, Graceful, NilMeansGraceful
<1> QED BY <1>1, ServerInvariant, PTL

\* The exit cuts no request that holds a connection.
THEOREM NoTransactionCutHolds == Spec => NoTransactionCut
<1> DEFINE Spared == \A r \in Requests : request[r] = "query" => request'[r] # "cut"
<1>1. ASSUME SInv, [Next]_vars PROVE Spared
  <2>1. CASE ShutdownTracer
    BY <1>1, <2>1 DEF SInv, Closed, Unserved, PoolGone, ShutdownTracer
  <2>2. CASE Main /\ ~ShutdownTracer
    BY <2>2 DEF Main, LoadConfig, NewLogger, Prepare, NewTelemetry, OpenPool,
         Ping, Serve, SelectError, SelectDone, Shutdown, BeginClose, ClosePool,
         ShutdownMeter, work
  <2>3. CASE Listen \/ AcceptFails \/ Signal
    BY <2>3 DEF Listen, AcceptFails, Signal, work
  <2>4. ASSUME NEW r \in Requests, Accept(r) \/ Work(r) PROVE Spared
    BY <1>1, <2>4 DEF SInv, TypeOK, Accept, Work, Acquire, Release, Answer
  <2>5. CASE Exited \/ UNCHANGED vars
    BY <2>5 DEF Exited, vars, work
  <2> QED BY <1>1, <2>1, <2>2, <2>3, <2>4, <2>5 DEF Next
<1>2. SInv /\ [Next]_vars => [Spared]_vars
  BY <1>1
<1> QED BY <1>2, ServerInvariant, PTL DEF Spec, NoTransactionCut
=============================================================================
