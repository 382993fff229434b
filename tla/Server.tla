------------------------------- MODULE Server -------------------------------
(***************************************************************************)
(* The life of the API process: run of cmd/api/main.go from its first line *)
(* to the last deferred call, the goroutine of ListenAndServe, the signal, *)
(* and the requests that are being served meanwhile.                       *)
(*                                                                         *)
(* A request is a number of statements, each on a connection of the pool;  *)
(* a payment transaction is one such statement.  What the statements do is *)
(* the subject of PaymentFlow; here they are begun, ended or refused.      *)
(***************************************************************************)
EXTENDS Naturals

CONSTANTS
  Requests,    \* the requests clients send, each at most once
  Statements   \* how often a request takes a connection

ASSUME ServerAssumption == Statements \in Nat \ {0}

VARIABLES
  phase,      \* where run is
  signalled,  \* SIGINT or SIGTERM came: the context of run is cancelled
  opened,     \* what run holds and has not closed: "meter", "tracer", "pool"
  closing,    \* db.Close was called: the pool hands out no connection
  listener,   \* the goroutine of ListenAndServe
  errCh,      \* the buffered channel of one error
  result,     \* what run returns: "nil" or "error"
  request,    \* the state of each request
  left        \* the statements each request has still to execute

mainVars == <<phase, opened, closing, result>>
serving == <<listener, errCh>>
work == <<request, left>>
vars == <<mainVars, signalled, serving, work>>

Startup == {"config", "logger", "telemetry", "pool", "ping", "serve"}
Phases ==
  Startup \cup {"select", "shutdown", "closePool", "shutdownMeter",
                "shutdownTracer", "exited"}

Active(r) == request[r] \in {"running", "query"}

-----------------------------------------------------------------------------
(* Start-up: every error returns through the calls deferred so far.         *)

\* The deferred call that runs first; that of the pool is not registered yet.
Unwind ==
  IF "meter" \in opened THEN "shutdownMeter" ELSE "exited"

Fail == phase' = Unwind /\ result' = "error" /\ UNCHANGED <<opened, closing>>

\* config.Load and logging.New open nothing.
Prepare(step, next) ==
  /\ phase = step
  /\ \/ phase' = next /\ UNCHANGED <<opened, closing, result>>
     \/ Fail
  /\ UNCHANGED <<signalled, serving, work>>

LoadConfig == Prepare("config", "logger")
NewLogger == Prepare("logger", "telemetry")

\* When New fails, run gets no provider to shut down.
NewTelemetry ==
  /\ phase = "telemetry"
  /\ \/ /\ opened' = {"meter", "tracer"}
        /\ phase' = "pool"
        /\ UNCHANGED <<closing, result>>
     \/ Fail
  /\ UNCHANGED <<signalled, serving, work>>

\* ParseConfig and NewWithConfig.
OpenPool ==
  /\ phase = "pool"
  /\ \/ /\ opened' = opened \cup {"pool"}
        /\ phase' = "ping"
        /\ UNCHANGED <<closing, result>>
     \/ Fail
  /\ UNCHANGED <<signalled, serving, work>>

\* Wrong variant: a failed Ping returns without closing the pool; db.Close is
\* deferred only after Open succeeded.
PingLeaks ==
  /\ phase = "ping"
  /\ \/ ~signalled /\ phase' = "serve" /\ UNCHANGED <<opened, closing, result>>
     \/ /\ phase' = "shutdownMeter"
        /\ result' = "error"
        /\ UNCHANGED <<opened, closing>>
  /\ UNCHANGED <<signalled, serving, work>>

\* Ping runs under the context of run: after the signal it can only fail.  Open
\* then closes the pool it created; no connection is out.
Ping ==
  /\ phase = "ping"
  /\ \/ ~signalled /\ phase' = "serve" /\ UNCHANGED <<opened, closing, result>>
     \/ /\ opened' = opened \ {"pool"}
        /\ phase' = "shutdownMeter"
        /\ result' = "error"
        /\ UNCHANGED closing
  /\ UNCHANGED <<signalled, serving, work>>

\* The modules are wired and the goroutine of the listener starts.
Serve ==
  /\ phase = "serve"
  /\ phase' = "select"
  /\ listener' = "starting"
  /\ UNCHANGED <<opened, closing, result, signalled, errCh, work>>

-----------------------------------------------------------------------------
(* The goroutine of ListenAndServe                                          *)

\* Wrong variant: the goroutine logs its error and does not send it.
ListenErrorDropped ==
  /\ listener = "starting"
  /\ listener' \in {"serving", "failed"}
  /\ UNCHANGED <<mainVars, signalled, errCh, work>>

Listen ==
  /\ listener = "starting"
  /\ \/ listener' = "serving" /\ UNCHANGED errCh
     \/ listener' = "failed" /\ errCh' = "error"       \* the port is taken
  /\ UNCHANGED <<mainVars, signalled, work>>

AcceptFails ==
  /\ listener = "serving"
  /\ listener' = "failed"
  /\ errCh' = "error"
  /\ UNCHANGED <<mainVars, signalled, work>>

-----------------------------------------------------------------------------
(* select, and the graceful shutdown                                        *)

Signal ==
  /\ ~signalled
  /\ phase # "exited"
  /\ signalled' = TRUE
  /\ UNCHANGED <<mainVars, serving, work>>

SelectError ==
  /\ phase = "select"
  /\ errCh # "empty"
  /\ errCh' = "empty"
  /\ result' = IF errCh = "ErrServerClosed" THEN "nil" ELSE "error"
  /\ phase' = "closePool"
  /\ UNCHANGED <<opened, closing, signalled, listener, work>>

\* Shutdown closes the listener: ListenAndServe returns ErrServerClosed, also
\* when it has not started to listen yet.  The channel has room for it.
SelectDone ==
  /\ phase = "select"
  /\ signalled
  /\ phase' = "shutdown"
  /\ listener' = "closed"
  /\ errCh' = IF errCh = "empty" THEN "ErrServerClosed" ELSE errCh
  /\ UNCHANGED <<opened, closing, result, signalled, work>>

\* Wrong variant: server.Close instead of server.Shutdown.
ShutdownDoesNotWait ==
  /\ phase = "shutdown"
  /\ result' = "nil"
  /\ phase' = "closePool"
  /\ UNCHANGED <<opened, closing, signalled, serving, work>>

\* Shutdown returns when every request was answered or after ten seconds.
Shutdown ==
  /\ phase = "shutdown"
  /\ \/ (\A r \in Requests : ~Active(r)) /\ result' = "nil"
     \/ (\E r \in Requests : Active(r)) /\ result' = "error"
  /\ phase' = "closePool"
  /\ UNCHANGED <<opened, closing, signalled, serving, work>>

-----------------------------------------------------------------------------
(* The deferred calls                                                       *)

BeginClose ==
  /\ phase = "closePool"
  /\ ~closing
  /\ closing' = TRUE
  /\ UNCHANGED <<phase, opened, result, signalled, serving, work>>

\* Wrong variant: closing the pool does not wait for its connections.
ReturnedAtOnce == TRUE

\* pgxpool.Close waits, without a timeout, until every connection is returned.
AllReturned == \A r \in Requests : request[r] # "query"

ClosePool ==
  /\ phase = "closePool"
  /\ closing
  /\ AllReturned
  /\ opened' = opened \ {"pool"}
  /\ phase' = "shutdownMeter"
  /\ UNCHANGED <<closing, result, signalled, serving, work>>

\* An error of the meter provider does not keep the tracer provider open, and
\* neither changes what run returns.
ShutdownMeter ==
  /\ phase = "shutdownMeter"
  /\ opened' = opened \ {"meter"}
  /\ phase' = "shutdownTracer"
  /\ UNCHANGED <<closing, result, signalled, serving, work>>

\* After the last deferred call main exits, and every goroutine with it.
ShutdownTracer ==
  /\ phase = "shutdownTracer"
  /\ opened' = opened \ {"tracer"}
  /\ phase' = "exited"
  /\ request' = [r \in Requests |-> IF Active(r) THEN "cut" ELSE request[r]]
  /\ UNCHANGED <<closing, result, signalled, serving, left>>

-----------------------------------------------------------------------------
(* Requests                                                                 *)

\* A request comes on a new connection, or on one that is kept alive although
\* the listener failed.  Shutdown ends both.
Accept(r) ==
  /\ \/ listener = "serving"
     \/ listener = "failed" /\ \E s \in Requests : request[s] # "new"
  /\ phase # "exited"
  /\ request[r] = "new"
  /\ request' = [request EXCEPT ![r] = "running"]
  /\ UNCHANGED <<mainVars, signalled, serving, left>>

\* Acquire: a closing pool refuses, and the request fails.
Acquire(r) ==
  /\ request[r] = "running"
  /\ phase # "exited"
  /\ left[r] > 0
  /\ request' = [request EXCEPT ![r] = IF closing THEN "failed" ELSE "query"]
  /\ UNCHANGED <<mainVars, signalled, serving, left>>

Release(r) ==
  /\ request[r] = "query"
  /\ phase # "exited"
  /\ request' = [request EXCEPT ![r] = "running"]
  /\ left' = [left EXCEPT ![r] = @ - 1]
  /\ UNCHANGED <<mainVars, signalled, serving>>

Answer(r) ==
  /\ request[r] = "running"
  /\ phase # "exited"
  /\ left[r] = 0
  /\ request' = [request EXCEPT ![r] = "answered"]
  /\ UNCHANGED <<mainVars, signalled, serving, left>>

-----------------------------------------------------------------------------
Init ==
  /\ phase = "config"
  /\ signalled = FALSE
  /\ opened = {}
  /\ closing = FALSE
  /\ listener = "off"
  /\ errCh = "empty"
  /\ result = "none"
  /\ request = [r \in Requests |-> "new"]
  /\ left = [r \in Requests |-> Statements]

\* The goroutine of main.
Main ==
  \/ LoadConfig
  \/ NewLogger
  \/ NewTelemetry
  \/ OpenPool
  \/ Ping
  \/ Serve
  \/ SelectError
  \/ SelectDone
  \/ Shutdown
  \/ BeginClose
  \/ ClosePool
  \/ ShutdownMeter
  \/ ShutdownTracer

Work(r) == Acquire(r) \/ Release(r) \/ Answer(r)

Exited == phase = "exited" /\ UNCHANGED vars

Next ==
  \/ Main
  \/ Listen
  \/ AcceptFails
  \/ Signal
  \/ \E r \in Requests : Accept(r) \/ Work(r)
  \/ Exited

Spec == Init /\ [][Next]_vars

\* main keeps running; a request that was accepted keeps running, because its
\* gateway call is bounded and PooledFlow shows that its lock waits end.
FairSpec ==
  Spec /\ WF_vars(Main) /\ WF_vars(Listen)
       /\ \A r \in Requests : WF_vars(Work(r))

-----------------------------------------------------------------------------
(* Properties                                                               *)

\* Every variable holds a value of its kind.
TypeOK ==
  /\ phase \in Phases
  /\ signalled \in BOOLEAN
  /\ opened \subseteq {"meter", "tracer", "pool"}
  /\ closing \in BOOLEAN
  /\ listener \in {"off", "starting", "serving", "failed", "closed"}
  /\ errCh \in {"empty", "error", "ErrServerClosed"}
  /\ result \in {"none", "nil", "error"}
  /\ request \in
       [Requests -> {"new", "running", "query", "failed", "answered", "cut"}]
  /\ left \in [Requests -> 0..Statements]

\* Whichever step of the start-up fails and whenever the signal comes, the
\* process exits with everything closed, and telemetry outlives the pool: the
\* query tracer of an open connection never reports to a provider that is gone.
ClosedInOrder ==
  /\ phase = "exited" => opened = {}
  /\ "pool" \in opened => {"meter", "tracer"} \subseteq opened
  /\ \A r \in Requests : request[r] = "query" => "pool" \in opened

\* The process returns nil only after the signal and only when every request it
\* accepted was answered in full: a request that was cut off or met a closed
\* pool always shows in the exit code.
NilMeansGraceful ==
  result = "nil" =>
    signalled /\ \A r \in Requests : request[r] \in {"new", "answered"}

\* A stop never cuts a transaction, even after the ten seconds of Shutdown are
\* over or when the listener failed: whoever holds a connection ends its
\* statement before the process exits.  Only a crash leaves one to a rollback.
NoTransactionCut ==
  [][\A r \in Requests : request[r] = "query" => request'[r] # "cut"]_vars

\* A signal at any time, the start-up included, ends the process, and a listener
\* that fails does not leave one that serves nobody.
ProcessEnds == signalled \/ listener = "failed" ~> phase = "exited"
=============================================================================
