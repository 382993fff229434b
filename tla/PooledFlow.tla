----------------------------- MODULE PooledFlow -----------------------------
(***************************************************************************)
(* PaymentFlow on the connection pool of pgxpool.  A transaction takes one *)
(* connection from BeginTx to the end of Commit or Rollback, the waits for *)
(* row locks and for the gateway included, and every repository and the    *)
(* recorder reuse it through ExecutorFromContext.  A statement outside a   *)
(* transaction borrows a connection for as long as it runs.  Whoever finds *)
(* none free waits, without a timeout of its own.                          *)
(***************************************************************************)
EXTENDS PaymentFlow, FiniteSets

CONSTANT
  PoolSizes   \* how many connections the pool may have been opened with

ASSUME PoolAssumption == PoolSizes \subseteq Nat \ {0}

VARIABLES
  poolSize,   \* MaxConns of the pool
  held        \* the requests whose transaction holds a connection

pool == <<poolSize, held>>
pooledVars == <<vars, pool>>

\* The steps that call no database.
OffPool == {"dispatchBillingRequested", "afterDispatch"}
InTransaction == TxStatements \cup {"callGateway", "rollback"}

Free == Cardinality(held) < poolSize

-----------------------------------------------------------------------------
\* BeginTx waits for a connection; the first statement comes after it.
BeginTx(r) ==
  /\ pc[r] \in {"lockBilling", "findPayment"}
  /\ r \notin held
  /\ Free
  /\ held' = held \cup {r}
  /\ UNCHANGED <<vars, poolSize>>

\* Wrong variant: inside a transaction the recorder goes to the pool as well.
ExecutorTakesAnother(r) == Free /\ (pc[r] \in InTransaction => r \in held)

\* ExecutorFromContext: the transaction of the context, or the pool.
Executor(r) == IF pc[r] \in InTransaction THEN r \in held ELSE Free

\* Wrong variant: an error returns the connection of no transaction.
ReleaseOnCommitOnly(r) ==
  held' = IF pc[r] = "rollback" THEN held ELSE held \ {r}

\* Commit and Rollback return the connection, whatever they answer.
Release(r) == held' = held \ {r}

\* A statement on the connection of its transaction, or on a borrowed one.
Execute(r) ==
  /\ pc[r] \notin OffPool \cup {"commit", "commitBilling", "rollback"}
  /\ Executor(r)
  /\ Step(r)
  /\ UNCHANGED pool

EndTx(r) ==
  /\ \/ CommitBilling(r) /\ r \in held
     \/ Commit(r) /\ r \in held
     \/ Rollback(r)               \* also after BeginTx itself failed
  /\ Release(r)
  /\ UNCHANGED poolSize

WithoutDatabase(r) ==
  /\ pc[r] \in OffPool
  /\ Step(r)
  /\ UNCHANGED pool

\* CreateInvoice inserts outside a transaction; ProcessPayment begins one later.
PooledArrive(r) ==
  /\ \E i \in Invoices : (CreateInvoice(r, i) /\ Free) \/ ProcessPayment(r, i)
  /\ UNCHANGED pool

\* A failed statement leaves the transaction to Rollback; a failed Rollback, an
\* unacknowledged Commit and a cancelled request give the connection back.
PooledFault(r) ==
  /\ \/ /\ StatementFails(r)
        /\ IF pc[r] = "rollback" THEN Release(r) ELSE UNCHANGED held
     \/ CommitUnacknowledged(r) /\ r \in held /\ Release(r)
     \/ Disconnect(r) /\ Release(r)
  /\ UNCHANGED poolSize

\* A new process opens a new pool.
PooledRestart == Restart /\ held' = {} /\ UNCHANGED poolSize

-----------------------------------------------------------------------------
PooledInit == Init /\ poolSize \in PoolSizes /\ held = {}

PooledStep(r) == BeginTx(r) \/ Execute(r) \/ EndTx(r) \/ WithoutDatabase(r)

PooledQuiescent == Quiescent /\ UNCHANGED pool

PooledNext ==
  \/ \E r \in Requests : PooledArrive(r) \/ PooledStep(r) \/ PooledFault(r)
  \/ PooledRestart
  \/ PooledQuiescent

PooledSpec == PooledInit /\ [][PooledNext]_pooledVars

\* The server keeps executing what it accepted; a free connection goes to a
\* request that waits for one.
FairPooledSpec ==
  PooledSpec /\ \A r \in Requests : WF_pooledVars(PooledStep(r))

-----------------------------------------------------------------------------
(* Properties, with EveryRequestAnswered and RequestedBillingConcludes of    *)
(* PaymentFlow: on a pool a request that holds a connection while it waits   *)
(* for a lock must never wait for one whose owner needs a connection.        *)

\* No connection is lost and none is used twice: the pool never hands out more
\* than it has, only a request inside a transaction keeps one, and whatever a
\* transaction wrote or locked is on a connection it still holds.
ConnectionsAccounted ==
  /\ Cardinality(held) <= poolSize
  /\ held \subseteq {r \in Requests : pc[r] \in InTransaction}
  /\ \A r \in Requests : tx[r] # EmptyTx => r \in held
=============================================================================
