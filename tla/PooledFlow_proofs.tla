------------------------- MODULE PooledFlow_proofs -------------------------
(* Proofs about PooledFlow, for every size of the pool: the pool restrains  *)
(* when PaymentFlow may step and adds no behaviour to it, so that what is   *)
(* proved of PaymentFlow holds on the pool, and no connection gets lost.    *)
EXTENDS PooledFlow, PaymentFlow_proofs, FiniteSetTheorems

-----------------------------------------------------------------------------
(* The pool adds nothing to what PaymentFlow may do                         *)

\* A step on the pool is a step of PaymentFlow, or one that only takes a
\* connection.
LEMMA PooledStepIsStep ==
  ASSUME [PooledNext]_pooledVars
  PROVE  [Next]_vars
<1>1. CASE UNCHANGED pooledVars
  BY <1>1 DEF pooledVars
<1>2. ASSUME NEW r \in Requests, PooledArrive(r) PROVE Arrive(r)
  BY <1>2 DEF PooledArrive, Arrive
<1>3. ASSUME NEW r \in Requests, PooledStep(r) PROVE Step(r) \/ UNCHANGED vars
  BY <1>3 DEF PooledStep, BeginTx, Execute, EndTx, WithoutDatabase, Step
<1>4. ASSUME NEW r \in Requests, PooledFault(r) PROVE Fault(r)
  BY <1>4 DEF PooledFault, Fault
<1>5. CASE PooledRestart \/ PooledQuiescent
  BY <1>5 DEF PooledRestart, PooledQuiescent, Next
<1> QED BY <1>1, <1>2, <1>3, <1>4, <1>5 DEF PooledNext, Next

\* The system on a pool of any size implements the one without: everything that
\* is proved of PaymentFlow, its tables, answers and events, holds on the pool.
THEOREM PoolImplementsFlow == PooledSpec => Spec
<1>1. PooledInit => Init
  BY DEF PooledInit
<1>2. [PooledNext]_pooledVars => [Next]_vars
  BY PooledStepIsStep
<1> QED BY <1>1, <1>2, PTL DEF PooledSpec, Spec

-----------------------------------------------------------------------------
(* The connections                                                          *)

\* ConnectionsAccounted with the types its counting needs.
PoolInv ==
  /\ poolSize \in Nat
  /\ IsFiniteSet(held)
  /\ ConnectionsAccounted

\* Counting the connections: one more, one less, none.
LEMMA HeldCounts ==
  ASSUME PoolInv, NEW r
  PROVE  /\ Cardinality(held) \in Nat
         /\ IsFiniteSet(held \ {r}) /\ Cardinality(held \ {r}) <= poolSize
         /\ Free => IsFiniteSet(held \cup {r})
                      /\ Cardinality(held \cup {r}) <= poolSize
<1>1. Cardinality(held) \in Nat
  BY FS_CardinalityType DEF PoolInv
<1>2. IsFiniteSet(held \ {r}) /\ Cardinality(held \ {r}) <= poolSize
  BY <1>1, FS_RemoveElement DEF PoolInv, ConnectionsAccounted
<1>3. Free => IsFiniteSet(held \cup {r}) /\ Cardinality(held \cup {r}) <= poolSize
  BY <1>1, FS_AddElement DEF PoolInv, Free
<1> QED BY <1>1, <1>2, <1>3

\* Before a transaction ends its statements stay in it; outside one no statement
\* writes to a transaction.
LEMMA StepInTransaction ==
  ASSUME TypeOK, NEW r \in Requests, Step(r),
         pc[r] \notin {"commit", "commitBilling", "rollback"}
  PROVE  /\ pc[r] \in InTransaction => pc'[r] \in InTransaction
         /\ pc[r] \notin InTransaction => tx' = tx
<1> USE DEF TypeOK, InTransaction, TxStatements, BillingTxSteps, LookupSteps,
            ReservedStatements, Goto
<1>1. CASE \/ AppendInvoiceCreated(r) \/ AppendBillingRequested(r)
           \/ MarkBillingRequested(r) \/ MarkInvoiceCreated(r)
           \/ FailBillingRequested(r) \/ FailInvoiceCreated(r)
  BY <1>1 DEF AppendInvoiceCreated, AppendBillingRequested,
              MarkBillingRequested, MarkInvoiceCreated, FailBillingRequested,
              FailInvoiceCreated, AppendRecord, MarkRecord
<1>2. CASE \/ FindBilling(r) \/ SaveBilling(r) \/ DispatchBillingRequested(r)
           \/ AfterDispatch(r)
  BY <1>2 DEF FindBilling, SaveBilling, DispatchBillingRequested, AfterDispatch
<1>3. CASE \/ LockBilling(r) \/ UpdateBilling(r) \/ FindPayment(r)
           \/ CheckApproved(r) \/ InsertPayment(r)
  BY <1>3 DEF LockBilling, UpdateBilling, FindPayment, CheckApproved,
              InsertPayment, Abort
<1>4. CASE \/ CallGateway(r) \/ UpdatePayment(r) \/ AppendResult(r)
           \/ GetInvoice(r) \/ UpdateInvoice(r) \/ AppendInvoicePaid(r)
           \/ MarkInvoicePaid(r) \/ GetBilling(r) \/ MarkBilling(r)
           \/ MarkResult(r)
  BY <1>4 DEF CallGateway, UpdatePayment, AppendResult, GetInvoice,
              UpdateInvoice, AppendInvoicePaid, MarkInvoicePaid, GetBilling,
              MarkBilling, MarkResult, AppendInTx, MarkInTx, Abort
<1>5. CASE CommitBilling(r) \/ Commit(r) \/ Rollback(r)
  BY <1>5 DEF CommitBilling, Commit, Rollback
<1> QED BY <1>1, <1>2, <1>3, <1>4, <1>5 DEF Step

\* The part of PoolInv about one request, when the others keep what they hold.
LEMMA PoolInvFromOwn ==
  ASSUME PoolInv, NEW r \in Requests, OthersUnchanged(r),
         poolSize' = poolSize,
         \/ held' = held
         \/ held' = held \ {r}
         \/ Free /\ held' = held \cup {r},
         r \in held' => pc'[r] \in InTransaction,
         tx'[r] # EmptyTx => r \in held'
  PROVE  PoolInv'
<1>1. IsFiniteSet(held') /\ Cardinality(held') <= poolSize'
  BY HeldCounts DEF PoolInv, ConnectionsAccounted
<1>2. held' \subseteq {s \in Requests : pc'[s] \in InTransaction}
  BY DEF PoolInv, ConnectionsAccounted, OthersUnchanged
<1>3. \A s \in Requests : tx'[s] # EmptyTx => s \in held'
  BY DEF PoolInv, ConnectionsAccounted, OthersUnchanged
<1> QED BY <1>1, <1>2, <1>3 DEF PoolInv, ConnectionsAccounted, InTransaction

\* The pool invariant is kept by every step of the pooled system.
LEMMA NextPoolInv ==
  ASSUME IInv, PoolInv, [PooledNext]_pooledVars
  PROVE  PoolInv'
<1> USE DEF Goto
<1>0. /\ \A r \in held : pc[r] \in InTransaction
      /\ \A r \in Requests : tx[r] # EmptyTx => r \in held
      /\ pc \in [Requests -> Steps] /\ tx \in [Requests -> Transaction]
      /\ TypeOK
  BY DEF PoolInv, ConnectionsAccounted, IInv, TypeOK
<1>1. ASSUME NEW r \in Requests, PooledArrive(r) PROVE PoolInv'
  <2>1. Arrive(r) /\ pc[r] = "idle" /\ tx' = tx /\ UNCHANGED pool
    BY <1>1 DEF PooledArrive, Arrive, CreateInvoice, ProcessPayment
  <2>2. OthersUnchanged(r)
    BY <2>1, ActIsOwn DEF Act, OwnStep
  <2>3. r \notin held
    BY <1>0, <2>1 DEF InTransaction, TxStatements, BillingTxSteps, LookupSteps,
                      ReservedStatements
  <2> QED BY <1>0, <2>1, <2>2, <2>3, PoolInvFromOwn DEF pool
<1>2. ASSUME NEW r \in Requests, BeginTx(r) PROVE PoolInv'
  <2>1. /\ pc[r] \in InTransaction /\ pc' = pc /\ tx' = tx /\ OthersUnchanged(r)
        /\ poolSize' = poolSize /\ Free /\ held' = held \cup {r}
    BY <1>2 DEF BeginTx, vars, locals, OthersUnchanged, InTransaction,
                TxStatements, BillingTxSteps, LookupSteps
  <2> QED BY <1>0, <2>1, PoolInvFromOwn
<1>3. ASSUME NEW r \in Requests, Execute(r) \/ WithoutDatabase(r) PROVE PoolInv'
  <2>1. /\ Step(r) /\ UNCHANGED pool
        /\ pc[r] \notin {"commit", "commitBilling", "rollback"}
        /\ pc[r] \in InTransaction => r \in held
    BY <1>3 DEF Execute, WithoutDatabase, Executor, OffPool, InTransaction,
                TxStatements, BillingTxSteps, LookupSteps, ReservedStatements
  <2>2. OthersUnchanged(r)
    BY <2>1, ActIsOwn DEF Act, OwnStep
  <2>3. /\ pc[r] \in InTransaction => pc'[r] \in InTransaction
        /\ pc[r] \notin InTransaction => tx' = tx
    BY <1>0, <2>1, StepInTransaction
  <2> QED BY <1>0, <2>1, <2>2, <2>3, PoolInvFromOwn DEF pool
<1>4. ASSUME NEW r \in Requests, EndTx(r) PROVE PoolInv'
  <2>1. /\ Step(r) /\ tx'[r] = EmptyTx
        /\ held' = held \ {r} /\ poolSize' = poolSize
    BY <1>0, <1>4 DEF EndTx, Step, CommitBilling, Commit, Rollback, Apply, Release
  <2>2. OthersUnchanged(r)
    BY <2>1, ActIsOwn DEF Act, OwnStep
  <2> QED BY <2>1, <2>2, PoolInvFromOwn
<1>5. ASSUME NEW r \in Requests, PooledFault(r) PROVE PoolInv'
  <2>1. Fault(r) /\ poolSize' = poolSize
    BY <1>5 DEF PooledFault, Fault
  <2>2. OthersUnchanged(r)
    BY <2>1, ActIsOwn DEF Act, OwnStep
  <2>3. \/ held' = held /\ tx' = tx /\ pc[r] \in TxStatements
             /\ pc'[r] = "rollback"
        \/ held' = held /\ tx' = tx /\ pc[r] \in CreateSteps
        \/ held' = held \ {r} /\ tx'[r] = EmptyTx
    <3>1. CASE StatementFails(r) /\ IF pc[r] = "rollback" THEN Release(r)
                                                        ELSE UNCHANGED held
      <4>1. CASE pc[r] = "rollback"
        BY <1>0, <3>1, <4>1 DEF StatementFails, Release, TxStatements,
             CreateSteps, BillingTxSteps, LookupSteps, ReservedStatements
      <4>2. CASE pc[r] # "rollback"
        BY <1>0, <3>1, <4>2 DEF StatementFails
      <4> QED BY <4>1, <4>2
    <3>2. CASE CommitUnacknowledged(r) /\ Release(r)
      BY <1>0, <3>2 DEF CommitUnacknowledged, Apply, Release
    <3>3. CASE Disconnect(r) /\ Release(r)
      BY <1>0, <3>3 DEF Disconnect, Release
    <3> QED BY <1>5, <3>1, <3>2, <3>3 DEF PooledFault
  <2>4. pc[r] \in CreateSteps => pc[r] \notin InTransaction
    BY DEF CreateSteps, InTransaction, TxStatements, BillingTxSteps, LookupSteps,
           ReservedStatements
  <2>5. pc[r] \in TxStatements => pc[r] \in InTransaction
    BY DEF InTransaction
  <2>6. "rollback" \in InTransaction
    BY DEF InTransaction
  <2> QED BY <1>0, <2>1, <2>2, <2>3, <2>4, <2>5, <2>6, PoolInvFromOwn
<1>6. CASE PooledRestart
  <2>1. /\ held' = {} /\ poolSize' = poolSize
        /\ \A r \in Requests : tx'[r] = EmptyTx
    BY <1>6 DEF PooledRestart, Restart
  <2> QED BY <2>1, FS_EmptySet DEF PoolInv, ConnectionsAccounted
<1>7. CASE PooledQuiescent \/ UNCHANGED pooledVars
  <2>1. /\ held' = held /\ poolSize' = poolSize /\ pc' = pc /\ tx' = tx
    BY <1>7 DEF PooledQuiescent, Quiescent, pooledVars, vars, pool
  <2> QED BY <2>1 DEF PoolInv, ConnectionsAccounted
<1> QED BY <1>1, <1>2, <1>3, <1>4, <1>5, <1>6, <1>7 DEF PooledNext, PooledStep

\* No connection is lost or lent twice, for every size of the pool and every
\* number of requests: also where a COMMIT is not acknowledged, a Rollback
\* fails, a client leaves or the process dies in the middle of a transaction.
THEOREM ConnectionsAccountedHolds == PooledSpec => []ConnectionsAccounted
<1>1. PooledInit => IInv /\ PoolInv
  <2> SUFFICES ASSUME PooledInit PROVE IInv /\ PoolInv
    OBVIOUS
  <2>1. IInv
    BY InitIInv DEF PooledInit
  <2>2. poolSize \in Nat /\ held = {} /\ \A r \in Requests : tx[r] = EmptyTx
    BY PoolAssumption DEF PooledInit, Init
  <2> QED BY <2>1, <2>2, FS_EmptySet DEF PoolInv, ConnectionsAccounted
<1>2. IInv /\ PoolInv /\ [PooledNext]_pooledVars => (IInv /\ PoolInv)'
  BY PooledStepIsStep, NextIInv, NextPoolInv
<1>3. PoolInv => ConnectionsAccounted
  BY DEF PoolInv
<1> QED BY <1>1, <1>2, <1>3, PTL DEF PooledSpec

\* On the pool, as without it, the committed tables change only the way the
\* abstract Settlement changes.
THEOREM PoolImplementsSettlement == PooledSpec => ImplementsSettlement
BY PoolImplementsFlow, RefinesSettlement, PTL
=============================================================================
