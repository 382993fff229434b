----------------------------- MODULE Migrations -----------------------------
(***************************************************************************)
(* The migration command and the migrations of payments, billings and the  *)
(* outbox, run over the rows that releases left behind.  A release brings  *)
(* the files up to one version; its traffic writes rows as its schema      *)
(* admits them; the command of a later release migrates them.              *)
(*                                                                         *)
(* golang-migrate marks the version dirty, runs the file as one implicit   *)
(* transaction and marks it clean; it refuses a dirty database and holds a *)
(* lock.  A column that a schema does not have holds None.                 *)
(***************************************************************************)
EXTENDS Naturals, FiniteSets

CONSTANTS
  Commands,     \* runs of cmd/migrate
  Releases,     \* the last migration each release ships
  Invoices,
  MaxPayments,  \* how many payments a behaviour makes
  MaxFaults     \* how many commands may be killed

None == 0

ASSUME MigrationsAssumption ==
  /\ None \notin Commands
  /\ Releases # {} /\ Releases \subseteq {4, 6, 7, 8}
  /\ MaxPayments \in Nat /\ MaxFaults \in Nat

VARIABLES
  version, dirty,  \* the row of schema_migrations
  schema,          \* the version the tables are really at
  lock,            \* the command that holds the advisory lock, or None
  command,         \* the commands
  tables,          \* the rows of payments, billings and outbox_events
  faults

marks == <<version, dirty>>
vars == <<marks, schema, lock, command, tables, faults>>

-----------------------------------------------------------------------------
(* The migrations                                                           *)

Payments == tables.payments
OfInvoice(t, i) == {p \in t.payments : p.invoice = i}
OfBilling(t, b) == {p \in t.payments : p.billing = b}

\* Wrong variant: the CASE on the status of the payment is forgotten.
Up6AllFailed(t) ==
  LET missing == {p \in t.payments : \A b \in t.billings : b.invoice # p.invoice}
  IN [t EXCEPT
        !.billings = @ \cup {[id |-> p.id, invoice |-> p.invoice, attempt |-> None,
                              status |-> "Failed"] : p \in missing},
        !.payments = {[p EXCEPT !.billing = p.id] : p \in @}]

\* Wrong variant: only the approved payments get a billing.
Up6ApprovedOnly(t) ==
  LET missing == {p \in t.payments : /\ p.status = "Approved"
                                     /\ \A b \in t.billings : b.invoice # p.invoice}
  IN [t EXCEPT
        !.billings = @ \cup {[id |-> p.id, invoice |-> p.invoice, attempt |-> None,
                              status |-> "Approved"] : p \in missing},
        !.payments = {[p EXCEPT !.billing = p.id] : p \in @}]

\* Every payment that has none gets a billing of its own id.
Up6(t) ==
  LET missing == {p \in t.payments : \A b \in t.billings : b.invoice # p.invoice}
      status(p) == IF p.status = "Approved" THEN "Approved" ELSE "Failed"
  IN [t EXCEPT
        !.billings = @ \cup {[id |-> p.id, invoice |-> p.invoice, attempt |-> None,
                              status |-> status(p)] : p \in missing},
        !.payments = {[p EXCEPT !.billing = p.id] : p \in @}]

\* Wrong variant: failed payments are deleted so that the index can be built.
Up7DropsFailed(t) ==
  [t EXCEPT !.payments = {[p EXCEPT !.attempt = 1] :
                            p \in {q \in @ : q.status = "Approved"}},
            !.billings = {[b EXCEPT !.attempt = 1] : b \in @}]

Up7(t) ==
  [t EXCEPT !.payments = {[p EXCEPT !.attempt = 1] : p \in @},
            !.billings = {[b EXCEPT !.attempt = 1] : b \in @}]

InitCap == [code \in {"pending", "processed", "failed"} |->
              CASE code = "pending" -> "Pending"
                [] code = "processed" -> "Processed"
                [] OTHER -> "Failed"]
Lower == [status \in {"Pending", "Processed", "Failed"} |->
            CHOOSE code \in DOMAIN InitCap : InitCap[code] = status]
Recode(t, code) ==
  [t EXCEPT !.outbox = {[e EXCEPT !.status = code[e.status]] : e \in @}]

\* The rows after file n.up.sql.
Up(n, t) ==
  CASE n = 6 -> Up6(t)
    [] n = 7 -> Up7(t)
    [] n = 8 -> Recode(t, Lower)
    [] OTHER -> t

\* The file fails: a foreign key of 6, when a billing was there that does not
\* have the id of its payment; a unique index of 7; and in 8 the check that
\* still holds when the status is rewritten, because it is dropped after.
UpFails(n, t) ==
  CASE n = 6 -> \E p \in Up6(t).payments : \A b \in Up6(t).billings : b.id # p.id
    [] n = 7 -> \E p \in t.payments : Cardinality(OfBilling(t, p.billing)) > 1
    [] n = 8 -> t.outbox # {}
    [] OTHER -> FALSE

\* The rows after file n.down.sql.
Down(n, t) ==
  CASE n = 8 -> Recode(t, InitCap)
    [] n = 7 -> [outbox |-> {},
                 payments |-> {[p EXCEPT !.attempt = None] : p \in t.payments},
                 billings |-> {[b EXCEPT !.attempt = None] : b \in t.billings}]
    [] n = 6 -> [t EXCEPT !.payments = {[p EXCEPT !.billing = None] : p \in @}]
    [] n = 5 -> [t EXCEPT !.billings = {}]
    [] n = 4 -> [t EXCEPT !.payments = {}]
    [] OTHER -> t

\* The unique index on the invoice comes back with 6.down.
DownFails(n, t) ==
  n = 6 /\ \E i \in Invoices : Cardinality(OfInvoice(t, i)) > 1

-----------------------------------------------------------------------------
(* The command                                                              *)

NewCommand == [direction |-> "none", last |-> None, phase |-> "idle", exit |-> 0]

\* validateDirection comes after the flags and before the runner.
Run(c) ==
  /\ command[c].phase = "idle"
  /\ \E direction \in {"up", "down", "sideways"}, last \in Releases :
       command' = [command EXCEPT ![c] =
         [direction |-> direction, last |-> last,
          phase |-> IF direction = "sideways" THEN "exited" ELSE "lock",
          exit |-> IF direction = "sideways" THEN 1 ELSE 0]]
  /\ UNCHANGED <<marks, schema, lock, tables, faults>>

\* Wrong variant: every error of the runner passes for ErrNoChange.
ExitIgnored(c, err) ==
  command' = [command EXCEPT ![c].phase = "exited", ![c].exit = 0]

\* RunMigrations passes on every error but ErrNoChange.
Exit(c, err) ==
  command' = [command EXCEPT
    ![c].phase = "exited",
    ![c].exit = IF err \in {"nil", "ErrNoChange"} THEN 0 ELSE 1]

\* Up and Down take the lock, or give up after a while, and refuse a dirty
\* database and one at a version they have no file for.
Lock(c) ==
  /\ command[c].phase = "lock"
  /\ IF lock # None THEN Exit(c, "ErrLockTimeout") /\ UNCHANGED lock
     ELSE IF dirty \/ version > command[c].last
       THEN Exit(c, "ErrDirty") /\ UNCHANGED lock
     ELSE /\ lock' = c
          /\ command' = [command EXCEPT ![c].phase = "step"]
  /\ UNCHANGED <<marks, schema, tables, faults>>

AtEnd(c) ==
  version = IF command[c].direction = "up" THEN command[c].last ELSE 0

\* The next file: its version is marked dirty before it runs.
SetVersion(c) ==
  /\ command[c].phase = "step"
  /\ ~AtEnd(c)
  /\ version' = IF command[c].direction = "up" THEN version + 1 ELSE version - 1
  /\ dirty' = TRUE
  /\ command' = [command EXCEPT ![c].phase = "body"]
  /\ UNCHANGED <<schema, lock, tables, faults>>

NoMoreFiles(c) ==
  /\ command[c].phase = "step"
  /\ AtEnd(c)
  /\ \E err \in {"nil", "ErrNoChange"} : Exit(c, err)
  /\ lock' = None
  /\ UNCHANGED <<marks, schema, tables, faults>>

FileFails(c) ==
  IF command[c].direction = "up" THEN UpFails(version, tables)
                                 ELSE DownFails(version + 1, tables)

\* Wrong variant: the file is marked clean before it has run.
RunFileMarksFirst(c) ==
  /\ command[c].phase = "body"
  /\ dirty' = FALSE
  /\ IF FileFails(c)
       THEN Exit(c, "ErrFile") /\ lock' = None /\ UNCHANGED <<schema, tables>>
       ELSE /\ tables' = IF command[c].direction = "up"
                           THEN Up(version, tables) ELSE Down(version + 1, tables)
            /\ schema' = version
            /\ command' = [command EXCEPT ![c].phase = "mark"]
            /\ UNCHANGED lock
  /\ UNCHANGED <<version, faults>>

\* One file, as a whole or not at all.
RunFile(c) ==
  /\ command[c].phase = "body"
  /\ IF FileFails(c)
       THEN Exit(c, "ErrFile") /\ lock' = None /\ UNCHANGED <<schema, tables>>
       ELSE /\ tables' = IF command[c].direction = "up"
                           THEN Up(version, tables) ELSE Down(version + 1, tables)
            /\ schema' = version
            /\ command' = [command EXCEPT ![c].phase = "mark"]
            /\ UNCHANGED lock
  /\ UNCHANGED <<marks, faults>>

MarkClean(c) ==
  /\ command[c].phase = "mark"
  /\ dirty' = FALSE
  /\ command' = [command EXCEPT ![c].phase = "step"]
  /\ UNCHANGED <<version, schema, lock, tables, faults>>

\* The command dies; its connection takes the lock with it.
Kill(c) ==
  /\ lock = c
  /\ faults < MaxFaults
  /\ faults' = faults + 1
  /\ lock' = None
  /\ command' = [command EXCEPT ![c].phase = "exited", ![c].exit = 1]
  /\ UNCHANGED <<marks, schema, tables>>

-----------------------------------------------------------------------------
(* The traffic of the release whose schema the tables have; it is down while *)
(* a command runs and on a dirty database                                   *)

\* The events of one payment, as one row.
Recorded(id, code) ==
  IF schema < 7 THEN {}
  ELSE {[id |-> id, status |-> IF schema = 7 THEN InitCap[code] ELSE code]}

\* A payment of an invoice: its only one at 4, from 6 on the first of a new
\* billing or the next attempt of one that failed.
Pay(i, status, code) ==
  LET id == Cardinality(Payments) + 1
      own == {b \in tables.billings : b.invoice = i}
      attempt == IF schema < 7 THEN None
                 ELSE 1 + Cardinality(OfInvoice(tables, i))
      billing == CASE schema = 4 -> None
                   [] schema # 4 /\ own = {} -> MaxPayments + id   \* an id of its own
                   [] OTHER -> (CHOOSE b \in own : TRUE).id
  IN /\ schema \in Releases /\ ~dirty /\ lock = None
     /\ id <= MaxPayments
     /\ IF schema = 4 THEN OfInvoice(tables, i) = {}
                      ELSE \A b \in own : b.status = "Failed"
     /\ tables' =
          [payments |-> Payments \cup {[id |-> id, invoice |-> i,
             billing |-> billing, attempt |-> attempt, status |-> status]},
           billings |->
             IF schema = 4 THEN tables.billings
             ELSE (tables.billings \ own) \cup {[id |-> billing, invoice |-> i,
                                                 attempt |-> attempt,
                                                 status |-> status]},
           outbox |-> tables.outbox \cup Recorded(id, code)]
     /\ UNCHANGED <<marks, schema, lock, command, faults>>

-----------------------------------------------------------------------------
Init ==
  /\ version = 0 /\ dirty = FALSE /\ schema = 0
  /\ lock = None
  /\ command = [c \in Commands |-> NewCommand]
  /\ tables = [payments |-> {}, billings |-> {}, outbox |-> {}]
  /\ faults = 0

Step(c) ==
  Lock(c) \/ SetVersion(c) \/ NoMoreFiles(c) \/ RunFile(c) \/ MarkClean(c)

Next ==
  \/ \E c \in Commands : Run(c) \/ Step(c) \/ Kill(c)
  \/ \E i \in Invoices, status \in {"Approved", "Failed"},
       code \in DOMAIN InitCap : Pay(i, status, code)

Spec == Init /\ [][Next]_vars

-----------------------------------------------------------------------------
(* Properties                                                               *)

\* The mark can be trusted: whenever the database is not marked dirty, the tables
\* are at the version it names, wherever a command was killed, a file failed or
\* two commands met.
CleanMeansApplied == ~dirty => schema = version

\* A command that reports success did its work: when it ends with exit code 0
\* the database is clean and at the end it was to be brought to.
ExitTruthful ==
  [][\A c \in Commands :
       command[c].phase # "exited" /\ command'[c].phase = "exited"
         /\ command'[c].exit = 0 =>
           ~dirty' /\ version' = IF command[c].direction = "up"
                                   THEN command[c].last ELSE 0]_vars

\* Rows keep their meaning across upgrades and rollbacks: a payment belongs to a
\* billing of its invoice, an approved one to an approved billing, attempts are
\* told apart, and the outbox speaks the language of its schema.
RowsConsistent ==
  /\ schema >= 6 =>
       \A p \in Payments : \E b \in tables.billings :
         /\ b.id = p.billing /\ b.invoice = p.invoice
         /\ p.status = "Approved" => b.status = "Approved"
  /\ schema >= 7 =>
       \A p, q \in Payments :
         p.billing = q.billing /\ p.attempt = q.attempt => p = q
  /\ \A e \in tables.outbox : e.status \in
       IF schema = 8 THEN DOMAIN InitCap ELSE {InitCap[c] : c \in DOMAIN InitCap}

\* An upgrade drops no row, whether its files work or fail.
UpgradeKeepsRows ==
  [][schema' > schema =>
       /\ {p.id : p \in Payments} = {p.id : p \in tables'.payments}
       /\ {b.id : b \in tables.billings} \subseteq {b.id : b \in tables'.billings}
       /\ {e.id : e \in tables.outbox} = {e.id : e \in tables'.outbox}]_vars

\* What leaves a database dirty when no command was ever killed is a file that
\* failed on rows of a release, and there are three of them: 7.up and 6.down over
\* an invoice that was paid in more than one attempt, and 8.up over any event in
\* the outbox.  Every other file works on whatever its releases wrote.
StuckByRowsOnly ==
  dirty /\ lock = None /\ faults = 0 =>
    \/ /\ version \in {5, 7}
       /\ \E i \in Invoices : Cardinality(OfInvoice(tables, i)) > 1
    \/ version = 8 /\ tables.outbox # {}
=============================================================================
