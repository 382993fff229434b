------------------------- MODULE Migrations_proofs -------------------------
(* Proofs about Migrations, for any number of commands, releases, invoices, *)
(* payments and faults.                                                     *)
EXTENDS Migrations, FiniteSetTheorems, TLAPS

-----------------------------------------------------------------------------
(* The inductive invariant                                                  *)

Working == {"step", "body", "mark"}

Command ==
  [direction : {"none", "up", "down", "sideways"}, last : Releases \cup {None},
   phase : Working \cup {"idle", "lock", "exited"}, exit : {0, 1}]

\* What the phase of a command says of the marks and of the tables.
Standing(c) ==
  LET x == command[c] IN
    /\ x.phase \in Working <=> lock = c
    /\ x.phase \in Working \cup {"lock"} =>
         x.direction \in {"up", "down"} /\ x.last \in Releases
    /\ x.phase \in Working => version <= x.last
    /\ x.phase = "step" => ~dirty
    /\ x.phase = "body" => dirty
    /\ x.phase = "body" /\ x.direction = "up" => version = schema + 1
    /\ x.phase = "body" /\ x.direction = "down" => version + 1 = schema
    /\ x.phase = "mark" => dirty /\ schema = version

Control ==
  /\ version \in 0..8 /\ schema \in 0..8 /\ dirty \in BOOLEAN
  /\ command \in [Commands -> Command]
  /\ lock \in Commands \cup {None}
  /\ \A c \in Commands : Standing(c)
  /\ CleanMeansApplied

Payment ==
  [id : Nat, invoice : Invoices, billing : Nat, attempt : Nat,
   status : {"Approved", "Failed"}]
Billing ==
  [id : Nat, invoice : Invoices, attempt : Nat, status : {"Approved", "Failed"}]
Codes == DOMAIN InitCap
Names == {InitCap[code] : code \in Codes}
Event == [id : Nat, status : Codes \cup Names]
Tables == [payments : SUBSET Payment, billings : SUBSET Billing, outbox : SUBSET Event]

\* Payments are numbered from 1, in the order in which they were made.
PaymentRows(payments) ==
  /\ payments \in SUBSET Payment /\ IsFiniteSet(payments)
  /\ \A p, q \in payments : p.id = q.id => p = q
  /\ {p.id : p \in payments} = 1..Cardinality(payments)
  /\ Cardinality(payments) <= MaxPayments

\* An invoice has one billing, with the id of a payment of it or an id that no
\* payment has, and it is approved when one of its payments is.
BillingRows(payments, billings) ==
  /\ billings \in SUBSET Billing
  /\ \A a, b \in billings : a.id = b.id \/ a.invoice = b.invoice => a = b
  /\ \A b \in billings : \E p \in payments :
       p.invoice = b.invoice /\ (b.id = p.id \/ b.id = MaxPayments + p.id)
  /\ \A b \in billings, p \in payments :
       b.invoice = p.invoice /\ p.status = "Approved" => b.status = "Approved"

\* The payments of an invoice, before there are attempts and with them.
Attempts(t, v) ==
  /\ v < 6 => \A p, q \in t.payments : p.invoice = q.invoice => p = q
  /\ v >= 6 => \A p \in t.payments : \E b \in t.billings :
       b.id = p.billing /\ b.invoice = p.invoice
  /\ v >= 7 => \A p \in t.payments :
       p.attempt \in 1..Cardinality(OfInvoice(t, p.invoice))
  /\ v >= 7 => \A p, q \in t.payments :
       p.billing = q.billing /\ p.attempt = q.attempt => p = q

\* The rows that a schema may hold.
Rows(t, v) ==
  /\ t \in Tables
  /\ PaymentRows(t.payments)
  /\ BillingRows(t.payments, t.billings)
  /\ v < 5 => t.billings = {}
  /\ Attempts(t, v)
  /\ \A e \in t.outbox : e.status \in IF v = 8 THEN Codes ELSE Names

MInv == Control /\ Rows(tables, schema)

-----------------------------------------------------------------------------
(* The commands and the marks                                               *)

\* A step of one command, the others standing where they did.
LEMMA OneCommand ==
  ASSUME Control, NEW c \in Commands, NEW y \in Command,
         command' = [command EXCEPT ![c] = y],
         lock' \in {lock, c, None},
         lock # None => lock = c,
         lock' # None => lock' = c,
         y.phase \in Working <=> lock' = c,
         y.phase \in Working \cup {"lock"} =>
           y.direction \in {"up", "down"} /\ y.last \in Releases,
         y.phase \in Working => version' <= y.last,
         y.phase = "step" => ~dirty',
         y.phase = "body" => dirty',
         y.phase = "body" /\ y.direction = "up" => version' = schema' + 1,
         y.phase = "body" /\ y.direction = "down" => version' + 1 = schema',
         y.phase = "mark" => dirty' /\ schema' = version',
         version' \in 0..8, schema' \in 0..8, dirty' \in BOOLEAN,
         ~dirty' => schema' = version'
  PROVE  Control'
<1>1. /\ command \in [Commands -> Command] /\ None \notin Commands
      /\ \A d \in Commands : Standing(d)
  BY MigrationsAssumption DEF Control
<1>2. /\ command' \in [Commands -> Command] /\ command'[c] = y
      /\ \A d \in Commands \ {c} : command'[d] = command[d]
  BY <1>1
<1>3. lock' \in Commands \cup {None}
  OBVIOUS
<1>4. Standing(c)'
  BY <1>2 DEF Standing
<1>5. ASSUME NEW d \in Commands \ {c} PROVE Standing(d)'
  <2>1. lock # d /\ lock' # d
    BY <1>1
  <2>2. command[d].phase \notin Working /\ command'[d] = command[d]
    BY <1>1, <1>2, <2>1 DEF Standing
  <2>3. Standing(d)
    BY <1>1
  <2> QED BY <2>1, <2>2, <2>3 DEF Standing, Working
<1>6. \A d \in Commands : Standing(d)'
  BY <1>4, <1>5
<1> QED BY <1>2, <1>3, <1>6 DEF Control, CleanMeansApplied

\* Commands that do not hold the lock come and go beside the one that does.
LEMMA Bystander ==
  ASSUME Control, NEW c \in Commands, NEW y \in Command,
         command' = [command EXCEPT ![c] = y],
         lock # c, y.phase \in {"idle", "lock", "exited"},
         y.phase = "lock" => y.direction \in {"up", "down"} /\ y.last \in Releases,
         UNCHANGED <<marks, schema, lock>>
  PROVE  Control'
<1>1. /\ command \in [Commands -> Command]
      /\ \A d \in Commands : Standing(d)
      /\ version' = version /\ dirty' = dirty /\ schema' = schema /\ lock' = lock
  BY DEF Control, marks
<1>2. /\ command' \in [Commands -> Command] /\ command'[c] = y
      /\ \A d \in Commands \ {c} : command'[d] = command[d]
  BY <1>1
<1>3. Standing(c)'
  BY <1>1, <1>2 DEF Standing, Working
<1>4. ASSUME NEW d \in Commands \ {c} PROVE Standing(d)'
  BY <1>1, <1>2 DEF Standing
<1> QED BY <1>1, <1>2, <1>3, <1>4 DEF Control, CleanMeansApplied

\* A command with its phase changed.
LEMMA Moved ==
  ASSUME NEW x \in Command, NEW phase \in Working \cup {"idle", "lock", "exited"}
  PROVE  LET y == [x EXCEPT !.phase = phase]
         IN /\ y \in Command /\ y.phase = phase /\ y.direction = x.direction
            /\ y.last = x.last
BY DEF Command

\* A command that ended.
LEMMA Ended ==
  ASSUME NEW x \in Command, NEW code \in {0, 1}
  PROVE  LET y == [x EXCEPT !.phase = "exited", !.exit = code]
         IN /\ y \in Command /\ y.phase = "exited" /\ y.exit = code
BY DEF Command

\* What Exit assigns.
LEMMA ExitEnds ==
  ASSUME Control, NEW c \in Commands, NEW err, Exit(c, err)
  PROVE  \E code \in {0, 1} :
           /\ code = IF err \in {"nil", "ErrNoChange"} THEN 0 ELSE 1
           /\ command' = [command EXCEPT ![c] =
                            [command[c] EXCEPT !.phase = "exited", !.exit = code]]
<1> DEFINE code == IF err \in {"nil", "ErrNoChange"} THEN 0 ELSE 1
<1>1. command \in [Commands -> Command] /\ command[c] \in Command
  BY DEF Control
<1>2. command' = [command EXCEPT ![c].phase = "exited", ![c].exit = code]
  BY DEF Exit
<1>3. code \in {0, 1}
  OBVIOUS
<1> HIDE DEF code
<1>4. command' = [command EXCEPT ![c] =
                    [command[c] EXCEPT !.phase = "exited", !.exit = code]]
  BY <1>1, <1>2
<1> QED BY <1>3, <1>4 DEF code

\* A new run of the command.
LEMMA RunControl ==
  ASSUME Control, NEW c \in Commands, Run(c)
  PROVE  Control'
<1>1. command[c].phase = "idle" /\ Standing(c) /\ UNCHANGED <<marks, schema, lock>>
  BY DEF Run, Control
<1>2. PICK direction \in {"up", "down", "sideways"}, last \in Releases :
        command' = [command EXCEPT ![c] =
          [direction |-> direction, last |-> last,
           phase |-> IF direction = "sideways" THEN "exited" ELSE "lock",
           exit |-> IF direction = "sideways" THEN 1 ELSE 0]]
  BY DEF Run
<1> DEFINE phase == IF direction = "sideways" THEN "exited" ELSE "lock"
           code == IF direction = "sideways" THEN 1 ELSE 0
           y == [direction |-> direction, last |-> last, phase |-> phase,
                 exit |-> code]
<1>3. phase \in {"lock", "exited"} /\ code \in {0, 1}
      /\ (phase = "lock" => direction \in {"up", "down"})
  OBVIOUS
<1>4. command' = [command EXCEPT ![c] = y]
  BY <1>2
<1> HIDE DEF phase, code
<1>5. /\ y \in Command /\ y.phase = phase /\ y.direction = direction /\ y.last = last
  BY <1>3 DEF Command
<1>6. lock # c
  BY <1>1 DEF Standing, Working
<1> HIDE DEF y
<1> QED BY <1>1, <1>3, <1>4, <1>5, <1>6, Bystander

\* A command takes the lock, or gives up.
LEMMA LockControl ==
  ASSUME Control, NEW c \in Commands, Lock(c)
  PROVE  Control'
<1>1. /\ command[c].phase = "lock" /\ Standing(c) /\ command[c] \in Command
      /\ UNCHANGED <<marks, schema>> /\ None \notin Commands
      /\ version' = version /\ dirty' = dirty /\ schema' = schema
      /\ command \in [Commands -> Command]
  BY MigrationsAssumption DEF Lock, Control, marks
<1>2. lock # c
  BY <1>1 DEF Standing, Working
<1>3. ASSUME NEW err, Exit(c, err), UNCHANGED lock PROVE Control'
  <2>1. PICK code \in {0, 1} : command' = [command EXCEPT ![c] =
                            [command[c] EXCEPT !.phase = "exited", !.exit = code]]
    BY <1>3, ExitEnds
  <2> DEFINE y == [command[c] EXCEPT !.phase = "exited", !.exit = code]
  <2>2. y \in Command /\ y.phase = "exited"
    BY <1>1, Ended
  <2>3. command' = [command EXCEPT ![c] = y]
    BY <2>1
  <2> HIDE DEF y
  <2> QED BY <1>1, <1>2, <1>3, <2>2, <2>3, Bystander
<1>4. ASSUME lock = None, ~dirty, ~(version > command[c].last), lock' = c,
             command' = [command EXCEPT ![c].phase = "step"]
      PROVE  Control'
  <2> DEFINE y == [command[c] EXCEPT !.phase = "step"]
  <2>1. /\ y \in Command /\ y.phase = "step" /\ y.direction = command[c].direction
        /\ y.last = command[c].last
    BY <1>1, Moved DEF Working
  <2>2. command' = [command EXCEPT ![c] = y]
    BY <1>1, <1>4
  <2> HIDE DEF y
  <2>3. /\ y.direction \in {"up", "down"} /\ y.last \in Releases
    BY <1>1, <2>1 DEF Standing
  <2>4. /\ version \in 0..8 /\ schema \in 0..8 /\ dirty \in BOOLEAN
        /\ schema = version
    BY <1>4 DEF Control, CleanMeansApplied
  <2>5. version' <= y.last
    <3>1. y.last \in {4, 6, 7, 8}
      BY <2>3, MigrationsAssumption
    <3> QED BY <1>1, <1>4, <2>1, <2>4, <3>1
  <2>6. /\ y.phase \in Working <=> lock' = c
        /\ lock' \in {lock, c, None} /\ (lock # None => lock = c)
        /\ (lock' # None => lock' = c)
        /\ y.phase \notin {"body", "mark"}
    BY <1>4, <2>1 DEF Working
  <2>7. /\ version' \in 0..8 /\ schema' \in 0..8 /\ dirty' \in BOOLEAN
        /\ ~dirty' /\ schema' = version'
    BY <1>1, <1>4, <2>4
  <2> QED BY <2>1, <2>2, <2>3, <2>5, <2>6, <2>7, OneCommand
<1> QED BY <1>3, <1>4 DEF Lock

\* What a command that holds the lock finds.
LEMMA Holder ==
  ASSUME Control, NEW c \in Commands, command[c].phase \in Working
  PROVE  /\ lock = c /\ c # None /\ command[c] \in Command
         /\ command[c].direction \in {"up", "down"}
         /\ command[c].last \in {4, 6, 7, 8} /\ command[c].last \in Releases
         /\ version \in 0..8 /\ schema \in 0..8 /\ dirty \in BOOLEAN
         /\ version <= command[c].last /\ command \in [Commands -> Command]
         /\ Standing(c)
BY MigrationsAssumption DEF Control, Standing

\* A command marks a version, runs its file and marks it clean, holding the lock.
LEMMA WorkControl ==
  ASSUME Control, NEW c \in Commands, command[c].phase \in Working,
         NEW phase \in Working,
         command' = [command EXCEPT ![c].phase = phase], lock' = lock,
         version' <= command[c].last,
         phase = "step" => ~dirty',
         phase = "body" => dirty',
         phase = "body" /\ command[c].direction = "up" => version' = schema' + 1,
         phase = "body" /\ command[c].direction = "down" => version' + 1 = schema',
         phase = "mark" => dirty' /\ schema' = version',
         version' \in 0..8, schema' \in 0..8, dirty' \in BOOLEAN,
         ~dirty' => schema' = version'
  PROVE  Control'
<1>1. /\ lock = c /\ command[c] \in Command /\ command[c].direction \in {"up", "down"}
      /\ command[c].last \in Releases /\ command \in [Commands -> Command]
  BY Holder
<1> DEFINE y == [command[c] EXCEPT !.phase = phase]
<1>2. /\ y \in Command /\ y.phase = phase /\ y.direction = command[c].direction
      /\ y.last = command[c].last
  BY <1>1, Moved
<1>3. command' = [command EXCEPT ![c] = y]
  BY <1>1
<1> HIDE DEF y
<1> QED BY <1>1, <1>2, <1>3, OneCommand

\* A command gives the lock back as it ends, whatever it ends with.
LEMMA ReleaseControl ==
  ASSUME Control, NEW c \in Commands, command[c].phase \in Working,
         NEW code \in {0, 1},
         command' = [command EXCEPT ![c] =
                       [command[c] EXCEPT !.phase = "exited", !.exit = code]],
         lock' = None, UNCHANGED <<marks, schema>>
  PROVE  Control'
<1>1. /\ lock = c /\ c # None /\ command[c] \in Command
      /\ version' = version /\ dirty' = dirty /\ schema' = schema
      /\ version \in 0..8 /\ schema \in 0..8 /\ dirty \in BOOLEAN
  BY Holder DEF marks
<1> DEFINE y == [command[c] EXCEPT !.phase = "exited", !.exit = code]
<1>2. y \in Command /\ y.phase = "exited"
  BY <1>1, Ended
<1>3. command' = [command EXCEPT ![c] = y]
  OBVIOUS
<1> HIDE DEF y
<1>4. ~dirty' => schema' = version'
  BY <1>1 DEF Control, CleanMeansApplied
<1>5. y.phase \notin Working \cup {"lock"}
  BY <1>2 DEF Working
<1> QED BY <1>1, <1>2, <1>3, <1>4, <1>5, OneCommand DEF Working

\* The steps of a command that holds the lock.
LEMMA HolderControl ==
  ASSUME Control, NEW c \in Commands,
         SetVersion(c) \/ NoMoreFiles(c) \/ RunFile(c) \/ MarkClean(c) \/ Kill(c)
  PROVE  Control'
<1>1. CASE SetVersion(c)
  <2>1. /\ command[c].phase = "step" /\ command[c].phase \in Working
        /\ ~AtEnd(c) /\ dirty' = TRUE /\ schema' = schema /\ lock' = lock
        /\ version' = IF command[c].direction = "up" THEN version + 1 ELSE version - 1
        /\ command' = [command EXCEPT ![c].phase = "body"]
    BY <1>1 DEF SetVersion, Working
  <2>2. /\ command[c].direction \in {"up", "down"}
        /\ command[c].last \in {4, 6, 7, 8} /\ version \in 0..8 /\ schema \in 0..8
        /\ version <= command[c].last /\ ~dirty
    BY <2>1, Holder DEF Standing
  <2>3. schema = version
    BY <2>2 DEF Control, CleanMeansApplied
  <2>4. CASE command[c].direction = "up"
    <3>1. version # command[c].last /\ version' = version + 1
      BY <2>1, <2>4 DEF AtEnd
    <3>2. version' <= command[c].last /\ version' \in 0..8
      BY <2>2, <3>1
    <3> QED BY <2>1, <2>2, <2>3, <2>4, <3>1, <3>2, WorkControl DEF Working
  <2>5. CASE command[c].direction = "down"
    <3>1. version # 0 /\ version' = version - 1
      BY <2>1, <2>5 DEF AtEnd
    <3>2. version' <= command[c].last /\ version' \in 0..8 /\ version' + 1 = schema'
      BY <2>1, <2>2, <2>3, <3>1
    <3> QED BY <2>1, <2>2, <2>3, <2>5, <3>2, WorkControl DEF Working
  <2> QED BY <2>2, <2>4, <2>5
<1>2. CASE NoMoreFiles(c)
  <2>1. command[c].phase \in Working /\ lock' = None /\ UNCHANGED <<marks, schema>>
    BY <1>2 DEF NoMoreFiles, Working
  <2>2. PICK err \in {"nil", "ErrNoChange"} : Exit(c, err)
    BY <1>2 DEF NoMoreFiles
  <2> QED BY <2>1, <2>2, ExitEnds, ReleaseControl
<1>3. CASE RunFile(c)
  <2>1. command[c].phase = "body" /\ command[c].phase \in Working
          /\ version' = version /\ dirty' = dirty
    BY <1>3 DEF RunFile, Working, marks
  <2>2. CASE FileFails(c)
    <3>1. Exit(c, "ErrFile") /\ lock' = None /\ UNCHANGED <<marks, schema>>
      BY <1>3, <2>2 DEF RunFile
    <3> QED BY <2>1, <3>1, ExitEnds, ReleaseControl
  <2>3. CASE ~FileFails(c)
    <3>1. /\ schema' = version /\ lock' = lock
          /\ command' = [command EXCEPT ![c].phase = "mark"]
      BY <1>3, <2>3 DEF RunFile
    <3>2. version \in 0..8 /\ dirty /\ version <= command[c].last
            /\ dirty \in BOOLEAN
      BY <2>1, Holder DEF Standing
    <3> QED BY <2>1, <3>1, <3>2, WorkControl DEF Working
  <2> QED BY <2>2, <2>3
<1>4. CASE MarkClean(c)
  <2>1. /\ command[c].phase = "mark" /\ command[c].phase \in Working
        /\ dirty' = FALSE /\ version' = version /\ schema' = schema /\ lock' = lock
        /\ command' = [command EXCEPT ![c].phase = "step"]
    BY <1>4 DEF MarkClean, Working
  <2>2. /\ version \in 0..8 /\ schema = version /\ version <= command[c].last
    BY <2>1, Holder DEF Standing
  <2> QED BY <2>1, <2>2, WorkControl DEF Working
<1>5. CASE Kill(c)
  <2>1. /\ lock = c /\ lock' = None /\ UNCHANGED <<marks, schema>>
        /\ command' = [command EXCEPT ![c].phase = "exited", ![c].exit = 1]
        /\ command \in [Commands -> Command] /\ Standing(c)
    BY <1>5 DEF Kill, Control
  <2>2. command' = [command EXCEPT ![c] =
                      [command[c] EXCEPT !.phase = "exited", !.exit = 1]]
    BY <2>1
  <2>3. command[c].phase \in Working
    BY <2>1 DEF Standing
  <2> QED BY <2>1, <2>2, <2>3, ReleaseControl
<1> QED BY <1>1, <1>2, <1>3, <1>4, <1>5

-----------------------------------------------------------------------------
(* The rows                                                                 *)

\* A map that tells the members of a finite set apart keeps their number.
LEMMA SameNumber ==
  ASSUME NEW S, IsFiniteSet(S), NEW f, f \in [S -> {f[x] : x \in S}],
         \A x, y \in S : f[x] = f[y] => x = y
  PROVE  LET T == {f[x] : x \in S}
         IN IsFiniteSet(T) /\ Cardinality(T) = Cardinality(S)
<1> DEFINE T == {f[x] : x \in S}
<1>1. f \in Bijection(S, T)
  BY DEF Bijection, Injection, Surjection, IsInjective
<1>2. ExistsBijection(S, T)
  BY <1>1 DEF ExistsBijection
<1> HIDE DEF T
<1>3. IsFiniteSet(T) /\ Cardinality(T) = Cardinality(S)
  BY <1>2, FS_Bijection
<1> QED BY <1>3 DEF T

\* An update of other columns than the id keeps the numbering of the payments.
LEMMA UpdatedPayments ==
  ASSUME NEW payments, PaymentRows(payments), NEW f \in [payments -> Payment],
         \A p \in payments : f[p].id = p.id
  PROVE  LET updated == {f[p] : p \in payments}
         IN PaymentRows(updated) /\ Cardinality(updated) = Cardinality(payments)
<1> DEFINE updated == {f[p] : p \in payments}
<1>1. \A p, q \in payments : f[p] = f[q] => p = q
  BY DEF PaymentRows
<1>2. IsFiniteSet(updated) /\ Cardinality(updated) = Cardinality(payments)
  BY <1>1, SameNumber DEF PaymentRows
<1>3. \A p, q \in updated : p.id = q.id => p = q
  BY DEF PaymentRows
<1>4. {p.id : p \in updated} = {p.id : p \in payments}
  OBVIOUS
<1>5. updated \in SUBSET Payment
  OBVIOUS
<1> HIDE DEF updated
<1>6. PaymentRows(updated)
  BY <1>2, <1>3, <1>4, <1>5 DEF PaymentRows
<1> QED BY <1>2, <1>6 DEF updated

\* Payments have ids up to their number, and billings of their own ids have
\* higher ones.
LEMMA IdBounds ==
  ASSUME NEW payments, PaymentRows(payments)
  PROVE  /\ Cardinality(payments) \in Nat /\ MaxPayments \in Nat
         /\ \A p \in payments : p.id \in 1..Cardinality(payments)
         /\ \A p \in payments : p.id \in 1..MaxPayments
<1>1. Cardinality(payments) \in Nat /\ MaxPayments \in Nat
  BY FS_CardinalityType, MigrationsAssumption DEF PaymentRows
<1>2. \A p \in payments : p.id \in 1..Cardinality(payments)
  BY DEF PaymentRows
<1> QED BY <1>1, <1>2 DEF PaymentRows

\* No billing is made for an invoice that has one, and none twice.
LEMMA Up6Billings ==
  ASSUME NEW t, Rows(t, 5)
  PROVE  LET missing == {p \in t.payments : \A b \in t.billings : b.invoice # p.invoice}
             status(p) == IF p.status = "Approved" THEN "Approved" ELSE "Failed"
             made == {[id |-> p.id, invoice |-> p.invoice, attempt |-> None,
                       status |-> status(p)] : p \in missing}
         IN BillingRows(t.payments, t.billings \cup made)
<1> DEFINE missing == {p \in t.payments : \A b \in t.billings : b.invoice # p.invoice}
           status(p) == IF p.status = "Approved" THEN "Approved" ELSE "Failed"
           row(p) == [id |-> p.id, invoice |-> p.invoice, attempt |-> None,
                      status |-> status(p)]
           made == {row(p) : p \in missing}
<1>1. /\ PaymentRows(t.payments) /\ BillingRows(t.payments, t.billings)
      /\ t.payments \in SUBSET Payment
      /\ \A p, q \in t.payments : p.id = q.id \/ p.invoice = q.invoice => p = q
  BY DEF Rows, PaymentRows, Attempts
<1>2. \A p \in missing : /\ row(p) \in Billing /\ row(p).id = p.id
                         /\ row(p).invoice = p.invoice /\ row(p).status = p.status
  BY <1>1 DEF Billing, Payment, None
<1>3. \A m \in made : m \in Billing /\ \E p \in missing : m.id = p.id
                        /\ m.invoice = p.invoice /\ m.status = p.status /\ m = row(p)
  BY <1>2
<1>4. \A p \in missing : p \in t.payments /\ \A b \in t.billings : b.invoice # p.invoice
  OBVIOUS
<1> HIDE DEF missing
<1>5. \A a, b \in made : a.id = b.id \/ a.invoice = b.invoice => a = b
  <2> SUFFICES ASSUME NEW a \in made, NEW b \in made, a.id = b.id \/ a.invoice = b.invoice
               PROVE  a = b
    OBVIOUS
  <2>1. PICK p \in missing : a.id = p.id /\ a.invoice = p.invoice /\ a = row(p)
    BY <1>3
  <2>2. PICK q \in missing : b.id = q.id /\ b.invoice = q.invoice /\ b = row(q)
    BY <1>3
  <2>3. p = q
    BY <1>1, <1>4, <2>1, <2>2
  <2> QED BY <2>1, <2>2, <2>3
<1> HIDE DEF made
<1>6. \A a \in t.billings, m \in made : a.id # m.id /\ a.invoice # m.invoice
  <2> SUFFICES ASSUME NEW a \in t.billings, NEW m \in made
               PROVE  a.id # m.id /\ a.invoice # m.invoice
    OBVIOUS
  <2>1. PICK p \in missing : m.id = p.id /\ m.invoice = p.invoice
    BY <1>3
  <2>2. a.invoice # p.invoice /\ p \in t.payments
    BY <1>4
  <2>3. PICK q \in t.payments :
          q.invoice = a.invoice /\ (a.id = q.id \/ a.id = MaxPayments + q.id)
    BY <1>1 DEF BillingRows
  <2>4. p.id # q.id
    BY <1>1, <2>2, <2>3
  <2>5. p.id \in 1..MaxPayments /\ q.id \in 1..MaxPayments /\ MaxPayments \in Nat
    BY <1>1, <2>2, IdBounds
  <2>6. p.id # MaxPayments + q.id
    BY <2>5
  <2> QED BY <2>1, <2>2, <2>3, <2>4, <2>6
<1>7. \A a, b \in t.billings \cup made : a.id = b.id \/ a.invoice = b.invoice => a = b
  BY <1>1, <1>5, <1>6 DEF BillingRows
<1>8. \A b \in t.billings \cup made : \E p \in t.payments :
        p.invoice = b.invoice /\ (b.id = p.id \/ b.id = MaxPayments + p.id)
  BY <1>1, <1>3, <1>4 DEF BillingRows
<1>9. \A b \in t.billings \cup made, p \in t.payments :
        b.invoice = p.invoice /\ p.status = "Approved" => b.status = "Approved"
  BY <1>1, <1>3, <1>4 DEF BillingRows
<1>10. t.billings \cup made \in SUBSET Billing
  BY <1>1, <1>3 DEF BillingRows
<1>11. BillingRows(t.payments, t.billings \cup made)
  BY <1>7, <1>8, <1>9, <1>10 DEF BillingRows
<1> QED BY <1>11 DEF made, missing

\* An update of other columns than id, invoice and status keeps the billings in
\* order.
LEMMA UpdatedBillings ==
  ASSUME NEW payments, NEW billings, BillingRows(payments, billings),
         NEW f \in [payments -> Payment], NEW g \in [billings -> Billing],
         \A p \in payments : /\ f[p].id = p.id /\ f[p].invoice = p.invoice
                             /\ f[p].status = p.status,
         \A b \in billings : /\ g[b].id = b.id /\ g[b].invoice = b.invoice
                             /\ g[b].status = b.status
  PROVE  BillingRows({f[p] : p \in payments}, {g[b] : b \in billings})
<1> DEFINE P == {f[p] : p \in payments}
           B == {g[b] : b \in billings}
<1>1. B \in SUBSET Billing
  OBVIOUS
<1>2. \A a, b \in B : a.id = b.id \/ a.invoice = b.invoice => a = b
  BY DEF BillingRows
<1>3. \A b \in B : \E p \in P :
        p.invoice = b.invoice /\ (b.id = p.id \/ b.id = MaxPayments + p.id)
  <2> TAKE b \in B
  <2>1. PICK c \in billings : b = g[c]
    OBVIOUS
  <2>2. PICK q \in payments :
          q.invoice = c.invoice /\ (c.id = q.id \/ c.id = MaxPayments + q.id)
    BY DEF BillingRows
  <2>3. f[q] \in P
    OBVIOUS
  <2> QED BY <2>1, <2>2, <2>3
<1>4. \A b \in B, p \in P :
        b.invoice = p.invoice /\ p.status = "Approved" => b.status = "Approved"
  <2> TAKE b \in B, p \in P
  <2>1. PICK c \in billings : b = g[c]
    OBVIOUS
  <2>2. PICK q \in payments : p = f[q]
    OBVIOUS
  <2> QED BY <2>1, <2>2 DEF BillingRows
<1> HIDE DEF P, B
<1>5. BillingRows(P, B)
  BY <1>1, <1>2, <1>3, <1>4 DEF BillingRows
<1> QED BY <1>5 DEF P, B

\* The first files make the tables and touch no row.
LEMMA EarlyFiles ==
  ASSUME NEW t, NEW n \in 1..5, Rows(t, n - 1)
  PROVE  Rows(Up(n, t), n)
<1>1. Up(n, t) = t
  BY DEF Up
<1>2. Attempts(t, n)
  BY DEF Rows, Attempts
<1>3. n < 5 => n - 1 < 5 /\ n # 8 /\ n - 1 # 8
  OBVIOUS
<1> QED BY <1>1, <1>2, <1>3 DEF Rows

\* 000006: payments belong to billings.
LEMMA File6 ==
  ASSUME NEW t, Rows(t, 5), ~UpFails(6, t)
  PROVE  Rows(Up(6, t), 6)
<1> DEFINE missing == {p \in t.payments : \A b \in t.billings : b.invoice # p.invoice}
           status(p) == IF p.status = "Approved" THEN "Approved" ELSE "Failed"
           made == {[id |-> p.id, invoice |-> p.invoice, attempt |-> None,
                     status |-> status(p)] : p \in missing}
           f == [p \in t.payments |-> [p EXCEPT !.billing = p.id]]
           B == t.billings \cup made
           g == [b \in B |-> b]
           P == {f[p] : p \in t.payments}
           u == Up6(t)
<1>1. BillingRows(t.payments, B)
  BY Up6Billings
<1>2. /\ t \in Tables /\ PaymentRows(t.payments) /\ t.payments \in SUBSET Payment
      /\ \A e \in t.outbox : e.status \in Names
  BY DEF Rows, PaymentRows
<1>3. u = [t EXCEPT !.billings = B, !.payments = P]
  <2>1. P = {[p EXCEPT !.billing = p.id] : p \in t.payments}
    OBVIOUS
  <2>2. u = [t EXCEPT !.billings = B,
                      !.payments = {[p EXCEPT !.billing = p.id] : p \in t.payments}]
    BY DEF Up6
  <2> HIDE DEF P, u, B
  <2> QED BY <2>1, <2>2
<1>4. f \in [t.payments -> Payment]
        /\ \A p \in t.payments : /\ f[p].id = p.id /\ f[p].invoice = p.invoice
                                 /\ f[p].status = p.status /\ f[p].billing = p.id
  BY <1>2 DEF Payment
<1> HIDE DEF made, f, u
<1>5. g \in [B -> Billing] /\ \A b \in B : g[b] = b
  BY <1>1 DEF BillingRows
<1>6. B = {g[b] : b \in B}
  BY <1>5
<1> HIDE DEF B, g
<1>7. BillingRows(P, {g[b] : b \in B})
  BY <1>1, <1>4, <1>5, UpdatedBillings
<1>8. PaymentRows(P)
  BY <1>2, <1>4, UpdatedPayments
<1>9. P \in SUBSET Payment /\ B \in SUBSET Billing
  BY <1>1, <1>8 DEF PaymentRows, BillingRows
<1>10. \A p \in P : p.billing = p.id
  BY <1>4
<1> HIDE DEF P
<1>11. u \in Tables /\ u.payments = P /\ u.billings = B /\ u.outbox = t.outbox
  BY <1>2, <1>3, <1>9 DEF Tables
<1>12. \A p \in P : \E b \in B : b.id = p.billing /\ b.invoice = p.invoice
  <2> TAKE p \in P
  <2>1. PICK b \in B : b.id = p.id
    BY <1>11 DEF UpFails, u
  <2>2. PICK q \in P : q.invoice = b.invoice /\ (b.id = q.id \/ b.id = MaxPayments + q.id)
    BY <1>6, <1>7 DEF BillingRows
  <2>3. p.id \in 1..MaxPayments /\ q.id \in 1..MaxPayments /\ MaxPayments \in Nat
    BY <1>8, IdBounds
  <2>4. p.id # MaxPayments + q.id
    BY <2>3
  <2>5. p = q
    BY <1>8, <2>1, <2>2, <2>4 DEF PaymentRows
  <2> QED BY <1>10, <2>1, <2>2, <2>5
<1>13. Attempts(u, 6)
  BY <1>11, <1>12 DEF Attempts
<1>14. Rows(u, 6)
  <2>1. BillingRows(P, B)
    BY <1>6, <1>7
  <2>2. \A e \in u.outbox : e.status \in Names
    BY <1>2, <1>11
  <2> QED BY <1>8, <1>11, <1>13, <2>1, <2>2 DEF Rows
<1> QED BY <1>14 DEF Up, u

\* Two members of a set of at most one are the same.
LEMMA AtMostOne ==
  ASSUME NEW S, IsFiniteSet(S), ~(Cardinality(S) > 1), NEW p \in S, NEW q \in S
  PROVE  p = q
<1>1. Cardinality(S) \in Nat /\ S # {}
  BY FS_CardinalityType
<1>2. Cardinality(S) # 0
  BY <1>1, FS_EmptySet
<1>3. Cardinality(S) = 1
  BY <1>1, <1>2
<1>4. PICK x : S = {x}
  BY <1>3, FS_Singleton
<1> QED BY <1>4

\* Some of finitely many are finitely many, and at least one if there is one.
LEMMA CountSome ==
  ASSUME NEW S, IsFiniteSet(S), NEW T, T \subseteq S
  PROVE  /\ IsFiniteSet(T) /\ Cardinality(T) \in Nat
         /\ T # {} => Cardinality(T) >= 1
<1>1. IsFiniteSet(T)
  BY FS_Subset
<1>2. Cardinality(T) \in Nat
  BY <1>1, FS_CardinalityType
<1>3. T # {} => Cardinality(T) # 0
  BY <1>1, FS_EmptySet
<1> QED BY <1>1, <1>2, <1>3

\* 000007: attempts are numbered.
LEMMA File7 ==
  ASSUME NEW t, Rows(t, 6), ~UpFails(7, t)
  PROVE  Rows(Up(7, t), 7)
<1> DEFINE f == [p \in t.payments |-> [p EXCEPT !.attempt = 1]]
           g == [b \in t.billings |-> [b EXCEPT !.attempt = 1]]
           P == {f[p] : p \in t.payments}
           B == {g[b] : b \in t.billings}
           u == Up7(t)
<1>1. /\ t \in Tables /\ PaymentRows(t.payments) /\ t.payments \in SUBSET Payment
      /\ BillingRows(t.payments, t.billings) /\ t.billings \in SUBSET Billing
      /\ \A e \in t.outbox : e.status \in Names
      /\ \A p \in t.payments : \E b \in t.billings :
           b.id = p.billing /\ b.invoice = p.invoice
      /\ IsFiniteSet(t.payments)
  BY DEF Rows, PaymentRows, BillingRows, Attempts
<1>2. u = [t EXCEPT !.payments = P, !.billings = B]
  <2>1. P = {[p EXCEPT !.attempt = 1] : p \in t.payments}
    OBVIOUS
  <2>2. B = {[b EXCEPT !.attempt = 1] : b \in t.billings}
    OBVIOUS
  <2>3. u = [t EXCEPT !.payments = {[p EXCEPT !.attempt = 1] : p \in t.payments},
                      !.billings = {[b EXCEPT !.attempt = 1] : b \in t.billings}]
    BY DEF Up7
  <2> HIDE DEF P, u, B
  <2> QED BY <2>1, <2>2, <2>3
<1>3. /\ f \in [t.payments -> Payment]
      /\ \A p \in t.payments : /\ f[p].id = p.id /\ f[p].invoice = p.invoice
                               /\ f[p].status = p.status /\ f[p].billing = p.billing
                               /\ f[p].attempt = 1
  BY <1>1 DEF Payment
<1>4. /\ g \in [t.billings -> Billing]
      /\ \A b \in t.billings : /\ g[b].id = b.id /\ g[b].invoice = b.invoice
                               /\ g[b].status = b.status
  BY <1>1 DEF Billing
<1> HIDE DEF f, g, u
<1>5. BillingRows(P, B)
  BY <1>1, <1>3, <1>4, UpdatedBillings
<1>6. PaymentRows(P) /\ IsFiniteSet(P)
  <2>1. PaymentRows(P)
    BY <1>1, <1>3, UpdatedPayments
  <2> QED BY <2>1 DEF PaymentRows
<1>7. P \in SUBSET Payment /\ B \in SUBSET Billing
  BY <1>5, <1>6 DEF PaymentRows, BillingRows
<1>8. \A p \in P : \E b \in B : b.id = p.billing /\ b.invoice = p.invoice
  <2> TAKE p \in P
  <2>1. PICK q \in t.payments : p = f[q]
    OBVIOUS
  <2>2. PICK c \in t.billings : c.id = q.billing /\ c.invoice = q.invoice
    BY <1>1
  <2>3. g[c] \in B
    OBVIOUS
  <2> QED BY <1>3, <1>4, <2>1, <2>2, <2>3
<1>9. \A p, q \in P : p.billing = q.billing => p = q
  <2> SUFFICES ASSUME NEW p \in t.payments, NEW q \in t.payments,
                      p.billing = q.billing
               PROVE  p = q
    BY <1>3
  <2>1. p \in OfBilling(t, p.billing) /\ q \in OfBilling(t, p.billing)
    BY DEF OfBilling
  <2>2. OfBilling(t, p.billing) \subseteq t.payments
    BY DEF OfBilling
  <2>3. ~(Cardinality(OfBilling(t, p.billing)) > 1)
    BY DEF UpFails
  <2>4. IsFiniteSet(OfBilling(t, p.billing))
    BY <1>1, <2>2, CountSome
  <2> QED BY <2>1, <2>3, <2>4, AtMostOne
<1>10. \A p \in P : p.attempt = 1
  BY <1>3
<1> HIDE DEF P, B
<1>11. u \in Tables /\ u.payments = P /\ u.billings = B /\ u.outbox = t.outbox
  BY <1>1, <1>2, <1>7 DEF Tables
<1>12. \A p \in P : p.attempt \in 1..Cardinality(OfInvoice(u, p.invoice))
  <2> TAKE p \in P
  <2>1. p \in OfInvoice(u, p.invoice) /\ OfInvoice(u, p.invoice) \subseteq P
    BY <1>11 DEF OfInvoice
  <2>2. /\ Cardinality(OfInvoice(u, p.invoice)) \in Nat
        /\ Cardinality(OfInvoice(u, p.invoice)) >= 1
    BY <1>6, <2>1, CountSome
  <2> QED BY <1>10, <2>2
<1>13. Attempts(u, 7)
  BY <1>8, <1>9, <1>11, <1>12 DEF Attempts
<1>14. Rows(u, 7)
  BY <1>1, <1>5, <1>6, <1>11, <1>13 DEF Rows
<1> QED BY <1>14 DEF Up, u

\* 000008: it works on an empty outbox only.
LEMMA File8 ==
  ASSUME NEW t, Rows(t, 7), ~UpFails(8, t)
  PROVE  Rows(Up(8, t), 8)
<1> DEFINE u == Recode(t, Lower)
<1>1. t.outbox = {} /\ t \in Tables
  BY DEF UpFails, Rows
<1>2. u = [t EXCEPT !.outbox = {}]
  BY <1>1 DEF Recode
<1> HIDE DEF u
<1>3. u \in Tables /\ u.payments = t.payments /\ u.billings = t.billings /\ u.outbox = {}
  BY <1>1, <1>2 DEF Tables
<1>4. Attempts(u, 8)
  BY <1>3 DEF Rows, Attempts, OfInvoice
<1>5. Rows(u, 8)
  BY <1>3, <1>4 DEF Rows
<1> QED BY <1>5 DEF Up, u

\* Every file that works leaves rows as its schema has them.
LEMMA UpRows ==
  ASSUME NEW t, NEW n \in 1..8, Rows(t, n - 1), ~UpFails(n, t)
  PROVE  Rows(Up(n, t), n)
<1>1. n \in 1..5 \/ n = 6 \/ n = 7 \/ n = 8
  OBVIOUS
<1>2. CASE n \in 1..5
  BY <1>2, EarlyFiles
<1>3. CASE n = 6
  BY <1>3, File6
<1>4. CASE n = 7
  BY <1>4, File7
<1>5. CASE n = 8
  BY <1>5, File8
<1> QED BY <1>1, <1>2, <1>3, <1>4, <1>5

\* 000008.down gives the statuses of the outbox their old names.
LEMMA FileDown8 ==
  ASSUME NEW t, Rows(t, 8)
  PROVE  Rows(Down(8, t), 7)
<1> DEFINE named == {[e EXCEPT !.status = InitCap[e.status]] : e \in t.outbox}
           u == Recode(t, InitCap)
<1>1. t \in Tables /\ t.outbox \in SUBSET Event /\ \A e \in t.outbox : e.status \in Codes
  BY DEF Rows, Tables
<1>2. u = [t EXCEPT !.outbox = named]
  BY DEF Recode
<1>3. \A e \in t.outbox : InitCap[e.status] \in Names
  BY <1>1 DEF Names
<1>4. \A e \in named : e \in Event /\ e.status \in Names
  BY <1>1, <1>3 DEF Event
<1> HIDE DEF u, named
<1>5. /\ u \in Tables /\ u.payments = t.payments /\ u.billings = t.billings
      /\ u.outbox = named
  BY <1>1, <1>2, <1>4 DEF Tables
<1>6. Attempts(u, 7)
  BY <1>5 DEF Rows, Attempts, OfInvoice
<1>7. \A e \in u.outbox : e.status \in Names
  BY <1>4, <1>5
<1>8. Rows(u, 7)
  BY <1>5, <1>6, <1>7 DEF Rows
<1> QED BY <1>8 DEF Down, u

\* 000007.down drops the attempts and the outbox.
LEMMA FileDown7 ==
  ASSUME NEW t, Rows(t, 7)
  PROVE  Rows(Down(7, t), 6)
<1> DEFINE f == [p \in t.payments |-> [p EXCEPT !.attempt = None]]
           g == [b \in t.billings |-> [b EXCEPT !.attempt = None]]
           P == {f[p] : p \in t.payments}
           B == {g[b] : b \in t.billings}
           u == [outbox |-> {}, payments |-> P, billings |-> B]
<1>1. /\ t \in Tables /\ PaymentRows(t.payments) /\ t.payments \in SUBSET Payment
      /\ BillingRows(t.payments, t.billings) /\ t.billings \in SUBSET Billing
      /\ \A p \in t.payments : \E b \in t.billings :
           b.id = p.billing /\ b.invoice = p.invoice
  BY DEF Rows, PaymentRows, BillingRows, Attempts
<1>2. Down(7, t) = u
  <2>1. P = {[p EXCEPT !.attempt = None] : p \in t.payments}
    OBVIOUS
  <2>2. B = {[b EXCEPT !.attempt = None] : b \in t.billings}
    OBVIOUS
  <2>3. Down(7, t) =
          [outbox |-> {},
           payments |-> {[p EXCEPT !.attempt = None] : p \in t.payments},
           billings |-> {[b EXCEPT !.attempt = None] : b \in t.billings}]
    BY DEF Down
  <2> HIDE DEF P, B
  <2> QED BY <2>1, <2>2, <2>3
<1>3. /\ f \in [t.payments -> Payment]
      /\ \A p \in t.payments : /\ f[p].id = p.id /\ f[p].invoice = p.invoice
                               /\ f[p].status = p.status /\ f[p].billing = p.billing
  BY <1>1 DEF Payment, None
<1>4. /\ g \in [t.billings -> Billing]
      /\ \A b \in t.billings : /\ g[b].id = b.id /\ g[b].invoice = b.invoice
                               /\ g[b].status = b.status
  BY <1>1 DEF Billing, None
<1> HIDE DEF f, g
<1>5. BillingRows(P, B)
  BY <1>1, <1>3, <1>4, UpdatedBillings
<1>6. PaymentRows(P)
  BY <1>1, <1>3, UpdatedPayments
<1>7. P \in SUBSET Payment /\ B \in SUBSET Billing
  BY <1>5, <1>6 DEF PaymentRows, BillingRows
<1>8. \A p \in P : \E b \in B : b.id = p.billing /\ b.invoice = p.invoice
  <2> TAKE p \in P
  <2>1. PICK q \in t.payments : p = f[q]
    OBVIOUS
  <2>2. PICK c \in t.billings : c.id = q.billing /\ c.invoice = q.invoice
    BY <1>1
  <2>3. g[c] \in B
    OBVIOUS
  <2> QED BY <1>3, <1>4, <2>1, <2>2, <2>3
<1> HIDE DEF P, B
<1>9. u \in Tables /\ u.payments = P /\ u.billings = B /\ u.outbox = {}
  BY <1>7 DEF Tables
<1> HIDE DEF u
<1>10. Attempts(u, 6)
  BY <1>8, <1>9 DEF Attempts
<1>11. Rows(u, 6)
  BY <1>5, <1>6, <1>9, <1>10 DEF Rows
<1> QED BY <1>2, <1>11

\* 000006.down unlinks the payments, where no invoice has two.
LEMMA FileDown6 ==
  ASSUME NEW t, Rows(t, 6), ~DownFails(6, t)
  PROVE  Rows(Down(6, t), 5)
<1> DEFINE f == [p \in t.payments |-> [p EXCEPT !.billing = None]]
           g == [b \in t.billings |-> b]
           P == {f[p] : p \in t.payments}
           u == Down(6, t)
<1>1. /\ t \in Tables /\ PaymentRows(t.payments) /\ t.payments \in SUBSET Payment
      /\ BillingRows(t.payments, t.billings) /\ t.billings \in SUBSET Billing
      /\ \A e \in t.outbox : e.status \in Names
      /\ IsFiniteSet(t.payments)
  BY DEF Rows, PaymentRows, BillingRows
<1>2. u = [t EXCEPT !.payments = P]
  <2>1. P = {[p EXCEPT !.billing = None] : p \in t.payments}
    OBVIOUS
  <2>2. u = [t EXCEPT !.payments = {[p EXCEPT !.billing = None] : p \in t.payments}]
    BY DEF Down
  <2> HIDE DEF P, u
  <2> QED BY <2>1, <2>2
<1>3. /\ f \in [t.payments -> Payment]
      /\ \A p \in t.payments : /\ f[p].id = p.id /\ f[p].invoice = p.invoice
                               /\ f[p].status = p.status
  BY <1>1 DEF Payment, None
<1>4. /\ g \in [t.billings -> Billing] /\ \A b \in t.billings : g[b] = b
      /\ t.billings = {g[b] : b \in t.billings}
  BY <1>1
<1> HIDE DEF f, g, u
<1>5. BillingRows(P, t.billings)
  <2>1. BillingRows(P, {g[b] : b \in t.billings})
    BY <1>1, <1>3, <1>4, UpdatedBillings
  <2> QED BY <1>4, <2>1
<1>6. PaymentRows(P)
  BY <1>1, <1>3, UpdatedPayments
<1>7. \A p, q \in P : p.invoice = q.invoice => p = q
  <2> SUFFICES ASSUME NEW p \in t.payments, NEW q \in t.payments,
                      p.invoice = q.invoice
               PROVE  p = q
    BY <1>3
  <2>1. p \in OfInvoice(t, p.invoice) /\ q \in OfInvoice(t, p.invoice)
          /\ p.invoice \in Invoices
    BY <1>1 DEF OfInvoice, Payment
  <2>2. OfInvoice(t, p.invoice) \subseteq t.payments
    BY DEF OfInvoice
  <2>3. ~(Cardinality(OfInvoice(t, p.invoice)) > 1)
    BY <2>1 DEF DownFails
  <2>4. IsFiniteSet(OfInvoice(t, p.invoice))
    BY <1>1, <2>2, CountSome
  <2> QED BY <2>1, <2>3, <2>4, AtMostOne
<1>8. P \in SUBSET Payment
  BY <1>6 DEF PaymentRows
<1> HIDE DEF P
<1>9. u \in Tables /\ u.payments = P /\ u.billings = t.billings /\ u.outbox = t.outbox
  BY <1>1, <1>2, <1>8 DEF Tables
<1>10. Attempts(u, 5)
  BY <1>7, <1>9 DEF Attempts
<1>11. \A e \in u.outbox : e.status \in Names
  BY <1>1, <1>9
<1> QED BY <1>5, <1>6, <1>9, <1>10, <1>11 DEF Rows, u

\* 000005.down drops the billings, 000004.down the payments, and the files before
\* them tables that are not modelled.
LEMMA EarlyFilesDown ==
  ASSUME NEW t, NEW n \in 1..5, Rows(t, n)
  PROVE  Rows(Down(n, t), n - 1)
<1> DEFINE u == Down(n, t)
<1>1. /\ t \in Tables /\ PaymentRows(t.payments) /\ BillingRows(t.payments, t.billings)
      /\ \A e \in t.outbox : e.status \in Names
      /\ \A p, q \in t.payments : p.invoice = q.invoice => p = q
      /\ n < 5 => t.billings = {}
  BY DEF Rows, Attempts
<1>2. n - 1 < 6 /\ ~(n - 1 >= 6) /\ ~(n - 1 >= 7) /\ n - 1 # 8
  OBVIOUS
<1>3. CASE n = 5
  <2>1. u = [t EXCEPT !.billings = {}]
    BY <1>3 DEF Down
  <2> HIDE DEF u
  <2>2. u \in Tables /\ u.payments = t.payments /\ u.billings = {} /\ u.outbox = t.outbox
    BY <1>1, <2>1 DEF Tables
  <2>3. BillingRows(u.payments, u.billings)
    BY <2>2 DEF BillingRows
  <2>4. Attempts(u, n - 1)
    BY <1>1, <1>2, <2>2 DEF Attempts
  <2>5. \A e \in u.outbox : e.status \in Names
    BY <1>1, <2>2
  <2> QED BY <1>1, <1>2, <2>2, <2>3, <2>4, <2>5 DEF Rows, u
<1>4. CASE n = 4
  <2>1. u = [t EXCEPT !.payments = {}]
    BY <1>4 DEF Down
  <2> HIDE DEF u
  <2>2. u \in Tables /\ u.payments = {} /\ u.billings = {} /\ u.outbox = t.outbox
    BY <1>1, <1>4, <2>1 DEF Tables
  <2>3. BillingRows(u.payments, u.billings)
    BY <2>2 DEF BillingRows
  <2>4. PaymentRows(u.payments)
    BY <2>2, FS_EmptySet, MigrationsAssumption DEF PaymentRows
  <2>5. Attempts(u, n - 1)
    BY <1>2, <2>2 DEF Attempts
  <2>6. \A e \in u.outbox : e.status \in Names
    BY <1>1, <2>2
  <2> QED BY <1>2, <2>2, <2>3, <2>4, <2>5, <2>6 DEF Rows, u
<1>5. CASE n \in 1..3
  <2>1. u = t
    BY <1>5 DEF Down
  <2> HIDE DEF u
  <2>2. Attempts(t, n - 1)
    BY <1>1, <1>2 DEF Attempts
  <2>3. t.billings = {}
    BY <1>1, <1>5
  <2>4. Rows(u, n - 1)
    BY <1>1, <1>2, <2>1, <2>2, <2>3 DEF Rows
  <2> QED BY <2>4 DEF u
<1> QED BY <1>3, <1>4, <1>5

\* Every rollback that works leaves rows as the schema before has them.
LEMMA DownRows ==
  ASSUME NEW t, NEW n \in 1..8, Rows(t, n), ~DownFails(n, t)
  PROVE  Rows(Down(n, t), n - 1)
<1>1. n \in 1..5 \/ n = 6 \/ n = 7 \/ n = 8
  OBVIOUS
<1>2. CASE n \in 1..5
  BY <1>2, EarlyFilesDown
<1>3. CASE n = 6
  BY <1>3, FileDown6
<1>4. CASE n = 7
  BY <1>4, FileDown7
<1>5. CASE n = 8
  BY <1>5, FileDown8
<1> QED BY <1>1, <1>2, <1>3, <1>4, <1>5

\* The next payment gets the next number.
LEMMA NextPayment ==
  ASSUME NEW payments, PaymentRows(payments), NEW n \in Payment,
         n.id = Cardinality(payments) + 1, n.id <= MaxPayments
  PROVE  /\ n \notin payments /\ PaymentRows(payments \cup {n})
<1>1. /\ Cardinality(payments) \in Nat /\ IsFiniteSet(payments)
      /\ \A p \in payments : p.id \in 1..Cardinality(payments)
  BY IdBounds DEF PaymentRows
<1>2. \A p \in payments : p.id # n.id
  BY <1>1
<1>3. n \notin payments
  BY <1>2
<1>4. /\ IsFiniteSet(payments \cup {n})
      /\ Cardinality(payments \cup {n}) = n.id
  BY <1>1, <1>3, FS_AddElement
<1>5. {p.id : p \in payments \cup {n}} = 1..n.id
  <2>1. {p.id : p \in payments \cup {n}} = {p.id : p \in payments} \cup {n.id}
    OBVIOUS
  <2>2. {p.id : p \in payments} = 1..Cardinality(payments)
    BY DEF PaymentRows
  <2>3. (1..Cardinality(payments)) \cup {n.id} = 1..n.id
    BY <1>1
  <2> QED BY <2>1, <2>2, <2>3
<1>6. \A p, q \in payments \cup {n} : p.id = q.id => p = q
  BY <1>2 DEF PaymentRows
<1>7. payments \cup {n} \in SUBSET Payment
  BY DEF PaymentRows
<1> QED BY <1>3, <1>4, <1>5, <1>6, <1>7 DEF PaymentRows

Own(t, i) == {b \in t.billings : b.invoice = i}

\* A payment n over billings: its billing m takes the place of the one its
\* invoice had, under its id, or is new.
Attempted(t, i, n, m) ==
  /\ i \in Invoices /\ n \in Payment /\ m \in Billing
  /\ n.id = Cardinality(t.payments) + 1 /\ n.id <= MaxPayments
  /\ n.invoice = i /\ n.billing = m.id /\ m.invoice = i /\ m.status = n.status
  /\ \A b \in Own(t, i) : b.status = "Failed"
  /\ Own(t, i) = {} => m.id = MaxPayments + n.id
  /\ Own(t, i) # {} => \E b \in Own(t, i) : m.id = b.id

\* What it leaves.
Placed(t, n, m, P, B) ==
  /\ BillingRows(P, B)
  /\ \A p \in P : \E b \in B : b.id = p.billing /\ b.invoice = p.invoice
  /\ \A p \in t.payments : p.billing = m.id => p.invoice = n.invoice

\* A payment keeps the billings in order.
LEMMA NextBilling ==
  ASSUME NEW t, NEW v, v \in {6, 7, 8}, Rows(t, v),
         NEW i, NEW n, NEW m, Attempted(t, i, n, m)
  PROVE  Placed(t, n, m, t.payments \cup {n}, (t.billings \ Own(t, i)) \cup {m})
<1> DEFINE own == Own(t, i)
           P == t.payments \cup {n}
           B == (t.billings \ own) \cup {m}
<1>0. own = {b \in t.billings : b.invoice = i}
  BY DEF Own
<1> HIDE DEF own
<1>a. /\ \A b \in own : b.status = "Failed"
      /\ own = {} => m.id = MaxPayments + n.id
      /\ own # {} => \E b \in own : m.id = b.id
  BY DEF own, Attempted
<1>b. /\ i \in Invoices /\ n \in Payment /\ m \in Billing
      /\ n.id = Cardinality(t.payments) + 1 /\ n.id <= MaxPayments
      /\ n.invoice = i /\ n.billing = m.id /\ m.invoice = i /\ m.status = n.status
  BY DEF Attempted
<1> USE <1>b
<1>1. /\ PaymentRows(t.payments) /\ BillingRows(t.payments, t.billings)
      /\ \A p \in t.payments : \E b \in t.billings :
           b.id = p.billing /\ b.invoice = p.invoice
  BY DEF Rows, Attempts
<1>2. /\ Cardinality(t.payments) \in Nat /\ MaxPayments \in Nat
      /\ \A p \in t.payments : p.id \in 1..Cardinality(t.payments)
      /\ \A p \in t.payments : p.id \in 1..MaxPayments
  BY <1>1, IdBounds
<1>3. \A b \in t.billings \ own : b.id # m.id
  <2> SUFFICES ASSUME NEW b \in t.billings \ own PROVE b.id # m.id
    OBVIOUS
  <2>1. CASE own = {}
    <3>1. PICK p \in t.payments : b.id = p.id \/ b.id = MaxPayments + p.id
      BY <1>1 DEF BillingRows
    <3>2. p.id # MaxPayments + n.id /\ MaxPayments + p.id # MaxPayments + n.id
      BY <1>2
    <3> QED BY <1>a, <2>1, <3>1, <3>2
  <2>2. CASE own # {}
    <3>1. PICK c \in own : m.id = c.id
      BY <1>a, <2>2
    <3>2. c \in t.billings /\ c # b
      BY <1>0
    <3> QED BY <1>1, <3>1, <3>2 DEF BillingRows
  <2> QED BY <2>1, <2>2
<1>4. \A b \in own : b.id = m.id /\ b.invoice = i
  BY <1>0, <1>a, <1>1 DEF BillingRows
<1>5. \A b \in t.billings \ own : b.invoice # i
  BY <1>0
<1>6. \A p \in t.payments : p.invoice = i => p.status # "Approved"
  <2> SUFFICES ASSUME NEW p \in t.payments, p.invoice = i PROVE p.status # "Approved"
    OBVIOUS
  <2>1. PICK b \in t.billings : b.invoice = p.invoice
    BY <1>1
  <2>2. b.status = "Failed"
    BY <1>0, <1>a, <2>1
  <2> QED BY <1>1, <2>1, <2>2 DEF BillingRows
<1>7. \A p \in t.payments : p.billing = m.id => p.invoice = i
  <2> TAKE p \in t.payments
  <2>1. PICK b \in t.billings : b.id = p.billing /\ b.invoice = p.invoice
    BY <1>1
  <2> QED BY <1>3, <1>4, <2>1
<1>8. \A p \in P : \E b \in B : b.id = p.billing /\ b.invoice = p.invoice
  <2> TAKE p \in P
  <2>1. CASE p = n
    BY <2>1
  <2>2. CASE p \in t.payments
    <3>1. PICK b \in t.billings : b.id = p.billing /\ b.invoice = p.invoice
      BY <1>1, <2>2
    <3> QED BY <1>4, <3>1
  <2> QED BY <2>1, <2>2
<1>9. \E p \in P : p.invoice = i /\ (m.id = p.id \/ m.id = MaxPayments + p.id)
  <2>1. CASE own = {}
    BY <1>a, <2>1
  <2>2. CASE own # {}
    <3>1. PICK b \in own : m.id = b.id /\ b \in t.billings /\ b.invoice = i
      BY <1>0, <1>a, <2>2
    <3>2. PICK p \in t.payments :
            p.invoice = b.invoice /\ (b.id = p.id \/ b.id = MaxPayments + p.id)
      BY <1>1, <3>1 DEF BillingRows
    <3> QED BY <3>1, <3>2
  <2> QED BY <2>1, <2>2
<1>10. \A a, b \in B : a.id = b.id \/ a.invoice = b.invoice => a = b
  BY <1>1, <1>3, <1>5 DEF BillingRows
<1>11. \A b \in B : \E p \in P :
         p.invoice = b.invoice /\ (b.id = p.id \/ b.id = MaxPayments + p.id)
  <2> TAKE b \in B
  <2>1. CASE b = m
    BY <1>9, <2>1
  <2>2. CASE b \in t.billings
    BY <1>1, <2>2 DEF BillingRows
  <2> QED BY <2>1, <2>2
<1>12. \A b \in B, p \in P :
         b.invoice = p.invoice /\ p.status = "Approved" => b.status = "Approved"
  <2> TAKE b \in B, p \in P
  <2>1. CASE b = m
    BY <1>6, <2>1
  <2>2. CASE b \in t.billings \ own
    BY <1>1, <1>5, <2>2 DEF BillingRows
  <2> QED BY <2>1, <2>2
<1>13. B \in SUBSET Billing
  BY <1>1 DEF BillingRows
<1> HIDE DEF P, B
<1>14. BillingRows(P, B)
  BY <1>10, <1>11, <1>12, <1>13 DEF BillingRows
<1> QED BY <1>7, <1>8, <1>14 DEF P, B, own, Placed

\* The next attempt is above the ones of its invoice.
LEMMA NextAttempt ==
  ASSUME NEW t, NEW v \in {7, 8}, Rows(t, v), NEW u, NEW n,
         n \notin t.payments, u.payments = t.payments \cup {n},
         n.attempt = 1 + Cardinality(OfInvoice(t, n.invoice)),
         \A p \in t.payments : p.billing = n.billing => p.invoice = n.invoice
  PROVE  /\ \A p \in u.payments :
              p.attempt \in 1..Cardinality(OfInvoice(u, p.invoice))
         /\ \A p, q \in u.payments :
              p.billing = q.billing /\ p.attempt = q.attempt => p = q
<1> DEFINE i == n.invoice
           k == Cardinality(OfInvoice(t, i))
<1>1. /\ IsFiniteSet(t.payments)
      /\ \A p \in t.payments : p.attempt \in 1..Cardinality(OfInvoice(t, p.invoice))
      /\ \A p, q \in t.payments :
           p.billing = q.billing /\ p.attempt = q.attempt => p = q
  BY DEF Rows, PaymentRows, Attempts
<1>2. /\ OfInvoice(u, i) = OfInvoice(t, i) \cup {n}
      /\ n \notin OfInvoice(t, i) /\ OfInvoice(t, i) \subseteq t.payments
  BY DEF OfInvoice
<1>3. IsFiniteSet(OfInvoice(t, i)) /\ k \in Nat
  BY <1>1, <1>2, CountSome
<1>4. Cardinality(OfInvoice(u, i)) = k + 1
  BY <1>2, <1>3, FS_AddElement
<1>5. \A p \in t.payments : p.invoice # i => OfInvoice(u, p.invoice) = OfInvoice(t, p.invoice)
  BY DEF OfInvoice
<1> HIDE DEF k
<1>6. \A p \in t.payments : p.invoice = i => p.attempt \in 1..k
  BY <1>1 DEF k
<1>7. n.attempt = 1 + k
  BY DEF k
<1>8. \A p \in u.payments : p.attempt \in 1..Cardinality(OfInvoice(u, p.invoice))
  <2> TAKE p \in u.payments
  <2>1. CASE p.invoice = i
    <3>1. p.attempt \in 1..(k + 1)
      BY <1>3, <1>6, <1>7, <2>1
    <3> QED BY <1>4, <2>1, <3>1
  <2>2. CASE p.invoice # i
    BY <1>1, <1>5, <2>2
  <2> QED BY <2>1, <2>2
<1>9. \A p \in t.payments : ~(p.billing = n.billing /\ p.attempt = n.attempt)
  BY <1>3, <1>6, <1>7
<1> QED BY <1>1, <1>8, <1>9

\* The codes of the outbox, and the names that schema 7 has for them.
LEMMA RecordedRows ==
  ASSUME NEW id \in Nat, NEW code \in DOMAIN InitCap
  PROVE  \A e \in Recorded(id, code) :
           e \in Event /\ e.status \in IF schema = 8 THEN Codes ELSE
                            IF schema = 7 THEN Names ELSE Codes
<1>1. InitCap[code] \in Names /\ code \in Codes
  BY DEF Names, Codes
<1> QED BY <1>1 DEF Recorded, Event

\* A payment of the traffic keeps the rows as its schema has them.
LEMMA PayRows ==
  ASSUME MInv, NEW i \in Invoices, NEW status \in {"Approved", "Failed"},
         NEW code \in DOMAIN InitCap, Pay(i, status, code)
  PROVE  Rows(tables', schema)
<1> DEFINE id == Cardinality(Payments) + 1
           own == {b \in tables.billings : b.invoice = i}
           attempt == IF schema < 7 THEN None
                      ELSE 1 + Cardinality(OfInvoice(tables, i))
           billing == CASE schema = 4 -> None
                        [] schema # 4 /\ own = {} -> MaxPayments + id
                        [] OTHER -> (CHOOSE b \in own : TRUE).id
           n == [id |-> id, invoice |-> i, billing |-> billing, attempt |-> attempt,
                 status |-> status]
           m == [id |-> billing, invoice |-> i, attempt |-> attempt, status |-> status]
           P == Payments \cup {n}
           B == IF schema = 4 THEN tables.billings
                ELSE (tables.billings \ own) \cup {m}
           O == tables.outbox \cup Recorded(id, code)
           u == [payments |-> P, billings |-> B, outbox |-> O]
<1>1. /\ Rows(tables, schema) /\ tables \in Tables /\ PaymentRows(Payments)
      /\ Payments = tables.payments
      /\ BillingRows(tables.payments, tables.billings)
      /\ IsFiniteSet(Payments) /\ MaxPayments \in Nat
  BY MigrationsAssumption DEF MInv, Rows, PaymentRows, Payments
<1>2. schema \in {4, 6, 7, 8}
  BY MigrationsAssumption DEF Pay
<1>3. tables' = u /\ id <= MaxPayments
  BY DEF Pay
<1>4. schema # 4 => \A b \in own : b.status = "Failed"
  BY DEF Pay
<1>5. schema = 4 => OfInvoice(tables, i) = {}
  BY DEF Pay
<1>6. Cardinality(Payments) \in Nat /\ id \in Nat
  BY <1>1, IdBounds
<1>7. attempt \in Nat
  <2>1. OfInvoice(tables, i) \subseteq Payments
    BY DEF OfInvoice, Payments
  <2>2. Cardinality(OfInvoice(tables, i)) \in Nat
    BY <1>1, <2>1, CountSome
  <2> QED BY <2>2 DEF None
<1>8. /\ schema # 4 /\ own = {} => billing = MaxPayments + id
      /\ schema # 4 /\ own # {} => \E b \in own : billing = b.id
      /\ billing \in Nat
  <2>1. \A b \in own : b.id \in Nat
    BY <1>1 DEF BillingRows, Billing
  <2>2. CASE schema = 4
    BY <2>2 DEF None
  <2>3. CASE schema # 4 /\ own = {}
    <3>1. billing = MaxPayments + id
      BY <2>3
    <3> QED BY <1>1, <1>6, <2>3, <3>1
  <2>4. CASE schema # 4 /\ own # {}
    <3>1. billing = (CHOOSE b \in own : TRUE).id
      BY <2>4
    <3>2. (CHOOSE b \in own : TRUE) \in own
      BY <2>4
    <3> HIDE DEF own, billing
    <3> QED BY <2>1, <2>4, <3>1, <3>2
  <2> QED BY <2>2, <2>3, <2>4
<1>9. O \in SUBSET Event /\ \A e \in O : e.status \in IF schema = 8 THEN Codes ELSE Names
  <2>1. \A e \in Recorded(id, code) :
          e \in Event /\ e.status \in IF schema = 8 THEN Codes ELSE
                            IF schema = 7 THEN Names ELSE Codes
    BY <1>6, RecordedRows
  <2>2. schema < 7 => Recorded(id, code) = {}
    BY DEF Recorded
  <2>3. \A e \in Recorded(id, code) :
          e \in Event /\ e.status \in IF schema = 8 THEN Codes ELSE Names
    BY <1>2, <2>1, <2>2
  <2>4. /\ tables.outbox \in SUBSET Event
        /\ \A e \in tables.outbox : e.status \in IF schema = 8 THEN Codes ELSE Names
    BY <1>1 DEF Rows, Tables
  <2> QED BY <2>3, <2>4
<1> HIDE DEF id, attempt, billing, O
<1>10. /\ n \in Payment /\ n.id = id /\ n.invoice = i /\ n.billing = billing
       /\ n.attempt = attempt /\ n.status = status
  BY <1>6, <1>7, <1>8 DEF Payment
<1>11. /\ m \in Billing /\ m.id = billing /\ m.invoice = i /\ m.status = status
  BY <1>7, <1>8 DEF Billing
<1> HIDE DEF n, m
<1>12. n \notin Payments /\ PaymentRows(P)
  BY <1>1, <1>3, <1>10, NextPayment DEF id
<1>13. P \in SUBSET Payment
  BY <1>12 DEF PaymentRows
<1>14. CASE schema = 4
  <2>1. tables.billings = {} /\ \A p, q \in Payments : p.invoice = q.invoice => p = q
    BY <1>1, <1>14 DEF Rows, Attempts
  <2>2. B = {}
    BY <1>14, <2>1
  <2> HIDE DEF B, P
  <2>3. u \in Tables /\ u.payments = P /\ u.billings = {} /\ u.outbox = O
    BY <1>9, <1>13, <2>2 DEF Tables
  <2> HIDE DEF u
  <2>4. \A p, q \in P : p.invoice = q.invoice => p = q
    BY <1>1, <1>5, <1>10, <1>14, <2>1 DEF OfInvoice, P
  <2>5. Attempts(u, 4)
    BY <2>3, <2>4 DEF Attempts
  <2>6. BillingRows(P, {})
    BY DEF BillingRows
  <2>7. \A e \in O : e.status \in Names
    BY <1>9, <1>14
  <2>8. Rows(u, 4)
    BY <1>12, <2>3, <2>5, <2>6, <2>7 DEF Rows
  <2> QED BY <1>3, <1>14, <2>8
<1>15. CASE schema # 4
  <2>0. schema \in {6, 7, 8}
    BY <1>2, <1>15
  <2>1. B = (tables.billings \ own) \cup {m}
    BY <1>15
  <2>2. /\ own = {} => m.id = MaxPayments + n.id
        /\ own # {} => \E b \in own : m.id = b.id
    BY <1>8, <1>10, <1>11, <1>15
  <2>3. n.id = Cardinality(tables.payments) + 1 /\ n.id <= MaxPayments
    BY <1>1, <1>3, <1>10 DEF id
  <2>4. \A b \in own : b.status = "Failed"
    BY <1>4, <1>15
  <2>5. own = Own(tables, i)
    BY DEF Own
  <2> HIDE DEF own, B
  <2>6. /\ BillingRows(P, B)
        /\ \A p \in P : \E b \in B : b.id = p.billing /\ b.invoice = p.invoice
        /\ \A p \in tables.payments : p.billing = m.id => p.invoice = i
    <3> DEFINE Q == tables.payments \cup {n}
               C == (tables.billings \ Own(tables, i)) \cup {m}
    <3>1. /\ n.billing = m.id /\ m.status = n.status /\ m.invoice = i
          /\ n \in Payment /\ m \in Billing /\ n.invoice = i
          /\ Rows(tables, schema)
          /\ \A b \in Own(tables, i) : b.status = "Failed"
          /\ Own(tables, i) = {} => m.id = MaxPayments + n.id
          /\ Own(tables, i) # {} => \E b \in Own(tables, i) : m.id = b.id
      BY <1>1, <1>10, <1>11, <2>2, <2>4, <2>5
    <3>2. Attempted(tables, i, n, m)
      BY <2>3, <3>1 DEF Attempted
    <3>3. Placed(tables, n, m, Q, C)
      BY <2>0, <3>1, <3>2, NextBilling
    <3>4. P = Q /\ B = C
      BY <1>1, <2>1, <2>5
    <3> HIDE DEF P, Q, C
    <3> QED BY <3>1, <3>3, <3>4 DEF Placed
  <2>7. B \in SUBSET Billing
    BY <2>6 DEF BillingRows
  <2>8. P = tables.payments \cup {n}
    BY <1>1
  <2> HIDE DEF P
  <2>9. u \in Tables /\ u.payments = P /\ u.billings = B /\ u.outbox = O
    BY <1>9, <1>13, <2>7 DEF Tables
  <2> HIDE DEF u
  <2>10. schema >= 7 =>
           /\ \A p \in u.payments :
                p.attempt \in 1..Cardinality(OfInvoice(u, p.invoice))
           /\ \A p, q \in u.payments :
                p.billing = q.billing /\ p.attempt = q.attempt => p = q
    <3> SUFFICES ASSUME schema >= 7
                 PROVE  /\ \A p \in u.payments :
                             p.attempt \in 1..Cardinality(OfInvoice(u, p.invoice))
                        /\ \A p, q \in u.payments :
                             p.billing = q.billing /\ p.attempt = q.attempt => p = q
      OBVIOUS
    <3>1. schema \in {7, 8}
      BY <2>0
    <3>2. n.attempt = 1 + Cardinality(OfInvoice(tables, n.invoice))
      BY <1>10, <3>1 DEF attempt
    <3>3. n \notin tables.payments /\ u.payments = tables.payments \cup {n}
      BY <1>1, <1>12, <2>8, <2>9
    <3>4. \A p \in tables.payments : p.billing = n.billing => p.invoice = n.invoice
      BY <1>10, <1>11, <2>6
    <3> QED BY <1>1, <3>1, <3>2, <3>3, <3>4, NextAttempt
  <2>11. Attempts(u, schema)
    BY <2>0, <2>6, <2>9, <2>10 DEF Attempts
  <2>12. Rows(u, schema)
    BY <1>9, <1>12, <2>0, <2>6, <2>9, <2>11 DEF Rows
  <2> QED BY <1>3, <2>12
<1> QED BY <1>14, <1>15

-----------------------------------------------------------------------------
(* The theorems                                                             *)

\* No table, no row, no command.
LEMMA InitMigrations == Init => MInv
<1> SUFFICES ASSUME Init PROVE MInv
  OBVIOUS
<1>1. NewCommand \in Command
  BY DEF NewCommand, Command, None, Working
<1>2. NewCommand.phase = "idle"
  BY DEF NewCommand
<1>3. command \in [Commands -> Command] /\ \A c \in Commands : command[c] = NewCommand
  BY <1>1 DEF Init
<1>4. Control
  <2>1. version = 0 /\ dirty = FALSE /\ schema = 0 /\ lock = None
    BY DEF Init
  <2>2. None \notin Commands
    BY MigrationsAssumption
  <2>3. \A c \in Commands : Standing(c)
    BY <1>2, <1>3, <2>1, <2>2 DEF Standing, Working
  <2>4. version \in 0..8 /\ schema \in 0..8 /\ lock \in Commands \cup {None}
    BY <2>1
  <2>5. dirty \in BOOLEAN /\ CleanMeansApplied
    BY <2>1 DEF CleanMeansApplied
  <2> QED BY <1>3, <2>3, <2>4, <2>5 DEF Control
<1>5. Rows(tables, 0)
  <2>1. /\ tables \in Tables /\ tables.payments = {} /\ tables.billings = {}
        /\ tables.outbox = {}
    BY DEF Init, Tables
  <2>2. PaymentRows({})
    BY FS_EmptySet, MigrationsAssumption DEF PaymentRows
  <2>3. BillingRows({}, {})
    BY DEF BillingRows
  <2>4. Attempts(tables, 0)
    BY <2>1 DEF Attempts
  <2> QED BY <2>1, <2>2, <2>3, <2>4 DEF Rows
<1> QED BY <1>4, <1>5 DEF MInv, Init

\* A file changes the rows and the schema together.
LEMMA RunFileRows ==
  ASSUME MInv, NEW c \in Commands, RunFile(c)
  PROVE  Rows(tables, schema)'
<1>1. /\ Control /\ Rows(tables, schema)
      /\ command[c].phase = "body" /\ command[c].phase \in Working
  BY DEF MInv, RunFile, Working
<1>2. /\ command[c].direction \in {"up", "down"} /\ version \in 0..8 /\ schema \in 0..8
      /\ command[c].direction = "up" => version = schema + 1
      /\ command[c].direction = "down" => version + 1 = schema
  BY <1>1, Holder DEF Standing
<1>3. CASE FileFails(c)
  <2>1. UNCHANGED <<schema, tables>>
    BY <1>3 DEF RunFile
  <2> QED BY <1>1, <2>1
<1>4. CASE ~FileFails(c) /\ command[c].direction = "up"
  <2>1. schema' = version /\ tables' = Up(version, tables) /\ ~UpFails(version, tables)
    BY <1>4 DEF RunFile, FileFails
  <2>2. version \in 1..8 /\ schema = version - 1
    BY <1>2, <1>4
  <2>3. Rows(Up(version, tables), version)
    BY <1>1, <2>1, <2>2, UpRows
  <2> QED BY <2>1, <2>3
<1>5. CASE ~FileFails(c) /\ command[c].direction = "down"
  <2>1. /\ schema' = version /\ tables' = Down(version + 1, tables)
        /\ ~DownFails(version + 1, tables)
    BY <1>5 DEF RunFile, FileFails
  <2>2. version + 1 \in 1..8 /\ schema = version + 1 /\ version = (version + 1) - 1
    BY <1>2, <1>5
  <2>3. Rows(Down(schema, tables), schema - 1)
    BY <1>1, <2>1, <2>2, DownRows
  <2> QED BY <2>1, <2>2, <2>3
<1> QED BY <1>2, <1>3, <1>4, <1>5

\* Every step keeps the invariant.
LEMMA NextMigrations == MInv /\ [Next]_vars => MInv'
<1> SUFFICES ASSUME MInv, [Next]_vars PROVE MInv'
  OBVIOUS
<1>0. Control /\ Rows(tables, schema)
  BY DEF MInv
<1>1. CASE UNCHANGED vars
  <2>1. /\ version' = version /\ dirty' = dirty /\ schema' = schema /\ lock' = lock
        /\ command' = command /\ tables' = tables
    BY <1>1 DEF vars, marks
  <2>2. Control'
    BY <1>0, <2>1 DEF Control, Standing, CleanMeansApplied
  <2> QED BY <1>0, <2>1, <2>2 DEF MInv
<1>2. ASSUME NEW c \in Commands, Run(c) \/ Step(c) \/ Kill(c) PROVE MInv'
  <2>1. CASE RunFile(c)
    BY <1>0, <2>1, HolderControl, RunFileRows DEF MInv
  <2>2. CASE Run(c) \/ Lock(c) \/ SetVersion(c) \/ NoMoreFiles(c) \/ MarkClean(c)
               \/ Kill(c)
    <3>1. Control'
      BY <1>0, <2>2, RunControl, LockControl, HolderControl
    <3>2. schema' = schema /\ tables' = tables
      BY <2>2 DEF Run, Lock, SetVersion, NoMoreFiles, MarkClean, Kill
    <3> QED BY <1>0, <3>1, <3>2 DEF MInv
  <2> QED BY <1>2, <2>1, <2>2 DEF Step
<1>3. ASSUME NEW i \in Invoices, NEW status \in {"Approved", "Failed"},
             NEW code \in DOMAIN InitCap, Pay(i, status, code)
      PROVE  MInv'
  <2>1. /\ version' = version /\ dirty' = dirty /\ schema' = schema /\ lock' = lock
        /\ command' = command
    BY <1>3 DEF Pay, marks
  <2>2. Control'
    BY <1>0, <2>1 DEF Control, Standing, CleanMeansApplied
  <2>3. Rows(tables', schema)
    BY <1>3, PayRows
  <2> QED BY <2>1, <2>2, <2>3 DEF MInv
<1> QED BY <1>1, <1>2, <1>3 DEF Next

\* The commands, the marks and the rows keep MInv.
THEOREM MigrationsInvariant == Spec => []MInv
<1>1. Init => MInv
  BY InitMigrations
<1>2. MInv /\ [Next]_vars => MInv'
  BY NextMigrations
<1> QED BY <1>1, <1>2, PTL DEF Spec

\* A database that is not marked dirty is at the version its mark names, wherever
\* a command was killed, a file failed or two commands met.
THEOREM CleanMeansAppliedHolds == Spec => []CleanMeansApplied
<1>1. MInv => CleanMeansApplied
  BY DEF MInv, Control
<1> QED BY <1>1, MigrationsInvariant, PTL

\* The rows keep their meaning across the migrations and the traffic between them.
THEOREM RowsConsistentHolds == Spec => []RowsConsistent
<1>1. ASSUME MInv PROVE RowsConsistent
  <2>1. /\ Rows(tables, schema) /\ schema \in 0..8 /\ Attempts(tables, schema)
        /\ BillingRows(tables.payments, tables.billings)
        /\ Payments = tables.payments
    BY <1>1 DEF MInv, Control, Rows, Payments
  <2>2. schema >= 6 =>
          \A p \in Payments : \E b \in tables.billings :
            /\ b.id = p.billing /\ b.invoice = p.invoice
            /\ p.status = "Approved" => b.status = "Approved"
    BY <2>1 DEF Attempts, BillingRows
  <2>3. schema >= 7 =>
          \A p, q \in Payments :
            p.billing = q.billing /\ p.attempt = q.attempt => p = q
    BY <2>1 DEF Attempts
  <2>4. \A e \in tables.outbox : e.status \in
          IF schema = 8 THEN DOMAIN InitCap ELSE {InitCap[c] : c \in DOMAIN InitCap}
    BY <2>1 DEF Rows, Codes, Names
  <2> QED BY <2>2, <2>3, <2>4 DEF RowsConsistent
<1> QED BY <1>1, MigrationsInvariant, PTL

\* Only a command that went through all its files, on a clean database, ends
\* with exit code 0.
LEMMA ExitStep ==
  ASSUME MInv, [Next]_vars, NEW c \in Commands,
         command[c].phase # "exited", command'[c].phase = "exited",
         command'[c].exit = 0
  PROVE  ~dirty' /\ version' = IF command[c].direction = "up" THEN command[c].last ELSE 0
<1>0. Control /\ command \in [Commands -> Command] /\ command[c] \in Command
        /\ Standing(c)
  BY DEF MInv, Control
<1>1. command'[c] # command[c]
  OBVIOUS
<1>2. PICK d \in Commands : Run(d) \/ Step(d) \/ Kill(d)
  <2>1. \A i \in Invoices, status \in {"Approved", "Failed"}, code \in DOMAIN InitCap :
          Pay(i, status, code) => command' = command
    BY DEF Pay
  <2>2. ~UNCHANGED vars
    BY <1>1 DEF vars
  <2> QED BY <1>1, <2>1, <2>2 DEF Next
<1>3. d = c
  BY <1>0, <1>1, <1>2 DEF Run, Step, Lock, SetVersion, NoMoreFiles, RunFile, MarkClean,
                          Kill, Exit
<1>4. ASSUME NEW err, Exit(c, err) PROVE err \in {"nil", "ErrNoChange"}
  <2>1. PICK code \in {0, 1} :
           /\ code = IF err \in {"nil", "ErrNoChange"} THEN 0 ELSE 1
           /\ command' = [command EXCEPT ![c] =
                            [command[c] EXCEPT !.phase = "exited", !.exit = code]]
    BY <1>0, <1>4, ExitEnds
  <2>2. command'[c].exit = code
    BY <1>0, <2>1 DEF Command
  <2> QED BY <2>1, <2>2
<1>5. ~Run(c)
  BY <1>0 DEF Run
<1>6. ~Lock(c)
  BY <1>0, <1>4 DEF Lock, Command
<1>7. ~(SetVersion(c) \/ MarkClean(c))
  BY <1>0 DEF SetVersion, MarkClean, Command
<1>8. ~RunFile(c)
  BY <1>0, <1>4 DEF RunFile, Command
<1>9. ~Kill(c)
  BY <1>0 DEF Kill, Command
<1>10. NoMoreFiles(c)
  BY <1>2, <1>3, <1>5, <1>6, <1>7, <1>8, <1>9 DEF Step
<1>11. AtEnd(c) /\ command[c].phase = "step" /\ version' = version /\ dirty' = dirty
  BY <1>10 DEF NoMoreFiles, marks
<1>12. ~dirty
  BY <1>0, <1>11 DEF Standing
<1> QED BY <1>11, <1>12 DEF AtEnd

\* A command that reports success has brought the database where it was to be.
THEOREM ExitTruthfulHolds == Spec => ExitTruthful
<1>1. MInv /\ [Next]_vars =>
        [\A c \in Commands :
           command[c].phase # "exited" /\ command'[c].phase = "exited"
             /\ command'[c].exit = 0 =>
               ~dirty' /\ version' = IF command[c].direction = "up"
                                       THEN command[c].last ELSE 0]_vars
  BY ExitStep
<1> QED BY <1>1, MigrationsInvariant, PTL DEF Spec, ExitTruthful

\* The rows before and after a file that goes up.
Keeps(t, u) ==
  /\ {p.id : p \in t.payments} = {p.id : p \in u.payments}
  /\ {b.id : b \in t.billings} \subseteq {b.id : b \in u.billings}
  /\ {e.id : e \in t.outbox} = {e.id : e \in u.outbox}

\* No file that goes up deletes a row.
LEMMA UpKeeps ==
  ASSUME NEW t, NEW v, Rows(t, v), NEW n \in 1..8, ~UpFails(n, t)
  PROVE  Keeps(t, Up(n, t))
<1>1. /\ t \in Tables /\ t.payments \in SUBSET Payment /\ t.billings \in SUBSET Billing
      /\ t.outbox \in SUBSET Event
  BY DEF Rows, Tables
<1>2. CASE n = 6
  <2> DEFINE missing == {p \in t.payments : \A b \in t.billings : b.invoice # p.invoice}
             status(p) == IF p.status = "Approved" THEN "Approved" ELSE "Failed"
             made == {[id |-> p.id, invoice |-> p.invoice, attempt |-> None,
                       status |-> status(p)] : p \in missing}
             P == {[p EXCEPT !.billing = p.id] : p \in t.payments}
             B == t.billings \cup made
             u == Up(6, t)
  <2>1. u = [t EXCEPT !.billings = B, !.payments = P]
    BY DEF Up, Up6
  <2>2. {p.id : p \in P} = {p.id : p \in t.payments}
    <3>1. \A p \in t.payments : [p EXCEPT !.billing = p.id].id = p.id
      BY <1>1 DEF Payment
    <3> QED BY <3>1
  <2> HIDE DEF P, made, u
  <2>3. u.payments = P /\ u.billings = B /\ u.outbox = t.outbox
    BY <1>1, <2>1 DEF Tables
  <2> QED BY <1>2, <2>2, <2>3 DEF Keeps, u
<1>3. CASE n = 7
  <2> DEFINE P == {[p EXCEPT !.attempt = 1] : p \in t.payments}
             B == {[b EXCEPT !.attempt = 1] : b \in t.billings}
             u == Up(7, t)
  <2>1. u = [t EXCEPT !.payments = P, !.billings = B]
    BY DEF Up, Up7
  <2>2. {p.id : p \in P} = {p.id : p \in t.payments}
    <3>1. \A p \in t.payments : [p EXCEPT !.attempt = 1].id = p.id
      BY <1>1 DEF Payment
    <3> QED BY <3>1
  <2>3. {b.id : b \in B} = {b.id : b \in t.billings}
    <3>1. \A b \in t.billings : [b EXCEPT !.attempt = 1].id = b.id
      BY <1>1 DEF Billing
    <3> QED BY <3>1
  <2> HIDE DEF P, B, u
  <2>4. u.payments = P /\ u.billings = B /\ u.outbox = t.outbox
    BY <1>1, <2>1 DEF Tables
  <2> QED BY <1>3, <2>2, <2>3, <2>4 DEF Keeps, u
<1>4. CASE n = 8
  <2> DEFINE u == Up(8, t)
  <2>1. t.outbox = {}
    BY <1>4 DEF UpFails
  <2>2. u = [t EXCEPT !.outbox = {}]
    BY <2>1 DEF Up, Recode
  <2> HIDE DEF u
  <2>3. u.payments = t.payments /\ u.billings = t.billings /\ u.outbox = {}
    BY <1>1, <2>2 DEF Tables
  <2> QED BY <1>4, <2>1, <2>3 DEF Keeps, u
<1>5. CASE n \in 1..5
  <2>1. Up(n, t) = t
    BY <1>5 DEF Up
  <2> QED BY <2>1 DEF Keeps
<1> QED BY <1>2, <1>3, <1>4, <1>5

\* The schema goes up with a file of an upgrade only.
LEMMA UpgradeStep ==
  ASSUME MInv, [Next]_vars, schema' > schema
  PROVE  Keeps(tables, tables')
<1>0. Control /\ Rows(tables, schema) /\ schema \in 0..8
  BY DEF MInv, Control
<1>1. schema' # schema
  BY <1>0
<1>2. PICK c \in Commands : RunFile(c)
  BY <1>1 DEF Next, Step, vars, Run, Lock, SetVersion, NoMoreFiles, MarkClean, Kill, Pay
<1>3. /\ command[c].phase = "body" /\ command[c].phase \in Working
  BY <1>2 DEF RunFile, Working
<1>4. /\ command[c].direction \in {"up", "down"} /\ version \in 0..8
      /\ command[c].direction = "up" => version = schema + 1
      /\ command[c].direction = "down" => version + 1 = schema
  BY <1>0, <1>3, Holder DEF Standing
<1>5. ~FileFails(c) /\ schema' = version
  BY <1>1, <1>2 DEF RunFile
<1>6. command[c].direction = "up" /\ version \in 1..8
  BY <1>0, <1>4, <1>5
<1>7. tables' = Up(version, tables) /\ ~UpFails(version, tables)
  BY <1>2, <1>5, <1>6 DEF RunFile, FileFails
<1> QED BY <1>0, <1>6, <1>7, UpKeeps

\* An upgrade drops no payment, no billing and no event.
THEOREM UpgradeKeepsRowsHolds == Spec => UpgradeKeepsRows
<1>1. MInv /\ [Next]_vars =>
        [schema' > schema =>
           /\ {p.id : p \in Payments} = {p.id : p \in tables'.payments}
           /\ {b.id : b \in tables.billings} \subseteq {b.id : b \in tables'.billings}
           /\ {e.id : e \in tables.outbox} = {e.id : e \in tables'.outbox}]_vars
  BY UpgradeStep DEF Keeps, Payments
<1> QED BY <1>1, MigrationsInvariant, PTL DEF Spec, UpgradeKeepsRows

-----------------------------------------------------------------------------
(* What a database gets stuck on                                            *)

\* An invoice that was paid in more than one attempt.
PaidTwice(t) == \E i \in Invoices : Cardinality(OfInvoice(t, i)) > 1

\* Without billings 000006 finds one for every payment.
LEMMA File6Works ==
  ASSUME NEW t \in Tables, t.billings = {}
  PROVE  ~UpFails(6, t)
<1> DEFINE missing == {p \in t.payments : \A b \in t.billings : b.invoice # p.invoice}
           status(p) == IF p.status = "Approved" THEN "Approved" ELSE "Failed"
           row(p) == [id |-> p.id, invoice |-> p.invoice, attempt |-> None,
                      status |-> status(p)]
           made == {row(p) : p \in missing}
           B == t.billings \cup made
           P == {[p EXCEPT !.billing = p.id] : p \in t.payments}
           u == Up6(t)
<1>1. u = [t EXCEPT !.billings = B, !.payments = P]
  BY DEF Up6
<1>2. \A p \in t.payments : [p EXCEPT !.billing = p.id].id = p.id
  BY DEF Tables, Payment
<1>3. missing = t.payments
  OBVIOUS
<1>4. \A p \in t.payments : row(p) \in B /\ row(p).id = p.id
  BY <1>3
<1> HIDE DEF B
<1>5. \A q \in P : \E b \in B : b.id = q.id
  <2> SUFFICES ASSUME NEW q \in P PROVE \E b \in B : b.id = q.id
    OBVIOUS
  <2>1. PICK p \in t.payments : q = [p EXCEPT !.billing = p.id]
    OBVIOUS
  <2> HIDE DEF P, row
  <2> QED BY <1>2, <1>4, <2>1
<1> HIDE DEF P, u
<1>6. u.payments = P /\ u.billings = B
  BY <1>1 DEF Tables
<1> QED BY <1>5, <1>6 DEF UpFails, u

\* 000007 fails where a billing has two payments, which are of one invoice.
LEMMA File7Fails ==
  ASSUME NEW t, Rows(t, 6), UpFails(7, t)
  PROVE  PaidTwice(t)
<1>1. PICK p \in t.payments : Cardinality(OfBilling(t, p.billing)) > 1
  BY DEF UpFails
<1>2. /\ t \in Tables /\ IsFiniteSet(t.payments) /\ p.invoice \in Invoices
      /\ BillingRows(t.payments, t.billings)
      /\ \A q \in t.payments : \E b \in t.billings :
           b.id = q.billing /\ b.invoice = q.invoice
  BY <1>1 DEF Rows, PaymentRows, Payment, Attempts
<1>3. OfBilling(t, p.billing) \subseteq OfInvoice(t, p.invoice)
  <2> SUFFICES ASSUME NEW q \in t.payments, q.billing = p.billing
               PROVE  q.invoice = p.invoice
    BY DEF OfBilling, OfInvoice
  <2>1. PICK a \in t.billings : a.id = p.billing /\ a.invoice = p.invoice
    BY <1>2
  <2>2. PICK b \in t.billings : b.id = q.billing /\ b.invoice = q.invoice
    BY <1>2
  <2>3. a = b
    BY <1>2, <2>1, <2>2 DEF BillingRows
  <2> QED BY <2>1, <2>2, <2>3
<1>4. OfInvoice(t, p.invoice) \subseteq t.payments
  BY DEF OfInvoice
<1>5. IsFiniteSet(OfInvoice(t, p.invoice))
  BY <1>2, <1>4, FS_Subset
<1>6. /\ Cardinality(OfBilling(t, p.billing)) <= Cardinality(OfInvoice(t, p.invoice))
      /\ IsFiniteSet(OfBilling(t, p.billing))
  BY <1>3, <1>5, FS_Subset
<1>7. /\ Cardinality(OfBilling(t, p.billing)) \in Nat
      /\ Cardinality(OfInvoice(t, p.invoice)) \in Nat
  BY <1>5, <1>6, FS_CardinalityType
<1>8. Cardinality(OfInvoice(t, p.invoice)) > 1
  BY <1>1, <1>6, <1>7
<1> QED BY <1>2, <1>8 DEF PaidTwice

\* Unless a command was killed on its way down, there is no billing at version 5:
\* the command that brought the schema there is still going down.
RollbackGoesOn ==
  faults = 0 /\ schema = 5 /\ tables.billings # {} =>
    lock # None /\ command[lock].direction = "down"

StuckInv == faults \in Nat /\ RollbackGoesOn /\ StuckByRowsOnly

\* A file that fails without a kill before it fails on the rows.
LEMMA FailedFile ==
  ASSUME MInv, StuckInv, NEW c \in Commands, RunFile(c), FileFails(c), faults = 0
  PROVE  \/ version \in {5, 7} /\ PaidTwice(tables)
         \/ version = 8 /\ tables.outbox # {}
<1>1. /\ Control /\ Rows(tables, schema) /\ tables \in Tables
      /\ command[c].phase = "body" /\ command[c].phase \in Working
  BY DEF MInv, RunFile, Working, Rows
<1>2. /\ command[c].direction \in {"up", "down"} /\ version \in 0..8 /\ schema \in 0..8
      /\ command[c].direction = "up" => version = schema + 1
      /\ command[c].direction = "down" => version + 1 = schema
      /\ lock = c
  BY <1>1, Holder DEF Standing
<1>3. CASE command[c].direction = "down"
  <2>1. version = 5 /\ PaidTwice(tables)
    BY <1>2, <1>3 DEF FileFails, DownFails, PaidTwice
  <2> QED BY <2>1
<1>4. CASE command[c].direction = "up"
  <2>1. UpFails(version, tables) /\ version = schema + 1
    BY <1>2, <1>4 DEF FileFails
  <2>2. version \in {6, 7, 8}
    BY <2>1 DEF UpFails
  <2>3. version # 6
    <3> SUFFICES ASSUME version = 6 PROVE FALSE
      OBVIOUS
    <3>1. schema = 5
      BY <1>2, <2>1
    <3>2. tables.billings = {}
      BY <1>2, <1>4, <3>1 DEF StuckInv, RollbackGoesOn
    <3> QED BY <1>1, <2>1, <3>2, File6Works
  <2>4. CASE version = 7
    <3>1. schema = 6
      BY <1>2, <2>1, <2>4
    <3> QED BY <1>1, <2>1, <2>4, <3>1, File7Fails
  <2>5. CASE version = 8
    BY <2>1, <2>5 DEF UpFails
  <2> QED BY <2>2, <2>3, <2>4, <2>5
<1> QED BY <1>2, <1>3, <1>4

\* The command that runs a file.
LEMMA RunFileStuck ==
  ASSUME MInv, StuckInv, NEW c \in Commands, RunFile(c)
  PROVE  StuckInv'
<1>1. /\ Control /\ Rows(tables, schema) /\ tables \in Tables
      /\ command[c].phase = "body" /\ command[c].phase \in Working
      /\ version' = version /\ dirty' = dirty /\ faults' = faults /\ faults \in Nat
  BY DEF MInv, StuckInv, RunFile, Working, Rows, marks
<1>2. /\ command[c].direction \in {"up", "down"} /\ version \in 0..8 /\ schema \in 0..8
      /\ command[c].direction = "up" => version = schema + 1
      /\ command[c].direction = "down" => version + 1 = schema
      /\ lock = c /\ c # None /\ command \in [Commands -> Command]
  BY <1>1, Holder DEF Standing
<1>3. CASE FileFails(c)
  <2>1. schema' = schema /\ tables' = tables /\ lock' = None
    BY <1>3 DEF RunFile
  <2>2. StuckByRowsOnly'
    <3>1. faults = 0 => \/ version \in {5, 7} /\ PaidTwice(tables)
                        \/ version = 8 /\ tables.outbox # {}
      BY <1>3, FailedFile
    <3> QED BY <1>1, <2>1, <3>1 DEF StuckByRowsOnly, PaidTwice, OfInvoice
  <2>3. RollbackGoesOn'
    <3> SUFFICES ASSUME faults = 0, schema = 5, tables.billings # {} PROVE FALSE
      BY <1>1, <2>1 DEF RollbackGoesOn
    <3>1. command[c].direction = "down"
      BY <1>2 DEF StuckInv, RollbackGoesOn
    <3>2. version + 1 = 5
      BY <1>2, <3>1
    <3> QED BY <1>3, <3>1, <3>2 DEF FileFails, DownFails
  <2> QED BY <1>1, <2>2, <2>3 DEF StuckInv
<1>4. CASE ~FileFails(c)
  <2>1. /\ schema' = version /\ lock' = lock
        /\ command' = [command EXCEPT ![c].phase = "mark"]
        /\ tables' = IF command[c].direction = "up"
                       THEN Up(version, tables) ELSE Down(version + 1, tables)
    BY <1>4 DEF RunFile
  <2>2. StuckByRowsOnly'
    BY <1>2, <2>1 DEF StuckByRowsOnly
  <2>3. command'[c].direction = command[c].direction
    BY <1>2, <2>1 DEF Command
  <2>4. RollbackGoesOn'
    <3> SUFFICES ASSUME version = 5, tables'.billings # {}
                 PROVE  command[c].direction = "down"
      BY <1>2, <2>1, <2>3 DEF RollbackGoesOn
    <3>1. CASE command[c].direction = "up"
      <4>1. tables' = tables /\ schema = 4
        BY <1>2, <2>1, <3>1 DEF Up
      <4>2. tables.billings = {}
        BY <1>1, <4>1 DEF Rows
      <4> QED BY <4>1, <4>2
    <3> QED BY <1>2, <3>1
  <2> QED BY <1>1, <2>2, <2>4 DEF StuckInv
<1> QED BY <1>3, <1>4

\* Every step keeps it.
LEMMA StuckStep == MInv /\ StuckInv /\ [Next]_vars => StuckInv'
<1> SUFFICES ASSUME MInv, StuckInv, [Next]_vars PROVE StuckInv'
  OBVIOUS
<1>0. /\ Control /\ faults \in Nat /\ RollbackGoesOn /\ StuckByRowsOnly
      /\ command \in [Commands -> Command] /\ None \notin Commands
      /\ lock \in Commands \cup {None}
  BY MigrationsAssumption DEF MInv, StuckInv, Control
<1>1. ASSUME version' = version, dirty' = dirty, schema' = schema, lock' = lock,
             tables' = tables, faults' = faults,
             lock # None => command'[lock].direction = command[lock].direction
      PROVE  StuckInv'
  BY <1>0, <1>1 DEF StuckInv, RollbackGoesOn, StuckByRowsOnly, OfInvoice
<1>2. CASE UNCHANGED vars
  BY <1>1, <1>2 DEF vars, marks
<1>3. ASSUME NEW c \in Commands, Run(c) PROVE StuckInv'
  <2>1. lock # c
    BY <1>0, <1>3 DEF Control, Standing, Working, Run
  <2>2. lock # None => command'[lock] = command[lock]
    BY <1>0, <1>3, <2>1 DEF Run
  <2> QED BY <1>1, <1>3, <2>2 DEF Run, marks
<1>4. ASSUME NEW c \in Commands, Lock(c) PROVE StuckInv'
  <2>1. /\ command[c].phase = "lock" /\ lock # c /\ version' = version
        /\ dirty' = dirty /\ schema' = schema /\ tables' = tables /\ faults' = faults
    BY <1>0, <1>4 DEF Control, Standing, Working, Lock, marks
  <2>2. CASE lock' = lock
    <3>1. \A d \in Commands : d # c => command'[d] = command[d]
      BY <1>0, <1>4, <2>2 DEF Lock, Exit
    <3> QED BY <1>0, <1>1, <2>1, <2>2, <3>1
  <2>3. CASE lock' # lock
    <3>1. lock = None /\ lock' = c
      BY <1>4, <2>3 DEF Lock
    <3> QED BY <1>0, <2>1, <3>1 DEF StuckInv, RollbackGoesOn, StuckByRowsOnly
  <2> QED BY <2>2, <2>3
<1>5. ASSUME NEW c \in Commands, SetVersion(c) \/ MarkClean(c) PROVE StuckInv'
  <2>1. /\ command[c].phase \in Working /\ schema' = schema /\ lock' = lock
        /\ tables' = tables /\ faults' = faults
        /\ \E phase : command' = [command EXCEPT ![c].phase = phase]
    BY <1>5 DEF SetVersion, MarkClean, Working
  <2>2. lock = c
    BY <1>0, <2>1, Holder
  <2>3. command'[c].direction = command[c].direction
    BY <1>0, <2>1 DEF Command
  <2> QED BY <1>0, <2>1, <2>2, <2>3 DEF StuckInv, RollbackGoesOn, StuckByRowsOnly
<1>6. ASSUME NEW c \in Commands, NoMoreFiles(c) PROVE StuckInv'
  <2>1. /\ command[c].phase = "step" /\ command[c].phase \in Working /\ AtEnd(c)
        /\ version' = version /\ dirty' = dirty /\ schema' = schema
        /\ tables' = tables /\ faults' = faults
    BY <1>6 DEF NoMoreFiles, Working, marks
  <2>2. ~dirty /\ lock = c /\ command[c].last \in {4, 6, 7, 8} /\ schema = version
        /\ command[c].direction \in {"up", "down"}
    BY <1>0, <2>1, Holder DEF Standing, Control, CleanMeansApplied
  <2>3. schema # 5
    BY <2>1, <2>2 DEF AtEnd
  <2> QED BY <1>0, <2>1, <2>2, <2>3 DEF StuckInv, RollbackGoesOn, StuckByRowsOnly
<1>7. ASSUME NEW c \in Commands, Kill(c) PROVE StuckInv'
  <2>1. faults' \in Nat /\ faults' # 0
    BY <1>0, <1>7 DEF Kill
  <2> QED BY <2>1 DEF StuckInv, RollbackGoesOn, StuckByRowsOnly
<1>8. ASSUME NEW i \in Invoices, NEW status \in {"Approved", "Failed"},
             NEW code \in DOMAIN InitCap, Pay(i, status, code)
      PROVE  StuckInv'
  <2>1. /\ schema \in Releases /\ ~dirty' /\ schema' = schema /\ faults' = faults
    BY <1>8 DEF Pay, marks
  <2>2. schema # 5
    BY <2>1, MigrationsAssumption
  <2> QED BY <1>0, <2>1, <2>2 DEF StuckInv, RollbackGoesOn, StuckByRowsOnly
<1> QED BY <1>2, <1>3, <1>4, <1>5, <1>6, <1>7, <1>8, RunFileStuck DEF Next, Step

\* Without a kill a database is left dirty by its rows only: over an invoice with
\* more than one payment by 7.up and 6.down, over an event in the outbox by 8.up.
THEOREM StuckByRowsOnlyHolds == Spec => []StuckByRowsOnly
<1>1. Init => StuckInv
  BY DEF Init, StuckInv, RollbackGoesOn, StuckByRowsOnly
<1>2. MInv /\ StuckInv /\ [Next]_vars => StuckInv'
  BY StuckStep
<1>3. StuckInv => StuckByRowsOnly
  BY DEF StuckInv
<1> QED BY <1>1, <1>2, <1>3, MigrationsInvariant, PTL DEF Spec
=============================================================================
