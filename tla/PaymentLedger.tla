--------------------------- MODULE PaymentLedger ---------------------------
(***************************************************************************)
(* The payment plan of one record and the ledger of receipts behind it,    *)
(* statement by statement, at READ COMMITTED: a statement sees the rows    *)
(* committed when it runs and the rows its own transaction wrote.          *)
(*                                                                         *)
(* A handler's reads before BEGIN are one step each.  From the UPDATE of   *)
(* the payments row to COMMIT a transaction holds that row's lock and reads *)
(* nothing another can change, so those statements are one step; an insert *)
(* that no other transaction can see is one step with the read behind it.  *)
(* A unique index makes an insert wait for an uncommitted equal row and    *)
(* refuse a committed one.                                                 *)
(*                                                                         *)
(* An operator named X_Bug is the definition X as a plausible slip would   *)
(* have it; no action uses one.                                            *)
(***************************************************************************)
EXTENDS Integers, Sequences, FiniteSets

CONSTANTS
  Procs,         \* requests that can be in flight at once
  FinalAmounts,  \* totals a plan may have
  Receipts,      \* forms staff submit: amount, idempotency key, reference
  Largest,       \* no form is for more
  Snapshots,     \* paid payments the website reports: amount, key, reference
  NoRef,         \* a receipt without a transaction reference
  NoKey          \* a row without an idempotency key

ASSUME LedgerAmountsAssumption == FinalAmounts \subseteq Nat
ASSUME LedgerFormsAssumption ==
  \A form \in Receipts \cup Snapshots : form.amount \in Nat \ {0} /\ form.key # NoKey
ASSUME LedgerLargestAssumption ==
  Largest \in Nat /\ \A form \in Receipts : form.amount <= Largest
ASSUME LedgerProcsAssumption == IsFiniteSet(Procs) /\ Procs # {}

VARIABLES
  plan,    \* the payments row: planned, final_amount, amount_paid, status
  ledger,  \* payment_transactions, in the order they were committed
  req      \* what each request has read and has still to do

vars == <<plan, ledger, req>>

-----------------------------------------------------------------------------

Row(amount, key, ref, reverses) ==
  [amount |-> amount, key |-> key, ref |-> ref, reverses |-> reverses]

NoRow == Row(0, NoKey, NoRef, 0)

Idle == [pc |-> "idle", row |-> NoRow, final |-> 0, sum |-> 0]

\* settle: the status a plan has for what has been collected.
StatusOf(final, paid) ==
  CASE paid >= final /\ final > 0 -> "paid"
    [] paid > 0 /\ paid < final   -> "partial"
    [] OTHER                      -> "pending"

SumOf(rows) ==
  LET upto[n \in 0 .. Len(rows)] == IF n = 0 THEN 0 ELSE upto[n - 1] + rows[n].amount
  IN  upto[Len(rows)]

\* payments_paid_within_final, the CHECK on every write of the payments row.
PaidWithinFinal_Dropped(final, paid) == TRUE
PaidWithinFinal(final, paid)         == paid <= final

\* Two rows one of the unique indexes keeps apart; NULLs are not compared.
Clash_NoKeyIndex(row, other) == row.ref # NoRef /\ row.ref = other.ref
Clash(row, other) ==
  \/ row.key # NoKey /\ row.key = other.key
  \/ row.ref # NoRef /\ row.ref = other.ref

CommittedClash(row) == \E i \in DOMAIN ledger : Clash(row, ledger[i])

\* An equal row that another transaction has inserted and not committed.
PendingClash(p, row) ==
  \E q \in Procs \ {p} : req[q].pc \in {"sum", "update"} /\ Clash(row, req[q].row)

IsReversed(i) == \E j \in DOMAIN ledger : ledger[j].reverses = i

Init ==
  /\ plan = [planned |-> FALSE, final |-> 0, paid |-> 0, status |-> "pending"]
  /\ ledger = <<>>
  /\ req = [p \in Procs |-> Idle]

-----------------------------------------------------------------------------
(* createPlan                                                              *)

\* Refused when more than the new total has been collected.
PlanRead(p) ==
  /\ req[p].pc = "idle"
  /\ \E final \in FinalAmounts :
       /\ plan.planned => plan.paid <= final
       /\ req' = [req EXCEPT ![p] = [Idle EXCEPT !.pc = "upsert", !.final = final]]
  /\ UNCHANGED <<plan, ledger>>

\* The row as the upsert and recomputeStatus leave it.
Repriced_KeepsStatus(final, sum) ==
  [planned |-> TRUE, final |-> final, paid |-> sum, status |-> plan.status]
Repriced(final, sum) ==
  [planned |-> TRUE, final |-> final, paid |-> sum, status |-> StatusOf(final, sum)]

\* The upsert takes the row lock, so the rows it sums cannot change before COMMIT.
PlanWrite(p) ==
  /\ req[p].pc = "upsert"
  /\ LET final == req[p].final
         sum   == SumOf(ledger)
     IN plan' = IF PaidWithinFinal(final, plan.paid) /\ PaidWithinFinal(final, sum)
                THEN Repriced(final, sum) ELSE plan
  /\ req' = [req EXCEPT ![p] = Idle]
  /\ UNCHANGED ledger

-----------------------------------------------------------------------------
(* recordTransaction and reverseTransaction                                *)

\* Refused when the amount is more than the balance read here.
RecordRead(p) ==
  /\ req[p].pc = "idle"
  /\ plan.planned
  /\ \E form \in Receipts :
       /\ form.amount <= plan.final - plan.paid
       /\ req' = [req EXCEPT ![p] =
                    [Idle EXCEPT !.pc = "insert",
                                 !.row = Row(form.amount, form.key, form.ref, 0)]]
  /\ UNCHANGED <<plan, ledger>>

\* The correction carries the reference of the receipt it takes back, and no key.
Correction_OffByOne(i) == Row(-ledger[i].amount, NoKey, ledger[i].ref, i + 1)
Correction(i)          == Row(-ledger[i].amount, NoKey, ledger[i].ref, i)

\* Refused when the row is itself a reversal, or is reversed already.
ReverseRead(p) ==
  /\ req[p].pc = "idle"
  /\ \E i \in DOMAIN ledger :
       /\ ledger[i].reverses = 0
       /\ ~IsReversed(i)
       /\ req' = [req EXCEPT ![p] = [Idle EXCEPT !.pc = "insert", !.row = Correction(i)]]
  /\ UNCHANGED <<plan, ledger>>

\* The row goes in, and recomputeStatus reads the plan's total.
InsertRow(p) ==
  /\ req[p].pc = "insert"
  /\ ~CommittedClash(req[p].row)
  /\ ~PendingClash(p, req[p].row)
  /\ req' = [req EXCEPT ![p].pc = "sum", ![p].final = plan.final]
  /\ UNCHANGED <<plan, ledger>>

\* A unique index refuses it: the transaction rolls back with DUPLICATE_VALUE.
DuplicateRefused(p) ==
  /\ req[p].pc = "insert"
  /\ CommittedClash(req[p].row)
  /\ req' = [req EXCEPT ![p] = Idle]
  /\ UNCHANGED <<plan, ledger>>

\* recomputeStatus reads the rows: those committed, and its own.
Collected_BeforeInsert(row) == SumOf(ledger)
Collected(row)              == SumOf(ledger) + row.amount

SumRows(p) ==
  /\ req[p].pc = "sum"
  /\ req' = [req EXCEPT ![p].pc = "update", ![p].sum = Collected(req[p].row)]
  /\ UNCHANGED <<plan, ledger>>

\* recomputeStatus writes what it computed; the row appears at COMMIT.
WriteSum(p) ==
  /\ req[p].pc = "update"
  /\ IF PaidWithinFinal(plan.final, req[p].sum)
     THEN /\ plan' = [plan EXCEPT !.paid = req[p].sum,
                                  !.status = StatusOf(req[p].final, req[p].sum)]
          /\ ledger' = Append(ledger, req[p].row)
     ELSE UNCHANGED <<plan, ledger>>
  /\ req' = [req EXCEPT ![p] = Idle]

-----------------------------------------------------------------------------
(* applyPayment: a payment the website took, inside the import transaction *)

\* Skipped when the CRM has banked as much already, or has the row.  A record
\* without a plan gets one for the amount, and that insert is the first write.
ImportRead(p) ==
  /\ req[p].pc = "idle"
  /\ \E snap \in Snapshots :
       /\ plan.planned => plan.paid < snap.amount
       /\ ~CommittedClash(Row(snap.amount, snap.key, snap.ref, 0))
       /\ req' = [req EXCEPT ![p] =
                    [Idle EXCEPT !.pc = IF plan.planned THEN "import" ELSE "import_new",
                                 !.row = Row(snap.amount, snap.key, snap.ref, 0)]]
  /\ UNCHANGED <<plan, ledger>>

\* The plan's paid amount becomes the snapshot's, and its status paid.  The import
\* fails as a whole on a duplicate row, a plan made meanwhile, or the CHECK.
ImportWrite(p) ==
  /\ req[p].pc \in {"import", "import_new"}
  /\ ~PendingClash(p, req[p].row)
  /\ LET amount == req[p].row.amount
         final  == IF req[p].pc = "import_new" THEN amount ELSE plan.final
         fails  == \/ CommittedClash(req[p].row)
                   \/ req[p].pc = "import_new" /\ plan.planned
                   \/ ~PaidWithinFinal(final, amount)
     IN IF fails
        THEN UNCHANGED <<plan, ledger>>
        ELSE /\ plan' = [planned |-> TRUE, final |-> final, paid |-> amount,
                         status |-> "paid"]
             /\ ledger' = Append(ledger, req[p].row)
  /\ req' = [req EXCEPT ![p] = Idle]

\* The process dies or the connection is lost: the open transaction rolls back.
Lost(p) ==
  /\ req[p].pc # "idle"
  /\ req' = [req EXCEPT ![p] = Idle]
  /\ UNCHANGED <<plan, ledger>>

-----------------------------------------------------------------------------

Step(p) ==
  \/ PlanRead(p)    \/ PlanWrite(p)
  \/ RecordRead(p)  \/ ReverseRead(p)
  \/ InsertRow(p)   \/ DuplicateRefused(p)
  \/ SumRows(p)     \/ WriteSum(p)
  \/ ImportRead(p)  \/ ImportWrite(p)
  \/ Lost(p)

Next == \E p \in Procs : Step(p)

Spec == Init /\ [][Next]_vars

-----------------------------------------------------------------------------

\* The type of every variable; a correction names an earlier row.
TypeOK ==
  /\ plan \in [planned : BOOLEAN, final : Nat, paid : Int,
               status : {"pending", "partial", "paid"}]
  /\ \A i \in DOMAIN ledger :
       /\ ledger[i].amount \in Int
       /\ ledger[i].reverses \in 0 .. (i - 1)
  /\ \A p \in Procs :
       /\ req[p].pc \in {"idle", "upsert", "insert", "sum", "update",
                         "import", "import_new"}
       /\ req[p].final \in Nat
       /\ req[p].sum \in Int

\* The rows staff entered; those under a key of the website's are left out.
StaffRow(row) == IF \E snap \in Snapshots : row.key = snap.key THEN NoRow ELSE row
StaffRows     == [i \in DOMAIN ledger |-> StaffRow(ledger[i])]

\* Receipts that race are each held against a sum without the others, so together
\* they may exceed the plan; they never do by more than those others can come to,
\* whatever is reversed, re-priced or imported in between.  One request at a time,
\* staff bank no more than the plan asks.
CollectedWithinPlan ==
  SumOf(StaffRows) <= plan.final + (Cardinality(Procs) - 1) * Largest

\* A receipt submitted twice, or reported again by the website under its key or
\* under the reference staff entered, is banked once.
BankedOnce ==
  \A i, j \in DOMAIN ledger :
    \/ ledger[i].key = ledger[j].key /\ ledger[i].key # NoKey
    \/ ledger[i].ref = ledger[j].ref /\ ledger[i].ref # NoRef
    => i = j

\* Why: a row inserted and not yet committed is kept apart, by the wait on the
\* unique indexes, from every committed row and every other such row.
UncommittedApart ==
  \A p \in Procs : req[p].pc \in {"sum", "update"} =>
    ~CommittedClash(req[p].row) /\ ~PendingClash(p, req[p].row)

\* The inductive form of BankedOnce.
LedgerInductive == BankedOnce /\ UncommittedApart

\* payments.service.ts:73 the status and the paid amount are recomputed from the
\* rows "so it can never drift from the money that actually arrived".
AmountPaidIsLedgerSum == plan.paid = SumOf(ledger)

\* schema/money.ts:74 the status is "derived from SUM(transactions) vs finalAmount".
StatusIsDerived == plan.planned => plan.status = StatusOf(plan.final, SumOf(ledger))
=============================================================================
