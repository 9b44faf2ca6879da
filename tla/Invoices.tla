------------------------------ MODULE Invoices ------------------------------
(***************************************************************************)
(* The invoices of one financial year: generateInvoice looks for a live    *)
(* invoice of the payment, and in a transaction of its own takes the next  *)
(* number of the series and writes the row.  Nothing cancels an invoice.   *)
(***************************************************************************)
EXTENDS Integers, Sequences, FiniteSets

CONSTANTS
  Procs,       \* requests that can be in flight at once
  Payments,    \* the payments of the year
  MaxInvoices  \* bound on the invoices ever made

VARIABLES
  invoices,  \* the invoices rows: payment and number
  counter,   \* the number_series row
  req,       \* what each request has read and has still to do
  width      \* how many requests are in flight at most: one, or all there are

vars == <<invoices, counter, req, width>>

-----------------------------------------------------------------------------

Idle == [pc |-> "idle", payment |-> {}, number |-> 0]

Init ==
  /\ invoices = <<>>
  /\ counter = 0
  /\ req = [p \in Procs |-> Idle]
  /\ width \in {1, Cardinality(Procs)}

Free(p) ==
  /\ req[p].pc = "idle"
  /\ Cardinality({q \in Procs : req[q].pc # "idle"}) < width

At(p, pc) == req[p].pc = pc

InvoicesOf(payment) == {i \in DOMAIN invoices : invoices[i].payment = payment}

\* A payment that has its invoice is answered with it.
Look(p) ==
  /\ Free(p)
  /\ \E payment \in Payments :
       /\ InvoicesOf(payment) = {}
       /\ req' = [req EXCEPT ![p] = [Idle EXCEPT !.pc = "number", !.payment = {payment}]]
  /\ UNCHANGED <<invoices, counter, width>>

\* next_in_series: the counter's row stays locked until the transaction ends, and what
\* it holds is seen by others only then.
Number(p) ==
  /\ At(p, "number")
  /\ \A q \in Procs : ~At(q, "commit")
  /\ req' = [req EXCEPT ![p].pc = "commit", ![p].number = counter + 1]
  /\ UNCHANGED <<invoices, counter, width>>

Commit(p) ==
  /\ At(p, "commit")
  /\ Len(invoices) < MaxInvoices
  /\ \E payment \in req[p].payment :
       invoices' = Append(invoices, [payment |-> payment, number |-> req[p].number])
  /\ counter' = req[p].number
  /\ req' = [req EXCEPT ![p] = Idle]
  /\ UNCHANGED width

\* The process dies or the transaction is refused.
Lost(p) ==
  /\ req[p].pc # "idle"
  /\ req' = [req EXCEPT ![p] = Idle]
  /\ UNCHANGED <<invoices, counter, width>>

Next == \E p \in Procs : Look(p) \/ Number(p) \/ Commit(p) \/ Lost(p)

Spec == Init /\ [][Next]_vars

-----------------------------------------------------------------------------

\* The type of every variable.
TypeOK ==
  /\ \A i \in DOMAIN invoices : invoices[i] \in [payment : Payments, number : Nat]
  /\ counter \in Nat
  /\ \A p \in Procs : req[p].payment \subseteq Payments /\ req[p].number \in Nat

\* The numbers of the year run on without a gap or a repeat, whatever is rolled back;
\* and one request at a time, a payment has one invoice.
InvoicesRunOn ==
  /\ \A i \in DOMAIN invoices : invoices[i].number = i
  /\ width = 1 => \A payment \in Payments : Cardinality(InvoicesOf(payment)) <= 1
=============================================================================
