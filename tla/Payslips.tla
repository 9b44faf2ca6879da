------------------------------ MODULE Payslips ------------------------------
(***************************************************************************)
(* The payslips of one year: one live slip per employee and month, and a   *)
(* number that is a count of the rows there are.  What a slip adds up to   *)
(* is left out.                                                            *)
(***************************************************************************)
EXTENDS Integers, Sequences, FiniteSets

CONSTANTS
  Procs,    \* requests that can be in flight at once
  Months,   \* the months of the employees a slip may be for
  MaxSlips  \* bound on the slips ever issued

VARIABLES
  slips,  \* the employee_payslips rows
  req,    \* what each request has read and has still to do
  width   \* how many requests are in flight at most: one, or all there are

vars == <<slips, req, width>>

-----------------------------------------------------------------------------

Idle == [pc |-> "idle", month |-> {}, number |-> 0]

Init ==
  /\ slips = <<>>
  /\ req = [p \in Procs |-> Idle]
  /\ width \in {1, Cardinality(Procs)}

Free(p) ==
  /\ req[p].pc = "idle"
  /\ Cardinality({q \in Procs : req[q].pc # "idle"}) < width

At(p, pc) == req[p].pc = pc
Done(p)   == req' = [req EXCEPT ![p] = Idle]

SlipsOf(month) == {s \in DOMAIN slips : slips[s].month = month /\ slips[s].live}

SlipCheck(p) ==
  /\ Free(p)
  /\ \E month \in Months :
       /\ SlipsOf(month) = {}
       /\ req' = [req EXCEPT ![p] = [Idle EXCEPT !.pc = "count", !.month = {month}]]
  /\ UNCHANGED <<slips, width>>

\* nextPayslipNumber: one more than there are, cancelled ones among them.
Counted_Live == Cardinality({s \in DOMAIN slips : slips[s].live})
Counted      == Len(slips)

SlipCount(p) ==
  /\ At(p, "count")
  /\ req' = [req EXCEPT ![p].pc = "issue", ![p].number = Counted + 1]
  /\ UNCHANGED <<slips, width>>

\* employee_payslips_number_uq and employee_payslips_period_uq.
Issuable(month, number) ==
  SlipsOf(month) = {} /\ \A s \in DOMAIN slips : slips[s].number # number

SlipIssue(p) ==
  /\ At(p, "issue")
  /\ Len(slips) < MaxSlips
  /\ \E month \in req[p].month :
       /\ Issuable(month, req[p].number)
       /\ slips' = Append(slips, [month |-> month, number |-> req[p].number, live |-> TRUE])
  /\ Done(p)
  /\ UNCHANGED width

\* One that is cancelled already is left as it is.
SlipCancel ==
  /\ \E s \in DOMAIN slips :
       slips[s].live /\ slips' = [slips EXCEPT ![s].live = FALSE]
  /\ UNCHANGED <<req, width>>

\* An index refuses or, with others in flight, the process dies.
Refused(p) == At(p, "issue") /\ \E month \in req[p].month : ~Issuable(month, req[p].number)

Lost(p) ==
  /\ req[p].pc # "idle" /\ (width # 1 \/ Refused(p))
  /\ Done(p)
  /\ UNCHANGED <<slips, width>>

-----------------------------------------------------------------------------

Next == SlipCancel \/ \E p \in Procs : SlipCheck(p) \/ SlipCount(p) \/ SlipIssue(p) \/ Lost(p)

Spec == Init /\ [][Next]_vars

-----------------------------------------------------------------------------

\* The type of every variable.
TypeOK ==
  /\ \A s \in DOMAIN slips : slips[s] \in [month : Months, number : Nat, live : BOOLEAN]
  /\ \A p \in Procs : req[p].month \subseteq Months /\ req[p].number \in Nat

\* Counting the rows never leaves a gap or repeats a number, however requests race; and
\* one request at a time, it always yields a number that can be issued.
SlipsRunOn ==
  /\ \A s \in DOMAIN slips : slips[s].number = s
  /\ width = 1 => \A p \in Procs : ~Refused(p)
=============================================================================
