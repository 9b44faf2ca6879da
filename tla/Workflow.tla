------------------------------ MODULE Workflow ------------------------------
(***************************************************************************)
(* The status state machine every record follows: the statuses, which of   *)
(* them lock a record, and the declared transitions with the guards the    *)
(* API evaluates and the transitions reserved for an override.             *)
(*                                                                         *)
(* Labels, permissions and the remark a transition asks for decide only    *)
(* whether a request is refused before it touches anything, so they are    *)
(* left out; a refused request changes no state.                           *)
(***************************************************************************)
EXTENDS Sequences

RecordStatus ==
  {"new_lead", "application_submitted", "under_review", "verification_pending",
   "on_hold", "selected", "rejected", "payment_pending", "payment_received",
   "certificate_pending", "certificate_uploaded", "publication",
   "dispatch_pending", "dispatched", "delivered", "completed", "closed"}

\* Statuses that lock the workflow (STATUS_META[s].terminal).
TerminalStatus == {"rejected", "completed", "closed"}

\* Where a record that is not a back-entry may start.
INTAKE_STATUSES == {"new_lead", "application_submitted", "under_review"}

TransitionGuard ==
  {"has_evidence", "has_payment_plan", "payment_settled",
   "certificate_verified", "has_dispatch", "not_blacklisted"}

Transition ==
  [from : RecordStatus, to : RecordStatus,
   guards : Seq(TransitionGuard), override : BOOLEAN]

-----------------------------------------------------------------------------

\* Transitions from one status that carry no guard.
Open(from, targets) ==
  {[from |-> from, to |-> to, guards |-> <<>>, override |-> FALSE] : to \in targets}

\* A transition whose guards are evaluated, in this order, against live data.
Guarded(from, to, guards) ==
  {[from |-> from, to |-> to, guards |-> guards, override |-> FALSE]}

\* A transition out of a locked status: an override with a written reason.
Reopen(from, to) ==
  {[from |-> from, to |-> to, guards |-> <<>>, override |-> TRUE]}

IntakeTransitions ==
     Guarded("new_lead", "application_submitted", <<"not_blacklisted">>)
  \cup Open("new_lead", {"on_hold", "closed"})
  \cup Open("application_submitted", {"under_review", "on_hold", "closed"})
  \cup Guarded("under_review", "verification_pending", <<"has_evidence">>)
  \cup Open("under_review", {"rejected", "on_hold"})
  \cup Guarded("verification_pending", "selected", <<"has_evidence", "not_blacklisted">>)
  \cup Open("verification_pending", {"rejected", "under_review", "on_hold"})
  \cup Open("on_hold", {"under_review", "application_submitted", "closed"})

FeeTransitions ==
     Guarded("selected", "payment_pending", <<"has_payment_plan">>)
  \cup Open("selected", {"on_hold"})
  \cup Guarded("payment_pending", "payment_received", <<"payment_settled">>)
  \cup Open("payment_pending", {"on_hold"})
  \cup Open("payment_received", {"certificate_pending"})

FulfilmentTransitions ==
     Guarded("certificate_pending", "certificate_uploaded", <<"certificate_verified">>)
  \cup Open("certificate_uploaded", {"dispatch_pending"})
  \cup Guarded("dispatch_pending", "dispatched", <<"has_dispatch">>)
  \cup Open("dispatched", {"delivered"})
  \cup Open("delivered", {"publication", "completed"})
  \cup Open("publication", {"completed"})

ReopeningTransitions ==
     Reopen("rejected", "under_review")
  \cup Reopen("completed", "delivered")
  \cup Reopen("closed", "application_submitted")

STATUS_TRANSITIONS ==
  IntakeTransitions \cup FeeTransitions \cup FulfilmentTransitions \cup ReopeningTransitions
=============================================================================
