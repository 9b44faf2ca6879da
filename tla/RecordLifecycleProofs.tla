----------------------- MODULE RecordLifecycleProofs -----------------------
(***************************************************************************)
(* For any number of requests, any entry statuses, any plan totals and any *)
(* number of certificate versions: the variables keep their types, and no  *)
(* interleaving carries a record past a gate, but past the sign-off where  *)
(* a correction overtook one under way.                                    *)
(***************************************************************************)
EXTENDS RecordLifecycle, TLAPS

-----------------------------------------------------------------------------
(* The transition table.                                                   *)

\* A list of guards evaluates the guard of a gate.
Asks(guards, g) == \E i \in DOMAIN guards : guards[i] = GateGuard[g]

\* What every declared transition satisfies: it is well formed, and if it enters
\* the statuses past a gate it evaluates that gate's guard.
GuardsItsGates(t) ==
  /\ t \in Transition
  /\ \A g \in Gates : t.to \in Past[g] => t.from \in Past[g] \/ Asks(t.guards, g)

\* Transitions without a guard are in order when they pass no gate their origin has not.
LEMMA OpenGuarded ==
  ASSUME NEW from \in RecordStatus, NEW targets \in SUBSET RecordStatus,
         \A to \in targets, g \in Gates : to \in Past[g] => from \in Past[g],
         NEW t \in Open(from, targets)
  PROVE  GuardsItsGates(t)
<1>1. PICK to \in targets :
        t = [from |-> from, to |-> to, guards |-> <<>>, override |-> FALSE]
  BY DEF Open
<1>2. <<>> \in Seq(TransitionGuard)
  OBVIOUS
<1>3. t \in Transition
  BY <1>1, <1>2 DEF Transition
<1>4. t.from = from /\ t.to = to
  BY <1>1
<1> QED
  BY <1>3, <1>4 DEF GuardsItsGates

\* A transition whose first guard is the one its gate asks for; a second guard may
\* ask for more.
LEMMA GuardedGuarded ==
  ASSUME NEW from \in RecordStatus, NEW to \in RecordStatus,
         NEW guards \in Seq(TransitionGuard), 1 \in DOMAIN guards,
         \A g \in Gates : to \in Past[g] => from \in Past[g] \/ GateGuard[g] = guards[1],
         NEW t \in Guarded(from, to, guards)
  PROVE  GuardsItsGates(t)
<1>1. t = [from |-> from, to |-> to, guards |-> guards, override |-> FALSE]
  BY DEF Guarded
<1>2. t \in Transition
  BY <1>1 DEF Transition
<1>3. t.from = from /\ t.to = to /\ t.guards = guards
  BY <1>1
<1>4. \A g \in Gates : GateGuard[g] = guards[1] => Asks(guards, g)
  BY DEF Asks
<1> QED
  BY <1>2, <1>3, <1>4 DEF GuardsItsGates

\* A transition with one guard, which the gate it passes asks for.
LEMMA OneGuard ==
  ASSUME NEW from \in RecordStatus, NEW to \in RecordStatus, NEW x \in TransitionGuard,
         \A g \in Gates : to \in Past[g] => from \in Past[g] \/ GateGuard[g] = x
  PROVE  \A t \in Guarded(from, to, <<x>>) : GuardsItsGates(t)
<1>1. <<x>> \in Seq(TransitionGuard) /\ 1 \in DOMAIN <<x>> /\ <<x>>[1] = x
  OBVIOUS
<1> QED
  BY <1>1, GuardedGuarded

\* A transition with two guards, the first of which the gate asks for.
LEMMA TwoGuards ==
  ASSUME NEW from \in RecordStatus, NEW to \in RecordStatus,
         NEW x \in TransitionGuard, NEW y \in TransitionGuard,
         \A g \in Gates : to \in Past[g] => from \in Past[g] \/ GateGuard[g] = x
  PROVE  \A t \in Guarded(from, to, <<x, y>>) : GuardsItsGates(t)
<1>1. <<x, y>> \in Seq(TransitionGuard) /\ 1 \in DOMAIN <<x, y>> /\ <<x, y>>[1] = x
  OBVIOUS
<1> QED
  BY <1>1, GuardedGuarded

\* A reopening is in order when it passes no gate that its origin has not passed.
LEMMA ReopenGuarded ==
  ASSUME NEW from \in RecordStatus, NEW to \in RecordStatus,
         \A g \in Gates : to \in Past[g] => from \in Past[g],
         NEW t \in Reopen(from, to)
  PROVE  GuardsItsGates(t)
<1>1. t = [from |-> from, to |-> to, guards |-> <<>>, override |-> TRUE]
  BY DEF Reopen
<1>2. <<>> \in Seq(TransitionGuard)
  OBVIOUS
<1>3. t \in Transition
  BY <1>1, <1>2 DEF Transition
<1>4. t.from = from /\ t.to = to
  BY <1>1
<1> QED
  BY <1>3, <1>4 DEF GuardsItsGates

\* Where the gates lie, one by one.
LEMMA PastStatuses ==
  ASSUME NEW g \in Gates, NEW s
  PROVE  /\ s \in Past[g] <=> \/ g = "evidence" /\ s \in PastEvidence
                              \/ g = "plan" /\ s \in PastPlan
                              \/ g = "fees" /\ s \in PastFees
                              \/ g = "sign_off" /\ s \in PastSignOff
                              \/ g = "tracking" /\ s \in PastTracking
         /\ g \in {"evidence", "plan", "fees", "sign_off", "tracking"}
  BY DEF Past, Gates

\* The transitions of intake and review.
LEMMA IntakeGuarded == \A t \in IntakeTransitions : GuardsItsGates(t)
<1> USE DEF RecordStatus, PastEvidence, PastPlan, PastFees, PastSignOff, PastTracking
<1>1. \A t \in Guarded("new_lead", "application_submitted", <<"not_blacklisted">>) :
        GuardsItsGates(t)
  <2>1. \A g \in Gates : "application_submitted" \in Past[g] =>
          "new_lead" \in Past[g] \/ GateGuard[g] = "not_blacklisted"
    BY PastStatuses DEF GateGuard
  <2> QED
    BY <2>1, OneGuard DEF TransitionGuard
<1>2. \A t \in Open("new_lead", {"on_hold", "closed"}) :
        GuardsItsGates(t)
  BY OpenGuarded, PastStatuses
<1>3. \A t \in Open("application_submitted", {"under_review", "on_hold", "closed"}) :
        GuardsItsGates(t)
  BY OpenGuarded, PastStatuses
<1>4. \A t \in Guarded("under_review", "verification_pending", <<"has_evidence">>) :
        GuardsItsGates(t)
  <2>1. \A g \in Gates : "verification_pending" \in Past[g] =>
          "under_review" \in Past[g] \/ GateGuard[g] = "has_evidence"
    BY PastStatuses DEF GateGuard
  <2> QED
    BY <2>1, OneGuard DEF TransitionGuard
<1>5. \A t \in Open("under_review", {"rejected", "on_hold"}) :
        GuardsItsGates(t)
  BY OpenGuarded, PastStatuses
<1>6. \A t \in Guarded("verification_pending", "selected", <<"has_evidence", "not_blacklisted">>) :
        GuardsItsGates(t)
  <2>1. \A g \in Gates : "selected" \in Past[g] =>
          "verification_pending" \in Past[g] \/ GateGuard[g] = "has_evidence"
    BY PastStatuses DEF GateGuard
  <2>2. /\ {"verification_pending", "selected"} \subseteq RecordStatus
        /\ {"has_evidence", "not_blacklisted"} \subseteq TransitionGuard
    BY DEF TransitionGuard
  <2> HIDE DEF RecordStatus
  <2> QED
    BY <2>1, <2>2, TwoGuards
<1>7. \A t \in Open("verification_pending", {"rejected", "under_review", "on_hold"}) :
        GuardsItsGates(t)
  BY OpenGuarded, PastStatuses
<1>8. \A t \in Open("on_hold", {"under_review", "application_submitted", "closed"}) :
        GuardsItsGates(t)
  BY OpenGuarded, PastStatuses
<1> HIDE DEF RecordStatus, PastEvidence, PastPlan, PastFees, PastSignOff, PastTracking
<1> QED
  BY <1>1, <1>2, <1>3, <1>4, <1>5, <1>6, <1>7, <1>8 DEF IntakeTransitions

\* The transitions of the payment stages.
LEMMA FeesGuarded == \A t \in FeeTransitions : GuardsItsGates(t)
<1> USE DEF RecordStatus, PastEvidence, PastPlan, PastFees, PastSignOff, PastTracking
<1>1. \A t \in Guarded("selected", "payment_pending", <<"has_payment_plan">>) :
        GuardsItsGates(t)
  <2>1. \A g \in Gates : "payment_pending" \in Past[g] =>
          "selected" \in Past[g] \/ GateGuard[g] = "has_payment_plan"
    BY PastStatuses DEF GateGuard
  <2> QED
    BY <2>1, OneGuard DEF TransitionGuard
<1>2. \A t \in Open("selected", {"on_hold"}) :
        GuardsItsGates(t)
  BY OpenGuarded, PastStatuses
<1>3. \A t \in Guarded("payment_pending", "payment_received", <<"payment_settled">>) :
        GuardsItsGates(t)
  <2>1. \A g \in Gates : "payment_received" \in Past[g] =>
          "payment_pending" \in Past[g] \/ GateGuard[g] = "payment_settled"
    BY PastStatuses DEF GateGuard
  <2> QED
    BY <2>1, OneGuard DEF TransitionGuard
<1>4. \A t \in Open("payment_pending", {"on_hold"}) :
        GuardsItsGates(t)
  BY OpenGuarded, PastStatuses
<1>5. \A t \in Open("payment_received", {"certificate_pending"}) :
        GuardsItsGates(t)
  BY OpenGuarded, PastStatuses
<1> HIDE DEF RecordStatus, PastEvidence, PastPlan, PastFees, PastSignOff, PastTracking
<1> QED
  BY <1>1, <1>2, <1>3, <1>4, <1>5 DEF FeeTransitions

\* The transitions of the certificate and dispatch stages.
LEMMA FulfilmentGuarded == \A t \in FulfilmentTransitions : GuardsItsGates(t)
<1> USE DEF RecordStatus, PastEvidence, PastPlan, PastFees, PastSignOff, PastTracking
<1>1. \A t \in Guarded("certificate_pending", "certificate_uploaded", <<"certificate_verified">>) :
        GuardsItsGates(t)
  <2>1. \A g \in Gates : "certificate_uploaded" \in Past[g] =>
          "certificate_pending" \in Past[g] \/ GateGuard[g] = "certificate_verified"
    BY PastStatuses DEF GateGuard
  <2> QED
    BY <2>1, OneGuard DEF TransitionGuard
<1>2. \A t \in Open("certificate_uploaded", {"dispatch_pending"}) :
        GuardsItsGates(t)
  BY OpenGuarded, PastStatuses
<1>3. \A t \in Guarded("dispatch_pending", "dispatched", <<"has_dispatch">>) :
        GuardsItsGates(t)
  <2>1. \A g \in Gates : "dispatched" \in Past[g] =>
          "dispatch_pending" \in Past[g] \/ GateGuard[g] = "has_dispatch"
    BY PastStatuses DEF GateGuard
  <2> QED
    BY <2>1, OneGuard DEF TransitionGuard
<1>4. \A t \in Open("dispatched", {"delivered"}) :
        GuardsItsGates(t)
  BY OpenGuarded, PastStatuses
<1>5. \A t \in Open("delivered", {"publication", "completed"}) :
        GuardsItsGates(t)
  BY OpenGuarded, PastStatuses
<1>6. \A t \in Open("publication", {"completed"}) :
        GuardsItsGates(t)
  BY OpenGuarded, PastStatuses
<1> HIDE DEF RecordStatus, PastEvidence, PastPlan, PastFees, PastSignOff, PastTracking
<1> QED
  BY <1>1, <1>2, <1>3, <1>4, <1>5, <1>6 DEF FulfilmentTransitions

\* The transitions out of a locked status.
LEMMA ReopeningGuarded == \A t \in ReopeningTransitions : GuardsItsGates(t)
<1> USE DEF RecordStatus, PastEvidence, PastPlan, PastFees, PastSignOff, PastTracking
<1>1. \A t \in Reopen("rejected", "under_review") : GuardsItsGates(t)
  BY ReopenGuarded, PastStatuses
<1>2. \A t \in Reopen("completed", "delivered") : GuardsItsGates(t)
  BY ReopenGuarded, PastStatuses
<1>3. \A t \in Reopen("closed", "application_submitted") : GuardsItsGates(t)
  BY ReopenGuarded, PastStatuses
<1> HIDE DEF RecordStatus, PastEvidence, PastPlan, PastFees, PastSignOff, PastTracking
<1> QED
  BY <1>1, <1>2, <1>3 DEF ReopeningTransitions

\* Every declared transition guards the gates it enters.
LEMMA TableGuarded == \A t \in STATUS_TRANSITIONS : GuardsItsGates(t)
  BY IntakeGuarded, FeesGuarded, FulfilmentGuarded, ReopeningGuarded DEF STATUS_TRANSITIONS

\* A request that has ended is a request.
LEMMA IdleType == Idle \in Request
<1>1. <<>> \in Seq(TransitionGuard)
  OBVIOUS
<1>2. "idle" \in Pc /\ "new_lead" \in RecordStatus /\ 0 \in 0 .. MaxVersions
  BY VersionsAssumption DEF Pc, RecordStatus
<1> QED
  BY <1>1, <1>2 DEF Idle, Request

-----------------------------------------------------------------------------
(* Types.                                                                  *)

\* Every record as entered has the types.
LEMMA InitType == Init => TypeOK
<1> SUFFICES ASSUME Init PROVE TypeOK
  OBVIOUS
<1>1. req \in [Procs -> Request]
  BY IdleType DEF Init
<1>2. status \in RecordStatus
  BY EntryAssumption DEF Init
<1>3. payment \in [planned : BOOLEAN, final : Nat, paid : Nat]
  BY DEF Init
<1>4. cert \in [current : 0 .. MaxVersions, verified : 0 .. MaxVersions]
  BY VersionsAssumption DEF Init
<1> QED
  BY <1>1, <1>2, <1>3, <1>4 DEF Init, TypeOK

\* A step of one request keeps the type of all requests if what it leaves the
\* request with is a request.
LEMMA RequestType ==
  ASSUME TypeOK, NEW p \in Procs, NEW r \in Request
  PROVE  [req EXCEPT ![p] = r] \in [Procs -> Request]
  BY DEF TypeOK

\* Every step keeps the types.
LEMMA StepType == TypeOK /\ [Next]_vars => TypeOK'
<1> SUFFICES ASSUME TypeOK, [Next]_vars PROVE TypeOK'
  OBVIOUS
<1>1. ASSUME NEW p \in Procs, ChangeStatusLoad(p) PROVE TypeOK'
  <2>1. PICK t \in STATUS_TRANSITIONS, override \in BOOLEAN :
          req' = [req EXCEPT ![p] =
                    [Idle EXCEPT !.pc = "guards", !.from = t.from, !.to = t.to,
                                 !.left = t.guards,
                                 !.override = override \/ t.override]]
    BY <1>1 DEF ChangeStatusLoad
  <2>2. t \in Transition
    BY TableGuarded DEF GuardsItsGates
  <2> DEFINE r == [Idle EXCEPT !.pc = "guards", !.from = t.from, !.to = t.to,
                               !.left = t.guards, !.override = override \/ t.override]
  <2>3. r \in Request
    <3>1. /\ t.from \in RecordStatus /\ t.to \in RecordStatus
          /\ t.guards \in Seq(TransitionGuard)
          /\ (override \/ t.override) \in BOOLEAN
      BY <2>2 DEF Transition
    <3>2. "guards" \in Pc
      BY DEF Pc
    <3> QED
      BY <3>1, <3>2, IdleType DEF Request
  <2>4. req' \in [Procs -> Request]
    BY <2>1, <2>3, RequestType
  <2> QED
    BY <1>1, <2>4 DEF ChangeStatusLoad, TypeOK
<1>2. ASSUME NEW p \in Procs, CheckGuard(p) PROVE TypeOK'
  <2> DEFINE r == IF GuardHolds(Head(req[p].left))
                  THEN [req[p] EXCEPT !.left = Tail(req[p].left)] ELSE Idle
  <2>1. req[p] \in Request /\ req[p].left \in Seq(TransitionGuard) /\ req[p].left # <<>>
    BY <1>2 DEF TypeOK, Request, CheckGuard
  <2>2. Tail(req[p].left) \in Seq(TransitionGuard)
    BY <2>1
  <2>3. [req[p] EXCEPT !.left = Tail(req[p].left)] \in Request
    BY <2>1, <2>2 DEF Request
  <2>4. r \in Request
    <3>1. CASE GuardHolds(Head(req[p].left))
      BY <2>3, <3>1
    <3>2. CASE ~GuardHolds(Head(req[p].left))
      BY IdleType, <3>2
    <3> QED
      BY <3>1, <3>2
  <2>5. req' = [req EXCEPT ![p] = r]
    BY <1>2 DEF CheckGuard
  <2>6. req' \in [Procs -> Request]
    BY <2>4, <2>5, RequestType
  <2> QED
    BY <1>2, <2>6 DEF CheckGuard, TypeOK
<1>3. ASSUME NEW p \in Procs, ChangeStatusCommit(p) PROVE TypeOK'
  <2>1. FollowUp(req[p].to) \in Request
    BY IdleType DEF FollowUp, Request, Pc
  <2>2. req' \in [Procs -> Request]
    BY <1>3, <2>1, RequestType DEF ChangeStatusCommit
  <2>3. status' \in RecordStatus
    BY <1>3 DEF ChangeStatusCommit, TypeOK, Request
  <2>4. locked' \in BOOLEAN
    BY <1>3 DEF ChangeStatusCommit, LockAfter
  <2> QED
    BY <1>3, <2>2, <2>3, <2>4 DEF ChangeStatusCommit, TypeOK
<1>4. ASSUME NEW p \in Procs, AdvanceRead(p) PROVE TypeOK'
  <2> DEFINE r == IF status = "payment_received"
                  THEN [Idle EXCEPT !.pc = "advance_write", !.from = status,
                                    !.to = "certificate_pending"]
                  ELSE Idle
  <2>1. "certificate_pending" \in RecordStatus /\ "advance_write" \in Pc
    BY DEF RecordStatus, Pc
  <2>2. r \in Request
    BY <2>1, IdleType DEF Request, TypeOK
  <2>3. req' \in [Procs -> Request]
    BY <1>4, <2>2, RequestType DEF AdvanceRead
  <2> QED
    BY <1>4, <2>3 DEF AdvanceRead, TypeOK
<1>5. ASSUME NEW p \in Procs, AdvanceWrite(p) PROVE TypeOK'
  <2>1. req' \in [Procs -> Request]
    BY <1>5, IdleType, RequestType DEF AdvanceWrite
  <2>2. status' \in RecordStatus
    BY <1>5 DEF AdvanceWrite, TypeOK, Request
  <2> QED
    BY <1>5, <2>1, <2>2 DEF AdvanceWrite, TypeOK
<1>6. ASSUME NEW p \in Procs, VerifyRead(p) PROVE TypeOK'
  <2>1. [Idle EXCEPT !.pc = "verify_mark", !.version = cert.current] \in Request
    BY IdleType DEF Request, Pc, TypeOK
  <2>2. req' \in [Procs -> Request]
    BY <1>6, <2>1, RequestType DEF VerifyRead
  <2> QED
    BY <1>6, <2>2 DEF VerifyRead, TypeOK
<1>7. ASSUME NEW p \in Procs, VerifyMark(p) PROVE TypeOK'
  <2>1. [req[p] EXCEPT !.pc = "verify_commit", !.from = status] \in Request
    BY DEF Request, Pc, TypeOK
  <2>2. req' = [req EXCEPT ![p] = [req[p] EXCEPT !.pc = "verify_commit", !.from = status]]
    BY <1>7 DEF VerifyMark, TypeOK, Request
  <2>3. req' \in [Procs -> Request]
    BY <2>1, <2>2, RequestType
  <2> QED
    BY <1>7, <2>3 DEF VerifyMark, TypeOK
<1>8. ASSUME NEW p \in Procs, VerifyCommit(p) PROVE TypeOK'
  <2>1. req' \in [Procs -> Request]
    BY <1>8, IdleType, RequestType DEF VerifyCommit
  <2>2. req[p].version \in 0 .. MaxVersions
    BY DEF TypeOK, Request
  <2>3. cert' \in [current : 0 .. MaxVersions, verified : 0 .. MaxVersions]
    BY <1>8, <2>2 DEF VerifyCommit, TypeOK
  <2>4. status' \in RecordStatus
    BY <1>8 DEF VerifyCommit, TypeOK, RecordStatus
  <2>5. shown' \subseteq Gates
    BY <1>8 DEF VerifyCommit, TypeOK, Gates
  <2> QED
    BY <1>8, <2>1, <2>3, <2>4, <2>5 DEF VerifyCommit, TypeOK
<1>9. ASSUME NEW p \in Procs, Lost(p) PROVE TypeOK'
  <2>1. req' \in [Procs -> Request]
    BY <1>9, IdleType, RequestType DEF Lost
  <2> QED
    BY <1>9, <2>1 DEF Lost, TypeOK
<1>10. CASE CreatePlan
  <2>1. payment' \in [planned : BOOLEAN, final : Nat, paid : Nat]
    BY <1>10, AmountsAssumption DEF CreatePlan, TypeOK
  <2>2. shown' \subseteq Gates
    BY <1>10 DEF CreatePlan, TypeOK, Gates
  <2> QED
    BY <1>10, <2>1, <2>2 DEF CreatePlan, TypeOK
<1>11. CASE RecordTransaction
  <2>1. payment' \in [planned : BOOLEAN, final : Nat, paid : Nat]
    BY <1>11 DEF RecordTransaction, TypeOK
  <2>2. shown' \subseteq Gates
    BY <1>11 DEF RecordTransaction, TypeOK, Gates
  <2>3. status' \in RecordStatus
    BY <1>11 DEF RecordTransaction, TypeOK, RecordStatus
  <2> QED
    BY <1>11, <2>1, <2>2, <2>3 DEF RecordTransaction, TypeOK
<1>12. CASE ReverseTransaction
  <2>1. payment' \in [planned : BOOLEAN, final : Nat, paid : Nat]
    BY <1>12 DEF ReverseTransaction, Reversible, TypeOK
  <2>2. shown' \subseteq Gates
    BY <1>12 DEF ReverseTransaction, TypeOK, Gates
  <2> QED
    BY <1>12, <2>1, <2>2 DEF ReverseTransaction, TypeOK
<1>13. CASE UploadCertificate
  BY <1>13, VersionsAssumption DEF UploadCertificate, TypeOK
<1>14. CASE UpsertDispatch
  BY <1>14 DEF UpsertDispatch, TypeOK, Gates
<1>15. CASE AddEvidence
  BY <1>15 DEF AddEvidence, TypeOK, Gates
<1>16. CASE SetBlacklisted
  BY <1>16 DEF SetBlacklisted, TypeOK
<1>17. CASE UNCHANGED vars
  BY <1>17 DEF vars, TypeOK
<1> QED
  BY <1>1, <1>2, <1>3, <1>4, <1>5, <1>6, <1>7, <1>8, <1>9, <1>10, <1>11, <1>12, <1>13,
     <1>14, <1>15, <1>16, <1>17 DEF Next, Handler

\* Every variable keeps its type, whatever requests are in flight.
THEOREM TypeCorrect == Spec => []TypeOK
<1>1. Init => TypeOK
  BY InitType
<1>2. TypeOK /\ [Next]_vars => TypeOK'
  BY StepType
<1> QED
  BY <1>1, <1>2, PTL DEF Spec

-----------------------------------------------------------------------------
(* No gate is bypassed.                                                    *)

\* What a guard would find now has been shown.
FactsShown ==
  /\ evidence => "evidence" \in shown
  /\ payment.planned => "plan" \in shown
  /\ Settled(payment) => "fees" \in shown
  /\ SignedOff(cert) => "sign_off" \in shown
  /\ tracking => "tracking" \in shown

\* What a request is about to write it may write now, whatever the status has
\* become since it was read; or it has the guard still to evaluate.
RequestsEntitled ==
  \A p \in Procs, g \in Gates :
    /\ req[p].pc = "guards" /\ req[p].to \in Past[g] =>
         g \in Cleared \/ Asks(req[p].left, g)
    /\ req[p].pc = "advance_write" =>
         /\ req[p].to = "certificate_pending"
         /\ "certificate_pending" \in Past[g] => g \in Cleared
    /\ req[p].pc = "verify_commit" /\ req[p].from \in Past[g] => g \in Cleared

\* The inductive form of NoGateBypassed: every request in flight is entitled to
\* the status it will write, and every fact a guard can find is on the record.
GatesInductive == NoGateBypassed /\ FactsShown /\ RequestsEntitled

\* The two statuses written by automatic moves, and those they are made from.
LEMMA AutomaticMoves ==
  ASSUME NEW g \in Gates
  PROVE  /\ "certificate_pending" \in Past[g] <=> g \in {"evidence", "plan", "fees"}
         /\ "payment_received" \in Past[g] <=> g \in {"evidence", "plan", "fees"}
         /\ "payment_pending" \in Past[g] <=> g \in {"evidence", "plan"}
         /\ "dispatch_pending" \in Past[g] <=> g \in {"evidence", "plan", "fees", "sign_off"}
  BY PastStatuses DEF PastEvidence, PastPlan, PastFees, PastSignOff, PastTracking

\* What a guard finds has been shown.
LEMMA GuardShows ==
  ASSUME TypeOK, FactsShown, NEW g \in Gates, GuardHolds(GateGuard[g])
  PROVE  g \in shown
<1>1. CASE g = "evidence"
  BY <1>1 DEF GuardHolds, GateGuard, FactsShown
<1>2. CASE g = "plan"
  BY <1>2 DEF GuardHolds, GateGuard, FactsShown
<1>3. CASE g = "fees"
  BY <1>3 DEF GuardHolds, GateGuard, FactsShown
<1>4. CASE g = "sign_off"
  BY <1>4 DEF GuardHolds, GateGuard, FactsShown
<1>5. CASE g = "tracking"
  BY <1>5 DEF GuardHolds, GateGuard, FactsShown
<1> QED
  BY <1>1, <1>2, <1>3, <1>4, <1>5 DEF Gates

\* What a list of guards asks is asked by its first guard or by the rest.
LEMMA AsksHeadOrTail ==
  ASSUME NEW guards \in Seq(TransitionGuard), guards # <<>>, NEW g \in Gates, Asks(guards, g)
  PROVE  Head(guards) = GateGuard[g] \/ Asks(Tail(guards), g)
<1>1. PICK i \in DOMAIN guards : guards[i] = GateGuard[g]
  BY DEF Asks
<1>2. CASE i = 1
  BY <1>1, <1>2
<1>3. CASE i # 1
  <2>1. i - 1 \in DOMAIN Tail(guards) /\ Tail(guards)[i - 1] = guards[i]
    BY <1>3
  <2> QED
    BY <1>1, <2>1 DEF Asks
<1> QED
  BY <1>2, <1>3

\* What one request, given what has been shown, is entitled to write.
Entitled(r, facts) ==
  \A g \in Gates :
    /\ r.pc = "guards" /\ r.to \in Past[g] => g \in facts \/ Asks(r.left, g)
    /\ r.pc = "advance_write" =>
         /\ r.to = "certificate_pending"
         /\ "certificate_pending" \in Past[g] => g \in facts
    /\ r.pc = "verify_commit" /\ r.from \in Past[g] => g \in facts

\* Entitlement is never lost: a step that forgets nothing shown keeps that of every
\* request it does not move.
LEMMA EntitledPreserved ==
  ASSUME TypeOK, RequestsEntitled, Cleared \subseteq Cleared',
         NEW p \in Procs, NEW r \in Request, req' = [req EXCEPT ![p] = r],
         Entitled(r, Cleared')
  PROVE  RequestsEntitled'
<1>1. req'[p] = r /\ \A q \in Procs \ {p} : req'[q] = req[q]
  BY DEF TypeOK
<1>2. \A q \in Procs \ {p} : Entitled(req'[q], Cleared')
  BY <1>1 DEF RequestsEntitled, Entitled
<1> QED
  BY <1>1, <1>2 DEF RequestsEntitled, Entitled

\* A request that does not move stays entitled: what was shown stays shown.
LEMMA EntitledUnmoved ==
  ASSUME RequestsEntitled, Cleared \subseteq Cleared', req' = req
  PROVE  RequestsEntitled'
  BY DEF RequestsEntitled

\* A request that is not waiting to write owes nothing.
LEMMA NothingOwed ==
  ASSUME NEW r \in Request, r.pc \notin {"guards", "advance_write", "verify_commit"},
         NEW facts
  PROVE  Entitled(r, facts)
  BY DEF Entitled

\* A request that has ended has nothing to write.
LEMMA IdleOwesNothing == \A facts : Idle \in Request /\ Entitled(Idle, facts)
  BY IdleType, NothingOwed DEF Idle

\* A record as entered has shown what its status asks for.
LEMMA InitGates == Init => GatesInductive
<1> SUFFICES ASSUME Init PROVE GatesInductive
  OBVIOUS
<1>1. NoGateBypassed
  BY DEF Init, NoGateBypassed, Cleared
<1>2. FactsShown
  BY DEF Init, FactsShown, Settled, SignedOff, Cleared
<1>3. RequestsEntitled
  BY DEF Init, RequestsEntitled, Idle
<1> QED
  BY <1>1, <1>2, <1>3 DEF GatesInductive

\* Every step keeps every request entitled to what it will write.
LEMMA StepGates == TypeOK /\ GatesInductive /\ [Next]_vars => GatesInductive'
<1> SUFFICES ASSUME TypeOK, NoGateBypassed, FactsShown, RequestsEntitled, [Next]_vars
             PROVE  GatesInductive'
  BY DEF GatesInductive
<1>1. ASSUME NEW p \in Procs, ChangeStatusLoad(p) PROVE GatesInductive'
  <2>1. PICK t \in STATUS_TRANSITIONS, override \in BOOLEAN :
          /\ t.from = status
          /\ req' = [req EXCEPT ![p] =
                       [Idle EXCEPT !.pc = "guards", !.from = t.from, !.to = t.to,
                                    !.left = t.guards,
                                    !.override = override \/ t.override]]
    BY <1>1 DEF ChangeStatusLoad
  <2>2. GuardsItsGates(t)
    BY TableGuarded
  <2> DEFINE r == [Idle EXCEPT !.pc = "guards", !.from = t.from, !.to = t.to,
                               !.left = t.guards, !.override = override \/ t.override]
  <2>3. r \in Request
    <3>1. /\ t.from \in RecordStatus /\ t.to \in RecordStatus
          /\ t.guards \in Seq(TransitionGuard)
          /\ (override \/ t.override) \in BOOLEAN
      BY <2>2 DEF Transition, GuardsItsGates
    <3>2. "guards" \in Pc
      BY DEF Pc
    <3> QED
      BY <3>1, <3>2, IdleType DEF Request
  <2>4. r.pc = "guards" /\ r.to = t.to /\ r.left = t.guards
    BY DEF Idle
  <2>5. Entitled(r, Cleared)
    BY <2>1, <2>2, <2>4 DEF Entitled, GuardsItsGates, NoGateBypassed
  <2>6. Cleared' = Cleared
    BY <1>1 DEF ChangeStatusLoad, Cleared
  <2> HIDE DEF r
  <2>7. RequestsEntitled'
    BY <2>1, <2>3, <2>5, <2>6, EntitledPreserved DEF r
  <2> QED
    BY <1>1, <2>7
    DEF ChangeStatusLoad, GatesInductive, NoGateBypassed, FactsShown, Settled,
        SignedOff, Cleared
<1>2. ASSUME NEW p \in Procs, CheckGuard(p) PROVE GatesInductive'
  <2>1. req[p] \in Request /\ req[p].left \in Seq(TransitionGuard) /\ req[p].left # <<>>
    BY <1>2 DEF TypeOK, Request, CheckGuard
  <2>2. Cleared' = Cleared
    BY <1>2 DEF CheckGuard, Cleared
  <2>3. CASE GuardHolds(Head(req[p].left))
    <3> DEFINE r == [req[p] EXCEPT !.left = Tail(req[p].left)]
    <3>1. r \in Request
      <4>1. Tail(req[p].left) \in Seq(TransitionGuard)
        BY <2>1
      <4> QED
        BY <2>1, <4>1 DEF Request
    <3>2. r.pc = "guards" /\ r.to = req[p].to /\ r.left = Tail(req[p].left)
      BY <1>2, <2>1 DEF CheckGuard, Request
    <3>3. ASSUME NEW g \in Gates, req[p].to \in Past[g], g \notin Cleared
          PROVE  Asks(Tail(req[p].left), g)
      <4>1. Asks(req[p].left, g)
        BY <1>2, <3>3 DEF CheckGuard, RequestsEntitled
      <4>2. Head(req[p].left) # GateGuard[g]
        BY <2>3, <3>3, GuardShows DEF Cleared
      <4> QED
        BY <2>1, <4>1, <4>2, AsksHeadOrTail
    <3>4. Entitled(r, Cleared)
      BY <3>2, <3>3 DEF Entitled
    <3>5. req' = [req EXCEPT ![p] = r]
      BY <1>2, <2>3 DEF CheckGuard
    <3> HIDE DEF r
    <3> QED
      <4>1. RequestsEntitled'
        BY <2>2, <3>1, <3>4, <3>5, EntitledPreserved
      <4> QED
        BY <1>2, <4>1
        DEF CheckGuard, GatesInductive, NoGateBypassed, FactsShown, Settled,
            SignedOff, Cleared
  <2>4. CASE ~GuardHolds(Head(req[p].left))
    <3>1. req' = [req EXCEPT ![p] = Idle]
      BY <1>2, <2>4 DEF CheckGuard
    <3>2. RequestsEntitled'
      BY <2>2, <3>1, IdleOwesNothing, EntitledPreserved
    <3> QED
      BY <1>2, <3>2
      DEF CheckGuard, GatesInductive, NoGateBypassed, FactsShown, Settled,
          SignedOff, Cleared
  <2> QED
    BY <2>3, <2>4
<1>3. ASSUME NEW p \in Procs, ChangeStatusCommit(p) PROVE GatesInductive'
  <2>1. Cleared' = Cleared /\ status' = req[p].to
    BY <1>3 DEF ChangeStatusCommit, Cleared
  <2>2. NoGateBypassed'
    <3>1. ASSUME NEW g \in Gates, req[p].to \in Past[g] PROVE g \in Cleared
      BY <1>3, <3>1 DEF ChangeStatusCommit, RequestsEntitled, Asks
    <3> QED
      BY <2>1, <3>1 DEF NoGateBypassed
  <2>3. FollowUp(req[p].to) \in Request /\ Entitled(FollowUp(req[p].to), Cleared)
    <3>1. CASE req[p].to = "payment_received"
      <4>1. [Idle EXCEPT !.pc = "advance_read"] \in Request
        BY IdleType DEF Request, Pc
      <4>2. [Idle EXCEPT !.pc = "advance_read"].pc = "advance_read"
        BY DEF Idle
      <4> QED
        BY <3>1, <4>1, <4>2, NothingOwed DEF FollowUp
    <3>2. CASE req[p].to # "payment_received"
      BY <3>2, IdleOwesNothing DEF FollowUp
    <3> QED
      BY <3>1, <3>2
  <2>4. RequestsEntitled'
    BY <1>3, <2>1, <2>3, EntitledPreserved DEF ChangeStatusCommit
  <2>5. FactsShown'
    BY <1>3 DEF ChangeStatusCommit, FactsShown, Settled, SignedOff, Cleared
  <2> QED
    BY <2>2, <2>4, <2>5 DEF GatesInductive
<1>4. ASSUME NEW p \in Procs, AdvanceRead(p) PROVE GatesInductive'
  <2>1. Cleared' = Cleared
    BY <1>4 DEF AdvanceRead, Cleared
  <2>2. RequestsEntitled'
    <3>1. CASE status = "payment_received"
      <4> DEFINE r == [Idle EXCEPT !.pc = "advance_write", !.from = status,
                                   !.to = "certificate_pending"]
      <4>1. "certificate_pending" \in RecordStatus /\ "advance_write" \in Pc
        BY DEF RecordStatus, Pc
      <4>2. r \in Request
        BY <4>1, IdleType DEF Request, TypeOK
      <4>3. r.pc = "advance_write" /\ r.to = "certificate_pending"
        BY DEF Idle
      <4>4. \A g \in Gates : "certificate_pending" \in Past[g] => g \in Cleared
        BY <3>1, AutomaticMoves DEF NoGateBypassed
      <4>5. Entitled(r, Cleared)
        BY <4>3, <4>4 DEF Entitled
      <4>6. req' = [req EXCEPT ![p] = r]
        BY <1>4, <3>1 DEF AdvanceRead
      <4> HIDE DEF r
      <4> QED
        BY <2>1, <4>2, <4>5, <4>6, EntitledPreserved
    <3>2. CASE status # "payment_received"
      BY <1>4, <2>1, <3>2, IdleOwesNothing, EntitledPreserved DEF AdvanceRead
    <3> QED
      BY <3>1, <3>2
  <2> QED
    BY <1>4, <2>2
    DEF AdvanceRead, GatesInductive, NoGateBypassed, FactsShown, Settled, SignedOff, Cleared
<1>5. ASSUME NEW p \in Procs, AdvanceWrite(p) PROVE GatesInductive'
  <2>1. Cleared' = Cleared /\ status' = req[p].to
    BY <1>5 DEF AdvanceWrite, Cleared
  <2>2. NoGateBypassed'
    BY <1>5, <2>1 DEF AdvanceWrite, NoGateBypassed, RequestsEntitled
  <2>3. RequestsEntitled'
    BY <1>5, <2>1, IdleOwesNothing, EntitledPreserved DEF AdvanceWrite
  <2>4. FactsShown'
    BY <1>5 DEF AdvanceWrite, FactsShown, Settled, SignedOff, Cleared
  <2> QED
    BY <2>2, <2>3, <2>4 DEF GatesInductive
<1>6. ASSUME NEW p \in Procs, VerifyRead(p) PROVE GatesInductive'
  <2> DEFINE r == [Idle EXCEPT !.pc = "verify_mark", !.version = cert.current]
  <2>1. r \in Request /\ r.pc = "verify_mark"
    BY IdleType DEF Request, Pc, TypeOK, Idle
  <2>2. Entitled(r, Cleared)
    BY <2>1, NothingOwed
  <2>3. Cleared' = Cleared /\ req' = [req EXCEPT ![p] = r]
    BY <1>6 DEF VerifyRead, Cleared
  <2> HIDE DEF r
  <2>4. RequestsEntitled'
    BY <2>1, <2>2, <2>3, EntitledPreserved
  <2> QED
    BY <1>6, <2>4
    DEF VerifyRead, GatesInductive, NoGateBypassed, FactsShown, Settled, SignedOff, Cleared
<1>7. ASSUME NEW p \in Procs, VerifyMark(p) PROVE GatesInductive'
  <2> DEFINE r == [req[p] EXCEPT !.pc = "verify_commit", !.from = status]
  <2>1. r \in Request
    BY DEF Request, Pc, TypeOK
  <2>2. r.pc = "verify_commit" /\ r.from = status
    BY DEF TypeOK, Request
  <2>3. Entitled(r, Cleared)
    BY <2>2 DEF Entitled, NoGateBypassed
  <2>4. Cleared' = Cleared /\ req' = [req EXCEPT ![p] = r]
    BY <1>7 DEF VerifyMark, TypeOK, Request, Cleared
  <2> HIDE DEF r
  <2>5. RequestsEntitled'
    BY <2>1, <2>3, <2>4, EntitledPreserved
  <2> QED
    BY <1>7, <2>5
    DEF VerifyMark, GatesInductive, NoGateBypassed, FactsShown, Settled, SignedOff, Cleared
<1>8. ASSUME NEW p \in Procs, VerifyCommit(p) PROVE GatesInductive'
  <2>1. /\ Cleared \subseteq Cleared' /\ shown \subseteq shown'
        /\ SignedOff(cert') => "sign_off" \in shown'
        /\ req[p].from \in SignOffFrom => "sign_off" \in Cleared'
    BY <1>8 DEF VerifyCommit, Cleared
  <2>2. NoGateBypassed'
    <3>1. CASE req[p].from \in SignOffFrom
      <4>1. \A g \in {"evidence", "plan", "fees"} : g \in Cleared
        BY <1>8, <3>1, AutomaticMoves DEF VerifyCommit, SignOffFrom, RequestsEntitled, Gates
      <4>2. status' = "dispatch_pending"
        BY <1>8, <3>1 DEF VerifyCommit
      <4> QED
        BY <2>1, <3>1, <4>1, <4>2, AutomaticMoves DEF NoGateBypassed
    <3>2. CASE req[p].from \notin SignOffFrom
      BY <1>8, <2>1, <3>2 DEF VerifyCommit, NoGateBypassed
    <3> QED
      BY <3>1, <3>2
  <2>3. RequestsEntitled'
    BY <1>8, <2>1, IdleOwesNothing, EntitledPreserved DEF VerifyCommit
  <2>4. FactsShown'
    BY <1>8 DEF VerifyCommit, FactsShown, Settled, SignedOff, Cleared
  <2> QED
    BY <2>2, <2>3, <2>4 DEF GatesInductive
<1>9. ASSUME NEW p \in Procs, Lost(p) PROVE GatesInductive'
  <2>1. RequestsEntitled'
    BY <1>9, IdleOwesNothing, EntitledPreserved DEF Lost, Cleared
  <2> QED
    BY <1>9, <2>1
    DEF Lost, GatesInductive, NoGateBypassed, FactsShown, Settled, SignedOff, Cleared
<1>10. CASE CreatePlan
  <2>1. /\ Cleared \subseteq Cleared' /\ shown \subseteq shown'
        /\ "plan" \in shown' /\ (Settled(payment') => "fees" \in shown')
    BY <1>10 DEF CreatePlan, Cleared
  <2>2. RequestsEntitled'
    BY <1>10, <2>1, EntitledUnmoved DEF CreatePlan, Cleared
  <2>3. FactsShown'
    BY <1>10, <2>1 DEF CreatePlan, FactsShown, Settled, SignedOff, Cleared
  <2> QED
    BY <1>10, <2>1, <2>2, <2>3 DEF CreatePlan, GatesInductive, NoGateBypassed
<1>11. CASE RecordTransaction
  <2>1. shown \subseteq shown' /\ (Settled(payment') => "fees" \in shown')
    BY <1>11 DEF RecordTransaction
  <2>2. RequestsEntitled'
    BY <1>11, <2>1, EntitledUnmoved DEF RecordTransaction, Cleared
  <2>3. payment'.planned = payment.planned
    BY <1>11 DEF RecordTransaction, TypeOK
  <2>4. FactsShown'
    BY <1>11, <2>1, <2>3 DEF RecordTransaction, FactsShown, Settled, SignedOff, Cleared
  <2>5. NoGateBypassed'
    <3>1. CASE Settled(payment') /\ status \in {"payment_pending", "payment_received"}
      <4>1. status' = "certificate_pending"
        BY <1>11, <3>1 DEF RecordTransaction
      <4>2. "evidence" \in Cleared /\ "plan" \in Cleared
        BY <3>1, AutomaticMoves DEF NoGateBypassed, Gates
      <4> QED
        BY <2>1, <3>1, <4>1, <4>2, AutomaticMoves DEF NoGateBypassed, Cleared
    <3>2. CASE ~(Settled(payment') /\ status \in {"payment_pending", "payment_received"})
      BY <1>11, <2>1, <3>2 DEF RecordTransaction, NoGateBypassed, Cleared
    <3> QED
      BY <3>1, <3>2
  <2> QED
    BY <2>2, <2>4, <2>5 DEF GatesInductive
<1>12. CASE ReverseTransaction
  <2>1. shown \subseteq shown' /\ (Settled(payment') => "fees" \in shown')
    BY <1>12 DEF ReverseTransaction
  <2>2. RequestsEntitled'
    BY <1>12, <2>1, EntitledUnmoved DEF ReverseTransaction, Cleared
  <2>3. payment'.planned = payment.planned
    BY <1>12 DEF ReverseTransaction, TypeOK
  <2>4. FactsShown'
    BY <1>12, <2>1, <2>3 DEF ReverseTransaction, FactsShown, Settled, SignedOff, Cleared
  <2> QED
    BY <1>12, <2>1, <2>2, <2>4
    DEF ReverseTransaction, GatesInductive, NoGateBypassed, Cleared
<1>13. CASE UploadCertificate
  <2>1. RequestsEntitled'
    BY <1>13, EntitledUnmoved DEF UploadCertificate, Cleared
  <2> QED
    BY <1>13, <2>1
    DEF UploadCertificate, GatesInductive, NoGateBypassed, FactsShown, Settled,
        SignedOff, Cleared
<1>14. CASE UpsertDispatch
  <2>1. shown \subseteq shown' /\ (tracking' => "tracking" \in shown')
    BY <1>14 DEF UpsertDispatch
  <2>2. RequestsEntitled'
    BY <1>14, <2>1, EntitledUnmoved DEF UpsertDispatch, Cleared
  <2> QED
    BY <1>14, <2>1, <2>2
    DEF UpsertDispatch, GatesInductive, NoGateBypassed, FactsShown, Settled, SignedOff, Cleared
<1>15. CASE AddEvidence
  <2>1. shown \subseteq shown' /\ "evidence" \in shown'
    BY <1>15 DEF AddEvidence
  <2>2. RequestsEntitled'
    BY <1>15, <2>1, EntitledUnmoved DEF AddEvidence, Cleared
  <2> QED
    BY <1>15, <2>1, <2>2
    DEF AddEvidence, GatesInductive, NoGateBypassed, FactsShown, Settled, SignedOff, Cleared
<1>16. CASE SetBlacklisted
  <2>1. RequestsEntitled'
    BY <1>16, EntitledUnmoved DEF SetBlacklisted, Cleared
  <2> QED
    BY <1>16, <2>1
    DEF SetBlacklisted, GatesInductive, NoGateBypassed, FactsShown, Settled,
        SignedOff, Cleared
<1>17. CASE UNCHANGED vars
  BY <1>17
  DEF vars, GatesInductive, NoGateBypassed, FactsShown, Settled, SignedOff, Cleared,
      RequestsEntitled
<1> QED
  BY <1>1, <1>2, <1>3, <1>4, <1>5, <1>6, <1>7, <1>8, <1>9, <1>10, <1>11, <1>12, <1>13,
     <1>14, <1>15, <1>16, <1>17 DEF Next, Handler

\* However many requests race, the inductive form holds of every reachable state.
LEMMA GatesInductiveCorrect == Spec => []GatesInductive
<1>1. Init => TypeOK /\ GatesInductive
  BY InitType, InitGates
<1>2. TypeOK /\ GatesInductive /\ [Next]_vars => (TypeOK /\ GatesInductive)'
  BY StepType, StepGates
<1> QED
  BY <1>1, <1>2, PTL DEF Spec

\* However many requests race, no record stands past a gate it never had what to show
\* for, but past the sign-off where a sign-off was overtaken by a correction.
THEOREM GatesHold == Spec => []NoGateBypassed
<1>1. GatesInductive => NoGateBypassed
  BY DEF GatesInductive
<1> QED
  BY <1>1, GatesInductiveCorrect, PTL

-----------------------------------------------------------------------------
(* The lock.                                                               *)

\* A record that enters no terminal status by a back-dated entry is locked
\* whenever it stands at one, whatever status changes and automatic moves race.
THEOREM TerminalLocked ==
  ASSUME EntryStatuses \cap TerminalStatus = {}
  PROVE  Spec => []TerminalIsLocked
<1>1. Init => TerminalIsLocked
  BY DEF Init, TerminalIsLocked
<1>2. ASSUME TypeOK, RequestsEntitled, TerminalIsLocked, [Next]_vars
      PROVE  TerminalIsLocked'
  <2>1. ASSUME NEW p \in Procs, ChangeStatusCommit(p) PROVE TerminalIsLocked'
    BY <2>1 DEF ChangeStatusCommit, LockAfter, TerminalIsLocked
  <2>2. ASSUME NEW p \in Procs, AdvanceWrite(p) PROVE TerminalIsLocked'
    <3>1. status' = "certificate_pending"
      BY <1>2, <2>2 DEF AdvanceWrite, RequestsEntitled, Gates
    <3> QED
      BY <3>1 DEF TerminalIsLocked, TerminalStatus
  <2>3. ASSUME NEW p \in Procs, VerifyCommit(p) PROVE TerminalIsLocked'
    BY <1>2, <2>3 DEF VerifyCommit, TerminalIsLocked, TerminalStatus
  <2>4. CASE RecordTransaction
    BY <1>2, <2>4 DEF RecordTransaction, TerminalIsLocked, TerminalStatus
  <2>5. CASE UNCHANGED <<status, locked>>
    BY <1>2, <2>5 DEF TerminalIsLocked
  <2> QED
    BY <1>2, <2>1, <2>2, <2>3, <2>4, <2>5
    DEF Next, Handler, vars, ChangeStatusLoad, CheckGuard, AdvanceRead, VerifyRead,
        VerifyMark, Lost, CreatePlan, ReverseTransaction, UploadCertificate,
        UpsertDispatch, AddEvidence, SetBlacklisted
<1>3. Spec => []TypeOK /\ []GatesInductive
  BY TypeCorrect, GatesInductiveCorrect
<1>4. GatesInductive => RequestsEntitled
  BY DEF GatesInductive
<1> QED
  BY <1>1, <1>2, <1>3, <1>4, PTL DEF Spec
=============================================================================
