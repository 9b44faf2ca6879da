-------------------------- MODULE RecordLifecycle --------------------------
(***************************************************************************)
(* One record (a case) and everything that moves its status: the status    *)
(* change handler, the sign-off of a certificate, and the automatic moves  *)
(* that follow a settled payment or a sign-off.                            *)
(*                                                                         *)
(* The API runs in several processes over one PostgreSQL database at READ  *)
(* COMMITTED and takes no lock when it reads a record, so a handler is a   *)
(* request that reads, decides and writes in separate steps; other requests *)
(* run between them.  Handlers whose whole effect is decided by rows they  *)
(* hold locked while they write are one step here; how they interleave     *)
(* statement by statement is the subject of PaymentLedger and Certificates.*)
(*                                                                         *)
(* An operator named X_Bug is the definition X as a plausible slip would   *)
(* have it.  No action uses one: each is there to show that a property     *)
(* tells X from it.                                                        *)
(***************************************************************************)
EXTENDS Workflow, Integers

CONSTANTS
  Procs,          \* requests that can be in flight at once
  EntryStatuses,  \* the statuses a record may be entered at
  FinalAmounts,   \* totals a payment plan may have, in instalments
  MaxVersions,    \* bound on certificate uploads
  Crashes         \* whether a request in flight may be lost

ASSUME ProcsAssumption == Procs # {}
ASSUME EntryAssumption == EntryStatuses \subseteq RecordStatus
ASSUME AmountsAssumption == FinalAmounts \subseteq Nat
ASSUME VersionsAssumption == MaxVersions \in Nat
ASSUME CrashesAssumption == Crashes \in BOOLEAN

VARIABLES
  status,       \* records.status
  locked,       \* records.locked_at is not null
  evidence,     \* the record has a row in evidence_files
  blacklisted,  \* applicants.is_blacklisted
  payment,      \* the payments row: planned, final_amount, amount_paid
  cert,         \* the certificates row: current and verified version, 0 for none
  tracking,     \* the current dispatch carries a tracking number
  req,          \* what each request has read and has still to do
  shown,        \* history: what the record has at some time had to show
  outdated      \* history: the sign-off of a replaced file has moved the record on

vars == <<status, locked, evidence, blacklisted, payment, cert, tracking, req,
          shown, outdated>>

-----------------------------------------------------------------------------
(* What a gate asks for, and the statuses that lie past it.                *)

Gates == {"evidence", "plan", "fees", "sign_off", "tracking"}

GateGuard ==
  [evidence |-> "has_evidence", plan |-> "has_payment_plan",
   fees |-> "payment_settled", sign_off |-> "certificate_verified",
   tracking |-> "has_dispatch"]

PastTracking == {"dispatched", "delivered", "publication", "completed"}
PastSignOff  == PastTracking \cup {"certificate_uploaded", "dispatch_pending"}
PastFees     == PastSignOff \cup {"payment_received", "certificate_pending"}
PastPlan     == PastFees \cup {"payment_pending"}
PastEvidence == PastPlan \cup {"verification_pending", "selected"}

Past ==
  [evidence |-> PastEvidence, plan |-> PastPlan, fees |-> PastFees,
   sign_off |-> PastSignOff, tracking |-> PastTracking]

-----------------------------------------------------------------------------

Settled(pay) == pay.planned /\ pay.paid >= pay.final

\* The version that would go out is the one that was signed off.
SignedOff(c) == c.current > 0 /\ c.verified = c.current

\* checkGuard: what each guard reads in the database.
GuardHolds(guard) ==
  CASE guard = "has_evidence"         -> evidence
    [] guard = "has_payment_plan"     -> payment.planned
    [] guard = "payment_settled"      -> Settled(payment)
    [] guard = "certificate_verified" -> SignedOff(cert)
    [] guard = "has_dispatch"         -> tracking
    [] guard = "not_blacklisted"      -> ~blacklisted

Pc == {"idle", "guards", "advance_read", "advance_write",
       "verify_mark", "verify_commit"}

Request ==
  [pc : Pc, from : RecordStatus, to : RecordStatus,
   left : Seq(TransitionGuard), override : BOOLEAN, version : 0 .. MaxVersions]

Idle ==
  [pc |-> "idle", from |-> "new_lead", to |-> "new_lead",
   left |-> <<>>, override |-> FALSE, version |-> 0]

\* A record taken on with a back-dated status is entered as having passed the
\* gates before it; no entry of any kind sets locked_at.
Init ==
  /\ status \in EntryStatuses
  /\ locked = FALSE
  /\ evidence = FALSE
  /\ blacklisted = FALSE
  /\ payment = [planned |-> FALSE, final |-> 0, paid |-> 0]
  /\ cert = [current |-> 0, verified |-> 0]
  /\ tracking = FALSE
  /\ req = [p \in Procs |-> Idle]
  /\ shown = {g \in Gates : status \in Past[g]}
  /\ outdated = FALSE

-----------------------------------------------------------------------------
(* changeStatus: load and decide, one SELECT per guard, one transaction    *)
(* that writes, and the automatic move out of payment_received.            *)

\* The client may send the updated_at it last saw; it is compared with the row
\* loaded here and nothing later, so a request that gets past this step is the
\* same with it and without it.
ChangeStatusLoad(p) ==
  /\ req[p].pc = "idle"
  /\ \E t \in STATUS_TRANSITIONS, override \in BOOLEAN :
       /\ t.from = status
       /\ locked => override
       /\ req' = [req EXCEPT ![p] =
                    [Idle EXCEPT !.pc = "guards", !.from = t.from, !.to = t.to,
                                 !.left = t.guards,
                                 !.override = override \/ t.override]]
  /\ UNCHANGED <<status, locked, evidence, blacklisted, payment, cert, tracking,
                 shown, outdated>>

CheckGuard(p) ==
  /\ req[p].pc = "guards"
  /\ req[p].left # <<>>
  /\ req' = [req EXCEPT ![p] = IF GuardHolds(Head(req[p].left))
                               THEN [req[p] EXCEPT !.left = Tail(req[p].left)]
                               ELSE Idle]
  /\ UNCHANGED <<status, locked, evidence, blacklisted, payment, cert, tracking,
                 shown, outdated>>

\* locked_at once the record has moved to a status.
LockAfter_ForgetsRejected(to) == to \in {"completed", "closed"}
LockAfter(to)                 == to \in TerminalStatus

\* What the request has left to do once that change is committed.
FollowUp_Forgotten(to) == Idle
FollowUp(to) ==
  IF to = "payment_received" THEN [Idle EXCEPT !.pc = "advance_read"] ELSE Idle

\* The UPDATE names the record and nothing else: not the status it was loaded at.
ChangeStatusCommit(p) ==
  /\ req[p].pc = "guards"
  /\ req[p].left = <<>>
  /\ status' = req[p].to
  /\ locked' = LockAfter(req[p].to)
  /\ req' = [req EXCEPT ![p] = FollowUp(req[p].to)]
  /\ UNCHANGED <<evidence, blacklisted, payment, cert, tracking, shown, outdated>>

\* advance, outside any transaction: the SELECT and its two early returns ...
AdvanceRead(p) ==
  /\ req[p].pc = "advance_read"
  /\ req' = [req EXCEPT ![p] =
               IF status = "payment_received"
               THEN [Idle EXCEPT !.pc = "advance_write", !.from = status,
                                 !.to = "certificate_pending"]
               ELSE Idle]
  /\ UNCHANGED <<status, locked, evidence, blacklisted, payment, cert, tracking,
                 shown, outdated>>

\* ... and the UPDATE, a statement of its own that names only the record.
AdvanceWrite(p) ==
  /\ req[p].pc = "advance_write"
  /\ status' = req[p].to
  /\ req' = [req EXCEPT ![p] = Idle]
  /\ UNCHANGED <<locked, evidence, blacklisted, payment, cert, tracking, shown, outdated>>

-----------------------------------------------------------------------------
(* verify: the sign-off of a certificate.                                  *)

\* The head row and the latest version, read before the transaction begins.
VerifyRead(p) ==
  /\ req[p].pc = "idle"
  /\ cert.current > 0
  /\ cert.verified # cert.current
  /\ req' = [req EXCEPT ![p] = [Idle EXCEPT !.pc = "verify_mark", !.version = cert.current]]
  /\ UNCHANGED <<status, locked, evidence, blacklisted, payment, cert, tracking,
                 shown, outdated>>

\* Whether a request holds the certificates row locked.
CertificateRowFree_LocksWhenRead ==
  \A p \in Procs : req[p].pc \notin {"verify_mark", "verify_commit"}
CertificateRowFree == \A p \in Procs : req[p].pc # "verify_commit"

\* The UPDATE of the certificate takes its row lock; advance then reads the status.
VerifyMark(p) ==
  /\ req[p].pc = "verify_mark"
  /\ CertificateRowFree
  /\ req' = [req EXCEPT ![p].pc = "verify_commit", ![p].from = status]
  /\ UNCHANGED <<status, locked, evidence, blacklisted, payment, cert, tracking,
                 shown, outdated>>

\* The statuses a sign-off releases the record from.
SignOffFrom_TooEarly == {"payment_pending", "payment_received", "certificate_pending"}
SignOffFrom          == {"payment_received", "certificate_pending"}

\* Both advances and the sign-off become visible together at commit.  It marks the
\* version it read and moves the record on whether or not that is still the latest.
VerifyCommit(p) ==
  /\ req[p].pc = "verify_commit"
  /\ cert' = [cert EXCEPT !.verified = req[p].version]
  /\ status' = IF req[p].from \in SignOffFrom THEN "dispatch_pending" ELSE status
  /\ shown' = IF SignedOff(cert') THEN shown \cup {"sign_off"} ELSE shown
  /\ outdated' = (outdated \/ (req[p].from \in SignOffFrom /\ ~SignedOff(cert')))
  /\ req' = [req EXCEPT ![p] = Idle]
  /\ UNCHANGED <<locked, evidence, blacklisted, payment, tracking>>

-----------------------------------------------------------------------------
(* The other handlers the guards depend on.                                *)

\* Creates or replaces the plan.  It never moves the record.
CreatePlan ==
  /\ \E final \in FinalAmounts :
       /\ payment.paid <= final
       /\ payment' = [payment EXCEPT !.planned = TRUE, !.final = final]
  /\ shown' = shown \cup {"plan"} \cup (IF Settled(payment') THEN {"fees"} ELSE {})
  /\ UNCHANGED <<status, locked, evidence, blacklisted, cert, tracking, req, outdated>>

\* A receipt.  The transaction has already updated the record's payment status
\* when advance reads it, so that row is locked and the read is current.
RecordTransaction ==
  /\ payment.planned
  /\ \E amount \in 1 .. (payment.final - payment.paid) :
       payment' = [payment EXCEPT !.paid = @ + amount]
  /\ shown' = IF Settled(payment') THEN shown \cup {"fees"} ELSE shown
  /\ status' = IF Settled(payment') /\ status \in {"payment_pending", "payment_received"}
               THEN "certificate_pending" ELSE status
  /\ UNCHANGED <<locked, evidence, blacklisted, cert, tracking, req, outdated>>

\* What the receipts not yet reversed allow to be taken back.
Reversible_Twice(pay) == 1 .. pay.final
Reversible(pay)       == 1 .. pay.paid

\* Takes a receipt back.  The record stays where the receipt moved it.
ReverseTransaction ==
  /\ \E amount \in Reversible(payment) : payment' = [payment EXCEPT !.paid = @ - amount]
  /\ shown' = IF Settled(payment') THEN shown \cup {"fees"} ELSE shown
  /\ UNCHANGED <<status, locked, evidence, blacklisted, cert, tracking, req, outdated>>

\* A first upload or a correction, at whatever status the record is.
UploadCertificate ==
  /\ CertificateRowFree
  /\ cert.current < MaxVersions
  /\ cert' = [current |-> cert.current + 1, verified |-> 0]
  /\ UNCHANGED <<status, locked, evidence, blacklisted, payment, tracking, req,
                 shown, outdated>>

\* A saved dispatch form replaces the tracking number, or clears it.
UpsertDispatch ==
  /\ tracking' \in BOOLEAN
  /\ shown' = IF tracking' THEN shown \cup {"tracking"} ELSE shown
  /\ UNCHANGED <<status, locked, evidence, blacklisted, payment, cert, req, outdated>>

\* Evidence is added and never deleted.
AddEvidence ==
  /\ ~evidence
  /\ evidence' = TRUE
  /\ shown' = shown \cup {"evidence"}
  /\ UNCHANGED <<status, locked, blacklisted, payment, cert, tracking, req, outdated>>

SetBlacklisted ==
  /\ blacklisted' = ~blacklisted
  /\ UNCHANGED <<status, locked, evidence, payment, cert, tracking, req, shown, outdated>>

\* The process dies, or the database refuses the statement: what was committed
\* stays, an open transaction is rolled back, and nobody resumes the request.
Lost(p) ==
  /\ Crashes
  /\ req[p].pc # "idle"
  /\ req' = [req EXCEPT ![p] = Idle]
  /\ UNCHANGED <<status, locked, evidence, blacklisted, payment, cert, tracking,
                 shown, outdated>>

-----------------------------------------------------------------------------

\* A request already accepted takes its next step.
Handler(p) ==
  \/ CheckGuard(p)
  \/ ChangeStatusCommit(p)
  \/ AdvanceRead(p)
  \/ AdvanceWrite(p)
  \/ VerifyMark(p)
  \/ VerifyCommit(p)

Next ==
  \/ \E p \in Procs : ChangeStatusLoad(p) \/ VerifyRead(p) \/ Handler(p) \/ Lost(p)
  \/ CreatePlan
  \/ RecordTransaction
  \/ ReverseTransaction
  \/ UploadCertificate
  \/ UpsertDispatch
  \/ AddEvidence
  \/ SetBlacklisted

Spec == Init /\ [][Next]_vars

\* Every accepted request runs to its end, and PostgreSQL queues those that wait
\* for a row lock; nobody is obliged to send another request.
FairSpec ==
  /\ Spec
  /\ \A p \in Procs : WF_vars(Handler(p)) /\ SF_vars(VerifyMark(p))

-----------------------------------------------------------------------------

\* The type of every variable.
TypeOK ==
  /\ status \in RecordStatus
  /\ locked \in BOOLEAN
  /\ evidence \in BOOLEAN
  /\ blacklisted \in BOOLEAN
  /\ payment \in [planned : BOOLEAN, final : Nat, paid : Nat]
  /\ cert \in [current : 0 .. MaxVersions, verified : 0 .. MaxVersions]
  /\ tracking \in BOOLEAN
  /\ req \in [Procs -> Request]
  /\ shown \subseteq Gates
  /\ outdated \in BOOLEAN

\* The gates the record may stand past: those it has had what to show for.  The sign-off
\* alone has another way past it: verify reads the version before its transaction, and
\* a correction uploaded meanwhile goes on without a signature of its own.
Cleared == shown \cup (IF outdated THEN {"sign_off"} ELSE {})

\* A record stands past a gate only if it has at some time had what the gate asks for,
\* whatever requests raced to bring it there: no stale request and no automatic move
\* carries a record past evidence, plan, fees or tracking that it never had, and none
\* but a sign-off overtaken by a correction carries it past a signature for the file
\* that was then the latest (workflow.service.ts:249, auto-advance.service.ts:83).
NoGateBypassed == \A g \in Gates : status \in Past[g] => g \in Cleared

\* A record brought to a terminal status is locked, even when automatic moves
\* and status changes race.
TerminalIsLocked == status \in TerminalStatus => locked

\* A record does not stay at Payment Received: that is a stage the record
\* passes through on its own when no request is lost.
PaymentReceivedIsTransient ==
  status = "payment_received" ~> status # "payment_received"

\* No request waits for ever, on a row lock or on anything else.
EveryRequestEnds == \A p \in Procs : req[p].pc # "idle" ~> req[p].pc = "idle"

-----------------------------------------------------------------------------
(* What the code says of itself and does not do.                           *)

\* auto-advance.service.ts:50 "The update is conditional on the status still
\* being what the caller saw, so the loser of that race changes nothing".
AdvanceOnlyFromWhatItSaw ==
  [][\A p \in Procs :
       AdvanceWrite(p) => status \in {req[p].from, req[p].to}]_vars
=============================================================================
