------------------------- MODULE MCRecordLifecycle -------------------------
(***************************************************************************)
(* Instances of RecordLifecycle for TLC.                                   *)
(***************************************************************************)
EXTENDS RecordLifecycle, TLC

\* Requests are interchangeable.
Symmetry == Permutations(Procs)

\* Where a record may be entered: fresh, or anywhere by a back-entry.
Intake == INTAKE_STATUSES

\* A back-entry at a terminal status is not locked; from any other status the
\* lock depends on the handlers alone.
OpenStatuses == RecordStatus \ TerminalStatus

\* Liveness starts late, so that what it is about comes early: the stage whose
\* exit is automatic, and the one where sign-offs queue for the certificate.
LateStages == {"payment_pending", "certificate_pending"}
=============================================================================
