--------------------------- MODULE SnapshotMirror ---------------------------
(***************************************************************************)
(* What the inbox of the website promises, whatever is repeated, reordered,*)
(* lost or run twice: of one application the website holds, at most one    *)
(* record is opened; a snapshot takes effect only once it has been made,   *)
(* and no record is there without one that did; and what is reported as    *)
(* imported has taken effect.                                              *)
(***************************************************************************)
EXTENDS Naturals

VARIABLES
  sent,      \* how many snapshots the website has made of the application
  records,   \* how many records were opened for it
  effects,   \* the snapshots that have taken effect
  reported   \* the snapshots reported as imported, or as known already

vars == <<sent, records, effects, reported>>

Init ==
  /\ sent = 0
  /\ records = 0
  /\ effects = {}
  /\ reported = {}

Send ==
  /\ sent' = sent + 1
  /\ UNCHANGED <<records, effects, reported>>

\* The first to take effect opens the record, the others find it.
TakeEffect(n) ==
  /\ records' = 1
  /\ effects' = effects \cup {n}
  /\ UNCHANGED <<sent, reported>>

Report(n) ==
  /\ reported' = reported \cup {n}
  /\ UNCHANGED <<sent, records, effects>>

\* A replay or a reset takes reports back.
Retract ==
  /\ reported' \in SUBSET reported
  /\ UNCHANGED <<sent, records, effects>>

Next ==
  \/ Send
  \/ \E n \in 1 .. sent : TakeEffect(n)
  \/ \E n \in effects : Report(n)
  \/ Retract

Spec == Init /\ [][Next]_vars
=============================================================================
