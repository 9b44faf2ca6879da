---------------------------- MODULE LegacyStages ----------------------------
(***************************************************************************)
(* The stages of an application on the NBR website, where each lands in    *)
(* the CRM, and what a snapshot at a stage does to the status of a record  *)
(* (applyStatus).  Ranks are doubled, because the code ranks what the CRM  *)
(* adds to the ladder at half steps.                                       *)
(*                                                                         *)
(* An operator named X_Bug is the definition X as a plausible slip would   *)
(* have it; no action uses one.                                            *)
(***************************************************************************)
EXTENDS Workflow, Integers

LEGACY_STAGE_TO_STATUS ==
  [draft              |-> "new_lead",
   submitted          |-> "application_submitted",
   under_review       |-> "under_review",
   validated          |-> "verification_pending",
   on_hold            |-> "on_hold",
   approved           |-> "selected",
   payment_received   |-> "payment_received",
   certificate_issued |-> "certificate_uploaded",
   dispatch_pending   |-> "dispatch_pending",
   dispatched         |-> "dispatched",
   delivered          |-> "delivered",
   rejected           |-> "rejected",
   cancelled          |-> "closed"]

LegacyStage == DOMAIN LEGACY_STAGE_TO_STATUS

\* A snapshot of an older website build, which states no stage.
Unstated == "unstated"

LEGACY_STAGE_RANK ==
  [draft |-> -1, submitted |-> 0, under_review |-> 2, validated |-> 4, on_hold |-> -2,
   approved |-> 6, payment_received |-> 8, certificate_issued |-> 10,
   dispatch_pending |-> 12, dispatched |-> 14, delivered |-> 16,
   rejected |-> -2, cancelled |-> -2]

LEGACY_DECISION_STAGES == {"rejected", "cancelled", "on_hold"}
DecisionStatus         == {"rejected", "closed", "on_hold"}

CERTIFICATE_VERIFICATION_RANK == LEGACY_STAGE_RANK.payment_received + 1

CRM_ONLY_STAGE_RANK ==
  [payment_pending     |-> LEGACY_STAGE_RANK.approved + 1,
   certificate_pending |-> CERTIFICATE_VERIFICATION_RANK,
   publication         |-> LEGACY_STAGE_RANK.delivered + 1,
   completed           |-> 99]

\* rankOf: every status but those that are decisions has a rank.
RankOf(status) ==
  IF status \in DOMAIN CRM_ONLY_STAGE_RANK THEN CRM_ONLY_STAGE_RANK[status]
  ELSE LEGACY_STAGE_RANK[CHOOSE stage \in LegacyStage \ LEGACY_DECISION_STAGES :
                           LEGACY_STAGE_TO_STATUS[stage] = status]

-----------------------------------------------------------------------------

\* Fees in on the website take a record up to the sign-off of its certificate here,
\* and no further until that is given.
HeldForSignOff(stage, verified) ==
  LEGACY_STAGE_RANK[stage] >= LEGACY_STAGE_RANK.payment_received /\ ~verified

\* The status a snapshot leads to, and how far along the ladder that is.
Target_Unmapped(stage, verified) ==
  IF HeldForSignOff(stage, verified) THEN "certificate_pending" ELSE stage
Target(stage, verified) ==
  IF HeldForSignOff(stage, verified) THEN "certificate_pending"
  ELSE LEGACY_STAGE_TO_STATUS[stage]

TargetRank(stage, verified) ==
  IF HeldForSignOff(stage, verified) THEN CERTIFICATE_VERIFICATION_RANK
  ELSE LEGACY_STAGE_RANK[stage]

\* A decision, and the reopening of one, may land anywhere.
DecisionInvolved(status, stage) ==
  stage \in LEGACY_DECISION_STAGES \/ status \in DecisionStatus

\* Whether a snapshot moves a record that was read at this status.
Moves_Anywhere(status, stage, verified) ==
  stage # Unstated /\ Target(stage, verified) # status
Moves(status, stage, verified) ==
  /\ stage # Unstated
  /\ Target(stage, verified) # status
  /\ DecisionInvolved(status, stage) \/ TargetRank(stage, verified) > RankOf(status)
=============================================================================
