------------------------- MODULE WebsiteInboxProofs -------------------------
(***************************************************************************)
(* For any number of handlers, snapshots and resets, and whatever the      *)
(* environment does: what is reported as imported is in force, the import  *)
(* takes no record past the sign-off of its certificate, and the inbox     *)
(* implements SnapshotMirror.  For deliveries in order of which staff and  *)
(* operators keep clear: the import takes no record backward.              *)
(***************************************************************************)
EXTENDS WebsiteInbox, TLAPS

-----------------------------------------------------------------------------
(* The stages and where they land.                                         *)

\* The stages along which an application proceeds.
Ladder == LegacyStage \ LEGACY_DECISION_STAGES

\* The stages, one by one.
LEMMA StagesAre ==
  LegacyStage =
    {"draft", "submitted", "under_review", "validated", "on_hold", "approved",
     "payment_received", "certificate_issued", "dispatch_pending", "dispatched",
     "delivered", "rejected", "cancelled"}
BY DEF LegacyStage, LEGACY_STAGE_TO_STATUS

\* A snapshot of no stage is none of them, and each has a status and a rank.
LEMMA StageTyped ==
  ASSUME NEW stage \in LegacyStage
  PROVE  /\ stage # Unstated
         /\ LEGACY_STAGE_TO_STATUS[stage] \in RecordStatus
         /\ LEGACY_STAGE_RANK[stage] \in Int
BY StagesAre DEF Unstated, LEGACY_STAGE_TO_STATUS, RecordStatus, LEGACY_STAGE_RANK

\* No two stages land at one status.
LEMMA OneStagePerStatus ==
  \A s, t \in LegacyStage :
    LEGACY_STAGE_TO_STATUS[s] = LEGACY_STAGE_TO_STATUS[t] => s = t
BY StagesAre DEF LEGACY_STAGE_TO_STATUS

\* A status the website's ladder leads to ranks as the stage it stands for.
LEMMA RankOfLadder ==
  ASSUME NEW s \in Ladder
  PROVE  RankOf(LEGACY_STAGE_TO_STATUS[s]) = LEGACY_STAGE_RANK[s]
<1>1. LEGACY_STAGE_TO_STATUS[s] \notin DOMAIN CRM_ONLY_STAGE_RANK
  BY StagesAre DEF Ladder, LEGACY_STAGE_TO_STATUS, CRM_ONLY_STAGE_RANK
<1> DEFINE t == CHOOSE stage \in LegacyStage \ LEGACY_DECISION_STAGES :
                  LEGACY_STAGE_TO_STATUS[stage] = LEGACY_STAGE_TO_STATUS[s]
<1>2. t \in LegacyStage /\ LEGACY_STAGE_TO_STATUS[t] = LEGACY_STAGE_TO_STATUS[s]
  BY DEF Ladder
<1>3. t = s
  BY <1>2, OneStagePerStatus DEF Ladder
<1> QED
  BY <1>1, <1>3 DEF RankOf

\* The status a snapshot leads to ranks as the code takes it to.
LEMMA RankOfTarget ==
  ASSUME NEW s \in Ladder, NEW verified \in BOOLEAN
  PROVE  RankOf(Target(s, verified)) = TargetRank(s, verified)
<1>1. RankOf("certificate_pending") = CERTIFICATE_VERIFICATION_RANK
  BY DEF RankOf, CRM_ONLY_STAGE_RANK
<1> QED
  BY <1>1, RankOfLadder DEF TargetRank, Target

\* Every stage leads to a status.
LEMMA TargetTyped ==
  ASSUME NEW stage \in LegacyStage, NEW verified \in BOOLEAN
  PROVE  Target(stage, verified) \in RecordStatus
BY StageTyped DEF Target, RecordStatus

\* Without the sign-off no stage leads past it.
LEMMA TargetHeld ==
  ASSUME NEW stage \in LegacyStage
  PROVE  Target(stage, FALSE) \notin PastSignOff
BY StagesAre
DEF Target, HeldForSignOff, LEGACY_STAGE_RANK, LEGACY_STAGE_TO_STATUS, PastSignOff

\* A record is entered at a status, and one entered past the sign-off is moved back
\* at once, because apply is told that it is at application_submitted.
LEMMA EntryHeld ==
  ASSUME NEW stage \in LegacyStage \cup {Unstated}
  PROVE  /\ EntryStatus(stage) \in RecordStatus
         /\ ~Moves(ToldStatus(stage), stage, FALSE) => EntryStatus(stage) \notin PastSignOff
<1>1. CASE stage = Unstated
  BY <1>1 DEF EntryStatus, RecordStatus, PastSignOff
<1>2. CASE stage \in LegacyStage
  <2>1. EntryStatus(stage) = LEGACY_STAGE_TO_STATUS[stage]
    BY <1>2, StageTyped DEF EntryStatus
  <2>2. SUFFICES ASSUME ~Moves(ToldStatus(stage), stage, FALSE)
                 PROVE  LEGACY_STAGE_TO_STATUS[stage] \notin PastSignOff
    BY <2>1, <1>2, StageTyped
  <2>3. CASE stage \in LEGACY_DECISION_STAGES
    BY <2>3 DEF LEGACY_DECISION_STAGES, LEGACY_STAGE_TO_STATUS, PastSignOff
  <2>4. CASE stage \in Ladder
    <3>1. LEGACY_STAGE_TO_STATUS["submitted"] = "application_submitted"
          /\ LEGACY_STAGE_RANK["submitted"] = 0 /\ "submitted" \in Ladder
      BY StagesAre
      DEF LEGACY_STAGE_TO_STATUS, LEGACY_STAGE_RANK, Ladder, LEGACY_DECISION_STAGES
    <3>2. RankOf("application_submitted") = 0
      BY <3>1, RankOfLadder
    <3>3. \/ Target(stage, FALSE) = "application_submitted"
          \/ ~(TargetRank(stage, FALSE) > 0)
      BY <1>2, <2>2, <3>2, StageTyped DEF Moves, ToldStatus
    <3> QED
      BY <1>2, <3>3, StagesAre
      DEF Target, TargetRank, HeldForSignOff, CERTIFICATE_VERIFICATION_RANK,
          LEGACY_STAGE_RANK, LEGACY_STAGE_TO_STATUS, PastSignOff
  <2> QED
    BY <1>2, <2>3, <2>4 DEF Ladder
<1> QED
  BY <1>1, <1>2

\* Every transition that staff may take leads to a status.
LEMMA StaffTransitionTyped ==
  ASSUME NEW move \in StaffTransitions
  PROVE  move.to \in RecordStatus
<1>1. move \in STATUS_TRANSITIONS
  BY StagesAssumption
<1>2. CASE move \in IntakeTransitions
  BY <1>2 DEF IntakeTransitions, Open, Guarded, RecordStatus
<1>3. CASE move \in FeeTransitions
  BY <1>3 DEF FeeTransitions, Open, Guarded, RecordStatus
<1>4. CASE move \in FulfilmentTransitions
  BY <1>4 DEF FulfilmentTransitions, Open, Guarded, RecordStatus
<1>5. CASE move \in ReopeningTransitions
  BY <1>5 DEF ReopeningTransitions, Reopen, RecordStatus
<1> QED
  BY <1>1, <1>2, <1>3, <1>4, <1>5 DEF STATUS_TRANSITIONS

-----------------------------------------------------------------------------
(* The inductive invariant.                                                *)

HandlerState ==
  [pc : {"idle", "mark", "look_up", "screen", "revive", "compare", "merge", "create",
         "finish"},
   event : 0 .. MaxSnapshots, epoch : 0 .. MaxResets, from : RecordStatus,
   result : EventStatus]

RecordRow == [exists : BOOLEAN, deleted : BOOLEAN, status : RecordStatus, verified : BOOLEAN]

\* Staff can see the record.
Visible == record.exists /\ ~record.deleted

\* One record at most is opened, and only what the website made takes effect.
HistoryAgrees ==
  /\ opened = IF record.exists THEN 1 ELSE 0
  /\ applied \subseteq DOMAIN stages
  /\ mirror \in applied \cup {0}

\* An event row is of a snapshot the website made, and one that says imported, or known
\* already, is of a snapshot that took effect, of a record that is there to be seen.
EventsAgree ==
  \A n \in Snapshots :
    /\ event[n] # "none" => n \in DOMAIN stages
    /\ event[n] \in ReportedStatus => n \in applied /\ Visible

\* What a handler in flight has found still holds, whatever the others and the staff
\* did since: only a reset hides a record, and it takes away the row of every handler
\* that was there before it.
FindsHold(r) ==
  /\ r \in HandlerState
  /\ r.epoch <= epoch
  /\ r.pc # "idle" => r.event \in DOMAIN stages
  /\ r.pc \in {"revive", "compare", "merge"} => record.exists
  /\ r.pc \in {"compare", "merge"} /\ r.epoch = epoch => ~record.deleted
  /\ r.pc = "finish" /\ r.result \in ReportedStatus =>
       r.event \in applied /\ (r.epoch = epoch => Visible)
  /\ r.pc = "finish" => r.result # "none"

HandlersAgree == req \in [Procs -> HandlerState] /\ \A p \in Procs : FindsHold(req[p])

Inv ==
  /\ TypeOK
  /\ HistoryAgrees
  /\ EventsAgree
  /\ HandlersAgree

\* The snapshots made so far are those numbered so far.
LEMMA Made ==
  ASSUME TypeOK
  PROVE  /\ DOMAIN stages = 1 .. Len(stages)
         /\ Len(stages) \in Nat
         /\ DOMAIN stages \subseteq Snapshots
         /\ \A n \in DOMAIN stages : stages[n] \in Stages
BY BoundsAssumption DEF TypeOK, Snapshots

\* A handler that waits has found nothing.
LEMMA IdleFinds ==
  ASSUME TypeOK
  PROVE  FindsHold(Idle)
BY BoundsAssumption DEF TypeOK, FindsHold, Idle, HandlerState, RecordStatus, EventStatus

\* Nothing has happened yet.
LEMMA InitInv == Init => Inv
<1> SUFFICES ASSUME Init PROVE Inv
  OBVIOUS
<1>1. <<>> \in Seq(Stages) /\ Len(<<>>) = 0 /\ DOMAIN <<>> = {}
  OBVIOUS
<1>2. NoRecord \in RecordRow
  BY DEF NoRecord, RecordRow, RecordStatus
<1>3. Idle \in HandlerState
  BY BoundsAssumption DEF Idle, HandlerState, RecordStatus, EventStatus
<1>4. TypeOK
  BY <1>1, <1>2, <1>3, BoundsAssumption
  DEF Init, TypeOK, RecordRow, HandlerState, EventStatus, Snapshots
<1>5. HistoryAgrees
  BY DEF Init, HistoryAgrees, NoRecord
<1>6. EventsAgree
  BY DEF Init, EventsAgree, ReportedStatus
<1>7. HandlersAgree
  BY <1>3, <1>4, IdleFinds DEF Init, HandlersAgree
<1> QED
  BY <1>4, <1>5, <1>6, <1>7 DEF Inv

-----------------------------------------------------------------------------
(* What a step does, in the terms that matter: what a handler holds is kept*)
(* while the world only goes forward, and a handler moves on to what holds.*)

\* The world as a handler sees it after a step that is no reset: snapshots, effects and
\* the record are still there, and nothing was hidden.
Forward ==
  /\ epoch' = epoch
  /\ DOMAIN stages \subseteq DOMAIN stages'
  /\ applied \subseteq applied'
  /\ record.exists => record'.exists
  /\ record.exists /\ ~record.deleted => ~record'.deleted

\* What a handler has found is not undone by a step that is no reset.
LEMMA FindsKept ==
  ASSUME Forward, NEW r \in HandlerState, FindsHold(r)
  PROVE  FindsHold(r)'
BY DEF Forward, FindsHold, Visible

\* A handler takes a step, and the others keep what they have found.
LEMMA HandlersStep ==
  ASSUME HandlersAgree, Forward, NEW p \in Procs, NEW r \in HandlerState,
         req' = [req EXCEPT ![p] = r], FindsHold(r)'
  PROVE  HandlersAgree'
<1>1. req' \in [Procs -> HandlerState]
  BY DEF HandlersAgree
<1>2. ASSUME NEW q \in Procs PROVE FindsHold(req[q])'
  <2>1. CASE q = p
    <3>1. req'[q] = r
      BY <2>1 DEF HandlersAgree
    <3> QED
      BY <3>1 DEF FindsHold
  <2>2. CASE q # p
    <3>1. req'[q] = req[q] /\ req[q] \in HandlerState
      BY <2>2 DEF HandlersAgree
    <3> QED
      BY <3>1, FindsKept DEF HandlersAgree, FindsHold, Forward, Visible
  <2> QED
    BY <2>1, <2>2
<1> QED
  BY <1>1, <1>2 DEF HandlersAgree

\* A step of nobody's leaves the handlers what they have found.
LEMMA HandlersStay ==
  ASSUME HandlersAgree, Forward, UNCHANGED req
  PROVE  HandlersAgree'
BY FindsKept DEF HandlersAgree, FindsHold, Forward, Visible

\* A handler that goes on to another step keeps what it was started with.
LEMMA GotoStep ==
  ASSUME HandlersAgree, NEW p \in Procs, NEW pc, Goto(p, pc)
  PROVE  /\ req' = [req EXCEPT ![p] = [req[p] EXCEPT !.pc = pc]]
         /\ req[p] \in HandlerState
BY DEF HandlersAgree, Goto

\* A handler that has its result goes on to write it.
LEMMA EndsStep ==
  ASSUME HandlersAgree, NEW p \in Procs, NEW result \in EventStatus, Ends(p, result)
  PROVE  /\ req' = [req EXCEPT ![p] = [req[p] EXCEPT !.pc = "finish", !.result = result]]
         /\ req[p] \in HandlerState
         /\ [req[p] EXCEPT !.pc = "finish", !.result = result] \in HandlerState
<1>1. req[p] \in HandlerState
  BY DEF HandlersAgree
<1>2. [req[p] EXCEPT !.pc = "finish", !.result = result] \in HandlerState
  BY <1>1 DEF HandlerState
<1>3. req' = [req EXCEPT ![p] = [req[p] EXCEPT !.pc = "finish", !.result = result]]
  BY DEF HandlersAgree, Ends
<1> QED
  BY <1>1, <1>2, <1>3

\* A step that only moves a handler on, to what it has found to hold.
OnlyMoves(p) ==
  /\ UNCHANGED <<stages, event, record, mirror, blacklisted, epoch, applied, opened>>
  /\ \E r \in HandlerState : req' = [req EXCEPT ![p] = r] /\ FindsHold(r)

\* Only moving a handler on keeps the invariant.
LEMMA OnlyMovesInv ==
  ASSUME Inv, NEW p \in Procs, OnlyMoves(p)
  PROVE  Inv'
<1>1. PICK r \in HandlerState : req' = [req EXCEPT ![p] = r] /\ FindsHold(r)
  BY DEF OnlyMoves
<1>2. Forward
  BY DEF OnlyMoves, Forward
<1>3. FindsHold(r)'
  BY <1>1, <1>2, FindsKept
<1>4. HandlersAgree'
  BY <1>1, <1>2, <1>3, HandlersStep DEF Inv
<1>5. TypeOK'
  BY <1>4 DEF Inv, TypeOK, OnlyMoves, HandlersAgree, HandlerState
<1>6. HistoryAgrees'
  BY DEF Inv, HistoryAgrees, OnlyMoves
<1>7. EventsAgree'
  BY DEF Inv, EventsAgree, OnlyMoves, Visible
<1> QED
  BY <1>4, <1>5, <1>6, <1>7 DEF Inv

\* A handler is started with a snapshot the website made.
LEMMA StartFinds ==
  ASSUME TypeOK, NEW n \in DOMAIN stages
  PROVE  LET r == [Idle EXCEPT !.pc = "mark", !.event = n, !.epoch = epoch]
         IN  r \in HandlerState /\ FindsHold(r)
<1> DEFINE r == [Idle EXCEPT !.pc = "mark", !.event = n, !.epoch = epoch]
<1>1. n \in 0 .. MaxSnapshots /\ epoch \in 0 .. MaxResets
  BY Made DEF TypeOK, Snapshots
<1>2. r.pc = "mark" /\ r.event = n /\ r.epoch = epoch
  BY DEF Idle
<1>3. r \in HandlerState
  BY <1>1 DEF Idle, HandlerState, RecordStatus, EventStatus
<1> HIDE DEF r
<1>4. FindsHold(r)
  BY <1>1, <1>2, <1>3, BoundsAssumption DEF FindsHold
<1> QED
  BY <1>3, <1>4 DEF r

\* An operator's replay.
LEMMA ReplayMoves ==
  ASSUME Inv, NEW p \in Procs, NEW n \in Snapshots, Replay(p, n)
  PROVE  OnlyMoves(p)
BY StartFinds DEF Inv, EventsAgree, Replay, Stored, OnlyMoves

\* The look-up: a record marked deleted is brought back before it is compared.
LEMMA LookUpMoves ==
  ASSUME Inv, NEW p \in Procs, LookUp(p)
  PROVE  OnlyMoves(p)
<1> DEFINE pc == IF record.exists THEN AfterLookUp ELSE "screen"
           r == [req[p] EXCEPT !.pc = pc, !.from = record.status]
<1>1. req[p] \in HandlerState /\ FindsHold(req[p])
  BY DEF Inv, HandlersAgree
<1>2. pc \in {"revive", "compare", "screen"} /\ (pc # "screen" => record.exists)
      /\ (pc = "compare" => ~record.deleted)
  BY DEF AfterLookUp
<1>3. record.status \in RecordStatus
  BY DEF Inv, TypeOK
<1>4. req' = [req EXCEPT ![p] = r]
  BY DEF LookUp, Inv, HandlersAgree
<1> HIDE DEF pc
<1>5. r \in HandlerState
  BY <1>1, <1>2, <1>3 DEF HandlerState
<1>6. r.pc = pc /\ r.event = req[p].event /\ r.epoch = req[p].epoch
  BY <1>1 DEF HandlerState
<1>7. FindsHold(r)
  <2> HIDE DEF r
  <2> QED
    BY <1>1, <1>2, <1>5, <1>6 DEF FindsHold, LookUp
<1> QED
  BY <1>4, <1>5, <1>7 DEF OnlyMoves, LookUp

\* A handler that goes on to write a result that is in force, or that reports nothing.
LEMMA EndsMoves ==
  ASSUME Inv, NEW p \in Procs, req[p].pc # "idle",
         NEW result \in EventStatus \ {"none"}, Ends(p, result),
         result \in ReportedStatus => req[p].event \in applied /\ (RowStands(p) => Visible),
         UNCHANGED <<stages, event, record, mirror, blacklisted, epoch, applied, opened>>
  PROVE  OnlyMoves(p)
<1> DEFINE r == [req[p] EXCEPT !.pc = "finish", !.result = result]
<1>1. r \in HandlerState /\ req[p] \in HandlerState /\ req' = [req EXCEPT ![p] = r]
  BY EndsStep DEF Inv
<1>2. r.pc = "finish" /\ r.event = req[p].event /\ r.epoch = req[p].epoch /\ r.result = result
  BY <1>1 DEF HandlerState
<1>3. FindsHold(req[p])
  BY DEF Inv, HandlersAgree
<1> HIDE DEF r
<1>4. FindsHold(r)
  BY <1>1, <1>2, <1>3 DEF FindsHold, RowStands
<1> QED
  BY <1>1, <1>4 DEF OnlyMoves

\* A handler that goes on to a step it has found the ground for.
LEMMA GotoMoves ==
  ASSUME Inv, NEW p \in Procs, req[p].pc # "idle",
         NEW pc \in {"screen", "create", "compare", "merge"}, Goto(p, pc),
         pc \in {"compare", "merge"} => record.exists /\ (RowStands(p) => ~record.deleted),
         UNCHANGED <<stages, event, record, mirror, blacklisted, epoch, applied, opened>>
  PROVE  OnlyMoves(p)
<1> DEFINE r == [req[p] EXCEPT !.pc = pc]
<1>1. req[p] \in HandlerState /\ req' = [req EXCEPT ![p] = r]
  BY GotoStep DEF Inv
<1>2. r \in HandlerState /\ r.pc = pc /\ r.event = req[p].event /\ r.epoch = req[p].epoch
  BY <1>1 DEF HandlerState
<1>3. FindsHold(req[p])
  BY DEF Inv, HandlersAgree
<1> HIDE DEF r
<1>4. FindsHold(r)
  BY <1>1, <1>2, <1>3 DEF FindsHold, RowStands
<1> QED
  BY <1>1, <1>2, <1>4 DEF OnlyMoves

\* The other steps of a handler that write nothing: the screening, the comparison, the
\* failure of a transaction, and the death of the process.
LEMMA ReadsMove ==
  ASSUME Inv, NEW p \in Procs, Screen(p) \/ Compare(p) \/ Refused(p) \/ Lost(p)
  PROVE  OnlyMoves(p)
<1>1. req[p] \in HandlerState /\ FindsHold(req[p])
  BY DEF Inv, HandlersAgree
<1>2. {"blocked_blacklist", "duplicate_skipped", "failed"} \subseteq EventStatus \ {"none"}
      /\ {"blocked_blacklist", "failed"} \cap ReportedStatus = {}
  BY DEF EventStatus, ReportedStatus
<1>3. CASE Screen(p)
  <2>1. CASE blacklisted
    BY <1>2, <1>3, <2>1, EndsMoves DEF Screen
  <2>2. CASE ~blacklisted
    BY <1>3, <2>2, GotoMoves DEF Screen
  <2> QED
    BY <2>1, <2>2
<1>4. CASE Compare(p)
  <2>1. record.exists /\ (RowStands(p) => ~record.deleted) /\ req[p].pc # "idle"
    BY <1>1, <1>4 DEF Compare, FindsHold, RowStands
  <2>2. CASE AlreadyApplied(req[p].event)
    <3>1. req[p].event \in applied
      BY <1>1, <1>4, <2>2, Made DEF Compare, FindsHold, AlreadyApplied, Inv, HistoryAgrees,
                                   Snapshots
    <3> QED
      BY <1>2, <1>4, <2>1, <2>2, <3>1, EndsMoves DEF Compare, Visible
  <2>3. CASE ~AlreadyApplied(req[p].event)
    BY <1>4, <2>1, <2>3, GotoMoves DEF Compare
  <2> QED
    BY <2>2, <2>3
<1>5. CASE Refused(p)
  BY <1>2, <1>5, EndsMoves DEF Refused
<1>6. CASE Lost(p)
  BY <1>6, IdleFinds DEF Lost, OnlyMoves, FindsHold, Inv
<1> QED
  BY <1>3, <1>4, <1>5, <1>6

-----------------------------------------------------------------------------
(* The steps that write.                                                   *)

\* The delivery of a snapshot not stored yet.
LEMMA ReceiveInv ==
  ASSUME Inv, NEW p \in Procs, NEW n \in Snapshots, Receive(p, n)
  PROVE  Inv'
<1> DEFINE r == [Idle EXCEPT !.pc = "mark", !.event = n, !.epoch = epoch]
<1>1. r \in HandlerState /\ FindsHold(r)
  BY StartFinds DEF Inv, Receive
<1>2. Forward
  BY DEF Receive, Forward
<1>3. req' = [req EXCEPT ![p] = r]
  BY DEF Receive
<1> HIDE DEF r
<1>4. HandlersAgree'
  BY <1>1, <1>2, <1>3, FindsKept, HandlersStep DEF Inv
<1>5. TypeOK'
  BY <1>4 DEF Inv, TypeOK, Receive, HandlersAgree, HandlerState, EventStatus
<1>6. HistoryAgrees'
  BY DEF Inv, HistoryAgrees, Receive
<1>7. EventsAgree'
  BY DEF Inv, EventsAgree, Receive, Visible, ReportedStatus, TypeOK
<1> QED
  BY <1>4, <1>5, <1>6, <1>7 DEF Inv

\* The mark on the event's row, when the row is still there.
LEMMA MarkInv ==
  ASSUME Inv, NEW p \in Procs, Mark(p)
  PROVE  Inv'
<1>1. req[p] \in HandlerState /\ FindsHold(req[p])
  BY DEF Inv, HandlersAgree
<1>2. CASE RowStands(p)
  <2> DEFINE r == [req[p] EXCEPT !.pc = "look_up"]
  <2>1. event' = [event EXCEPT ![req[p].event] = "processing"]
        /\ req' = [req EXCEPT ![p] = r]
    BY <1>2, GotoStep DEF Mark, Inv
  <2>2. r \in HandlerState /\ r.pc = "look_up" /\ r.event = req[p].event
        /\ r.epoch = req[p].epoch
    BY <1>1 DEF HandlerState
  <2> HIDE DEF r
  <2>3. FindsHold(r)
    BY <1>1, <2>2 DEF FindsHold, Mark
  <2>4. Forward
    BY DEF Mark, Forward
  <2>5. HandlersAgree'
    BY <2>1, <2>2, <2>3, <2>4, FindsKept, HandlersStep DEF Inv
  <2>6. TypeOK'
    BY <2>1, <2>5 DEF Inv, TypeOK, Mark, HandlersAgree, HandlerState, EventStatus
  <2>7. HistoryAgrees'
    BY DEF Inv, HistoryAgrees, Mark
  <2>8. EventsAgree'
    BY <1>1, <2>1 DEF Inv, EventsAgree, Mark, Visible, ReportedStatus, TypeOK, FindsHold
  <2> QED
    BY <2>5, <2>6, <2>7, <2>8 DEF Inv
<1>3. CASE ~RowStands(p)
  BY <1>3, IdleFinds, OnlyMovesInv DEF Mark, OnlyMoves, FindsHold, Inv
<1> QED
  BY <1>2, <1>3

\* A record marked deleted is brought back.
LEMMA ReviveInv ==
  ASSUME Inv, NEW p \in Procs, Revive(p)
  PROVE  Inv'
<1>1. req[p] \in HandlerState /\ FindsHold(req[p])
  BY DEF Inv, HandlersAgree
<1>2. PICK r \in HandlerState :
        /\ req' = [req EXCEPT ![p] = r]
        /\ r.pc = "compare" /\ r.event = req[p].event /\ r.epoch = req[p].epoch
  <2> DEFINE r == [req[p] EXCEPT !.pc = "compare"]
  <2>1. req' = [req EXCEPT ![p] = r]
    BY GotoStep DEF Inv, Revive
  <2>2. r \in HandlerState /\ r.pc = "compare" /\ r.event = req[p].event
        /\ r.epoch = req[p].epoch
    BY <1>1 DEF HandlerState
  <2> QED
    BY <2>1, <2>2
<1>3. record' \in RecordRow /\ record'.exists = record.exists /\ ~record'.deleted
  BY DEF Revive, Inv, TypeOK, RecordRow
<1>4. Forward
  BY <1>3 DEF Revive, Forward
<1>5. FindsHold(r)'
  BY <1>1, <1>2, <1>3 DEF FindsHold, Revive
<1>6. HandlersAgree'
  BY <1>1, <1>2, <1>4, <1>5, HandlersStep DEF Inv
<1>7. TypeOK'
  BY <1>3, <1>6 DEF Inv, TypeOK, Revive, HandlersAgree, HandlerState, RecordRow
<1>8. HistoryAgrees'
  BY <1>3 DEF Inv, HistoryAgrees, Revive
<1>9. EventsAgree'
  BY <1>3 DEF Inv, EventsAgree, Revive, Visible
<1> QED
  BY <1>6, <1>7, <1>8, <1>9 DEF Inv

\* The row of a handler that has ended says what it found, when the row is still there.
LEMMA FinishInv ==
  ASSUME Inv, NEW p \in Procs, Finish(p)
  PROVE  Inv'
<1>1. req[p] \in HandlerState /\ FindsHold(req[p])
  BY DEF Inv, HandlersAgree
<1>2. Idle \in HandlerState /\ FindsHold(Idle)
  BY IdleFinds DEF Inv, FindsHold
<1>3. Forward
  BY DEF Finish, Forward
<1>4. HandlersAgree'
  BY <1>2, <1>3, FindsKept, HandlersStep DEF Inv, Finish
<1>5. event' = event \/ (RowStands(p) /\ event' = [event EXCEPT ![req[p].event] = req[p].result])
  BY DEF Finish
<1>6. req[p].event \in DOMAIN stages
      /\ (req[p].result \in ReportedStatus =>
            req[p].event \in applied /\ (RowStands(p) => Visible))
  BY <1>1 DEF FindsHold, Finish, RowStands
<1>7. event' \in [Snapshots -> EventStatus]
  BY <1>1, <1>5 DEF Inv, TypeOK, HandlerState
<1>8. TypeOK'
  BY <1>4, <1>7 DEF Inv, TypeOK, Finish, HandlersAgree, HandlerState
<1>9. HistoryAgrees'
  BY DEF Inv, HistoryAgrees, Finish
<1>10. EventsAgree'
  BY <1>5, <1>6 DEF Inv, EventsAgree, Finish, Visible, TypeOK
<1> QED
  BY <1>4, <1>8, <1>9, <1>10 DEF Inv

\* What the import leaves behind when it commits: the record is there, and visible when
\* the handler's row is; the snapshot has taken effect; the row is still to be written.
Imports(p) ==
  /\ record' \in RecordRow /\ record'.exists
  /\ record.exists => record'.deleted = record.deleted
  /\ req[p].epoch = epoch => ~record'.deleted
  /\ opened' = 1
  /\ Applies(req[p].event)
  /\ Ends(p, "imported")
  /\ UNCHANGED <<stages, event, blacklisted, epoch>>

\* A commit of the import keeps the invariant.
LEMMA ImportsInv ==
  ASSUME Inv, NEW p \in Procs, req[p].pc # "idle", Imports(p)
  PROVE  Inv'
<1>1. req[p] \in HandlerState /\ FindsHold(req[p])
  BY DEF Inv, HandlersAgree
<1>2. req[p].event \in DOMAIN stages /\ req[p].event \in Snapshots
  BY <1>1, Made DEF FindsHold, Inv
<1>3. PICK r \in HandlerState :
        /\ req' = [req EXCEPT ![p] = r]
        /\ r.pc = "finish" /\ r.result = "imported"
        /\ r.event = req[p].event /\ r.epoch = req[p].epoch
  <2> DEFINE r == [req[p] EXCEPT !.pc = "finish", !.result = "imported"]
  <2>1. req' = [req EXCEPT ![p] = r] /\ r \in HandlerState
    BY EndsStep DEF Inv, Imports, EventStatus
  <2>2. /\ r.pc = "finish" /\ r.result = "imported"
        /\ r.event = req[p].event /\ r.epoch = req[p].epoch
    BY <1>1 DEF HandlerState
  <2> QED
    BY <2>1, <2>2
<1>4. applied' = applied \cup {req[p].event} /\ mirror' = req[p].event
  BY DEF Imports, Applies
<1>5. Forward
  BY <1>4 DEF Imports, Forward
<1>6. FindsHold(r)'
  BY <1>1, <1>2, <1>3, <1>4 DEF FindsHold, Imports, Visible
<1>7. HandlersAgree'
  BY <1>3, <1>5, <1>6, HandlersStep DEF Inv
<1>8. TypeOK'
  BY <1>2, <1>4, <1>7
  DEF Inv, TypeOK, Imports, HandlersAgree, HandlerState, RecordRow, Snapshots
<1>9. HistoryAgrees'
  BY <1>2, <1>4 DEF Inv, HistoryAgrees, Imports
<1>10. EventsAgree'
  BY <1>4 DEF Inv, EventsAgree, Imports, Visible
<1> QED
  BY <1>7, <1>8, <1>9, <1>10 DEF Inv

\* The merge into a record that was found.
LEMMA MergeImports ==
  ASSUME Inv, NEW p \in Procs, Merge(p)
  PROVE  Imports(p)
<1>1. req[p] \in HandlerState /\ FindsHold(req[p])
  BY DEF Inv, HandlersAgree
<1>2. record.exists /\ (req[p].epoch = epoch => ~record.deleted) /\ record \in RecordRow
  BY <1>1 DEF FindsHold, Merge, Inv, TypeOK, RecordRow
<1> DEFINE stage == stages[req[p].event]
<1>3. stage \in Stages
  BY <1>1, Made DEF FindsHold, Merge, Inv
<1>4. CASE Moves(req[p].from, stage, record.verified)
  <2>1. stage \in LegacyStage
    BY <1>3, <1>4, StagesAssumption DEF Moves
  <2>2. Target(stage, record.verified) \in RecordStatus
    BY <1>2, <2>1, TargetTyped DEF RecordRow
  <2>3. record' = [record EXCEPT !.status = Target(stage, record.verified)]
    BY <1>4 DEF Merge
  <2>4. record' \in RecordRow /\ record'.exists /\ record'.deleted = record.deleted
    BY <1>2, <2>2, <2>3 DEF RecordRow
  <2> QED
    BY <1>2, <2>4 DEF Imports, Merge, Inv, HistoryAgrees
<1>5. CASE ~Moves(req[p].from, stage, record.verified)
  BY <1>2, <1>5 DEF Imports, Merge, Inv, HistoryAgrees
<1> QED
  BY <1>4, <1>5

\* The entry of a record that is not there yet.
LEMMA CreateImports ==
  ASSUME Inv, NEW p \in Procs, Create(p), ~RecordTaken
  PROVE  Imports(p)
<1>1. req[p] \in HandlerState /\ FindsHold(req[p])
  BY DEF Inv, HandlersAgree
<1> DEFINE stage == stages[req[p].event]
           status == IF Moves(ToldStatus(stage), stage, FALSE)
                     THEN Target(stage, FALSE) ELSE EntryStatus(stage)
<1>2. stage \in LegacyStage \cup {Unstated}
  BY <1>1, Made, StagesAssumption DEF FindsHold, Create, Inv
<1>3. status \in RecordStatus
  BY <1>2, EntryHeld, TargetTyped DEF Moves
<1>4. record' = [exists |-> TRUE, deleted |-> FALSE, verified |-> FALSE, status |-> status]
  BY DEF Create
<1> HIDE DEF status
<1>5. record' \in RecordRow /\ record'.exists /\ ~record'.deleted
  BY <1>3, <1>4 DEF RecordRow
<1>6. ~record.exists /\ opened = 0
  BY DEF RecordTaken, Inv, HistoryAgrees
<1> QED
  BY <1>5, <1>6 DEF Imports, Create

\* The website makes a snapshot.
LEMMA ChangesInv ==
  ASSUME Inv, Changes
  PROVE  Inv'
<1>1. PICK stage \in Stages : stages' = Append(stages, stage)
  BY DEF Changes
<1>2. stages \in Seq(Stages) /\ Len(stages) < MaxSnapshots
  BY DEF Inv, TypeOK, Changes
<1>3. /\ stages' \in Seq(Stages)
      /\ Len(stages') <= MaxSnapshots
      /\ DOMAIN stages \subseteq DOMAIN stages'
  BY <1>1, <1>2, BoundsAssumption
<1>4. HandlersAgree'
  BY <1>3, HandlersStay DEF Inv, Changes, Forward
<1>5. TypeOK'
  BY <1>3 DEF Inv, TypeOK, Changes
<1>6. HistoryAgrees'
  BY <1>3 DEF Inv, HistoryAgrees, Changes
<1>7. EventsAgree'
  BY <1>3 DEF Inv, EventsAgree, Changes, Visible
<1> QED
  BY <1>4, <1>5, <1>6, <1>7 DEF Inv

\* The reset hides a record and leaves every handler without a row.
LEMMA ResetInv ==
  ASSUME Inv, Reset
  PROVE  Inv'
<1>1. epoch \in Nat /\ epoch' = epoch + 1 /\ epoch' \in 0 .. MaxResets
  BY BoundsAssumption DEF Inv, TypeOK, Reset
<1>2. record' \in RecordRow /\ record'.exists = record.exists
  BY DEF Inv, TypeOK, Reset, RecordRow
<1>3. event' \in [Snapshots -> EventStatus] /\ \A n \in Snapshots : event'[n] = "none"
  BY DEF Reset, EventStatus
<1>4. ASSUME NEW p \in Procs PROVE FindsHold(req[p])'
  <2>1. req'[p] = req[p] /\ req[p] \in HandlerState /\ FindsHold(req[p])
    BY DEF Inv, HandlersAgree, Reset
  <2>2. req[p].epoch <= epoch /\ req[p].epoch \in Nat
    BY <2>1, BoundsAssumption DEF FindsHold, HandlerState
  <2> QED
    BY <1>1, <1>2, <2>1, <2>2 DEF FindsHold, Reset
<1>5. HandlersAgree'
  BY <1>4 DEF Inv, HandlersAgree, Reset
<1>6. TypeOK'
  BY <1>1, <1>2, <1>3, BoundsAssumption DEF Inv, TypeOK, Reset, RecordRow
<1>7. HistoryAgrees'
  BY <1>2 DEF Inv, HistoryAgrees, Reset
<1>8. EventsAgree'
  BY <1>3 DEF EventsAgree, ReportedStatus
<1> QED
  BY <1>5, <1>6, <1>7, <1>8 DEF Inv

\* What staff do to a record they can see keeps it there, and visible.
StaffWrites ==
  /\ record' \in RecordRow
  /\ record'.exists = record.exists /\ record'.deleted = record.deleted
  /\ blacklisted' \in BOOLEAN
  /\ UNCHANGED <<stages, event, mirror, epoch, req, applied, opened>>

\* Such a step keeps the invariant.
LEMMA StaffWritesInv ==
  ASSUME Inv, StaffWrites
  PROVE  Inv'
<1>1. HandlersAgree'
  BY HandlersStay DEF Inv, StaffWrites, Forward
<1>2. TypeOK'
  BY DEF Inv, TypeOK, StaffWrites, RecordRow
<1>3. HistoryAgrees'
  BY DEF Inv, HistoryAgrees, StaffWrites
<1>4. EventsAgree'
  BY DEF Inv, EventsAgree, StaffWrites, Visible
<1> QED
  BY <1>1, <1>2, <1>3, <1>4 DEF Inv

\* The declared transition, the sign-off, the correction and the blacklisting.
LEMMA StaffStep ==
  ASSUME Inv, StaffMove \/ SignOff \/ Correction \/ SetBlacklisted
  PROVE  StaffWrites
<1>1. record \in RecordRow /\ blacklisted \in BOOLEAN
  BY DEF Inv, TypeOK, RecordRow
<1>2. CASE StaffMove
  <2>1. PICK move \in StaffTransitions : record' = [record EXCEPT !.status = move.to]
    BY <1>2 DEF StaffMove
  <2>2. move.to \in RecordStatus
    BY StaffTransitionTyped
  <2> QED
    BY <1>1, <1>2, <2>1, <2>2 DEF StaffMove, StaffWrites, RecordRow
<1>3. CASE SignOff
  <2>1. "dispatch_pending" \in RecordStatus
    BY DEF RecordStatus
  <2> QED
    BY <1>1, <1>3, <2>1 DEF SignOff, StaffWrites, RecordRow
<1>4. CASE Correction
  BY <1>1, <1>4 DEF Correction, StaffWrites, RecordRow
<1>5. CASE SetBlacklisted
  BY <1>1, <1>5 DEF SetBlacklisted, StaffWrites
<1> QED
  BY <1>2, <1>3, <1>4, <1>5

\* Every step is one of these.
LEMMA Steps ==
  ASSUME Inv, Next
  PROVE  \/ Changes
         \/ Reset
         \/ StaffWrites
         \/ \E p \in Procs, n \in Snapshots : Receive(p, n)
         \/ \E p \in Procs : Mark(p) \/ Revive(p) \/ Finish(p) \/ OnlyMoves(p)
         \/ \E p \in Procs : req[p].pc # "idle" /\ Imports(p)
<1>1. ASSUME NEW p \in Procs, Merge(p) PROVE req[p].pc # "idle" /\ Imports(p)
  BY <1>1, MergeImports DEF Merge
<1>2. ASSUME NEW p \in Procs, Create(p), ~RecordTaken PROVE req[p].pc # "idle" /\ Imports(p)
  BY <1>2, CreateImports DEF Create
<1>3. ASSUME NEW p \in Procs, Create(p), RecordTaken PROVE OnlyMoves(p)
  BY <1>3, EndsMoves DEF Create, EventStatus, ReportedStatus
<1>4. ASSUME NEW p \in Procs, NEW n \in Snapshots, Replay(p, n) PROVE OnlyMoves(p)
  BY <1>4, ReplayMoves
<1>5. ASSUME NEW p \in Procs, LookUp(p) PROVE OnlyMoves(p)
  BY <1>5, LookUpMoves
<1>6. ASSUME NEW p \in Procs, Screen(p) \/ Compare(p) \/ Refused(p) \/ Lost(p)
      PROVE  OnlyMoves(p)
  BY <1>6, ReadsMove
<1> QED
  BY <1>1, <1>2, <1>3, <1>4, <1>5, <1>6, StaffStep DEF Next, Handler

\* No step leaves the invariant.
LEMMA NextInv ==
  ASSUME Inv, [Next]_vars
  PROVE  Inv'
<1>1. CASE Next
  BY <1>1, Steps, ChangesInv, ResetInv, StaffWritesInv, ReceiveInv, MarkInv, ReviveInv,
     FinishInv, OnlyMovesInv, ImportsInv
<1>2. CASE UNCHANGED vars
  BY <1>2 DEF vars, Inv, TypeOK, HistoryAgrees, EventsAgree, HandlersAgree, FindsHold, Visible
<1> QED
  BY <1>1, <1>2

\* The inductive invariant holds throughout.
THEOREM Invariant == Spec => []Inv
BY InitInv, NextInv, PTL DEF Spec

-----------------------------------------------------------------------------
(* The properties.                                                         *)

\* The types of the inbox's state, whatever the number of handlers, snapshots and resets.
THEOREM TypeCorrect == Spec => []TypeOK
BY Invariant, PTL DEF Inv

\* However imports, replays, crashes and resets interleave, an event row says imported
\* only while the record is there to be seen.
THEOREM ReportedInForce == Spec => []ReportedIsVisible
<1>1. Inv => ReportedIsVisible
  BY DEF Inv, EventsAgree, ReportedIsVisible, Visible
<1> QED
  BY <1>1, Invariant, PTL

\* Neither a merge nor an entry takes a record past a sign-off it does not have.
LEMMA ImportHeld ==
  ASSUME Inv, NEW p \in Procs, Merge(p) \/ Create(p),
         record'.status \in PastSignOff, record.status \notin PastSignOff
  PROVE  record.verified
<1>1. req[p] \in HandlerState /\ FindsHold(req[p]) /\ record \in RecordRow
  BY DEF Inv, HandlersAgree, TypeOK, RecordRow
<1> DEFINE stage == stages[req[p].event]
<1>2. stage \in LegacyStage \cup {Unstated}
  BY <1>1, Made, StagesAssumption DEF FindsHold, Merge, Create, Inv
<1>3. CASE Merge(p)
  <2>1. Moves(req[p].from, stage, record.verified)
        /\ record' = [record EXCEPT !.status = Target(stage, record.verified)]
    BY <1>3 DEF Merge
  <2>2. record'.status = Target(stage, record.verified) /\ stage \in LegacyStage
    BY <1>1, <1>2, <2>1 DEF RecordRow, Moves
  <2> QED
    BY <1>1, <2>2, TargetHeld DEF RecordRow
<1>4. CASE Create(p)
  <2> DEFINE status == IF Moves(ToldStatus(stage), stage, FALSE)
                       THEN Target(stage, FALSE) ELSE EntryStatus(stage)
  <2>1. record' = [exists |-> TRUE, deleted |-> FALSE, verified |-> FALSE, status |-> status]
    BY <1>4 DEF Create
  <2>2. record'.status = status
    BY <2>1
  <2>3. status \notin PastSignOff
    BY <1>2, EntryHeld, TargetHeld DEF Moves
  <2> QED
    BY <2>2, <2>3
<1> QED
  BY <1>3, <1>4

\* The import alone never takes a record past the sign-off of its certificate.
THEOREM SignOffStays == Spec => SignOffStaysHere
<1>1. Inv => (ImportStep /\ record'.status \in PastSignOff /\ record.status \notin PastSignOff
                => record.verified)
  BY ImportHeld DEF ImportStep
<1> QED
  BY <1>1, Invariant, PTL DEF SignOffStaysHere

-----------------------------------------------------------------------------
(* The refinement of SnapshotMirror.                                       *)

\* The snapshots whose rows report them, as SnapshotMirror sees them.
Reported == {n \in Snapshots : event[n] \in ReportedStatus}

\* An import that commits is an effect of its snapshot.
LEMMA ImportsRefines ==
  ASSUME Inv, NEW p \in Procs, req[p].pc # "idle", Imports(p)
  PROVE  Abstract!Next
<1>1. req[p].event \in DOMAIN stages
  BY DEF Inv, HandlersAgree, FindsHold
<1>2. req[p].event \in 1 .. Len(stages)
  BY <1>1, Made DEF Inv
<1>3. Abstract!TakeEffect(req[p].event)
  BY DEF Abstract!TakeEffect, Imports, Applies
<1> QED
  BY <1>2, <1>3 DEF Abstract!Next

\* The end of a handler reports a snapshot that took effect, or takes a report back.
LEMMA FinishRefines ==
  ASSUME Inv, NEW p \in Procs, Finish(p)
  PROVE  Abstract!Next
<1>1. req[p] \in HandlerState /\ FindsHold(req[p]) /\ event \in [Snapshots -> EventStatus]
  BY DEF Inv, HandlersAgree, TypeOK
<1>2. PICK n \in Snapshots : n = req[p].event
  BY <1>1, Made DEF Finish, FindsHold, Inv
<1>3. CASE RowStands(p) /\ req[p].result \in ReportedStatus
  <2>1. n \in applied
    BY <1>1, <1>2, <1>3 DEF Finish, FindsHold
  <2>2. event' = [event EXCEPT ![n] = req[p].result]
    BY <1>2, <1>3 DEF Finish
  <2>3. Reported' = Reported \cup {n}
    BY <1>1, <1>2, <1>3, <2>2 DEF Reported
  <2>4. Abstract!Report(n)
    BY <2>3 DEF Finish, Abstract!Report, Reported
  <2> QED
    BY <2>1, <2>4 DEF Abstract!Next
<1>4. CASE ~(RowStands(p) /\ req[p].result \in ReportedStatus)
  <2>1. \A m \in Snapshots : event'[m] \in ReportedStatus => event[m] \in ReportedStatus
    BY <1>1, <1>2, <1>4 DEF Finish
  <2>2. Reported' \subseteq Reported
    BY <2>1 DEF Reported
  <2>3. Abstract!Retract
    BY <2>2 DEF Finish, Abstract!Retract, Reported
  <2> QED
    BY <2>3 DEF Abstract!Next
<1> QED
  BY <1>3, <1>4

\* A step that neither makes snapshots nor applies any, and reports none, takes back
\* reports at most.
LEMMA RetractRefines ==
  ASSUME UNCHANGED <<stages, opened, applied>>,
         \A n \in Snapshots : event'[n] \in ReportedStatus => event[n] \in ReportedStatus
  PROVE  Abstract!Next
<1>1. Reported' \subseteq Reported
  BY DEF Reported
<1>2. Abstract!Retract
  BY <1>1 DEF Abstract!Retract, Reported
<1> QED
  BY <1>2 DEF Abstract!Next

\* Every step of the inbox is one of SnapshotMirror's.
LEMMA NextRefines ==
  ASSUME Inv, Next
  PROVE  Abstract!Next
<1>1. event \in [Snapshots -> EventStatus]
  BY DEF Inv, TypeOK
<1>2. CASE Changes
  <2>1. stages \in Seq(Stages)
    BY DEF Inv, TypeOK
  <2>2. Len(stages') = Len(stages) + 1
    BY <1>2, <2>1 DEF Changes
  <2>3. Reported' = Reported
    BY <1>2 DEF Changes, Reported
  <2>4. Abstract!Send
    BY <1>2, <2>2, <2>3 DEF Changes, Abstract!Send, Reported
  <2> QED
    BY <2>4 DEF Abstract!Next
<1>3. CASE Reset
  BY <1>3, RetractRefines DEF Reset, ReportedStatus
<1>4. CASE StaffWrites
  BY <1>4, RetractRefines DEF StaffWrites
<1>5. ASSUME NEW p \in Procs, NEW n \in Snapshots, Receive(p, n) PROVE Abstract!Next
  BY <1>1, <1>5, RetractRefines DEF Receive, ReportedStatus
<1>6. ASSUME NEW p \in Procs, Mark(p) PROVE Abstract!Next
  BY <1>1, <1>6, RetractRefines DEF Mark, ReportedStatus
<1>7. ASSUME NEW p \in Procs, Revive(p) \/ OnlyMoves(p) PROVE Abstract!Next
  BY <1>7, RetractRefines DEF Revive, OnlyMoves
<1> QED
  BY <1>2, <1>3, <1>4, <1>5, <1>6, <1>7, Steps, FinishRefines, ImportsRefines

\* The inbox keeps what SnapshotMirror promises, however deliveries, replays, crashes and
\* resets interleave.
THEOREM PromiseKept == Spec => KeepsPromise
<1>1. Init => Abstract!Init
  BY DEF Init, Abstract!Init, NoRecord, ReportedStatus
<1>2. Inv /\ [Next]_vars => [Abstract!Next]_Abstract!vars
  <2>1. ASSUME UNCHANGED vars PROVE UNCHANGED Abstract!vars
    BY <2>1 DEF vars, Abstract!vars
  <2> QED
    BY <2>1, NextRefines
<1> QED
  BY <1>1, <1>2, Invariant, PTL DEF Spec, KeepsPromise, Abstract!Spec

-----------------------------------------------------------------------------
(* Forward only: what holds when the website waits for its answers, and    *)
(* neither staff, an operator nor a reset comes between.                   *)

InOrder == Environment \subseteq {"crash", "refusal"}

\* Without a reset every row a handler was started for is still there.
NoResets == epoch = 0 /\ \A p \in Procs : req[p].epoch = 0

\* A snapshot is received only once those before it are settled, and a handler at work
\* has its own still to settle; so at most one handler is at work.
OneAtATime ==
  /\ \A n \in Snapshots : event[n] # "none" => \A m \in 1 .. n - 1 : event[m] \in SettledStatus
  /\ \A p \in Procs : req[p].pc # "idle" => event[req[p].event] \notin SettledStatus \cup {"none"}
  /\ \A p, q \in Procs : req[p].pc # "idle" /\ req[q].pc # "idle" => p = q

\* The status a handler read at the look-up is the record's.
ReadIsCurrent ==
  \A p \in Procs : req[p].pc \in {"revive", "compare", "merge"} => req[p].from = record.status

OrderInv == NoResets /\ OneAtATime /\ ReadIsCurrent

\* The steps there are when deliveries are in order.
InOrderStep ==
  \/ Changes
  \/ \E p \in Procs, n \in Snapshots :
       Receive(p, n) /\ \A m \in 1 .. n - 1 : event[m] \in SettledStatus
  \/ \E p \in Procs : Handler(p) \/ Refused(p) \/ Lost(p)

\* In order, there is no reset, no replay and no staff.
LEMMA InOrderSteps ==
  ASSUME InOrder, Next
  PROVE  InOrderStep
BY DEF InOrder, Next, InOrderStep, Receive, Reset, Replay, StaffMove, SignOff, Correction,
       SetBlacklisted, Staff

\* A handler in the middle of its work takes a step, by its own row and its own snapshot.
MovesInOrder(p) ==
  /\ req[p].pc # "idle"
  /\ epoch' = epoch
  /\ \E r \in HandlerState :
       /\ req' = [req EXCEPT ![p] = r]
       /\ r.epoch = 0
       /\ r.pc # "idle" => r.event = req[p].event
       /\ \/ event' = event
          \/ \E e \in EventStatus \ {"none"} :
               /\ event' = [event EXCEPT ![req[p].event] = e]
               /\ r.pc # "idle" => e \notin SettledStatus
       /\ r.pc \in {"revive", "compare", "merge"} => r.from = record'.status

\* Nobody else is at work, and what holds in order goes on to hold.
LEMMA MovesInOrderInv ==
  ASSUME Inv, OrderInv, NEW p \in Procs, MovesInOrder(p)
  PROVE  OrderInv'
<1>1. PICK r \in HandlerState :
        /\ req' = [req EXCEPT ![p] = r]
        /\ r.epoch = 0
        /\ r.pc # "idle" => r.event = req[p].event
        /\ \/ event' = event
           \/ \E e \in EventStatus \ {"none"} :
                /\ event' = [event EXCEPT ![req[p].event] = e]
                /\ r.pc # "idle" => e \notin SettledStatus
        /\ r.pc \in {"revive", "compare", "merge"} => r.from = record'.status
  BY DEF MovesInOrder
<1>2. req[p].event \in Snapshots /\ req[p].pc # "idle" /\ epoch' = epoch
  BY Made DEF Inv, HandlersAgree, FindsHold, MovesInOrder
<1>3. event \in [Snapshots -> EventStatus] /\ req \in [Procs -> HandlerState]
  BY DEF Inv, TypeOK, HandlersAgree
<1>4. \A q \in Procs : q # p => req'[q] = req[q] /\ req[q].pc = "idle"
  BY <1>1, <1>2, <1>3 DEF OrderInv, OneAtATime
<1>5. req'[p] = r
  BY <1>1, <1>3
<1>6. ASSUME NEW n \in Snapshots, event'[n] # "none", NEW m \in 1 .. n - 1
      PROVE  event'[m] \in SettledStatus
  <2>1. event[n] # "none"
    BY <1>1, <1>2, <1>3, <1>6 DEF OrderInv, OneAtATime
  <2>2. event[m] \in SettledStatus /\ m \in Snapshots
    BY <2>1, BoundsAssumption DEF OrderInv, OneAtATime, Snapshots
  <2>3. m # req[p].event
    BY <1>2, <2>2 DEF OrderInv, OneAtATime
  <2> QED
    BY <1>1, <1>3, <2>2, <2>3
<1>7. ASSUME NEW q \in Procs, req'[q].pc # "idle"
      PROVE  event'[req'[q].event] \notin SettledStatus \cup {"none"} /\ q = p
  BY <1>1, <1>2, <1>3, <1>4, <1>5, <1>7 DEF OrderInv, OneAtATime
<1>8. OneAtATime'
  BY <1>6, <1>7 DEF OneAtATime
<1>9. NoResets'
  BY <1>1, <1>2, <1>4, <1>5 DEF OrderInv, NoResets
<1>10. ReadIsCurrent'
  BY <1>1, <1>4, <1>5 DEF ReadIsCurrent
<1> QED
  BY <1>8, <1>9, <1>10 DEF OrderInv

\* A step that moves the handler on to pc, or to its result, is such a step.
LEMMA GoesInOrder ==
  ASSUME Inv, OrderInv, NEW p \in Procs, req[p].pc # "idle",
         NEW pc \in {"look_up", "screen", "revive", "compare", "merge", "create", "finish"},
         NEW from \in RecordStatus, NEW result \in EventStatus,
         req' = [req EXCEPT ![p] = [req[p] EXCEPT !.pc = pc, !.from = from, !.result = result]],
         pc \in {"revive", "compare", "merge"} => from = record'.status,
         epoch' = epoch,
         event' = event \/ event' = [event EXCEPT ![req[p].event] = "processing"]
  PROVE  MovesInOrder(p)
<1>1. req[p] \in HandlerState /\ req[p].epoch = 0
  BY DEF Inv, HandlersAgree, OrderInv, NoResets
<1>2. PICK r \in HandlerState :
        /\ r = [req[p] EXCEPT !.pc = pc, !.from = from, !.result = result]
        /\ r.pc = pc /\ r.event = req[p].event /\ r.epoch = 0 /\ r.from = from
  <2> DEFINE r == [req[p] EXCEPT !.pc = pc, !.from = from, !.result = result]
  <2>1. r \in HandlerState
    BY <1>1 DEF HandlerState
  <2>2. r.pc = pc /\ r.event = req[p].event /\ r.epoch = 0 /\ r.from = from
    BY <1>1 DEF HandlerState
  <2> HIDE DEF r
  <2> QED
    BY <2>1, <2>2 DEF r
<1>3. "processing" \in EventStatus \ {"none"} /\ "processing" \notin SettledStatus
  BY DEF EventStatus, SettledStatus
<1> QED
  BY <1>2, <1>3 DEF MovesInOrder

\* Every step of a handler at work, and its end.
LEMMA HandlerInOrder ==
  ASSUME Inv, OrderInv, NEW p \in Procs, Handler(p) \/ Refused(p) \/ Lost(p)
  PROVE  MovesInOrder(p)
<1>1. req[p] \in HandlerState /\ FindsHold(req[p]) /\ RowStands(p)
  BY DEF Inv, HandlersAgree, OrderInv, NoResets, RowStands
<1>2. req \in [Procs -> HandlerState] /\ record \in RecordRow
  BY DEF Inv, HandlersAgree, TypeOK, RecordRow
<1> DEFINE Goes(pc, from, result) ==
      req' = [req EXCEPT ![p] = [req[p] EXCEPT !.pc = pc, !.from = from, !.result = result]]
<1>3. ASSUME NEW pc, Goto(p, pc) PROVE Goes(pc, req[p].from, req[p].result)
  <2>1. [req[p] EXCEPT !.pc = pc]
          = [req[p] EXCEPT !.pc = pc, !.from = req[p].from, !.result = req[p].result]
    BY <1>1 DEF HandlerState
  <2>2. req' = [req EXCEPT ![p] = [req[p] EXCEPT !.pc = pc]]
    BY <1>2, <1>3 DEF Goto
  <2> QED
    BY <2>1, <2>2
<1>4. ASSUME NEW result, Ends(p, result) PROVE Goes("finish", req[p].from, result)
  <2>1. [req[p] EXCEPT !.pc = "finish", !.result = result]
          = [req[p] EXCEPT !.pc = "finish", !.from = req[p].from, !.result = result]
    BY <1>1 DEF HandlerState
  <2>2. req' = [req EXCEPT ![p] = [req[p] EXCEPT !.pc = "finish", !.result = result]]
    BY <1>2, <1>4 DEF Ends
  <2> QED
    BY <2>1, <2>2
<1>5. req[p].from \in RecordStatus /\ req[p].result \in EventStatus /\ record.status \in RecordStatus
  BY <1>1, <1>2 DEF HandlerState, RecordRow
<1>6. req[p].pc \in {"revive", "compare", "merge"} => req[p].from = record.status
  BY DEF OrderInv, ReadIsCurrent
<1>7. {"imported", "duplicate_skipped", "blocked_blacklist", "failed"} \subseteq EventStatus
  BY DEF EventStatus
<1>8. CASE Mark(p)
  BY <1>1, <1>3, <1>5, <1>8, GoesInOrder DEF Mark
<1>9. CASE LookUp(p)
  <2> DEFINE pc == IF record.exists THEN AfterLookUp ELSE "screen"
  <2>1. pc \in {"screen", "revive", "compare"}
    BY DEF AfterLookUp
  <2>2. [req[p] EXCEPT !.pc = pc, !.from = record.status]
          = [req[p] EXCEPT !.pc = pc, !.from = record.status, !.result = req[p].result]
    BY <1>1 DEF HandlerState
  <2>3. req' = [req EXCEPT ![p] = [req[p] EXCEPT !.pc = pc, !.from = record.status]]
    BY <1>2, <1>9 DEF LookUp
  <2>4. Goes(pc, record.status, req[p].result)
    BY <2>2, <2>3
  <2>5. req[p].pc # "idle" /\ UNCHANGED <<record, epoch, event>>
    BY <1>9 DEF LookUp
  <2> HIDE DEF pc
  <2> QED
    BY <1>5, <2>1, <2>4, <2>5, GoesInOrder
<1>10. CASE Screen(p)
  <2>1. CASE blacklisted
    <3>1. Ends(p, "blocked_blacklist") /\ req[p].pc # "idle" /\ UNCHANGED <<event, epoch>>
      BY <1>10, <2>1 DEF Screen
    <3>2. Goes("finish", req[p].from, "blocked_blacklist")
      BY <1>4, <3>1
    <3> QED
      BY <1>5, <1>7, <3>1, <3>2, GoesInOrder
  <2>2. CASE ~blacklisted
    <3>1. Goto(p, "create") /\ req[p].pc # "idle" /\ UNCHANGED <<event, epoch>>
      BY <1>10, <2>2 DEF Screen
    <3>2. Goes("create", req[p].from, req[p].result)
      BY <1>3, <3>1
    <3> QED
      BY <1>5, <3>1, <3>2, GoesInOrder
  <2> QED
    BY <2>1, <2>2
<1>11. CASE Revive(p)
  <2>1. record'.status = record.status
    BY <1>2, <1>11 DEF Revive, RecordRow
  <2> QED
    BY <1>3, <1>5, <1>6, <1>11, <2>1, GoesInOrder DEF Revive
<1>12. CASE Compare(p)
  <2>1. CASE AlreadyApplied(req[p].event)
    <3>1. Ends(p, "duplicate_skipped") /\ req[p].pc # "idle" /\ UNCHANGED <<event, epoch>>
      BY <1>12, <2>1 DEF Compare
    <3>2. Goes("finish", req[p].from, "duplicate_skipped")
      BY <1>4, <3>1
    <3> QED
      BY <1>5, <1>7, <3>1, <3>2, GoesInOrder
  <2>2. CASE ~AlreadyApplied(req[p].event)
    <3>1. Goto(p, "merge") /\ req[p].pc = "compare" /\ UNCHANGED <<record, event, epoch>>
      BY <1>12, <2>2 DEF Compare
    <3>2. Goes("merge", req[p].from, req[p].result)
      BY <1>3, <3>1
    <3> QED
      BY <1>5, <1>6, <3>1, <3>2, GoesInOrder
  <2> QED
    BY <2>1, <2>2
<1>13. CASE Merge(p) \/ Create(p) \/ Refused(p)
  <2>1. PICK result \in EventStatus : Ends(p, result)
    BY <1>7, <1>13 DEF Merge, Create, Refused
  <2> QED
    BY <1>4, <1>5, <1>13, <2>1, GoesInOrder DEF Merge, Create, Refused
<1>14. CASE Finish(p) \/ Lost(p)
  <2>1. Idle \in HandlerState /\ Idle.pc = "idle" /\ Idle.epoch = 0
    BY IdleFinds DEF Inv, FindsHold, Idle
  <2>2. req' = [req EXCEPT ![p] = Idle] /\ req[p].pc # "idle" /\ epoch' = epoch
    BY <1>14 DEF Finish, Lost
  <2>3. \/ event' = event
        \/ \E e \in EventStatus \ {"none"} : event' = [event EXCEPT ![req[p].event] = e]
    BY <1>1, <1>5, <1>14 DEF Finish, Lost, FindsHold
  <2> QED
    BY <2>1, <2>2, <2>3 DEF MovesInOrder
<1> QED
  BY <1>8, <1>9, <1>10, <1>11, <1>12, <1>13, <1>14 DEF Handler

\* A delivery finds nobody at work.
LEMMA ReceiveInOrder ==
  ASSUME Inv, OrderInv, NEW p \in Procs, NEW n \in Snapshots, Receive(p, n),
         \A m \in 1 .. n - 1 : event[m] \in SettledStatus
  PROVE  OrderInv'
<1>1. event \in [Snapshots -> EventStatus] /\ req \in [Procs -> HandlerState]
      /\ Snapshots \subseteq Nat
  BY BoundsAssumption DEF Inv, TypeOK, HandlersAgree, Snapshots
<1>2. event[n] = "none" /\ "none" \notin SettledStatus /\ "received" \notin SettledStatus
  BY DEF Receive, Stored, SettledStatus
<1>3. ASSUME NEW q \in Procs PROVE req[q].pc = "idle"
  <2> SUFFICES ASSUME req[q].pc # "idle" PROVE FALSE
    OBVIOUS
  <2> DEFINE k == req[q].event
  <2>1. k \in Snapshots /\ event[k] \notin SettledStatus \cup {"none"}
    BY Made DEF Inv, HandlersAgree, FindsHold, OrderInv, OneAtATime
  <2>2. k # n /\ ~(k \in 1 .. n - 1)
    BY <1>2, <2>1
  <2>3. n \in 1 .. k - 1
    BY <1>1, <2>1, <2>2 DEF Snapshots
  <2> QED
    BY <1>2, <2>1, <2>3 DEF OrderInv, OneAtATime
<1>4. PICK r : /\ req' = [req EXCEPT ![p] = r]
               /\ r.pc = "mark" /\ r.event = n /\ r.epoch = 0
  <2>1. epoch = 0
    BY DEF OrderInv, NoResets
  <2> DEFINE r == [Idle EXCEPT !.pc = "mark", !.event = n, !.epoch = epoch]
  <2>2. r.pc = "mark" /\ r.event = n /\ r.epoch = 0
    BY <2>1 DEF Idle
  <2>3. req' = [req EXCEPT ![p] = r]
    BY DEF Receive
  <2> HIDE DEF r
  <2> QED
    BY <2>2, <2>3
<1>5. event' = [event EXCEPT ![n] = "received"] /\ UNCHANGED <<epoch, record>>
  BY DEF Receive
<1>6. NoResets'
  BY <1>1, <1>4, <1>5 DEF OrderInv, NoResets
<1>7. OneAtATime'
  <2>1. ASSUME NEW k \in Snapshots, event'[k] # "none", NEW m \in 1 .. k - 1
        PROVE  event'[m] \in SettledStatus
    <3>1. event[m] \in SettledStatus
      BY <1>1, <1>5, <2>1 DEF OrderInv, OneAtATime
    <3>2. m # n
      BY <1>2, <3>1
    <3>3. m \in Snapshots
      BY <2>1, BoundsAssumption DEF Snapshots
    <3> QED
      BY <1>1, <1>5, <3>1, <3>2, <3>3
  <2> QED
    BY <1>1, <1>2, <1>3, <1>4, <1>5, <2>1 DEF OneAtATime
<1>8. ReadIsCurrent'
  BY <1>1, <1>3, <1>4 DEF ReadIsCurrent
<1> QED
  BY <1>6, <1>7, <1>8 DEF OrderInv

\* What holds in order holds from the start.
LEMMA InitInOrder == Init => OrderInv
BY DEF Init, OrderInv, NoResets, OneAtATime, ReadIsCurrent, Idle

\* In order, every step keeps what holds in order.
LEMMA NextInOrder ==
  ASSUME InOrder, Inv, OrderInv, [Next]_vars
  PROVE  OrderInv'
<1>1. CASE Next
  <2>1. CASE Changes
    BY <2>1 DEF Changes, OrderInv, NoResets, OneAtATime, ReadIsCurrent
  <2> QED
    BY <1>1, <2>1, InOrderSteps, ReceiveInOrder, HandlerInOrder, MovesInOrderInv
    DEF InOrderStep
<1>2. CASE UNCHANGED vars
  BY <1>2 DEF vars, OrderInv, NoResets, OneAtATime, ReadIsCurrent
<1> QED
  BY <1>1, <1>2

\* Every status that is no decision has a place on the ladder.
LEMMA UndecidedRanks ==
  ASSUME NEW status \in RecordStatus, Undecided(status)
  PROVE  RankOf(status) \in Int
<1>1. CASE status \in DOMAIN CRM_ONLY_STAGE_RANK
  BY <1>1 DEF RankOf, CRM_ONLY_STAGE_RANK, CERTIFICATE_VERIFICATION_RANK, LEGACY_STAGE_RANK
<1>2. CASE status \notin DOMAIN CRM_ONLY_STAGE_RANK
  <2>1. \E s \in Ladder : LEGACY_STAGE_TO_STATUS[s] = status
    BY <1>2, StagesAre
    DEF CRM_ONLY_STAGE_RANK, Ladder, LEGACY_DECISION_STAGES, LEGACY_STAGE_TO_STATUS,
        Undecided, DecisionStatus, RecordStatus
  <2> QED
    BY <2>1, RankOfLadder, StageTyped DEF Ladder
<1> QED
  BY <1>1, <1>2

\* A merge that was decided by the status the record is still at takes it forward.
LEMMA MergeForward ==
  ASSUME Inv, OrderInv, NEW p \in Procs, Merge(p) \/ Create(p),
         record.exists, Undecided(record.status), Undecided(record'.status)
  PROVE  RankOf(record'.status) >= RankOf(record.status)
<1>1. req[p] \in HandlerState /\ FindsHold(req[p]) /\ record \in RecordRow
  BY DEF Inv, HandlersAgree, TypeOK, RecordRow
<1>2. RankOf(record.status) \in Int
  BY <1>1, UndecidedRanks DEF RecordRow
<1> DEFINE stage == stages[req[p].event]
<1>3. CASE record' = record
  BY <1>2, <1>3
<1>4. CASE record' # record
  <2>1. /\ Merge(p)
        /\ Moves(req[p].from, stage, record.verified)
        /\ record' = [record EXCEPT !.status = Target(stage, record.verified)]
    BY <1>4 DEF Merge, Create, RecordTaken
  <2>2. req[p].from = record.status
    BY <2>1 DEF OrderInv, ReadIsCurrent, Merge
  <2>3. stage \in LegacyStage
    BY <1>1, <2>1, Made, StagesAssumption DEF FindsHold, Merge, Inv, Moves
  <2>4. record'.status = Target(stage, record.verified) /\ record.verified \in BOOLEAN
    BY <1>1, <2>1 DEF RecordRow
  <2>5. stage \notin LEGACY_DECISION_STAGES
    BY <2>3, <2>4 DEF LEGACY_DECISION_STAGES, Target, HeldForSignOff, LEGACY_STAGE_RANK,
                      LEGACY_STAGE_TO_STATUS, Undecided, DecisionStatus
  <2>6. TargetRank(stage, record.verified) > RankOf(record.status)
    BY <2>1, <2>2, <2>5 DEF Moves, DecisionInvolved, Undecided
  <2>7. RankOf(record'.status) = TargetRank(stage, record.verified)
    BY <2>3, <2>4, <2>5, RankOfTarget DEF Ladder
  <2>8. Target(stage, record.verified) \in RecordStatus
    BY <2>3, <2>4, TargetTyped
  <2>9. RankOf(record'.status) \in Int
    BY <2>4, <2>8, UndecidedRanks
  <2> QED
    BY <1>2, <2>6, <2>7, <2>9
<1> QED
  BY <1>3, <1>4

\* Of an application whose snapshots are delivered in order, and which nobody else works
\* on, the import takes the record no step back along the ladder, whatever transactions
\* are refused and whichever handlers die.
THEOREM ForwardInOrder ==
  ASSUME InOrder
  PROVE  Spec => MergesForward
<1>1. Inv /\ OrderInv =>
        (ImportStep /\ record.exists /\ Undecided(record.status) /\ Undecided(record'.status)
           => RankOf(record'.status) >= RankOf(record.status))
  BY MergeForward DEF ImportStep
<1>2. Inv /\ OrderInv /\ [Next]_vars => OrderInv'
  BY NextInOrder
<1> QED
  BY <1>1, <1>2, InitInOrder, Invariant, PTL DEF Spec, MergesForward
=============================================================================
