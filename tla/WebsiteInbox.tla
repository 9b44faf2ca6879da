---------------------------- MODULE WebsiteInbox ----------------------------
(***************************************************************************)
(* The inbox of the website: snapshots of one application, delivered by    *)
(* webhook as often and in whatever order the website manages, stored,     *)
(* answered, and imported by a handler nobody waits for, while staff work  *)
(* on the record, an operator replays, and the website resets the mirror.  *)
(*                                                                         *)
(* The first write of the import's transaction locks the records row,      *)
(* which every other writer of what it reads updates as well: that write,  *)
(* the statements behind it and the COMMIT are one step.  What the payment,*)
(* certificate and dispatch of a snapshot do is left to the modules of     *)
(* those; here they can make the transaction fail.                         *)
(*                                                                         *)
(* Snapshots are numbered as the website makes them, and two of them never *)
(* have the same hash: the website stamps each with its sourceUpdatedAt.   *)
(***************************************************************************)
EXTENDS LegacyStages, FiniteSets

CONSTANTS
  Procs,            \* handlers that can be at work at once
  Stages,           \* stages the application may be at
  StaffTransitions, \* the declared transitions staff may take
  Environment,      \* what else may happen, of the kinds below
  MaxSnapshots,     \* bound on the snapshots the website makes
  MaxResets         \* bound on the resets of the mirror

EnvironmentKinds == {"disorder", "replay", "crash", "refusal", "reset", "staff"}

ASSUME StagesAssumption ==
  /\ Stages \subseteq LegacyStage \cup {Unstated}
  /\ StaffTransitions \subseteq STATUS_TRANSITIONS
  /\ Environment \subseteq EnvironmentKinds
ASSUME BoundsAssumption == MaxSnapshots \in Nat /\ MaxResets \in Nat

VARIABLES
  stages,      \* the stage of each snapshot the website has made
  event,       \* the status of the integration_events row of each, "none" without one
  record,      \* the records row of the application, and whether it is signed off
  mirror,      \* the snapshot of the legacy_mirror row's hash, 0 without a row
  blacklisted, \* the applicant matches one who is blacklisted
  epoch,       \* resets so far: a reset deletes the rows, a later one has another id
  req,         \* what each handler has read and has still to do
  applied,     \* history: the snapshots that have taken effect
  opened       \* history: how many records were opened

vars == <<stages, event, record, mirror, blacklisted, epoch, req, applied, opened>>

-----------------------------------------------------------------------------

Snapshots == 1 .. MaxSnapshots

EventStatus ==
  {"none", "received", "processing", "imported", "duplicate_skipped",
   "blocked_blacklist", "failed"}

\* No handler has still to decide about an event of these statuses.
SettledStatus  == EventStatus \ {"none", "received", "processing"}
ReportedStatus == {"imported", "duplicate_skipped"}

NoRecord == [exists |-> FALSE, deleted |-> FALSE, status |-> "new_lead", verified |-> FALSE]

Idle ==
  [pc |-> "idle", event |-> 0, epoch |-> 0, from |-> "new_lead", result |-> "none"]

Init ==
  /\ stages = <<>>
  /\ event = [n \in Snapshots |-> "none"]
  /\ record = NoRecord
  /\ mirror = 0
  /\ blacklisted \in BOOLEAN
  /\ epoch = 0
  /\ req = [p \in Procs |-> Idle]
  /\ applied = {}
  /\ opened = 0

Goto(p, pc)   == req' = [req EXCEPT ![p].pc = pc]
Ends(p, result) == req' = [req EXCEPT ![p].pc = "finish", ![p].result = result]

\* The handler's event row is still there.
RowStands(p) == req[p].epoch = epoch

-----------------------------------------------------------------------------
(* The website                                                             *)

Changes ==
  /\ Len(stages) < MaxSnapshots
  /\ \E stage \in Stages : stages' = Append(stages, stage)
  /\ UNCHANGED <<event, record, mirror, blacklisted, epoch, req, applied, opened>>

\* The key of an event is the hash of its snapshot, sourceUpdatedAt included, so that a
\* return to an earlier stage is told from a retry.
Stored_ByStage(n) == \E m \in DOMAIN stages : event[m] # "none" /\ stages[m] = stages[n]
Stored(n)         == event[n] # "none"

\* receive: a snapshot not stored yet is stored and its handler started; of one
\* that is, only the status is answered.  Unless deliveries are in disorder, the
\* website sends what it made first and waits until that is settled.
Receive(p, n) ==
  /\ req[p].pc = "idle"
  /\ n \in DOMAIN stages
  /\ ~Stored(n)
  /\ "disorder" \in Environment \/ \A m \in 1 .. n - 1 : event[m] \in SettledStatus
  /\ event' = [event EXCEPT ![n] = "received"]
  /\ req' = [req EXCEPT ![p] = [Idle EXCEPT !.pc = "mark", !.event = n, !.epoch = epoch]]
  /\ UNCHANGED <<stages, record, mirror, blacklisted, epoch, applied, opened>>

\* resetWebsiteData: a record that has a mirror is marked deleted, and the mirror and
\* every stored event are removed.
Reset ==
  /\ "reset" \in Environment
  /\ epoch < MaxResets
  /\ record' = IF mirror # 0 THEN [record EXCEPT !.deleted = TRUE] ELSE record
  /\ mirror' = 0
  /\ event' = [n \in Snapshots |-> "none"]
  /\ epoch' = epoch + 1
  /\ UNCHANGED <<stages, blacklisted, req, applied, opened>>

-----------------------------------------------------------------------------
(* processEvent and importApplication                                      *)

\* An operator may replay any event that is stored.
Replay(p, n) ==
  /\ "replay" \in Environment
  /\ req[p].pc = "idle"
  /\ Stored(n)
  /\ req' = [req EXCEPT ![p] = [Idle EXCEPT !.pc = "mark", !.event = n, !.epoch = epoch]]
  /\ UNCHANGED <<stages, event, record, mirror, blacklisted, epoch, applied, opened>>

Mark(p) ==
  /\ req[p].pc = "mark"
  /\ IF RowStands(p)
     THEN event' = [event EXCEPT ![req[p].event] = "processing"] /\ Goto(p, "look_up")
     ELSE req' = [req EXCEPT ![p] = Idle] /\ UNCHANGED event
  /\ UNCHANGED <<stages, record, mirror, blacklisted, epoch, applied, opened>>

\* What is to be done with a record that was found: one marked deleted is first
\* brought back, whether or not the snapshot turns out to be known.
AfterLookUp_CompareFirst == "compare"
AfterLookUp == IF record.deleted THEN "revive" ELSE "compare"

LookUp(p) ==
  /\ req[p].pc = "look_up"
  /\ req' = [req EXCEPT ![p].pc = IF record.exists THEN AfterLookUp ELSE "screen",
                        ![p].from = record.status]
  /\ UNCHANGED <<stages, event, record, mirror, blacklisted, epoch, applied, opened>>

Screen(p) ==
  /\ req[p].pc = "screen"
  /\ IF blacklisted THEN Ends(p, "blocked_blacklist") ELSE Goto(p, "create")
  /\ UNCHANGED <<stages, event, record, mirror, blacklisted, epoch, applied, opened>>

Revive(p) ==
  /\ req[p].pc = "revive"
  /\ record' = [record EXCEPT !.deleted = FALSE]
  /\ Goto(p, "compare")
  /\ UNCHANGED <<stages, event, mirror, blacklisted, epoch, applied, opened>>

\* The snapshot applied last is not applied again.
AlreadyApplied(n) == mirror = n

Compare(p) ==
  /\ req[p].pc = "compare"
  /\ IF AlreadyApplied(req[p].event) THEN Ends(p, "duplicate_skipped") ELSE Goto(p, "merge")
  /\ UNCHANGED <<stages, event, record, mirror, blacklisted, epoch, applied, opened>>

Applies(n) ==
  /\ mirror' = n
  /\ applied' = applied \cup {n}

\* updateExisting: the status moves, or not, by the one that was read at the look-up;
\* the UPDATE names the id only.
Merge(p) ==
  /\ req[p].pc = "merge"
  /\ LET stage == stages[req[p].event]
     IN record' = IF Moves(req[p].from, stage, record.verified)
                  THEN [record EXCEPT !.status = Target(stage, record.verified)]
                  ELSE record
  /\ Applies(req[p].event)
  /\ Ends(p, "imported")
  /\ UNCHANGED <<stages, event, blacklisted, epoch, opened>>

\* The status a new record is entered at, and the one apply is told it is at.
EntryStatus(stage) ==
  IF stage = Unstated THEN "application_submitted" ELSE LEGACY_STAGE_TO_STATUS[stage]

ToldStatus_Entered(stage) == EntryStatus(stage)
ToldStatus(stage)         == "application_submitted"

\* records_external_uq: no second record of the application.
RecordTaken_Unchecked == FALSE
RecordTaken == record.exists

Create(p) ==
  /\ req[p].pc = "create"
  /\ IF RecordTaken
     THEN Ends(p, "failed") /\ UNCHANGED <<record, mirror, applied, opened>>
     ELSE /\ LET stage == stages[req[p].event]
             IN record' = [exists |-> TRUE, deleted |-> FALSE, verified |-> FALSE,
                           status |-> IF Moves(ToldStatus(stage), stage, FALSE)
                                      THEN Target(stage, FALSE) ELSE EntryStatus(stage)]
          /\ Applies(req[p].event)
          /\ opened' = opened + 1
          /\ Ends(p, "imported")
  /\ UNCHANGED <<stages, event, blacklisted, epoch>>

\* A statement of the import's transaction fails: it rolls back as a whole, and what
\* went wrong is caught and put on the event.
Refused_Escapes(p) ==
  /\ "refusal" \in Environment
  /\ req[p].pc \in {"merge", "create"}
  /\ Goto(p, "idle")
  /\ UNCHANGED <<stages, event, record, mirror, blacklisted, epoch, applied, opened>>

Refused(p) ==
  /\ "refusal" \in Environment
  /\ req[p].pc \in {"merge", "create"}
  /\ Ends(p, "failed")
  /\ UNCHANGED <<stages, event, record, mirror, blacklisted, epoch, applied, opened>>

\* The last statement names the row's id: after a reset there is no such row.
Finish(p) ==
  /\ req[p].pc = "finish"
  /\ event' = IF RowStands(p) THEN [event EXCEPT ![req[p].event] = req[p].result] ELSE event
  /\ req' = [req EXCEPT ![p] = Idle]
  /\ UNCHANGED <<stages, record, mirror, blacklisted, epoch, applied, opened>>

\* The process dies: nothing resumes the handler.
Lost(p) ==
  /\ "crash" \in Environment
  /\ req[p].pc # "idle"
  /\ req' = [req EXCEPT ![p] = Idle]
  /\ UNCHANGED <<stages, event, record, mirror, blacklisted, epoch, applied, opened>>

-----------------------------------------------------------------------------
(* The CRM's own staff, as far as the import can tell                      *)

Staff ==
  /\ "staff" \in Environment
  /\ record.exists /\ ~record.deleted

\* A declared transition.
StaffMove ==
  /\ Staff
  /\ \E move \in StaffTransitions :
       /\ move.from = record.status
       /\ "certificate_verified" \in {move.guards[i] : i \in DOMAIN move.guards} => record.verified
       /\ record' = [record EXCEPT !.status = move.to]
  /\ UNCHANGED <<stages, event, mirror, blacklisted, epoch, req, applied, opened>>

\* The sign-off moves a record out of the stage that waits for it.
SignOff ==
  /\ Staff
  /\ ~record.verified
  /\ record' = [record EXCEPT !.verified = TRUE,
                              !.status = IF record.status \in {"payment_received", "certificate_pending"}
                                         THEN "dispatch_pending" ELSE record.status]
  /\ UNCHANGED <<stages, event, mirror, blacklisted, epoch, req, applied, opened>>

\* A corrected file takes the sign-off away.
Correction ==
  /\ Staff
  /\ record.verified
  /\ record' = [record EXCEPT !.verified = FALSE]
  /\ UNCHANGED <<stages, event, mirror, blacklisted, epoch, req, applied, opened>>

SetBlacklisted ==
  /\ "staff" \in Environment
  /\ blacklisted' = ~blacklisted
  /\ UNCHANGED <<stages, event, record, mirror, epoch, req, applied, opened>>

-----------------------------------------------------------------------------

\* The handler's own steps: they run to the end once begun.
Handler(p) ==
  \/ Mark(p) \/ LookUp(p) \/ Screen(p) \/ Revive(p) \/ Compare(p)
  \/ Merge(p) \/ Create(p) \/ Finish(p)

Next ==
  \/ Changes \/ Reset
  \/ \E p \in Procs, n \in Snapshots : Receive(p, n) \/ Replay(p, n)
  \/ \E p \in Procs : Handler(p) \/ Refused(p) \/ Lost(p)
  \/ StaffMove \/ SignOff \/ Correction \/ SetBlacklisted

Spec == Init /\ [][Next]_vars

\* A handler that has begun runs on, and the website keeps sending what it has made.
Delivery == \E p \in Procs, n \in Snapshots : Receive(p, n)
FairSpec == Spec /\ WF_vars(Delivery) /\ \A p \in Procs : WF_vars(Handler(p))

-----------------------------------------------------------------------------

\* The type of every variable.
TypeOK ==
  /\ stages \in Seq(Stages) /\ Len(stages) <= MaxSnapshots
  /\ event \in [Snapshots -> EventStatus]
  /\ record \in [exists : BOOLEAN, deleted : BOOLEAN, status : RecordStatus, verified : BOOLEAN]
  /\ mirror \in 0 .. MaxSnapshots
  /\ blacklisted \in BOOLEAN
  /\ epoch \in 0 .. MaxResets
  /\ req \in [Procs -> [pc : {"idle", "mark", "look_up", "screen", "revive", "compare",
                              "merge", "create", "finish"},
                        event : 0 .. MaxSnapshots, epoch : 0 .. MaxResets,
                        from : RecordStatus, result : EventStatus]]
  /\ applied \subseteq Snapshots
  /\ opened \in Nat

\* What is reported as imported is in force: however imports, replays, crashes and
\* resets interleave, an event row says so only while the record is there to be seen.
ReportedIsVisible ==
  \A n \in Snapshots : event[n] \in ReportedStatus => record.exists /\ ~record.deleted

\* The statuses a record reaches only once its certificate is signed off.
PastSignOff ==
  {"certificate_uploaded", "dispatch_pending", "dispatched", "delivered",
   "publication", "completed"}

ImportStep == \E p \in Procs : Merge(p) \/ Create(p)

\* The import alone never takes a record past the sign-off of its certificate: neither
\* by a snapshot of a later stage nor by the stage a record is entered at.
SignOffStaysHere ==
  [][ImportStep /\ record'.status \in PastSignOff /\ record.status \notin PastSignOff
       => record.verified]_vars

\* A status that is not a decision.
Undecided(stat) == stat \notin DecisionStatus

\* legacy-lifecycle.service.ts:92 "merge forward, never backward": unless a decision is
\* involved, a snapshot takes a record no step back along the ladder.
MergesForward ==
  [][ImportStep /\ record.exists /\ Undecided(record.status) /\ Undecided(record'.status)
       => RankOf(record'.status) >= RankOf(record.status)]_vars

\* Every stored event is in the end settled, or removed by a reset, if no process dies.
EventsSettle ==
  \A n \in Snapshots :
    event[n] \in {"received", "processing"} ~> event[n] \in SettledStatus \cup {"none"}

\* Nobody but a person can take the last snapshot further.
HeldForPerson == blacklisted \/ event[Len(stages)] = "failed"

\* nbr-website.service.ts:877 "this mirror exists to converge on the website's truth":
\* once the website makes no more snapshots, the last one is the last to have been
\* applied, unless a person has to see to it first.
Converges == <>[](stages = <<>> \/ HeldForPerson \/ mirror = Len(stages))

\* What SnapshotMirror speaks of, as it is here.
Abstract ==
  INSTANCE SnapshotMirror WITH
    sent <- Len(stages), records <- opened, effects <- applied,
    reported <- {n \in Snapshots : event[n] \in ReportedStatus}

\* The inbox keeps what SnapshotMirror promises.
KeepsPromise == Abstract!Spec
=============================================================================
