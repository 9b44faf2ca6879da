-------------------------- MODULE WebsiteDecisions --------------------------
(***************************************************************************)
(* A decision about one application, taken on either side: staff move the  *)
(* record by the modal and the change is mirrored to the website, staff    *)
(* use the panel and the website decides, or the website's own admin does. *)
(* Whatever the website does comes back as a snapshot that moves the       *)
(* record.                                                                 *)
(*                                                                         *)
(* A move is committed and answered first; what to tell the website is     *)
(* worked out afterwards, from the stage of the last snapshot, and sent    *)
(* with retries.  Snapshots arrive in order here (WebsiteInbox has them in *)
(* any), and no certificate is signed off, so that the record stays where  *)
(* decisions are still taken.  The automatic moves are declared ones too.  *)
(***************************************************************************)
EXTENDS LegacyStages, FiniteSets

CONSTANTS
  Procs,      \* requests that can be in flight at once
  Stages,     \* stages the application may be at
  MaxChanges  \* bound on the changes the website makes

VARIABLES
  site,     \* the stage of the application on the website
  news,     \* the snapshots under way to the CRM, in order
  known,    \* legacy_mirror.legacy_stage: the stage of the last one applied
  status,   \* records.status
  read,     \* the status an import at work has read, "none" without one
  req,      \* the moves and the panel's actions with something left to do
  excused,  \* history: a command excused, or staff moved a record in mid-import
  changes   \* changes the website has made

vars == <<site, news, known, status, read, req, excused, changes>>

-----------------------------------------------------------------------------

Idle == [pc |-> "idle", from |-> "new_lead", to |-> "new_lead", action |-> "none"]

Init ==
  /\ site \in Stages
  /\ news = <<>>
  /\ known = site
  /\ status = Target(site, FALSE)
  /\ read = "none"
  /\ req = [p \in Procs |-> Idle]
  /\ excused = FALSE
  /\ changes = 0

Done(p)         == req' = [req EXCEPT ![p] = Idle]
Sends(p, action) == req' = [req EXCEPT ![p] = [Idle EXCEPT !.pc = "send", !.action = action]]

-----------------------------------------------------------------------------
(* The website                                                             *)

Decided == {"rejected", "cancelled"}

\* The stages of an application the website still lets be cancelled.
CANCELLABLE_STAGES ==
  {"approved", "payment_received", "certificate_issued", "dispatch_pending",
   "dispatched", "delivered"}

\* Where each command may take an application, by the website's own guards.
Accepts(action, stage) ==
  CASE action = "approve"      -> stage \in {"submitted", "under_review", "validated"}
    [] action = "validate"     -> stage \in {"submitted", "under_review"}
    [] action = "request_info" -> stage \in {"submitted", "under_review", "validated"}
    [] action = "reject"       -> TRUE
    [] action = "cancel"       -> stage \in CANCELLABLE_STAGES
    [] action = "reopen"       -> stage \in Decided

After(action) ==
  CASE action = "approve"      -> {"approved"}
    [] action = "validate"     -> {"validated"}
    [] action = "request_info" -> {"under_review"}
    [] action = "reject"       -> {"rejected"}
    [] action = "cancel"       -> {"cancelled"}
    [] action = "reopen"       -> Stages \ Decided

\* Every change is followed by a snapshot.
Becomes(stage) ==
  /\ changes < MaxChanges
  /\ site' = stage
  /\ news' = Append(news, stage)
  /\ changes' = changes + 1

SiteDecides ==
  /\ \E stage \in Stages \ {site} : Becomes(stage)
  /\ UNCHANGED <<known, status, read, req, excused>>

\* A command arrives and is obeyed; when the answer is lost, it will be sent again.
CommandObeyed(p) ==
  /\ req[p].pc = "send"
  /\ Accepts(req[p].action, site)
  /\ \E stage \in After(req[p].action) \cap Stages : Becomes(stage)
  /\ Done(p) \/ UNCHANGED req
  /\ UNCHANGED <<known, status, read, excused>>

\* send: a command that the website refuses, or that no attempt delivers.
CommandFails(p) ==
  /\ req[p].pc = "send"
  /\ excused' = TRUE
  /\ Done(p)
  /\ UNCHANGED <<site, news, known, status, read, changes>>

\* The import of the oldest snapshot: what it reads, and what it writes.
ImportRead ==
  /\ news # <<>> /\ read = "none"
  /\ read' = status
  /\ UNCHANGED <<site, news, known, status, req, excused, changes>>

ImportWrite ==
  /\ read # "none"
  /\ status' = IF Moves(read, Head(news), FALSE) THEN Target(Head(news), FALSE) ELSE status
  /\ known' = Head(news)
  /\ news' = Tail(news)
  /\ read' = "none"
  /\ UNCHANGED <<site, req, excused, changes>>

-----------------------------------------------------------------------------
(* The modal: changeStatus, mirrorStatusChange, sendStatusChange           *)

\* The moves that do not need the signed-off certificate.
StaffTransitions ==
  {t \in STATUS_TRANSITIONS : \A i \in DOMAIN t.guards : t.guards[i] # "certificate_verified"}

Closing == {"rejected", "closed"}

\* Of a move that neither closes nor reopens there is nothing to tell.
StaffMove(p) ==
  /\ req[p].pc = "idle"
  /\ excused' = (excused \/ read # "none")
  /\ \E move \in StaffTransitions :
       /\ move.from = status
       /\ status' = move.to
       /\ req' = IF {move.from, move.to} \cap Closing = {} THEN req
                 ELSE [req EXCEPT ![p] = [Idle EXCEPT !.pc = "tell", !.from = move.from,
                                                      !.to = move.to]]
  /\ UNCHANGED <<site, news, known, read, changes>>

REJECTABLE_STAGES == {"submitted", "under_review", "validated"}

\* What the website is told of a move, with the application at this stage there.
ActionForStatusChange_CancelsOnly(from, to, stage) ==
  IF from \in Closing /\ to \notin Closing
    THEN IF stage \in Decided THEN "reopen" ELSE "none"
  ELSE IF stage \in Decided \cup {"draft"} THEN "none"
  ELSE IF to = "closed" /\ stage \in CANCELLABLE_STAGES THEN "cancel"
  ELSE IF to = "rejected" THEN "reject"
  ELSE "none"

ActionForStatusChange(from, to, stage) ==
  IF from \in Closing /\ to \notin Closing
    THEN IF stage \in Decided THEN "reopen" ELSE "none"
  ELSE IF stage \in Decided \cup {"draft"} THEN "none"
  ELSE IF to = "closed" /\ stage \in CANCELLABLE_STAGES THEN "cancel"
  ELSE IF to = "rejected" THEN "reject"
  ELSE IF to = "closed" /\ stage \in REJECTABLE_STAGES THEN "reject"
  ELSE "none"

Tell(p) ==
  /\ req[p].pc = "tell"
  /\ LET action == ActionForStatusChange(req[p].from, req[p].to, known)
     IN IF action = "none" THEN Done(p) ELSE Sends(p, action)
  /\ UNCHANGED <<site, news, known, status, read, excused, changes>>

\* The process dies before the website is told, or while it is.
Lost(p) ==
  /\ req[p].pc # "idle"
  /\ excused' = TRUE
  /\ Done(p)
  /\ UNCHANGED <<site, news, known, status, read, changes>>

-----------------------------------------------------------------------------
(* The panel: run                                                          *)

LegacyActionsFor(s) ==
  CASE s = "verification_pending" -> {"approve", "reject", "request_info"}
    [] s \in {"application_submitted", "under_review"}
                                  -> {"approve", "reject", "request_info", "validate"}
    [] s \in {"selected", "payment_received"} -> {"cancel"}
    [] s \in Closing              -> {"reopen"}
    [] OTHER                      -> {}

\* Nothing about the record is written: the snapshot that returns moves it.
Run(p) ==
  /\ req[p].pc = "idle"
  /\ \E action \in LegacyActionsFor(status) : Sends(p, action)
  /\ UNCHANGED <<site, news, known, status, read, excused, changes>>

-----------------------------------------------------------------------------

Step(p) ==
  \/ StaffMove(p) \/ Tell(p) \/ Run(p)
  \/ CommandObeyed(p) \/ CommandFails(p) \/ Lost(p)

Next == SiteDecides \/ ImportRead \/ ImportWrite \/ \E p \in Procs : Step(p)

Spec == Init /\ [][Next]_vars

-----------------------------------------------------------------------------

\* The type of every variable.
TypeOK ==
  /\ site \in Stages /\ known \in Stages
  /\ \A i \in DOMAIN news : news[i] \in Stages
  /\ status \in RecordStatus /\ read \in RecordStatus \cup {"none"}
  /\ changes \in 0 .. MaxChanges /\ excused \in BOOLEAN

\* However moves, commands and snapshots race: once nothing is under way, the record is
\* closed here exactly when the application is decided there.  Not so when a command
\* failed, when staff moved the record between the read and the write of an import, and
\* while the website has it as a draft or on hold, of which it is not told.
DecisionsAgree ==
  ~excused /\ news = <<>> /\ (\A p \in Procs : req[p].pc = "idle")
    /\ site \notin {"draft", "on_hold"}
    => (status \in Closing <=> site \in Decided)
=============================================================================
