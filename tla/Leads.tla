------------------------------- MODULE Leads --------------------------------
(***************************************************************************)
(* The sales leads of one phone number: a lead is opened, called, edited,  *)
(* removed, and converted into an applicant.  Each request looks the lead  *)
(* up first and writes by its id afterwards.  The profiles of the number   *)
(* come and go as in Intake: here only whether there is one matters.       *)
(***************************************************************************)
EXTENDS Integers, Sequences, FiniteSets

CONSTANTS
  Procs,     \* requests that can be in flight at once
  Statuses,  \* the lead statuses a form may carry
  MaxLeads,  \* bound on the leads of the number
  MaxAgain   \* bound on the re-openings of a lead, and on how often the number is freed

VARIABLES
  leads,     \* the leads rows: status, deleted
  opened,    \* how many applicants each lead was turned into
  reopened,  \* history: how often each was taken out of converted by hand
  taken,     \* whether a live applicant has the number
  freed,     \* history: how often the applicant who had it gave it up, or was deleted
  req,       \* what each request has read and has still to do
  width      \* how many requests are in flight at most: one, or all there are

vars == <<leads, opened, reopened, taken, freed, req, width>>

-----------------------------------------------------------------------------

LEAD_STATUS ==
  {"new", "contacted", "interested", "callback", "not_interested", "unqualified",
   "converted", "lost"}

CLOSED == {"converted", "lost", "not_interested", "unqualified"}

Open(rows) == {l \in DOMAIN rows : ~rows[l].deleted /\ rows[l].status \notin CLOSED}

Idle == [pc |-> "idle", lead |-> 0, status |-> "new"]

Init ==
  /\ leads = <<>> /\ opened = <<>> /\ reopened = <<>>
  /\ taken = FALSE /\ freed = 0
  /\ req = [p \in Procs |-> Idle]
  /\ width \in {1, Cardinality(Procs)}

Free(p) ==
  /\ req[p].pc = "idle"
  /\ Cardinality({q \in Procs : req[q].pc # "idle"}) < width

At(p, pc) == req[p].pc = pc
Done(p)   == req' = [req EXCEPT ![p] = Idle]

\* leads_mobile_open_uq.
OneOpen(rows) == Cardinality(Open(rows)) <= 1

\* requireOpen: whether a converted lead may still be worked on is the caller's choice.
Workable_Any(l, allowClosed) == ~leads[l].deleted
Workable(l, allowClosed) ==
  ~leads[l].deleted /\ (allowClosed \/ leads[l].status # "converted")

\* A lead has been looked up for pc, and status is what it is to become.
LookedUp(p, l, pc, status) ==
  req' = [req EXCEPT ![p] = [pc |-> pc, lead |-> l, status |-> status]]

\* The status of lead l is written, whatever has become of it since.
SetStatus(l, status) ==
  /\ leads' = [leads EXCEPT ![l].status = status]
  /\ OneOpen(leads')
  /\ IF leads[l].status = "converted" /\ status # "converted"
     THEN reopened[l] < MaxAgain /\ reopened' = [reopened EXCEPT ![l] = @ + 1]
     ELSE UNCHANGED reopened

-----------------------------------------------------------------------------

\* create: refused while a lead of the number is open.
CreateCheck(p) ==
  /\ Free(p)
  /\ Open(leads) = {}
  /\ LookedUp(p, 0, "create", "new")
  /\ UNCHANGED <<leads, opened, reopened, taken, freed, width>>

CreateInsert(p) ==
  /\ At(p, "create")
  /\ Len(leads) < MaxLeads
  /\ leads' = Append(leads, [status |-> "new", deleted |-> FALSE])
  /\ OneOpen(leads')
  /\ opened' = Append(opened, 0) /\ reopened' = Append(reopened, 0)
  /\ Done(p)
  /\ UNCHANGED <<taken, freed, width>>

\* update: any field of any lead, the status of a converted one too.
EditRead(p) ==
  /\ Free(p)
  /\ \E l \in DOMAIN leads, status \in Statuses :
       Workable(l, TRUE) /\ LookedUp(p, l, "write", status)
  /\ UNCHANGED <<leads, opened, reopened, taken, freed, width>>

\* logCall: the status the caller names, the one of the outcome, or none: then the one
\* that was read is written again.
CallRead(p) ==
  /\ Free(p)
  /\ \E l \in DOMAIN leads :
       /\ Workable(l, FALSE)
       /\ \E status \in Statuses \cup {leads[l].status} : LookedUp(p, l, "write", status)
  /\ UNCHANGED <<leads, opened, reopened, taken, freed, width>>

StatusWrite(p) ==
  /\ At(p, "write")
  /\ SetStatus(req[p].lead, req[p].status)
  /\ Done(p)
  /\ UNCHANGED <<opened, taken, freed, width>>

\* remove.
Remove(p) ==
  /\ Free(p)
  /\ \E l \in DOMAIN leads :
       /\ Workable(l, TRUE)
       /\ leads' = [leads EXCEPT ![l].deleted = TRUE]
  /\ UNCHANGED <<opened, reopened, taken, freed, req, width>>

\* convert: the lead, then an applicant through the ordinary intake, then the lead
\* again.  An override gets past the look-up of duplicates, never past
\* applicants_mobile_uq; the existing applicant a caller may name is not looked at.
ConvertRead(p) ==
  /\ Free(p)
  /\ \E l \in DOMAIN leads :
       Workable(l, FALSE) /\ LookedUp(p, l, "open_applicant", "converted")
  /\ UNCHANGED <<leads, opened, reopened, taken, freed, width>>

ConvertCreate(p) ==
  /\ At(p, "open_applicant")
  /\ ~taken /\ taken' = TRUE
  /\ opened' = [opened EXCEPT ![req[p].lead] = @ + 1]
  /\ req' = [req EXCEPT ![p].pc = "link"]
  /\ UNCHANGED <<leads, reopened, freed, width>>

ConvertLink(p) ==
  /\ At(p, "link")
  /\ SetStatus(req[p].lead, req[p].status)
  /\ Done(p)
  /\ UNCHANGED <<opened, taken, freed, width>>

\* The number is given to somebody at the desk, or given up.
NumberMoves ==
  /\ taken => freed < MaxAgain
  /\ taken' = ~taken
  /\ freed' = freed + (IF taken THEN 1 ELSE 0)
  /\ UNCHANGED <<leads, opened, reopened, req, width>>

\* The index or the duplicate check refuses; with others in flight, the process dies.
Lost(p) ==
  /\ req[p].pc # "idle" /\ (width # 1 \/ ~At(p, "link"))
  /\ Done(p)
  /\ UNCHANGED <<leads, opened, reopened, taken, freed, width>>

-----------------------------------------------------------------------------

Step(p) ==
  \/ CreateCheck(p) \/ CreateInsert(p) \/ EditRead(p) \/ CallRead(p) \/ StatusWrite(p)
  \/ Remove(p) \/ ConvertRead(p) \/ ConvertCreate(p) \/ ConvertLink(p)
  \/ Lost(p)

Next == NumberMoves \/ \E p \in Procs : Step(p)

Spec == Init /\ [][Next]_vars

-----------------------------------------------------------------------------

Quiet == width = 1 /\ \A p \in Procs : req[p].pc = "idle"

\* The type of every variable.
TypeOK ==
  /\ \A l \in DOMAIN leads : leads[l] \in [status : LEAD_STATUS, deleted : BOOLEAN]
  /\ DOMAIN opened = DOMAIN leads /\ DOMAIN reopened = DOMAIN leads
  /\ taken \in BOOLEAN /\ freed \in 0 .. MaxAgain
  /\ \A p \in Procs : req[p].lead \in 0 .. MaxLeads /\ req[p].status \in LEAD_STATUS

\* The applicants there were, each as the lead it came from and the how-manieth of it.
Openings == UNION {{l} \X (1 .. opened[l]) : l \in DOMAIN opened}

\* However requests race, the leads of a number open one applicant, and another only
\* after the number was given up; and one at a time, a lead opens another only after
\* somebody has taken it out of converted by hand.
ConvertedOnce ==
  /\ Cardinality(Openings) <= 1 + freed
  /\ Quiet =>
       \A l \in DOMAIN leads :
         opened[l] <= reopened[l] + (IF leads[l].status = "converted" THEN 1 ELSE 0)
=============================================================================
