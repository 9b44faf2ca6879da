------------------------- MODULE DesksWebsiteProofs --------------------------
(***************************************************************************)
(* For any number of requests, and any bounds: the record shows the        *)
(* dispatch that is current, the flag follows the register of blacklisted  *)
(* applicants, and the website and the CRM agree on what they share.  And, *)
(* of every component of Desks together, the types.                        *)
(***************************************************************************)
EXTENDS DesksSignInProofs, WellFoundedInduction

-----------------------------------------------------------------------------
(* Dispatches.                                                             *)

DeliveryStatus == FormStatuses \cup D!LEGACY_DELIVERY_MAP \cup {"not_dispatched"}
Dispatch       == [status : DeliveryStatus, current : BOOLEAN]
DispatchRequest ==
  [pc : {"idle", "save", "import"}, row : Nat, resend : BOOLEAN, status : DeliveryStatus]

\* Where there are dispatches one of them is current, strayed imports or not, and the
\* record shows its status until an import strays.
OneIsCurrent ==
  \/ rows = <<>> /\ shown = "not_dispatched"
  \/ \E r \in DOMAIN rows :
       /\ rows[r].current /\ \A s \in DOMAIN rows : rows[s].current => s = r
       /\ ~strayed => shown = rows[r].status

DispatchesInv ==
  /\ rows \in Seq(Dispatch)
  /\ dReq \in [Procs -> DispatchRequest]
  /\ \A p \in Procs : dReq[p].row \in 0 .. Len(rows)
  /\ OneIsCurrent

\* A request that is put back to idle is about nothing.
LEMMA IdleDispatch == D!Idle \in DispatchRequest /\ D!Idle.row = 0
BY DEF D!Idle, DispatchRequest, DeliveryStatus

\* There are no dispatches yet.
LEMMA InitDispatches == Init => DispatchesInv
<1> SUFFICES ASSUME Init PROVE DispatchesInv
  OBVIOUS
<1>1. rows = <<>> /\ shown = "not_dispatched" /\ dReq = [p \in Procs |-> D!Idle]
  BY DEF Init, D!Init
<1> QED
  BY <1>1, IdleDispatch DEF DispatchesInv, OneIsCurrent

\* The row that a request finds is one there is.
LEMMA FoundIsThere ==
  ASSUME DispatchesInv
  PROVE  D!Found \in 0 .. Len(rows)
<1>1. D!Current \subseteq 1 .. Len(rows)
  BY DEF DispatchesInv, D!Current
<1>2. Len(rows) \in Nat
  BY DEF DispatchesInv
<1>3. CASE D!Current = {}
  BY <1>2, <1>3 DEF D!Found
<1>4. CASE D!Current # {}
  <2>1. D!Found \in D!Current
    BY <1>4, Zenon DEF D!Found
  <2> QED
    BY <1>1, <1>2, <2>1
<1> QED
  BY <1>3, <1>4

\* Requests may change with the dispatches as they were.
LEMMA DispatchesWait ==
  ASSUME DispatchesInv, NEW p \in Procs, NEW r \in DispatchRequest,
         r.row \in 0 .. Len(rows), dReq' = [dReq EXCEPT ![p] = r],
         UNCHANGED <<rows, shown, strayed>>
  PROVE  DispatchesInv'
<1>1. dReq' \in [Procs -> DispatchRequest] /\ dReq'[p] = r
      /\ \A q \in Procs \ {p} : dReq'[q] = dReq[q]
  BY DEF DispatchesInv
<1> QED
  BY <1>1 DEF DispatchesInv, OneIsCurrent

\* A form and an import read which row is current.
LEMMA ReadDispatch ==
  ASSUME DispatchesInv, NEW p \in Procs, D!SaveRead(p) \/ D!ImportRead(p)
  PROVE  DispatchesInv'
<1>1. CASE D!SaveRead(p)
  <2>1. PICK sent \in FormStatuses : dReq' = [dReq EXCEPT ![p] =
          [pc |-> "save", row |-> D!Found, status |-> sent,
           resend |-> D!Found # 0 /\ rows[D!Found].status = "returned"]]
    BY <1>1 DEF D!SaveRead
  <2> DEFINE r == [pc |-> "save", row |-> D!Found, status |-> sent,
                   resend |-> D!Found # 0 /\ rows[D!Found].status = "returned"]
  <2>2. r \in DispatchRequest /\ r.row \in 0 .. Len(rows)
    BY FoundIsThere DEF DispatchRequest, DeliveryStatus, DispatchesInv
  <2>3. dReq' = [dReq EXCEPT ![p] = r]
    BY <2>1
  <2> HIDE DEF r
  <2> QED
    BY <1>1, <2>2, <2>3, DispatchesWait DEF D!SaveRead
<1>2. CASE D!ImportRead(p)
  <2>1. PICK sent \in D!LEGACY_DELIVERY_MAP : dReq' = [dReq EXCEPT ![p] =
          [pc |-> "import", row |-> D!Found, status |-> sent, resend |-> FALSE]]
    BY <1>2 DEF D!ImportRead
  <2> DEFINE r == [pc |-> "import", row |-> D!Found, status |-> sent, resend |-> FALSE]
  <2>2. r \in DispatchRequest /\ r.row \in 0 .. Len(rows)
    BY FoundIsThere DEF DispatchRequest, DeliveryStatus, DispatchesInv
  <2>3. dReq' = [dReq EXCEPT ![p] = r]
    BY <2>1
  <2> HIDE DEF r
  <2> QED
    BY <1>2, <2>2, <2>3, DispatchesWait DEF D!ImportRead
<1> QED
  BY <1>1, <1>2

\* A request ends, and the rows are no fewer than before.
LEMMA DispatchDone ==
  ASSUME DispatchesInv, NEW p \in Procs, D!Done(p), rows' \in Seq(Dispatch),
         Len(rows') >= Len(rows), OneIsCurrent'
  PROVE  DispatchesInv'
<1>1. dReq' \in [Procs -> DispatchRequest] /\ dReq'[p] = D!Idle
      /\ \A q \in Procs \ {p} : dReq'[q] = dReq[q]
  BY IdleDispatch DEF DispatchesInv, D!Done
<1>2. \A q \in Procs : dReq'[q].row \in 0 .. Len(rows')
  BY <1>1, IdleDispatch DEF DispatchesInv
<1> QED
  BY <1>1, <1>2 DEF DispatchesInv

\* A form writes over the row it read, which no other may have replaced as current.
LEMMA SaveOver ==
  ASSUME DispatchesInv, NEW p \in Procs, D!SaveUpdate(p)
  PROVE  DispatchesInv'
<1> DEFINE r == dReq[p].row
           x == dReq[p].status
<1>1. r \in DOMAIN rows /\ x \in DeliveryStatus /\ D!Done(p)
  BY DEF DispatchesInv, DispatchRequest, D!SaveUpdate
<1>2. \A s \in DOMAIN rows : rows[s].current => s = r
  BY DEF D!SaveUpdate, D!NoOther, D!Current
<1>3. rows' = [rows EXCEPT ![r] = D!New(x)] /\ shown' = x
  BY DEF D!SaveUpdate
<1>4. D!New(x) \in Dispatch /\ D!New(x).current /\ D!New(x).status = x
  BY <1>1 DEF D!New, Dispatch
<1> HIDE DEF r, x
<1>5. rows' \in Seq(Dispatch) /\ Len(rows') = Len(rows) /\ DOMAIN rows' = DOMAIN rows
      /\ rows'[r] = D!New(x) /\ \A s \in DOMAIN rows \ {r} : rows'[s] = rows[s]
  BY <1>1, <1>3, <1>4 DEF DispatchesInv
<1>6. OneIsCurrent'
  BY <1>1, <1>2, <1>3, <1>4, <1>5 DEF OneIsCurrent
<1>7. Len(rows') >= Len(rows)
  BY <1>5 DEF DispatchesInv
<1> QED
  BY <1>1, <1>5, <1>6, <1>7, DispatchDone

\* A row is added as the current one, when those before it are so no longer.
LEMMA DispatchAdded ==
  ASSUME DispatchesInv, NEW p \in Procs, D!Done(p), NEW x \in DeliveryStatus,
         NEW before \in Seq(Dispatch), Len(before) = Len(rows),
         \A s \in DOMAIN before : ~before[s].current,
         rows' = Append(before, D!New(x)), shown' = x
  PROVE  DispatchesInv'
<1>1. D!New(x) \in Dispatch /\ D!New(x).current /\ D!New(x).status = x
  BY DEF D!New, Dispatch
<1>2. /\ rows' \in Seq(Dispatch) /\ Len(rows') = Len(before) + 1 /\ Len(before) \in Nat
      /\ DOMAIN rows' = 1 .. Len(before) + 1 /\ DOMAIN before = 1 .. Len(before)
      /\ rows'[Len(before) + 1] = D!New(x)
      /\ \A s \in DOMAIN before : rows'[s] = before[s]
  BY <1>1
<1>3. OneIsCurrent'
  <2>1. \A s \in DOMAIN rows' : rows'[s].current => s = Len(before) + 1
    BY <1>2
  <2>2. Len(before) + 1 \in DOMAIN rows'
    BY <1>2
  <2>3. rows'[Len(before) + 1].current /\ shown' = rows'[Len(before) + 1].status
    BY <1>1, <1>2
  <2> QED
    BY <2>1, <2>2, <2>3 DEF OneIsCurrent
<1>4. Len(rows') >= Len(rows)
  BY <1>2
<1> QED
  BY <1>2, <1>3, <1>4, DispatchDone

\* A form makes a new row, and the one it read is current no longer.
LEMMA SaveAnew ==
  ASSUME DispatchesInv, NEW p \in Procs, D!SaveInsert(p)
  PROVE  DispatchesInv'
<1> DEFINE r == dReq[p].row
           x == dReq[p].status
           before == [s \in DOMAIN rows |-> IF s = r THEN [rows[s] EXCEPT !.current = FALSE]
                                            ELSE rows[s]]
<1>1. x \in DeliveryStatus /\ D!Done(p)
  BY DEF DispatchesInv, DispatchRequest, D!SaveInsert
<1>2. \A s \in DOMAIN rows : rows[s].current => s = r
  BY DEF D!SaveInsert, D!NoOther, D!Current
<1>3. rows' = Append(before, D!New(x)) /\ shown' = x
  BY DEF D!SaveInsert
<1>4. \A s \in DOMAIN rows : rows[s] \in Dispatch
  BY DEF DispatchesInv
<1> HIDE DEF r, x
<1>5. \A s \in DOMAIN rows : before[s] \in Dispatch /\ ~before[s].current
  BY <1>2, <1>4 DEF Dispatch
<1>6. DOMAIN rows = 1 .. Len(rows) /\ Len(rows) \in Nat
  BY DEF DispatchesInv
<1>7. before \in [1 .. Len(rows) -> Dispatch] /\ DOMAIN before = 1 .. Len(rows)
  BY <1>5, <1>6
<1> HIDE DEF before
<1>8. before \in Seq(Dispatch) /\ Len(before) = Len(rows)
  BY <1>6, <1>7, SeqDef
<1>9. \A s \in DOMAIN before : ~before[s].current
  BY <1>5, <1>6, <1>7
<1> QED
  BY <1>1, <1>3, <1>8, <1>9, DispatchAdded

\* An import finds none and makes the first.
LEMMA ImportAnew ==
  ASSUME DispatchesInv, NEW p \in Procs, D!ImportInsert(p)
  PROVE  DispatchesInv'
<1>1. dReq[p].status \in DeliveryStatus /\ D!Done(p)
  BY DEF DispatchesInv, DispatchRequest, D!ImportInsert
<1>2. rows' = Append(rows, D!New(dReq[p].status)) /\ shown' = dReq[p].status
  BY DEF D!ImportInsert
<1>3. \A s \in DOMAIN rows : ~rows[s].current
  <2>1. \A s \in DOMAIN rows : rows[s].current => s = 0
    BY DEF D!ImportInsert, D!NoOther, D!Current
  <2>2. DOMAIN rows = 1 .. Len(rows)
    BY DEF DispatchesInv
  <2> QED
    BY <2>1, <2>2
<1>4. rows \in Seq(Dispatch) /\ Len(rows) = Len(rows)
  BY DEF DispatchesInv
<1> QED
  BY <1>1, <1>2, <1>3, <1>4, DispatchAdded

\* An import writes the status of the row it read; where that row is current no longer,
\* it has strayed.
LEMMA ImportOver ==
  ASSUME DispatchesInv, NEW p \in Procs, D!ImportUpdate(p)
  PROVE  DispatchesInv'
<1> DEFINE r == dReq[p].row
           x == dReq[p].status
           y == [rows[r] EXCEPT !.status = x]
<1>1. r \in DOMAIN rows /\ x \in DeliveryStatus /\ D!Done(p) /\ rows[r] \in Dispatch
  BY DEF DispatchesInv, DispatchRequest, D!ImportUpdate
<1>2. rows' = [rows EXCEPT ![r] = y] /\ shown' = x
      /\ strayed' = (strayed \/ ~rows[r].current)
  BY DEF D!ImportUpdate
<1>3. y \in Dispatch /\ y.current = rows[r].current /\ y.status = x
  BY <1>1 DEF Dispatch
<1> HIDE DEF r, x, y
<1>4. rows' \in Seq(Dispatch) /\ Len(rows') = Len(rows) /\ DOMAIN rows' = DOMAIN rows
      /\ rows'[r] = y /\ \A s \in DOMAIN rows \ {r} : rows'[s] = rows[s]
  BY <1>1, <1>2, <1>3 DEF DispatchesInv
<1>5. OneIsCurrent'
  <2>1. PICK t \in DOMAIN rows :
          rows[t].current /\ \A s \in DOMAIN rows : rows[s].current => s = t
    BY <1>1 DEF DispatchesInv, OneIsCurrent
  <2>2. rows'[t].current /\ \A s \in DOMAIN rows : rows'[s].current => s = t
    BY <1>1, <1>3, <1>4, <2>1
  <2>3. ASSUME ~strayed' PROVE shown' = rows'[t].status
    BY <1>1, <1>2, <1>3, <1>4, <2>1, <2>3
  <2> QED
    BY <1>4, <2>1, <2>2, <2>3 DEF OneIsCurrent
<1>6. Len(rows') >= Len(rows)
  BY <1>4 DEF DispatchesInv
<1> QED
  BY <1>1, <1>4, <1>5, <1>6, DispatchDone

\* No step of Desks leaves the invariant of the dispatches.
LEMMA NextDispatches == DispatchesInv /\ [Next]_vars => DispatchesInv'
<1> SUFFICES ASSUME DispatchesInv, [Next]_vars PROVE DispatchesInv'
  OBVIOUS
<1>1. D!Next \/ UNCHANGED <<rows, shown, dReq, strayed>>
  BY DEF Next, Only, vars, D_vars
<1>2. ASSUME NEW p \in Procs, D!Lost(p) PROVE DispatchesInv'
  <2>1. 0 \in 0 .. Len(rows)
    BY DEF DispatchesInv
  <2> QED
    BY <1>2, <2>1, IdleDispatch, DispatchesWait DEF D!Lost, D!Done
<1>3. CASE D!Next
  BY <1>2, <1>3, ReadDispatch, SaveOver, SaveAnew, ImportOver, ImportAnew
     DEF D!Next, D!Step
<1>4. CASE UNCHANGED <<rows, shown, dReq, strayed>>
  BY <1>4 DEF DispatchesInv, OneIsCurrent
<1> QED
  BY <1>1, <1>3, <1>4

\* The list shows the status of the one current dispatch, until an import has written
\* to a superseded row (dispatch.service.ts, legacy-lifecycle.service.ts).
THEOREM CurrentIsShown == Spec => []RecordShowsCurrent
<1>1. DispatchesInv => RecordShowsCurrent
  <2> SUFFICES ASSUME DispatchesInv, ~strayed, rows # <<>>
               PROVE  \E r \in DOMAIN rows : D!Current = {r} /\ shown = rows[r].status
    BY DEF RecordShowsCurrent, D!RecordShowsCurrent, DispatchesInv, OneIsCurrent
  <2> QED
    BY DEF DispatchesInv, OneIsCurrent, D!Current
<1> QED
  BY <1>1, InitDispatches, NextDispatches, PTL DEF Spec

-----------------------------------------------------------------------------
(* The blacklist.                                                          *)

BlacklistRequest ==
  [pc : {"idle", "add_check", "add_commit", "add_push", "lift_update", "lift_commit",
         "lift_push", "site_block", "site_unblock"},
   origin : {"crm", "website"}, entry : Nat, remaining : BOOLEAN]

NonePushed == \A action \in {"add", "lift"} : pushes[action] = 0

\* What a request that runs alone may rely on.
Stands(r) ==
  /\ r.pc # "idle" => NonePushed
  /\ r.pc \in {"site_block", "site_unblock", "add_check"} => r.origin = "website"
  /\ r.pc \in {"add_commit", "lift_push"} => B!InForce = {}
  /\ r.pc = "add_push" => B!InForce # {}
  /\ r.pc \in {"lift_update", "lift_commit"} => r.entry \in B!InForce
  /\ r.pc = "lift_commit" => ~r.remaining
  /\ r.origin = "website" /\ r.pc \in {"site_block", "add_check", "add_commit"} => website
  /\ r.origin = "website" /\ r.pc \in {"site_unblock", "lift_update", "lift_commit"}
       => ~website

\* One at a time, one entry at most is in force, the banner shows it, and a push under
\* way tells of it.
RegisterAgrees ==
  /\ \A e, f \in B!InForce : e = f
  /\ banner <=> B!InForce # {}
  /\ pushes["add"] > 0 => B!InForce # {}
  /\ pushes["lift"] > 0 => B!InForce = {}

\* What the website is to show once nothing is under way.
WebsiteShows == NonePushed /\ ~missed => (website <=> B!InForce # {})

BlacklistInv ==
  /\ entries \in Seq({"in_force", "lifted"})
  /\ pushes \in [{"add", "lift"} -> Nat]
  /\ bReq \in [Procs -> BlacklistRequest]
  /\ \A p \in Procs : bReq[p].pc = "idle" => bReq[p].origin = "crm"
  /\ banner \in BOOLEAN /\ website \in BOOLEAN /\ (banner <=> "blacklisted" \in flags)
  /\ width = 1 =>
       /\ Alone(bReq)
       /\ RegisterAgrees
       /\ \A p \in Procs : Stands(bReq[p])
       /\ AllIdle(bReq) => WebsiteShows

\* A request that is put back to idle is about nothing.
LEMMA IdleBlacklist ==
  B!Idle \in BlacklistRequest /\ B!Idle.pc = "idle" /\ B!Idle.origin = "crm"
BY DEF B!Idle, BlacklistRequest

\* Nothing is under way, and nothing in force.
LEMMA InitBlacklist == Init => BlacklistInv
<1> SUFFICES ASSUME Init PROVE BlacklistInv
  OBVIOUS
<1>1. /\ entries = <<>> /\ banner = FALSE /\ flags = {} /\ website = FALSE
      /\ pushes = [action \in {"add", "lift"} |-> 0]
      /\ bReq = [p \in Procs |-> B!Idle]
  BY DEF Init, B!Init
<1>2. B!InForce = {}
  BY <1>1 DEF B!InForce
<1>3. \A p \in Procs : bReq[p] = B!Idle
  BY <1>1
<1>4. pushes["add"] = 0 /\ pushes["lift"] = 0
  BY <1>1
<1>5. RegisterAgrees /\ WebsiteShows
  BY <1>1, <1>2, <1>4 DEF RegisterAgrees, WebsiteShows
<1>6. \A p \in Procs : Stands(bReq[p])
  BY <1>3, IdleBlacklist DEF Stands
<1>7. entries \in Seq({"in_force", "lifted"}) /\ pushes \in [{"add", "lift"} -> Nat]
  BY <1>1
<1>8. bReq \in [Procs -> BlacklistRequest] /\ Alone(bReq)
  BY <1>1, <1>3, IdleBlacklist DEF Alone
<1> QED
  BY <1>1, <1>3, <1>5, <1>6, <1>7, <1>8, IdleBlacklist DEF BlacklistInv

\* One at a time, a request begins when none is under way, and one that is under way
\* is so alone.
LEMMA BlacklistAlone ==
  ASSUME BlacklistInv, NEW p \in Procs, B!Free(p) \/ bReq[p].pc # "idle", width = 1
  PROVE  /\ \A q \in Procs \ {p} : bReq[q].pc = "idle"
         /\ NonePushed
<1>1. CASE B!Free(p)
  <2> DEFINE busy == {q \in Procs : bReq[q].pc # "idle"}
  <2>1. B!Cardinality(busy) = Cardinality(busy)
    BY DEF B!Cardinality, Cardinality
  <2>2. B!Cardinality(busy) < width
    BY <1>1 DEF B!Free
  <2>3. busy = {}
    BY <2>1, <2>2, FreeIsAlone
  <2> QED
    BY <1>1, <2>3 DEF B!Free, NonePushed
<1>2. CASE bReq[p].pc # "idle"
  BY <1>2 DEF BlacklistInv, Alone, Stands
<1> QED
  BY <1>1, <1>2

\* A request that runs alone, where that is asked, becomes r.
LEMMA BlacklistStep ==
  ASSUME BlacklistInv, NEW p \in Procs, NEW r \in BlacklistRequest,
         bReq' = [bReq EXCEPT ![p] = r], r.pc = "idle" => r.origin = "crm",
         entries' \in Seq({"in_force", "lifted"}), pushes' \in [{"add", "lift"} -> Nat],
         banner' \in BOOLEAN, website' \in BOOLEAN, banner' <=> "blacklisted" \in flags',
         UNCHANGED width, B!Free(p) \/ bReq[p].pc # "idle",
         width = 1 => RegisterAgrees' /\ Stands(r)' /\ (r.pc = "idle" => WebsiteShows')
  PROVE  BlacklistInv'
<1>1. bReq' \in [Procs -> BlacklistRequest] /\ bReq'[p] = r
      /\ \A q \in Procs \ {p} : bReq'[q] = bReq[q]
  BY DEF BlacklistInv
<1>2. \A q \in Procs : bReq'[q].pc = "idle" => bReq'[q].origin = "crm"
  BY <1>1 DEF BlacklistInv
<1>3. ASSUME width = 1
      PROVE  /\ Alone(bReq')
             /\ \A q \in Procs : Stands(bReq[q])'
             /\ AllIdle(bReq') => WebsiteShows'
  <2>1. \A q \in Procs \ {p} : bReq'[q].pc = "idle" /\ bReq'[q].origin = "crm"
    BY <1>1, <1>2, <1>3, BlacklistAlone
  <2>2. \A q \in Procs \ {p} : Stands(bReq[q])'
    BY <2>1 DEF Stands
  <2>3. Stands(bReq[p])'
    BY <1>1, <1>3 DEF Stands
  <2> QED
    BY <1>1, <1>3, <2>1, <2>2, <2>3 DEF Alone, AllIdle
<1> QED
  BY <1>1, <1>2, <1>3 DEF BlacklistInv

\* A request goes on, or ends, with the register, the website and the pushes as they were.
LEMMA BlacklistGoesOn ==
  ASSUME BlacklistInv, NEW p \in Procs, NEW r \in BlacklistRequest,
         bReq' = [bReq EXCEPT ![p] = r], r.pc = "idle" => r.origin = "crm",
         UNCHANGED <<entries, banner, flags, website, pushes, missed, width>>,
         B!Free(p) \/ bReq[p].pc # "idle",
         width = 1 => Stands(r) /\ (r.pc = "idle" => WebsiteShows)
  PROVE  BlacklistInv'
<1>1. UNCHANGED B!InForce
  BY DEF B!InForce
<1>2. width = 1 => RegisterAgrees'
  BY <1>1 DEF BlacklistInv, RegisterAgrees
<1>3. Stands(r) => Stands(r)'
  BY <1>1 DEF Stands, NonePushed
<1>4. WebsiteShows => WebsiteShows'
  BY <1>1 DEF WebsiteShows, NonePushed
<1> QED
  BY <1>2, <1>3, <1>4, BlacklistStep DEF BlacklistInv

\* A request with a new place to go is a request, alike in all else.
LEMMA BlacklistGoto ==
  ASSUME NEW x \in BlacklistRequest, NEW pc \in {"add_commit", "add_check", "add_push",
                                                 "lift_push"}
  PROVE  /\ [x EXCEPT !.pc = pc] \in BlacklistRequest
         /\ [x EXCEPT !.pc = pc].pc = pc
         /\ [x EXCEPT !.pc = pc].origin = x.origin
BY DEF BlacklistRequest

\* What a request has checked.
LEMMA BlacklistChecks ==
  ASSUME BlacklistInv, NEW p \in Procs, B!AddCheck(p) \/ B!AddRefused(p) \/ B!SiteBlock(p)
  PROVE  BlacklistInv'
<1> DEFINE x == bReq[p]
           commit == [x EXCEPT !.pc = "add_commit"]
           check == [x EXCEPT !.pc = "add_check"]
<1>1. x \in BlacklistRequest
  BY DEF BlacklistInv
<1>2. CASE B!AddCheck(p)
  <2>1. commit \in BlacklistRequest /\ commit.pc = "add_commit" /\ commit.origin = x.origin
    BY <1>1, BlacklistGoto
  <2>2. bReq' = [bReq EXCEPT ![p] = commit]
    BY <1>2 DEF B!AddCheck, B!Goto
  <2>3. B!Free(p) \/ bReq[p].pc # "idle"
    BY <1>2 DEF B!AddCheck, B!At
  <2>4. ASSUME width = 1 PROVE Stands(commit)
    <3>1. NonePushed
      BY <2>3, <2>4, BlacklistAlone
    <3>2. x.origin = "website" => website
      BY <1>2, <2>4 DEF BlacklistInv, Stands, B!AddCheck, B!At, B!Free
    <3> HIDE DEF commit
    <3> QED
      BY <1>2, <2>1, <3>1, <3>2 DEF Stands, B!AddCheck
  <2> HIDE DEF commit
  <2> QED
    BY <1>2, <2>1, <2>2, <2>3, <2>4, BlacklistGoesOn DEF B!AddCheck
<1>3. CASE B!AddRefused(p) \/ (B!SiteBlock(p) /\ B!InForce # {})
  <2>1. bReq' = [bReq EXCEPT ![p] = B!Idle] /\ B!InForce # {}
        /\ x.pc \in {"add_check", "site_block"}
    BY <1>3 DEF B!AddRefused, B!SiteBlock, B!Done, B!At
  <2>2. UNCHANGED <<entries, banner, flags, website, pushes, missed, width>>
    BY <1>3 DEF B!AddRefused, B!SiteBlock
  <2>3. width = 1 => WebsiteShows
    BY <2>1 DEF BlacklistInv, Stands, WebsiteShows
  <2>4. Stands(B!Idle)
    BY IdleBlacklist DEF Stands
  <2> QED
    BY <2>1, <2>2, <2>3, <2>4, IdleBlacklist, BlacklistGoesOn
<1>4. CASE B!SiteBlock(p) /\ B!InForce = {}
  <2>1. check \in BlacklistRequest /\ check.pc = "add_check" /\ check.origin = x.origin
    BY <1>1, BlacklistGoto
  <2>2. bReq' = [bReq EXCEPT ![p] = check] /\ x.pc = "site_block"
    BY <1>4 DEF B!SiteBlock, B!Goto, B!At
  <2>3. ASSUME width = 1 PROVE Stands(check)
    <3>1. Stands(x)
      BY <2>3 DEF BlacklistInv
    <3> HIDE DEF check, x
    <3> QED
      BY <2>1, <2>2, <3>1 DEF Stands
  <2> HIDE DEF check
  <2> QED
    BY <1>4, <2>1, <2>2, <2>3, BlacklistGoesOn DEF B!SiteBlock
<1> HIDE DEF x, commit, check
<1> QED
  BY <1>2, <1>3, <1>4

\* An entry to lift is one in force.
LEMMA BlacklistLifts ==
  ASSUME BlacklistInv, NEW p \in Procs, B!LiftRead(p) \/ B!SiteUnblock(p)
  PROVE  BlacklistInv'
<1> DEFINE x == bReq[p]
<1>1. x \in BlacklistRequest /\ B!InForce \subseteq Nat
      /\ (B!Free(p) \/ bReq[p].pc # "idle")
  <2>1. B!InForce \subseteq 1 .. Len(entries) /\ Len(entries) \in Nat
    BY DEF BlacklistInv, B!InForce
  <2>2. B!Free(p) \/ bReq[p].pc # "idle"
    BY DEF B!LiftRead, B!SiteUnblock, B!At
  <2> QED
    BY <2>1, <2>2 DEF BlacklistInv
<1>2. UNCHANGED <<entries, banner, flags, website, pushes, missed, width>>
  BY DEF B!LiftRead, B!SiteUnblock
<1>3. ASSUME NEW y \in BlacklistRequest, NEW e \in B!InForce,
             bReq' = [bReq EXCEPT ![p] = [y EXCEPT !.pc = "lift_update", !.entry = e]],
             width = 1 /\ y.origin = "website" => ~website
      PROVE  BlacklistInv'
  <2> DEFINE r == [y EXCEPT !.pc = "lift_update", !.entry = e]
  <2>1. r \in BlacklistRequest /\ r.pc = "lift_update" /\ r.entry = e /\ r.origin = y.origin
    BY <1>1 DEF BlacklistRequest
  <2>2. bReq' = [bReq EXCEPT ![p] = r]
    BY <1>3
  <2> HIDE DEF r
  <2>3. width = 1 => NonePushed
    BY <1>1, BlacklistAlone
  <2>4. width = 1 => Stands(r)
    BY <1>3, <2>1, <2>3 DEF Stands
  <2> QED
    BY <1>1, <1>2, <2>1, <2>2, <2>4, BlacklistGoesOn
<1>4. CASE B!LiftRead(p)
  <2>1. PICK e \in B!InForce :
          bReq' = [bReq EXCEPT ![p] = [B!Idle EXCEPT !.pc = "lift_update", !.entry = e]]
    BY <1>4 DEF B!LiftRead
  <2> QED
    BY <1>3, <2>1, IdleBlacklist
<1>5. CASE B!SiteUnblock(p)
  <2>1. width = 1 => ~website
    BY <1>5 DEF BlacklistInv, Stands, B!SiteUnblock, B!At
  <2>2. CASE B!InForce = {} /\ B!Done(p)
    <3>1. width = 1 => WebsiteShows
      BY <2>1, <2>2 DEF WebsiteShows
    <3>2. Stands(B!Idle)
      BY IdleBlacklist DEF Stands
    <3> QED
      BY <1>1, <1>2, <2>2, <3>1, <3>2, IdleBlacklist, BlacklistGoesOn DEF B!Done
  <2>3. CASE \E e \in B!InForce :
               bReq' = [bReq EXCEPT ![p].pc = "lift_update", ![p].entry = e]
    <3>1. PICK e \in B!InForce :
            bReq' = [bReq EXCEPT ![p] = [x EXCEPT !.pc = "lift_update", !.entry = e]]
      BY <2>3
    <3> HIDE DEF x
    <3> QED
      BY <1>1, <1>3, <2>1, <3>1
  <2> QED
    BY <1>5, <2>2, <2>3 DEF B!SiteUnblock
<1> QED
  BY <1>4, <1>5

\* A commit of add: an entry is in force, and banner and flag say so.
LEMMA BlacklistAdds ==
  ASSUME BlacklistInv, NEW p \in Procs, B!AddCommit(p)
  PROVE  BlacklistInv'
<1> DEFINE x == bReq[p]
<1>1. x \in BlacklistRequest /\ x.pc = "add_commit"
  BY DEF BlacklistInv, B!AddCommit, B!At
<1>2. PICK r \in BlacklistRequest :
        /\ bReq' = [bReq EXCEPT ![p] = r]
        /\ r.pc = "idle" => r.origin = "crm"
        /\ x.origin = "crm" => r.pc = "add_push" /\ r.origin = "crm"
        /\ x.origin # "crm" => r.pc = "idle"
  <2> DEFINE s == IF x.origin = "crm" THEN [x EXCEPT !.pc = "add_push"] ELSE B!Idle
  <2>1. /\ s \in BlacklistRequest /\ (s.pc = "idle" => s.origin = "crm")
        /\ IF x.origin = "crm" THEN s.pc = "add_push" /\ s.origin = "crm" ELSE s.pc = "idle"
    BY <1>1, BlacklistGoto, IdleBlacklist
  <2>2. bReq' = [bReq EXCEPT ![p] = s]
    BY DEF B!AddCommit, B!AfterCommit, B!Tells
  <2> HIDE DEF s
  <2> QED
    BY <2>1, <2>2
<1> HIDE DEF x
<1>4. /\ entries \in Seq({"in_force", "lifted"})
      /\ entries' = Append(entries, "in_force")
      /\ banner' = TRUE /\ flags' = flags \cup {"blacklisted"}
      /\ UNCHANGED website /\ UNCHANGED pushes /\ UNCHANGED missed /\ UNCHANGED width
  BY DEF BlacklistInv, B!AddCommit
<1>5. /\ entries' \in Seq({"in_force", "lifted"}) /\ Len(entries) \in Nat
      /\ DOMAIN entries' = 1 .. Len(entries) + 1 /\ DOMAIN entries = 1 .. Len(entries)
      /\ entries'[Len(entries) + 1] = "in_force"
      /\ \A e \in DOMAIN entries : entries'[e] = entries[e]
  BY <1>4
<1>6. ASSUME width = 1
      PROVE  RegisterAgrees' /\ Stands(r)' /\ (r.pc = "idle" => WebsiteShows')
  <2>1. B!InForce = {} /\ NonePushed /\ (x.origin = "website" => website)
    BY <1>1, <1>6 DEF x, BlacklistInv, Stands
  <2>2. B!InForce' = {Len(entries) + 1}
    <3>1. Len(entries) + 1 \in DOMAIN entries'
      BY <1>5
    <3>2. \A e \in DOMAIN entries' : entries'[e] = "in_force" => e = Len(entries) + 1
      BY <1>5, <2>1 DEF B!InForce
    <3> QED
      BY <1>5, <3>1, <3>2 DEF B!InForce
  <2>3. NonePushed'
    BY <1>4, <2>1 DEF NonePushed
  <2>4. RegisterAgrees'
    BY <1>4, <2>2, <2>3 DEF RegisterAgrees, NonePushed
  <2>5. x.origin \in {"crm", "website"}
    BY <1>1 DEF BlacklistRequest
  <2>6. r.pc = "idle" => website'
    BY <1>2, <1>4, <2>1, <2>5
  <2> QED
    BY <1>2, <1>4, <2>2, <2>3, <2>4, <2>6 DEF Stands, WebsiteShows
<1>7. bReq[p].pc # "idle"
  BY <1>1 DEF x
<1>8. banner' \in BOOLEAN /\ website' \in BOOLEAN /\ (banner' <=> "blacklisted" \in flags')
      /\ pushes' \in [{"add", "lift"} -> Nat]
  BY <1>4 DEF BlacklistInv
<1> QED
  BY <1>2, <1>4, <1>5, <1>6, <1>7, <1>8, BlacklistStep

\* A push leaves.
LEMMA BlacklistPush ==
  ASSUME BlacklistInv, NEW action \in {"add", "lift"}, B!Pushed(action)
  PROVE  /\ pushes' \in [{"add", "lift"} -> Nat] /\ pushes'[action] > 0
         /\ NonePushed => \A other \in {"add", "lift"} \ {action} : pushes'[other] = 0
<1>1. pushes \in [{"add", "lift"} -> Nat] /\ pushes[action] \in Nat
  BY DEF BlacklistInv
<1>2. pushes' = [pushes EXCEPT ![action] = pushes[action] + 1]
      /\ pushes[action] + 1 \in Nat /\ pushes[action] + 1 > 0
  BY <1>1 DEF B!Pushed
<1> QED
  BY <1>1, <1>2 DEF NonePushed

\* With the commit done, the website is told of what is in force.
LEMMA BlacklistTells ==
  ASSUME BlacklistInv, NEW p \in Procs, B!AddPush(p) \/ B!LiftPush(p)
  PROVE  BlacklistInv'
<1>1. /\ bReq' = [bReq EXCEPT ![p] = B!Idle] /\ bReq[p].pc \in {"add_push", "lift_push"}
      /\ UNCHANGED <<entries, banner, flags, website, missed, width>>
  BY DEF B!AddPush, B!LiftPush, B!Done, B!At
<1>2. UNCHANGED B!InForce
  BY <1>1 DEF B!InForce
<1>3. Stands(B!Idle)'
  BY IdleBlacklist DEF Stands
<1>4. CASE UNCHANGED pushes /\ B!LiftPush(p) /\ B!InForce # {}
  <2>1. width # 1
    BY <1>4 DEF BlacklistInv, Stands, B!LiftPush, B!At
  <2> QED
    BY <1>1, <1>4, <2>1, IdleBlacklist, BlacklistGoesOn
<1>5. ASSUME NEW action \in {"add", "lift"}, B!Pushed(action),
             bReq[p].pc = "add_push" <=> action = "add"
      PROVE  BlacklistInv'
  <2>1. pushes' \in [{"add", "lift"} -> Nat] /\ pushes'[action] > 0
        /\ (NonePushed => \A other \in {"add", "lift"} \ {action} : pushes'[other] = 0)
    BY <1>5, BlacklistPush
  <2>2. ASSUME width = 1 PROVE RegisterAgrees' /\ WebsiteShows'
    <3>1. NonePushed /\ (B!InForce # {} <=> action = "add") /\ RegisterAgrees
      BY <1>1, <1>5, <2>2 DEF BlacklistInv, Stands
    <3>2. \A other \in {"add", "lift"} \ {action} : ~(pushes'[other] > 0)
      BY <2>1, <3>1
    <3>3. ~NonePushed'
      BY <2>1 DEF NonePushed
    <3> QED
      BY <1>1, <1>2, <3>1, <3>2, <3>3 DEF RegisterAgrees, WebsiteShows
  <2>3. banner' \in BOOLEAN /\ website' \in BOOLEAN /\ (banner' <=> "blacklisted" \in flags')
        /\ entries' \in Seq({"in_force", "lifted"})
    BY <1>1 DEF BlacklistInv
  <2> QED
    BY <1>1, <1>3, <2>1, <2>2, <2>3, IdleBlacklist, BlacklistStep
<1> QED
  BY <1>4, <1>5 DEF B!AddPush, B!LiftPush, B!At

\* A request that is about to commit the lifting of its entry.
LEMMA BlacklistRemains ==
  ASSUME NEW x \in BlacklistRequest, NEW b \in BOOLEAN
  PROVE  LET r == [x EXCEPT !.pc = "lift_commit", !.remaining = b]
         IN /\ r \in BlacklistRequest /\ r.pc = "lift_commit" /\ r.remaining = b
            /\ r.entry = x.entry /\ r.origin = x.origin
BY DEF BlacklistRequest

\* The lifting transaction has updated its row and sees what remains.
LEMMA BlacklistUpdates ==
  ASSUME BlacklistInv, NEW p \in Procs, B!LiftUpdate(p)
  PROVE  BlacklistInv'
<1> DEFINE x == bReq[p]
           b == B!Remaining(x.entry)
           r == [x EXCEPT !.pc = "lift_commit", !.remaining = b]
<1>1. x \in BlacklistRequest /\ x.pc = "lift_update"
  BY DEF BlacklistInv, B!LiftUpdate, B!At
<1>2. b \in BOOLEAN
  BY DEF B!Remaining
<1>3. bReq' = [bReq EXCEPT ![p] = r]
  BY DEF B!LiftUpdate
<1>4. UNCHANGED <<entries, banner, flags, website, pushes, missed, width>>
  BY DEF B!LiftUpdate
<1>5. ASSUME width = 1 PROVE ~b /\ Stands(x)
  BY <1>1, <1>5 DEF BlacklistInv, RegisterAgrees, Stands, B!Remaining
<1> HIDE DEF b
<1>6. r \in BlacklistRequest /\ r.pc = "lift_commit" /\ r.remaining = b
      /\ r.entry = x.entry /\ r.origin = x.origin
  BY <1>1, <1>2, BlacklistRemains
<1>7. bReq[p].pc # "idle"
  BY <1>1
<1> HIDE DEF r, x
<1>8. ASSUME width = 1 PROVE Stands(r)
  BY <1>1, <1>5, <1>6, <1>8 DEF Stands
<1> QED
  BY <1>3, <1>4, <1>6, <1>7, <1>8, BlacklistGoesOn

\* A commit of lift: the entry is lifted, and when none remains banner and flag go.
LEMMA BlacklistCommits ==
  ASSUME BlacklistInv, NEW p \in Procs, B!LiftCommit(p)
  PROVE  BlacklistInv'
<1> DEFINE x == bReq[p]
<1>1. x \in BlacklistRequest /\ x.pc = "lift_commit"
  BY DEF BlacklistInv, B!LiftCommit, B!At
<1>2. PICK r \in BlacklistRequest :
        /\ bReq' = [bReq EXCEPT ![p] = r]
        /\ r.pc = "idle" => r.origin = "crm"
        /\ x.origin = "crm" => r.pc = "lift_push" /\ r.origin = "crm"
        /\ x.origin # "crm" => r.pc = "idle"
  <2> DEFINE s == IF x.origin = "crm" THEN [x EXCEPT !.pc = "lift_push"] ELSE B!Idle
  <2>1. /\ s \in BlacklistRequest /\ (s.pc = "idle" => s.origin = "crm")
        /\ IF x.origin = "crm" THEN s.pc = "lift_push" /\ s.origin = "crm" ELSE s.pc = "idle"
    BY <1>1, BlacklistGoto, IdleBlacklist
  <2>2. bReq' = [bReq EXCEPT ![p] = s]
    BY DEF B!LiftCommit, B!AfterCommit, B!Tells
  <2> HIDE DEF s
  <2> QED
    BY <2>1, <2>2
<1>4. /\ entries \in Seq({"in_force", "lifted"})
      /\ entries' = [entries EXCEPT ![x.entry] = "lifted"]
      /\ UNCHANGED website /\ UNCHANGED pushes /\ UNCHANGED missed /\ UNCHANGED width
  BY DEF BlacklistInv, B!LiftCommit
<1>5. /\ x.remaining => UNCHANGED <<banner, flags>>
      /\ ~x.remaining => banner' = FALSE /\ flags' = flags \ {"blacklisted"}
  BY DEF B!LiftCommit
<1>6. entries' \in Seq({"in_force", "lifted"}) /\ DOMAIN entries' = DOMAIN entries
      /\ \A e \in DOMAIN entries : entries'[e] = IF e = x.entry THEN "lifted" ELSE entries[e]
  <2> HIDE DEF x
  <2>1. entries \in [1 .. Len(entries) -> {"in_force", "lifted"}] /\ Len(entries) \in Nat
        /\ DOMAIN entries = 1 .. Len(entries)
    BY <1>4
  <2>2. DOMAIN entries' = DOMAIN entries
        /\ \A e \in DOMAIN entries : entries'[e] = IF e = x.entry THEN "lifted" ELSE entries[e]
    BY <1>4
  <2>3. entries' \in [1 .. Len(entries) -> {"in_force", "lifted"}]
    BY <1>4, <2>1
  <2>4. entries' \in Seq({"in_force", "lifted"})
    BY <2>1, <2>3, SeqDef
  <2> QED
    BY <2>2, <2>4
<1>7. B!InForce' = B!InForce \ {x.entry}
  BY <1>6 DEF B!InForce
<1>8. ASSUME width = 1
      PROVE  RegisterAgrees' /\ Stands(r)' /\ (r.pc = "idle" => WebsiteShows')
  <2>1. x.entry \in B!InForce /\ NonePushed /\ ~x.remaining
        /\ (x.origin = "website" => ~website) /\ \A e, f \in B!InForce : e = f
    BY <1>1, <1>8 DEF BlacklistInv, Stands, RegisterAgrees
  <2>2. B!InForce' = {}
    BY <1>7, <2>1
  <2>3. NonePushed'
    BY <1>4, <2>1 DEF NonePushed
  <2>4. RegisterAgrees'
    BY <1>5, <2>1, <2>2, <2>3 DEF RegisterAgrees, NonePushed
  <2>5. x.origin \in {"crm", "website"}
    BY <1>1 DEF BlacklistRequest
  <2>6. r.pc = "idle" => ~website'
    BY <1>2, <1>4, <2>1, <2>5
  <2> QED
    BY <1>2, <1>4, <2>2, <2>3, <2>4, <2>6 DEF Stands, WebsiteShows
<1>9. bReq[p].pc # "idle"
  BY <1>1
<1>10. banner' \in BOOLEAN /\ (banner' <=> "blacklisted" \in flags')
  <2>1. CASE x.remaining
    BY <1>5, <2>1 DEF BlacklistInv
  <2>2. CASE ~x.remaining
    BY <1>5, <2>2
  <2> QED
    BY <2>1, <2>2
<1>11. website' \in BOOLEAN /\ pushes' \in [{"add", "lift"} -> Nat]
  BY <1>4 DEF BlacklistInv
<1> QED
  BY <1>2, <1>4, <1>6, <1>8, <1>9, <1>10, <1>11, BlacklistStep

\* The switch on the website.
LEMMA BlacklistSwitch ==
  ASSUME BlacklistInv, NEW p \in Procs, B!WebsiteSwitch(p)
  PROVE  BlacklistInv'
<1>1. PICK block \in BOOLEAN :
        /\ website' = block
        /\ bReq' = [bReq EXCEPT ![p] = [B!Idle EXCEPT
                     !.pc = IF block THEN "site_block" ELSE "site_unblock",
                     !.origin = "website"]]
  BY DEF B!WebsiteSwitch
<1> DEFINE r == [B!Idle EXCEPT !.pc = IF block THEN "site_block" ELSE "site_unblock",
                               !.origin = "website"]
<1>2. /\ r \in BlacklistRequest /\ r.origin = "website"
      /\ r.pc = IF block THEN "site_block" ELSE "site_unblock"
  BY DEF BlacklistRequest, B!Idle
<1>3. bReq' = [bReq EXCEPT ![p] = r]
  BY <1>1
<1> HIDE DEF r
<1>4. UNCHANGED <<entries, banner, flags, pushes, missed, width>> /\ B!Free(p)
  BY DEF B!WebsiteSwitch
<1>5. UNCHANGED B!InForce
  BY <1>4 DEF B!InForce
<1>6. ASSUME width = 1 PROVE RegisterAgrees' /\ Stands(r)'
  <2>1. NonePushed'
    BY <1>4, <1>6, BlacklistAlone DEF NonePushed
  <2>2. RegisterAgrees'
    BY <1>4, <1>5, <1>6 DEF RegisterAgrees, BlacklistInv
  <2> QED
    BY <1>1, <1>2, <2>1, <2>2 DEF Stands
<1>7. r.pc # "idle"
  BY <1>2
<1>8. banner' \in BOOLEAN /\ website' \in BOOLEAN /\ (banner' <=> "blacklisted" \in flags')
      /\ pushes' \in [{"add", "lift"} -> Nat] /\ entries' \in Seq({"in_force", "lifted"})
  BY <1>1, <1>4 DEF BlacklistInv
<1> QED
  BY <1>2, <1>3, <1>4, <1>6, <1>7, <1>8, BlacklistStep

\* A push arrives, or has been tried in vain.
LEMMA BlacklistArrives ==
  ASSUME BlacklistInv, NEW action \in {"add", "lift"},
         B!PushArrives(action) \/ B!PushGivesUp(action)
  PROVE  BlacklistInv'
<1>1. /\ pushes \in [{"add", "lift"} -> Nat] /\ pushes[action] \in Nat /\ pushes[action] > 0
      /\ UNCHANGED entries /\ UNCHANGED banner /\ UNCHANGED flags /\ UNCHANGED bReq
      /\ UNCHANGED width
  BY DEF BlacklistInv, B!PushArrives, B!PushGivesUp
<1>2. pushes[action] - 1 \in Nat
  BY <1>1
<1>3. pushes' \in [{"add", "lift"} -> Nat]
      /\ \A other \in {"add", "lift"} : pushes'[other] > 0 => pushes[other] > 0
  <2>1. CASE UNCHANGED pushes
    BY <1>1, <2>1
  <2>2. CASE pushes' = [pushes EXCEPT ![action] = pushes[action] - 1]
    BY <1>1, <1>2, <2>2
  <2> QED
    BY <2>1, <2>2 DEF B!PushArrives, B!PushGivesUp
<1>4. UNCHANGED B!InForce
  BY <1>1 DEF B!InForce
<1>5. website' \in BOOLEAN
  BY DEF BlacklistInv, B!PushArrives, B!PushGivesUp
<1>6. ASSUME width = 1
      PROVE  RegisterAgrees' /\ (\A p \in Procs : Stands(bReq[p])') /\ WebsiteShows'
  <2>1. ~NonePushed
    BY <1>1 DEF NonePushed
  <2>2. \A p \in Procs : bReq[p].pc = "idle"
    BY <1>6, <2>1 DEF BlacklistInv, Stands
  <2>3. \A p \in Procs : bReq'[p].pc = "idle" /\ bReq'[p].origin = "crm"
    BY <1>1, <2>2 DEF BlacklistInv
  <2>4. RegisterAgrees
    BY <1>6 DEF BlacklistInv
  <2>5. RegisterAgrees'
    BY <1>1, <1>3, <1>4, <2>4 DEF RegisterAgrees
  <2>6. action = "add" <=> B!InForce # {}
    BY <1>1, <2>4 DEF RegisterAgrees
  <2>7. WebsiteShows'
    BY <1>1, <1>4, <2>1, <2>6 DEF WebsiteShows, NonePushed, B!PushArrives, B!PushGivesUp
  <2> QED
    BY <2>3, <2>5, <2>7 DEF Stands
<1> QED
  BY <1>1, <1>3, <1>5, <1>6 DEF BlacklistInv, Alone

\* No step of Desks leaves the invariant of the blacklist.
LEMMA NextBlacklist == BlacklistInv /\ [Next]_vars => BlacklistInv'
<1> SUFFICES ASSUME BlacklistInv, [Next]_vars PROVE BlacklistInv'
  OBVIOUS
<1>1. UNCHANGED width
  BY WidthStays
<1>2. B!Next \/ UNCHANGED B_vars
  BY DEF Next, Only, vars
<1>3. ASSUME UNCHANGED <<entries, banner, website, pushes, missed, bReq>>,
             "blacklisted" \in flags' <=> "blacklisted" \in flags
      PROVE  BlacklistInv'
  <2>1. UNCHANGED B!InForce
    BY <1>3 DEF B!InForce
  <2>2. (RegisterAgrees => RegisterAgrees') /\ (WebsiteShows => WebsiteShows')
    BY <1>3, <2>1 DEF RegisterAgrees, WebsiteShows, NonePushed
  <2>3. \A p \in Procs : Stands(bReq[p]) => Stands(bReq[p])'
    BY <1>3, <2>1 DEF Stands, NonePushed
  <2> QED
    BY <1>1, <1>3, <2>2, <2>3 DEF BlacklistInv, Alone, AllIdle
<1>4. ASSUME NEW p \in Procs, B!Lost(p) PROVE BlacklistInv'
  BY <1>4, IdleBlacklist, BlacklistGoesOn DEF B!Lost, B!Done
<1>5. ASSUME NEW flag, B!SetFlag(flag) \/ B!RemoveFlag(flag) PROVE BlacklistInv'
  BY <1>3, <1>5 DEF B!SetFlag, B!RemoveFlag, B!ByHand
<1>6. CASE B!Next
  BY <1>4, <1>5, <1>6, BlacklistChecks, BlacklistLifts, BlacklistAdds, BlacklistTells,
     BlacklistUpdates, BlacklistCommits, BlacklistSwitch, BlacklistArrives
     DEF B!Next, B!Step
<1>7. CASE UNCHANGED B_vars
  BY <1>3, <1>7 DEF B_vars
<1> QED
  BY <1>2, <1>6, <1>7

\* The banner and the flag never part, and one request at a time they show whether an
\* entry of the blacklist is in force (blacklist.service.ts, add and lift).
THEOREM FlagFollows == Spec => []FlagFollowsRegister
<1>1. BlacklistInv => FlagFollowsRegister
  BY DEF BlacklistInv, RegisterAgrees, FlagFollowsRegister, B!FlagFollowsRegister, B!Quiet
<1> QED
  BY <1>1, InitBlacklist, NextBlacklist, PTL DEF Spec

\* The block on the website agrees with the register.
LEMMA BlacklistHolds == BlacklistInv => B!WebsiteAgrees
BY DEF BlacklistInv, B!WebsiteAgrees, B!Quiet, WebsiteShows, NonePushed, AllIdle

-----------------------------------------------------------------------------
(* Decisions about an application.                                         *)

\* What the moves of staff lead from and to.
MoveStatus ==
  {"new_lead"} \cup {move.from : move \in W!StaffTransitions}
               \cup {move.to : move \in W!StaffTransitions}

DecisionRequest ==
  [pc : {"idle", "tell", "send"}, from : MoveStatus, to : MoveStatus,
   action : {"none", "approve", "validate", "request_info", "reject", "cancel", "reopen"}]

\* The last snapshot under way, or applied, has the stage of the application; and the
\* status of the record is the one an import at work has read.
NewsRuns ==
  /\ news = <<>> => known = site
  /\ news # <<>> => news[Len(news)] = site
  /\ read # "none" => news # <<>> /\ (~excused => status = read)

Agreed == status \in W!Closing <=> site \in W!Decided

\* A request that will tell the website of the status the record has.
WillTell(r) ==
  \/ r.pc = "send"
  \/ /\ r.pc = "tell"
     /\ status \in W!Closing => r.to \in W!Closing
     /\ status \notin W!Closing => r.from \in W!Closing /\ r.to \notin W!Closing

\* With no snapshot under way, the two sides agree or a request will tell.
AgreedOrTold ==
  ~excused /\ news = <<>> /\ site \notin {"draft", "on_hold"}
    => Agreed \/ \E p \in Procs : WillTell(wReq[p])

DecisionsInv ==
  /\ site \in Stages /\ known \in Stages /\ news \in Seq(Stages)
  /\ wReq \in [Procs -> DecisionRequest]
  /\ NewsRuns
  /\ AgreedOrTold

\* A stage is decided exactly when it lands on a status that closes the record.
LEMMA StageLands ==
  ASSUME NEW stage \in W!LegacyStage
  PROVE  W!Target(stage, FALSE) \in W!Closing <=> stage \in W!Decided
<1>1. stage \in {"draft", "submitted", "under_review", "validated", "on_hold", "approved",
                 "payment_received", "certificate_issued", "dispatch_pending", "dispatched",
                 "delivered", "rejected", "cancelled"}
  BY DEF W!LegacyStage, W!LEGACY_STAGE_TO_STATUS
<1>2. CASE stage \in {"rejected", "cancelled"}
  BY <1>2 DEF W!Target, W!HeldForSignOff, W!LEGACY_STAGE_RANK, W!LEGACY_STAGE_TO_STATUS,
              W!Closing, W!Decided
<1>3. CASE stage \notin {"rejected", "cancelled"}
  <2>1. W!LEGACY_STAGE_TO_STATUS[stage] \notin {"rejected", "closed"}
    BY <1>1, <1>3 DEF W!LEGACY_STAGE_TO_STATUS
  <2> QED
    BY <1>3, <2>1 DEF W!Target, W!Closing, W!Decided
<1> QED
  BY <1>2, <1>3

\* A snapshot that does not move a record finds the two sides agreed.
LEMMA StageMoves ==
  ASSUME NEW stage \in W!LegacyStage, NEW s, ~W!Moves(s, stage, FALSE)
  PROVE  s \in W!Closing <=> stage \in W!Decided
<1>1. stage # W!Unstated
  BY DEF W!LegacyStage, W!LEGACY_STAGE_TO_STATUS, W!Unstated
<1>2. CASE s = W!Target(stage, FALSE)
  BY <1>2, StageLands
<1>3. CASE ~W!DecisionInvolved(s, stage)
  BY <1>3 DEF W!DecisionInvolved, W!LEGACY_DECISION_STAGES, W!DecisionStatus, W!Closing,
              W!Decided
<1> QED
  BY <1>1, <1>2, <1>3 DEF W!Moves

\* Of a move that closes or reopens the website is told something, with the application
\* on the other side of a decision there.
LEMMA MoveIsTold ==
  ASSUME DecisionsInv, NEW r \in DecisionRequest, r.pc = "tell", WillTell(r), ~Agreed,
         site \notin {"draft", "on_hold"}
  PROVE  W!ActionForStatusChange(r.from, r.to, site) # "none"
<1>1. site \in {"draft", "submitted", "under_review", "validated", "on_hold", "approved",
                "payment_received", "certificate_issued", "dispatch_pending", "dispatched",
                "delivered", "rejected", "cancelled"}
  BY StagesAssumption DEF DecisionsInv, W!LegacyStage, W!LEGACY_STAGE_TO_STATUS
<1>2. CASE status \in W!Closing
  BY <1>1, <1>2 DEF WillTell, Agreed, W!ActionForStatusChange, W!Closing, W!Decided,
                    W!CANCELLABLE_STAGES, W!REJECTABLE_STAGES
<1>3. CASE status \notin W!Closing
  BY <1>3 DEF WillTell, Agreed, W!ActionForStatusChange, W!Closing, W!Decided
<1> QED
  BY <1>2, <1>3

\* A request that is put back to idle is about nothing.
LEMMA IdleDecision == W!Idle \in DecisionRequest /\ W!Idle.pc = "idle"
BY DEF W!Idle, DecisionRequest, MoveStatus

\* The record stands where the stage of the application lands.
LEMMA InitDecisions == Init => DecisionsInv
<1> SUFFICES ASSUME Init PROVE DecisionsInv
  OBVIOUS
<1>1. /\ site \in Stages /\ news = <<>> /\ known = site /\ read = "none"
      /\ status = W!Target(site, FALSE) /\ wReq = [p \in Procs |-> W!Idle]
  BY DEF Init, W!Init
<1>2. Agreed
  BY <1>1, StageLands, StagesAssumption DEF Agreed
<1>3. wReq \in [Procs -> DecisionRequest]
  BY <1>1, IdleDecision
<1> QED
  BY <1>1, <1>2, <1>3 DEF DecisionsInv, NewsRuns, AgreedOrTold

\* A change on the website, with its snapshot.
LEMMA SiteBecomes ==
  ASSUME DecisionsInv, NEW stage \in Stages, W!Becomes(stage),
         UNCHANGED <<known, status, read, excused>>,
         wReq' \in [Procs -> DecisionRequest]
  PROVE  DecisionsInv'
<1>1. /\ news \in Seq(Stages) /\ news' = Append(news, stage) /\ site' = stage
      /\ known \in Stages
  BY DEF DecisionsInv, W!Becomes
<1>2. /\ news' \in Seq(Stages) /\ Len(news') = Len(news) + 1 /\ Len(news) \in Nat
      /\ news'[Len(news) + 1] = stage /\ news' # <<>>
  BY <1>1
<1>3. NewsRuns'
  BY <1>1, <1>2 DEF DecisionsInv, NewsRuns
<1>4. AgreedOrTold'
  BY <1>2 DEF AgreedOrTold
<1> QED
  BY <1>1, <1>2, <1>3, <1>4 DEF DecisionsInv

\* A request is excused.
LEMMA DecisionExcused ==
  ASSUME DecisionsInv, NEW p \in Procs, W!CommandFails(p) \/ W!Lost(p)
  PROVE  DecisionsInv'
<1>1. excused' /\ UNCHANGED <<site, news, known, status, read>>
      /\ wReq' = [wReq EXCEPT ![p] = W!Idle]
  BY DEF W!CommandFails, W!Lost, W!Done
<1>2. wReq' \in [Procs -> DecisionRequest]
  BY <1>1, IdleDecision DEF DecisionsInv
<1> QED
  BY <1>1, <1>2 DEF DecisionsInv, NewsRuns, AgreedOrTold

\* A request turns into one that tells, or that has nothing to tell.
LEMMA DecisionGoesOn ==
  ASSUME DecisionsInv, NEW p \in Procs, NEW r \in DecisionRequest,
         wReq' = [wReq EXCEPT ![p] = r], UNCHANGED <<site, news, known, status, read, excused>>,
         WillTell(wReq[p]) /\ ~Agreed /\ news = <<>> /\ site \notin {"draft", "on_hold"}
           => r.pc = "send"
  PROVE  DecisionsInv'
<1>1. wReq' \in [Procs -> DecisionRequest] /\ wReq'[p] = r
      /\ \A q \in Procs \ {p} : wReq'[q] = wReq[q]
  BY DEF DecisionsInv
<1>2. ASSUME ~excused', news' = <<>>, site' \notin {"draft", "on_hold"}, ~Agreed'
      PROVE  \E q \in Procs : WillTell(wReq[q])'
  <2>1. PICK q \in Procs : WillTell(wReq[q])
    BY <1>2 DEF DecisionsInv, AgreedOrTold, Agreed
  <2>2. CASE q = p
    <3>1. r.pc = "send"
      BY <1>2, <2>1, <2>2 DEF Agreed
    <3>2. WillTell(wReq[p])'
      BY <1>1, <3>1 DEF WillTell
    <3> QED
      BY <3>2
  <2>3. CASE q # p
    <3>1. WillTell(wReq[q])'
      BY <1>1, <2>1, <2>3 DEF WillTell
    <3> QED
      BY <3>1
  <2> QED
    BY <2>2, <2>3
<1>3. AgreedOrTold'
  BY <1>2 DEF AgreedOrTold
<1> QED
  BY <1>1, <1>3 DEF DecisionsInv, NewsRuns

\* A command that is to be sent.
LEMMA SendingDecision ==
  ASSUME NEW action \in {"approve", "validate", "request_info", "reject", "cancel", "reopen"}
  PROVE  LET r == [W!Idle EXCEPT !.pc = "send", !.action = action]
         IN r \in DecisionRequest /\ r.pc = "send"
BY DEF W!Idle, DecisionRequest, MoveStatus

\* What to tell of a move is worked out.
LEMMA DecisionTold ==
  ASSUME DecisionsInv, NEW p \in Procs, W!Tell(p)
  PROVE  DecisionsInv'
<1> DEFINE x == wReq[p]
           action == W!ActionForStatusChange(x.from, x.to, known)
<1>1. x \in DecisionRequest /\ x.pc = "tell"
      /\ UNCHANGED <<site, news, known, status, read, excused>>
  BY DEF DecisionsInv, W!Tell
<1>2. action \in {"none", "reopen", "cancel", "reject"}
  BY DEF W!ActionForStatusChange
<1>3. ASSUME WillTell(wReq[p]), ~Agreed, news = <<>>, site \notin {"draft", "on_hold"}
      PROVE  action # "none"
  <2>1. known = site
    BY <1>3 DEF DecisionsInv, NewsRuns
  <2> QED
    BY <1>1, <1>3, <2>1, MoveIsTold
<1>4. IF action = "none" THEN W!Done(p) ELSE W!Sends(p, action)
  BY DEF W!Tell
<1> HIDE DEF action
<1>5. CASE action = "none"
  BY <1>1, <1>3, <1>4, <1>5, IdleDecision, DecisionGoesOn DEF W!Done
<1>6. CASE action # "none"
  <2> DEFINE r == [W!Idle EXCEPT !.pc = "send", !.action = action]
  <2>1. r \in DecisionRequest /\ r.pc = "send"
    BY <1>2, <1>6, SendingDecision
  <2>2. wReq' = [wReq EXCEPT ![p] = r]
    BY <1>4, <1>6 DEF W!Sends
  <2> HIDE DEF r
  <2> QED
    BY <1>1, <2>1, <2>2, DecisionGoesOn
<1> QED
  BY <1>5, <1>6

\* The panel sends its command.
LEMMA DecisionRun ==
  ASSUME DecisionsInv, NEW p \in Procs, W!Run(p)
  PROVE  DecisionsInv'
<1>1. PICK action \in W!LegacyActionsFor(status) : W!Sends(p, action)
  BY DEF W!Run
<1>2. action \in {"approve", "validate", "request_info", "reject", "cancel", "reopen"}
  BY DEF W!LegacyActionsFor
<1> DEFINE r == [W!Idle EXCEPT !.pc = "send", !.action = action]
<1>3. r \in DecisionRequest /\ r.pc = "send"
  BY <1>2, SendingDecision
<1>4. wReq' = [wReq EXCEPT ![p] = r] /\ UNCHANGED <<site, news, known, status, read, excused>>
  BY <1>1 DEF W!Sends, W!Run
<1> HIDE DEF r
<1> QED
  BY <1>3, <1>4, DecisionGoesOn

\* Staff move the record, and where that closes or reopens it there is something to tell.
LEMMA DecisionMoved ==
  ASSUME DecisionsInv, NEW p \in Procs, W!StaffMove(p)
  PROVE  DecisionsInv'
<1>1. PICK move \in W!StaffTransitions :
        /\ move.from = status
        /\ status' = move.to
        /\ wReq' = IF {move.from, move.to} \cap W!Closing = {} THEN wReq
                   ELSE [wReq EXCEPT ![p] = [W!Idle EXCEPT !.pc = "tell", !.from = move.from,
                                                           !.to = move.to]]
  BY DEF W!StaffMove
<1>2. /\ UNCHANGED <<site, news, known, read>> /\ wReq[p].pc = "idle"
      /\ excused' = (excused \/ read # "none")
  BY DEF W!StaffMove
<1> DEFINE r == [W!Idle EXCEPT !.pc = "tell", !.from = move.from, !.to = move.to]
<1>3. r \in DecisionRequest /\ r.pc = "tell" /\ r.from = move.from /\ r.to = move.to
  BY DEF W!Idle, DecisionRequest, MoveStatus
<1>4. NewsRuns'
  BY <1>2 DEF DecisionsInv, NewsRuns
<1>5. CASE {move.from, move.to} \cap W!Closing = {}
  <2>1. wReq' = wReq /\ status \notin W!Closing /\ status' \notin W!Closing
    BY <1>1, <1>5
  <2>2. AgreedOrTold'
    BY <1>2, <2>1 DEF DecisionsInv, AgreedOrTold, Agreed, WillTell
  <2> QED
    BY <1>2, <1>4, <2>1, <2>2 DEF DecisionsInv
<1>6. CASE {move.from, move.to} \cap W!Closing # {}
  <2>1. wReq' = [wReq EXCEPT ![p] = r]
    BY <1>1, <1>6
  <2> HIDE DEF r
  <2>2. wReq' \in [Procs -> DecisionRequest] /\ wReq'[p] = r
    BY <1>3, <2>1 DEF DecisionsInv
  <2>3. WillTell(wReq[p])'
    BY <1>1, <1>3, <1>6, <2>2 DEF WillTell
  <2> QED
    BY <1>2, <1>4, <2>2, <2>3 DEF DecisionsInv, AgreedOrTold
<1> QED
  BY <1>5, <1>6

\* An import writes what its snapshot asks of the status it read.
LEMMA DecisionImported ==
  ASSUME DecisionsInv, W!ImportWrite
  PROVE  DecisionsInv'
<1> DEFINE stage == Head(news)
<1>1. /\ read # "none" /\ news # <<>> /\ news \in Seq(Stages)
      /\ known' = stage /\ news' = Tail(news) /\ read' = "none"
      /\ UNCHANGED site /\ UNCHANGED wReq /\ UNCHANGED excused
      /\ site \in Stages /\ wReq \in [Procs -> DecisionRequest]
      /\ news[Len(news)] = site /\ (~excused => status = read)
  BY DEF DecisionsInv, NewsRuns, W!ImportWrite
<1>2. /\ stage \in Stages /\ stage = news[1] /\ Tail(news) \in Seq(Stages)
      /\ Len(news) \in Nat /\ Len(news) > 0 /\ Len(Tail(news)) = Len(news) - 1
      /\ \A i \in 1 .. Len(news) - 1 : Tail(news)[i] = news[i + 1]
  BY <1>1
<1>3. news' = <<>> => Len(news) = 1
  BY <1>1, <1>2
<1>4. news' # <<>> => news'[Len(news')] = site
  <2> SUFFICES ASSUME news' # <<>> PROVE Tail(news)[Len(news) - 1] = news[Len(news)]
    BY <1>1, <1>2
  <2>1. Len(news) # 1
    BY <1>1, <1>2
  <2> QED
    BY <1>2, <2>1
<1>5. ASSUME ~excused, news' = <<>> PROVE Agreed'
  <2>1. stage = site /\ stage \in W!LegacyStage
    BY <1>1, <1>2, <1>3, <1>5, StagesAssumption
  <2>2. CASE W!Moves(read, stage, FALSE)
    BY <1>1, <2>1, <2>2, StageLands DEF Agreed, W!ImportWrite
  <2>3. CASE ~W!Moves(read, stage, FALSE)
    <3>1. status' = read
      BY <1>1, <1>5, <2>3 DEF W!ImportWrite
    <3> QED
      BY <1>1, <2>1, <2>3, <3>1, StageMoves DEF Agreed
  <2> QED
    BY <2>2, <2>3
<1>6. NewsRuns'
  BY <1>1, <1>2, <1>3, <1>4 DEF NewsRuns
<1>7. AgreedOrTold'
  BY <1>1, <1>5 DEF AgreedOrTold
<1> QED
  BY <1>1, <1>2, <1>6, <1>7 DEF DecisionsInv

\* No step of Desks leaves the invariant of the decisions.
LEMMA NextDecisions == DecisionsInv /\ [Next]_vars => DecisionsInv'
<1> SUFFICES ASSUME DecisionsInv, [Next]_vars PROVE DecisionsInv'
  OBVIOUS
<1>1. W!Next \/ UNCHANGED W_vars
  BY DEF Next, Only, vars
<1>2. CASE W!SiteDecides
  BY <1>2, SiteBecomes DEF DecisionsInv, W!SiteDecides
<1>3. CASE W!ImportRead
  BY <1>3 DEF DecisionsInv, NewsRuns, AgreedOrTold, Agreed, WillTell, W!ImportRead
<1>4. ASSUME NEW p \in Procs, W!CommandObeyed(p) PROVE DecisionsInv'
  <2>1. wReq' \in [Procs -> DecisionRequest]
    BY <1>4, IdleDecision DEF DecisionsInv, W!CommandObeyed, W!Done
  <2> QED
    BY <1>4, <2>1, SiteBecomes DEF W!CommandObeyed
<1>5. CASE W!Next
  BY <1>2, <1>3, <1>4, <1>5, DecisionImported, DecisionMoved, DecisionTold, DecisionRun,
     DecisionExcused DEF W!Next, W!Step
<1>6. CASE UNCHANGED W_vars
  BY <1>6 DEF W_vars, DecisionsInv, NewsRuns, AgreedOrTold, Agreed, WillTell
<1> QED
  BY <1>1, <1>5, <1>6

\* With nothing under way the two sides agree.
LEMMA DecisionsHold == DecisionsInv => W!DecisionsAgree
BY DEF DecisionsInv, AgreedOrTold, Agreed, WillTell, W!DecisionsAgree

-----------------------------------------------------------------------------
(* The mirror of the website's certificates.                               *)

Pull ==
  [pc : {"idle", "ask", "store"}, full : BOOLEAN, since : Nat,
   rows : SUBSET (M!Certificates \X Nat)]

\* Where a certificate's row here is not the website's, it is under way or counted lost,
\* or it is among the rows of the pull at work; and so is a row of the pull that is old.
MirrorFollows ==
  /\ \A c \in M!Certificates :
       \/ held[c] = catalogue[c] \/ c \in owed \cup unfetched
       \/ <<c, catalogue[c]>> \in pull.rows
  /\ \A row \in pull.rows :
       row[2] = catalogue[row[1]] \/ row[1] \in owed \cup unfetched

\* Nothing is held that was never catalogued.
OnlyCatalogued ==
  /\ \A c \in M!Certificates : catalogue[c] = 0 => held[c] = 0
  /\ \A row \in pull.rows : catalogue[row[1]] # 0

ImportedInv ==
  /\ catalogue \in [M!Certificates -> Nat] /\ held \in [M!Certificates -> Nat]
  /\ pull \in Pull
  /\ pull.pc # "store" => pull.rows = {}
  /\ pull.full => pull.since = 0
  /\ MirrorFollows
  /\ OnlyCatalogued

\* Certificates that there are have a newest.
LEMMA NewestExists ==
  ASSUME NEW there \in SUBSET M!Certificates, there # {}
  PROVE  \E c \in there : \A d \in there : d <= c
<1> DEFINE T == {MaxCertificates - c : c \in there}
<1>1. \A c \in there : c \in Nat /\ MaxCertificates - c \in Nat
  BY BoundsAssumption DEF M!Certificates
<1>2. T \subseteq Nat /\ T # {}
  BY <1>1
<1> HIDE DEF T
<1>3. PICK x \in T : \A y \in T : ~(<<y, x>> \in OpToRel(<, Nat))
  BY <1>2, NatLessThanWellFounded, WFMin
<1>4. \A y \in T : ~(y < x)
  BY <1>2, <1>3 DEF OpToRel
<1>5. PICK c \in there : x = MaxCertificates - c
  BY DEF T
<1>6. ASSUME NEW d \in there PROVE d <= c
  <2>1. MaxCertificates - d \in T
    BY DEF T
  <2> QED
    BY <1>1, <1>4, <1>5, <2>1, BoundsAssumption
<1> QED
  BY <1>6

\* A pull starts from the newest that is held, or from nothing.
LEMMA LatestIsNumber == M!Latest \in Nat
<1> DEFINE there == {c \in M!Certificates : held[c] # 0}
<1>1. CASE there = {}
  BY <1>1 DEF M!Latest
<1>2. CASE there # {}
  <2>1. \E c \in there : \A d \in there : d <= c
    BY <1>2, NewestExists
  <2>2. (CHOOSE c \in there : \A d \in there : d <= c) \in there
    BY <2>1
  <2>3. M!Latest \in there
    BY <1>2, <2>2 DEF M!Latest
  <2> QED
    BY <2>3 DEF M!Certificates
<1> QED
  BY <1>1, <1>2

\* Nothing is catalogued yet.
LEMMA InitImported == Init => ImportedInv
<1> SUFFICES ASSUME Init PROVE ImportedInv
  OBVIOUS
<1>1. /\ catalogue = [c \in M!Certificates |-> 0] /\ held = [c \in M!Certificates |-> 0]
      /\ pull = M!NoPull
  BY DEF Init, M!Init
<1>2. M!NoPull \in Pull /\ M!NoPull.pc = "idle" /\ M!NoPull.rows = {} /\ ~M!NoPull.full
  BY DEF M!NoPull, Pull
<1> QED
  BY <1>1, <1>2 DEF ImportedInv, MirrorFollows, OnlyCatalogued

\* The website changes a certificate, and owes it.
LEMMA ImportedChange ==
  ASSUME ImportedInv, NEW c \in M!Certificates, M!Change(c)
  PROVE  ImportedInv'
<1>1. catalogue[c] \in Nat /\ catalogue[c] + 1 \in Nat /\ catalogue[c] + 1 # 0
  BY DEF ImportedInv
<1>2. catalogue' = [catalogue EXCEPT ![c] = catalogue[c] + 1] /\ owed' = owed \cup {c}
      /\ UNCHANGED <<held, unfetched, pull>>
  BY DEF M!Change
<1>3. /\ catalogue' \in [M!Certificates -> Nat] /\ catalogue'[c] = catalogue[c] + 1
      /\ \A d \in M!Certificates \ {c} : catalogue'[d] = catalogue[d]
  BY <1>1, <1>2 DEF ImportedInv
<1>4. \A row \in pull.rows : row[1] \in M!Certificates
  BY DEF ImportedInv, Pull
<1>5. MirrorFollows'
  BY <1>2, <1>3, <1>4 DEF ImportedInv, MirrorFollows
<1>6. OnlyCatalogued'
  BY <1>1, <1>2, <1>3, <1>4 DEF ImportedInv, OnlyCatalogued
<1> QED
  BY <1>2, <1>3, <1>5, <1>6 DEF ImportedInv

\* A certificate is stored, or its push is lost.
LEMMA ImportedPush ==
  ASSUME ImportedInv, NEW c \in M!Certificates, M!Push(c) \/ M!PushLost(c)
  PROVE  ImportedInv'
<1>1. UNCHANGED <<catalogue, pull>> /\ owed' = owed \ {c}
  BY DEF M!Push, M!PushLost
<1>2. \A row \in pull.rows : row[1] \in M!Certificates
  BY DEF ImportedInv, Pull
<1>3. CASE M!Push(c)
  <2>1. held' = [held EXCEPT ![c] = catalogue[c]]
    BY <1>3 DEF M!Push, M!Upsert
  <2>2. held' \in [M!Certificates -> Nat] /\ held'[c] = catalogue[c]
        /\ \A d \in M!Certificates \ {c} : held'[d] = held[d]
    BY <2>1 DEF ImportedInv
  <2>3. /\ (\E row \in pull.rows : row[1] = c) => unfetched' = unfetched \cup {c}
        /\ ~(\E row \in pull.rows : row[1] = c) => unfetched' = unfetched \ {c}
    BY <1>3 DEF M!Push
  <2>4. MirrorFollows'
    BY <1>1, <1>2, <2>2, <2>3 DEF ImportedInv, MirrorFollows
  <2>5. OnlyCatalogued'
    BY <1>1, <2>2 DEF ImportedInv, OnlyCatalogued
  <2> QED
    BY <1>1, <2>2, <2>4, <2>5 DEF ImportedInv
<1>4. CASE M!PushLost(c)
  <2>1. UNCHANGED held /\ unfetched' = unfetched \cup {c}
    BY <1>4 DEF M!PushLost
  <2> QED
    BY <1>1, <2>1 DEF ImportedInv, MirrorFollows, OnlyCatalogued
<1> QED
  BY <1>3, <1>4

\* A pull starts.
LEMMA ImportedAsk ==
  ASSUME ImportedInv, M!PullStart
  PROVE  ImportedInv'
<1>1. PICK full \in BOOLEAN :
        pull' = [pc |-> "ask", full |-> full, since |-> M!Since(full), rows |-> {}]
  BY DEF M!PullStart
<1>2. UNCHANGED <<catalogue, held, owed, unfetched>> /\ pull.rows = {}
  BY DEF ImportedInv, M!PullStart, M!Idle
<1>3. M!Since(full) \in Nat /\ (full => M!Since(full) = 0)
  BY LatestIsNumber DEF M!Since
<1>4. pull' \in Pull /\ pull'.rows = {} /\ (pull'.full => pull'.since = 0)
  BY <1>1, <1>3 DEF Pull
<1> QED
  BY <1>2, <1>4 DEF ImportedInv, MirrorFollows, OnlyCatalogued

\* The website answers with what it has, from the date it was asked for.
LEMMA ImportedFetch ==
  ASSUME ImportedInv, M!PullFetch
  PROVE  ImportedInv'
<1> DEFINE later == {c \in M!Certificates : c > pull.since}
<1>1. PICK sent \in {later, later \cup (M!Certificates \cap {pull.since})} :
        pull' = [pull EXCEPT !.pc = "store",
                             !.rows = {<<c, catalogue[c]>> :
                                        c \in {d \in sent : catalogue[d] # 0}}]
  BY DEF M!PullFetch
<1>2. sent \subseteq M!Certificates /\ later \subseteq sent
  OBVIOUS
<1> DEFINE fetched == {<<c, catalogue[c]>> : c \in {d \in sent : catalogue[d] # 0}}
<1>3. fetched \subseteq M!Certificates \X Nat
  BY <1>2 DEF ImportedInv
<1>4. /\ \A row \in fetched : row[1] \in sent /\ row[2] = catalogue[row[1]]
                              /\ catalogue[row[1]] # 0
      /\ \A c \in sent : catalogue[c] # 0 => <<c, catalogue[c]>> \in fetched
  OBVIOUS
<1>5. pull \in Pull /\ pull' = [pull EXCEPT !.pc = "store", !.rows = fetched]
  BY <1>1 DEF ImportedInv
<1> HIDE DEF fetched
<1>6. pull' \in Pull /\ pull'.pc = "store" /\ pull'.rows = fetched
      /\ pull'.full = pull.full /\ pull'.since = pull.since
  BY <1>3, <1>5 DEF Pull
<1>7. UNCHANGED <<catalogue, held, owed>> /\ pull.rows = {}
      /\ (pull.full => unfetched' = {})
      /\ (~pull.full => unfetched' = {c \in unfetched : c <= pull.since})
  BY DEF ImportedInv, M!PullFetch
<1>8. \A c \in M!Certificates : c \notin sent => c <= pull.since /\ ~pull.full
  <2>1. pull.since \in Nat /\ (pull.full => pull.since = 0)
    BY <1>5 DEF Pull, ImportedInv
  <2>2. \A c \in M!Certificates : c \in Nat /\ c > 0
    BY BoundsAssumption DEF M!Certificates
  <2> QED
    BY <1>2, <2>1, <2>2
<1>9. MirrorFollows'
  <2>1. ASSUME NEW c \in M!Certificates
        PROVE  held[c] = catalogue[c] \/ c \in owed \cup unfetched'
               \/ <<c, catalogue[c]>> \in fetched
    <3>1. CASE c \in sent /\ catalogue[c] # 0
      BY <1>4, <3>1
    <3>2. CASE catalogue[c] = 0
      BY <3>2 DEF ImportedInv, OnlyCatalogued
    <3>3. CASE c \notin sent
      <4>1. held[c] = catalogue[c] \/ c \in owed \cup unfetched
        BY <1>7 DEF ImportedInv, MirrorFollows
      <4>2. c \in unfetched => c \in unfetched'
        BY <1>7, <1>8, <3>3
      <4> QED
        BY <4>1, <4>2
    <3> QED
      BY <3>1, <3>2, <3>3
  <2> QED
    BY <1>4, <1>6, <1>7, <2>1 DEF MirrorFollows
<1>10. OnlyCatalogued'
  BY <1>4, <1>6, <1>7 DEF ImportedInv, OnlyCatalogued
<1> QED
  BY <1>6, <1>7, <1>9, <1>10 DEF ImportedInv

\* A row of the pull is stored, or cannot be.
LEMMA ImportedRow ==
  ASSUME ImportedInv, M!PullRow
  PROVE  ImportedInv'
<1>1. PICK row \in pull.rows :
        /\ pull' = [pull EXCEPT !.rows = pull.rows \ {row}]
        /\ \/ held' = [held EXCEPT ![row[1]] = row[2]] /\ UNCHANGED unfetched
           \/ unfetched' = unfetched \cup {row[1]} /\ UNCHANGED held
  BY DEF M!PullRow, M!Upsert
<1>2. UNCHANGED <<catalogue, owed>> /\ pull.pc = "store" /\ pull \in Pull
  BY DEF ImportedInv, M!PullRow
<1>3. row[1] \in M!Certificates /\ row[2] \in Nat /\ row = <<row[1], row[2]>>
  BY <1>2 DEF Pull
<1>4. pull' \in Pull /\ pull'.pc = "store" /\ pull'.rows = pull.rows \ {row}
      /\ pull'.full = pull.full /\ pull'.since = pull.since
  BY <1>1, <1>2 DEF Pull
<1>5. row[2] = catalogue[row[1]] \/ row[1] \in owed \cup unfetched
  BY DEF ImportedInv, MirrorFollows
<1>6. catalogue[row[1]] # 0
  BY DEF ImportedInv, OnlyCatalogued
<1>7. CASE held' = [held EXCEPT ![row[1]] = row[2]] /\ UNCHANGED unfetched
  <2>1. held' \in [M!Certificates -> Nat] /\ held'[row[1]] = row[2]
        /\ \A d \in M!Certificates \ {row[1]} : held'[d] = held[d]
    BY <1>3, <1>7 DEF ImportedInv
  <2>2. \A d \in M!Certificates \ {row[1]} :
          <<d, catalogue[d]>> \in pull.rows => <<d, catalogue[d]>> \in pull'.rows
    BY <1>3, <1>4
  <2>3. MirrorFollows'
    BY <1>2, <1>3, <1>4, <1>5, <1>7, <2>1, <2>2 DEF ImportedInv, MirrorFollows
  <2>4. OnlyCatalogued'
    BY <1>2, <1>4, <1>6, <2>1 DEF ImportedInv, OnlyCatalogued
  <2> QED
    BY <1>2, <1>4, <2>1, <2>3, <2>4 DEF ImportedInv
<1>8. CASE unfetched' = unfetched \cup {row[1]} /\ UNCHANGED held
  <2>1. \A d \in M!Certificates \ {row[1]} :
          <<d, catalogue[d]>> \in pull.rows => <<d, catalogue[d]>> \in pull'.rows
    BY <1>3, <1>4
  <2>2. MirrorFollows'
    BY <1>2, <1>3, <1>4, <1>8, <2>1 DEF ImportedInv, MirrorFollows
  <2>3. OnlyCatalogued'
    BY <1>2, <1>4, <1>8 DEF ImportedInv, OnlyCatalogued
  <2> QED
    BY <1>2, <1>4, <1>8, <2>2, <2>3 DEF ImportedInv
<1> QED
  BY <1>1, <1>7, <1>8

\* A pull ends, and what it has not stored is counted lost.
LEMMA ImportedEnd ==
  ASSUME ImportedInv, M!PullEnd \/ M!PullFails
  PROVE  ImportedInv'
<1>1. M!NoPull \in Pull /\ M!NoPull.pc = "idle" /\ M!NoPull.rows = {} /\ ~M!NoPull.full
  BY DEF M!NoPull, Pull
<1>2. pull' = M!NoPull /\ UNCHANGED <<catalogue, held, owed>>
      /\ unfetched' = unfetched \cup {row[1] : row \in pull.rows}
  BY DEF M!PullEnd, M!PullFails
<1>3. \A c \in M!Certificates : <<c, catalogue[c]>> \in pull.rows => c \in unfetched'
  BY <1>2
<1> QED
  BY <1>1, <1>2, <1>3 DEF ImportedInv, MirrorFollows, OnlyCatalogued

\* No step of Desks leaves the invariant of the mirror.
LEMMA NextImported == ImportedInv /\ [Next]_vars => ImportedInv'
<1> SUFFICES ASSUME ImportedInv, [Next]_vars PROVE ImportedInv'
  OBVIOUS
<1>1. M!Next \/ UNCHANGED M_vars
  BY DEF Next, Only, vars
<1>2. CASE M!Next
  BY <1>2, ImportedChange, ImportedPush, ImportedAsk, ImportedFetch, ImportedRow, ImportedEnd
     DEF M!Next
<1>3. CASE UNCHANGED M_vars
  BY <1>3 DEF M_vars, ImportedInv, MirrorFollows, OnlyCatalogued
<1> QED
  BY <1>1, <1>2, <1>3

\* With no pull at work, a row is the website's, or under way, or counted lost.
LEMMA ImportedHolds == ImportedInv => M!MirrorAgrees
BY DEF ImportedInv, MirrorFollows, M!MirrorAgrees, M!Idle

-----------------------------------------------------------------------------

\* With nothing under way and no push given up: the block on the website agrees with the
\* blacklist, one request at a time; an application is decided there exactly when its
\* record is closed here, however moves and snapshots race; and the mirror of its
\* certificates holds what the website has (blacklist.service.ts,
\* legacy-actions.service.ts, legacy-push.service.ts, imported-records.service.ts).
THEOREM WebsiteAgreesHere == Spec => []WebsiteAgrees
<1> DEFINE Inv == BlacklistInv /\ DecisionsInv /\ ImportedInv
<1>1. Init => Inv
  BY InitBlacklist, InitDecisions, InitImported
<1>2. Inv /\ [Next]_vars => Inv'
  BY NextBlacklist, NextDecisions, NextImported
<1>3. Inv => WebsiteAgrees
  BY BlacklistHolds, DecisionsHold, ImportedHolds DEF WebsiteAgrees
<1> QED
  BY <1>1, <1>2, <1>3, PTL DEF Spec

-----------------------------------------------------------------------------
(* The types of these components: their rows, and what requests hold, fit  *)
(* the bounds.                                                             *)

\* The dispatches are within the bound, and the record shows a status one may have.
DispatchesFit ==
  Len(rows) <= MaxRows /\ shown \in DeliveryStatus /\ strayed \in BOOLEAN

\* There are no dispatches yet.
LEMMA InitDispatchesFit == Init => DispatchesFit
<1> SUFFICES ASSUME Init PROVE DispatchesFit
  OBVIOUS
<1>1. rows = <<>> /\ shown = "not_dispatched" /\ strayed = FALSE
  BY DEF Init, D!Init
<1>2. Len(rows) = 0 /\ MaxRows \in Nat
  BY <1>1, BoundsAssumption
<1>3. Len(rows) <= MaxRows
  BY <1>2
<1>4. shown \in DeliveryStatus /\ strayed \in BOOLEAN
  BY <1>1 DEF DeliveryStatus
<1> QED
  BY <1>3, <1>4 DEF DispatchesFit

\* No step leaves the bounds of the dispatches.
LEMMA DispatchesKeepFit ==
  ASSUME DispatchesInv, DispatchesFit, [Next]_vars
  PROVE  DispatchesFit'
<1>1. rows \in Seq(Dispatch) /\ Len(rows) \in Nat /\ DOMAIN rows = 1 .. Len(rows)
      /\ MaxRows \in Nat
      /\ \A p \in Procs : dReq[p].status \in DeliveryStatus
  <2>1. \A p \in Procs : dReq[p] \in DispatchRequest
    BY DEF DispatchesInv
  <2> QED
    BY <2>1, BoundsAssumption DEF DispatchesInv, DispatchRequest
<1>2. D!Next \/ UNCHANGED <<rows, shown, strayed>>
  BY DEF Next, Only, vars, D_vars
<1>3. CASE UNCHANGED <<rows, shown, strayed>>
  BY <1>3 DEF DispatchesFit
<1>4. ASSUME NEW p \in Procs, D!SaveRead(p) \/ D!ImportRead(p) \/ D!Lost(p)
      PROVE  DispatchesFit'
  BY <1>3, <1>4 DEF D!SaveRead, D!ImportRead, D!Lost
<1>5. ASSUME NEW p \in Procs, D!SaveUpdate(p) PROVE DispatchesFit'
  BY <1>1, <1>5 DEF D!SaveUpdate, DispatchesFit
<1>6. ASSUME NEW p \in Procs, D!SaveInsert(p) PROVE DispatchesFit'
  <2> DEFINE Before == [r \in DOMAIN rows |-> IF r = dReq[p].row
                                              THEN [rows[r] EXCEPT !.current = FALSE]
                                              ELSE rows[r]]
  <2>1. rows' = Append(Before, D!New(dReq[p].status)) /\ Len(rows) < MaxRows
        /\ shown' = dReq[p].status /\ UNCHANGED strayed
    BY <1>6 DEF D!SaveInsert
  <2>2. Len(Before) = Len(rows)
    BY <1>1
  <2>3. Before \in Seq(Dispatch)
    <3>1. \A r \in DOMAIN rows : rows[r] \in Dispatch
      BY <1>1
    <3>2. \A r \in DOMAIN rows : Before[r] \in Dispatch
      BY <3>1 DEF Dispatch
    <3>3. Before \in [1 .. Len(rows) -> Dispatch]
      BY <1>1, <3>2
    <3> QED
      BY <1>1, <3>3, SeqDef
  <2> HIDE DEF Before
  <2>4. Len(rows') = Len(rows) + 1
    BY <2>1, <2>2, <2>3
  <2> QED
    BY <1>1, <2>1, <2>4 DEF DispatchesFit
<1>7. ASSUME NEW p \in Procs, D!ImportUpdate(p) PROVE DispatchesFit'
  <2>1. Len(rows') = Len(rows) /\ shown' \in DeliveryStatus
    BY <1>1, <1>7 DEF D!ImportUpdate
  <2>2. strayed' \in BOOLEAN
    BY <1>7, Zenon DEF D!ImportUpdate
  <2> QED
    BY <2>1, <2>2 DEF DispatchesFit
<1>8. ASSUME NEW p \in Procs, D!ImportInsert(p) PROVE DispatchesFit'
  BY <1>1, <1>8 DEF D!ImportInsert, DispatchesFit
<1> QED
  BY <1>2, <1>3, <1>4, <1>5, <1>6, <1>7, <1>8 DEF D!Next, D!Step

\* The types of the dispatches.
LEMMA DispatchesTyped == DispatchesInv /\ DispatchesFit => D!TypeOK
<1> SUFFICES ASSUME DispatchesInv, DispatchesFit PROVE D!TypeOK
  OBVIOUS
<1>1. DeliveryStatus \subseteq D!DELIVERY_STATUS
  BY StatusesAssumption DEF DeliveryStatus, D!LEGACY_DELIVERY_MAP, D!DELIVERY_STATUS
<1>2. ASSUME NEW r \in DOMAIN rows
      PROVE  rows[r] \in [status : D!DELIVERY_STATUS, current : BOOLEAN]
  <2>1. rows[r] \in Dispatch
    BY DEF DispatchesInv
  <2> QED
    BY <1>1, <2>1 DEF Dispatch
<1>3. shown \in D!DELIVERY_STATUS /\ strayed \in BOOLEAN
  BY <1>1 DEF DispatchesFit
<1>4. \A p \in Procs : dReq[p].row \in 0 .. MaxRows /\ dReq[p].status \in D!DELIVERY_STATUS
  <2> SUFFICES ASSUME NEW p \in Procs
               PROVE  dReq[p].row \in 0 .. MaxRows /\ dReq[p].status \in D!DELIVERY_STATUS
    OBVIOUS
  <2>1. dReq[p] \in DispatchRequest /\ dReq[p].row \in 0 .. Len(rows) /\ Len(rows) \in Nat
    BY DEF DispatchesInv
  <2> QED
    BY <1>1, <2>1, BoundsAssumption DEF DispatchRequest, DispatchesFit
<1> QED
  BY <1>2, <1>3, <1>4 DEF D!TypeOK

\* The entries are within the bound, and a request is about one of them or none.
BlacklistFits ==
  /\ Len(entries) <= MaxEntries /\ flags \subseteq B!FLAG /\ missed \in BOOLEAN
  /\ \A p \in Procs : bReq[p].entry \in 0 .. Len(entries)

\* Nobody is blacklisted yet.
LEMMA InitBlacklistFits == Init => BlacklistFits
<1> SUFFICES ASSUME Init PROVE BlacklistFits
  OBVIOUS
<1>1. entries = <<>> /\ flags = {} /\ missed = FALSE /\ bReq = [p \in Procs |-> B!Idle]
  BY DEF Init, B!Init
<1>2. Len(entries) = 0 /\ MaxEntries \in Nat /\ \A p \in Procs : bReq[p].entry = 0
  BY <1>1, BoundsAssumption DEF B!Idle
<1>3. Len(entries) <= MaxEntries /\ \A p \in Procs : bReq[p].entry \in 0 .. Len(entries)
  BY <1>2
<1>4. flags \subseteq B!FLAG /\ missed \in BOOLEAN
  BY <1>1
<1> QED
  BY <1>3, <1>4 DEF BlacklistFits

\* No step leaves the bounds of the blacklist.
LEMMA BlacklistKeepsFit ==
  ASSUME BlacklistInv, BlacklistFits, [Next]_vars
  PROVE  BlacklistFits'
<1>1. /\ entries \in Seq({"in_force", "lifted"}) /\ Len(entries) \in Nat
      /\ DOMAIN entries = 1 .. Len(entries)
      /\ bReq \in [Procs -> BlacklistRequest] /\ MaxEntries \in Nat
  BY BoundsAssumption DEF BlacklistInv
<1>2. B!Next \/ UNCHANGED <<entries, flags, missed, bReq>>
  BY DEF Next, Only, vars, B_vars
<1>3. CASE UNCHANGED <<entries, flags, missed, bReq>>
  BY <1>3 DEF BlacklistFits
<1>4. ASSUME NEW p \in Procs, UNCHANGED <<entries, flags, missed>>,
             NEW r, bReq' = [bReq EXCEPT ![p] = r],
             r.entry = bReq[p].entry \/ r.entry \in 0 .. Len(entries)
      PROVE  BlacklistFits'
  BY <1>1, <1>4 DEF BlacklistFits
<1>5. ASSUME NEW p \in Procs, UNCHANGED <<entries, flags, missed>>, NEW pc, B!Goto(p, pc)
      PROVE  BlacklistFits'
  <2> DEFINE r == [bReq[p] EXCEPT !.pc = pc]
  <2>1. r.entry = bReq[p].entry /\ bReq' = [bReq EXCEPT ![p] = r]
    BY <1>1, <1>5 DEF B!Goto, BlacklistRequest
  <2> HIDE DEF r
  <2> QED
    BY <1>4, <1>5, <2>1
<1>6. ASSUME NEW p \in Procs, UNCHANGED <<entries, flags, missed>>, B!Done(p)
      PROVE  BlacklistFits'
  <2>1. B!Idle.entry \in 0 .. Len(entries)
    BY <1>1 DEF B!Idle
  <2> QED
    BY <1>4, <1>6, <2>1 DEF B!Done
<1>7. ASSUME NEW p \in Procs,
             B!AddCheck(p) \/ B!AddRefused(p) \/ B!AddPush(p) \/ B!LiftPush(p)
               \/ B!SiteBlock(p) \/ B!Lost(p)
      PROVE  BlacklistFits'
  BY <1>5, <1>6, <1>7
  DEF B!AddCheck, B!AddRefused, B!AddPush, B!LiftPush, B!SiteBlock, B!Lost
<1>8. ASSUME NEW p \in Procs, B!LiftRead(p) \/ B!LiftUpdate(p) \/ B!WebsiteSwitch(p)
               \/ B!SiteUnblock(p)
      PROVE  BlacklistFits'
  <2>1. UNCHANGED <<entries, flags, missed>>
    BY <1>8 DEF B!LiftRead, B!LiftUpdate, B!WebsiteSwitch, B!SiteUnblock
  <2>2. \A q \in Procs \ {p} : bReq'[q] = bReq[q]
    BY <1>1, <1>8
    DEF B!LiftRead, B!LiftUpdate, B!WebsiteSwitch, B!SiteUnblock, B!Done
  <2>3. bReq'[p].entry \in 0 .. Len(entries)
    <3>1. B!InForce \subseteq 0 .. Len(entries) /\ 0 \in 0 .. Len(entries)
      BY <1>1 DEF B!InForce
    <3>2. bReq[p] \in BlacklistRequest /\ bReq[p].entry \in 0 .. Len(entries)
      BY <1>1 DEF BlacklistFits
    <3>3. CASE B!LiftRead(p)
      BY <1>1, <3>1, <3>3 DEF B!LiftRead, B!Idle
    <3>4. CASE B!LiftUpdate(p)
      BY <1>1, <3>2, <3>4 DEF B!LiftUpdate, BlacklistRequest
    <3>5. CASE B!WebsiteSwitch(p)
      BY <1>1, <3>1, <3>5 DEF B!WebsiteSwitch, B!Idle
    <3>6. CASE B!SiteUnblock(p)
      BY <1>1, <3>1, <3>2, <3>6 DEF B!SiteUnblock, B!Done, B!Idle, BlacklistRequest
    <3> QED
      BY <1>8, <3>3, <3>4, <3>5, <3>6
  <2> QED
    BY <2>1, <2>2, <2>3 DEF BlacklistFits
<1>9. ASSUME NEW p \in Procs, B!AddCommit(p) \/ B!LiftCommit(p) PROVE BlacklistFits'
  <2>1. /\ Len(entries') <= MaxEntries /\ Len(entries') \in Nat
        /\ Len(entries) <= Len(entries')
    BY <1>1, <1>9 DEF B!AddCommit, B!LiftCommit, BlacklistFits
  <2>2. flags' \subseteq B!FLAG
    BY <1>9 DEF B!AddCommit, B!LiftCommit, BlacklistFits, B!FLAG
  <2>3. UNCHANGED missed
    BY <1>9 DEF B!AddCommit, B!LiftCommit
  <2>4. \E pc : B!AfterCommit(p, pc)
    BY <1>9 DEF B!AddCommit, B!LiftCommit
  <2>5. \A q \in Procs : bReq'[q].entry \in 0 .. Len(entries)
    BY <1>1, <2>4 DEF B!AfterCommit, B!Idle, BlacklistRequest, BlacklistFits
  <2> QED
    BY <1>1, <2>1, <2>2, <2>3, <2>5 DEF BlacklistFits
<1>10. ASSUME NEW action, B!PushArrives(action) \/ B!PushGivesUp(action)
       PROVE  BlacklistFits'
  BY <1>10 DEF B!PushArrives, B!PushGivesUp, BlacklistFits
<1>11. ASSUME NEW flag \in B!FLAG, B!SetFlag(flag) \/ B!RemoveFlag(flag)
       PROVE  BlacklistFits'
  BY <1>11 DEF B!SetFlag, B!RemoveFlag, BlacklistFits
<1> QED
  BY <1>2, <1>3, <1>7, <1>8, <1>9, <1>10, <1>11 DEF B!Next, B!Step

\* The types of the blacklist.
LEMMA BlacklistTyped == BlacklistInv /\ BlacklistFits => B!TypeOK
<1> SUFFICES ASSUME BlacklistInv, BlacklistFits PROVE B!TypeOK
  OBVIOUS
<1>1. /\ entries \in Seq({"in_force", "lifted"}) /\ Len(entries) \in Nat
      /\ \A p \in Procs : bReq[p] \in BlacklistRequest
  BY DEF BlacklistInv
<1>2. \A p \in Procs : bReq[p].entry \in 0 .. MaxEntries
                        /\ bReq[p].origin \in {"crm", "website"}
  BY <1>1, BoundsAssumption DEF BlacklistFits, BlacklistRequest
<1> QED
  BY <1>1, <1>2 DEF BlacklistInv, BlacklistFits, B!TypeOK

\* The record is at a status there is, also as an import has read it.
DecisionsFit ==
  /\ status \in W!RecordStatus /\ read \in W!RecordStatus \cup {"none"}
  /\ changes \in 0 .. MaxChanges /\ excused \in BOOLEAN

\* A stage lands on a status of the CRM.
LEMMA StageLandsOnStatus ==
  ASSUME NEW stage \in W!LegacyStage
  PROVE  W!Target(stage, FALSE) \in W!RecordStatus
<1>1. stage \in {"draft", "submitted", "under_review", "validated", "on_hold", "approved",
                 "payment_received", "certificate_issued", "dispatch_pending", "dispatched",
                 "delivered", "rejected", "cancelled"}
  BY DEF W!LegacyStage, W!LEGACY_STAGE_TO_STATUS
<1>2. W!LEGACY_STAGE_TO_STATUS[stage] \in W!RecordStatus
  BY <1>1 DEF W!LEGACY_STAGE_TO_STATUS, W!RecordStatus
<1>3. "certificate_pending" \in W!RecordStatus
  BY DEF W!RecordStatus
<1> QED
  BY <1>2, <1>3 DEF W!Target

\* So does a declared move.
LEMMA MovesToStatus == \A move \in W!StaffTransitions : move.to \in W!RecordStatus
<1>1. \A move \in W!IntakeTransitions : move.to \in W!RecordStatus
  BY DEF W!IntakeTransitions, W!Open, W!Guarded, W!RecordStatus
<1>2. \A move \in W!FeeTransitions : move.to \in W!RecordStatus
  BY DEF W!FeeTransitions, W!Open, W!Guarded, W!RecordStatus
<1>3. \A move \in W!FulfilmentTransitions : move.to \in W!RecordStatus
  BY DEF W!FulfilmentTransitions, W!Open, W!Guarded, W!RecordStatus
<1>4. \A move \in W!ReopeningTransitions : move.to \in W!RecordStatus
  BY DEF W!ReopeningTransitions, W!Reopen, W!RecordStatus
<1> QED
  BY <1>1, <1>2, <1>3, <1>4 DEF W!StaffTransitions, W!STATUS_TRANSITIONS

\* The website has made no change yet.
LEMMA InitDecisionsFit == Init => DecisionsFit
<1> SUFFICES ASSUME Init PROVE DecisionsFit
  OBVIOUS
<1>1. site \in Stages /\ status = W!Target(site, FALSE) /\ read = "none" /\ excused = FALSE
      /\ changes = 0
  BY DEF Init, W!Init
<1>2. status \in W!RecordStatus
  BY <1>1, StagesAssumption, StageLandsOnStatus
<1>3. changes \in 0 .. MaxChanges
  BY <1>1, BoundsAssumption
<1> QED
  BY <1>1, <1>2, <1>3 DEF DecisionsFit

\* No step leaves the statuses, nor the bound on changes.
LEMMA DecisionsKeepFit ==
  ASSUME DecisionsInv, DecisionsFit, [Next]_vars
  PROVE  DecisionsFit'
<1>1. MaxChanges \in Nat /\ changes \in Nat
  BY BoundsAssumption DEF DecisionsFit
<1>2. W!Next \/ UNCHANGED <<status, read, changes, excused>>
  BY DEF Next, Only, vars, W_vars
<1>3. CASE UNCHANGED <<status, read, changes, excused>>
  BY <1>3 DEF DecisionsFit
<1>4. ASSUME NEW stage, W!Becomes(stage), UNCHANGED <<status, read, excused>>
      PROVE  DecisionsFit'
  BY <1>1, <1>4 DEF W!Becomes, DecisionsFit
<1>5. CASE W!SiteDecides
  BY <1>4, <1>5 DEF W!SiteDecides
<1>6. ASSUME NEW p \in Procs, W!CommandObeyed(p) PROVE DecisionsFit'
  BY <1>4, <1>6 DEF W!CommandObeyed
<1>7. ASSUME NEW p \in Procs, W!StaffMove(p) PROVE DecisionsFit'
  <2>1. status' \in W!RecordStatus
    BY <1>7, MovesToStatus DEF W!StaffMove
  <2>2. excused' = (excused \/ read # "none") /\ UNCHANGED <<read, changes>>
    BY <1>7 DEF W!StaffMove
  <2>3. excused' \in BOOLEAN
    BY <2>2, Zenon
  <2> QED
    BY <2>1, <2>2, <2>3 DEF DecisionsFit
<1>8. CASE W!ImportRead
  BY <1>8 DEF W!ImportRead, DecisionsFit
<1>9. CASE W!ImportWrite
  <2>1. Head(news) \in W!LegacyStage
    <3>1. news \in Seq(Stages) /\ news # <<>>
      BY <1>9 DEF W!ImportWrite, DecisionsInv, NewsRuns
    <3>2. Head(news) \in Stages
      BY <3>1
    <3> QED
      BY <3>2, StagesAssumption
  <2>2. status' \in W!RecordStatus
    BY <1>9, <2>1, StageLandsOnStatus DEF W!ImportWrite, DecisionsFit
  <2> QED
    BY <1>9, <2>2 DEF W!ImportWrite, DecisionsFit
<1>10. ASSUME NEW p \in Procs, W!CommandFails(p) \/ W!Lost(p) PROVE DecisionsFit'
  BY <1>10 DEF W!CommandFails, W!Lost, DecisionsFit
<1>11. ASSUME NEW p \in Procs, W!Tell(p) \/ W!Run(p) PROVE DecisionsFit'
  BY <1>3, <1>11 DEF W!Tell, W!Run
<1> QED
  BY <1>2, <1>3, <1>5, <1>6, <1>7, <1>8, <1>9, <1>10, <1>11 DEF W!Next, W!Step

\* The types of the decisions.
LEMMA DecisionsTyped == DecisionsInv /\ DecisionsFit => W!TypeOK
<1> SUFFICES ASSUME DecisionsInv, DecisionsFit PROVE W!TypeOK
  OBVIOUS
<1>1. news \in Seq(Stages)
  BY DEF DecisionsInv
<1>2. \A i \in DOMAIN news : news[i] \in Stages
  BY <1>1
<1> QED
  BY <1>2 DEF DecisionsInv, DecisionsFit, W!TypeOK

\* States are edits there may have been, and what is under way or was missed is a
\* certificate.
ImportedFits ==
  /\ \A c \in M!Certificates : catalogue[c] \in M!States /\ held[c] \in M!States
  /\ owed \subseteq M!Certificates /\ unfetched \subseteq M!Certificates
  /\ pull.since \in 0 .. MaxCertificates
  /\ \A row \in pull.rows : row[2] \in M!States

\* Nothing is catalogued yet.
LEMMA InitImportedFits == Init => ImportedFits
<1> SUFFICES ASSUME Init PROVE ImportedFits
  OBVIOUS
<1>1. /\ catalogue = [c \in M!Certificates |-> 0] /\ held = [c \in M!Certificates |-> 0]
      /\ owed = {} /\ unfetched = {} /\ pull = M!NoPull
  BY DEF Init, M!Init
<1>2. 0 \in M!States /\ 0 \in 0 .. MaxCertificates
  BY BoundsAssumption DEF M!States
<1> QED
  BY <1>1, <1>2 DEF ImportedFits, M!NoPull

\* A pull starts from a certificate, or from nothing.
LEMMA LatestFits == M!Latest \in 0 .. MaxCertificates
<1> DEFINE there == {c \in M!Certificates : held[c] # 0}
<1>1. CASE there = {}
  BY <1>1, BoundsAssumption DEF M!Latest
<1>2. CASE there # {}
  <2>1. \E c \in there : \A d \in there : d <= c
    BY <1>2, NewestExists
  <2>2. (CHOOSE c \in there : \A d \in there : d <= c) \in there
    BY <2>1
  <2>3. M!Latest \in there
    BY <1>2, <2>2 DEF M!Latest
  <2> QED
    BY <2>3, BoundsAssumption DEF M!Certificates
<1> QED
  BY <1>1, <1>2

\* No step leaves the bounds of the mirror.
LEMMA ImportedKeepsFit ==
  ASSUME ImportedInv, ImportedFits, [Next]_vars
  PROVE  ImportedFits'
<1>1. /\ catalogue \in [M!Certificates -> Nat] /\ held \in [M!Certificates -> Nat]
      /\ MaxEdits \in Nat /\ MaxCertificates \in Nat
      /\ \A row \in pull.rows : row[1] \in M!Certificates
      /\ pull \in Pull
  BY BoundsAssumption DEF ImportedInv, Pull
<1>2. M!Next \/ UNCHANGED <<catalogue, held, owed, unfetched, pull>>
  BY DEF Next, Only, vars, M_vars
<1>3. CASE UNCHANGED <<catalogue, held, owed, unfetched, pull>>
  BY <1>3 DEF ImportedFits
<1>4. ASSUME NEW c \in M!Certificates, M!Change(c) PROVE ImportedFits'
  BY <1>1, <1>4 DEF M!Change, ImportedFits, M!States
<1>5. ASSUME NEW c \in M!Certificates, M!Push(c) \/ M!PushLost(c) PROVE ImportedFits'
  BY <1>1, <1>5 DEF M!Push, M!PushLost, M!Upsert, ImportedFits
<1>6. CASE M!PullStart
  <2>1. PICK full \in BOOLEAN :
          pull' = [pc |-> "ask", full |-> full, since |-> M!Since(full), rows |-> {}]
    BY <1>6 DEF M!PullStart
  <2>2. M!Since(full) \in 0 .. MaxCertificates
    BY <1>1, LatestFits DEF M!Since
  <2> QED
    BY <1>6, <2>1, <2>2 DEF M!PullStart, ImportedFits
<1>7. CASE M!PullFetch
  <2>1. PICK sent \in SUBSET M!Certificates :
          pull' = [pull EXCEPT !.pc = "store",
                               !.rows = {<<c, catalogue[c]>> :
                                          c \in {d \in sent : catalogue[d] # 0}}]
    BY <1>7 DEF M!PullFetch
  <2> DEFINE fetched == {<<c, catalogue[c]>> : c \in {d \in sent : catalogue[d] # 0}}
  <2>2. \A row \in fetched : row[2] \in M!States
    BY DEF ImportedFits
  <2>3. pull' = [pull EXCEPT !.pc = "store", !.rows = fetched]
    BY <2>1
  <2> HIDE DEF fetched
  <2>4. pull'.rows = fetched /\ pull'.since = pull.since
    BY <1>1, <2>3 DEF Pull
  <2> QED
    BY <1>7, <2>2, <2>4 DEF M!PullFetch, ImportedFits
<1>8. CASE M!PullRow
  <2>1. PICK row \in pull.rows :
          /\ pull' = [pull EXCEPT !.rows = pull.rows \ {row}]
          /\ \/ M!Upsert(row[1], row[2]) /\ UNCHANGED unfetched
             \/ unfetched' = unfetched \cup {row[1]} /\ UNCHANGED held
          /\ UNCHANGED <<catalogue, owed>>
    BY <1>8 DEF M!PullRow
  <2>2. pull'.rows \subseteq pull.rows /\ pull'.since = pull.since
    BY <1>1, <2>1 DEF Pull
  <2>3. row[1] \in M!Certificates /\ row[2] \in M!States
    BY <1>1 DEF ImportedFits
  <2>4. \A c \in M!Certificates : held'[c] \in M!States
    BY <1>1, <2>1, <2>3 DEF M!Upsert, ImportedFits
  <2>5. unfetched' \subseteq M!Certificates
    BY <2>1, <2>3 DEF ImportedFits
  <2> QED
    BY <2>1, <2>2, <2>4, <2>5 DEF ImportedFits
<1>9. CASE M!PullEnd \/ M!PullFails
  <2>1. M!NoPull.rows = {} /\ M!NoPull.since \in 0 .. MaxCertificates
    BY <1>1 DEF M!NoPull
  <2>2. pull' = M!NoPull /\ UNCHANGED <<catalogue, held, owed>>
        /\ unfetched' \subseteq unfetched \cup {row[1] : row \in pull.rows}
    BY <1>9 DEF M!PullEnd, M!PullFails
  <2> QED
    BY <1>1, <2>1, <2>2 DEF ImportedFits
<1> QED
  BY <1>2, <1>3, <1>4, <1>5, <1>6, <1>7, <1>8, <1>9 DEF M!Next

\* The types of the mirror.
LEMMA ImportedTyped == ImportedInv /\ ImportedFits => M!TypeOK
<1> SUFFICES ASSUME ImportedInv, ImportedFits PROVE M!TypeOK
  OBVIOUS
<1>1. \A row \in pull.rows : row[1] \in M!Certificates
  BY DEF ImportedInv, Pull
<1>2. catalogue \in [M!Certificates -> M!States] /\ held \in [M!Certificates -> M!States]
  BY DEF ImportedInv, ImportedFits
<1> QED
  BY <1>1, <1>2 DEF ImportedFits, M!TypeOK

-----------------------------------------------------------------------------
(* Every component.                                                        *)

\* What the components share.
DeskTypes == desk \in Components /\ width \in Nat

\* A component is at work, one request at a time or as many as there are.
LEMMA InitDesk == Init => DeskTypes
<1> SUFFICES ASSUME Init PROVE DeskTypes
  OBVIOUS
<1>1. desk \in Components /\ width \in {1, S!Cardinality(Procs)}
  BY DEF Init, S!Init
<1>2. S!Cardinality(Procs) = Cardinality(Procs)
  BY DEF S!Cardinality, Cardinality
<1>3. Cardinality(Procs) \in Nat
  BY ProcsAssumption, FS_CardinalityType
<1> QED
  BY <1>1, <1>2, <1>3 DEF DeskTypes

\* It stays at work, and so does the number of requests.
LEMMA NextDesk == DeskTypes /\ [Next]_vars => DeskTypes'
<1> SUFFICES ASSUME DeskTypes, [Next]_vars PROVE DeskTypes'
  OBVIOUS
<1>1. UNCHANGED desk
  BY DEF Next, Only, vars
<1> QED
  BY <1>1, WidthStays DEF DeskTypes

RegistersInv ==
  InvoicesInv /\ SlipsInv /\ LeaveInv /\ VaultInv /\ LeadsInv /\ IntakeInv
SignInInv  == SessionsInv /\ GateInv /\ ClientInv
WebsiteInv == DispatchesInv /\ BlacklistInv /\ DecisionsInv /\ ImportedInv

AllFit ==
  /\ LeaveFits /\ confirmed \subseteq Uploads /\ LeadsFit /\ IntakeFits
  /\ SessionsFit /\ GateFits /\ ClientExcuses
  /\ DispatchesFit /\ BlacklistFits /\ DecisionsFit /\ ImportedFits

\* In every state of every component: each row, and what each request holds, is what the
\* code stores there and within the bounds (the tables of the CRM, and the requests).
THEOREM TypeCorrect == Spec => []TypeOK
<1> DEFINE Inv == DeskTypes /\ RegistersInv /\ SignInInv /\ WebsiteInv /\ AllFit
<1>1. Init => Inv
  <2>1. Init => RegistersInv
    BY InitInvoices, InitSlips, InitLeave, InitVault, InitLeads, InitIntake DEF RegistersInv
  <2>2. Init => SignInInv /\ WebsiteInv
    BY InitSessions, InitGate, InitClient, InitDispatches, InitBlacklist, InitDecisions,
       InitImported DEF SignInInv, WebsiteInv
  <2>3. Init => AllFit
    BY InitLeaveFits, InitVaultFits, InitLeadsFit, InitIntakeFits, InitSessionsFit,
       InitGateFits, InitClientExcuses, InitDispatchesFit, InitBlacklistFits,
       InitDecisionsFit, InitImportedFits DEF AllFit
  <2> QED
    BY <2>1, <2>2, <2>3, InitDesk
<1>2. Inv /\ [Next]_vars => Inv'
  <2> SUFFICES ASSUME Inv, [Next]_vars PROVE Inv'
    OBVIOUS
  <2>1. RegistersInv'
    BY NextInvoices, NextSlips, NextLeave, NextVault, NextLeads, NextIntake DEF RegistersInv
  <2>2. SignInInv' /\ WebsiteInv'
    BY NextSessions, NextGate, NextClient, NextDispatches, NextBlacklist, NextDecisions,
       NextImported DEF SignInInv, WebsiteInv
  <2>3. AllFit'
    BY LeaveKeepsFit, VaultKeepsFit, LeadsKeepFit, IntakeKeepsFit, SessionsKeepFit,
       GateKeepsFit, ClientKeepsExcuses, DispatchesKeepFit, BlacklistKeepsFit,
       DecisionsKeepFit, ImportedKeepsFit DEF AllFit, RegistersInv, SignInInv, WebsiteInv
  <2> QED
    BY <2>1, <2>2, <2>3, NextDesk
<1>3. Inv => TypeOK
  BY NumbersTyped, LeaveTyped, VaultTyped, LeadsTyped, IntakeTyped, SessionsTyped, GateTyped,
     ClientTyped, DispatchesTyped, BlacklistTyped, DecisionsTyped, ImportedTyped
  DEF DeskTypes, RegistersInv, SignInInv, WebsiteInv, AllFit, TypeOK
<1> QED
  BY <1>1, <1>2, <1>3, PTL DEF Spec
=============================================================================
