----------------------------- MODULE Dispatches -----------------------------
(***************************************************************************)
(* The dispatches of one record: a form staff save, and the courier row    *)
(* the website's import mirrors, each of which reads the current row first *)
(* and then writes it and the delivery status the record shows.            *)
(*                                                                         *)
(* Those two writes and the COMMIT are one step: the row of the dispatch,  *)
(* or the unique index for an insert, stays locked from the first to the   *)
(* last.  Two requests that wait for each other are told by PostgreSQL,    *)
(* and one of them is lost.                                                *)
(***************************************************************************)
EXTENDS Integers, Sequences

CONSTANTS
  Procs,     \* requests that can be in flight at once
  Statuses,  \* the delivery statuses a form may carry
  MaxRows    \* bound on the dispatches ever made

VARIABLES
  rows,     \* the dispatches rows: delivery status, and whether current
  shown,    \* records.delivery_status
  req,      \* what each request has read and has still to do
  strayed   \* history: an import wrote to a row a re-send had superseded

vars == <<rows, shown, req, strayed>>

-----------------------------------------------------------------------------

DELIVERY_STATUS ==
  {"not_dispatched", "packed", "dispatched", "in_transit", "out_for_delivery",
   "delivered", "returned", "lost"}

\* What the website's four statuses become.
LEGACY_DELIVERY_MAP_Unmapped == {"pending", "preparing", "dispatched", "delivered"}
LEGACY_DELIVERY_MAP          == {"not_dispatched", "packed", "dispatched", "delivered"}

Current == {r \in DOMAIN rows : rows[r].current}

\* The current row as a request finds it, 0 when there is none.
Found == IF Current = {} THEN 0 ELSE CHOOSE r \in Current : TRUE

Idle == [pc |-> "idle", row |-> 0, resend |-> FALSE, status |-> "not_dispatched"]

Init ==
  /\ rows = <<>>
  /\ shown = "not_dispatched"
  /\ req = [p \in Procs |-> Idle]
  /\ strayed = FALSE

At(p, pc) == req[p].pc = pc
Done(p)   == req' = [req EXCEPT ![p] = Idle]

New(status) == [status |-> status, current |-> TRUE]

\* dispatches_current_uq, once row r is out of the way.
NoOther_Unasked(r) == TRUE
NoOther(r)         == Current \subseteq {r}

-----------------------------------------------------------------------------
(* upsertDispatch                                                          *)

\* A parcel that came back is history: what is sent again is a new row.
SaveRead(p) ==
  /\ At(p, "idle")
  /\ \E status \in Statuses :
       req' = [req EXCEPT ![p] =
                 [pc |-> "save", row |-> Found, status |-> status,
                  resend |-> Found # 0 /\ rows[Found].status = "returned"]]
  /\ UNCHANGED <<rows, shown, strayed>>

\* The form's values, isCurrent among them, so that the index is asked again.
SaveUpdate(p) ==
  /\ At(p, "save")
  /\ req[p].row # 0 /\ ~req[p].resend /\ NoOther(req[p].row)
  /\ rows' = [rows EXCEPT ![req[p].row] = New(req[p].status)]
  /\ shown' = req[p].status
  /\ Done(p)
  /\ UNCHANGED strayed

SaveInsert(p) ==
  /\ At(p, "save")
  /\ req[p].row = 0 \/ req[p].resend
  /\ NoOther(req[p].row)
  /\ Len(rows) < MaxRows
  /\ rows' = Append([r \in DOMAIN rows |-> IF r = req[p].row
                                           THEN [rows[r] EXCEPT !.current = FALSE]
                                           ELSE rows[r]],
                    New(req[p].status))
  /\ shown' = req[p].status
  /\ Done(p)
  /\ UNCHANGED strayed

-----------------------------------------------------------------------------
(* applyDispatch                                                           *)

\* The row has its status already and its tracking number too: nothing to do.
ImportRead(p) ==
  /\ At(p, "idle")
  /\ \E status \in LEGACY_DELIVERY_MAP :
       req' = [req EXCEPT ![p] = [pc |-> "import", row |-> Found, status |-> status,
                                  resend |-> FALSE]]
  /\ UNCHANGED <<rows, shown, strayed>>

\* By the id that was read: the row is not asked whether it is still current.
ImportUpdate(p) ==
  /\ At(p, "import")
  /\ req[p].row # 0
  /\ rows' = [rows EXCEPT ![req[p].row].status = req[p].status]
  /\ shown' = req[p].status
  /\ strayed' = (strayed \/ ~rows[req[p].row].current)
  /\ Done(p)

ImportInsert(p) ==
  /\ At(p, "import")
  /\ req[p].row = 0 /\ NoOther(0)
  /\ Len(rows) < MaxRows
  /\ rows' = Append(rows, New(req[p].status))
  /\ shown' = req[p].status
  /\ Done(p)
  /\ UNCHANGED strayed

\* The unique index refuses, PostgreSQL ends a deadlock, or the process dies.
Lost(p) ==
  /\ ~At(p, "idle")
  /\ Done(p)
  /\ UNCHANGED <<rows, shown, strayed>>

-----------------------------------------------------------------------------

Step(p) ==
  \/ SaveRead(p) \/ SaveUpdate(p) \/ SaveInsert(p)
  \/ ImportRead(p) \/ ImportUpdate(p) \/ ImportInsert(p)
  \/ Lost(p)

Next == \E p \in Procs : Step(p)

Spec == Init /\ [][Next]_vars

-----------------------------------------------------------------------------

\* The type of every variable.
TypeOK ==
  /\ \A r \in DOMAIN rows : rows[r] \in [status : DELIVERY_STATUS, current : BOOLEAN]
  /\ shown \in DELIVERY_STATUS /\ strayed \in BOOLEAN
  /\ \A p \in Procs : req[p].row \in 0 .. MaxRows /\ req[p].status \in DELIVERY_STATUS

\* The list shows the status of the one dispatch that is current, however forms and
\* imports interleave, until an import has written to a row superseded meanwhile.
RecordShowsCurrent ==
  ~strayed =>
    IF rows = <<>> THEN shown = "not_dispatched"
    ELSE \E r \in DOMAIN rows : Current = {r} /\ shown = rows[r].status
=============================================================================
