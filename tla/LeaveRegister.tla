--------------------------- MODULE LeaveRegister ----------------------------
(***************************************************************************)
(* The leave of one employee and the register of days: a request is filed  *)
(* when no live one is in its way, decided once, and written into the      *)
(* register day by day when it is approved.                                *)
(***************************************************************************)
EXTENDS Integers, Sequences, FiniteSets

CONSTANTS
  Procs,    \* requests that can be in flight at once
  LastDay,  \* the days are 1 .. LastDay
  MaxLeave  \* bound on the leave requests ever filed

VARIABLES
  leave,     \* the employee_leave_requests rows
  register,  \* the employee_attendance row of each day
  req,       \* what each request has read and has still to do
  width      \* how many requests are in flight at most: one, or all there are

vars == <<leave, register, req, width>>

-----------------------------------------------------------------------------

Days == 1 .. LastDay

Idle == [pc |-> "idle", from |-> 1, to |-> 1, leave |-> 0, status |-> "pending"]

Init ==
  /\ leave = <<>>
  /\ register = [day \in Days |-> "unmarked"]
  /\ req = [p \in Procs |-> Idle]
  /\ width \in {1, Cardinality(Procs)}

Free(p) ==
  /\ req[p].pc = "idle"
  /\ Cardinality({q \in Procs : req[q].pc # "idle"}) < width

At(p, pc) == req[p].pc = pc
Done(p)   == req' = [req EXCEPT ![p] = Idle]

Live == {l \in DOMAIN leave : leave[l].status \in {"pending", "approved"}}

-----------------------------------------------------------------------------

\* Two spans share a day; both ends belong to a span.
Overlaps(l, from, to) == leave[l].from <= to /\ leave[l].to >= from

ApplyCheck(p) ==
  /\ Free(p)
  /\ \E from \in Days : \E to \in from .. LastDay :
       /\ \A l \in Live : ~Overlaps(l, from, to)
       /\ req' = [req EXCEPT ![p] = [Idle EXCEPT !.pc = "apply", !.from = from, !.to = to]]
  /\ UNCHANGED <<leave, register, width>>

ApplyInsert(p) ==
  /\ At(p, "apply")
  /\ Len(leave) < MaxLeave
  /\ leave' = Append(leave, [from |-> req[p].from, to |-> req[p].to, status |-> "pending"])
  /\ Done(p)
  /\ UNCHANGED <<register, width>>

\* Only a request that is pending is decided.
DecideRead(p) ==
  /\ Free(p)
  /\ \E l \in DOMAIN leave, status \in {"approved", "rejected", "cancelled"} :
       /\ leave[l].status = "pending"
       /\ req' = [req EXCEPT ![p] = [Idle EXCEPT !.pc = "decide", !.leave = l,
                                                 !.status = status]]
  /\ UNCHANGED <<leave, register, width>>

\* The days an approval writes: those of the span that nobody has marked yet.
Granted_LastDayOff(l) == {d \in leave[l].from .. leave[l].to - 1 : register[d] = "unmarked"}
Granted(l)            == {d \in leave[l].from .. leave[l].to : register[d] = "unmarked"}

\* One transaction: the decision, and the days where it is an approval.
DecideCommit(p) ==
  /\ At(p, "decide")
  /\ leave' = [leave EXCEPT ![req[p].leave].status = req[p].status]
  /\ register' = IF req[p].status = "approved"
                 THEN [d \in Days |-> IF d \in Granted(req[p].leave) THEN "on_leave"
                                      ELSE register[d]]
                 ELSE register
  /\ Done(p)
  /\ UNCHANGED width

\* A day has one answer, corrected as often as anybody likes.
MarkDay ==
  /\ \E day \in Days, status \in {"present", "on_leave"} :
       register' = [register EXCEPT ![day] = status]
  /\ UNCHANGED <<leave, req, width>>

\* The process dies.
Lost(p) ==
  /\ req[p].pc # "idle" /\ width # 1
  /\ Done(p)
  /\ UNCHANGED <<leave, register, width>>

-----------------------------------------------------------------------------

Step(p) == ApplyCheck(p) \/ ApplyInsert(p) \/ DecideRead(p) \/ DecideCommit(p) \/ Lost(p)

Next == MarkDay \/ \E p \in Procs : Step(p)

Spec == Init /\ [][Next]_vars

-----------------------------------------------------------------------------

\* The type of every variable.
TypeOK ==
  /\ \A l \in DOMAIN leave :
       leave[l] \in [from : Days, to : Days,
                     status : {"pending", "approved", "rejected", "cancelled"}]
  /\ register \in [Days -> {"unmarked", "present", "on_leave"}]
  /\ \A p \in Procs : req[p].leave \in 0 .. MaxLeave

\* Every day of a leave that was approved is in the register; and one request at a time,
\* no two requests that are pending or approved share a day.
LeaveIsOnRegister ==
  /\ \A l \in DOMAIN leave :
       leave[l].status = "approved" =>
         \A d \in leave[l].from .. leave[l].to : register[d] # "unmarked"
  /\ width = 1 =>
       \A k, l \in Live : k # l => leave[k].from > leave[l].to \/ leave[l].from > leave[k].to
=============================================================================
