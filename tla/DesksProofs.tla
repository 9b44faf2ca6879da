---------------------------- MODULE DesksProofs -----------------------------
(***************************************************************************)
(* For any number of requests, and any bounds on the rows: the numbers of  *)
(* invoices and payslips run on, approved leave is on the register, the    *)
(* count on a record is of the files in its vault, a number has one        *)
(* applicant, and a profile counts its records and is seen with them.      *)
(***************************************************************************)
EXTENDS Desks, FiniteSetTheorems, SequenceTheorems, TLAPS

-----------------------------------------------------------------------------
(* Whose turn it is.                                                       *)

\* How many requests may be in flight is chosen at the start, and stays.
LEMMA WidthStays ==
  ASSUME [Next]_vars
  PROVE  UNCHANGED width
<1>1. CASE S!Next
  BY <1>1 DEF S!Next, S!Step, S!Login, S!LoginIssue, S!RefreshRead, S!RefreshUser,
     S!RefreshIssue, S!RefreshLink, S!LogoutMark, S!LogoutDeny, S!ForceLogout, S!SetActive,
     S!EndSelect, S!EndMark, S!EndDeny, S!EndBump, S!DenyFails, S!Lost
<1>2. CASE G!Next
  BY <1>2 DEF G!Next, G!Step, G!LoginRead, G!LoginMiss, G!LoginClear, G!RequestVoid,
     G!RequestInsert, G!ResetRead, G!ResetCommit, G!Lost, G!LockExpires
<1>3. CASE B!Next
  BY <1>3 DEF B!Next, B!Step, B!AddCheck, B!AddRefused, B!AddCommit, B!AddPush, B!LiftRead,
     B!LiftUpdate, B!LiftCommit, B!LiftPush, B!WebsiteSwitch, B!SiteBlock, B!SiteUnblock,
     B!Lost, B!PushArrives, B!PushGivesUp, B!SetFlag, B!RemoveFlag
<1>4. CASE I!Next
  BY <1>4 DEF I!Next, I!Look, I!Number, I!Commit, I!Lost
<1>5. CASE L!Next
  BY <1>5 DEF L!Next, L!Step, L!CreateCheck, L!CreateInsert, L!EditRead, L!CallRead,
     L!StatusWrite, L!Remove, L!ConvertRead, L!ConvertCreate, L!ConvertLink, L!Lost,
     L!NumberMoves
<1>6. CASE R!Next
  BY <1>6 DEF R!Next, R!Step, R!ApplyCheck, R!ApplyInsert, R!DecideRead, R!DecideCommit,
     R!Lost, R!MarkDay
<1>7. CASE P!Next
  BY <1>7 DEF P!Next, P!SlipCancel, P!SlipCheck, P!SlipCount, P!SlipIssue, P!Lost
<1>8. CASE V!Next
  BY <1>8 DEF V!Next, V!Step, V!ConfirmCheck, V!ConfirmCommit, V!ProofCheck, V!ProofCommit,
     V!CopyCheck, V!CopyInsert, V!CopyCount, V!Lost
<1>9. CASE N!Next
  BY <1>9 DEF N!Next, N!Step, N!Create, N!AddCheck, N!AddInsert, N!EditNumber,
     N!ImportLookUp, N!ImportInsert, N!KnownLookUp, N!ReviveRecord, N!ReviveApplicant,
     N!Mirror, N!ResetRead, N!ResetCommit, N!Lost
<1> QED
  BY <1>1, <1>2, <1>3, <1>4, <1>5, <1>6, <1>7, <1>8, <1>9 DEF Next, vars

-----------------------------------------------------------------------------
(* One request at a time.                                                  *)

\* Of the requests r, one at most is under way.
Alone(r) == \A p, q \in Procs : r[p].pc # "idle" /\ r[q].pc # "idle" => p = q

\* Of the requests r, none is under way.
AllIdle(r) == \A p \in Procs : r[p].pc = "idle"

\* Where one request at a time is let in, it is let in when none is under way.
LEMMA FreeIsAlone ==
  ASSUME NEW busy \in SUBSET Procs, Cardinality(busy) < width, width = 1
  PROVE  busy = {}
<1>1. IsFiniteSet(busy)
  BY ProcsAssumption, FS_Subset
<1>2. Cardinality(busy) = 0
  BY <1>1, FS_CardinalityType
<1> QED
  BY <1>1, <1>2, FS_EmptySet

\* A set of which no two members differ has one member at most.
LEMMA AtMostOne ==
  ASSUME NEW T, \A x, y \in T : x = y
  PROVE  Cardinality(T) <= 1
<1>1. CASE T = {}
  BY <1>1, FS_EmptySet
<1>2. CASE T # {}
  <2>1. PICK x : T = {x}
    BY <1>2
  <2> QED
    <3>1. Cardinality({x}) = 1
      BY FS_Singleton
    <3> QED
      BY <2>1, <3>1
<1> QED
  BY <1>1, <1>2

-----------------------------------------------------------------------------
(* Invoices.                                                               *)

InvoiceRequest ==
  [pc : {"idle", "number", "commit"}, payment : SUBSET Payments, number : Nat]

\* The counter is the number of rows, and one request at most holds its lock, with the
\* next number.
CounterHolds ==
  /\ counter = Len(invoices)
  /\ \A i \in DOMAIN invoices : invoices[i].number = i
  /\ \A p \in Procs : iReq[p].pc = "commit" => iReq[p].number = counter + 1
  /\ \A p, q \in Procs : iReq[p].pc = "commit" /\ iReq[q].pc = "commit" => p = q

\* One at a time, the payment a request is about has no invoice yet, and none has two.
OneInvoiceEach ==
  /\ Alone(iReq)
  /\ \A p \in Procs : iReq[p].pc # "idle" =>
       \A i \in DOMAIN invoices : invoices[i].payment \notin iReq[p].payment
  /\ \A p \in Procs : \A x, y \in iReq[p].payment : x = y
  /\ \A i, j \in DOMAIN invoices : invoices[i].payment = invoices[j].payment => i = j

InvoicesInv ==
  /\ invoices \in Seq([payment : Payments, number : Nat])
  /\ iReq \in [Procs -> InvoiceRequest]
  /\ CounterHolds
  /\ width = 1 => OneInvoiceEach

\* One at a time, a request begins when none is under way.
LEMMA InvoicesFree ==
  ASSUME NEW p, I!Free(p), width = 1
  PROVE  AllIdle(iReq)
<1> DEFINE busy == {q \in Procs : iReq[q].pc # "idle"}
<1>1. I!Cardinality(busy) = Cardinality(busy)
  BY DEF I!Cardinality, Cardinality
<1>2. I!Cardinality(busy) < width
  BY DEF I!Free
<1>3. busy = {}
  BY <1>1, <1>2, FreeIsAlone
<1> QED
  BY <1>3 DEF AllIdle

\* There are no invoices yet.
LEMMA InitInvoices == Init => InvoicesInv
<1> SUFFICES ASSUME Init PROVE InvoicesInv
  OBVIOUS
<1>1. invoices = <<>> /\ counter = 0 /\ iReq = [p \in Procs |-> I!Idle]
  BY DEF Init, I!Init
<1>2. I!Idle \in InvoiceRequest /\ I!Idle.pc = "idle" /\ I!Idle.payment = {}
  BY DEF I!Idle, InvoiceRequest
<1>3. \A p \in Procs : iReq[p].pc = "idle" /\ iReq[p].payment = {}
  BY <1>1, <1>2
<1> QED
  BY <1>1, <1>2, <1>3 DEF InvoicesInv, CounterHolds, OneInvoiceEach, Alone

\* A look-up finds a payment without an invoice.
LEMMA LookInvoices ==
  ASSUME InvoicesInv, NEW p \in Procs, I!Look(p)
  PROVE  InvoicesInv'
<1>1. PICK payment \in Payments :
        /\ I!InvoicesOf(payment) = {}
        /\ iReq' = [iReq EXCEPT ![p] = [I!Idle EXCEPT !.pc = "number", !.payment = {payment}]]
  BY DEF I!Look
<1> DEFINE r == [I!Idle EXCEPT !.pc = "number", !.payment = {payment}]
<1>2. r \in InvoiceRequest /\ r.pc = "number" /\ r.payment = {payment}
  BY DEF InvoiceRequest, I!Idle
<1>3. iReq' = [iReq EXCEPT ![p] = r]
  BY <1>1
<1> HIDE DEF r
<1>4. \A i \in DOMAIN invoices : invoices[i].payment # payment
  BY <1>1 DEF I!InvoicesOf
<1>5. UNCHANGED <<invoices, counter, width>>
  BY DEF I!Look
<1>6. iReq' \in [Procs -> InvoiceRequest] /\ iReq'[p] = r
      /\ \A q \in Procs \ {p} : iReq'[q] = iReq[q]
  BY <1>2, <1>3 DEF InvoicesInv
<1>7. CounterHolds'
  BY <1>2, <1>5, <1>6 DEF InvoicesInv, CounterHolds
<1>8. ASSUME width = 1 PROVE OneInvoiceEach'
  <2>1. AllIdle(iReq)
    BY <1>8, InvoicesFree DEF I!Look
  <2>2. Alone(iReq') /\ \A q \in Procs \ {p} : iReq'[q].pc = "idle"
    BY <1>6, <2>1 DEF AllIdle, Alone
  <2> QED
    BY <1>2, <1>4, <1>5, <1>6, <1>8, <2>2 DEF InvoicesInv, OneInvoiceEach, Alone
<1> QED
  BY <1>5, <1>6, <1>7, <1>8 DEF InvoicesInv

\* A request that is given a number is a request.
LEMMA Numbered ==
  ASSUME NEW x \in InvoiceRequest, NEW n \in Nat
  PROVE  [x EXCEPT !.pc = "commit", !.number = n] \in InvoiceRequest
BY DEF InvoiceRequest

\* The allocation takes the lock of the counter.
LEMMA NumberInvoices ==
  ASSUME InvoicesInv, NEW p \in Procs, I!Number(p)
  PROVE  InvoicesInv'
<1> DEFINE r == [iReq[p] EXCEPT !.pc = "commit", !.number = counter + 1]
<1>1. iReq[p] \in InvoiceRequest /\ counter \in Nat
  BY DEF InvoicesInv, CounterHolds
<1>2. r \in InvoiceRequest /\ r.pc = "commit" /\ r.number = counter + 1
      /\ r.payment = iReq[p].payment
  <2>1. r.pc = "commit" /\ r.number = counter + 1 /\ r.payment = iReq[p].payment
    BY <1>1 DEF InvoiceRequest
  <2>2. r \in InvoiceRequest
    BY <1>1, counter + 1 \in Nat, Numbered
  <2> QED
    BY <2>1, <2>2
<1>3. iReq' = [iReq EXCEPT ![p] = r] /\ UNCHANGED <<invoices, counter, width>>
      /\ iReq[p].pc = "number" /\ \A q \in Procs : iReq[q].pc # "commit"
  BY DEF I!Number, I!At, InvoicesInv
<1> HIDE DEF r
<1>4. iReq' \in [Procs -> InvoiceRequest] /\ iReq'[p] = r
      /\ \A q \in Procs \ {p} : iReq'[q] = iReq[q]
  BY <1>2, <1>3 DEF InvoicesInv
<1>5. CounterHolds'
  BY <1>2, <1>3, <1>4 DEF InvoicesInv, CounterHolds
<1>6. ASSUME width = 1 PROVE OneInvoiceEach'
  BY <1>2, <1>3, <1>4, <1>6 DEF InvoicesInv, OneInvoiceEach, Alone
<1> QED
  BY <1>3, <1>4, <1>5, <1>6 DEF InvoicesInv

\* The commit writes the row with the number, and releases the lock.
LEMMA CommitInvoices ==
  ASSUME InvoicesInv, NEW p \in Procs, I!Commit(p)
  PROVE  InvoicesInv'
<1>1. PICK payment \in iReq[p].payment :
        invoices' = Append(invoices, [payment |-> payment, number |-> iReq[p].number])
  BY DEF I!Commit
<1>2. iReq[p] \in InvoiceRequest /\ iReq[p].pc = "commit"
      /\ invoices \in Seq([payment : Payments, number : Nat])
  BY DEF InvoicesInv, I!Commit, I!At
<1> DEFINE row == [payment |-> payment, number |-> iReq[p].number]
<1>3. row \in [payment : Payments, number : Nat] /\ row.number = Len(invoices) + 1
      /\ row.payment = payment
  BY <1>1, <1>2 DEF InvoiceRequest, InvoicesInv, CounterHolds
<1> HIDE DEF row
<1>4. invoices' = Append(invoices, row)
  BY <1>1 DEF row
<1>5. /\ invoices' \in Seq([payment : Payments, number : Nat])
      /\ Len(invoices') = Len(invoices) + 1
      /\ DOMAIN invoices' = 1 .. Len(invoices) + 1
      /\ DOMAIN invoices = 1 .. Len(invoices) /\ Len(invoices) \in Nat
      /\ invoices'[Len(invoices) + 1] = row
      /\ \A i \in DOMAIN invoices : invoices'[i] = invoices[i]
  BY <1>2, <1>3, <1>4
<1>6. counter' = Len(invoices') /\ UNCHANGED width
  BY <1>2, <1>5 DEF InvoicesInv, CounterHolds, I!Commit
<1>7. iReq' = [iReq EXCEPT ![p] = I!Idle]
  BY DEF I!Commit
<1>8. I!Idle \in InvoiceRequest /\ I!Idle.pc = "idle" /\ I!Idle.payment = {}
  BY DEF I!Idle, InvoiceRequest
<1>9. iReq' \in [Procs -> InvoiceRequest] /\ iReq'[p] = I!Idle
      /\ \A q \in Procs \ {p} : iReq'[q] = iReq[q]
  BY <1>7, <1>8 DEF InvoicesInv
<1>10. CounterHolds'
  <2>1. CounterHolds
    BY DEF InvoicesInv
  <2>2. \A i \in DOMAIN invoices' : invoices'[i].number = i
    BY <1>3, <1>5, <2>1 DEF CounterHolds
  <2>3. \A q \in Procs : iReq'[q].pc # "commit"
    BY <1>2, <1>8, <1>9, <2>1 DEF CounterHolds
  <2> QED
    BY <1>6, <2>2, <2>3 DEF CounterHolds
<1>11. ASSUME width = 1 PROVE OneInvoiceEach'
  <2>1. OneInvoiceEach
    BY <1>11 DEF InvoicesInv
  <2>2. \A q \in Procs : iReq'[q].pc = "idle" \/ iReq'[q].payment = {}
    BY <1>2, <1>8, <1>9, <2>1 DEF OneInvoiceEach, Alone
  <2>3. \A i \in DOMAIN invoices : invoices[i].payment # payment
    BY <1>2, <2>1 DEF OneInvoiceEach
  <2>4. \A i, j \in DOMAIN invoices' : invoices'[i].payment = invoices'[j].payment => i = j
    BY <1>3, <1>5, <2>1, <2>3 DEF OneInvoiceEach
  <2> QED
    BY <1>2, <1>8, <1>9, <2>1, <2>2, <2>4 DEF OneInvoiceEach, Alone
<1> QED
  BY <1>5, <1>6, <1>9, <1>10, <1>11 DEF InvoicesInv

\* A request that is lost leaves the counter as it was.
LEMMA LostInvoices ==
  ASSUME InvoicesInv, NEW p \in Procs, I!Lost(p)
  PROVE  InvoicesInv'
<1>1. I!Idle \in InvoiceRequest /\ I!Idle.pc = "idle" /\ I!Idle.payment = {}
  BY DEF I!Idle, InvoiceRequest
<1>2. iReq' = [iReq EXCEPT ![p] = I!Idle] /\ UNCHANGED <<invoices, counter, width>>
  BY DEF I!Lost
<1>3. iReq' \in [Procs -> InvoiceRequest] /\ iReq'[p] = I!Idle
      /\ \A q \in Procs \ {p} : iReq'[q] = iReq[q]
  BY <1>1, <1>2 DEF InvoicesInv
<1> QED
  BY <1>1, <1>2, <1>3 DEF InvoicesInv, CounterHolds, OneInvoiceEach, Alone

\* No step of Desks leaves the invariant of the invoices.
LEMMA NextInvoices == InvoicesInv /\ [Next]_vars => InvoicesInv'
<1> SUFFICES ASSUME InvoicesInv, [Next]_vars PROVE InvoicesInv'
  OBVIOUS
<1>1. UNCHANGED width
  BY WidthStays
<1>2. I!Next \/ UNCHANGED <<invoices, counter, iReq>>
  BY DEF Next, Only, vars, I_vars
<1>3. CASE I!Next
  BY <1>3, LookInvoices, NumberInvoices, CommitInvoices, LostInvoices DEF I!Next
<1>4. CASE UNCHANGED <<invoices, counter, iReq>>
  BY <1>1, <1>4 DEF InvoicesInv, CounterHolds, OneInvoiceEach, Alone
<1> QED
  BY <1>2, <1>3, <1>4

\* The invoices run on.
LEMMA InvoicesHold == InvoicesInv => I!InvoicesRunOn
<1> SUFFICES ASSUME InvoicesInv PROVE I!InvoicesRunOn
  OBVIOUS
<1>1. ASSUME width = 1, NEW payment \in Payments
      PROVE  I!Cardinality(I!InvoicesOf(payment)) <= 1
  <2> DEFINE T == I!InvoicesOf(payment)
  <2>1. \A x, y \in T : x = y
    BY <1>1 DEF InvoicesInv, OneInvoiceEach, I!InvoicesOf
  <2>2. I!Cardinality(T) = Cardinality(T)
    BY DEF I!Cardinality, Cardinality
  <2> HIDE DEF T
  <2>3. Cardinality(T) <= 1
    BY <2>1, AtMostOne
  <2> QED
    BY <2>2, <2>3 DEF T
<1> QED
  BY <1>1 DEF InvoicesInv, CounterHolds, I!InvoicesRunOn

-----------------------------------------------------------------------------
(* Payslips.                                                               *)

Slip        == [month : Months, number : Nat, live : BOOLEAN]
SlipRequest == [pc : {"idle", "count", "issue"}, month : SUBSET Months, number : Nat]

\* A number that was counted is one there is, or the next.
NumbersHold ==
  /\ \A s \in DOMAIN slips : slips[s].number = s
  /\ \A p \in Procs : pReq[p].pc = "issue" => pReq[p].number \in 1 .. Len(slips) + 1

\* One at a time, it is the next, and the month a request is about has no live slip.
OneSlipEach ==
  /\ Alone(pReq)
  /\ \A p \in Procs : pReq[p].pc = "issue" => pReq[p].number = Len(slips) + 1
  /\ \A p \in Procs : pReq[p].pc # "idle" =>
       \A s \in DOMAIN slips : slips[s].live => slips[s].month \notin pReq[p].month

SlipsInv ==
  /\ slips \in Seq(Slip)
  /\ pReq \in [Procs -> SlipRequest]
  /\ NumbersHold
  /\ width = 1 => OneSlipEach

\* A request that is put back to idle holds nothing.
LEMMA IdleSlip == P!Idle \in SlipRequest /\ P!Idle.pc = "idle" /\ P!Idle.month = {}
BY DEF P!Idle, SlipRequest

\* One at a time, a request begins when none is under way.
LEMMA SlipsFree ==
  ASSUME NEW p, P!Free(p), width = 1
  PROVE  AllIdle(pReq)
<1> DEFINE busy == {q \in Procs : pReq[q].pc # "idle"}
<1>1. P!Cardinality(busy) = Cardinality(busy)
  BY DEF P!Cardinality, Cardinality
<1>2. P!Cardinality(busy) < width
  BY DEF P!Free
<1>3. busy = {}
  BY <1>1, <1>2, FreeIsAlone
<1> QED
  BY <1>3 DEF AllIdle

\* There are no slips yet.
LEMMA InitSlips == Init => SlipsInv
<1> SUFFICES ASSUME Init PROVE SlipsInv
  OBVIOUS
<1>1. slips = <<>> /\ pReq = [p \in Procs |-> P!Idle]
  BY DEF Init, P!Init
<1>2. \A p \in Procs : pReq[p].pc = "idle" /\ pReq[p].month = {}
  BY <1>1, IdleSlip
<1> QED
  BY <1>1, <1>2, IdleSlip DEF SlipsInv, NumbersHold, OneSlipEach, Alone

\* A look-up finds a month without a live slip.
LEMMA CheckSlips ==
  ASSUME SlipsInv, NEW p \in Procs, P!SlipCheck(p)
  PROVE  SlipsInv'
<1>1. PICK month \in Months :
        /\ P!SlipsOf(month) = {}
        /\ pReq' = [pReq EXCEPT ![p] = [P!Idle EXCEPT !.pc = "count", !.month = {month}]]
  BY DEF P!SlipCheck
<1> DEFINE r == [P!Idle EXCEPT !.pc = "count", !.month = {month}]
<1>2. r \in SlipRequest /\ r.pc = "count" /\ r.month = {month}
  BY DEF SlipRequest, P!Idle
<1>3. pReq' = [pReq EXCEPT ![p] = r]
  BY <1>1
<1> HIDE DEF r
<1>4. \A s \in DOMAIN slips : slips[s].live => slips[s].month # month
  BY <1>1 DEF P!SlipsOf
<1>5. UNCHANGED <<slips, width>>
  BY DEF P!SlipCheck
<1>6. pReq' \in [Procs -> SlipRequest] /\ pReq'[p] = r
      /\ \A q \in Procs \ {p} : pReq'[q] = pReq[q]
  BY <1>2, <1>3 DEF SlipsInv
<1>7. NumbersHold'
  BY <1>2, <1>5, <1>6 DEF SlipsInv, NumbersHold
<1>8. ASSUME width = 1 PROVE OneSlipEach'
  <2>1. AllIdle(pReq)
    BY <1>8, SlipsFree DEF P!SlipCheck
  <2>2. Alone(pReq') /\ \A q \in Procs \ {p} : pReq'[q].pc = "idle"
    BY <1>6, <2>1 DEF AllIdle, Alone
  <2> QED
    BY <1>2, <1>4, <1>5, <1>6, <2>2 DEF OneSlipEach
<1> QED
  BY <1>5, <1>6, <1>7, <1>8 DEF SlipsInv

\* A request that is given a number is a request.
LEMMA NumberedSlip ==
  ASSUME NEW x \in SlipRequest, NEW n \in Nat
  PROVE  [x EXCEPT !.pc = "issue", !.number = n] \in SlipRequest
BY DEF SlipRequest

\* The number is one more than the rows there are.
LEMMA CountSlips ==
  ASSUME SlipsInv, NEW p \in Procs, P!SlipCount(p)
  PROVE  SlipsInv'
<1> DEFINE r == [pReq[p] EXCEPT !.pc = "issue", !.number = Len(slips) + 1]
<1>1. pReq[p] \in SlipRequest /\ Len(slips) \in Nat
  BY DEF SlipsInv
<1>2. r.pc = "issue" /\ r.number = Len(slips) + 1 /\ r.month = pReq[p].month
  BY <1>1 DEF SlipRequest
<1>3. r \in SlipRequest
  BY <1>1, Len(slips) + 1 \in Nat, NumberedSlip
<1>4. pReq' = [pReq EXCEPT ![p] = r] /\ UNCHANGED <<slips, width>> /\ pReq[p].pc = "count"
  BY DEF P!SlipCount, P!At, P!Counted, SlipsInv
<1> HIDE DEF r
<1>5. pReq' \in [Procs -> SlipRequest] /\ pReq'[p] = r
      /\ \A q \in Procs \ {p} : pReq'[q] = pReq[q]
  BY <1>3, <1>4 DEF SlipsInv
<1>6. NumbersHold'
  BY <1>1, <1>2, <1>4, <1>5 DEF SlipsInv, NumbersHold
<1>7. ASSUME width = 1 PROVE OneSlipEach'
  BY <1>2, <1>4, <1>5, <1>7 DEF SlipsInv, OneSlipEach, Alone
<1> QED
  BY <1>4, <1>5, <1>6, <1>7 DEF SlipsInv

\* What the index lets through is the next number.
LEMMA IssueSlips ==
  ASSUME SlipsInv, NEW p \in Procs, P!SlipIssue(p)
  PROVE  SlipsInv'
<1>1. PICK month \in pReq[p].month :
        /\ P!Issuable(month, pReq[p].number)
        /\ slips' = Append(slips, [month |-> month, number |-> pReq[p].number,
                                   live |-> TRUE])
  BY DEF P!SlipIssue
<1>2. pReq[p] \in SlipRequest /\ pReq[p].pc = "issue" /\ slips \in Seq(Slip)
  BY DEF SlipsInv, P!SlipIssue, P!At
<1> DEFINE row == [month |-> month, number |-> pReq[p].number, live |-> TRUE]
<1>3. pReq[p].number = Len(slips) + 1
  <2>1. \A s \in DOMAIN slips : s # pReq[p].number
    BY <1>1 DEF P!Issuable, SlipsInv, NumbersHold
  <2>2. pReq[p].number \in 1 .. Len(slips) + 1
    BY <1>2 DEF SlipsInv, NumbersHold
  <2>3. DOMAIN slips = 1 .. Len(slips) /\ Len(slips) \in Nat
    BY <1>2
  <2> DEFINE n == pReq[p].number
  <2>4. n \in 1 .. Len(slips) + 1 /\ n \notin 1 .. Len(slips)
    BY <2>1, <2>2, <2>3
  <2> HIDE DEF n
  <2>5. n = Len(slips) + 1
    BY <2>3, <2>4
  <2> QED
    BY <2>5 DEF n
<1>4. row \in Slip /\ row.number = Len(slips) + 1 /\ row.month = month
  BY <1>1, <1>2, <1>3 DEF SlipRequest, Slip
<1>5. slips' = Append(slips, row)
  BY <1>1
<1> HIDE DEF row
<1>6. /\ slips' \in Seq(Slip)
      /\ Len(slips') = Len(slips) + 1
      /\ DOMAIN slips' = 1 .. Len(slips) + 1
      /\ DOMAIN slips = 1 .. Len(slips) /\ Len(slips) \in Nat
      /\ slips'[Len(slips) + 1] = row
      /\ \A s \in DOMAIN slips : slips'[s] = slips[s]
  BY <1>2, <1>4, <1>5
<1>7. pReq' = [pReq EXCEPT ![p] = P!Idle] /\ UNCHANGED width
  BY DEF P!SlipIssue, P!Done
<1>8. pReq' \in [Procs -> SlipRequest] /\ pReq'[p] = P!Idle
      /\ \A q \in Procs \ {p} : pReq'[q] = pReq[q]
  BY <1>7, IdleSlip DEF SlipsInv
<1>9. NumbersHold'
  <2>1. NumbersHold
    BY DEF SlipsInv
  <2>2. \A s \in DOMAIN slips' : slips'[s].number = s
    BY <1>4, <1>6, <2>1 DEF NumbersHold
  <2>3. \A q \in Procs : pReq'[q].pc = "issue" => pReq'[q].number \in 1 .. Len(slips') + 1
    BY <1>6, <1>8, <2>1, IdleSlip DEF NumbersHold
  <2> QED
    BY <2>2, <2>3 DEF NumbersHold
<1>10. ASSUME width = 1 PROVE OneSlipEach'
  <2>1. \A q \in Procs : pReq'[q].pc = "idle"
    BY <1>2, <1>8, <1>10, IdleSlip DEF SlipsInv, OneSlipEach, Alone
  <2> QED
    BY <2>1 DEF OneSlipEach, Alone
<1> QED
  BY <1>6, <1>7, <1>8, <1>9, <1>10 DEF SlipsInv

\* A slip that is cancelled keeps its number.
LEMMA CancelSlips ==
  ASSUME SlipsInv, P!SlipCancel
  PROVE  SlipsInv'
<1>1. PICK s \in DOMAIN slips : slips' = [slips EXCEPT ![s].live = FALSE]
  BY DEF P!SlipCancel
<1> DEFINE row == [slips[s] EXCEPT !.live = FALSE]
<1>2. slips \in Seq(Slip) /\ slips[s] \in Slip
  BY DEF SlipsInv
<1>3. row \in Slip
  BY <1>2 DEF Slip
<1>4. row.number = slips[s].number /\ row.live = FALSE
  BY <1>2 DEF Slip
<1>5. slips' = [slips EXCEPT ![s] = row]
  BY <1>1
<1> HIDE DEF row
<1>6. /\ slips' \in Seq(Slip)
      /\ Len(slips') = Len(slips)
      /\ DOMAIN slips' = DOMAIN slips
      /\ slips'[s] = row
      /\ \A t \in DOMAIN slips \ {s} : slips'[t] = slips[t]
  BY <1>2, <1>3, <1>5
<1>7. UNCHANGED <<pReq, width>>
  BY DEF P!SlipCancel
<1>8. NumbersHold'
  BY <1>4, <1>6, <1>7 DEF SlipsInv, NumbersHold
<1>9. ASSUME width = 1 PROVE OneSlipEach'
  BY <1>4, <1>6, <1>7, <1>9 DEF SlipsInv, OneSlipEach, Alone
<1> QED
  BY <1>6, <1>7, <1>8, <1>9 DEF SlipsInv

\* A request that is lost leaves the rows as they were.
LEMMA LostSlips ==
  ASSUME SlipsInv, NEW p \in Procs, P!Lost(p)
  PROVE  SlipsInv'
<1>1. pReq' = [pReq EXCEPT ![p] = P!Idle] /\ UNCHANGED <<slips, width>>
  BY DEF P!Lost, P!Done
<1>2. pReq' \in [Procs -> SlipRequest] /\ pReq'[p] = P!Idle
      /\ \A q \in Procs \ {p} : pReq'[q] = pReq[q]
  BY <1>1, IdleSlip DEF SlipsInv
<1> QED
  BY <1>1, <1>2, IdleSlip DEF SlipsInv, NumbersHold, OneSlipEach, Alone

\* No step of Desks leaves the invariant of the payslips.
LEMMA NextSlips == SlipsInv /\ [Next]_vars => SlipsInv'
<1> SUFFICES ASSUME SlipsInv, [Next]_vars PROVE SlipsInv'
  OBVIOUS
<1>1. UNCHANGED width
  BY WidthStays
<1>2. P!Next \/ UNCHANGED <<slips, pReq>>
  BY DEF Next, Only, vars, P_vars
<1>3. CASE P!Next
  BY <1>3, CheckSlips, CountSlips, IssueSlips, CancelSlips, LostSlips DEF P!Next
<1>4. CASE UNCHANGED <<slips, pReq>>
  BY <1>1, <1>4 DEF SlipsInv, NumbersHold, OneSlipEach, Alone
<1> QED
  BY <1>2, <1>3, <1>4

\* The payslips run on.
LEMMA SlipsHold == SlipsInv => P!SlipsRunOn
<1> SUFFICES ASSUME SlipsInv PROVE P!SlipsRunOn
  OBVIOUS
<1>1. ASSUME width = 1, NEW p \in Procs PROVE ~P!Refused(p)
  <2> SUFFICES ASSUME P!Refused(p) PROVE FALSE
    OBVIOUS
  <2>1. OneSlipEach /\ NumbersHold /\ slips \in Seq(Slip)
    BY <1>1 DEF SlipsInv
  <2>2. pReq[p].pc = "issue"
    BY DEF P!Refused, P!At
  <2>3. PICK month \in pReq[p].month : ~P!Issuable(month, pReq[p].number)
    BY DEF P!Refused
  <2>4. P!SlipsOf(month) = {}
    BY <2>1, <2>2 DEF OneSlipEach, P!SlipsOf
  <2>5. \A s \in DOMAIN slips : slips[s].number # pReq[p].number
    BY <2>1, <2>2 DEF OneSlipEach, NumbersHold
  <2> QED
    BY <2>3, <2>4, <2>5 DEF P!Issuable
<1> QED
  BY <1>1 DEF SlipsInv, NumbersHold, P!SlipsRunOn

-----------------------------------------------------------------------------

\* The numbers of invoices and of payslips run on without a gap or a repeat, however
\* requests race; one at a time, a payment has one invoice and no slip is refused
\* (payments.service.ts, generateInvoice; employee-hr.service.ts, nextPayslipNumber).
THEOREM SerialsRun == Spec => []SerialsRunOn
<1>1. Init => InvoicesInv /\ SlipsInv
  BY InitInvoices, InitSlips
<1>2. (InvoicesInv /\ SlipsInv) /\ [Next]_vars => (InvoicesInv /\ SlipsInv)'
  BY NextInvoices, NextSlips
<1>3. InvoicesInv /\ SlipsInv => SerialsRunOn
  BY InvoicesHold, SlipsHold DEF SerialsRunOn
<1> QED
  BY <1>1, <1>2, <1>3, PTL DEF Spec

-----------------------------------------------------------------------------
(* The leave and the register.                                             *)

Leave        == [from : R!Days, to : R!Days,
                 status : {"pending", "approved", "rejected", "cancelled"}]
LeaveRequest == [pc : {"idle", "apply", "decide"}, from : R!Days, to : R!Days, leave : Nat,
                 status : {"pending", "approved", "rejected", "cancelled"}]

\* What is decided is a request there is.
DecidesLeave == \A p \in Procs : rReq[p].pc = "decide" => rReq[p].leave \in DOMAIN leave

\* No day of an approved leave is unmarked.
ApprovedMarked ==
  \A l \in DOMAIN leave :
    leave[l].status = "approved" =>
      \A d \in leave[l].from .. leave[l].to : register[d] # "unmarked"

\* The spans of two live requests share no day.
SpansApart ==
  \A k, l \in DOMAIN leave :
    /\ leave[k].status \in {"pending", "approved"}
    /\ leave[l].status \in {"pending", "approved"}
    /\ k # l
    => leave[k].from > leave[l].to \/ leave[l].from > leave[k].to

\* One at a time, what a request is about to file is in nobody's way, and what it is about
\* to decide is pending still.
OneLeave ==
  /\ Alone(rReq)
  /\ SpansApart
  /\ \A p \in Procs : rReq[p].pc = "apply" =>
       \A l \in DOMAIN leave : leave[l].status \in {"pending", "approved"} =>
         leave[l].from > rReq[p].to \/ rReq[p].from > leave[l].to
  /\ \A p \in Procs : rReq[p].pc = "decide" => leave[rReq[p].leave].status = "pending"

LeaveInv ==
  /\ leave \in Seq(Leave)
  /\ register \in [R!Days -> {"unmarked", "present", "on_leave"}]
  /\ rReq \in [Procs -> LeaveRequest]
  /\ DecidesLeave
  /\ ApprovedMarked
  /\ width = 1 => OneLeave

\* A request that is put back to idle is about nothing.
LEMMA IdleLeave == R!Idle \in LeaveRequest /\ R!Idle.pc = "idle"
BY DaysAssumption DEF R!Idle, R!Days, LeaveRequest

\* One at a time, a request begins when none is under way.
LEMMA LeaveFree ==
  ASSUME NEW p, R!Free(p), width = 1
  PROVE  AllIdle(rReq)
<1> DEFINE busy == {q \in Procs : rReq[q].pc # "idle"}
<1>1. R!Cardinality(busy) = Cardinality(busy)
  BY DEF R!Cardinality, Cardinality
<1>2. R!Cardinality(busy) < width
  BY DEF R!Free
<1>3. busy = {}
  BY <1>1, <1>2, FreeIsAlone
<1> QED
  BY <1>3 DEF AllIdle

\* Nobody has asked for leave yet.
LEMMA InitLeave == Init => LeaveInv
<1> SUFFICES ASSUME Init PROVE LeaveInv
  OBVIOUS
<1>1. leave = <<>> /\ rReq = [p \in Procs |-> R!Idle]
      /\ register = [day \in R!Days |-> "unmarked"]
  BY DEF Init, R!Init
<1>2. \A p \in Procs : rReq[p].pc = "idle"
  BY <1>1, IdleLeave
<1> QED
  BY <1>1, <1>2, IdleLeave
  DEF LeaveInv, DecidesLeave, ApprovedMarked, OneLeave, SpansApart, Alone

\* A span that is in nobody's way is about to be filed.
LEMMA ApplyLeave ==
  ASSUME LeaveInv, NEW p \in Procs, R!ApplyCheck(p)
  PROVE  LeaveInv'
<1>1. PICK from \in R!Days, to \in R!Days :
        /\ \A l \in R!Live : ~R!Overlaps(l, from, to)
        /\ rReq' = [rReq EXCEPT ![p] = [R!Idle EXCEPT !.pc = "apply", !.from = from,
                                                      !.to = to]]
  <2>1. PICK from \in R!Days : \E to \in from .. LastDay :
          /\ \A l \in R!Live : ~R!Overlaps(l, from, to)
          /\ rReq' = [rReq EXCEPT ![p] = [R!Idle EXCEPT !.pc = "apply", !.from = from,
                                                        !.to = to]]
    BY DEF R!ApplyCheck
  <2>2. from .. LastDay \subseteq R!Days
    BY DaysAssumption DEF R!Days
  <2> QED
    BY <2>1, <2>2
<1>2. from \in R!Days /\ to \in R!Days /\ from \in Int /\ to \in Int
  BY DaysAssumption DEF R!Days
<1> DEFINE r == [R!Idle EXCEPT !.pc = "apply", !.from = from, !.to = to]
<1>3. r \in LeaveRequest /\ r.pc = "apply" /\ r.from = from /\ r.to = to
  BY <1>2 DEF LeaveRequest, R!Idle
<1>4. rReq' = [rReq EXCEPT ![p] = r]
  BY <1>1
<1> HIDE DEF r
<1>5. \A l \in DOMAIN leave : leave[l].status \in {"pending", "approved"} =>
        leave[l].from > to \/ from > leave[l].to
  <2> SUFFICES ASSUME NEW l \in DOMAIN leave, leave[l].status \in {"pending", "approved"}
               PROVE  leave[l].from > to \/ from > leave[l].to
    OBVIOUS
  <2>1. ~(leave[l].from <= to /\ leave[l].to >= from)
    BY <1>1 DEF R!Live, R!Overlaps
  <2>2. leave[l] \in Leave
    BY DEF LeaveInv
  <2>3. leave[l].from \in Int /\ leave[l].to \in Int
    BY <2>2, DaysAssumption DEF Leave, R!Days
  <2> QED
    BY <1>2, <2>1, <2>3
<1>6. UNCHANGED <<leave, register, width>>
  BY DEF R!ApplyCheck
<1>7. rReq' \in [Procs -> LeaveRequest] /\ rReq'[p] = r
      /\ \A q \in Procs \ {p} : rReq'[q] = rReq[q]
  BY <1>3, <1>4 DEF LeaveInv
<1>8. DecidesLeave' /\ ApprovedMarked'
  BY <1>3, <1>6, <1>7 DEF LeaveInv, DecidesLeave, ApprovedMarked
<1>9. ASSUME width = 1 PROVE OneLeave'
  <2>1. AllIdle(rReq)
    BY <1>9, LeaveFree DEF R!ApplyCheck
  <2>2. Alone(rReq') /\ \A q \in Procs \ {p} : rReq'[q].pc = "idle"
    BY <1>7, <2>1 DEF AllIdle, Alone
  <2> QED
    BY <1>3, <1>5, <1>6, <1>7, <1>9, <2>2 DEF LeaveInv, OneLeave, SpansApart
<1> QED
  BY <1>6, <1>7, <1>8, <1>9 DEF LeaveInv

\* The request is filed.
LEMMA FileLeave ==
  ASSUME LeaveInv, NEW p \in Procs, R!ApplyInsert(p)
  PROVE  LeaveInv'
<1> DEFINE row == [from |-> rReq[p].from, to |-> rReq[p].to, status |-> "pending"]
<1>1. rReq[p] \in LeaveRequest /\ rReq[p].pc = "apply" /\ leave \in Seq(Leave)
  BY DEF LeaveInv, R!ApplyInsert, R!At
<1>2. row \in Leave /\ row.status = "pending" /\ row.from = rReq[p].from
      /\ row.to = rReq[p].to
  BY <1>1 DEF LeaveRequest, Leave
<1>3. leave' = Append(leave, row)
  BY DEF R!ApplyInsert
<1> HIDE DEF row
<1>4. /\ leave' \in Seq(Leave)
      /\ DOMAIN leave' = 1 .. Len(leave) + 1
      /\ DOMAIN leave = 1 .. Len(leave) /\ Len(leave) \in Nat
      /\ leave'[Len(leave) + 1] = row
      /\ \A l \in DOMAIN leave : leave'[l] = leave[l]
  BY <1>1, <1>2, <1>3
<1>5. rReq' = [rReq EXCEPT ![p] = R!Idle] /\ UNCHANGED <<register, width>>
  BY DEF R!ApplyInsert, R!Done
<1>6. rReq' \in [Procs -> LeaveRequest] /\ rReq'[p] = R!Idle
      /\ \A q \in Procs \ {p} : rReq'[q] = rReq[q]
  BY <1>5, IdleLeave DEF LeaveInv
<1>7. DecidesLeave'
  BY <1>4, <1>6, IdleLeave DEF LeaveInv, DecidesLeave
<1>8. ApprovedMarked'
  BY <1>2, <1>4, <1>5 DEF LeaveInv, ApprovedMarked
<1>9. ASSUME width = 1 PROVE OneLeave'
  <2>1. OneLeave
    BY <1>9 DEF LeaveInv
  <2>2. \A q \in Procs : rReq'[q].pc = "idle"
    BY <1>1, <1>6, <2>1, IdleLeave DEF OneLeave, Alone
  <2>3. \A l \in DOMAIN leave : leave[l].status \in {"pending", "approved"} =>
          leave[l].from > row.to \/ row.from > leave[l].to
    BY <1>1, <1>2, <2>1 DEF OneLeave
  <2>4. SpansApart'
    BY <1>4, <2>1, <2>3 DEF OneLeave, SpansApart
  <2> QED
    BY <2>2, <2>4 DEF OneLeave, Alone
<1> QED
  BY <1>4, <1>5, <1>6, <1>7, <1>8, <1>9 DEF LeaveInv

\* What is about to be decided is pending.
LEMMA ReadLeave ==
  ASSUME LeaveInv, NEW p \in Procs, R!DecideRead(p)
  PROVE  LeaveInv'
<1>1. PICK l \in DOMAIN leave, verdict \in {"approved", "rejected", "cancelled"} :
        /\ leave[l].status = "pending"
        /\ rReq' = [rReq EXCEPT ![p] = [R!Idle EXCEPT !.pc = "decide", !.leave = l,
                                                      !.status = verdict]]
  BY DEF R!DecideRead
<1> DEFINE r == [R!Idle EXCEPT !.pc = "decide", !.leave = l, !.status = verdict]
<1>2. l \in Nat
  BY DEF LeaveInv
<1>3. r \in LeaveRequest
  <2>1. R!Idle \in LeaveRequest
    BY IdleLeave
  <2> QED
    BY <1>2, <2>1 DEF LeaveRequest
<1>4. r.pc = "decide" /\ r.leave = l
  BY DEF R!Idle
<1>5. rReq' = [rReq EXCEPT ![p] = r]
  BY <1>1
<1> HIDE DEF r
<1>6. UNCHANGED <<leave, register, width>>
  BY DEF R!DecideRead
<1>7. rReq' \in [Procs -> LeaveRequest] /\ rReq'[p] = r
      /\ \A q \in Procs \ {p} : rReq'[q] = rReq[q]
  BY <1>3, <1>5 DEF LeaveInv
<1>8. DecidesLeave' /\ ApprovedMarked'
  BY <1>4, <1>6, <1>7 DEF LeaveInv, DecidesLeave, ApprovedMarked
<1>9. ASSUME width = 1 PROVE OneLeave'
  <2>1. AllIdle(rReq)
    BY <1>9, LeaveFree DEF R!DecideRead
  <2>2. Alone(rReq') /\ \A q \in Procs \ {p} : rReq'[q].pc = "idle"
    BY <1>7, <2>1 DEF AllIdle, Alone
  <2> QED
    BY <1>1, <1>4, <1>6, <1>7, <1>9, <2>2 DEF LeaveInv, OneLeave, SpansApart
<1> QED
  BY <1>6, <1>7, <1>8, <1>9 DEF LeaveInv

\* The decision writes the days it grants.
LEMMA DecideLeave ==
  ASSUME LeaveInv, NEW p \in Procs, R!DecideCommit(p)
  PROVE  LeaveInv'
<1> DEFINE l   == rReq[p].leave
           row == [leave[l] EXCEPT !.status = rReq[p].status]
<1>1. rReq[p] \in LeaveRequest /\ rReq[p].pc = "decide" /\ leave \in Seq(Leave)
      /\ l \in DOMAIN leave /\ leave[l] \in Leave
  BY DEF LeaveInv, DecidesLeave, R!DecideCommit, R!At
<1>2. row \in Leave
  BY <1>1 DEF LeaveRequest, Leave
<1>3. row.status = rReq[p].status /\ row.from = leave[l].from /\ row.to = leave[l].to
  BY <1>1 DEF Leave
<1>4. leave' = [leave EXCEPT ![l] = row] /\ UNCHANGED width
  BY DEF R!DecideCommit
<1> HIDE DEF row
<1>5. /\ leave' \in Seq(Leave)
      /\ DOMAIN leave' = DOMAIN leave
      /\ leave'[l] = row
      /\ \A k \in DOMAIN leave \ {l} : leave'[k] = leave[k]
  BY <1>1, <1>2, <1>4
<1>6. rReq' = [rReq EXCEPT ![p] = R!Idle]
  BY DEF R!DecideCommit, R!Done
<1>7. rReq' \in [Procs -> LeaveRequest] /\ rReq'[p] = R!Idle
      /\ \A q \in Procs \ {p} : rReq'[q] = rReq[q]
  BY <1>6, IdleLeave DEF LeaveInv
<1>8. /\ register' \in [R!Days -> {"unmarked", "present", "on_leave"}]
      /\ \A d \in R!Days : register[d] # "unmarked" => register'[d] # "unmarked"
      /\ rReq[p].status = "approved" =>
           \A d \in leave[l].from .. leave[l].to : register'[d] # "unmarked"
  <2>1. register \in [R!Days -> {"unmarked", "present", "on_leave"}]
    BY DEF LeaveInv
  <2>2. CASE rReq[p].status # "approved"
    BY <2>1, <2>2 DEF R!DecideCommit
  <2>3. CASE rReq[p].status = "approved"
    <3>1. register' = [d \in R!Days |-> IF d \in R!Granted(l) THEN "on_leave"
                                        ELSE register[d]]
      BY <2>3 DEF R!DecideCommit
    <3>2. \A d \in leave[l].from .. leave[l].to : d \in R!Days
      BY <1>1, DaysAssumption DEF Leave, R!Days
    <3>3. \A d \in leave[l].from .. leave[l].to :
            register[d] # "unmarked" \/ d \in R!Granted(l)
      BY DEF R!Granted
    <3> HIDE DEF l
    <3> QED
      BY <2>1, <3>1, <3>2, <3>3
  <2> QED
    BY <2>2, <2>3
<1>9. DecidesLeave'
  BY <1>5, <1>7, IdleLeave DEF LeaveInv, DecidesLeave
<1>10. ApprovedMarked'
  <2> SUFFICES ASSUME NEW k \in DOMAIN leave, leave'[k].status = "approved",
                      NEW d \in leave'[k].from .. leave'[k].to
               PROVE  register'[d] # "unmarked"
    BY <1>5 DEF ApprovedMarked
  <2>1. CASE k = l
    BY <1>3, <1>5, <1>8, <2>1
  <2>2. CASE k # l
    <3>1. leave'[k] = leave[k] /\ leave[k] \in Leave
      BY <1>1, <1>5, <2>2
    <3>2. register[d] # "unmarked"
      BY <3>1 DEF LeaveInv, ApprovedMarked
    <3>3. d \in R!Days
      BY <3>1, DaysAssumption DEF Leave, R!Days
    <3> QED
      BY <1>8, <3>2, <3>3
  <2> QED
    BY <2>1, <2>2
<1>11. ASSUME width = 1 PROVE OneLeave'
  <2>1. OneLeave
    BY <1>11 DEF LeaveInv
  <2>2. \A q \in Procs : rReq'[q].pc = "idle"
    BY <1>1, <1>7, <2>1, IdleLeave DEF OneLeave, Alone
  <2>3. leave[l].status = "pending"
    BY <1>1, <2>1 DEF OneLeave
  <2>4. \A k \in DOMAIN leave : /\ leave'[k].from = leave[k].from
                                /\ leave'[k].to = leave[k].to
                                /\ leave'[k].status \in {"pending", "approved"} =>
                                     leave[k].status \in {"pending", "approved"}
    BY <1>3, <1>5, <2>3
  <2>5. SpansApart'
    BY <1>5, <2>1, <2>4 DEF OneLeave, SpansApart
  <2> QED
    BY <2>2, <2>5 DEF OneLeave, Alone
<1> QED
  BY <1>4, <1>5, <1>7, <1>8, <1>9, <1>10, <1>11 DEF LeaveInv

\* A day that is marked is never unmarked.
LEMMA MarkLeave ==
  ASSUME LeaveInv, R!MarkDay
  PROVE  LeaveInv'
<1>1. PICK day \in R!Days, mark \in {"present", "on_leave"} :
        register' = [register EXCEPT ![day] = mark]
  BY DEF R!MarkDay
<1>2. register \in [R!Days -> {"unmarked", "present", "on_leave"}] /\ leave \in Seq(Leave)
  BY DEF LeaveInv
<1>3. /\ register' \in [R!Days -> {"unmarked", "present", "on_leave"}]
      /\ \A d \in R!Days : register[d] # "unmarked" => register'[d] # "unmarked"
  BY <1>1, <1>2
<1>4. UNCHANGED <<leave, rReq, width>>
  BY DEF R!MarkDay
<1>5. ApprovedMarked'
  <2> SUFFICES ASSUME NEW k \in DOMAIN leave, leave[k].status = "approved",
                      NEW d \in leave[k].from .. leave[k].to
               PROVE  register'[d] # "unmarked"
    BY <1>4 DEF ApprovedMarked
  <2>1. d \in R!Days
    <3>1. leave[k] \in Leave
      BY <1>2
    <3> QED
      BY <3>1, DaysAssumption DEF Leave, R!Days
  <2> QED
    BY <1>3, <2>1 DEF LeaveInv, ApprovedMarked
<1> QED
  BY <1>3, <1>4, <1>5 DEF LeaveInv, DecidesLeave, OneLeave, SpansApart, Alone

\* A request that is lost leaves the rows as they were.
LEMMA LostLeave ==
  ASSUME LeaveInv, NEW p \in Procs, R!Lost(p)
  PROVE  LeaveInv'
<1>1. rReq' = [rReq EXCEPT ![p] = R!Idle] /\ UNCHANGED <<leave, register, width>>
  BY DEF R!Lost, R!Done
<1>2. rReq' \in [Procs -> LeaveRequest] /\ rReq'[p] = R!Idle
      /\ \A q \in Procs \ {p} : rReq'[q] = rReq[q]
  BY <1>1, IdleLeave DEF LeaveInv
<1>3. width # 1
  BY DEF R!Lost
<1> QED
  BY <1>1, <1>2, <1>3, IdleLeave DEF LeaveInv, DecidesLeave, ApprovedMarked

\* No step of Desks leaves the invariant of the leave.
LEMMA NextLeave == LeaveInv /\ [Next]_vars => LeaveInv'
<1> SUFFICES ASSUME LeaveInv, [Next]_vars PROVE LeaveInv'
  OBVIOUS
<1>1. UNCHANGED width
  BY WidthStays
<1>2. R!Next \/ UNCHANGED <<leave, register, rReq>>
  BY DEF Next, Only, vars, R_vars
<1>3. CASE R!Next
  BY <1>3, ApplyLeave, FileLeave, ReadLeave, DecideLeave, MarkLeave, LostLeave
  DEF R!Next, R!Step
<1>4. CASE UNCHANGED <<leave, register, rReq>>
  BY <1>1, <1>4
  DEF LeaveInv, DecidesLeave, ApprovedMarked, OneLeave, SpansApart, Alone
<1> QED
  BY <1>2, <1>3, <1>4

\* Every day of an approved leave is in the register, however requests race; one at a
\* time, no two live requests share a day (employee-hr.service.ts, applyLeave and
\* decideLeave).
THEOREM LeaveRegistered == Spec => []LeaveIsOnRegister
<1>1. Init => LeaveInv
  BY InitLeave
<1>2. LeaveInv /\ [Next]_vars => LeaveInv'
  BY NextLeave
<1>3. LeaveInv => LeaveIsOnRegister
  BY DEF LeaveInv, ApprovedMarked, OneLeave, SpansApart, LeaveIsOnRegister,
     R!LeaveIsOnRegister, R!Live
<1> QED
  BY <1>1, <1>2, <1>3, PTL DEF Spec

-----------------------------------------------------------------------------
(* The evidence vault.                                                     *)

File         == [content : Contents, upload : SUBSET Uploads,
                 how : {"upload", "hashed_upload", "proof", "copy"}]
VaultRequest == [pc : {"idle", "confirm", "proof", "copy", "copy_count"},
                 content : SUBSET Contents, upload : SUBSET Uploads]

\* Of the requests r, those whose copy is there and not counted.
Counters(r) == {p \in Procs : r[p].pc = "copy_count"}

\* Every file is counted, is about to be, or was kept from it.
FilesCounted == count + Cardinality(Counters(vReq)) + uncounted = Len(files)

\* One at a time, nothing is there twice as a copy, and what is about to be copied is not
\* there at all.
OneCopyEach ==
  /\ Alone(vReq)
  /\ \A p \in Procs : vReq[p].pc = "copy" =>
       \A f \in DOMAIN files : files[f].content \notin vReq[p].content
  /\ \A f, g \in DOMAIN files :
       files[f].how = "copy" /\ files[g].how = "copy" /\ files[f].content = files[g].content
       => f = g

VaultInv ==
  /\ files \in Seq(File)
  /\ count \in Nat /\ uncounted \in Nat
  /\ vReq \in [Procs -> VaultRequest]
  /\ FilesCounted
  /\ width = 1 => OneCopyEach

\* A request that is put back to idle holds nothing.
LEMMA IdleVault == V!Idle \in VaultRequest /\ V!Idle.pc = "idle"
BY DEF V!Idle, V!NoUpload, VaultRequest

\* One at a time, a request begins when none is under way.
LEMMA VaultFree ==
  ASSUME NEW p, V!Free(p), width = 1
  PROVE  AllIdle(vReq)
<1> DEFINE busy == {q \in Procs : vReq[q].pc # "idle"}
<1>1. V!Cardinality(busy) = Cardinality(busy)
  BY DEF V!Cardinality, Cardinality
<1>2. V!Cardinality(busy) < width
  BY DEF V!Free
<1>3. busy = {}
  BY <1>1, <1>2, FreeIsAlone
<1> QED
  BY <1>3 DEF AllIdle

\* Those about to count are a finite number.
LEMMA CountersFinite ==
  ASSUME NEW r
  PROVE  IsFiniteSet(Counters(r)) /\ Cardinality(Counters(r)) \in Nat
<1>1. Counters(r) \subseteq Procs
  BY DEF Counters
<1> QED
  BY <1>1, ProcsAssumption, FS_Subset, FS_CardinalityType

\* A step of p, which is not about to count, leaves their number, but for p if p becomes one.
LEMMA CountersGrow ==
  ASSUME NEW r, NEW s, NEW p \in Procs,
         \A q \in Procs \ {p} : s[q] = r[q],
         r[p].pc # "copy_count"
  PROVE  /\ s[p].pc = "copy_count" =>
              Cardinality(Counters(s)) = Cardinality(Counters(r)) + 1
         /\ s[p].pc # "copy_count" => Cardinality(Counters(s)) = Cardinality(Counters(r))
<1>1. CASE s[p].pc = "copy_count"
  <2>1. Counters(s) = Counters(r) \cup {p} /\ p \notin Counters(r)
    BY <1>1 DEF Counters
  <2>2. Cardinality(Counters(r) \cup {p}) = Cardinality(Counters(r)) + 1
    BY <2>1, CountersFinite, FS_AddElement
  <2> QED
    BY <1>1, <2>1, <2>2
<1>2. CASE s[p].pc # "copy_count"
  <2>1. Counters(s) = Counters(r)
    BY <1>2 DEF Counters
  <2> QED
    BY <1>2, <2>1, CountersFinite
<1> QED
  BY <1>1, <1>2

\* There are no files yet, and nobody to count them.
LEMMA InitVault == Init => VaultInv
<1> SUFFICES ASSUME Init PROVE VaultInv
  OBVIOUS
<1>1. files = <<>> /\ vReq = [p \in Procs |-> V!Idle] /\ count = 0 /\ uncounted = 0
  BY DEF Init, V!Init
<1>2. \A p \in Procs : vReq[p].pc = "idle"
  BY <1>1, IdleVault
<1>3. Counters(vReq) = {}
  BY <1>2 DEF Counters
<1>4. FilesCounted
  <2>1. Cardinality(Counters(vReq)) = 0
    BY <1>3, FS_EmptySet
  <2>2. Len(files) = 0
    BY <1>1
  <2> QED
    BY <1>1, <2>1, <2>2 DEF FilesCounted
<1> QED
  BY <1>1, <1>2, <1>4, IdleVault DEF VaultInv, OneCopyEach, Alone

\* A request that begins changes nothing yet; a copy begins where there is no such file.
LEMMA BeginVault ==
  ASSUME VaultInv, NEW p \in Procs, V!Free(p),
         NEW r \in VaultRequest, r.pc \in {"confirm", "proof", "copy"},
         vReq' = [vReq EXCEPT ![p] = r],
         r.pc = "copy" => \A f \in DOMAIN files : files[f].content \notin r.content,
         UNCHANGED <<files, count, uncounted, width>>
  PROVE  VaultInv'
<1>1. vReq' \in [Procs -> VaultRequest] /\ vReq'[p] = r
      /\ \A q \in Procs \ {p} : vReq'[q] = vReq[q]
  BY DEF VaultInv
<1>2. Cardinality(Counters(vReq')) = Cardinality(Counters(vReq))
  <2>1. vReq[p].pc # "copy_count" /\ vReq'[p].pc # "copy_count"
    BY <1>1 DEF V!Free
  <2>2. \A q \in Procs \ {p} : vReq'[q] = vReq[q]
    BY <1>1
  <2> QED
    BY <2>1, <2>2, CountersGrow
<1>3. FilesCounted'
  BY <1>2 DEF VaultInv, FilesCounted
<1>4. ASSUME width = 1 PROVE OneCopyEach'
  <2>1. AllIdle(vReq)
    BY <1>4, VaultFree
  <2>2. Alone(vReq') /\ \A q \in Procs \ {p} : vReq'[q].pc = "idle"
    BY <1>1, <2>1 DEF AllIdle, Alone
  <2> QED
    BY <1>1, <1>4, <2>2 DEF VaultInv, OneCopyEach
<1> QED
  BY <1>1, <1>3, <1>4 DEF VaultInv

\* Each of the three that look first.
LEMMA CheckVault ==
  ASSUME VaultInv, NEW p \in Procs,
         V!ConfirmCheck(p) \/ V!ProofCheck(p) \/ V!CopyCheck(p)
  PROVE  VaultInv'
<1>1. CASE V!ConfirmCheck(p)
  <2>1. PICK content \in Contents, upload \in Uploads :
          V!Begins(p, "confirm", {content}, {upload})
    BY <1>1 DEF V!ConfirmCheck
  <2> DEFINE r == [pc |-> "confirm", content |-> {content}, upload |-> {upload}]
  <2>2. r \in VaultRequest /\ r.pc = "confirm"
    BY DEF VaultRequest
  <2>3. vReq' = [vReq EXCEPT ![p] = r]
    BY <2>1 DEF V!Begins
  <2> HIDE DEF r
  <2>4. V!Free(p) /\ UNCHANGED <<files, count, uncounted, width>>
    BY <1>1 DEF V!ConfirmCheck
  <2> QED
    BY <2>2, <2>3, <2>4, BeginVault
<1>2. CASE V!ProofCheck(p)
  <2>1. PICK content \in Contents : V!Begins(p, "proof", {content}, V!NoUpload)
    BY <1>2 DEF V!ProofCheck
  <2> DEFINE r == [pc |-> "proof", content |-> {content}, upload |-> {}]
  <2>2. r \in VaultRequest /\ r.pc = "proof"
    BY DEF VaultRequest
  <2>3. vReq' = [vReq EXCEPT ![p] = r]
    BY <2>1 DEF V!Begins, V!NoUpload
  <2> HIDE DEF r
  <2>4. V!Free(p) /\ UNCHANGED <<files, count, uncounted, width>>
    BY <1>2 DEF V!ProofCheck
  <2> QED
    BY <2>2, <2>3, <2>4, BeginVault
<1>3. CASE V!CopyCheck(p)
  <2>1. PICK content \in Contents :
          ~V!Copied(content) /\ V!Begins(p, "copy", {content}, V!NoUpload)
    BY <1>3 DEF V!CopyCheck
  <2> DEFINE r == [pc |-> "copy", content |-> {content}, upload |-> {}]
  <2>2. r \in VaultRequest /\ r.pc = "copy" /\ r.content = {content}
    BY DEF VaultRequest
  <2>3. vReq' = [vReq EXCEPT ![p] = r]
    BY <2>1 DEF V!Begins, V!NoUpload
  <2> HIDE DEF r
  <2>4. \A f \in DOMAIN files : files[f].content \notin r.content
    BY <2>1, <2>2 DEF V!Copied
  <2>5. V!Free(p) /\ UNCHANGED <<files, count, uncounted, width>>
    BY <1>3 DEF V!CopyCheck
  <2> QED
    BY <2>2, <2>3, <2>4, <2>5, BeginVault
<1> QED
  BY <1>1, <1>2, <1>3

\* One file more: counted with it, or with one more about to count it.
LEMMA KeepVault ==
  ASSUME VaultInv, NEW p \in Procs, NEW r \in VaultRequest, NEW file \in File,
         vReq[p].pc \notin {"idle", "copy_count"}, r.pc \in {"idle", "copy_count"},
         vReq' = [vReq EXCEPT ![p] = r],
         files' = Append(files, file),
         count' = count + (IF r.pc = "copy_count" THEN 0 ELSE 1),
         file.how = "copy" => vReq[p].pc = "copy" /\ file.content \in vReq[p].content,
         UNCHANGED <<uncounted, width>>
  PROVE  VaultInv'
<1>1. vReq' \in [Procs -> VaultRequest] /\ vReq'[p] = r
      /\ \A q \in Procs \ {p} : vReq'[q] = vReq[q]
  BY DEF VaultInv
<1>2. files \in Seq(File) /\ count \in Nat /\ uncounted \in Nat
  BY DEF VaultInv
<1>3. /\ files' \in Seq(File)
      /\ Len(files') = Len(files) + 1
      /\ DOMAIN files' = 1 .. Len(files) + 1
      /\ DOMAIN files = 1 .. Len(files) /\ Len(files) \in Nat
      /\ files'[Len(files) + 1] = file
      /\ \A f \in DOMAIN files : files'[f] = files[f]
  BY <1>2
<1>4. count' \in Nat
  BY <1>2
<1>5. FilesCounted'
  <2> DEFINE before == Cardinality(Counters(vReq))
             after  == Cardinality(Counters(vReq'))
             one    == IF r.pc = "copy_count" THEN 1 ELSE 0
  <2>1. after = before + one
    <3>1. \A q \in Procs \ {p} : vReq'[q] = vReq[q]
      BY <1>1
    <3>2. vReq[p].pc # "copy_count" /\ vReq'[p].pc = r.pc
      BY <1>1
    <3>3. /\ r.pc = "copy_count" => after = before + 1
          /\ r.pc # "copy_count" => after = before
      BY <3>1, <3>2, CountersGrow
    <3>4. before \in Nat
      BY CountersFinite
    <3> HIDE DEF before, after
    <3> QED
      BY <3>3, <3>4
  <2>2. count + before + uncounted = Len(files)
    BY DEF VaultInv, FilesCounted
  <2>3. count' = count + 1 - one /\ one \in Nat
    BY <1>2
  <2>4. before \in Nat /\ after \in Nat
    BY CountersFinite
  <2> HIDE DEF before, after, one
  <2>5. count' + after + uncounted = Len(files) + 1
    BY <1>2, <2>1, <2>2, <2>3, <2>4
  <2>6. uncounted' = uncounted
    OBVIOUS
  <2>7. count' + after + uncounted' = Len(files')
    BY <1>3, <2>5, <2>6
  <2> QED
    BY <2>7 DEF FilesCounted, after
<1>6. ASSUME width = 1 PROVE OneCopyEach'
  <2>1. OneCopyEach
    BY <1>6 DEF VaultInv
  <2>2. \A q \in Procs \ {p} : vReq'[q].pc = "idle"
    BY <1>1, <2>1 DEF OneCopyEach, Alone
  <2>3. Alone(vReq') /\ \A q \in Procs : vReq'[q].pc # "copy"
    BY <1>1, <2>2 DEF Alone
  <2>4. file.how = "copy" => \A f \in DOMAIN files : files[f].content # file.content
    BY <2>1 DEF OneCopyEach
  <2>5. \A f, g \in DOMAIN files' :
          files'[f].how = "copy" /\ files'[g].how = "copy"
          /\ files'[f].content = files'[g].content => f = g
    BY <1>3, <2>1, <2>4 DEF OneCopyEach
  <2> QED
    BY <2>3, <2>5 DEF OneCopyEach
<1> QED
  BY <1>1, <1>3, <1>4, <1>5, <1>6 DEF VaultInv

\* Each of the three that keep a file.
LEMMA CommitVault ==
  ASSUME VaultInv, NEW p \in Procs,
         V!ConfirmCommit(p) \/ V!ProofCommit(p) \/ V!CopyInsert(p)
  PROVE  VaultInv'
<1>1. vReq[p] \in VaultRequest
  BY DEF VaultInv
<1>2. CASE V!ConfirmCommit(p)
  <2>1. PICK content \in vReq[p].content, how \in {"upload", "hashed_upload"} :
          V!Kept([content |-> content, upload |-> vReq[p].upload, how |-> how])
    BY <1>2 DEF V!ConfirmCommit
  <2> DEFINE file == [content |-> content, upload |-> vReq[p].upload, how |-> how]
  <2>2. file \in File /\ file.how # "copy"
    BY <1>1 DEF VaultRequest, File
  <2>3. files' = Append(files, file)
    BY <2>1 DEF V!Kept
  <2> HIDE DEF file
  <2>4. vReq' = [vReq EXCEPT ![p] = V!Idle] /\ vReq[p].pc = "confirm"
        /\ count' = count + 1 /\ UNCHANGED <<uncounted, width>>
    BY <1>2 DEF V!ConfirmCommit, V!Done, V!At
  <2> QED
    BY <2>2, <2>3, <2>4, IdleVault, KeepVault
<1>3. CASE V!ProofCommit(p)
  <2>1. PICK content \in vReq[p].content :
          V!Kept([content |-> content, upload |-> V!NoUpload, how |-> "proof"])
    BY <1>3 DEF V!ProofCommit
  <2> DEFINE file == [content |-> content, upload |-> V!NoUpload, how |-> "proof"]
  <2>2. file \in File /\ file.how # "copy"
    BY <1>1 DEF VaultRequest, File, V!NoUpload
  <2>3. files' = Append(files, file)
    BY <2>1 DEF V!Kept
  <2> HIDE DEF file
  <2>4. vReq' = [vReq EXCEPT ![p] = V!Idle] /\ vReq[p].pc = "proof"
        /\ count' = count + 1 /\ UNCHANGED <<uncounted, width>>
    BY <1>3 DEF V!ProofCommit, V!Done, V!At
  <2> QED
    BY <2>2, <2>3, <2>4, IdleVault, KeepVault
<1>4. CASE V!CopyInsert(p)
  <2>1. PICK content \in vReq[p].content :
          V!Kept([content |-> content, upload |-> V!NoUpload, how |-> "copy"])
    BY <1>4 DEF V!CopyInsert
  <2> DEFINE file == [content |-> content, upload |-> V!NoUpload, how |-> "copy"]
             r    == [vReq[p] EXCEPT !.pc = "copy_count"]
  <2>2. file \in File /\ file.content = content
    BY <1>1 DEF VaultRequest, File, V!NoUpload
  <2>3. files' = Append(files, file)
    BY <2>1 DEF V!Kept
  <2>4. r \in VaultRequest /\ r.pc = "copy_count"
    BY <1>1 DEF VaultRequest
  <2>5. vReq' = [vReq EXCEPT ![p] = r] /\ vReq[p].pc = "copy"
        /\ count' = count /\ UNCHANGED <<uncounted, width>>
    BY <1>4 DEF V!CopyInsert, V!At
  <2> HIDE DEF file, r
  <2>6. count' = count + (IF r.pc = "copy_count" THEN 0 ELSE 1)
    BY <2>4, <2>5 DEF VaultInv
  <2> QED
    BY <2>2, <2>3, <2>4, <2>5, <2>6, KeepVault
<1> QED
  BY <1>2, <1>3, <1>4

\* A request that ends, having counted its copy or been kept from it.
LEMMA EndVault ==
  ASSUME VaultInv, NEW p \in Procs, V!CopyCount(p) \/ V!Lost(p)
  PROVE  VaultInv'
<1>1. vReq' = [vReq EXCEPT ![p] = V!Idle] /\ UNCHANGED <<files, width>>
  BY DEF V!CopyCount, V!Lost, V!Done
<1>2. vReq' \in [Procs -> VaultRequest] /\ vReq'[p] = V!Idle
      /\ \A q \in Procs \ {p} : vReq'[q] = vReq[q]
  BY <1>1, IdleVault DEF VaultInv
<1>3. count' \in Nat /\ uncounted' \in Nat
  BY DEF V!CopyCount, V!Lost, VaultInv
<1>4. FilesCounted'
  <2> DEFINE before == Cardinality(Counters(vReq))
             after  == Cardinality(Counters(vReq'))
             one    == IF vReq[p].pc = "copy_count" THEN 1 ELSE 0
  <2>1. before = after + one
    <3>1. \A q \in Procs \ {p} : vReq[q] = vReq'[q]
      BY <1>2
    <3>2. vReq'[p].pc # "copy_count"
      BY <1>2, IdleVault
    <3>3. /\ vReq[p].pc = "copy_count" => before = after + 1
          /\ vReq[p].pc # "copy_count" => before = after
      BY <3>1, <3>2, CountersGrow
    <3>4. after \in Nat
      BY CountersFinite
    <3> HIDE DEF before, after
    <3> QED
      BY <3>3, <3>4
  <2>2. before \in Nat /\ after \in Nat /\ one \in Nat
    BY CountersFinite
  <2>3. count + before + uncounted = Len(files) /\ count \in Nat /\ uncounted \in Nat
    BY DEF VaultInv, FilesCounted
  <2>4. \/ count' = count + one /\ uncounted' = uncounted
        \/ count' = count /\ uncounted' = uncounted + one
    BY DEF V!CopyCount, V!Lost, V!At
  <2> HIDE DEF before, after, one
  <2>5. count' + after + uncounted' = count + before + uncounted
    <3>1. CASE count' = count + one /\ uncounted' = uncounted
      BY <2>1, <2>2, <2>3, <3>1
    <3>2. CASE count' = count /\ uncounted' = uncounted + one
      BY <2>1, <2>2, <2>3, <3>2
    <3> QED
      BY <2>4, <3>1, <3>2
  <2>6. count' + after + uncounted' = Len(files')
    BY <1>1, <2>3, <2>5
  <2> QED
    BY <2>6 DEF FilesCounted, after
<1>5. ASSUME width = 1 PROVE OneCopyEach'
  BY <1>1, <1>2, <1>5, IdleVault DEF VaultInv, OneCopyEach, Alone
<1> QED
  BY <1>1, <1>2, <1>3, <1>4, <1>5 DEF VaultInv

\* No step of Desks leaves the invariant of the vault.
LEMMA NextVault == VaultInv /\ [Next]_vars => VaultInv'
<1> SUFFICES ASSUME VaultInv, [Next]_vars PROVE VaultInv'
  OBVIOUS
<1>1. UNCHANGED width
  BY WidthStays
<1>2. V!Next \/ UNCHANGED <<files, count, uncounted, vReq>>
  BY DEF Next, Only, vars, V_vars
<1>3. CASE V!Next
  BY <1>3, CheckVault, CommitVault, EndVault DEF V!Next, V!Step
<1>4. CASE UNCHANGED <<files, count, uncounted, vReq>>
  BY <1>1, <1>4 DEF VaultInv, FilesCounted, OneCopyEach, Alone
<1> QED
  BY <1>2, <1>3, <1>4

\* The count adds up, and nothing is copied twice.
LEMMA VaultHolds == VaultInv => V!VaultAddsUp
<1> SUFFICES ASSUME VaultInv PROVE V!VaultAddsUp
  OBVIOUS
<1>1. V!Counting = Cardinality(Counters(vReq))
  <2>1. V!Counting = V!Cardinality(Counters(vReq))
    BY DEF V!Counting, V!At, Counters
  <2>2. V!Cardinality(Counters(vReq)) = Cardinality(Counters(vReq))
    BY DEF V!Cardinality, Cardinality
  <2> QED
    BY <2>1, <2>2
<1>2. ASSUME width = 1, NEW content \in Contents
      PROVE  V!Cardinality(V!HeldAs(content, {"copy"})) <= 1
  <2> DEFINE T == V!HeldAs(content, {"copy"})
  <2>1. \A x, y \in T : x = y
    BY <1>2 DEF VaultInv, OneCopyEach, V!HeldAs
  <2>2. V!Cardinality(T) = Cardinality(T)
    BY DEF V!Cardinality, Cardinality
  <2> HIDE DEF T
  <2>3. Cardinality(T) <= 1
    BY <2>1, AtMostOne
  <2> QED
    BY <2>2, <2>3 DEF T
<1> QED
  BY <1>1, <1>2 DEF VaultInv, FilesCounted, V!VaultAddsUp

\* Every evidence file is counted, is about to be, or was kept from it by a crash; one at a
\* time, nothing is copied twice (vault.service.ts, nbr-website.service.ts copyEvidence).
THEOREM VaultCounts == Spec => []VaultAddsUp
<1>1. Init => VaultInv
  BY InitVault
<1>2. VaultInv /\ [Next]_vars => VaultInv'
  BY NextVault
<1>3. VaultInv => VaultAddsUp
  BY VaultHolds DEF VaultAddsUp
<1> QED
  BY <1>1, <1>2, <1>3, PTL DEF Spec

-----------------------------------------------------------------------------
(* Leads.                                                                  *)

LeadStatus  == L!LEAD_STATUS \cup LeadStatuses
Lead        == [status : LeadStatus, deleted : BOOLEAN]
LeadRequest == [pc : {"idle", "create", "write", "open_applicant", "link"},
                lead : Nat, status : LeadStatus]

\* The applicants there were, where lead l was turned into n[l] of them.
OpeningsOf(n) == UNION {{l} \X (1 .. n[l]) : l \in DOMAIN n}

\* There were as many as the number was given up, and the one who has it.
OneOfANumber ==
  /\ IsFiniteSet(OpeningsOf(opened))
  /\ Cardinality(OpeningsOf(opened)) <= freed + (IF taken THEN 1 ELSE 0)

\* One at a time, a lead was turned into an applicant once, and once more for each time it
\* was taken out of converted; the one being turned into another is not converted.
OneConversion ==
  /\ Alone(lReq)
  /\ \A p \in Procs : lReq[p].pc \in {"open_applicant", "link"} =>
       leads[lReq[p].lead].status # "converted" /\ lReq[p].status = "converted"
  /\ \A l \in DOMAIN leads :
       \/ opened[l] <= reopened[l]
       \/ /\ opened[l] = reopened[l] + 1
          /\ \/ leads[l].status = "converted"
             \/ \E p \in Procs : lReq[p].pc = "link" /\ lReq[p].lead = l

LeadsInv ==
  /\ leads \in Seq(Lead) /\ opened \in Seq(Nat) /\ reopened \in Seq(Nat)
  /\ Len(opened) = Len(leads) /\ Len(reopened) = Len(leads)
  /\ taken \in BOOLEAN /\ freed \in Nat
  /\ lReq \in [Procs -> LeadRequest]
  /\ \A p \in Procs :
       lReq[p].pc \in {"write", "open_applicant", "link"} => lReq[p].lead \in DOMAIN leads
  /\ OneOfANumber
  /\ width = 1 => OneConversion

\* A request that is put back to idle is a request.
LEMMA IdleLead == L!Idle \in LeadRequest /\ L!Idle.pc = "idle"
BY DEF L!Idle, LeadRequest, LeadStatus, L!LEAD_STATUS

\* One at a time, a request begins when none is under way.
LEMMA LeadsFree ==
  ASSUME NEW p, L!Free(p), width = 1
  PROVE  AllIdle(lReq)
<1> DEFINE busy == {q \in Procs : lReq[q].pc # "idle"}
<1>1. L!Cardinality(busy) = Cardinality(busy)
  BY DEF L!Cardinality, Cardinality
<1>2. L!Cardinality(busy) < width
  BY DEF L!Free
<1>3. busy = {}
  BY <1>1, <1>2, FreeIsAlone
<1> QED
  BY <1>3 DEF AllIdle

\* The applicants of the leads, one by one.
LEMMA OpeningsAre ==
  ASSUME NEW n, NEW x
  PROVE  x \in OpeningsOf(n) <=> \E l \in DOMAIN n : \E k \in 1 .. n[l] : x = <<l, k>>
BY DEF OpeningsOf

\* A lead that comes has none yet.
LEMMA OpeningsOfNew ==
  ASSUME NEW n \in Seq(Nat)
  PROVE  OpeningsOf(Append(n, 0)) = OpeningsOf(n)
<1> DEFINE m == Append(n, 0)
<1>1. /\ DOMAIN m = 1 .. Len(n) + 1 /\ DOMAIN n = 1 .. Len(n) /\ Len(n) \in Nat
      /\ m[Len(n) + 1] = 0 /\ \A l \in DOMAIN n : m[l] = n[l]
  OBVIOUS
<1> HIDE DEF m
<1>2. \A x : x \in OpeningsOf(m) <=> x \in OpeningsOf(n)
  <2> TAKE x
  <2>1. ASSUME x \in OpeningsOf(m) PROVE x \in OpeningsOf(n)
    <3>1. PICK k \in DOMAIN m : \E i \in 1 .. m[k] : x = <<k, i>>
      BY <2>1, OpeningsAre
    <3>2. k \in DOMAIN n
      <4>1. \A i : i \notin 1 .. 0
        OBVIOUS
      <4> QED
        BY <1>1, <3>1, <4>1
    <3> QED
      BY <1>1, <3>1, <3>2, OpeningsAre
  <2>2. ASSUME x \in OpeningsOf(n) PROVE x \in OpeningsOf(m)
    <3>1. PICK k \in DOMAIN n : \E i \in 1 .. n[k] : x = <<k, i>>
      BY <2>2, OpeningsAre
    <3>2. k \in DOMAIN m /\ m[k] = n[k]
      BY <1>1, <3>1
    <3> QED
      BY <3>1, <3>2, OpeningsAre
  <2> QED
    BY <2>1, <2>2
<1> QED
  BY <1>2 DEF m

\* A lead that is turned into one more has that one more.
LEMMA OpeningsOfMore ==
  ASSUME NEW n \in Seq(Nat), NEW l \in DOMAIN n
  PROVE  /\ OpeningsOf([n EXCEPT ![l] = @ + 1]) = OpeningsOf(n) \cup {<<l, n[l] + 1>>}
         /\ <<l, n[l] + 1>> \notin OpeningsOf(n)
<1> DEFINE m == [n EXCEPT ![l] = @ + 1]
<1>1. /\ DOMAIN m = DOMAIN n /\ n[l] \in Nat /\ m[l] = n[l] + 1
      /\ \A k \in DOMAIN n \ {l} : m[k] = n[k]
  OBVIOUS
<1> HIDE DEF m
<1>2. \A x : x \in OpeningsOf(m) <=> x \in OpeningsOf(n) \/ x = <<l, n[l] + 1>>
  <2> TAKE x
  <2>1. ASSUME x \in OpeningsOf(m) PROVE x \in OpeningsOf(n) \/ x = <<l, n[l] + 1>>
    <3>0. PICK k \in DOMAIN m : \E i \in 1 .. m[k] : x = <<k, i>>
      BY <2>1, OpeningsAre
    <3>1. PICK i \in 1 .. m[k] : x = <<k, i>>
      BY <3>0
    <3>2. CASE k = l
      <4>1. i \in 1 .. n[l] \/ i = n[l] + 1
        BY <1>1, <3>2
      <4> QED
        BY <3>1, <3>2, <4>1, OpeningsAre
    <3>3. CASE k # l
      BY <1>1, <3>1, <3>3, OpeningsAre
    <3> QED
      BY <3>2, <3>3
  <2>2. ASSUME x \in OpeningsOf(n) PROVE x \in OpeningsOf(m)
    <3>0. PICK k \in DOMAIN n : \E i \in 1 .. n[k] : x = <<k, i>>
      BY <2>2, OpeningsAre
    <3>1. PICK i \in 1 .. n[k] : x = <<k, i>>
      BY <3>0
    <3>2. n[k] \in Nat /\ (m[k] = n[k] \/ m[k] = n[k] + 1)
      BY <1>1
    <3>3. i \in 1 .. m[k]
      BY <3>2
    <3> QED
      BY <1>1, <3>1, <3>3, OpeningsAre
  <2>3. ASSUME x = <<l, n[l] + 1>> PROVE x \in OpeningsOf(m)
    <3>1. n[l] + 1 \in 1 .. m[l]
      BY <1>1
    <3> QED
      BY <1>1, <2>3, <3>1, OpeningsAre
  <2> QED
    BY <2>1, <2>2, <2>3
<1>3. <<l, n[l] + 1>> \notin OpeningsOf(n)
  BY <1>1, OpeningsAre
<1> QED
  BY <1>2, <1>3 DEF m

\* There are no leads yet.
LEMMA InitLeads == Init => LeadsInv
<1> SUFFICES ASSUME Init PROVE LeadsInv
  OBVIOUS
<1>1. /\ leads = <<>> /\ opened = <<>> /\ reopened = <<>> /\ taken = FALSE /\ freed = 0
      /\ lReq = [p \in Procs |-> L!Idle]
  BY DEF Init, L!Init
<1>2. \A p \in Procs : lReq[p].pc = "idle"
  BY <1>1, IdleLead
<1>3. OpeningsOf(opened) = {}
  BY <1>1 DEF OpeningsOf
<1>4. OneOfANumber
  BY <1>1, <1>3, FS_EmptySet DEF OneOfANumber
<1>5. /\ leads \in Seq(Lead) /\ opened \in Seq(Nat) /\ reopened \in Seq(Nat)
      /\ Len(opened) = Len(leads) /\ Len(reopened) = Len(leads) /\ DOMAIN leads = {}
  BY <1>1
<1>6. OneConversion
  BY <1>2, <1>5 DEF OneConversion, Alone
<1> QED
  BY <1>1, <1>2, <1>4, <1>5, <1>6, IdleLead DEF LeadsInv

\* A request that begins changes nothing yet; a conversion begins at a lead that is not
\* converted.
LEMMA BeginLeads ==
  ASSUME LeadsInv, NEW p \in Procs, L!Free(p),
         NEW r \in LeadRequest, r.pc \in {"create", "write", "open_applicant"},
         lReq' = [lReq EXCEPT ![p] = r],
         r.pc # "create" => r.lead \in DOMAIN leads,
         r.pc = "open_applicant" =>
           leads[r.lead].status # "converted" /\ r.status = "converted",
         UNCHANGED <<leads, opened, reopened, taken, freed, width>>
  PROVE  LeadsInv'
<1>1. lReq' \in [Procs -> LeadRequest] /\ lReq'[p] = r
      /\ \A q \in Procs \ {p} : lReq'[q] = lReq[q]
  BY DEF LeadsInv
<1>2. ASSUME width = 1 PROVE OneConversion'
  <2>1. AllIdle(lReq) /\ OneConversion
    BY <1>2, LeadsFree DEF LeadsInv
  <2>2. Alone(lReq') /\ \A q \in Procs \ {p} : lReq'[q].pc = "idle"
    BY <1>1, <2>1 DEF AllIdle, Alone
  <2> QED
    BY <1>1, <2>1, <2>2 DEF OneConversion, AllIdle
<1> QED
  BY <1>1, <1>2 DEF LeadsInv, OneOfANumber

\* Each of the four that look first.
LEMMA LookLeads ==
  ASSUME LeadsInv, NEW p \in Procs,
         L!CreateCheck(p) \/ L!EditRead(p) \/ L!CallRead(p) \/ L!ConvertRead(p)
  PROVE  LeadsInv'
<1>1. /\ L!Free(p) /\ UNCHANGED <<leads, opened, reopened, taken, freed, width>>
      /\ leads \in Seq(Lead)
  BY DEF L!CreateCheck, L!EditRead, L!CallRead, L!ConvertRead, LeadsInv
<1>2. ASSUME NEW l \in Nat, NEW pc \in {"create", "write", "open_applicant"},
             NEW s \in LeadStatus, L!LookedUp(p, l, pc, s),
             pc # "create" => l \in DOMAIN leads,
             pc = "open_applicant" => leads[l].status # "converted" /\ s = "converted"
      PROVE  LeadsInv'
  <2> DEFINE r == [pc |-> pc, lead |-> l, status |-> s]
  <2>1. r \in LeadRequest /\ r.pc = pc /\ r.lead = l /\ r.status = s
    BY DEF LeadRequest
  <2>2. lReq' = [lReq EXCEPT ![p] = r]
    BY <1>2 DEF L!LookedUp
  <2> HIDE DEF r
  <2> QED
    BY <1>1, <1>2, <2>1, <2>2, BeginLeads
<1>3. "new" \in LeadStatus /\ "converted" \in LeadStatus
  BY DEF LeadStatus, L!LEAD_STATUS
<1>4. CASE L!CreateCheck(p)
  BY <1>2, <1>3, <1>4 DEF L!CreateCheck
<1>5. CASE L!EditRead(p)
  <2>1. PICK l \in DOMAIN leads, s \in LeadStatuses : L!LookedUp(p, l, "write", s)
    BY <1>5 DEF L!EditRead
  <2> QED
    BY <1>1, <1>2, <2>1 DEF LeadStatus
<1>6. CASE L!CallRead(p)
  <2>0. PICK l \in DOMAIN leads : \E s \in LeadStatuses \cup {leads[l].status} :
          L!LookedUp(p, l, "write", s)
    BY <1>6 DEF L!CallRead
  <2>1. PICK s \in LeadStatuses \cup {leads[l].status} : L!LookedUp(p, l, "write", s)
    BY <2>0
  <2>2. l \in Nat /\ leads[l] \in Lead
    BY <1>1
  <2>3. s \in LeadStatus
    BY <2>1, <2>2 DEF Lead, LeadStatus
  <2> QED
    BY <1>2, <2>1, <2>2, <2>3
<1>7. CASE L!ConvertRead(p)
  <2>1. PICK l \in DOMAIN leads :
          L!Workable(l, FALSE) /\ L!LookedUp(p, l, "open_applicant", "converted")
    BY <1>7 DEF L!ConvertRead
  <2>2. l \in Nat /\ leads[l].status # "converted"
    BY <1>1, <2>1 DEF L!Workable
  <2> QED
    BY <1>2, <1>3, <2>1, <2>2
<1> QED
  BY <1>4, <1>5, <1>6, <1>7

\* A lead that is opened was turned into nobody.
LEMMA InsertLeads ==
  ASSUME LeadsInv, NEW p \in Procs, L!CreateInsert(p)
  PROVE  LeadsInv'
<1> DEFINE row == [status |-> "new", deleted |-> FALSE]
<1>1. row \in Lead
  BY DEF Lead, LeadStatus, L!LEAD_STATUS
<1>2. /\ leads' = Append(leads, row)
      /\ opened' = Append(opened, 0) /\ reopened' = Append(reopened, 0)
      /\ lReq' = [lReq EXCEPT ![p] = L!Idle] /\ UNCHANGED <<taken, freed, width>>
      /\ lReq[p].pc = "create"
  BY DEF L!CreateInsert, L!Done, L!At
<1> HIDE DEF row
<1>3. /\ leads \in Seq(Lead) /\ opened \in Seq(Nat) /\ reopened \in Seq(Nat)
      /\ Len(opened) = Len(leads) /\ Len(reopened) = Len(leads) /\ Len(leads) \in Nat
  BY DEF LeadsInv
<1>4. /\ leads' \in Seq(Lead) /\ Len(leads') = Len(leads) + 1
      /\ DOMAIN leads' = 1 .. Len(leads) + 1 /\ DOMAIN leads = 1 .. Len(leads)
      /\ \A l \in DOMAIN leads : leads'[l] = leads[l]
  BY <1>1, <1>2, <1>3
<1>5. /\ opened' \in Seq(Nat) /\ Len(opened') = Len(leads) + 1
      /\ opened'[Len(leads) + 1] = 0 /\ \A l \in DOMAIN leads : opened'[l] = opened[l]
  BY <1>2, <1>3
<1>6. /\ reopened' \in Seq(Nat) /\ Len(reopened') = Len(leads) + 1
      /\ reopened'[Len(leads) + 1] = 0 /\ \A l \in DOMAIN leads : reopened'[l] = reopened[l]
  BY <1>2, <1>3
<1>7. lReq' \in [Procs -> LeadRequest] /\ lReq'[p] = L!Idle
      /\ \A q \in Procs \ {p} : lReq'[q] = lReq[q]
  BY <1>2, IdleLead DEF LeadsInv
<1>8. OneOfANumber'
  <2>1. OpeningsOf(opened') = OpeningsOf(opened)
    BY <1>2, <1>3, OpeningsOfNew
  <2> QED
    BY <1>2, <2>1 DEF LeadsInv, OneOfANumber
<1>9. ASSUME width = 1 PROVE OneConversion'
  <2>1. OneConversion
    BY <1>9 DEF LeadsInv
  <2>2. \A q \in Procs : lReq'[q].pc = "idle" /\ lReq[q].pc # "link"
    BY <1>2, <1>7, <2>1, IdleLead DEF OneConversion, Alone
  <2>3. ASSUME NEW l \in DOMAIN leads'
        PROVE  \/ opened'[l] <= reopened'[l]
               \/ opened'[l] = reopened'[l] + 1 /\ leads'[l].status = "converted"
    <3>1. CASE l \in DOMAIN leads
      BY <1>4, <1>5, <1>6, <2>1, <2>2, <3>1 DEF OneConversion
    <3>2. CASE l = Len(leads) + 1
      BY <1>5, <1>6, <3>2
    <3> QED
      BY <1>3, <1>4, <3>1, <3>2
  <2> QED
    BY <2>2, <2>3 DEF OneConversion, Alone
<1>10. \A q \in Procs :
         lReq'[q].pc \in {"write", "open_applicant", "link"} => lReq'[q].lead \in DOMAIN leads'
  <2>1. DOMAIN leads \subseteq DOMAIN leads'
    BY <1>3, <1>4
  <2> QED
    BY <1>7, <2>1, IdleLead DEF LeadsInv
<1> QED
  BY <1>2, <1>3, <1>4, <1>5, <1>6, <1>7, <1>8, <1>9, <1>10 DEF LeadsInv

\* What the write of a status does to the rows.
LEMMA StatusIsSet ==
  ASSUME LeadsInv, NEW l \in DOMAIN leads, NEW s \in LeadStatus, L!SetStatus(l, s)
  PROVE  /\ leads' \in Seq(Lead) /\ Len(leads') = Len(leads)
         /\ DOMAIN leads' = DOMAIN leads /\ leads'[l].status = s
         /\ \A k \in DOMAIN leads \ {l} : leads'[k] = leads[k]
         /\ reopened' \in Seq(Nat) /\ Len(reopened') = Len(leads)
         /\ \A k \in DOMAIN leads \ {l} : reopened'[k] = reopened[k]
         /\ reopened[l] \in Nat
         /\ reopened'[l] = IF leads[l].status = "converted" /\ s # "converted"
                           THEN reopened[l] + 1 ELSE reopened[l]
<1> DEFINE row == [leads[l] EXCEPT !.status = s]
<1>1. /\ leads \in Seq(Lead) /\ leads[l] \in Lead
      /\ reopened \in Seq(Nat) /\ Len(reopened) = Len(leads) /\ l \in DOMAIN reopened
  BY DEF LeadsInv
<1>2. row \in Lead /\ row.status = s
  BY <1>1 DEF Lead
<1>3. leads' = [leads EXCEPT ![l] = row]
  BY <1>1 DEF L!SetStatus
<1> HIDE DEF row
<1>4. /\ leads' \in Seq(Lead) /\ Len(leads') = Len(leads)
      /\ DOMAIN leads' = DOMAIN leads /\ leads'[l].status = s
      /\ \A k \in DOMAIN leads \ {l} : leads'[k] = leads[k]
  BY <1>1, <1>2, <1>3
<1>5. CASE leads[l].status = "converted" /\ s # "converted"
  <2>1. reopened' = [reopened EXCEPT ![l] = @ + 1]
    BY <1>5 DEF L!SetStatus
  <2> QED
    BY <1>1, <1>4, <1>5, <2>1
<1>6. CASE ~(leads[l].status = "converted" /\ s # "converted")
  <2>1. reopened' = reopened
    BY <1>6 DEF L!SetStatus
  <2> QED
    BY <1>1, <1>4, <1>6, <2>1
<1> QED
  BY <1>5, <1>6

\* A status is written, by a form or at the end of a conversion.
LEMMA WriteLeads ==
  ASSUME LeadsInv, NEW p \in Procs, L!StatusWrite(p) \/ L!ConvertLink(p)
  PROVE  LeadsInv'
<1> DEFINE l == lReq[p].lead
           s == lReq[p].status
<1>1. /\ lReq[p].pc \in {"write", "link"} /\ l \in DOMAIN leads /\ s \in LeadStatus
      /\ L!SetStatus(l, s)
      /\ lReq' = [lReq EXCEPT ![p] = L!Idle] /\ UNCHANGED <<opened, taken, freed, width>>
  BY DEF L!StatusWrite, L!ConvertLink, L!Done, L!At, LeadsInv, LeadRequest
<1>2. lReq' \in [Procs -> LeadRequest] /\ lReq'[p] = L!Idle
      /\ \A q \in Procs \ {p} : lReq'[q] = lReq[q]
  BY <1>1, IdleLead DEF LeadsInv
<1> HIDE DEF l, s
<1>3. /\ leads' \in Seq(Lead) /\ Len(leads') = Len(leads)
      /\ DOMAIN leads' = DOMAIN leads /\ leads'[l].status = s
      /\ \A k \in DOMAIN leads \ {l} : leads'[k] = leads[k]
      /\ reopened' \in Seq(Nat) /\ Len(reopened') = Len(leads)
      /\ \A k \in DOMAIN leads \ {l} : reopened'[k] = reopened[k]
      /\ reopened[l] \in Nat
      /\ reopened'[l] = IF leads[l].status = "converted" /\ s # "converted"
                        THEN reopened[l] + 1 ELSE reopened[l]
  BY <1>1, StatusIsSet
<1>4. ASSUME width = 1 PROVE OneConversion'
  <2>1. OneConversion
    BY <1>4 DEF LeadsInv
  <2>2. \A q \in Procs : lReq'[q].pc = "idle" /\ (lReq[q].pc = "link" => q = p)
    BY <1>1, <1>2, <2>1, IdleLead DEF OneConversion, Alone
  <2>3. ASSUME NEW k \in DOMAIN leads
        PROVE  \/ opened[k] <= reopened'[k]
               \/ opened[k] = reopened'[k] + 1 /\ leads'[k].status = "converted"
    <3>1. \/ opened[k] <= reopened[k]
          \/ /\ opened[k] = reopened[k] + 1
             /\ leads[k].status = "converted" \/ (lReq[p].pc = "link" /\ l = k)
      BY <2>1, <2>2 DEF OneConversion, l
    <3>2. lReq[p].pc = "link" => leads[l].status # "converted" /\ s = "converted"
      BY <2>1 DEF OneConversion, l, s
    <3>3. opened[k] \in Nat
      BY DEF LeadsInv
    <3>4. CASE k = l
      BY <1>3, <3>1, <3>2, <3>3, <3>4
    <3>5. CASE k # l
      BY <1>3, <3>1, <3>5
    <3> QED
      BY <3>4, <3>5
  <2> QED
    BY <1>1, <1>3, <2>2, <2>3 DEF OneConversion, Alone
<1>5. \A q \in Procs :
        lReq'[q].pc \in {"write", "open_applicant", "link"} => lReq'[q].lead \in DOMAIN leads'
  BY <1>2, <1>3, IdleLead DEF LeadsInv
<1> QED
  BY <1>1, <1>2, <1>3, <1>4, <1>5 DEF LeadsInv, OneOfANumber

\* A lead that is removed keeps its status.
LEMMA RemoveLeads ==
  ASSUME LeadsInv, NEW p \in Procs, L!Remove(p)
  PROVE  LeadsInv'
<1>1. PICK l \in DOMAIN leads : leads' = [leads EXCEPT ![l].deleted = TRUE]
  BY DEF L!Remove
<1>2. leads \in Seq(Lead) /\ UNCHANGED <<opened, reopened, taken, freed, lReq, width>>
  BY DEF L!Remove, LeadsInv
<1> DEFINE row == [leads[l] EXCEPT !.deleted = TRUE]
<1>3. leads' = [leads EXCEPT ![l] = row] /\ leads[l] \in Lead
  BY <1>1, <1>2
<1>4. row \in Lead /\ row.status = leads[l].status
  BY <1>3 DEF Lead
<1> HIDE DEF row
<1>5. /\ leads' \in Seq(Lead) /\ Len(leads') = Len(leads) /\ DOMAIN leads' = DOMAIN leads
      /\ \A k \in DOMAIN leads : leads'[k].status = leads[k].status
  BY <1>2, <1>3, <1>4
<1>6. ASSUME width = 1 PROVE OneConversion'
  <2>1. OneConversion
    BY <1>6 DEF LeadsInv
  <2>2. \A q \in Procs : lReq[q].pc \in {"open_applicant", "link"} =>
                           lReq[q].lead \in DOMAIN leads
    BY DEF LeadsInv
  <2> QED
    BY <1>2, <1>5, <2>1, <2>2 DEF OneConversion, Alone
<1> QED
  BY <1>2, <1>5, <1>6 DEF LeadsInv, OneOfANumber

\* The applicant a lead is turned into takes the number.
LEMMA ConvertLeads ==
  ASSUME LeadsInv, NEW p \in Procs, L!ConvertCreate(p)
  PROVE  LeadsInv'
<1> DEFINE l == lReq[p].lead
           r == [lReq[p] EXCEPT !.pc = "link"]
<1>1. /\ lReq[p].pc = "open_applicant" /\ l \in DOMAIN leads /\ lReq[p] \in LeadRequest
      /\ ~taken /\ taken' = TRUE /\ opened' = [opened EXCEPT ![l] = @ + 1]
      /\ UNCHANGED <<leads, reopened, freed, width>>
  BY DEF L!ConvertCreate, L!At, LeadsInv
<1>2. lReq' = [lReq EXCEPT ![p] = r]
  BY <1>1 DEF L!ConvertCreate, LeadRequest, LeadsInv
<1>3. r \in LeadRequest /\ r.pc = "link" /\ r.lead = l /\ r.status = lReq[p].status
  BY <1>1 DEF LeadRequest
<1> HIDE DEF r, l
<1>4. lReq' \in [Procs -> LeadRequest] /\ lReq'[p] = r
      /\ \A q \in Procs \ {p} : lReq'[q] = lReq[q]
  BY <1>2, <1>3 DEF LeadsInv
<1>5. /\ opened \in Seq(Nat) /\ l \in DOMAIN opened /\ Len(opened) = Len(leads)
      /\ reopened \in Seq(Nat) /\ DOMAIN reopened = DOMAIN leads
  BY <1>1 DEF LeadsInv
<1>6. /\ opened' \in Seq(Nat) /\ Len(opened') = Len(opened)
      /\ opened'[l] = opened[l] + 1 /\ opened[l] \in Nat
      /\ \A k \in DOMAIN leads \ {l} : opened'[k] = opened[k]
  BY <1>1, <1>5
<1>7. OneOfANumber'
  <2> DEFINE one == <<l, opened[l] + 1>>
  <2>1. OpeningsOf(opened') = OpeningsOf(opened) \cup {one} /\ one \notin OpeningsOf(opened)
    BY <1>1, <1>5, OpeningsOfMore
  <2>2. IsFiniteSet(OpeningsOf(opened)) /\ Cardinality(OpeningsOf(opened)) <= freed
    BY <1>1 DEF LeadsInv, OneOfANumber
  <2> HIDE DEF one
  <2>3. /\ IsFiniteSet(OpeningsOf(opened'))
        /\ Cardinality(OpeningsOf(opened')) = Cardinality(OpeningsOf(opened)) + 1
    BY <2>1, <2>2, FS_AddElement
  <2>4. Cardinality(OpeningsOf(opened)) \in Nat /\ freed \in Nat
    BY <2>2, FS_CardinalityType DEF LeadsInv
  <2> QED
    BY <1>1, <2>2, <2>3, <2>4 DEF OneOfANumber
<1>8. ASSUME width = 1 PROVE OneConversion'
  <2>1. OneConversion
    BY <1>8 DEF LeadsInv
  <2>2. Alone(lReq') /\ \A q \in Procs : lReq[q].pc # "link" /\ (q # p => lReq'[q].pc = "idle")
    BY <1>1, <1>4, <2>1 DEF OneConversion, Alone
  <2>3. leads[l].status # "converted" /\ r.status = "converted"
    BY <1>1, <1>3, <2>1 DEF OneConversion, l
  <2>4. ASSUME NEW k \in DOMAIN leads
        PROVE  \/ opened'[k] <= reopened[k]
               \/ /\ opened'[k] = reopened[k] + 1
                  /\ leads[k].status = "converted" \/ k = l
    <3>1. CASE k = l
      <4>1. opened[l] <= reopened[l]
        BY <2>1, <2>2, <2>3, <3>1 DEF OneConversion
      <4>2. reopened[l] \in Nat
        BY <1>5, <3>1
      <4> QED
        BY <1>6, <3>1, <4>1, <4>2
    <3>2. CASE k # l
      BY <1>6, <2>1, <2>2, <3>2 DEF OneConversion
    <3> QED
      BY <3>1, <3>2
  <2> QED
    BY <1>1, <1>3, <1>4, <2>2, <2>3, <2>4 DEF OneConversion
<1>9. \A q \in Procs :
        lReq'[q].pc \in {"write", "open_applicant", "link"} => lReq'[q].lead \in DOMAIN leads
  BY <1>1, <1>3, <1>4 DEF LeadsInv
<1> QED
  BY <1>1, <1>4, <1>5, <1>6, <1>7, <1>8, <1>9 DEF LeadsInv

\* The number is given to somebody else, or given up.
LEMMA MoveLeads ==
  ASSUME LeadsInv, L!NumberMoves
  PROVE  LeadsInv'
<1>1. /\ taken' = ~taken /\ freed' = freed + (IF taken THEN 1 ELSE 0)
      /\ UNCHANGED <<leads, opened, reopened, lReq, width>>
      /\ taken \in BOOLEAN /\ freed \in Nat
  BY DEF L!NumberMoves, LeadsInv
<1>2. OneOfANumber'
  <2>1. Cardinality(OpeningsOf(opened)) \in Nat
    BY FS_CardinalityType DEF LeadsInv, OneOfANumber
  <2>2. freed' + (IF taken' THEN 1 ELSE 0) >= freed + (IF taken THEN 1 ELSE 0)
    BY <1>1
  <2> QED
    BY <1>1, <2>1, <2>2 DEF LeadsInv, OneOfANumber
<1> QED
  BY <1>1, <1>2 DEF LeadsInv, OneConversion, Alone

\* A request that is lost leaves the rows as they were; one at a time, no conversion is
\* lost half-way.
LEMMA LostLeads ==
  ASSUME LeadsInv, NEW p \in Procs, L!Lost(p)
  PROVE  LeadsInv'
<1>1. /\ lReq' = [lReq EXCEPT ![p] = L!Idle] /\ lReq[p].pc # "idle"
      /\ width # 1 \/ lReq[p].pc # "link"
      /\ UNCHANGED <<leads, opened, reopened, taken, freed, width>>
  BY DEF L!Lost, L!Done, L!At
<1>2. lReq' \in [Procs -> LeadRequest] /\ lReq'[p] = L!Idle
      /\ \A q \in Procs \ {p} : lReq'[q] = lReq[q]
  BY <1>1, IdleLead DEF LeadsInv
<1>3. ASSUME width = 1 PROVE OneConversion'
  <2>1. OneConversion
    BY <1>3 DEF LeadsInv
  <2>2. \A q \in Procs : lReq'[q].pc = "idle" /\ lReq[q].pc # "link"
    BY <1>1, <1>2, <1>3, <2>1, IdleLead DEF OneConversion, Alone
  <2> QED
    BY <1>1, <2>1, <2>2 DEF OneConversion, Alone
<1> QED
  BY <1>1, <1>2, <1>3, IdleLead DEF LeadsInv, OneOfANumber

\* No step of Desks leaves the invariant of the leads.
LEMMA NextLeads == LeadsInv /\ [Next]_vars => LeadsInv'
<1> SUFFICES ASSUME LeadsInv, [Next]_vars PROVE LeadsInv'
  OBVIOUS
<1>1. UNCHANGED width
  BY WidthStays
<1>2. L!Next \/ UNCHANGED <<leads, opened, reopened, taken, freed, lReq>>
  BY DEF Next, Only, vars, L_vars
<1>3. CASE L!Next
  BY <1>3, LookLeads, InsertLeads, WriteLeads, RemoveLeads, ConvertLeads, MoveLeads, LostLeads
  DEF L!Next, L!Step
<1>4. CASE UNCHANGED <<leads, opened, reopened, taken, freed, lReq>>
  BY <1>1, <1>4 DEF LeadsInv, OneOfANumber, OneConversion, Alone
<1> QED
  BY <1>2, <1>3, <1>4

\* The leads of a number open one applicant.
LEMMA LeadsHold == LeadsInv => L!ConvertedOnce
<1> SUFFICES ASSUME LeadsInv PROVE L!ConvertedOnce
  OBVIOUS
<1>1. L!Cardinality(L!Openings) <= 1 + freed
  <2>1. L!Openings = OpeningsOf(opened)
    BY DEF L!Openings, OpeningsOf
  <2>2. L!Cardinality(L!Openings) = Cardinality(OpeningsOf(opened))
    BY <2>1 DEF L!Cardinality, Cardinality
  <2>3. Cardinality(OpeningsOf(opened)) \in Nat
    BY FS_CardinalityType DEF LeadsInv, OneOfANumber
  <2> QED
    BY <2>2, <2>3 DEF LeadsInv, OneOfANumber
<1>2. ASSUME L!Quiet, NEW l \in DOMAIN leads
      PROVE  opened[l] <= reopened[l] + (IF leads[l].status = "converted" THEN 1 ELSE 0)
  <2>1. opened[l] \in Nat /\ reopened[l] \in Nat
    BY DEF LeadsInv
  <2>2. OneConversion /\ \A p \in Procs : lReq[p].pc # "link"
    BY <1>2 DEF L!Quiet, LeadsInv
  <2>3. \/ opened[l] <= reopened[l]
        \/ opened[l] = reopened[l] + 1 /\ leads[l].status = "converted"
    BY <2>2 DEF OneConversion
  <2> QED
    BY <2>1, <2>3
<1> QED
  BY <1>1, <1>2 DEF L!ConvertedOnce

-----------------------------------------------------------------------------
(* Profiles and their records.                                             *)

Applicant == [deleted : BOOLEAN, number : BOOLEAN, count : Nat]
Record    == [applicant : Nat, website : BOOLEAN, deleted : BOOLEAN, mirrored : BOOLEAN]

IntakeRequest ==
  [pc : {"idle", "add", "import", "revive_record", "revive_applicant", "mirror", "reset"},
   applicant : Nat, record : Nat]

RecordsOf(rs, a) == {r \in DOMAIN rs : rs[r].applicant = a}

\* A profile counts its records.
CountsAgree ==
  /\ \A r \in DOMAIN records : records[r].applicant \in DOMAIN applicants
  /\ \A a \in DOMAIN applicants : applicants[a].count = Cardinality(RecordsOf(records, a))

\* What a request read of the rows is there, and is whose it was.
RequestKnows(r) ==
  /\ r.applicant \in 0 .. Len(applicants)
  /\ r.pc \in {"add", "revive_record", "revive_applicant"} => r.applicant # 0
  /\ r.pc \in {"revive_record", "revive_applicant", "mirror", "reset"} =>
       r.record \in DOMAIN records
  /\ r.pc \in {"revive_record", "revive_applicant"} =>
       records[r.record].applicant = r.applicant

\* One at a time, who is given a record can be seen, who is to be hidden has no other
\* record that can be, and a record that can be seen belongs to a profile that can, is
\* about to be brought back, or was left behind.
SeenTogether ==
  /\ Alone(nReq)
  /\ \A p \in Procs :
       LET a == nReq[p].applicant
       IN  /\ nReq[p].pc \in {"add", "import"} /\ a # 0 => ~applicants[a].deleted
           /\ nReq[p].pc = "reset" /\ a # 0 =>
                \A s \in RecordsOf(records, a) : s = nReq[p].record \/ records[s].deleted
  /\ \A r \in DOMAIN records : ~records[r].deleted =>
       \/ ~applicants[records[r].applicant].deleted
       \/ records[r].applicant \in stranded
       \/ \E p \in Procs : /\ nReq[p].pc = "revive_applicant"
                           /\ nReq[p].applicant = records[r].applicant

IntakeInv ==
  /\ applicants \in Seq(Applicant) /\ records \in Seq(Record)
  /\ nReq \in [Procs -> IntakeRequest]
  /\ CountsAgree
  /\ \A p \in Procs : RequestKnows(nReq[p])
  /\ width = 1 => SeenTogether

\* A request that is put back to idle knows nothing.
LEMMA IdleIntake ==
  N!Idle \in IntakeRequest /\ N!Idle.pc = "idle" /\ N!Idle.applicant = 0
BY DEF N!Idle, IntakeRequest

\* One at a time, a request begins when none is under way.
LEMMA IntakeFree ==
  ASSUME NEW p, N!Free(p), width = 1
  PROVE  AllIdle(nReq)
<1> DEFINE busy == {q \in Procs : nReq[q].pc # "idle"}
<1>1. N!Cardinality(busy) = Cardinality(busy)
  BY DEF N!Cardinality, Cardinality
<1>2. N!Cardinality(busy) < width
  BY DEF N!Free
<1>3. busy = {}
  BY <1>1, <1>2, FreeIsAlone
<1> QED
  BY <1>3 DEF AllIdle

\* Of the records rs, those of one applicant are a finite number.
LEMMA RecordsFinite ==
  ASSUME NEW rs \in Seq(Record), NEW a
  PROVE  IsFiniteSet(RecordsOf(rs, a)) /\ Cardinality(RecordsOf(rs, a)) \in Nat
<1>1. RecordsOf(rs, a) \subseteq 1 .. Len(rs) /\ Len(rs) \in Nat
  BY DEF RecordsOf
<1>2. IsFiniteSet(1 .. Len(rs))
  BY <1>1, FS_Interval
<1> QED
  BY <1>1, <1>2, FS_Subset, FS_CardinalityType

\* A record that is added is one more of its applicant, and of nobody else.
LEMMA RecordsMore ==
  ASSUME NEW rs \in Seq(Record), NEW row \in Record, NEW a
  PROVE  Cardinality(RecordsOf(Append(rs, row), a)) =
           Cardinality(RecordsOf(rs, a)) + (IF row.applicant = a THEN 1 ELSE 0)
<1> DEFINE more == Append(rs, row)
<1>1. /\ DOMAIN more = 1 .. Len(rs) + 1 /\ DOMAIN rs = 1 .. Len(rs) /\ Len(rs) \in Nat
      /\ more[Len(rs) + 1] = row /\ \A r \in DOMAIN rs : more[r] = rs[r]
  OBVIOUS
<1> HIDE DEF more
<1>2. IsFiniteSet(RecordsOf(rs, a)) /\ Cardinality(RecordsOf(rs, a)) \in Nat
  BY RecordsFinite
<1>3. CASE row.applicant = a
  <2>1. /\ RecordsOf(more, a) = RecordsOf(rs, a) \cup {Len(rs) + 1}
        /\ Len(rs) + 1 \notin RecordsOf(rs, a)
    BY <1>1, <1>3 DEF RecordsOf
  <2>2. Cardinality(RecordsOf(rs, a) \cup {Len(rs) + 1}) = Cardinality(RecordsOf(rs, a)) + 1
    BY <1>2, <2>1, FS_AddElement
  <2> QED
    BY <1>3, <2>1, <2>2 DEF more
<1>4. CASE row.applicant # a
  <2>1. RecordsOf(more, a) = RecordsOf(rs, a)
    BY <1>1, <1>4 DEF RecordsOf
  <2> QED
    BY <1>2, <1>4, <2>1 DEF more
<1> QED
  BY <1>3, <1>4

\* There is nobody yet.
LEMMA InitIntake == Init => IntakeInv
<1> SUFFICES ASSUME Init PROVE IntakeInv
  OBVIOUS
<1>1. applicants = <<>> /\ records = <<>> /\ nReq = [p \in Procs |-> N!Idle]
  BY DEF Init, N!Init
<1>2. applicants \in Seq(Applicant) /\ records \in Seq(Record)
      /\ DOMAIN applicants = {} /\ DOMAIN records = {} /\ Len(applicants) = 0
  BY <1>1
<1>3. \A p \in Procs : nReq[p] = N!Idle
  BY <1>1
<1>4. \A p \in Procs : RequestKnows(nReq[p])
  BY <1>2, <1>3, IdleIntake DEF RequestKnows
<1>5. SeenTogether
  BY <1>2, <1>3, IdleIntake DEF SeenTogether, Alone
<1> QED
  BY <1>1, <1>2, <1>4, <1>5, IdleIntake DEF IntakeInv, CountsAgree

\* A request that begins changes nothing yet.
LEMMA BeginIntake ==
  ASSUME IntakeInv, NEW p \in Procs, N!Free(p),
         NEW r \in IntakeRequest, RequestKnows(r), r.pc # "revive_applicant",
         nReq' = [nReq EXCEPT ![p] = r],
         r.pc \in {"add", "import"} /\ r.applicant # 0 => ~applicants[r.applicant].deleted,
         r.pc = "reset" /\ r.applicant # 0 =>
           \A s \in RecordsOf(records, r.applicant) : s = r.record \/ records[s].deleted,
         UNCHANGED <<applicants, records, stranded, width>>
  PROVE  IntakeInv'
<1>1. nReq' \in [Procs -> IntakeRequest] /\ nReq'[p] = r
      /\ \A q \in Procs \ {p} : nReq'[q] = nReq[q]
  BY DEF IntakeInv
<1>2. \A q \in Procs : RequestKnows(nReq[q])'
  BY <1>1 DEF IntakeInv, RequestKnows
<1>3. ASSUME width = 1 PROVE SeenTogether'
  <2>1. AllIdle(nReq) /\ SeenTogether
    BY <1>3, IntakeFree DEF IntakeInv
  <2>2. Alone(nReq') /\ \A q \in Procs \ {p} : nReq'[q].pc = "idle"
    BY <1>1, <2>1 DEF AllIdle, Alone
  <2>3. \A s \in DOMAIN records : ~records[s].deleted =>
          \/ ~applicants[records[s].applicant].deleted
          \/ records[s].applicant \in stranded
    BY <2>1 DEF SeenTogether, AllIdle
  <2> QED
    BY <1>1, <2>2, <2>3 DEF SeenTogether
<1> QED
  BY <1>1, <1>2, <1>3 DEF IntakeInv, CountsAgree

\* Each of the four that look first.
LEMMA LookIntake ==
  ASSUME IntakeInv, NEW p \in Procs,
         N!AddCheck(p) \/ N!ImportLookUp(p) \/ N!KnownLookUp(p) \/ N!ResetRead(p)
  PROVE  IntakeInv'
<1>1. /\ N!Free(p) /\ UNCHANGED <<applicants, records, stranded, width>>
      /\ applicants \in Seq(Applicant) /\ records \in Seq(Record)
      /\ DOMAIN applicants = 1 .. Len(applicants) /\ Len(applicants) \in Nat
      /\ \A s \in DOMAIN records : records[s].applicant \in DOMAIN applicants
  BY DEF N!AddCheck, N!ImportLookUp, N!KnownLookUp, N!ResetRead, IntakeInv, CountsAgree
<1>2. ASSUME NEW pc \in {"add", "import", "revive_record", "mirror", "reset"},
             NEW a \in 0 .. Len(applicants), NEW r \in Nat, N!Goto(p, pc, a, r),
             pc \in {"add", "revive_record"} => a # 0,
             pc \in {"revive_record", "mirror", "reset"} => r \in DOMAIN records,
             pc = "revive_record" => records[r].applicant = a,
             pc \in {"add", "import"} /\ a # 0 => ~applicants[a].deleted,
             pc = "reset" /\ a # 0 =>
               \A s \in RecordsOf(records, a) : s = r \/ records[s].deleted
      PROVE  IntakeInv'
  <2> DEFINE x == [pc |-> pc, applicant |-> a, record |-> r]
  <2>1. x \in IntakeRequest /\ x.pc = pc /\ x.applicant = a /\ x.record = r
    BY <1>1 DEF IntakeRequest
  <2>2. nReq' = [nReq EXCEPT ![p] = x]
    BY <1>2 DEF N!Goto
  <2> HIDE DEF x
  <2>3. RequestKnows(x)
    BY <1>2, <2>1 DEF RequestKnows
  <2> QED
    BY <1>1, <1>2, <2>1, <2>2, <2>3, BeginIntake
<1>3. CASE N!AddCheck(p)
  <2>1. PICK a \in N!Alive : N!Goto(p, "add", a, 0)
    BY <1>3 DEF N!AddCheck
  <2>2. a \in 1 .. Len(applicants) /\ ~applicants[a].deleted
    BY <1>1 DEF N!Alive
  <2> QED
    BY <1>1, <1>2, <2>1, <2>2
<1>4. CASE N!ImportLookUp(p)
  <2>1. CASE N!Goto(p, "import", 0, 0)
    BY <1>1, <1>2, <2>1
  <2>2. CASE \E a \in N!Alive : N!Goto(p, "import", a, 0)
    <3>1. PICK a \in N!Alive : N!Goto(p, "import", a, 0)
      BY <2>2
    <3>2. a \in 1 .. Len(applicants) /\ ~applicants[a].deleted
      BY <1>1 DEF N!Alive
    <3> QED
      BY <1>1, <1>2, <3>1, <3>2
  <2> QED
    BY <1>4, <2>1, <2>2 DEF N!ImportLookUp
<1>5. CASE N!KnownLookUp(p)
  <2>1. PICK r \in N!Website :
          N!Goto(p, IF records[r].deleted THEN "revive_record" ELSE "mirror",
                 records[r].applicant, r)
    BY <1>5 DEF N!KnownLookUp
  <2>2. r \in DOMAIN records /\ r \in Nat /\ records[r].applicant \in 1 .. Len(applicants)
    BY <1>1 DEF N!Website
  <2>3. CASE records[r].deleted
    BY <1>1, <1>2, <2>1, <2>2, <2>3
  <2>4. CASE ~records[r].deleted
    BY <1>1, <1>2, <2>1, <2>2, <2>4
  <2> QED
    BY <2>3, <2>4
<1>6. CASE N!ResetRead(p)
  <2>1. PICK r \in DOMAIN records :
          N!Goto(p, "reset", IF N!Survives(records[r].applicant, r) THEN 0
                             ELSE records[r].applicant, r)
    BY <1>6 DEF N!ResetRead
  <2>2. r \in Nat /\ records[r].applicant \in 1 .. Len(applicants)
    BY <1>1
  <2>3. CASE N!Survives(records[r].applicant, r)
    BY <1>1, <1>2, <2>1, <2>2, <2>3
  <2>4. CASE ~N!Survives(records[r].applicant, r)
    <3>1. \A s \in RecordsOf(records, records[r].applicant) : s = r \/ records[s].deleted
      BY <2>4 DEF N!Survives, RecordsOf
    <3> QED
      BY <1>1, <1>2, <2>1, <2>2, <2>4, <3>1
  <2> QED
    BY <2>3, <2>4
<1> QED
  BY <1>3, <1>4, <1>5, <1>6

\* A record is added to a profile, old or new, and counted on it; one at a time, it is a
\* profile that can be seen.
LEMMA AddedRecord ==
  ASSUME IntakeInv, NEW row \in Record, records' = Append(records, row),
         applicants' \in Seq(Applicant), DOMAIN applicants \subseteq DOMAIN applicants',
         row.applicant \in DOMAIN applicants',
         \A a \in DOMAIN applicants :
           /\ applicants'[a].deleted = applicants[a].deleted
           /\ applicants'[a].count =
                applicants[a].count + (IF row.applicant = a THEN 1 ELSE 0),
         \A a \in DOMAIN applicants' \ DOMAIN applicants :
           row.applicant = a /\ applicants'[a].count = 1,
         nReq' \in [Procs -> IntakeRequest],
         \A q \in Procs : nReq'[q] = nReq[q] \/ nReq'[q] = N!Idle,
         width = 1 => /\ ~applicants'[row.applicant].deleted
                      /\ \A q \in Procs : nReq'[q].pc = "idle"
                      /\ \A q \in Procs : nReq[q].pc # "revive_applicant",
         UNCHANGED <<stranded, width>>
  PROVE  IntakeInv'
<1>1. /\ applicants \in Seq(Applicant) /\ records \in Seq(Record)
      /\ DOMAIN applicants = 1 .. Len(applicants) /\ Len(applicants) \in Nat
      /\ DOMAIN applicants' = 1 .. Len(applicants') /\ Len(applicants') \in Nat
      /\ Len(records) \in Nat /\ DOMAIN records = 1 .. Len(records)
  BY DEF IntakeInv
<1>2. /\ records' \in Seq(Record) /\ DOMAIN records' = 1 .. Len(records) + 1
      /\ records'[Len(records) + 1] = row
      /\ \A r \in DOMAIN records : records'[r] = records[r]
  BY <1>1
<1>3. CountsAgree'
  <2>1. \A r \in DOMAIN records' : records'[r].applicant \in DOMAIN applicants'
    BY <1>1, <1>2 DEF IntakeInv, CountsAgree
  <2>2. ASSUME NEW a \in DOMAIN applicants'
        PROVE  applicants'[a].count = Cardinality(RecordsOf(records', a))
    <3>1. Cardinality(RecordsOf(records', a)) =
            Cardinality(RecordsOf(records, a)) + (IF row.applicant = a THEN 1 ELSE 0)
      BY <1>1, RecordsMore
    <3>2. CASE a \in DOMAIN applicants
      BY <3>1, <3>2 DEF IntakeInv, CountsAgree
    <3>3. CASE a \notin DOMAIN applicants
      <4>1. RecordsOf(records, a) = {}
        BY <3>3 DEF IntakeInv, CountsAgree, RecordsOf
      <4>2. Cardinality(RecordsOf(records, a)) = 0
        BY <4>1, FS_EmptySet
      <4> QED
        BY <3>1, <3>3, <4>2
    <3> QED
      BY <3>2, <3>3
  <2> QED
    BY <2>1, <2>2 DEF CountsAgree
<1>4. \A q \in Procs : RequestKnows(nReq[q])'
  <2> SUFFICES ASSUME NEW q \in Procs PROVE RequestKnows(nReq[q])'
    OBVIOUS
  <2>1. CASE nReq'[q] = N!Idle
    BY <1>1, <2>1, IdleIntake DEF RequestKnows
  <2>2. CASE nReq'[q] = nReq[q]
    <3>1. Len(applicants) <= Len(applicants')
      <4>1. CASE Len(applicants) = 0
        BY <1>1, <4>1
      <4>2. CASE Len(applicants) # 0
        <5>1. Len(applicants) \in DOMAIN applicants
          BY <1>1, <4>2
        <5>2. Len(applicants) \in 1 .. Len(applicants')
          BY <1>1, <5>1
        <5> QED
          BY <1>1, <5>2
      <4> QED
        BY <4>1, <4>2
    <3>2. RequestKnows(nReq[q]) /\ DOMAIN records \subseteq DOMAIN records'
      BY <1>1, <1>2 DEF IntakeInv
    <3>3. nReq[q].applicant \in 0 .. Len(applicants')
      BY <1>1, <3>1, <3>2 DEF RequestKnows
    <3> QED
      BY <1>2, <2>2, <3>2, <3>3 DEF RequestKnows
  <2> QED
    BY <2>1, <2>2
<1>5. ASSUME width = 1 PROVE SeenTogether'
  <2>1. SeenTogether
    BY <1>5 DEF IntakeInv
  <2>2. ASSUME NEW r \in DOMAIN records', ~records'[r].deleted
        PROVE  \/ ~applicants'[records'[r].applicant].deleted
               \/ records'[r].applicant \in stranded
    <3>1. CASE r \in DOMAIN records
      <4>1. records'[r] = records[r] /\ records[r].applicant \in DOMAIN applicants
        BY <1>2, <3>1 DEF IntakeInv, CountsAgree
      <4> QED
        BY <1>5, <2>1, <2>2, <3>1, <4>1 DEF SeenTogether
    <3>2. CASE r = Len(records) + 1
      BY <1>2, <1>5, <3>2
    <3> QED
      BY <1>1, <1>2, <3>1, <3>2
  <2> QED
    BY <1>5, <2>2 DEF SeenTogether, Alone
<1> QED
  BY <1>2, <1>3, <1>4, <1>5 DEF IntakeInv

\* A count goes up, or a profile is opened: what the additions do to the profiles.
LEMMA CountedOn ==
  ASSUME IntakeInv, NEW a \in DOMAIN applicants,
         applicants' = [applicants EXCEPT ![a].count = @ + 1]
  PROVE  /\ applicants' \in Seq(Applicant) /\ DOMAIN applicants' = DOMAIN applicants
         /\ \A b \in DOMAIN applicants :
              /\ applicants'[b].deleted = applicants[b].deleted
              /\ applicants'[b].count = applicants[b].count + (IF a = b THEN 1 ELSE 0)
<1> DEFINE row == [applicants[a] EXCEPT !.count = applicants[a].count + 1]
<1>1. applicants \in Seq(Applicant) /\ applicants[a] \in Applicant
  BY DEF IntakeInv
<1>2. row \in Applicant /\ row.count = applicants[a].count + 1
      /\ row.deleted = applicants[a].deleted
  <2>1. PICK x \in Applicant : x = applicants[a]
    BY <1>1
  <2>2. x.count + 1 \in Nat
    BY DEF Applicant
  <2> QED
    BY <2>1, <2>2 DEF Applicant
<1>3. applicants' = [applicants EXCEPT ![a] = row]
  BY <1>1
<1> HIDE DEF row
<1>4. applicants' \in Seq(Applicant) /\ DOMAIN applicants' = DOMAIN applicants
      /\ applicants'[a] = row /\ \A b \in DOMAIN applicants \ {a} : applicants'[b] = applicants[b]
  BY <1>1, <1>2, <1>3
<1>5. \A b \in DOMAIN applicants : applicants[b].count \in Nat
  <2>1. \A b \in DOMAIN applicants : applicants[b] \in Applicant
    BY <1>1
  <2> QED
    BY <2>1 DEF Applicant
<1> QED
  BY <1>2, <1>4, <1>5

\* A profile that is opened has one record and is shown.
LEMMA OpenedProfile ==
  ASSUME IntakeInv, applicants' = Append(applicants, N!Profile(1))
  PROVE  LET new == Len(applicants) + 1
         IN  /\ applicants' \in Seq(Applicant)
             /\ DOMAIN applicants' = DOMAIN applicants \cup {new}
             /\ new \notin DOMAIN applicants /\ new \in Nat
             /\ applicants'[new].count = 1 /\ ~applicants'[new].deleted
             /\ \A b \in DOMAIN applicants :
                  /\ applicants'[b].deleted = applicants[b].deleted
                  /\ applicants'[b].count = applicants[b].count
                  /\ applicants[b].count \in Nat
<1>1. applicants \in Seq(Applicant)
  BY DEF IntakeInv
<1>2. N!Profile(1) \in Applicant /\ N!Profile(1).count = 1 /\ ~N!Profile(1).deleted
  BY DEF N!Profile, Applicant
<1>3. /\ applicants' \in Seq(Applicant)
      /\ DOMAIN applicants' = 1 .. Len(applicants) + 1
      /\ DOMAIN applicants = 1 .. Len(applicants) /\ Len(applicants) \in Nat
      /\ applicants'[Len(applicants) + 1] = N!Profile(1)
      /\ \A b \in DOMAIN applicants : applicants'[b] = applicants[b]
  BY <1>1, <1>2
<1>4. \A b \in DOMAIN applicants : applicants[b].count \in Nat
  <2>1. \A b \in DOMAIN applicants : applicants[b] \in Applicant
    BY <1>1
  <2> QED
    BY <2>1 DEF Applicant
<1> QED
  BY <1>2, <1>3, <1>4

\* The row of a record that is added.
LEMMA RowAdded ==
  ASSUME NEW a \in Nat, NEW outside \in BOOLEAN, N!AddRecord(a, outside)
  PROVE  \E row \in Record : records' = Append(records, row) /\ row.applicant = a
<1> DEFINE row == [applicant |-> a, website |-> outside, deleted |-> FALSE,
                   mirrored |-> outside]
<1>1. row \in Record /\ row.applicant = a
  BY DEF Record
<1>2. records' = Append(records, row)
  BY DEF N!AddRecord
<1> HIDE DEF row
<1> QED
  BY <1>1, <1>2

\* A profile and its first record, at the desk or from the website.
LEMMA OpenIntake ==
  ASSUME IntakeInv, NEW outside \in BOOLEAN,
         applicants' = Append(applicants, N!Profile(1)),
         N!AddRecord(Len(applicants) + 1, outside),
         nReq' \in [Procs -> IntakeRequest],
         \A q \in Procs : nReq'[q] = nReq[q] \/ nReq'[q] = N!Idle,
         width = 1 => /\ \A q \in Procs : nReq'[q].pc = "idle"
                      /\ \A q \in Procs : nReq[q].pc # "revive_applicant",
         UNCHANGED <<stranded, width>>
  PROVE  IntakeInv'
<1> DEFINE new == Len(applicants) + 1
<1>1. /\ applicants' \in Seq(Applicant)
      /\ DOMAIN applicants' = DOMAIN applicants \cup {new}
      /\ new \notin DOMAIN applicants /\ new \in Nat
      /\ applicants'[new].count = 1 /\ ~applicants'[new].deleted
      /\ \A b \in DOMAIN applicants :
           /\ applicants'[b].deleted = applicants[b].deleted
           /\ applicants'[b].count = applicants[b].count
           /\ applicants[b].count \in Nat
  BY OpenedProfile
<1>2. N!AddRecord(new, outside)
  OBVIOUS
<1> HIDE DEF new
<1>3. PICK row \in Record : records' = Append(records, row) /\ row.applicant = new
  BY <1>1, <1>2, RowAdded
<1>4. \A a \in DOMAIN applicants :
        /\ applicants'[a].deleted = applicants[a].deleted
        /\ applicants'[a].count = applicants[a].count + (IF row.applicant = a THEN 1 ELSE 0)
  BY <1>1, <1>3
<1>5. \A a \in DOMAIN applicants' \ DOMAIN applicants :
        row.applicant = a /\ applicants'[a].count = 1
  BY <1>1, <1>3
<1>6. row.applicant \in DOMAIN applicants' /\ ~applicants'[row.applicant].deleted
      /\ DOMAIN applicants \subseteq DOMAIN applicants'
  BY <1>1, <1>3
<1> QED
  BY <1>1, <1>3, <1>4, <1>5, <1>6, AddedRecord

\* A further record of a profile, at the desk or from the website.
LEMMA MoreIntake ==
  ASSUME IntakeInv, NEW p \in Procs, NEW outside \in BOOLEAN,
         nReq[p].pc \in {"add", "import"}, nReq[p].applicant # 0,
         applicants' = [applicants EXCEPT ![nReq[p].applicant].count = @ + 1],
         N!AddRecord(nReq[p].applicant, outside),
         nReq' = [nReq EXCEPT ![p] = N!Idle],
         UNCHANGED <<stranded, width>>
  PROVE  IntakeInv'
<1> DEFINE a == nReq[p].applicant
<1>1. a \in DOMAIN applicants /\ a \in Nat
  BY DEF IntakeInv, RequestKnows
<1>2. width = 1 => ~applicants[a].deleted
  BY DEF IntakeInv, SeenTogether
<1>3. N!AddRecord(a, outside) /\ applicants' = [applicants EXCEPT ![a].count = @ + 1]
  OBVIOUS
<1> HIDE DEF a
<1>4. /\ applicants' \in Seq(Applicant) /\ DOMAIN applicants' = DOMAIN applicants
      /\ \A b \in DOMAIN applicants :
           /\ applicants'[b].deleted = applicants[b].deleted
           /\ applicants'[b].count = applicants[b].count + (IF a = b THEN 1 ELSE 0)
  BY <1>1, <1>3, CountedOn
<1>5. PICK row \in Record : records' = Append(records, row) /\ row.applicant = a
  BY <1>1, <1>3, RowAdded
<1>6. nReq' \in [Procs -> IntakeRequest] /\ nReq'[p] = N!Idle
      /\ \A q \in Procs \ {p} : nReq'[q] = nReq[q]
  BY IdleIntake DEF IntakeInv
<1>7. ASSUME width = 1
      PROVE  \A q \in Procs : nReq'[q].pc = "idle" /\ nReq[q].pc # "revive_applicant"
  BY <1>6, <1>7, IdleIntake DEF IntakeInv, SeenTogether, Alone
<1>8. \A q \in Procs : nReq'[q] = nReq[q] \/ nReq'[q] = N!Idle
  BY <1>6
<1>9. /\ DOMAIN applicants \subseteq DOMAIN applicants'
      /\ row.applicant \in DOMAIN applicants'
      /\ \A b \in DOMAIN applicants :
           /\ applicants'[b].deleted = applicants[b].deleted
           /\ applicants'[b].count =
                applicants[b].count + (IF row.applicant = b THEN 1 ELSE 0)
      /\ \A b \in DOMAIN applicants' \ DOMAIN applicants :
           row.applicant = b /\ applicants'[b].count = 1
  BY <1>1, <1>4, <1>5
<1>10. width = 1 => ~applicants'[row.applicant].deleted
  BY <1>1, <1>2, <1>4, <1>5
<1> QED
  BY <1>4, <1>5, <1>6, <1>7, <1>8, <1>9, <1>10, AddedRecord

\* Each of the three that add a record.
LEMMA AddIntake ==
  ASSUME IntakeInv, NEW p \in Procs, N!Create(p) \/ N!AddInsert(p) \/ N!ImportInsert(p)
  PROVE  IntakeInv'
<1>1. CASE N!Create(p)
  <2>1. /\ N!Free(p) /\ applicants' = Append(applicants, N!Profile(1))
        /\ N!AddRecord(Len(applicants) + 1, FALSE) /\ UNCHANGED <<stranded, nReq, width>>
    BY <1>1 DEF N!Create
  <2>2. width = 1 => AllIdle(nReq)
    BY <2>1, IntakeFree
  <2> QED
    BY <2>1, <2>2, OpenIntake DEF IntakeInv, AllIdle
<1>2. CASE N!AddInsert(p)
  <2>1. nReq[p].applicant # 0
    BY <1>2 DEF N!AddInsert, N!At, IntakeInv, RequestKnows
  <2> QED
    BY <1>2, <2>1, MoreIntake DEF N!AddInsert, N!At, N!Done
<1>3. CASE N!ImportInsert(p)
  <2>1. nReq[p].pc = "import" /\ nReq' = [nReq EXCEPT ![p] = N!Idle]
        /\ UNCHANGED <<stranded, width>>
    BY <1>3 DEF N!ImportInsert, N!At, N!Done
  <2>2. CASE nReq[p].applicant # 0
    BY <1>3, <2>1, <2>2, MoreIntake DEF N!ImportInsert
  <2>3. CASE nReq[p].applicant = 0
    <3>1. /\ applicants' = Append(applicants, N!Profile(1))
          /\ N!AddRecord(Len(applicants) + 1, TRUE)
      <4>1. N!CountAtImport + 1 = 1
        BY DEF N!CountAtImport
      <4>2. N!Profile(N!CountAtImport + 1) = N!Profile(1)
        BY <4>1
      <4> QED
        BY <1>3, <2>3, <4>2 DEF N!ImportInsert
    <3>2. nReq' \in [Procs -> IntakeRequest] /\ nReq'[p] = N!Idle
          /\ \A q \in Procs \ {p} : nReq'[q] = nReq[q]
      BY <2>1, IdleIntake DEF IntakeInv
    <3>3. ASSUME width = 1
          PROVE  \A q \in Procs : nReq'[q].pc = "idle" /\ nReq[q].pc # "revive_applicant"
      BY <2>1, <3>2, <3>3, IdleIntake DEF IntakeInv, SeenTogether, Alone
    <3> QED
      BY <2>1, <3>1, <3>2, <3>3, OpenIntake
  <2> QED
    BY <2>2, <2>3
<1> QED
  BY <1>1, <1>2, <1>3

-----------------------------------------------------------------------------

\* What a change that keeps the counts, the owners and who has been hidden leaves.
LEMMA SameProfiles ==
  ASSUME IntakeInv,
         applicants' \in Seq(Applicant), Len(applicants') = Len(applicants),
         \A a \in DOMAIN applicants : applicants'[a].count = applicants[a].count,
         records' \in Seq(Record), Len(records') = Len(records),
         \A r \in DOMAIN records : records'[r].applicant = records[r].applicant
  PROVE  /\ CountsAgree'
         /\ DOMAIN applicants' = DOMAIN applicants /\ DOMAIN records' = DOMAIN records
         /\ \A a : RecordsOf(records', a) = RecordsOf(records, a)
         /\ \A r : RequestKnows(r) => RequestKnows(r)'
<1>1. DOMAIN applicants' = DOMAIN applicants /\ DOMAIN records' = DOMAIN records
  BY DEF IntakeInv
<1>2. \A a : RecordsOf(records', a) = RecordsOf(records, a)
  BY <1>1 DEF RecordsOf
<1>3. CountsAgree'
  BY <1>1, <1>2 DEF IntakeInv, CountsAgree
<1>4. \A r : RequestKnows(r) => RequestKnows(r)'
  BY <1>1 DEF RequestKnows
<1> QED
  BY <1>1, <1>2, <1>3, <1>4

\* Another number changes nothing of that.
LEMMA EditIntake ==
  ASSUME IntakeInv, N!EditNumber
  PROVE  IntakeInv'
<1>1. PICK a \in N!Alive : applicants' = [applicants EXCEPT ![a].number = ~@]
  BY DEF N!EditNumber
<1>2. a \in DOMAIN applicants /\ applicants \in Seq(Applicant) /\ applicants[a] \in Applicant
      /\ UNCHANGED <<records, stranded, nReq, width>>
  BY DEF N!EditNumber, N!Alive, IntakeInv
<1> DEFINE row == [applicants[a] EXCEPT !.number = ~applicants[a].number]
<1>3. row \in Applicant /\ row.count = applicants[a].count
      /\ row.deleted = applicants[a].deleted
  BY <1>2 DEF Applicant
<1>4. applicants' = [applicants EXCEPT ![a] = row]
  BY <1>1, <1>2
<1> HIDE DEF row
<1>5. /\ applicants' \in Seq(Applicant) /\ Len(applicants') = Len(applicants)
      /\ \A b \in DOMAIN applicants : /\ applicants'[b].count = applicants[b].count
                                      /\ applicants'[b].deleted = applicants[b].deleted
  BY <1>2, <1>3, <1>4
<1>6. records \in Seq(Record)
  BY DEF IntakeInv
<1>7. /\ CountsAgree' /\ DOMAIN applicants' = DOMAIN applicants
      /\ \A r : RequestKnows(r) => RequestKnows(r)'
  BY <1>2, <1>5, <1>6, SameProfiles
<1>8. ASSUME width = 1 PROVE SeenTogether'
  <2>1. SeenTogether
    BY <1>8 DEF IntakeInv
  <2>2. \A p \in Procs : nReq[p].applicant # 0 => nReq[p].applicant \in DOMAIN applicants
    BY <1>2 DEF IntakeInv, RequestKnows
  <2>3. \A r \in DOMAIN records : records[r].applicant \in DOMAIN applicants
    BY DEF IntakeInv, CountsAgree
  <2> QED
    BY <1>2, <1>5, <2>1, <2>2, <2>3 DEF SeenTogether
<1> QED
  BY <1>2, <1>5, <1>6, <1>7, <1>8 DEF IntakeInv

\* A record is brought back, and its profile is about to be.
LEMMA ReviveIntake ==
  ASSUME IntakeInv, NEW p \in Procs, N!ReviveRecord(p)
  PROVE  IntakeInv'
<1> DEFINE r == nReq[p].record
           x == [pc |-> "revive_applicant", applicant |-> nReq[p].applicant,
                 record |-> nReq[p].record]
           row == [records[r] EXCEPT !.deleted = FALSE]
<1>1. /\ nReq[p].pc = "revive_record" /\ r \in DOMAIN records /\ RequestKnows(nReq[p])
      /\ nReq[p] \in IntakeRequest /\ records \in Seq(Record) /\ records[r] \in Record
      /\ records[r].applicant = nReq[p].applicant
  BY DEF N!ReviveRecord, N!At, IntakeInv, RequestKnows
<1>2. /\ nReq' = [nReq EXCEPT ![p] = x] /\ records' = [records EXCEPT ![r] = row]
      /\ UNCHANGED <<applicants, stranded, width>>
  BY <1>1 DEF N!ReviveRecord, N!Goto
<1>3. x \in IntakeRequest /\ x.pc = "revive_applicant" /\ x.record = nReq[p].record
      /\ x.applicant = nReq[p].applicant
  BY <1>1 DEF IntakeRequest
<1>4. row \in Record /\ row.applicant = records[r].applicant
  BY <1>1 DEF Record
<1> HIDE DEF r, x, row
<1>5. /\ records' \in Seq(Record) /\ Len(records') = Len(records)
      /\ \A s \in DOMAIN records : records'[s].applicant = records[s].applicant
      /\ \A s \in DOMAIN records \ {r} : records'[s] = records[s]
  BY <1>1, <1>2, <1>4
<1>6. applicants \in Seq(Applicant)
  BY DEF IntakeInv
<1>7. /\ CountsAgree' /\ DOMAIN records' = DOMAIN records
      /\ \A y : RequestKnows(y) => RequestKnows(y)'
  BY <1>2, <1>5, <1>6, SameProfiles
<1>8. nReq' \in [Procs -> IntakeRequest] /\ nReq'[p] = x
      /\ \A q \in Procs \ {p} : nReq'[q] = nReq[q]
  BY <1>2, <1>3 DEF IntakeInv
<1>9. RequestKnows(x)
  BY <1>1, <1>3 DEF RequestKnows
<1>10. ASSUME width = 1 PROVE SeenTogether'
  <2>1. SeenTogether
    BY <1>10 DEF IntakeInv
  <2>2. Alone(nReq') /\ \A q \in Procs \ {p} : nReq'[q].pc = "idle" /\ nReq[q].pc = "idle"
    BY <1>1, <1>8, <2>1 DEF SeenTogether, Alone
  <2>3. ASSUME NEW s \in DOMAIN records, ~records'[s].deleted
        PROVE  \/ ~applicants[records'[s].applicant].deleted
               \/ records'[s].applicant \in stranded
               \/ x.applicant = records'[s].applicant
    <3>1. CASE s = r
      BY <1>1, <1>3, <1>5, <3>1
    <3>2. CASE s # r
      BY <1>1, <1>5, <2>1, <2>2, <2>3, <3>2 DEF SeenTogether
    <3> QED
      BY <3>1, <3>2
  <2> QED
    BY <1>2, <1>3, <1>7, <1>8, <2>2, <2>3 DEF SeenTogether
<1> QED
  BY <1>2, <1>5, <1>6, <1>7, <1>8, <1>9, <1>10 DEF IntakeInv

\* Its profile is brought back.
LEMMA BackIntake ==
  ASSUME IntakeInv, NEW p \in Procs, N!ReviveApplicant(p)
  PROVE  IntakeInv'
<1> DEFINE a == nReq[p].applicant
           x == [pc |-> "mirror", applicant |-> a, record |-> nReq[p].record]
           row == [applicants[a] EXCEPT !.deleted = FALSE]
<1>1. /\ nReq[p].pc = "revive_applicant" /\ a \in DOMAIN applicants /\ RequestKnows(nReq[p])
      /\ nReq[p] \in IntakeRequest /\ applicants \in Seq(Applicant)
      /\ applicants[a] \in Applicant
  BY DEF N!ReviveApplicant, N!At, IntakeInv, RequestKnows
<1>2. /\ nReq' = [nReq EXCEPT ![p] = x] /\ applicants' = [applicants EXCEPT ![a] = row]
      /\ UNCHANGED <<records, stranded, width>>
  BY <1>1 DEF N!ReviveApplicant, N!Goto
<1>3. x \in IntakeRequest /\ x.pc = "mirror" /\ x.record = nReq[p].record
      /\ x.applicant = nReq[p].applicant
  BY <1>1 DEF IntakeRequest
<1>4. row \in Applicant /\ row.count = applicants[a].count /\ ~row.deleted
  BY <1>1 DEF Applicant
<1> HIDE DEF x, row
<1>5. /\ applicants' \in Seq(Applicant) /\ Len(applicants') = Len(applicants)
      /\ \A b \in DOMAIN applicants : applicants'[b].count = applicants[b].count
      /\ ~applicants'[a].deleted
      /\ \A b \in DOMAIN applicants \ {a} : applicants'[b] = applicants[b]
  BY <1>1, <1>2, <1>4
<1>6. records \in Seq(Record)
  BY DEF IntakeInv
<1>7. /\ CountsAgree' /\ \A y : RequestKnows(y) => RequestKnows(y)'
  BY <1>2, <1>5, <1>6, SameProfiles
<1>8. nReq' \in [Procs -> IntakeRequest] /\ nReq'[p] = x
      /\ \A q \in Procs \ {p} : nReq'[q] = nReq[q]
  BY <1>2, <1>3 DEF IntakeInv
<1>9. RequestKnows(x)
  BY <1>1, <1>3 DEF RequestKnows
<1>10. ASSUME width = 1 PROVE SeenTogether'
  <2>1. SeenTogether
    BY <1>10 DEF IntakeInv
  <2>2. Alone(nReq') /\ \A q \in Procs \ {p} : nReq'[q].pc = "idle" /\ nReq[q].pc = "idle"
    BY <1>1, <1>8, <2>1 DEF SeenTogether, Alone
  <2>3. ASSUME NEW s \in DOMAIN records, ~records[s].deleted
        PROVE  \/ ~applicants'[records[s].applicant].deleted
               \/ records[s].applicant \in stranded
    <3>1. CASE records[s].applicant = a
      BY <1>5, <3>1
    <3>2. CASE records[s].applicant # a
      <4>1. records[s].applicant \in DOMAIN applicants
        BY DEF IntakeInv, CountsAgree
      <4> QED
        BY <1>5, <2>1, <2>2, <2>3, <3>2, <4>1 DEF SeenTogether
    <3> QED
      BY <3>1, <3>2
  <2> QED
    BY <1>2, <1>3, <1>8, <2>2, <2>3 DEF SeenTogether
<1> QED
  BY <1>2, <1>5, <1>6, <1>7, <1>8, <1>9, <1>10 DEF IntakeInv

\* A record is mirrored.
LEMMA MirrorIntake ==
  ASSUME IntakeInv, NEW p \in Procs, N!Mirror(p)
  PROVE  IntakeInv'
<1> DEFINE r   == nReq[p].record
           row == [records[r] EXCEPT !.mirrored = TRUE]
<1>1. /\ nReq[p].pc = "mirror" /\ r \in DOMAIN records
      /\ records \in Seq(Record) /\ records[r] \in Record
  BY DEF N!Mirror, N!At, IntakeInv, RequestKnows
<1>2. /\ nReq' = [nReq EXCEPT ![p] = N!Idle] /\ records' = [records EXCEPT ![r] = row]
      /\ UNCHANGED <<applicants, stranded, width>>
  BY <1>1 DEF N!Mirror, N!Done
<1>3. row \in Record /\ row.applicant = records[r].applicant
      /\ row.deleted = records[r].deleted
  BY <1>1 DEF Record
<1> HIDE DEF r, row
<1>4. /\ records' \in Seq(Record) /\ Len(records') = Len(records)
      /\ \A s \in DOMAIN records : /\ records'[s].applicant = records[s].applicant
                                   /\ records'[s].deleted = records[s].deleted
  BY <1>1, <1>2, <1>3
<1>5. applicants \in Seq(Applicant)
  BY DEF IntakeInv
<1>6. /\ CountsAgree' /\ DOMAIN records' = DOMAIN records
      /\ \A y : RequestKnows(y) => RequestKnows(y)'
  BY <1>2, <1>4, <1>5, SameProfiles
<1>7. nReq' \in [Procs -> IntakeRequest] /\ nReq'[p] = N!Idle
      /\ \A q \in Procs \ {p} : nReq'[q] = nReq[q]
  BY <1>2, IdleIntake DEF IntakeInv
<1>8. RequestKnows(N!Idle)
  BY <1>5, IdleIntake DEF RequestKnows
<1>9. ASSUME width = 1 PROVE SeenTogether'
  <2>1. SeenTogether
    BY <1>9 DEF IntakeInv
  <2>2. \A q \in Procs : nReq'[q].pc = "idle" /\ nReq[q].pc # "revive_applicant"
    BY <1>1, <1>7, <2>1, IdleIntake DEF SeenTogether, Alone
  <2>3. \A s \in DOMAIN records' : ~records'[s].deleted =>
          \/ ~applicants[records'[s].applicant].deleted
          \/ records'[s].applicant \in stranded
    BY <1>4, <1>6, <2>1, <2>2 DEF SeenTogether
  <2> QED
    BY <1>2, <2>2, <2>3 DEF SeenTogether, Alone
<1> QED
  BY <1>2, <1>4, <1>5, <1>6, <1>7, <1>8, <1>9 DEF IntakeInv

\* A record is hidden, and its profile where nothing else of it can be seen.
LEMMA ResetIntake ==
  ASSUME IntakeInv, NEW p \in Procs, N!ResetCommit(p)
  PROVE  IntakeInv'
<1> DEFINE r   == nReq[p].record
           a   == nReq[p].applicant
           row == [records[r] EXCEPT !.deleted = TRUE, !.mirrored = FALSE]
<1>1. /\ nReq[p].pc = "reset" /\ r \in DOMAIN records
      /\ records \in Seq(Record) /\ records[r] \in Record /\ applicants \in Seq(Applicant)
  BY DEF N!ResetCommit, N!At, IntakeInv, RequestKnows
<1>2. /\ nReq' = [nReq EXCEPT ![p] = N!Idle] /\ records' = [records EXCEPT ![r] = row]
      /\ applicants' = [b \in DOMAIN applicants |->
                          [applicants[b] EXCEPT !.deleted = @ \/ b = a]]
      /\ UNCHANGED <<stranded, width>>
  BY <1>1 DEF N!ResetCommit, N!Done, Record
<1>3. row \in Record /\ row.applicant = records[r].applicant /\ row.deleted
  BY <1>1 DEF Record
<1> HIDE DEF r, a, row
<1>4. /\ records' \in Seq(Record) /\ Len(records') = Len(records) /\ records'[r].deleted
      /\ \A s \in DOMAIN records : records'[s].applicant = records[s].applicant
      /\ \A s \in DOMAIN records \ {r} : records'[s] = records[s]
  BY <1>1, <1>2, <1>3
<1>5. /\ applicants' \in Seq(Applicant) /\ Len(applicants') = Len(applicants)
      /\ \A b \in DOMAIN applicants : applicants'[b].count = applicants[b].count
      /\ \A b \in DOMAIN applicants \ {a} : applicants'[b].deleted = applicants[b].deleted
  <2>1. \A b \in DOMAIN applicants : applicants[b] \in Applicant
    BY <1>1
  <2>2. \A b \in DOMAIN applicants :
          /\ applicants'[b] \in Applicant /\ applicants'[b].count = applicants[b].count
          /\ applicants'[b].deleted = (applicants[b].deleted \/ b = a)
    BY <1>2, <2>1 DEF Applicant
  <2>3. DOMAIN applicants' = 1 .. Len(applicants) /\ Len(applicants) \in Nat
    BY <1>1, <1>2
  <2>4. applicants' \in [1 .. Len(applicants) -> Applicant]
    BY <1>1, <1>2, <2>2, <2>3
  <2>5. applicants' \in Seq(Applicant) /\ Len(applicants') = Len(applicants)
    BY <2>3, <2>4
  <2> QED
    BY <2>1, <2>2, <2>5 DEF Applicant
<1>6. /\ CountsAgree' /\ DOMAIN records' = DOMAIN records
      /\ \A y : RequestKnows(y) => RequestKnows(y)'
  BY <1>4, <1>5, SameProfiles
<1>7. nReq' \in [Procs -> IntakeRequest] /\ nReq'[p] = N!Idle
      /\ \A q \in Procs \ {p} : nReq'[q] = nReq[q]
  BY <1>2, IdleIntake DEF IntakeInv
<1>8. RequestKnows(N!Idle)
  BY <1>1, IdleIntake DEF RequestKnows
<1>9. ASSUME width = 1 PROVE SeenTogether'
  <2>1. SeenTogether
    BY <1>9 DEF IntakeInv
  <2>2. \A q \in Procs : nReq'[q].pc = "idle" /\ nReq[q].pc # "revive_applicant"
    BY <1>1, <1>7, <2>1, IdleIntake DEF SeenTogether, Alone
  <2>3. ASSUME NEW s \in DOMAIN records, ~records'[s].deleted
        PROVE  \/ ~applicants'[records'[s].applicant].deleted
               \/ records'[s].applicant \in stranded
    <3>1. s # r /\ records'[s] = records[s] /\ records[s].applicant \in DOMAIN applicants
      BY <1>4, <2>3 DEF IntakeInv, CountsAgree
    <3>2. records[s].applicant # a
      <4>1. a = 0 => records[s].applicant # a
        BY <1>1, <3>1
      <4>2. a # 0 => s \notin RecordsOf(records, a)
        BY <1>1, <2>1, <2>3, <3>1 DEF SeenTogether, a, r
      <4> QED
        BY <4>1, <4>2 DEF RecordsOf
    <3> QED
      BY <1>5, <2>1, <2>2, <2>3, <3>1, <3>2 DEF SeenTogether
  <2> QED
    BY <1>2, <1>6, <2>2, <2>3 DEF SeenTogether, Alone
<1> QED
  BY <1>2, <1>4, <1>5, <1>6, <1>7, <1>8, <1>9 DEF IntakeInv

\* A request that is lost leaves the rows as they were, and perhaps an applicant behind.
LEMMA LostIntake ==
  ASSUME IntakeInv, NEW p \in Procs, N!Lost(p)
  PROVE  IntakeInv'
<1>1. /\ nReq[p].pc # "idle" /\ nReq' = [nReq EXCEPT ![p] = N!Idle]
      /\ stranded' = stranded \cup
           (IF nReq[p].pc = "revive_applicant" THEN {nReq[p].applicant} ELSE {})
      /\ UNCHANGED <<applicants, records, width>>
  BY DEF N!Lost, N!Done, N!At
<1>2. nReq' \in [Procs -> IntakeRequest] /\ nReq'[p] = N!Idle
      /\ \A q \in Procs \ {p} : nReq'[q] = nReq[q]
  BY <1>1, IdleIntake DEF IntakeInv
<1>3. \A q \in Procs : RequestKnows(nReq[q])'
  <2>1. Len(applicants) \in Nat
    BY DEF IntakeInv
  <2> QED
    BY <1>1, <1>2, <2>1, IdleIntake DEF IntakeInv, RequestKnows
<1>4. ASSUME width = 1 PROVE SeenTogether'
  <2>1. SeenTogether
    BY <1>4 DEF IntakeInv
  <2>2. \A q \in Procs : nReq'[q].pc = "idle" /\ (nReq[q].pc = "revive_applicant" => q = p)
    BY <1>1, <1>2, <2>1, IdleIntake DEF SeenTogether, Alone
  <2>3. \A s \in DOMAIN records : ~records[s].deleted =>
          \/ ~applicants[records[s].applicant].deleted
          \/ records[s].applicant \in stranded'
    BY <1>1, <2>1, <2>2 DEF SeenTogether
  <2> QED
    BY <1>1, <2>2, <2>3 DEF SeenTogether, Alone
<1> QED
  BY <1>1, <1>2, <1>3, <1>4 DEF IntakeInv, CountsAgree

\* No step of Desks leaves the invariant of the profiles.
LEMMA NextIntake == IntakeInv /\ [Next]_vars => IntakeInv'
<1> SUFFICES ASSUME IntakeInv, [Next]_vars PROVE IntakeInv'
  OBVIOUS
<1>1. UNCHANGED width
  BY WidthStays
<1>2. N!Next \/ UNCHANGED <<applicants, records, stranded, nReq>>
  BY DEF Next, Only, vars, N_vars
<1>3. CASE N!Next
  BY <1>3, LookIntake, AddIntake, EditIntake, ReviveIntake, BackIntake, MirrorIntake,
     ResetIntake, LostIntake
  DEF N!Next, N!Step
<1>4. CASE UNCHANGED <<applicants, records, stranded, nReq>>
  BY <1>1, <1>4 DEF IntakeInv, CountsAgree, RequestKnows, SeenTogether, Alone
<1> QED
  BY <1>2, <1>3, <1>4

\* Profiles count their records and are seen with them.
LEMMA ProfilesAreHeld == IntakeInv => N!ProfilesHold
<1> SUFFICES ASSUME IntakeInv PROVE N!ProfilesHold
  OBVIOUS
<1>1. ASSUME NEW a \in DOMAIN applicants
      PROVE  applicants[a].count =
               N!Cardinality({r \in DOMAIN records : records[r].applicant = a})
  <2>1. N!Cardinality(RecordsOf(records, a)) = Cardinality(RecordsOf(records, a))
    BY DEF N!Cardinality, Cardinality
  <2> QED
    BY <2>1 DEF IntakeInv, CountsAgree, RecordsOf
<1>2. ASSUME width = 1, \A p \in Procs : nReq[p].pc = "idle",
             NEW r \in DOMAIN records, ~records[r].deleted
      PROVE  records[r].applicant \in N!Alive \cup stranded
  BY <1>2 DEF IntakeInv, CountsAgree, SeenTogether, N!Alive
<1> QED
  BY <1>1, <1>2 DEF N!ProfilesHold

\* However requests race, the leads of a number open one applicant and a profile counts
\* its records; one at a time, a lead opens another only after somebody has taken it out
\* of converted, and a record that can be seen belongs to a profile that can be
\* (leads.service.ts, convert; applicants.service.ts; nbr-website.service.ts,
\* importApplication and resetWebsiteData).
THEOREM ProfileIsOne == Spec => []OneProfile
<1>1. Init => LeadsInv /\ IntakeInv
  BY InitLeads, InitIntake
<1>2. LeadsInv /\ IntakeInv /\ [Next]_vars => (LeadsInv /\ IntakeInv)'
  BY NextLeads, NextIntake
<1>3. LeadsInv /\ IntakeInv => OneProfile
  BY LeadsHold, ProfilesAreHeld DEF OneProfile
<1> QED
  BY <1>1, <1>2, <1>3, PTL DEF Spec

-----------------------------------------------------------------------------
(* The types of these components: their rows, and what requests hold, fit  *)
(* the bounds.                                                             *)

\* The types of the numbers.
LEMMA NumbersTyped == InvoicesInv /\ SlipsInv => I!TypeOK /\ P!TypeOK
<1> SUFFICES ASSUME InvoicesInv, SlipsInv PROVE I!TypeOK /\ P!TypeOK
  OBVIOUS
<1>1. /\ invoices \in Seq([payment : Payments, number : Nat])
      /\ counter \in Nat /\ iReq \in [Procs -> InvoiceRequest]
  BY DEF InvoicesInv, CounterHolds
<1>2. slips \in Seq(Slip) /\ pReq \in [Procs -> SlipRequest]
  BY DEF SlipsInv
<1>3. I!TypeOK
  <2> DEFINE Row == [payment : Payments, number : Nat]
  <2>1. invoices \in Seq(Row)
    BY <1>1
  <2> HIDE DEF Row
  <2>2. \A i \in DOMAIN invoices : invoices[i] \in Row
    BY <2>1
  <2>3. \A i \in DOMAIN invoices : invoices[i] \in [payment : Payments, number : Nat]
    BY <2>2 DEF Row
  <2>4. \A p \in Procs : iReq[p] \in InvoiceRequest
    BY <1>1
  <2>5. \A p \in Procs : iReq[p].payment \subseteq Payments /\ iReq[p].number \in Nat
    BY <2>4 DEF InvoiceRequest
  <2> QED
    BY <1>1, <2>3, <2>5 DEF I!TypeOK
<1>4. P!TypeOK
  <2>1. \A s \in DOMAIN slips : slips[s] \in Slip
    BY <1>2
  <2>2. \A s \in DOMAIN slips : slips[s] \in [month : Months, number : Nat, live : BOOLEAN]
    BY <2>1 DEF Slip
  <2>3. \A p \in Procs : pReq[p] \in SlipRequest
    BY <1>2
  <2>4. \A p \in Procs : pReq[p].month \subseteq Months /\ pReq[p].number \in Nat
    BY <2>3 DEF SlipRequest
  <2> QED
    BY <2>2, <2>4 DEF P!TypeOK
<1> QED
  BY <1>3, <1>4

\* The leave, and what is decided, is within the bound.
LeaveFits ==
  Len(leave) <= MaxLeave /\ \A p \in Procs : rReq[p].leave \in 0 .. MaxLeave

\* No leave is asked for yet.
LEMMA InitLeaveFits == Init => LeaveFits
<1> SUFFICES ASSUME Init PROVE LeaveFits
  OBVIOUS
<1>1. leave = <<>> /\ rReq = [p \in Procs |-> R!Idle]
  BY DEF Init, R!Init
<1>2. Len(leave) = 0 /\ MaxLeave \in Nat /\ \A p \in Procs : rReq[p].leave = 0
  BY <1>1, BoundsAssumption DEF R!Idle
<1> QED
  BY <1>2 DEF LeaveFits

\* No request for leave, and nothing that is decided, is beyond the bound.
LEMMA LeaveKeepsFit ==
  ASSUME LeaveInv, LeaveFits, [Next]_vars
  PROVE  LeaveFits'
<1>1. leave \in Seq(Leave) /\ rReq \in [Procs -> LeaveRequest] /\ Len(leave) \in Nat
      /\ MaxLeave \in Nat
  BY BoundsAssumption DEF LeaveInv
<1>2. R!Next \/ UNCHANGED <<leave, register, rReq>>
  BY DEF Next, Only, vars, R_vars
<1>3. CASE UNCHANGED <<leave, rReq>>
  BY <1>3 DEF LeaveFits
<1>4. ASSUME NEW p \in Procs, R!ApplyCheck(p) PROVE LeaveFits'
  BY <1>1, <1>4 DEF R!ApplyCheck, R!Idle, LeaveFits
<1>5. ASSUME NEW p \in Procs, R!ApplyInsert(p) PROVE LeaveFits'
  BY <1>1, <1>5 DEF R!ApplyInsert, R!Done, R!Idle, LeaveFits
<1>6. ASSUME NEW p \in Procs, R!DecideRead(p) PROVE LeaveFits'
  BY <1>1, <1>6 DEF R!DecideRead, R!Idle, LeaveFits
<1>7. ASSUME NEW p \in Procs, R!DecideCommit(p) PROVE LeaveFits'
  <2>1. Len(leave') = Len(leave)
    BY <1>1, <1>7 DEF R!DecideCommit
  <2> QED
    BY <1>1, <1>7, <2>1 DEF R!DecideCommit, R!Done, R!Idle, LeaveFits
<1>8. ASSUME NEW p \in Procs, R!Lost(p) PROVE LeaveFits'
  BY <1>1, <1>8 DEF R!Lost, R!Done, R!Idle, LeaveFits
<1> QED
  BY <1>2, <1>3, <1>4, <1>5, <1>6, <1>7, <1>8 DEF R!Next, R!Step, R!MarkDay

\* The types of the leave.
LEMMA LeaveTyped == LeaveInv /\ LeaveFits => R!TypeOK
<1> SUFFICES ASSUME LeaveInv, LeaveFits PROVE R!TypeOK
  OBVIOUS
<1>1. /\ leave \in Seq(Leave)
      /\ register \in [R!Days -> {"unmarked", "present", "on_leave"}]
  BY DEF LeaveInv
<1>2. \A l \in DOMAIN leave : leave[l] \in Leave
  BY <1>1
<1> QED
  BY <1>1, <1>2 DEF R!TypeOK, LeaveFits, Leave

\* What is confirmed is an upload, to begin with.
LEMMA InitVaultFits == Init => confirmed \subseteq Uploads
BY DEF Init, V!Init

\* It stays so.
LEMMA VaultKeepsFit ==
  ASSUME VaultInv, confirmed \subseteq Uploads, [Next]_vars
  PROVE  confirmed' \subseteq Uploads
<1>1. vReq \in [Procs -> VaultRequest]
  BY DEF VaultInv
<1>2. V!Next \/ UNCHANGED confirmed
  BY DEF Next, Only, vars, V_vars
<1>3. ASSUME NEW p \in Procs, V!ConfirmCommit(p) PROVE confirmed' \subseteq Uploads
  BY <1>1, <1>3 DEF V!ConfirmCommit, VaultRequest
<1> QED
  BY <1>2, <1>3
  DEF V!Next, V!Step, V!ConfirmCheck, V!ProofCheck, V!ProofCommit, V!CopyCheck,
      V!CopyInsert, V!CopyCount, V!Lost

\* The types of the vault.
LEMMA VaultTyped == VaultInv /\ confirmed \subseteq Uploads => V!TypeOK
<1> SUFFICES ASSUME VaultInv, confirmed \subseteq Uploads PROVE V!TypeOK
  OBVIOUS
<1>1. files \in Seq(File) /\ vReq \in [Procs -> VaultRequest]
      /\ count \in Nat /\ uncounted \in Nat
  BY DEF VaultInv
<1>2. \A f \in DOMAIN files : files[f] \in File
  BY <1>1
<1>3. \A p \in Procs : vReq[p] \in VaultRequest
  BY <1>1
<1>4. \A p \in Procs : vReq[p].content \subseteq Contents /\ vReq[p].upload \subseteq Uploads
  BY <1>3 DEF VaultRequest
<1> QED
  BY <1>1, <1>2, <1>4 DEF V!TypeOK, File

\* The leads, and those that requests are about, are within the bounds.
LeadsFit ==
  /\ Len(leads) <= MaxLeads /\ freed <= MaxAgain
  /\ \A p \in Procs : lReq[p].lead \in 0 .. MaxLeads

\* There are no leads yet.
LEMMA InitLeadsFit == Init => LeadsFit
<1> SUFFICES ASSUME Init PROVE LeadsFit
  OBVIOUS
<1>1. leads = <<>> /\ freed = 0 /\ lReq = [p \in Procs |-> L!Idle]
  BY DEF Init, L!Init
<1>2. Len(leads) = 0 /\ MaxLeads \in Nat /\ MaxAgain \in Nat
      /\ \A p \in Procs : lReq[p].lead = 0
  BY <1>1, BoundsAssumption DEF L!Idle
<1> QED
  BY <1>1, <1>2 DEF LeadsFit

\* No lead, and none that a request is about, is beyond the bound.
LEMMA LeadsKeepFit ==
  ASSUME LeadsInv, LeadsFit, [Next]_vars
  PROVE  LeadsFit'
<1>1. leads \in Seq(Lead) /\ lReq \in [Procs -> LeadRequest] /\ Len(leads) \in Nat
      /\ DOMAIN leads = 1 .. Len(leads) /\ freed \in Nat
      /\ MaxLeads \in Nat /\ MaxAgain \in Nat
  BY BoundsAssumption DEF LeadsInv
<1>2. L!Next \/ UNCHANGED <<leads, opened, reopened, taken, freed, lReq>>
  BY DEF Next, Only, vars, L_vars
<1>3. CASE UNCHANGED <<leads, freed, lReq>>
  BY <1>3 DEF LeadsFit
<1>4. ASSUME NEW p \in Procs, NEW l \in 0 .. MaxLeads, NEW pc, NEW stat,
             L!LookedUp(p, l, pc, stat), UNCHANGED <<leads, freed>>
      PROVE  LeadsFit'
  BY <1>1, <1>4 DEF L!LookedUp, LeadsFit
<1>5. DOMAIN leads \subseteq 0 .. MaxLeads
  BY <1>1 DEF LeadsFit
<1>6. ASSUME NEW p \in Procs,
             L!CreateCheck(p) \/ L!EditRead(p) \/ L!CallRead(p) \/ L!ConvertRead(p)
      PROVE  LeadsFit'
  <2>1. UNCHANGED <<leads, freed>>
    BY <1>6 DEF L!CreateCheck, L!EditRead, L!CallRead, L!ConvertRead
  <2>2. 0 \in 0 .. MaxLeads
    BY <1>1
  <2>3. \E l \in 0 .. MaxLeads : \E pc, stat : L!LookedUp(p, l, pc, stat)
    <3>1. CASE L!CreateCheck(p)
      BY <2>2, <3>1 DEF L!CreateCheck
    <3>2. CASE L!EditRead(p)
      BY <1>5, <3>2 DEF L!EditRead
    <3>3. CASE L!CallRead(p)
      BY <1>5, <3>3 DEF L!CallRead
    <3>4. CASE L!ConvertRead(p)
      BY <1>5, <3>4 DEF L!ConvertRead
    <3> QED
      BY <1>6, <3>1, <3>2, <3>3, <3>4
  <2> QED
    BY <1>4, <2>1, <2>3
<1>7. ASSUME NEW p \in Procs, L!Done(p), Len(leads') <= MaxLeads, UNCHANGED freed
      PROVE  LeadsFit'
  BY <1>1, <1>7 DEF L!Done, L!Idle, LeadsFit
<1>8. ASSUME NEW p \in Procs, L!CreateInsert(p) PROVE LeadsFit'
  <2>1. Len(leads') <= MaxLeads
    BY <1>1, <1>8 DEF L!CreateInsert
  <2> QED
    BY <1>7, <1>8, <2>1 DEF L!CreateInsert
<1>9. ASSUME NEW p \in Procs, L!StatusWrite(p) \/ L!ConvertLink(p) PROVE LeadsFit'
  <2>1. Len(leads') = Len(leads)
    BY <1>1, <1>9 DEF L!StatusWrite, L!ConvertLink, L!SetStatus
  <2> QED
    BY <1>7, <1>9, <2>1 DEF L!StatusWrite, L!ConvertLink, LeadsFit
<1>10. ASSUME NEW p \in Procs, L!Remove(p) PROVE LeadsFit'
  <2>1. Len(leads') = Len(leads)
    BY <1>1, <1>10 DEF L!Remove
  <2> QED
    BY <1>10, <2>1 DEF L!Remove, LeadsFit
<1>11. ASSUME NEW p \in Procs, L!ConvertCreate(p) PROVE LeadsFit'
  <2>1. \A q \in Procs : lReq'[q].lead = lReq[q].lead
    BY <1>1, <1>11 DEF L!ConvertCreate, LeadRequest
  <2> QED
    BY <1>11, <2>1 DEF L!ConvertCreate, LeadsFit
<1>12. ASSUME NEW p \in Procs, L!Lost(p) PROVE LeadsFit'
  BY <1>7, <1>12 DEF L!Lost, LeadsFit
<1>13. CASE L!NumberMoves
  BY <1>1, <1>13 DEF L!NumberMoves, LeadsFit
<1> QED
  BY <1>2, <1>3, <1>6, <1>8, <1>9, <1>10, <1>11, <1>12, <1>13 DEF L!Next, L!Step

\* The types of the leads.
LEMMA LeadsTyped == LeadsInv /\ LeadsFit => L!TypeOK
<1> SUFFICES ASSUME LeadsInv, LeadsFit PROVE L!TypeOK
  OBVIOUS
<1>1. /\ leads \in Seq(Lead) /\ lReq \in [Procs -> LeadRequest]
      /\ opened \in Seq(Nat) /\ reopened \in Seq(Nat)
      /\ Len(opened) = Len(leads) /\ Len(reopened) = Len(leads)
      /\ taken \in BOOLEAN /\ freed \in Nat
  BY DEF LeadsInv
<1>2. LeadStatus = L!LEAD_STATUS
  BY StatusesAssumption DEF LeadStatus
<1>3. DOMAIN opened = DOMAIN leads /\ DOMAIN reopened = DOMAIN leads
  BY <1>1
<1>4. \A l \in DOMAIN leads : leads[l] \in [status : L!LEAD_STATUS, deleted : BOOLEAN]
  <2>1. \A l \in DOMAIN leads : leads[l] \in Lead
    BY <1>1
  <2> QED
    BY <1>2, <2>1 DEF Lead
<1>5. \A p \in Procs : lReq[p].status \in L!LEAD_STATUS
  <2>1. \A p \in Procs : lReq[p] \in LeadRequest
    BY <1>1
  <2> QED
    BY <1>2, <2>1 DEF LeadRequest
<1>6. freed \in 0 .. MaxAgain
  BY <1>1, BoundsAssumption DEF LeadsFit
<1> QED
  BY <1>1, <1>3, <1>4, <1>5, <1>6 DEF L!TypeOK, LeadsFit

\* The records are within the bound, and who was left behind has a profile.
IntakeFits == Len(records) <= MaxRecords /\ stranded \subseteq DOMAIN applicants

\* There are no profiles yet.
LEMMA InitIntakeFits == Init => IntakeFits
<1> SUFFICES ASSUME Init PROVE IntakeFits
  OBVIOUS
<1>1. records = <<>> /\ stranded = {}
  BY DEF Init, N!Init
<1>2. Len(records) = 0 /\ MaxRecords \in Nat
  BY <1>1, BoundsAssumption
<1> QED
  BY <1>1, <1>2 DEF IntakeFits

\* No record is beyond the bound, and who was left behind is there.
LEMMA IntakeKeepsFit ==
  ASSUME IntakeInv, IntakeFits, [Next]_vars
  PROVE  IntakeFits'
<1>1. /\ applicants \in Seq(Applicant) /\ records \in Seq(Record)
      /\ nReq \in [Procs -> IntakeRequest] /\ \A p \in Procs : RequestKnows(nReq[p])
      /\ Len(records) \in Nat /\ MaxRecords \in Nat
  BY BoundsAssumption DEF IntakeInv
<1>2. N!Next \/ UNCHANGED <<applicants, records, stranded, nReq>>
  BY DEF Next, Only, vars, N_vars
<1>3. ASSUME NEW a, NEW outside, N!AddRecord(a, outside) PROVE Len(records') <= MaxRecords
  BY <1>1, <1>3 DEF N!AddRecord
<1>4. ASSUME NEW p \in Procs, N!Create(p) PROVE IntakeFits'
  <2>1. DOMAIN applicants \subseteq DOMAIN applicants'
    BY <1>1, <1>4 DEF N!Create
  <2> QED
    BY <1>3, <1>4, <2>1 DEF N!Create, IntakeFits
<1>5. ASSUME NEW p \in Procs, N!AddInsert(p) PROVE IntakeFits'
  <2>1. DOMAIN applicants \subseteq DOMAIN applicants'
    BY <1>1, <1>5 DEF N!AddInsert
  <2> QED
    BY <1>3, <1>5, <2>1 DEF N!AddInsert, IntakeFits
<1>6. ASSUME NEW p \in Procs, N!ImportInsert(p) PROVE IntakeFits'
  <2>1. DOMAIN applicants \subseteq DOMAIN applicants'
    <3>1. CASE nReq[p].applicant = 0
      <4>1. applicants' = Append(applicants, N!Profile(N!CountAtImport + 1))
        BY <1>6, <3>1 DEF N!ImportInsert
      <4> QED
        BY <1>1, <4>1
    <3>2. CASE nReq[p].applicant # 0
      BY <1>6, <3>2 DEF N!ImportInsert
    <3> QED
      BY <3>1, <3>2
  <2>2. Len(records') <= MaxRecords
    BY <1>3, <1>6 DEF N!ImportInsert
  <2> QED
    BY <1>6, <2>1, <2>2 DEF N!ImportInsert, IntakeFits
<1>7. ASSUME Len(records') = Len(records), DOMAIN applicants' = DOMAIN applicants,
             UNCHANGED stranded
      PROVE  IntakeFits'
  BY <1>7 DEF IntakeFits
<1>8. CASE N!EditNumber
  BY <1>1, <1>7, <1>8 DEF N!EditNumber
<1>9. ASSUME NEW p \in Procs, N!ReviveRecord(p) \/ N!Mirror(p) PROVE IntakeFits'
  BY <1>1, <1>7, <1>9 DEF N!ReviveRecord, N!Mirror
<1>10. ASSUME NEW p \in Procs, N!ReviveApplicant(p) PROVE IntakeFits'
  BY <1>1, <1>7, <1>10 DEF N!ReviveApplicant
<1>11. ASSUME NEW p \in Procs, N!ResetCommit(p) PROVE IntakeFits'
  BY <1>1, <1>7, <1>11 DEF N!ResetCommit
<1>12. ASSUME NEW p \in Procs, N!Lost(p) PROVE IntakeFits'
  <2>1. nReq[p].pc = "revive_applicant" => nReq[p].applicant \in DOMAIN applicants
    BY <1>1 DEF RequestKnows
  <2> QED
    BY <1>12, <2>1 DEF N!Lost, N!At, IntakeFits
<1>13. CASE UNCHANGED <<applicants, records, stranded>>
  BY <1>7, <1>13
<1>14. ASSUME NEW p \in Procs,
              N!AddCheck(p) \/ N!ImportLookUp(p) \/ N!KnownLookUp(p) \/ N!ResetRead(p)
       PROVE  IntakeFits'
  BY <1>13, <1>14 DEF N!AddCheck, N!ImportLookUp, N!KnownLookUp, N!ResetRead
<1> QED
  BY <1>2, <1>4, <1>5, <1>6, <1>8, <1>9, <1>10, <1>11, <1>12, <1>13, <1>14
  DEF N!Next, N!Step

\* The types of the profiles: a count is of records, and there are no more than the bound.
LEMMA IntakeTyped == IntakeInv /\ IntakeFits => N!TypeOK
<1> SUFFICES ASSUME IntakeInv, IntakeFits PROVE N!TypeOK
  OBVIOUS
<1>1. /\ applicants \in Seq(Applicant) /\ records \in Seq(Record) /\ CountsAgree
      /\ \A p \in Procs : RequestKnows(nReq[p])
      /\ Len(records) \in Nat /\ MaxRecords \in Nat
  BY BoundsAssumption DEF IntakeInv
<1>2. ASSUME NEW a \in DOMAIN applicants PROVE applicants[a].count \in 0 .. MaxRecords
  <2>1. RecordsOf(records, a) \subseteq 1 .. Len(records)
    BY <1>1 DEF RecordsOf
  <2>2. IsFiniteSet(1 .. Len(records)) /\ Cardinality(1 .. Len(records)) = Len(records)
    <3>1. 1 \in Int /\ Len(records) \in Int /\ (1 > Len(records) => Len(records) = 0)
      BY <1>1
    <3>2. /\ IsFiniteSet(1 .. Len(records))
          /\ Cardinality(1 .. Len(records)) =
               IF 1 > Len(records) THEN 0 ELSE Len(records) - 1 + 1
      BY <3>1, FS_Interval
    <3> QED
      BY <1>1, <3>1, <3>2
  <2>3. /\ Cardinality(RecordsOf(records, a)) \in Nat
        /\ Cardinality(RecordsOf(records, a)) <= Len(records)
    BY <1>1, <2>1, <2>2, RecordsFinite, FS_Subset
  <2> QED
    BY <1>1, <2>3 DEF CountsAgree, IntakeFits
<1>3. ASSUME NEW a \in DOMAIN applicants
      PROVE  applicants[a] \in
               [deleted : BOOLEAN, number : BOOLEAN, count : 0 .. MaxRecords]
  <2>1. applicants[a] \in Applicant
    BY <1>1
  <2> QED
    BY <1>2, <2>1 DEF Applicant
<1>4. ASSUME NEW r \in DOMAIN records
      PROVE  records[r] \in [applicant : DOMAIN applicants, website : BOOLEAN,
                             deleted : BOOLEAN, mirrored : BOOLEAN]
  <2>1. records[r] \in Record /\ records[r].applicant \in DOMAIN applicants
    BY <1>1 DEF CountsAgree
  <2> QED
    BY <2>1 DEF Record
<1> QED
  BY <1>1, <1>3, <1>4 DEF N!TypeOK, IntakeFits, RequestKnows
=============================================================================
