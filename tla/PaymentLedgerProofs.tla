------------------------ MODULE PaymentLedgerProofs ------------------------
(***************************************************************************)
(* For any number of requests, any receipts and any snapshots: receipts    *)
(* that race exceed the plan by no more than they come to beside one of    *)
(* them, and no receipt is banked twice.  For requests that come one at a  *)
(* time: staff bank within the plan and, where nothing is imported, the    *)
(* plan shows what was collected.                                          *)
(***************************************************************************)
EXTENDS PaymentLedger, FiniteSetTheorems, WellFoundedInduction, TLAPS

Keys == {NoKey} \cup {form.key : form \in Receipts \cup Snapshots}
Refs == {NoRef} \cup {form.ref : form \in Receipts \cup Snapshots}

LedgerRow == [amount : Int, key : Keys, ref : Refs, reverses : Nat]

PlanRow == [planned : BOOLEAN, final : Nat, paid : Int,
            status : {"pending", "partial", "paid"}]

LedgerRequest ==
  [pc : {"idle", "upsert", "insert", "sum", "update", "import", "import_new"},
   row : LedgerRow, final : Nat, sum : Int]

Importing(r) == r.pc \in {"import", "import_new"}

\* The types of the variables; what a request imports is an amount of money.
Shape ==
  /\ plan \in PlanRow
  /\ ledger \in Seq(LedgerRow)
  /\ req \in [Procs -> LedgerRequest]
  /\ \A p \in Procs : Importing(req[p]) => req[p].row.amount \in Nat

-----------------------------------------------------------------------------
(* The sum of the rows.                                                    *)

\* h runs along the first n rows: h[i] is the sum of the first i.
Running(h, rows, n) ==
  /\ h \in [0 .. n -> Int] /\ h[0] = 0
  /\ \A i \in 1 .. n : h[i] = h[i - 1] + rows[i].amount

\* A set of numbers that has a member has a least.
LEMMA LeastNumber ==
  ASSUME NEW T \in SUBSET Nat, T # {}
  PROVE  \E n \in T : \A m \in T : n <= m
<1>1. PICK n \in T : \A m \in T : ~(<<m, n>> \in OpToRel(<, Nat))
  BY NatLessThanWellFounded, WFMin
<1>2. \A m \in T : ~(m < n)
  BY <1>1 DEF OpToRel
<1> QED
  BY <1>2

\* There is a function that runs along the rows.
LEMMA SomeRunning ==
  ASSUME NEW rows \in Seq(LedgerRow), NEW n \in 0 .. Len(rows)
  PROVE  \E h : Running(h, rows, n)
<1> DEFINE T == {m \in 0 .. Len(rows) : \A h : ~Running(h, rows, m)}
<1> SUFFICES ASSUME T # {} PROVE FALSE
  OBVIOUS
<1>1. PICK m \in T : \A k \in T : m <= k
  <2>1. T \in SUBSET Nat
    OBVIOUS
  <2> HIDE DEF T
  <2> QED
    BY <2>1, LeastNumber
<1>2. CASE m = 0
  <2>1. Running([i \in 0 .. 0 |-> 0], rows, 0)
    BY DEF Running
  <2> QED
    BY <1>2, <2>1
<1>3. CASE m # 0
  <2>1. m - 1 \in 0 .. Len(rows) /\ m - 1 \notin T /\ m \in 1 .. Len(rows)
    BY <1>1, <1>3
  <2>2. PICK h : Running(h, rows, m - 1)
    BY <2>1
  <2>3. rows[m].amount \in Int /\ h[m - 1] \in Int
    <3>1. rows[m] \in LedgerRow
      BY <2>1
    <3>2. h \in [0 .. m - 1 -> Int] /\ m - 1 \in 0 .. m - 1
      BY <2>1, <2>2 DEF Running
    <3> QED
      BY <3>1, <3>2 DEF LedgerRow
  <2> DEFINE g == [i \in 0 .. m |-> IF i = m THEN h[m - 1] + rows[m].amount ELSE h[i]]
  <2>4. g \in [0 .. m -> Int] /\ g[0] = 0
    BY <2>1, <2>2, <2>3 DEF Running
  <2>5. ASSUME NEW i \in 1 .. m PROVE g[i] = g[i - 1] + rows[i].amount
    <3>1. CASE i = m
      BY <2>1, <3>1
    <3>2. CASE i # m
      BY <2>1, <2>2, <3>2 DEF Running
    <3> QED
      BY <3>1, <3>2
  <2> HIDE DEF g
  <2>6. Running(g, rows, m)
    BY <2>4, <2>5 DEF Running
  <2> QED
    BY <1>1, <2>6
<1> QED
  BY <1>2, <1>3

\* SumOf is the last value of any function that runs along all the rows.
LEMMA SumIsLast ==
  ASSUME NEW rows \in Seq(LedgerRow), NEW h, Running(h, rows, Len(rows))
  PROVE  SumOf(rows) = h[Len(rows)]
<1> DEFINE upto[n \in 0 .. Len(rows)] ==
             IF n = 0 THEN 0 ELSE upto[n - 1] + rows[n].amount
<1>1. Len(rows) \in Nat
  OBVIOUS
<1>2. h = [n \in 0 .. Len(rows) |-> IF n = 0 THEN 0 ELSE h[n - 1] + rows[n].amount]
  BY <1>1 DEF Running
<1>3. upto = [n \in 0 .. Len(rows) |->
                IF n = 0 THEN 0 ELSE upto[n - 1] + rows[n].amount]
  BY <1>2, Zenon
<1> HIDE DEF upto
<1> DEFINE T == {n \in 0 .. Len(rows) : upto[n] # h[n]}
<1>4. T = {}
  <2> SUFFICES ASSUME T # {} PROVE FALSE
    OBVIOUS
  <2>1. PICK n \in T : \A m \in T : n <= m
    <3>1. T \in SUBSET Nat
      BY <1>1
    <3> HIDE DEF T
    <3> QED
      BY <3>1, LeastNumber
  <2>2. CASE n = 0
    BY <1>1, <1>3, <2>2 DEF Running
  <2>3. CASE n # 0
    <3>1. n \in 1 .. Len(rows) /\ n - 1 \in 0 .. Len(rows) /\ n - 1 \notin T
      BY <1>1, <2>1, <2>3
    <3>2. upto[n - 1] = h[n - 1]
      BY <3>1
    <3>3. upto[n] = upto[n - 1] + rows[n].amount
      BY <1>3, <2>3
    <3> QED
      BY <3>1, <3>2, <3>3 DEF Running
  <2> QED
    BY <2>2, <2>3
<1>5. upto[Len(rows)] = h[Len(rows)]
  BY <1>1, <1>4
<1>6. SumOf(rows) = upto[Len(rows)]
  BY DEF SumOf, upto
<1> QED
  BY <1>5, <1>6

\* Nothing sums to nothing.
LEMMA SumOfNone == SumOf(<<>>) = 0
<1>1. Running([i \in 0 .. 0 |-> 0], <<>>, Len(<<>>))
  BY DEF Running
<1> QED
  BY <1>1, SumIsLast

\* What the rows sum to is an amount.
LEMMA SumIsAmount == ASSUME NEW rows \in Seq(LedgerRow) PROVE SumOf(rows) \in Int
<1>1. PICK h : Running(h, rows, Len(rows))
  BY SomeRunning
<1> QED
  BY <1>1, SumIsLast DEF Running

\* A row adds its amount.
LEMMA SumOfAppend ==
  ASSUME NEW rows \in Seq(LedgerRow), NEW row \in LedgerRow
  PROVE  SumOf(Append(rows, row)) = SumOf(rows) + row.amount
<1> DEFINE more == Append(rows, row)
<1>1. /\ more \in Seq(LedgerRow) /\ Len(more) = Len(rows) + 1
      /\ Len(rows) \in Nat /\ more[Len(rows) + 1] = row
      /\ \A i \in 1 .. Len(rows) : more[i] = rows[i]
  OBVIOUS
<1> HIDE DEF more
<1>2. PICK h : Running(h, more, Len(more))
  BY <1>1, SomeRunning
<1> DEFINE g == [i \in 0 .. Len(rows) |-> h[i]]
<1>3. Running(g, rows, Len(rows))
  BY <1>1, <1>2 DEF Running
<1>4. g[Len(rows)] = h[Len(rows)]
  BY <1>1
<1> HIDE DEF g
<1>5. SumOf(rows) = h[Len(rows)] /\ SumOf(more) = h[Len(rows) + 1]
  BY <1>1, <1>2, <1>3, <1>4, SumIsLast
<1>6. h[Len(rows) + 1] = h[Len(rows)] + row.amount
  BY <1>1, <1>2 DEF Running
<1> QED
  BY <1>5, <1>6 DEF more

-----------------------------------------------------------------------------
(* The types.                                                              *)

\* A request that has ended is a well-formed request.
LEMMA IdleShape == Idle \in LedgerRequest
<1>1. NoRow \in LedgerRow
  BY DEF NoRow, Row, LedgerRow, Keys, Refs
<1> QED
  BY <1>1 DEF Idle, LedgerRequest

\* settle answers one of the three statuses, whatever the amounts.
LEMMA StatusShape ==
  ASSUME NEW final, NEW paid
  PROVE  StatusOf(final, paid) \in {"pending", "partial", "paid"}
  BY DEF StatusOf

\* No plan, no rows and no request: the shape holds of a fresh database.
LEMMA InitShape == Init => Shape
  BY IdleShape DEF Init, Shape, PlanRow, Idle, Importing

\* A step changes the request that takes it, and no other.
LEMMA RequestShape ==
  ASSUME Shape, NEW p \in Procs, NEW r \in LedgerRequest, req' = [req EXCEPT ![p] = r],
         Importing(r) => r.row.amount \in Nat
  PROVE  /\ req' \in [Procs -> LedgerRequest]
         /\ req'[p] = r
         /\ \A q \in Procs \ {p} : req'[q] = req[q]
         /\ \A q \in Procs : Importing(req'[q]) => req'[q].row.amount \in Nat
  BY DEF Shape

\* Every step keeps the shape.
LEMMA StepShape == Shape /\ [Next]_vars => Shape'
<1> SUFFICES ASSUME Shape, [Next]_vars PROVE Shape'
  OBVIOUS
<1> USE DEF Importing
<1>0. Idle \in LedgerRequest /\ Idle.pc = "idle"
  BY IdleShape DEF Idle
<1>1. ASSUME NEW p \in Procs, PlanRead(p) PROVE Shape'
  <2>1. PICK final \in FinalAmounts :
          req' = [req EXCEPT ![p] = [Idle EXCEPT !.pc = "upsert", !.final = final]]
    BY <1>1 DEF PlanRead
  <2> DEFINE r == [Idle EXCEPT !.pc = "upsert", !.final = final]
  <2>2. r \in LedgerRequest /\ r.pc = "upsert"
    BY <1>0, LedgerAmountsAssumption DEF LedgerRequest
  <2> HIDE DEF r
  <2> QED
    BY <1>1, <2>1, <2>2, RequestShape DEF PlanRead, Shape, r
<1>2. ASSUME NEW p \in Procs, PlanWrite(p) PROVE Shape'
  <2>1. SumOf(ledger) \in Int
    BY SumIsAmount DEF Shape
  <2>2. req[p].final \in Nat
    BY DEF Shape, LedgerRequest
  <2>3. Repriced(req[p].final, SumOf(ledger)) \in PlanRow
    BY <2>1, <2>2, StatusShape DEF Repriced, PlanRow
  <2>4. plan' \in PlanRow
    BY <1>2, <2>3 DEF PlanWrite, Shape
  <2> QED
    BY <1>0, <1>2, <2>4, RequestShape DEF PlanWrite, Shape
<1>3. ASSUME NEW p \in Procs, RecordRead(p) PROVE Shape'
  <2>1. PICK form \in Receipts :
          req' = [req EXCEPT ![p] = [Idle EXCEPT !.pc = "insert",
                                       !.row = Row(form.amount, form.key, form.ref, 0)]]
    BY <1>3 DEF RecordRead
  <2>2. Row(form.amount, form.key, form.ref, 0) \in LedgerRow
    BY LedgerFormsAssumption DEF Row, LedgerRow, Keys, Refs
  <2> DEFINE r == [Idle EXCEPT !.pc = "insert", !.row = Row(form.amount, form.key, form.ref, 0)]
  <2>3. r \in LedgerRequest /\ r.pc = "insert"
    BY <1>0, <2>2 DEF LedgerRequest
  <2> HIDE DEF r
  <2> QED
    BY <1>3, <2>1, <2>3, RequestShape DEF RecordRead, Shape, r
<1>4. ASSUME NEW p \in Procs, ReverseRead(p) PROVE Shape'
  <2>1. PICK i \in DOMAIN ledger :
          req' = [req EXCEPT ![p] = [Idle EXCEPT !.pc = "insert", !.row = Correction(i)]]
    BY <1>4 DEF ReverseRead
  <2>2. Correction(i) \in LedgerRow
    <3>1. ledger[i] \in LedgerRow /\ i \in Nat
      BY DEF Shape
    <3> QED
      BY <3>1 DEF Correction, Row, LedgerRow, Keys
  <2> DEFINE r == [Idle EXCEPT !.pc = "insert", !.row = Correction(i)]
  <2>3. r \in LedgerRequest /\ r.pc = "insert"
    BY <1>0, <2>2 DEF LedgerRequest
  <2> HIDE DEF r
  <2> QED
    BY <1>4, <2>1, <2>3, RequestShape DEF ReverseRead, Shape, r
<1>5. ASSUME NEW p \in Procs, InsertRow(p) PROVE Shape'
  <2> DEFINE r == [req[p] EXCEPT !.pc = "sum", !.final = plan.final]
  <2>1. req' = [req EXCEPT ![p] = r]
    BY <1>5 DEF InsertRow, Shape, LedgerRequest
  <2>2. r \in LedgerRequest /\ r.pc = "sum"
    BY DEF Shape, LedgerRequest, PlanRow
  <2> HIDE DEF r
  <2> QED
    BY <1>5, <2>1, <2>2, RequestShape DEF InsertRow, Shape
<1>6. ASSUME NEW p \in Procs, SumRows(p) PROVE Shape'
  <2> DEFINE sum == Collected(req[p].row)
  <2> DEFINE r   == [req[p] EXCEPT !.pc = "update", !.sum = sum]
  <2>1. req' = [req EXCEPT ![p] = r]
    BY <1>6 DEF SumRows, Shape, LedgerRequest
  <2>2. sum \in Int
    <3>1. ledger \in Seq(LedgerRow) /\ req[p].row.amount \in Int
      BY DEF Shape, LedgerRequest, LedgerRow
    <3> QED
      BY <3>1, SumIsAmount DEF Collected
  <2> HIDE DEF sum
  <2>3. r \in LedgerRequest /\ r.pc = "update"
    BY <2>2 DEF Shape, LedgerRequest
  <2> HIDE DEF r
  <2> QED
    BY <1>6, <2>1, <2>3, RequestShape DEF SumRows, Shape
<1>7. ASSUME NEW p \in Procs, WriteSum(p) PROVE Shape'
  <2>1. req[p].row \in LedgerRow /\ req[p].sum \in Int
    BY DEF Shape, LedgerRequest
  <2>2. plan' \in PlanRow
    BY <1>7, <2>1, StatusShape DEF WriteSum, Shape, PlanRow
  <2>3. ledger' \in Seq(LedgerRow)
    BY <1>7, <2>1 DEF WriteSum, Shape
  <2> QED
    BY <1>0, <1>7, <2>2, <2>3, RequestShape DEF WriteSum, Shape
<1>8. ASSUME NEW p \in Procs, ImportRead(p) PROVE Shape'
  <2>1. PICK snap \in Snapshots :
          req' = [req EXCEPT ![p] =
                    [Idle EXCEPT !.pc = IF plan.planned THEN "import" ELSE "import_new",
                                 !.row = Row(snap.amount, snap.key, snap.ref, 0)]]
    BY <1>8 DEF ImportRead
  <2>2. /\ Row(snap.amount, snap.key, snap.ref, 0) \in LedgerRow
        /\ Row(snap.amount, snap.key, snap.ref, 0).amount \in Nat
    BY LedgerFormsAssumption DEF Row, LedgerRow, Keys, Refs
  <2> DEFINE r == [Idle EXCEPT !.pc = IF plan.planned THEN "import" ELSE "import_new",
                               !.row = Row(snap.amount, snap.key, snap.ref, 0)]
  <2>3. r \in LedgerRequest /\ r.row.amount \in Nat
    BY <1>0, <2>2 DEF LedgerRequest
  <2> HIDE DEF r
  <2> QED
    BY <1>8, <2>1, <2>3, RequestShape DEF ImportRead, Shape, r
<1>9. ASSUME NEW p \in Procs, ImportWrite(p) PROVE Shape'
  <2>1. req[p].row \in LedgerRow /\ req[p].row.amount \in Nat
    BY <1>9 DEF ImportWrite, Shape, LedgerRequest
  <2>2. plan.final \in Nat
    BY DEF Shape, PlanRow
  <2>3. plan' \in PlanRow
    <3>1. CASE plan' = plan
      BY <3>1 DEF Shape
    <3>2. CASE plan' # plan
      <4> DEFINE final == IF req[p].pc = "import_new" THEN req[p].row.amount ELSE plan.final
      <4>1. plan' = [planned |-> TRUE, final |-> final,
                     paid |-> req[p].row.amount, status |-> "paid"]
        BY <1>9, <3>2 DEF ImportWrite
      <4>2. final \in Nat
        BY <2>1, <2>2
      <4> HIDE DEF final
      <4> QED
        BY <2>1, <4>1, <4>2 DEF PlanRow
    <3> QED
      BY <3>1, <3>2
  <2>4. ledger' \in Seq(LedgerRow)
    BY <1>9, <2>1 DEF ImportWrite, Shape
  <2> QED
    BY <1>0, <1>9, <2>3, <2>4, RequestShape DEF ImportWrite, Shape
<1>10. ASSUME NEW p \in Procs, Lost(p) \/ DuplicateRefused(p) PROVE Shape'
  BY <1>0, <1>10, RequestShape DEF Lost, DuplicateRefused, Shape
<1>11. CASE UNCHANGED vars
  BY <1>11 DEF vars, Shape
<1> QED
  BY <1>1, <1>2, <1>3, <1>4, <1>5, <1>6, <1>7, <1>8, <1>9, <1>10, <1>11 DEF Next, Step

-----------------------------------------------------------------------------

\* The unique indexes compare rows both ways.
LEMMA ClashSymmetric == \A row, other : Clash(row, other) <=> Clash(other, row)
  BY DEF Clash

\* A step that commits no row and leaves its request with none pending keeps every
\* uncommitted row apart.
LEMMA ApartWithoutRow ==
  ASSUME UncommittedApart, ledger' = ledger, NEW p \in Procs,
         req'[p].pc \notin {"sum", "update"},
         \A q \in Procs \ {p} : req'[q] = req[q]
  PROVE  UncommittedApart'
  BY DEF UncommittedApart, CommittedClash, PendingClash

\* Committing a row apart from all others keeps the ledger and the uncommitted rows
\* apart.
LEMMA ApartAfterCommit ==
  ASSUME Shape, BankedOnce, UncommittedApart,
         NEW p \in Procs, NEW row \in LedgerRow, ledger' = Append(ledger, row),
         ~CommittedClash(row), ~PendingClash(p, row),
         req'[p].pc \notin {"sum", "update"},
         \A q \in Procs \ {p} : req'[q] = req[q]
  PROVE  BankedOnce' /\ UncommittedApart'
<1>1. /\ DOMAIN ledger' = 1 .. Len(ledger) + 1
      /\ DOMAIN ledger = 1 .. Len(ledger)
      /\ \A i \in DOMAIN ledger : ledger'[i] = ledger[i]
      /\ ledger'[Len(ledger) + 1] = row
      /\ Len(ledger) \in Nat
  BY DEF Shape
<1>2. \A i \in DOMAIN ledger : ~Clash(row, ledger[i]) /\ ~Clash(ledger[i], row)
  BY ClashSymmetric DEF CommittedClash
<1>3. BankedOnce'
  BY <1>1, <1>2 DEF BankedOnce, Clash
<1>4. UncommittedApart'
  <2> SUFFICES ASSUME NEW q \in Procs, req'[q].pc \in {"sum", "update"}
               PROVE  ~CommittedClash(req[q].row)' /\ ~PendingClash(q, req[q].row)'
    BY DEF UncommittedApart
  <2>1. q # p /\ req'[q] = req[q]
    OBVIOUS
  <2>2. ~Clash(req[q].row, row)
    BY <2>1, ClashSymmetric DEF PendingClash
  <2>3. \A i \in DOMAIN ledger' : ~Clash(req[q].row, ledger'[i])
    BY <1>1, <2>1, <2>2 DEF UncommittedApart, CommittedClash
  <2>4. \A o \in Procs \ {q} :
          req'[o].pc \in {"sum", "update"} => ~Clash(req[q].row, req'[o].row)
    BY <2>1 DEF UncommittedApart, PendingClash
  <2> QED
    BY <2>1, <2>3, <2>4 DEF CommittedClash, PendingClash
<1> QED
  BY <1>3, <1>4

\* An empty ledger has nothing twice.
LEMMA InitLedger == Init => LedgerInductive
  BY DEF Init, LedgerInductive, BankedOnce, UncommittedApart, Idle

\* No step banks a row twice, or leaves two equal rows uncommitted.
LEMMA StepLedger == Shape /\ LedgerInductive /\ [Next]_vars => LedgerInductive'
<1> SUFFICES ASSUME Shape, BankedOnce, UncommittedApart, [Next]_vars
             PROVE  LedgerInductive'
  BY DEF LedgerInductive
\* A step that leaves the ledger and its request with no row pending.
<1>1. ASSUME NEW p \in Procs,
             PlanRead(p) \/ RecordRead(p) \/ ReverseRead(p) \/ ImportRead(p)
             \/ Lost(p) \/ DuplicateRefused(p)
      PROVE  LedgerInductive'
  <2>1. req'[p].pc \notin {"sum", "update"} /\ \A q \in Procs \ {p} : req'[q] = req[q]
    <3>1. req \in [Procs -> LedgerRequest]
      BY DEF Shape
    <3>2. CASE PlanRead(p)
      BY <3>1, <3>2 DEF PlanRead, Idle
    <3>3. CASE RecordRead(p)
      BY <3>1, <3>3 DEF RecordRead, Idle
    <3>4. CASE ReverseRead(p)
      BY <3>1, <3>4 DEF ReverseRead, Idle
    <3>5. CASE ImportRead(p)
      BY <3>1, <3>5 DEF ImportRead, Idle
    <3>6. CASE Lost(p) \/ DuplicateRefused(p)
      BY <3>1, <3>6 DEF Lost, DuplicateRefused, Idle
    <3> QED
      BY <1>1, <3>2, <3>3, <3>4, <3>5, <3>6
  <2>2. plan' = plan /\ ledger' = ledger
    BY <1>1 DEF PlanRead, RecordRead, ReverseRead, ImportRead, Lost, DuplicateRefused
  <2>3. UncommittedApart'
    BY <2>1, <2>2, ApartWithoutRow
  <2> QED
    BY <2>2, <2>3 DEF LedgerInductive, BankedOnce
<1>2. ASSUME NEW p \in Procs, PlanWrite(p) PROVE LedgerInductive'
  <2>1. req'[p].pc \notin {"sum", "update"} /\ \A q \in Procs \ {p} : req'[q] = req[q]
    BY <1>2 DEF PlanWrite, Shape, Idle
  <2>2. UncommittedApart'
    BY <1>2, <2>1, ApartWithoutRow DEF PlanWrite
  <2> QED
    BY <1>2, <2>2 DEF PlanWrite, LedgerInductive, BankedOnce
<1>3. ASSUME NEW p \in Procs, InsertRow(p) PROVE LedgerInductive'
  <2>1. /\ req'[p].pc = "sum" /\ req'[p].row = req[p].row
        /\ \A q \in Procs \ {p} : req'[q] = req[q]
    BY <1>3 DEF InsertRow, Shape, LedgerRequest
  <2>2. ledger' = ledger /\ plan' = plan
    BY <1>3 DEF InsertRow
  <2>3. UncommittedApart'
    <3>1. ~CommittedClash(req[p].row) /\ ~PendingClash(p, req[p].row)
      BY <1>3 DEF InsertRow
    <3> SUFFICES ASSUME NEW q \in Procs, req'[q].pc \in {"sum", "update"}
                 PROVE  ~CommittedClash(req[q].row)' /\ ~PendingClash(q, req[q].row)'
      BY DEF UncommittedApart
    <3>2. req'[q].row = req[q].row
      BY <2>1
    <3>3. ~CommittedClash(req[q].row)'
      BY <2>1, <2>2, <3>1, <3>2 DEF UncommittedApart, CommittedClash
    <3>4. CASE q = p
      BY <2>1, <3>1, <3>2, <3>3, <3>4 DEF PendingClash
    <3>5. CASE q # p
      <4>1. ~PendingClash(q, req[q].row)
        BY <2>1, <3>5 DEF UncommittedApart
      <4>2. ~Clash(req[q].row, req[p].row)
        BY <2>1, <3>1, <3>5, ClashSymmetric DEF PendingClash
      <4> QED
        BY <2>1, <3>2, <3>3, <3>5, <4>1, <4>2 DEF PendingClash
    <3> QED
      BY <3>4, <3>5
  <2> QED
    BY <2>2, <2>3 DEF LedgerInductive, BankedOnce
<1>4. ASSUME NEW p \in Procs, SumRows(p) PROVE LedgerInductive'
  <2>1. /\ req[p].pc = "sum" /\ req'[p].pc = "update" /\ req'[p].row = req[p].row
        /\ \A q \in Procs \ {p} : req'[q] = req[q]
    BY <1>4 DEF SumRows, Shape, LedgerRequest
  <2>2. ledger' = ledger /\ plan' = plan
    BY <1>4 DEF SumRows
  <2>3. UncommittedApart'
    BY <2>1, <2>2 DEF UncommittedApart, CommittedClash, PendingClash
  <2> QED
    BY <2>2, <2>3 DEF LedgerInductive, BankedOnce
<1>5. ASSUME NEW p \in Procs, WriteSum(p) PROVE LedgerInductive'
  <2>1. req'[p].pc \notin {"sum", "update"} /\ \A q \in Procs \ {p} : req'[q] = req[q]
    BY <1>5 DEF WriteSum, Shape, Idle
  <2>2. ~CommittedClash(req[p].row) /\ ~PendingClash(p, req[p].row)
    BY <1>5 DEF WriteSum, UncommittedApart
  <2>3. req[p].row \in LedgerRow
    BY DEF Shape, LedgerRequest
  <2>4. BankedOnce' /\ UncommittedApart'
    <3>1. ledger' = ledger \/ ledger' = Append(ledger, req[p].row)
      BY <1>5 DEF WriteSum
    <3>2. CASE ledger' = ledger
      BY <2>1, <3>2, ApartWithoutRow DEF BankedOnce
    <3>3. CASE ledger' = Append(ledger, req[p].row)
      BY <2>1, <2>2, <2>3, <3>3, ApartAfterCommit
    <3> QED
      BY <3>1, <3>2, <3>3
  <2> QED
    BY <2>4 DEF LedgerInductive
<1>6. ASSUME NEW p \in Procs, ImportWrite(p) PROVE LedgerInductive'
  <2>1. req'[p].pc \notin {"sum", "update"} /\ \A q \in Procs \ {p} : req'[q] = req[q]
    BY <1>6 DEF ImportWrite, Shape, Idle
  <2>2. req[p].row \in LedgerRow
    BY DEF Shape, LedgerRequest
  <2>3. CASE CommittedClash(req[p].row)
    <3>1. ledger' = ledger /\ plan' = plan
      BY <1>6, <2>3 DEF ImportWrite
    <3> QED
      BY <2>1, <3>1, ApartWithoutRow DEF LedgerInductive, BankedOnce
  <2>4. CASE ~CommittedClash(req[p].row)
    <3>1. ~PendingClash(p, req[p].row)
      BY <1>6 DEF ImportWrite
    <3>2. ledger' = ledger \/ ledger' = Append(ledger, req[p].row)
      BY <1>6 DEF ImportWrite
    <3>3. BankedOnce' /\ UncommittedApart'
      <4>1. CASE ledger' = ledger
        BY <2>1, <4>1, ApartWithoutRow DEF BankedOnce
      <4>2. CASE ledger' = Append(ledger, req[p].row)
        BY <2>1, <2>2, <2>4, <3>1, <4>2, ApartAfterCommit
      <4> QED
        BY <3>2, <4>1, <4>2
    <3> QED
      BY <3>3 DEF LedgerInductive
  <2> QED
    BY <2>3, <2>4
<1>7. CASE UNCHANGED vars
  BY <1>7 DEF vars, LedgerInductive, BankedOnce, UncommittedApart,
              CommittedClash, PendingClash
<1> QED
  BY <1>1, <1>2, <1>3, <1>4, <1>5, <1>6, <1>7 DEF Next, Step

\* The inductive form holds of every reachable state.
LEMMA LedgerInductiveCorrect == Spec => []LedgerInductive
<1>1. Init => Shape /\ LedgerInductive
  BY InitShape, InitLedger
<1>2. Shape /\ LedgerInductive /\ [Next]_vars => (Shape /\ LedgerInductive)'
  BY StepShape, StepLedger
<1> QED
  BY <1>1, <1>2, PTL DEF Spec

\* However receipts, reversals, re-pricing and imports interleave, and however often a
\* form or a snapshot is repeated, the ledger holds a receipt once.
THEOREM NeverBankedTwice == Spec => []BankedOnce
<1>1. LedgerInductive => BankedOnce
  BY DEF LedgerInductive
<1> QED
  BY <1>1, LedgerInductiveCorrect, PTL

-----------------------------------------------------------------------------
(* What a step does to the rows.                                           *)

\* A step leaves the ledger, and its request with no receipt to take back, the one it
\* had, or one nobody took back; or it adds the row of its request, and that ends.
LEMMA StepKinds ==
  ASSUME Shape, NEW p \in Procs, Step(p)
  PROVE  /\ \A q \in Procs \ {p} : req'[q] = req[q]
         /\ \/ /\ ledger' = ledger
               /\ \/ req'[p].row.reverses \in {0, req[p].row.reverses}
                  \/ \E i \in DOMAIN ledger : req'[p].row.reverses = i /\ ~IsReversed(i)
            \/ ledger' = Append(ledger, req[p].row) /\ req'[p] = Idle
<1>1. req \in [Procs -> LedgerRequest] /\ Idle.row.reverses = 0
  BY DEF Shape, Idle, NoRow, Row
<1>2. CASE PlanRead(p) \/ PlanWrite(p) \/ Lost(p) \/ DuplicateRefused(p)
  <2>1. req'[p].row.reverses = 0 /\ \A q \in Procs \ {p} : req'[q] = req[q]
    <3>1. CASE PlanRead(p)
      BY <1>1, <3>1 DEF PlanRead, Idle
    <3>2. CASE ~PlanRead(p)
      BY <1>1, <1>2, <3>2 DEF PlanWrite, Lost, DuplicateRefused
    <3> QED
      BY <3>1, <3>2
  <2>2. ledger' = ledger
    BY <1>2 DEF PlanRead, PlanWrite, Lost, DuplicateRefused
  <2> QED
    BY <1>1, <2>1, <2>2
<1>3. CASE RecordRead(p)
  <2>1. req'[p].row.reverses = 0 /\ \A q \in Procs \ {p} : req'[q] = req[q]
    BY <1>1, <1>3 DEF RecordRead, Idle, Row
  <2>2. ledger' = ledger
    BY <1>3 DEF RecordRead
  <2> QED
    BY <1>1, <2>1, <2>2
<1>4. CASE ReverseRead(p)
  <2>1. \E i \in DOMAIN ledger : \E r :
          req' = [req EXCEPT ![p] = r] /\ r.row.reverses = i /\ ~IsReversed(i)
    BY <1>4 DEF ReverseRead, Idle, Correction, Row
  <2>2. ledger' = ledger
    BY <1>4 DEF ReverseRead
  <2> QED
    BY <1>1, <2>1, <2>2
<1>5. CASE InsertRow(p) \/ SumRows(p)
  <2>1. ledger' = ledger /\ req'[p].row = req[p].row /\ \A q \in Procs \ {p} : req'[q] = req[q]
    BY <1>1, <1>5 DEF InsertRow, SumRows, LedgerRequest
  <2> QED
    BY <2>1
<1>6. CASE ImportRead(p)
  <2>1. req'[p].row.reverses = 0 /\ \A q \in Procs \ {p} : req'[q] = req[q]
    BY <1>1, <1>6 DEF ImportRead, Idle, Row
  <2>2. ledger' = ledger
    BY <1>6 DEF ImportRead
  <2> QED
    BY <1>1, <2>1, <2>2
<1>7. CASE WriteSum(p) \/ ImportWrite(p)
  <2>1. req' = [req EXCEPT ![p] = Idle]
    BY <1>7 DEF WriteSum, ImportWrite
  <2>2. ledger' = ledger \/ ledger' = Append(ledger, req[p].row)
    BY <1>7 DEF WriteSum, ImportWrite
  <2> QED
    BY <1>1, <2>1, <2>2
<1> QED
  BY <1>2, <1>3, <1>4, <1>5, <1>6, <1>7 DEF Step

\* Rows and requests take back earlier rows.
Refers ==
  /\ \A i \in DOMAIN ledger : ledger[i].reverses \in 0 .. (i - 1)
  /\ \A p \in Procs : req[p].row.reverses \in 0 .. Len(ledger)

\* What is taken back was there when it was read, and the ledger only grows.
LEMMA StepRefers == Shape /\ Refers /\ [Next]_vars => Refers'
<1> SUFFICES ASSUME Shape, Refers, [Next]_vars PROVE Refers'
  OBVIOUS
<1>1. CASE UNCHANGED vars
  BY <1>1 DEF vars, Refers
<1>2. ASSUME NEW p \in Procs, Step(p) PROVE Refers'
  <2>1. /\ ledger \in Seq(LedgerRow) /\ Len(ledger) \in Nat
        /\ DOMAIN ledger = 1 .. Len(ledger)
        /\ req[p].row \in LedgerRow /\ Idle.row.reverses = 0
    BY DEF Shape, LedgerRequest, Idle, NoRow, Row
  <2>2. CASE ledger' = Append(ledger, req[p].row) /\ req'[p] = Idle
    <3>1. /\ DOMAIN ledger' = 1 .. Len(ledger) + 1 /\ Len(ledger') = Len(ledger) + 1
          /\ \A i \in DOMAIN ledger : ledger'[i] = ledger[i]
          /\ ledger'[Len(ledger) + 1] = req[p].row
      BY <2>1, <2>2
    <3>2. \A i \in DOMAIN ledger' : ledger'[i].reverses \in 0 .. (i - 1)
      BY <2>1, <3>1 DEF Refers
    <3>3. ASSUME NEW q \in Procs PROVE req'[q].row.reverses \in 0 .. Len(ledger')
      <4>1. req[q].row.reverses \in 0 .. Len(ledger)
        BY DEF Refers
      <4>2. req'[q] = req[q] \/ req'[q].row.reverses = 0
        BY <1>2, <2>1, <2>2, StepKinds
      <4> QED
        BY <2>1, <3>1, <4>1, <4>2
    <3> QED
      BY <3>2, <3>3 DEF Refers
  <2>3. CASE /\ ledger' = ledger
             /\ \/ req'[p].row.reverses \in {0, req[p].row.reverses}
                \/ \E i \in DOMAIN ledger : req'[p].row.reverses = i /\ ~IsReversed(i)
    <3>1. ASSUME NEW q \in Procs PROVE req'[q].row.reverses \in 0 .. Len(ledger)
      <4>1. req[q].row.reverses \in 0 .. Len(ledger)
        BY DEF Refers
      <4>2. CASE q = p
        BY <2>1, <2>3, <4>1, <4>2
      <4>3. CASE q # p
        BY <1>2, <4>1, <4>3, StepKinds
      <4> QED
        BY <4>2, <4>3
    <3> QED
      BY <2>3, <3>1 DEF Refers
  <2> QED
    BY <1>2, <2>2, <2>3, StepKinds
<1> QED
  BY <1>1, <1>2 DEF Next

\* Whatever races, amounts are amounts, and a correction names an earlier row.
THEOREM TypeCorrect == Spec => []TypeOK
<1>1. Init => Shape /\ Refers
  <2>1. Init => Refers
    BY DEF Init, Refers, Idle, NoRow, Row
  <2> QED
    BY <2>1, InitShape
<1>2. Shape /\ Refers /\ [Next]_vars => (Shape /\ Refers)'
  BY StepShape, StepRefers
<1>3. Shape /\ Refers => TypeOK
  <2> SUFFICES ASSUME Shape, Refers PROVE TypeOK
    OBVIOUS
  <2>1. ASSUME NEW i \in DOMAIN ledger PROVE ledger[i].amount \in Int
    <3>1. ledger[i] \in LedgerRow
      BY DEF Shape
    <3> QED
      BY <3>1 DEF LedgerRow
  <2>2. \A p \in Procs : req[p] \in LedgerRequest
    BY DEF Shape
  <2> QED
    BY <2>1, <2>2 DEF Shape, Refers, TypeOK, PlanRow, LedgerRequest
<1> QED
  BY <1>1, <1>2, <1>3, PTL DEF Spec

-----------------------------------------------------------------------------
(* What staff bank.                                                        *)

Banked == SumOf(StaffRows)

\* What the plan and the requests beside one of them allow.
Allowed == plan.final + (Cardinality(Procs) - 1) * Largest

\* The receipts that are summed, found within the plan, and not yet written.
Held == {p \in Procs : /\ req[p].pc = "update" /\ req[p].row.amount > 0
                       /\ req[p].sum <= plan.final}

\* One of the requests in P is the last to be held against the rows: with its amount,
\* and the largest for each of the others, what is banked stays within q.
Covers(P, banked, q) ==
  \E p \in P :
    banked + req[p].row.amount + (Cardinality(P) - 1) * Largest <= q

\* Only a correction has a negative amount, and it carries no key.
Signs(row) ==
  /\ row.reverses = 0 => row.amount \in Nat
  /\ row.key # NoKey => row.amount \in Nat

\* Before there is a plan nothing is banked; staff bank nothing beyond what is in the
\* ledger; a request imports under a key of the website's, and banks no more than a form.
Entries ==
  /\ ~plan.planned => /\ ledger = <<>>
                      /\ \A p \in Procs : req[p].pc \notin {"insert", "sum", "update"}
  /\ \A i \in DOMAIN ledger : Signs(ledger[i])
  /\ \A p \in Procs :
       /\ Signs(req[p].row)
       /\ Importing(req[p]) => StaffRow(req[p].row) = NoRow
       /\ ~Importing(req[p]) => req[p].row.amount <= Largest
  /\ Banked <= SumOf(ledger)

\* The bound holds, and the receipts on their way to be written cannot break it.
WithinPlan ==
  /\ Banked <= Allowed
  /\ Held # {} => Covers(Held, Banked, Allowed)

\* The rows of staff are rows, and one more row is one more of them.
LEMMA StaffAppend ==
  ASSUME NEW rows \in Seq(LedgerRow), NEW row \in LedgerRow
  PROVE  LET staff(r) == [i \in DOMAIN r |-> StaffRow(r[i])]
         IN  /\ staff(rows) \in Seq(LedgerRow) /\ StaffRow(row) \in LedgerRow
             /\ SumOf(staff(Append(rows, row))) = SumOf(staff(rows)) + StaffRow(row).amount
<1> DEFINE old == [i \in DOMAIN rows |-> StaffRow(rows[i])]
           more == [i \in DOMAIN Append(rows, row) |-> StaffRow(Append(rows, row)[i])]
<1>1. NoRow \in LedgerRow
  BY DEF NoRow, Row, LedgerRow, Keys, Refs
<1>2. \A r \in LedgerRow : StaffRow(r) \in LedgerRow
  BY <1>1 DEF StaffRow
<1>3. /\ DOMAIN rows = 1 .. Len(rows) /\ Len(rows) \in Nat
      /\ \A i \in DOMAIN rows : rows[i] \in LedgerRow
      /\ DOMAIN Append(rows, row) = 1 .. Len(rows) + 1
      /\ \A i \in DOMAIN rows : Append(rows, row)[i] = rows[i]
      /\ Append(rows, row)[Len(rows) + 1] = row
  OBVIOUS
<1>4. old \in [1 .. Len(rows) -> LedgerRow] /\ old \in Seq(LedgerRow)
  BY <1>2, <1>3
<1>5. more = Append(old, StaffRow(row))
  <2>1. Len(old) = Len(rows)
    BY <1>3, <1>4
  <2> QED
    BY <1>2, <1>3, <1>4, <2>1
<1> HIDE DEF old, more
<1>6. SumOf(more) = SumOf(old) + StaffRow(row).amount
  BY <1>2, <1>4, <1>5, SumOfAppend
<1> QED
  BY <1>2, <1>4, <1>6 DEF old, more

\* The largest receipt, once more or so often again.
LEMMA Largests ==
  ASSUME NEW m \in Int, NEW n \in Int
  PROVE  /\ m * Largest \in Int /\ (m + 1) * Largest = m * Largest + Largest
         /\ m <= n => m * Largest <= n * Largest
<1>1. Largest \in Nat
  BY LedgerLargestAssumption
<1>2. m * Largest \in Int /\ (m + 1) * Largest = m * Largest + Largest
  BY <1>1
<1>3. ASSUME m <= n PROVE m * Largest <= n * Largest
  <2>1. n - m \in Nat /\ (n - m) * Largest >= 0
    BY <1>1, <1>3
  <2>2. n * Largest = m * Largest + (n - m) * Largest
    BY <1>1
  <2> QED
    BY <1>1, <2>1, <2>2
<1> QED
  BY <1>2, <1>3

\* Where fewer receipts are on their way, or less is banked, what covers them covers
\* those that are left.
LEMMA FewerCovered ==
  ASSUME Shape, NEW P \in SUBSET Procs, NEW Q \in SUBSET P, Q # {},
         \A p \in P : req[p].row.amount \in 0 .. Largest,
         NEW banked \in Int, NEW less \in Int, less <= banked, NEW q \in Int,
         Covers(P, banked, q)
  PROVE  Covers(Q, less, q)
<1> DEFINE a(p) == req[p].row.amount
<1>1. PICK p \in P : banked + a(p) + (Cardinality(P) - 1) * Largest <= q
  BY DEF Covers
<1>2. /\ IsFiniteSet(P) /\ Cardinality(P) \in Nat
      /\ IsFiniteSet(Q) /\ Cardinality(Q) \in Nat /\ Cardinality(Q) <= Cardinality(P)
  BY LedgerProcsAssumption, FS_Subset, FS_CardinalityType
<1>3. /\ Largest \in Nat /\ \A r \in P : a(r) \in Int /\ 0 <= a(r) /\ a(r) <= Largest
  BY LedgerLargestAssumption
<1> HIDE DEF a
<1>4. CASE p \in Q
  <2>1. /\ Cardinality(Q) - 1 \in Int /\ Cardinality(P) - 1 \in Int
        /\ Cardinality(Q) - 1 <= Cardinality(P) - 1
    BY <1>2
  <2>2. /\ (Cardinality(Q) - 1) * Largest \in Int
        /\ (Cardinality(P) - 1) * Largest \in Int
        /\ (Cardinality(Q) - 1) * Largest <= (Cardinality(P) - 1) * Largest
    BY <2>1, Largests
  <2>3. less + a(p) + (Cardinality(Q) - 1) * Largest <= q
    BY <1>1, <1>3, <2>2
  <2> QED
    BY <1>4, <2>3 DEF Covers, a
<1>5. CASE p \notin Q
  <2>1. PICK r \in Q : TRUE
    OBVIOUS
  <2>2. Cardinality(Q) <= Cardinality(P) - 1
    BY <1>2, <1>5, FS_Subset
  <2> DEFINE m == (Cardinality(Q) - 1) * Largest
             n == (Cardinality(P) - 1) * Largest
  <2>3. m \in Int /\ n \in Int /\ m + Largest <= n
    <3>1. m \in Int /\ n \in Int
      BY <1>2, Largests
    <3>2. Cardinality(Q) * Largest = m + Largest
      <4>1. Cardinality(Q) - 1 \in Int /\ (Cardinality(Q) - 1) + 1 = Cardinality(Q)
        BY <1>2
      <4> QED
        BY <4>1, Largests
    <3>3. Cardinality(Q) * Largest <= n
      BY <1>2, <2>2, Largests
    <3> QED
      BY <3>1, <3>2, <3>3
  <2> HIDE DEF m, n
  <2>4. less + a(r) + m <= q
    BY <1>1, <1>3, <2>3 DEF n
  <2> QED
    BY <2>4 DEF Covers, a, m
<1> QED
  BY <1>4, <1>5

\* A receipt on its way is written: it fits, and those that are left are covered.
LEMMA OneWritten ==
  ASSUME Shape, NEW P \in SUBSET Procs, NEW p \in P,
         \A r \in P : req[r].row.amount \in 0 .. Largest,
         NEW banked \in Int, NEW q \in Int, Covers(P, banked, q)
  PROVE  /\ banked + req[p].row.amount <= q
         /\ P \ {p} # {} => Covers(P \ {p}, banked + req[p].row.amount, q)
<1> DEFINE a(r) == req[r].row.amount
           rest == P \ {p}
<1>1. PICK last \in P : banked + a(last) + (Cardinality(P) - 1) * Largest <= q
  BY DEF Covers
<1>2. /\ IsFiniteSet(P) /\ Cardinality(P) \in Nat /\ Cardinality(P) >= 1
      /\ IsFiniteSet(rest) /\ Cardinality(rest) = Cardinality(P) - 1
  <2>1. IsFiniteSet(P) /\ Cardinality(P) \in Nat
    BY LedgerProcsAssumption, FS_Subset, FS_CardinalityType
  <2>2. Cardinality(P) # 0
    BY <2>1, FS_EmptySet
  <2> QED
    BY <2>1, <2>2, FS_RemoveElement
<1>3. Largest \in Nat /\ \A r \in P : a(r) \in Int /\ 0 <= a(r) /\ a(r) <= Largest
  BY LedgerLargestAssumption
<1> DEFINE m == (Cardinality(P) - 1) * Largest
<1>4. m \in Int /\ 0 <= m
  <2>1. 0 * Largest <= m /\ m \in Int
    BY <1>2, Largests
  <2> QED
    BY <1>3, <2>1
<1>5. CASE rest = {}
  <2>1. last = p
    BY <1>5
  <2> HIDE DEF a, m
  <2>2. banked + a(p) <= q
    BY <1>1, <1>3, <1>4, <2>1 DEF m
  <2> QED
    BY <1>5, <2>2 DEF a
<1>6. CASE rest # {}
  <2> DEFINE n == (Cardinality(rest) - 1) * Largest
  <2>1. n \in Int /\ m = n + Largest /\ 0 <= n
    <3>1. Cardinality(rest) \in Nat /\ Cardinality(rest) # 0
      BY <1>2, <1>6, FS_EmptySet, FS_CardinalityType
    <3>2. 0 * Largest <= n /\ n \in Int
      <4>1. Cardinality(rest) - 1 \in Int /\ 0 <= Cardinality(rest) - 1
        BY <3>1
      <4> QED
        BY <4>1, Largests
    <3>3. Cardinality(rest) - 1 \in Int /\ (Cardinality(rest) - 1) + 1 = Cardinality(P) - 1
      BY <1>2, <3>1
    <3>4. m = n + Largest
      BY <3>3, Largests
    <3> QED
      BY <1>3, <3>2, <3>4
  <2>2. PICK r \in rest : r = last \/ last = p
    BY <1>6
  <2> HIDE DEF a, m, n
  <2>3. banked + a(p) + a(r) + n <= q
    BY <1>1, <1>3, <2>1, <2>2 DEF m
  <2>4. banked + a(p) <= q
    BY <1>3, <2>1, <2>3
  <2>5. Covers(rest, banked + a(p), q)
    BY <2>3 DEF Covers, a, n
  <2> QED
    BY <2>4, <2>5 DEF a
<1> QED
  BY <1>5, <1>6

\* What covers the receipts held after a step, covers them then.
LEMMA CoversNext ==
  ASSUME NEW Q \in SUBSET Procs, Held' = Q,
         \A r \in Q : req'[r].row.amount = req[r].row.amount,
         Covers(Q, Banked', Allowed')
  PROVE  Covers(Held, Banked, Allowed)'
<1>1. PICK r \in Q :
        Banked' + req[r].row.amount + (Cardinality(Q) - 1) * Largest <= Allowed'
  BY DEF Covers
<1>2. r \in Held' /\ req'[r].row.amount = req[r].row.amount
  OBVIOUS
<1>3. Banked' + req'[r].row.amount + (Cardinality(Held') - 1) * Largest <= Allowed'
  BY <1>1, <1>2
<1> QED
  BY <1>2, <1>3, Zenon DEF Covers

\* A step that ends its request, or takes it no further than its sum, keeps what is
\* covered where the plan's total and what staff banked stay.
LEMMA WithinKept ==
  ASSUME Shape, Entries, WithinPlan, plan'.final = plan.final, NEW p \in Procs,
         \A r \in Procs \ {p} : req'[r] = req[r],
         req'[p].pc # "update",
         Banked \in Int, Banked' \in Int, Banked' <= Banked
  PROVE  WithinPlan'
<1>1. Held' = Held \ {p}
  BY DEF Held
<1>2. Allowed' = Allowed /\ Allowed \in Int
  <2>1. Cardinality(Procs) \in Nat /\ plan.final \in Nat
    BY LedgerProcsAssumption, FS_CardinalityType DEF Shape, PlanRow
  <2>2. (Cardinality(Procs) - 1) * Largest \in Int
    <3>1. Cardinality(Procs) - 1 \in Int
      BY <2>1
    <3> QED
      BY <3>1, Largests
  <2> QED
    BY <2>1, <2>2 DEF Allowed
<1>3. Banked' <= Allowed'
  BY <1>2 DEF WithinPlan
<1>4. ASSUME Held' # {} PROVE Covers(Held, Banked, Allowed)'
  <2>1. /\ Held \in SUBSET Procs /\ Held \ {p} \in SUBSET Held
        /\ \A r \in Held : req[r].row.amount \in 0 .. Largest
    BY DEF Held, Entries, Importing, Shape, LedgerRequest, LedgerRow
  <2>2. Covers(Held \ {p}, Banked', Allowed)
    BY <1>1, <1>2, <1>4, <2>1, FewerCovered DEF WithinPlan
  <2> QED
    BY <1>1, <1>2, <2>1, <2>2, CoversNext
<1> QED
  BY <1>3, <1>4 DEF WithinPlan

\* The sums are numbers, and a row adds to them what it carries.
LEMMA BankedRow ==
  ASSUME Shape, NEW row \in LedgerRow
  PROVE  /\ Banked \in Int /\ SumOf(ledger) \in Int
         /\ ledger' = Append(ledger, row) =>
              /\ Banked' = Banked + StaffRow(row).amount
              /\ SumOf(ledger') = SumOf(ledger) + row.amount
         /\ ledger' = ledger => Banked' = Banked
<1>1. ledger \in Seq(LedgerRow)
  BY DEF Shape
<1>2. /\ StaffRows \in Seq(LedgerRow)
      /\ ledger' = Append(ledger, row) =>
           SumOf(StaffRows') = SumOf(StaffRows) + StaffRow(row).amount
  BY <1>1, StaffAppend DEF StaffRows
<1> QED
  BY <1>1, <1>2, SumIsAmount, SumOfAppend DEF Banked, StaffRows

\* A request that has ended has no row.
LEMMA IdleEntry ==
  /\ Signs(Idle.row) /\ ~Importing(Idle) /\ Idle.row.amount <= Largest
  /\ Idle.pc = "idle" /\ NoRow.amount = 0
  BY LedgerLargestAssumption DEF Signs, Importing, Idle, NoRow, Row

\* A step that commits no row, with a request whose row is as the others.
LEMMA EntriesKept ==
  ASSUME Shape, Entries, ledger' = ledger, NEW p \in Procs,
         \A q \in Procs \ {p} : req'[q] = req[q],
         plan.planned => plan'.planned,
         plan'.planned \/ req'[p].pc \notin {"insert", "sum", "update"},
         Signs(req'[p].row),
         Importing(req'[p]) => StaffRow(req'[p].row) = NoRow,
         ~Importing(req'[p]) => req'[p].row.amount <= Largest
  PROVE  Entries'
<1>1. Banked' <= SumOf(ledger')
  BY DEF Entries, Banked, StaffRows
<1>2. \A q \in Procs : /\ Signs(req'[q].row)
                       /\ Importing(req'[q]) => StaffRow(req'[q].row) = NoRow
                       /\ ~Importing(req'[q]) => req'[q].row.amount <= Largest
  <2> SUFFICES ASSUME NEW q \in Procs
               PROVE  /\ Signs(req'[q].row)
                      /\ Importing(req'[q]) => StaffRow(req'[q].row) = NoRow
                      /\ ~Importing(req'[q]) => req'[q].row.amount <= Largest
    OBVIOUS
  <2>1. CASE q = p
    BY <2>1
  <2>2. CASE q # p
    BY <2>2 DEF Entries
  <2> QED
    BY <2>1, <2>2
<1>3. \A i \in DOMAIN ledger' : Signs(ledger'[i])
  BY DEF Entries
<1>4. ~plan'.planned => /\ ledger' = <<>>
                        /\ \A q \in Procs : req'[q].pc \notin {"insert", "sum", "update"}
  BY DEF Entries
<1> QED
  BY <1>1, <1>2, <1>3, <1>4 DEF Entries

\* A step that commits the row of its request, and ends it.
LEMMA EntriesAppended ==
  ASSUME Shape, Entries, NEW p \in Procs, ledger' = Append(ledger, req[p].row),
         req'[p] = Idle, \A q \in Procs \ {p} : req'[q] = req[q], plan'.planned
  PROVE  Entries'
<1>1. req[p].row \in LedgerRow /\ ledger \in Seq(LedgerRow) /\ Signs(req[p].row)
  BY DEF Shape, LedgerRequest, Entries
<1>2. StaffRow(req[p].row).amount <= req[p].row.amount
  <2>1. CASE StaffRow(req[p].row) = req[p].row
    BY <1>1, <2>1 DEF LedgerRow
  <2>2. CASE StaffRow(req[p].row) # req[p].row
    <3>1. PICK snap \in Snapshots : req[p].row.key = snap.key
      BY <2>2 DEF StaffRow
    <3>2. req[p].row.amount \in Nat /\ StaffRow(req[p].row) = NoRow
      BY <1>1, <2>2, <3>1, LedgerFormsAssumption DEF Signs, StaffRow
    <3> QED
      BY <3>2, IdleEntry
  <2> QED
    BY <2>1, <2>2
<1>3. Banked' <= SumOf(ledger')
  <2>1. StaffRow(req[p].row).amount \in Int /\ req[p].row.amount \in Int
    BY <1>1, StaffAppend DEF LedgerRow
  <2>2. Banked <= SumOf(ledger)
    BY DEF Entries
  <2> QED
    BY <1>1, <1>2, <2>1, <2>2, BankedRow
<1>4. \A i \in DOMAIN ledger' : Signs(ledger'[i])
  <2>1. /\ DOMAIN ledger' = 1 .. Len(ledger) + 1 /\ DOMAIN ledger = 1 .. Len(ledger)
        /\ \A i \in DOMAIN ledger : ledger'[i] = ledger[i]
        /\ ledger'[Len(ledger) + 1] = req[p].row /\ Len(ledger) \in Nat
    BY <1>1
  <2> QED
    BY <1>1, <2>1 DEF Entries
<1>5. \A q \in Procs : /\ Signs(req'[q].row)
                       /\ Importing(req'[q]) => StaffRow(req'[q].row) = NoRow
                       /\ ~Importing(req'[q]) => req'[q].row.amount <= Largest
  BY IdleEntry DEF Entries
<1> QED
  BY <1>3, <1>4, <1>5 DEF Entries

\* Every step keeps the entries.
LEMMA StepEntries == Shape /\ Entries /\ [Next]_vars => Entries'
<1> SUFFICES ASSUME Shape, Entries, [Next]_vars PROVE Entries'
  OBVIOUS
<1>0. /\ req \in [Procs -> LedgerRequest] /\ plan \in PlanRow
      /\ \A p \in Procs : req[p] \in LedgerRequest
  BY DEF Shape
<1>1. ASSUME NEW p \in Procs, PlanRead(p) PROVE Entries'
  <2>1. \E final \in FinalAmounts :
          req' = [req EXCEPT ![p] = [Idle EXCEPT !.pc = "upsert", !.final = final]]
    BY <1>1 DEF PlanRead
  <2>2. /\ req'[p].pc = "upsert" /\ req'[p].row = Idle.row
        /\ \A q \in Procs \ {p} : req'[q] = req[q]
    BY <1>0, <2>1 DEF Idle
  <2>3. ledger' = ledger /\ plan' = plan
    BY <1>1 DEF PlanRead
  <2> QED
    BY <2>2, <2>3, IdleEntry, EntriesKept DEF Importing
<1>2. ASSUME NEW p \in Procs, PlanWrite(p) \/ Lost(p) \/ DuplicateRefused(p)
      PROVE  Entries'
  <2>1. /\ ledger' = ledger /\ req'[p] = Idle
        /\ \A q \in Procs \ {p} : req'[q] = req[q]
    BY <1>0, <1>2 DEF PlanWrite, Lost, DuplicateRefused
  <2>2. plan.planned => plan'.planned
    BY <1>2 DEF PlanWrite, Repriced, Lost, DuplicateRefused
  <2> QED
    BY <2>1, <2>2, IdleEntry, EntriesKept
<1>3. ASSUME NEW p \in Procs, RecordRead(p) PROVE Entries'
  <2>1. PICK form \in Receipts :
          req' = [req EXCEPT ![p] = [Idle EXCEPT !.pc = "insert",
                                       !.row = Row(form.amount, form.key, form.ref, 0)]]
    BY <1>3 DEF RecordRead
  <2>2. /\ req'[p].pc = "insert" /\ req'[p].row = Row(form.amount, form.key, form.ref, 0)
        /\ \A q \in Procs \ {p} : req'[q] = req[q]
    BY <1>0, <2>1 DEF Idle
  <2>3. Signs(req'[p].row) /\ req'[p].row.amount <= Largest
    BY <2>2, LedgerFormsAssumption, LedgerLargestAssumption DEF Signs, Row
  <2>4. ledger' = ledger /\ plan' = plan /\ plan.planned
    BY <1>3 DEF RecordRead
  <2> QED
    BY <2>2, <2>3, <2>4, EntriesKept DEF Importing
<1>4. ASSUME NEW p \in Procs, ReverseRead(p) PROVE Entries'
  <2>1. PICK i \in DOMAIN ledger :
          /\ ledger[i].reverses = 0
          /\ req' = [req EXCEPT ![p] = [Idle EXCEPT !.pc = "insert", !.row = Correction(i)]]
    BY <1>4 DEF ReverseRead
  <2>2. /\ req'[p].pc = "insert" /\ req'[p].row = Correction(i)
        /\ \A q \in Procs \ {p} : req'[q] = req[q]
    BY <1>0, <2>1 DEF Idle
  <2>3. ledger[i].amount \in Nat /\ i # 0 /\ ledger # <<>>
    BY <2>1 DEF Entries, Signs, Shape
  <2>4. Signs(req'[p].row) /\ req'[p].row.amount <= Largest
    BY <2>2, <2>3, LedgerLargestAssumption DEF Signs, Correction, Row
  <2>5. ledger' = ledger /\ plan' = plan /\ plan.planned
    BY <1>4, <2>3 DEF ReverseRead, Entries
  <2> QED
    BY <2>2, <2>4, <2>5, EntriesKept DEF Importing
<1>5. ASSUME NEW p \in Procs, InsertRow(p) \/ SumRows(p) PROVE Entries'
  <2>1. /\ ledger' = ledger /\ plan' = plan
        /\ req[p].pc \in {"insert", "sum"} /\ req'[p].pc \in {"sum", "update"}
        /\ req'[p].row = req[p].row
        /\ \A q \in Procs \ {p} : req'[q] = req[q]
    BY <1>0, <1>5 DEF InsertRow, SumRows, LedgerRequest
  <2>2. plan.planned
    BY <2>1 DEF Entries
  <2>3. Signs(req[p].row) /\ req[p].row.amount <= Largest
    BY <2>1 DEF Entries, Importing
  <2> QED
    BY <2>1, <2>2, <2>3, EntriesKept DEF Importing
<1>6. ASSUME NEW p \in Procs, WriteSum(p) \/ ImportWrite(p) PROVE Entries'
  <2>1. req'[p] = Idle /\ \A q \in Procs \ {p} : req'[q] = req[q]
    BY <1>0, <1>6 DEF WriteSum, ImportWrite
  <2>2. CASE plan' = plan /\ ledger' = ledger
    BY <2>1, <2>2, IdleEntry, EntriesKept
  <2>3. CASE ~(plan' = plan /\ ledger' = ledger)
    <3>1. ledger' = Append(ledger, req[p].row)
      BY <1>6, <2>3 DEF WriteSum, ImportWrite
    <3>2. plan'.planned
      <4>1. CASE WriteSum(p)
        <5>1. plan.planned
          BY <4>1 DEF WriteSum, Entries
        <5> QED
          BY <1>0, <4>1, <5>1 DEF WriteSum, PlanRow
      <4>2. CASE ImportWrite(p)
        BY <2>3, <4>2 DEF ImportWrite
      <4> QED
        BY <1>6, <4>1, <4>2
    <3> QED
      BY <2>1, <3>1, <3>2, EntriesAppended
  <2> QED
    BY <2>2, <2>3
<1>7. ASSUME NEW p \in Procs, ImportRead(p) PROVE Entries'
  <2>1. PICK snap \in Snapshots :
          req' = [req EXCEPT ![p] =
                    [Idle EXCEPT !.pc = IF plan.planned THEN "import" ELSE "import_new",
                                 !.row = Row(snap.amount, snap.key, snap.ref, 0)]]
    BY <1>7 DEF ImportRead
  <2>2. /\ req'[p].pc \in {"import", "import_new"}
        /\ req'[p].row = Row(snap.amount, snap.key, snap.ref, 0)
        /\ \A q \in Procs \ {p} : req'[q] = req[q]
    BY <1>0, <2>1 DEF Idle
  <2>3. Signs(req'[p].row) /\ StaffRow(req'[p].row) = NoRow
    BY <2>2, LedgerFormsAssumption DEF Signs, Row, StaffRow
  <2>4. ledger' = ledger /\ plan' = plan
    BY <1>7 DEF ImportRead
  <2> QED
    BY <2>2, <2>3, <2>4, EntriesKept DEF Importing
<1>8. CASE UNCHANGED vars
  BY <1>8 DEF vars, Entries, Banked, StaffRows, Signs, StaffRow, Importing
<1> QED
  BY <1>1, <1>2, <1>3, <1>4, <1>5, <1>6, <1>7, <1>8 DEF Next, Step

\* What the requests beside one of them may add is an amount, while there is a request.
LEMMA AllowedShape ==
  ASSUME Shape, NEW p \in Procs
  PROVE  /\ Cardinality(Procs) \in Nat /\ Cardinality(Procs) >= 1
         /\ (Cardinality(Procs) - 1) * Largest \in Nat
         /\ Allowed \in Int
<1>1. Cardinality(Procs) \in Nat /\ Cardinality(Procs) # 0
  BY LedgerProcsAssumption, FS_CardinalityType, FS_EmptySet
<1>2. (Cardinality(Procs) - 1) * Largest \in Nat
  <2>1. Cardinality(Procs) - 1 \in Int /\ 0 <= Cardinality(Procs) - 1
    BY <1>1
  <2>2. /\ (Cardinality(Procs) - 1) * Largest \in Int
        /\ 0 * Largest <= (Cardinality(Procs) - 1) * Largest
    BY <2>1, Largests
  <2> QED
    BY <2>2, LedgerLargestAssumption
<1>3. plan.final \in Nat
  BY DEF Shape, PlanRow
<1> QED
  BY <1>1, <1>2, <1>3 DEF Allowed

\* The receipts held are receipts, for no more than the largest.
LEMMA HeldAmounts ==
  ASSUME Shape, Entries
  PROVE  /\ Held \in SUBSET Procs
         /\ \A r \in Held : req[r].row.amount \in 0 .. Largest
  BY LedgerLargestAssumption DEF Held, Entries, Importing, Shape, LedgerRequest, LedgerRow

\* A receipt found within the plan is covered, with all that are held beside it.
LEMMA SumWithin ==
  ASSUME Shape, Entries, WithinPlan, NEW p \in Procs, SumRows(p)
  PROVE  WithinPlan'
<1>1. /\ req[p].pc = "sum" /\ plan' = plan /\ ledger' = ledger
      /\ req'[p].pc = "update" /\ req'[p].row = req[p].row
      /\ req'[p].sum = SumOf(ledger) + req[p].row.amount
      /\ \A q \in Procs \ {p} : req'[q] = req[q]
  BY DEF SumRows, Collected, Shape, LedgerRequest
<1>2. Banked' = Banked /\ Allowed' = Allowed
  BY <1>1 DEF Banked, StaffRows, Allowed
<1>3. /\ Banked \in Int /\ SumOf(ledger) \in Int /\ req[p].row.amount \in Int
      /\ plan.final \in Nat
  BY BankedRow DEF Shape, LedgerRequest, LedgerRow, PlanRow
<1>4. p \notin Held
  BY <1>1 DEF Held
<1>5. CASE p \notin Held'
  <2>1. Held' = Held
    BY <1>1, <1>4, <1>5 DEF Held
  <2>2. Held # {} => Covers(Held, Banked', Allowed')
    BY <1>2 DEF WithinPlan
  <2>3. Held' # {} => Covers(Held, Banked, Allowed)'
    BY <1>1, <1>4, <2>1, <2>2, HeldAmounts, CoversNext
  <2> QED
    BY <1>2, <2>3 DEF WithinPlan
<1>6. CASE p \in Held'
  <2> DEFINE m == (Cardinality(Held') - 1) * Largest
             n == (Cardinality(Procs) - 1) * Largest
  <2>1. m \in Int /\ n \in Int /\ m <= n
    <3>1. /\ IsFiniteSet(Held') /\ Cardinality(Held') \in Nat
          /\ Cardinality(Procs) \in Nat /\ Cardinality(Held') <= Cardinality(Procs)
      <4>1. Held' \in SUBSET Procs
        BY DEF Held
      <4> QED
        BY <4>1, LedgerProcsAssumption, FS_Subset, FS_CardinalityType
    <3>2. /\ Cardinality(Held') - 1 \in Int /\ Cardinality(Procs) - 1 \in Int
          /\ Cardinality(Held') - 1 <= Cardinality(Procs) - 1
      BY <3>1
    <3> QED
      BY <3>2, Largests
  <2> HIDE DEF m, n
  <2>2. SumOf(ledger) + req[p].row.amount <= plan.final
    BY <1>1, <1>6 DEF Held
  <2>3. Banked <= SumOf(ledger)
    BY DEF Entries
  <2>4. Banked + req[p].row.amount + m <= plan.final + n
    BY <1>3, <2>1, <2>2, <2>3
  <2>5. Banked' + req'[p].row.amount + (Cardinality(Held') - 1) * Largest <= Allowed'
    BY <1>1, <1>2, <2>4 DEF Allowed, m, n
  <2>6. Covers(Held, Banked, Allowed)'
    BY <1>6, <2>5, Zenon DEF Covers
  <2> QED
    BY <1>2, <2>6 DEF WithinPlan
<1> QED
  BY <1>5, <1>6

\* The CHECK holds back a receipt that is not held; one that is, was covered.
LEMMA WriteWithin ==
  ASSUME Shape, Entries, WithinPlan, NEW p \in Procs, WriteSum(p)
  PROVE  WithinPlan'
<1>1. /\ req[p].pc = "update" /\ req'[p].pc # "update" /\ plan'.final = plan.final
      /\ \A q \in Procs \ {p} : req'[q] = req[q]
  BY DEF WriteSum, Shape, PlanRow, Idle
<1>2. /\ req[p].row \in LedgerRow /\ req[p].row.amount \in Int
      /\ req[p].sum \in Int /\ plan.final \in Nat
  BY DEF Shape, LedgerRequest, LedgerRow, PlanRow
<1>3. Banked \in Int /\ Allowed \in Int /\ Allowed' = Allowed
  BY <1>1, <1>2, BankedRow, AllowedShape DEF Allowed
<1>4. CASE ledger' = ledger
  BY <1>1, <1>2, <1>3, <1>4, BankedRow, WithinKept
<1>5. CASE ledger' # ledger
  <2>1. ledger' = Append(ledger, req[p].row) /\ req[p].sum <= plan.final
    BY <1>5 DEF WriteSum, PaidWithinFinal
  <2>2. Banked' = Banked + StaffRow(req[p].row).amount
    BY <1>2, <2>1, BankedRow
  <2>3. StaffRow(req[p].row) = req[p].row \/ StaffRow(req[p].row) = NoRow
    BY DEF StaffRow
  <2>4. CASE Banked' <= Banked
    <3>1. Banked' \in Int
      BY <1>2, <1>3, <2>2, <2>3, IdleEntry
    <3> QED
      BY <1>1, <1>3, <2>4, <3>1, WithinKept
  <2>5. CASE ~(Banked' <= Banked)
    <3>1. Banked' = Banked + req[p].row.amount /\ req[p].row.amount > 0
      BY <1>2, <1>3, <2>2, <2>3, <2>5, IdleEntry
    <3>2. p \in Held /\ Held' = Held \ {p}
      BY <1>1, <2>1, <3>1 DEF Held
    <3>3. /\ Banked' <= Allowed
          /\ Held \ {p} # {} => Covers(Held \ {p}, Banked', Allowed)
      BY <1>3, <3>1, <3>2, HeldAmounts, OneWritten DEF WithinPlan
    <3>4. Held' # {} => Covers(Held, Banked, Allowed)'
      BY <1>1, <1>3, <3>2, <3>3, HeldAmounts, CoversNext
    <3> QED
      BY <1>3, <3>3, <3>4 DEF WithinPlan
  <2> QED
    BY <2>4, <2>5
<1> QED
  BY <1>4, <1>5

\* A new total is no less than the rows come to; the receipts it takes in are fewer
\* than the requests, for the one that writes it is no receipt.
LEMMA RepriceWithin ==
  ASSUME Shape, Entries, WithinPlan, NEW p \in Procs, PlanWrite(p)
  PROVE  WithinPlan'
<1>1. /\ req'[p].pc # "update" /\ ledger' = ledger
      /\ \A q \in Procs \ {p} : req'[q] = req[q]
  BY DEF PlanWrite, Shape, Idle
<1>2. Banked \in Int /\ SumOf(ledger) \in Int /\ Banked' = Banked /\ Banked <= SumOf(ledger)
  <2>1. req[p].row \in LedgerRow
    BY DEF Shape, LedgerRequest
  <2> QED
    BY <1>1, <2>1, BankedRow DEF Entries
<1>3. CASE plan' = plan
  BY <1>1, <1>2, <1>3, WithinKept
<1>4. CASE plan' # plan
  <2>1. SumOf(ledger) <= plan'.final /\ plan'.final \in Nat
    BY <1>4 DEF PlanWrite, Repriced, PaidWithinFinal, Shape, LedgerRequest
  <2> DEFINE n == (Cardinality(Procs) - 1) * Largest
  <2>2. /\ Cardinality(Procs) \in Nat /\ Cardinality(Procs) >= 1
        /\ n \in Nat /\ Allowed' = plan'.final + n
    BY AllowedShape DEF Allowed
  <2> HIDE DEF n
  <2>3. Banked' <= Allowed'
    BY <1>2, <2>1, <2>2
  <2>4. ASSUME Held' # {} PROVE Covers(Held, Banked, Allowed)'
    <3> DEFINE m == (Cardinality(Held') - 1) * Largest
    <3>1. PICK q \in Held' : TRUE
      BY <2>4
    <3>2. q \in Procs \ {p} /\ Held' \in SUBSET (Procs \ {p})
      BY <1>1, <3>1 DEF Held
    <3>3. req'[q].row.amount = req[q].row.amount /\ req[q].row.amount \in 0 .. Largest
      <4>1. req'[q] = req[q] /\ req[q].pc = "update" /\ req[q].row.amount > 0
        BY <1>1, <3>1, <3>2 DEF Held
      <4> QED
        BY <3>2, <4>1, LedgerLargestAssumption
           DEF Entries, Importing, Shape, LedgerRequest, LedgerRow
    <3>4. m \in Int /\ m + Largest <= n
      <4>1. /\ IsFiniteSet(Held') /\ Cardinality(Held') \in Nat
            /\ Cardinality(Held') <= Cardinality(Procs) - 1
        <5>1. /\ IsFiniteSet(Procs \ {p})
              /\ Cardinality(Procs \ {p}) = Cardinality(Procs) - 1
          BY LedgerProcsAssumption, FS_RemoveElement
        <5> QED
          BY <3>2, <5>1, FS_Subset, FS_CardinalityType
      <4>2. /\ Cardinality(Held') - 1 \in Int /\ Cardinality(Procs) - 1 \in Int
            /\ (Cardinality(Held') - 1) + 1 = Cardinality(Held')
        BY <2>2, <4>1
      <4>3. m \in Int /\ Cardinality(Held') * Largest = m + Largest
        BY <4>2, Largests
      <4>4. Cardinality(Held') * Largest <= n
        BY <4>1, <4>2, Largests DEF n
      <4> QED
        BY <4>3, <4>4
    <3> HIDE DEF m
    <3>5. Banked' + req'[q].row.amount + m <= Allowed'
      BY <1>2, <2>1, <2>2, <3>3, <3>4, LedgerLargestAssumption
    <3> QED
      BY <3>1, <3>5, Zenon DEF Covers, m
  <2> QED
    BY <2>3, <2>4 DEF WithinPlan
<1> QED
  BY <1>3, <1>4

\* An import adds nothing of staff's; it sets a total only where there was no plan.
LEMMA ImportWithin ==
  ASSUME Shape, Entries, WithinPlan, NEW p \in Procs, ImportWrite(p)
  PROVE  WithinPlan'
<1>1. /\ req'[p].pc # "update" /\ Importing(req[p])
      /\ \A q \in Procs \ {p} : req'[q] = req[q]
  BY DEF ImportWrite, Shape, Idle, Importing
<1>2. req[p].row \in LedgerRow /\ StaffRow(req[p].row) = NoRow
  BY <1>1 DEF Shape, LedgerRequest, Entries
<1>3. Banked \in Int /\ Banked' = Banked
  <2>1. ledger' = ledger \/ ledger' = Append(ledger, req[p].row)
    BY DEF ImportWrite
  <2>2. Banked \in Int /\ (ledger' = ledger => Banked' = Banked)
    BY <1>2, BankedRow
  <2>3. ledger' = Append(ledger, req[p].row) => Banked' = Banked + NoRow.amount
    BY <1>2, BankedRow
  <2> QED
    BY <2>1, <2>2, <2>3, IdleEntry
<1>4. CASE plan'.final = plan.final
  BY <1>1, <1>3, <1>4, WithinKept
<1>5. CASE plan'.final # plan.final
  <2>1. ~plan.planned /\ plan'.final \in Nat
    BY <1>5, <1>1 DEF ImportWrite, Shape, Importing
  <2>2. /\ ledger = <<>>
        /\ \A q \in Procs : req[q].pc # "update"
    BY <2>1 DEF Entries
  <2>3. Held' = {}
    BY <1>1, <2>2 DEF Held
  <2>4. Banked <= 0
    BY <2>2, SumOfNone DEF Entries
  <2>5. Banked' <= Allowed'
    <3> DEFINE n == (Cardinality(Procs) - 1) * Largest
    <3>1. n \in Nat /\ Allowed' = plan'.final + n
      BY AllowedShape DEF Allowed
    <3> HIDE DEF n
    <3> QED
      BY <1>3, <2>1, <2>4, <3>1
  <2> QED
    BY <2>3, <2>5 DEF WithinPlan
<1> QED
  BY <1>4, <1>5

\* Every step stays within the plan.
LEMMA StepWithin == Shape /\ Entries /\ WithinPlan /\ [Next]_vars => WithinPlan'
<1> SUFFICES ASSUME Shape, Entries, WithinPlan, [Next]_vars PROVE WithinPlan'
  OBVIOUS
<1>1. ASSUME NEW p \in Procs,
             PlanRead(p) \/ RecordRead(p) \/ ReverseRead(p) \/ ImportRead(p)
             \/ InsertRow(p) \/ DuplicateRefused(p) \/ Lost(p)
      PROVE  WithinPlan'
  <2>1. plan' = plan /\ ledger' = ledger
    BY <1>1 DEF PlanRead, RecordRead, ReverseRead, ImportRead, InsertRow,
                DuplicateRefused, Lost
  <2>2. req \in [Procs -> LedgerRequest]
    BY DEF Shape
  <2>3. req'[p].pc # "update" /\ \A q \in Procs \ {p} : req'[q] = req[q]
    <3>1. CASE PlanRead(p)
      BY <2>2, <3>1 DEF PlanRead, Idle
    <3>2. CASE RecordRead(p)
      BY <2>2, <3>2 DEF RecordRead, Idle
    <3>3. CASE ReverseRead(p)
      BY <2>2, <3>3 DEF ReverseRead, Idle
    <3>4. CASE ImportRead(p)
      BY <2>2, <3>4 DEF ImportRead, Idle
    <3>5. CASE InsertRow(p) \/ DuplicateRefused(p) \/ Lost(p)
      BY <2>2, <3>5 DEF InsertRow, DuplicateRefused, Lost, Idle, LedgerRequest
    <3> QED
      BY <1>1, <3>1, <3>2, <3>3, <3>4, <3>5
  <2>4. req[p].row \in LedgerRow
    BY DEF Shape, LedgerRequest
  <2>5. Banked \in Int /\ Banked' = Banked
    BY <2>1, <2>4, BankedRow
  <2> QED
    BY <2>1, <2>3, <2>5, WithinKept
<1>2. CASE UNCHANGED vars
  <2>1. Banked' = Banked /\ Allowed' = Allowed /\ Held' = Held /\ req' = req
    BY <1>2 DEF vars, Banked, StaffRows, Allowed, Held
  <2>2. Held \in SUBSET Procs /\ \A q \in Held : req'[q].row.amount = req[q].row.amount
    BY <2>1 DEF Held
  <2>3. Held' # {} => Covers(Held, Banked, Allowed)'
    BY <2>1, <2>2, CoversNext DEF WithinPlan
  <2> QED
    BY <2>1, <2>3 DEF WithinPlan
<1> QED
  BY <1>1, <1>2, SumWithin, WriteWithin, RepriceWithin, ImportWithin DEF Next, Step

\* A fresh database has banked nothing.
LEMMA InitWithin == Init => Entries /\ WithinPlan
<1> SUFFICES ASSUME Init PROVE Entries /\ WithinPlan
  OBVIOUS
<1>1. /\ ledger = <<>> /\ DOMAIN ledger = {} /\ \A p \in Procs : req[p] = Idle
      /\ plan.final = 0
  BY DEF Init
<1>2. Banked = 0
  <2>1. StaffRows = <<>>
    BY <1>1 DEF StaffRows
  <2> QED
    BY <2>1, SumOfNone DEF Banked
<1>3. Entries
  BY <1>1, <1>2, SumOfNone, IdleEntry DEF Entries
<1>4. Held = {}
  BY <1>1, IdleEntry DEF Held
<1> QED
  <2>1. Banked <= Allowed
    <3> DEFINE n == (Cardinality(Procs) - 1) * Largest
    <3>1. n \in Nat
      BY InitShape, AllowedShape, LedgerProcsAssumption
    <3>2. Allowed = n
      <4>1. Allowed = 0 + n
        BY <1>1 DEF Allowed
      <4> HIDE DEF n
      <4> QED
        BY <3>1, <4>1
    <3> HIDE DEF n
    <3> QED
      BY <1>2, <3>1, <3>2
  <2> QED
    BY <1>3, <1>4, <2>1 DEF WithinPlan

\* However many receipts, reversals, new totals and imports interleave, staff bank no
\* more than the plan asks and the requests beside one of them may add.
THEOREM CollectedBounded == Spec => []CollectedWithinPlan
<1>1. Init => Shape /\ Entries /\ WithinPlan
  BY InitShape, InitWithin
<1>2. Shape /\ Entries /\ WithinPlan /\ [Next]_vars => (Shape /\ Entries /\ WithinPlan)'
  BY StepShape, StepEntries, StepWithin
<1>3. WithinPlan => CollectedWithinPlan
  BY DEF WithinPlan, Banked, Allowed, CollectedWithinPlan
<1> QED
  BY <1>1, <1>2, <1>3, PTL DEF Spec

-----------------------------------------------------------------------------
(* One request at a time.                                                  *)

OneAtATime == \A p, q \in Procs : p = q

\* Where requests come one at a time, staff bank no more than the plan asks, whatever
\* is lost, imported, taken back or priced anew in between.
THEOREM NeverOvercollected ==
  ASSUME OneAtATime
  PROVE  Spec => [](SumOf(StaffRows) <= plan.final)
<1>1. Cardinality(Procs) - 1 = 0
  <2>1. PICK p \in Procs : Procs = {p}
    BY LedgerProcsAssumption DEF OneAtATime
  <2>2. Cardinality({p}) = 1
    BY FS_Singleton, Zenon
  <2> QED
    BY <2>1, <2>2
<1>2. Init => Shape
  BY InitShape
<1>3. Shape /\ [Next]_vars => Shape'
  BY StepShape
<1>4. Shape /\ CollectedWithinPlan => SumOf(StaffRows) <= plan.final
  <2> SUFFICES ASSUME Shape, CollectedWithinPlan PROVE SumOf(StaffRows) <= plan.final
    OBVIOUS
  <2>1. (Cardinality(Procs) - 1) * Largest = 0
    BY <1>1, LedgerLargestAssumption
  <2>2. plan.final \in Nat
    BY DEF Shape, PlanRow
  <2> QED
    BY <2>1, <2>2 DEF CollectedWithinPlan
<1> QED
  BY <1>2, <1>3, <1>4, CollectedBounded, PTL DEF Spec

\* The plan shows the sum of the rows, and a request with a row pending works with the
\* plan's total and with the sum of the rows and its own.
Accounted ==
  /\ AmountPaidIsLedgerSum /\ StatusIsDerived
  /\ \A p \in Procs :
       /\ ~Importing(req[p])
       /\ req[p].pc \in {"sum", "update"} => req[p].final = plan.final
       /\ req[p].pc = "update" => req[p].sum = SumOf(ledger) + req[p].row.amount

\* Nothing comes between what the one request reads and what it writes.
LEMMA StepAccounted ==
  ASSUME OneAtATime, Snapshots = {}
  PROVE  Shape /\ Accounted /\ [Next]_vars => Accounted'
<1> SUFFICES ASSUME Shape, Accounted, [Next]_vars PROVE Accounted'
  OBVIOUS
<1>1. CASE UNCHANGED vars
  BY <1>1 DEF vars, Accounted, AmountPaidIsLedgerSum, StatusIsDerived
<1>2. ASSUME NEW p \in Procs, Step(p) PROVE Accounted'
  <2>1. \A q \in Procs : q = p
    BY DEF OneAtATime
  <2>2. /\ req \in [Procs -> LedgerRequest] /\ req[p] \in LedgerRequest
        /\ plan \in PlanRow /\ ledger \in Seq(LedgerRow) /\ SumOf(ledger) \in Int
    BY SumIsAmount DEF Shape
  <2> USE DEF Importing
  <2>3. CASE PlanRead(p) \/ RecordRead(p) \/ ReverseRead(p) \/ Lost(p) \/ DuplicateRefused(p)
    <3>1. plan' = plan /\ ledger' = ledger
      BY <2>3 DEF PlanRead, RecordRead, ReverseRead, Lost, DuplicateRefused
    <3>2. \E r : req' = [req EXCEPT ![p] = r] /\ r.pc \in {"idle", "upsert", "insert"}
      BY <2>3 DEF PlanRead, RecordRead, ReverseRead, Lost, DuplicateRefused, Idle
    <3> QED
      BY <2>1, <2>2, <3>1, <3>2 DEF Accounted, AmountPaidIsLedgerSum, StatusIsDerived
  <2>4. CASE PlanWrite(p)
    <3>1. /\ ledger' = ledger /\ req'[p].pc = "idle"
          /\ \/ plan' = plan
             \/ plan' = Repriced(req[p].final, SumOf(ledger))
      BY <2>2, <2>4 DEF PlanWrite, Idle
    <3> QED
      BY <2>1, <2>2, <3>1 DEF Accounted, AmountPaidIsLedgerSum, StatusIsDerived, Repriced
  <2>5. CASE InsertRow(p)
    <3>1. /\ plan' = plan /\ ledger' = ledger
          /\ req'[p].pc = "sum" /\ req'[p].final = plan.final
      BY <2>2, <2>5 DEF InsertRow, LedgerRequest
    <3> QED
      BY <2>1, <3>1 DEF Accounted, AmountPaidIsLedgerSum, StatusIsDerived
  <2>6. CASE SumRows(p)
    <3>1. /\ plan' = plan /\ ledger' = ledger
          /\ req[p].pc = "sum" /\ req'[p].pc = "update" /\ req'[p].final = req[p].final
          /\ req'[p].row = req[p].row /\ req'[p].sum = SumOf(ledger) + req[p].row.amount
      BY <2>2, <2>6 DEF SumRows, LedgerRequest, Collected
    <3> QED
      BY <2>1, <3>1 DEF Accounted, AmountPaidIsLedgerSum, StatusIsDerived
  <2>7. CASE WriteSum(p)
    <3>1. req'[p].pc = "idle"
      BY <2>2, <2>7 DEF WriteSum, Idle
    <3>2. CASE ~PaidWithinFinal(plan.final, req[p].sum)
      BY <2>1, <2>7, <3>1, <3>2
         DEF WriteSum, Accounted, AmountPaidIsLedgerSum, StatusIsDerived
    <3>3. CASE PaidWithinFinal(plan.final, req[p].sum)
      <4>1. /\ plan'.paid = req[p].sum /\ plan'.final = plan.final
            /\ plan'.status = StatusOf(req[p].final, req[p].sum)
            /\ ledger' = Append(ledger, req[p].row)
        BY <2>2, <2>7, <3>3 DEF WriteSum, PlanRow
      <4>2. req[p].final = plan.final /\ req[p].sum = SumOf(ledger) + req[p].row.amount
        BY <2>7 DEF WriteSum, Accounted
      <4>3. SumOf(ledger') = req[p].sum
        BY <2>2, <4>1, <4>2, SumOfAppend DEF LedgerRequest
      <4> QED
        BY <2>1, <3>1, <4>1, <4>2, <4>3 DEF Accounted, AmountPaidIsLedgerSum, StatusIsDerived
    <3> QED
      BY <3>2, <3>3
  <2>8. CASE ImportRead(p) \/ ImportWrite(p)
    BY <2>8 DEF ImportRead, ImportWrite, Accounted
  <2> QED
    BY <1>2, <2>3, <2>4, <2>5, <2>6, <2>7, <2>8 DEF Step
<1> QED
  BY <1>1, <1>2 DEF Next

\* A plan and an empty ledger agree, and what they agree on stays.
LEMMA AccountedCorrect ==
  ASSUME OneAtATime, Snapshots = {}
  PROVE  Spec => []Accounted
<1>1. Init => Shape /\ Accounted
  <2>1. Init => Accounted
    BY SumOfNone
       DEF Init, Accounted, AmountPaidIsLedgerSum, StatusIsDerived, Importing, Idle
  <2> QED
    BY <2>1, InitShape
<1>2. Shape /\ Accounted /\ [Next]_vars => (Shape /\ Accounted)'
  BY StepShape, StepAccounted
<1> QED
  BY <1>1, <1>2, PTL DEF Spec

\* Where requests come one at a time and the website reports no payment, the paid amount
\* is the sum of the rows.
THEOREM PaidIsSum ==
  ASSUME OneAtATime, Snapshots = {}
  PROVE  Spec => []AmountPaidIsLedgerSum
<1>1. Accounted => AmountPaidIsLedgerSum
  BY DEF Accounted
<1> QED
  BY <1>1, AccountedCorrect, PTL

\* And the status is the one that sum has.
THEOREM StatusFollows ==
  ASSUME OneAtATime, Snapshots = {}
  PROVE  Spec => []StatusIsDerived
<1>1. Accounted => StatusIsDerived
  BY DEF Accounted
<1> QED
  BY <1>1, AccountedCorrect, PTL
=============================================================================
