------------------------- MODULE CertificatesProofs -------------------------
(***************************************************************************)
(* For any number of requests and records: racing uploads keep the row and *)
(* its files together, the series has no gaps, and a serial that only the  *)
(* series writes belongs to one record.                                    *)
(***************************************************************************)
EXTENDS Certificates, TLAPS

FileNumber == Number \ {NoNumber}

CertificateRow == [exists : BOOLEAN, number : Number, current : Nat, verified : Nat]

UploadRequest ==
  [pc : {"idle", "number", "count", "upload", "verify", "mirror"}, rec : Records,
   number : Number, serial : BOOLEAN, head : BOOLEAN, version : Nat]

\* A serial is held, and a file numbered, only while an upload is under way, and the
\* website's number is one the website minted.
Consistent(r) ==
  /\ r.pc \in {"count", "upload"} => r.number # NoNumber
  /\ r.serial => r.pc \in {"count", "upload"} /\ r.number \in Nat
  /\ r.pc = "mirror" => r.number \in Minted

\* The types of the variables.
Shape ==
  /\ head \in [Records -> CertificateRow]
  /\ versions \in [Records -> Seq(FileNumber)]
  /\ series \in Nat
  /\ req \in [Procs -> UploadRequest]
  /\ \A p \in Procs : Consistent(req[p])

\* A request that has ended is a well-formed request.
LEMMA IdleShape == \A rec \in Records : Idle(rec) \in UploadRequest
  BY DEF Idle, UploadRequest, Number

\* The shape the proofs use says all the type invariant does.
LEMMA ShapeTyped == Shape => TypeOK
<1> SUFFICES ASSUME Shape PROVE TypeOK
  OBVIOUS
<1>1. \A rec \in Records :
        \A i \in DOMAIN versions[rec] : versions[rec][i] \in Number \ {NoNumber}
  BY DEF Shape, FileNumber
<1> QED
  BY <1>1 DEF Shape, TypeOK, CertificateRow, UploadRequest

\* A fresh database has the shape: certificates are absent or carried over.
LEMMA InitShape == Init => Shape
<1> SUFFICES ASSUME Init PROVE Shape
  OBVIOUS
<1>1. NoHead \in CertificateRow
  BY DEF NoHead, CertificateRow, Number
<1>2. \A number \in Chosen : CarriedOver(number) \in CertificateRow
  BY DEF CarriedOver, CertificateRow, Number
<1>3. head \in [Records -> CertificateRow]
  BY <1>1, <1>2 DEF Init
<1>4. <<>> \in Seq(FileNumber)
  OBVIOUS
<1>5. versions \in [Records -> Seq(FileNumber)]
  BY <1>4 DEF Init
<1>6. PICK rec \in Records : req = [p \in Procs |-> Idle(rec)]
  BY DEF Init
<1>7. req \in [Procs -> UploadRequest]
  BY <1>6, IdleShape
<1>8. \A p \in Procs : req[p].pc = "idle" /\ ~req[p].serial
  BY <1>6 DEF Idle
<1> QED
  BY <1>3, <1>5, <1>7, <1>8 DEF Init, Shape, Consistent

-----------------------------------------------------------------------------
(* What a step does, in the terms that matter below: it starts or ends a   *)
(* request and writes nothing, it moves an upload on, or it writes.        *)

\* A request as a read, a refusal or a loss leaves it.
Fresh(p, r) ==
  /\ req' = [req EXCEPT ![p] = r]
  /\ ~r.serial
  /\ Consistent(r)
  /\ r.pc # "upload"
  /\ r.pc = "count" => r.number \in {head[r.rec].number} \cup Chosen
  /\ r.pc = "verify" => r.version <= Len(versions[r.rec])

StartsOrEnds(p) ==
  UNCHANGED <<head, versions, series>> /\ \E r \in UploadRequest : Fresh(p, r)

\* An upload that is not refused.
Accepted(p) ==
  /\ req[p].pc = "upload"
  /\ req' = [req EXCEPT ![p] = Idle(req[p].rec)]
  /\ ~VersionTaken(req[p].rec, req[p].version)
  /\ head' = [head EXCEPT ![req[p].rec] =
                Uploaded(head[req[p].rec], req[p].number, req[p].version)]
  /\ versions' = [versions EXCEPT ![req[p].rec] =
                    Append(versions[req[p].rec], req[p].number)]
  /\ series' = IF req[p].serial THEN req[p].number ELSE series

\* The website's number, when it is not refused.
Adopted(p) ==
  /\ req[p].pc = "mirror"
  /\ req' = [req EXCEPT ![p] = Idle(req[p].rec)]
  /\ head' = [head EXCEPT ![req[p].rec].exists = TRUE, ![req[p].rec].number = req[p].number]
  /\ UNCHANGED <<versions, series>>

\* A request that ends without writing leaves every row as it was.
LEMMA Ends ==
  ASSUME Shape, NEW p \in Procs, UNCHANGED <<head, versions, series>>,
         req' = [req EXCEPT ![p] = Idle(req[p].rec)]
  PROVE  StartsOrEnds(p)
<1>1. Idle(req[p].rec) \in UploadRequest
  BY IdleShape DEF Shape, UploadRequest
<1>2. Fresh(p, Idle(req[p].rec))
  BY DEF Fresh, Idle, Consistent
<1> QED
  BY <1>1, <1>2 DEF StartsOrEnds

\* An upload starts with its record's number, or with one from outside the series.
LEMMA UploadReadStep ==
  ASSUME Shape, NEW p \in Procs, UploadRead(p)
  PROVE  StartsOrEnds(p)
<1>1. PICK rec \in Records, form \in Chosen \cup {NoNumber} :
        LET number == IF head[rec].number # NoNumber THEN head[rec].number ELSE form
        IN req' = [req EXCEPT ![p] =
                     [Idle(rec) EXCEPT !.pc = IF NeedsNumber(number) THEN "number" ELSE "count",
                                       !.number = number,
                                       !.head = head[rec].exists]]
  BY DEF UploadRead
<1> DEFINE number == IF head[rec].number # NoNumber THEN head[rec].number ELSE form
           r == [Idle(rec) EXCEPT !.pc = IF NeedsNumber(number) THEN "number" ELSE "count",
                                  !.number = number, !.head = head[rec].exists]
<1>2. head[rec] \in CertificateRow
  BY DEF Shape
<1>3. number \in Number
  BY <1>2 DEF CertificateRow, Number
<1>4. number = head[rec].number \/ number \in Chosen \cup {NoNumber}
  OBVIOUS
<1> HIDE DEF number
<1>5. r \in UploadRequest
  <2>1. CASE NeedsNumber(number)
    BY <1>2, <1>3, <2>1 DEF UploadRequest, CertificateRow, Idle
  <2>2. CASE ~NeedsNumber(number)
    BY <1>2, <1>3, <2>2 DEF UploadRequest, CertificateRow, Idle
  <2> QED
    BY <2>1, <2>2
<1>6. r.rec = rec /\ ~r.serial /\ r.number = number
  BY DEF Idle
<1>7. r.pc = "number" \/ (r.pc = "count" /\ number # NoNumber)
  <2>1. CASE NeedsNumber(number)
    BY <2>1 DEF Idle
  <2>2. CASE ~NeedsNumber(number)
    BY <2>2 DEF Idle, NeedsNumber
  <2> QED
    BY <2>1, <2>2
<1>8. req' = [req EXCEPT ![p] = r]
  BY <1>1 DEF number
<1> HIDE DEF r
<1>9. Fresh(p, r)
  BY <1>4, <1>6, <1>7, <1>8 DEF Fresh, Consistent
<1> QED
  BY <1>5, <1>9 DEF StartsOrEnds, UploadRead

\* A sign-off starts with a version that has been uploaded.
LEMMA VerifyReadStep ==
  ASSUME Shape, NEW p \in Procs, VerifyRead(p)
  PROVE  StartsOrEnds(p)
<1>1. PICK rec \in Records :
        req' = [req EXCEPT ![p] = [Idle(rec) EXCEPT !.pc = "verify",
                                                    !.version = Len(versions[rec])]]
  BY DEF VerifyRead
<1> DEFINE r == [Idle(rec) EXCEPT !.pc = "verify", !.version = Len(versions[rec])]
<1>2. Len(versions[rec]) \in Nat
  BY DEF Shape
<1>3. r \in UploadRequest
  BY <1>2 DEF UploadRequest, Idle, Number
<1>4. /\ r.pc = "verify" /\ ~r.serial /\ r.rec = rec
      /\ r.version = Len(versions[rec])
  BY DEF Idle
<1>5. req' = [req EXCEPT ![p] = r]
  BY <1>1
<1> HIDE DEF r
<1>6. Fresh(p, r)
  BY <1>2, <1>4, <1>5 DEF Fresh, Consistent
<1> QED
  BY <1>3, <1>6 DEF StartsOrEnds, VerifyRead

\* The import starts with a number the website minted.
LEMMA MirrorReadStep ==
  ASSUME Shape, NEW p \in Procs, MirrorRead(p)
  PROVE  StartsOrEnds(p)
<1>1. PICK rec \in Records, number \in Minted :
        req' = [req EXCEPT ![p] = [Idle(rec) EXCEPT !.pc = "mirror", !.number = number,
                                                    !.head = head[rec].exists]]
  BY DEF MirrorRead
<1> DEFINE r == [Idle(rec) EXCEPT !.pc = "mirror", !.number = number,
                                  !.head = head[rec].exists]
<1>2. head[rec] \in CertificateRow
  BY DEF Shape
<1>3. r \in UploadRequest
  BY <1>2 DEF UploadRequest, Idle, Number, CertificateRow
<1>4. r.pc = "mirror" /\ ~r.serial /\ r.number = number
  BY DEF Idle
<1>5. req' = [req EXCEPT ![p] = r]
  BY <1>1
<1> HIDE DEF r
<1>6. Fresh(p, r)
  BY <1>4, <1>5 DEF Fresh, Consistent
<1> QED
  BY <1>3, <1>6 DEF StartsOrEnds, MirrorRead

\* The allocation gives the upload the serial after the last one committed.
LEMMA AllocateNumberStep ==
  ASSUME Shape, NEW p \in Procs, AllocateNumber(p)
  PROVE  \E r \in UploadRequest :
           /\ req' = [req EXCEPT ![p] = r]
           /\ r.pc = "count" /\ r.rec = req[p].rec /\ r.number = series + 1 /\ r.serial
<1> DEFINE r == [req[p] EXCEPT !.pc = "count", !.number = series + 1, !.serial = TRUE]
<1>1. req[p] \in UploadRequest /\ series + 1 \in Number
  BY DEF Shape, Number
<1>2. req' = [req EXCEPT ![p] = r]
  BY <1>1 DEF AllocateNumber, Shape
<1>3. r \in UploadRequest
  BY <1>1 DEF UploadRequest
<1>4. r.pc = "count" /\ r.rec = req[p].rec /\ r.number = series + 1 /\ r.serial
  BY <1>1 DEF UploadRequest
<1> HIDE DEF r
<1> QED
  BY <1>2, <1>3, <1>4

\* The count gives the upload a version no later than the next.
LEMMA CountVersionsStep ==
  ASSUME Shape, NEW p \in Procs, CountVersions(p)
  PROVE  \E r \in UploadRequest :
           /\ req' = [req EXCEPT ![p] = r]
           /\ r.pc = "upload" /\ r.rec = req[p].rec /\ r.number = req[p].number
           /\ r.serial = req[p].serial
           /\ r.version <= Len(versions[req[p].rec]) + 1
<1> DEFINE uploaded == IF req[p].head THEN Len(versions[req[p].rec]) ELSE 0
           next == uploaded + 1
           r == [req[p] EXCEPT !.pc = "upload", !.version = next]
<1>1. req[p] \in UploadRequest
  BY DEF Shape
<1>2. Len(versions[req[p].rec]) \in Nat
  BY <1>1 DEF Shape, UploadRequest
<1>3. next \in Nat /\ next <= Len(versions[req[p].rec]) + 1
  <2>1. CASE req[p].head
    BY <1>2, <2>1
  <2>2. CASE ~req[p].head
    BY <1>2, <2>2
  <2> QED
    BY <2>1, <2>2
<1>4. req' = [req EXCEPT ![p] = r]
  BY <1>1 DEF CountVersions, Shape
<1> HIDE DEF next
<1>5. r \in UploadRequest
  BY <1>1, <1>3 DEF UploadRequest
<1>6. /\ r.pc = "upload" /\ r.rec = req[p].rec /\ r.number = req[p].number
      /\ r.serial = req[p].serial /\ r.version = next
  BY <1>1 DEF UploadRequest
<1> HIDE DEF r
<1> QED
  BY <1>2, <1>3, <1>4, <1>5, <1>6

\* An upload is refused, and writes nothing, or accepted.
LEMMA UploadCommitStep ==
  ASSUME Shape, NEW p \in Procs, UploadCommit(p)
  PROVE  StartsOrEnds(p) \/ Accepted(p)
<1> DEFINE refused ==
      \/ ~head[req[p].rec].exists /\ NumberTaken(req[p].rec, req[p].number)
      \/ VersionTaken(req[p].rec, req[p].version)
<1>1. CASE refused
  <2>1. UNCHANGED <<head, versions, series>>
    BY <1>1 DEF UploadCommit, SeriesAfterRollback
  <2>2. req' = [req EXCEPT ![p] = Idle(req[p].rec)]
    BY DEF UploadCommit
  <2> QED
    BY <2>1, <2>2, Ends
<1>2. CASE ~refused
  BY <1>2 DEF UploadCommit, Accepted
<1> QED
  BY <1>1, <1>2

\* The website's number is refused, and nothing written, or adopted.
LEMMA MirrorCommitStep ==
  ASSUME Shape, NEW p \in Procs, MirrorCommit(p)
  PROVE  StartsOrEnds(p) \/ Adopted(p)
<1> DEFINE refused == \/ NumberTaken(req[p].rec, req[p].number)
                      \/ ~req[p].head /\ head[req[p].rec].exists
<1>1. CASE refused
  <2>1. UNCHANGED <<head, versions, series>>
    BY <1>1 DEF MirrorCommit
  <2>2. req' = [req EXCEPT ![p] = Idle(req[p].rec)]
    BY DEF MirrorCommit
  <2> QED
    BY <2>1, <2>2, Ends
<1>2. CASE ~refused
  BY <1>2 DEF MirrorCommit, Adopted
<1> QED
  BY <1>1, <1>2

\* Every step is one of six kinds; the invariants are proved kind by kind.
LEMMA StepKinds ==
  ASSUME Shape, NEW p \in Procs, Step(p)
  PROVE  \/ StartsOrEnds(p)
         \/ AllocateNumber(p) \/ CountVersions(p)
         \/ Accepted(p) \/ VerifyCommit(p) \/ Adopted(p)
<1>1. CASE Lost(p)
  BY <1>1, Ends DEF Lost, SeriesAfterRollback
<1> QED
  BY <1>1, UploadReadStep, UploadCommitStep, VerifyReadStep, MirrorReadStep,
     MirrorCommitStep DEF Step

\* What the upsert leaves in the certificates row.
LEMMA UploadedShape ==
  ASSUME NEW row \in CertificateRow, NEW number \in Number, NEW version \in Nat
  PROVE  /\ Uploaded(row, number, version) \in CertificateRow
         /\ Uploaded(row, number, version).exists
         /\ Uploaded(row, number, version).current = version
         /\ Uploaded(row, number, version).verified = 0
         /\ \/ Uploaded(row, number, version).number = row.number
            \/ Uploaded(row, number, version).number = number
  BY DEF Uploaded, CertificateRow

-----------------------------------------------------------------------------
(* Types.                                                                  *)

\* Only the request that steps changes.
LEMMA RequestShape ==
  ASSUME Shape, NEW p \in Procs, NEW r \in UploadRequest, Consistent(r),
         req' = [req EXCEPT ![p] = r]
  PROVE  /\ req' \in [Procs -> UploadRequest]
         /\ \A q \in Procs : Consistent(req'[q])
         /\ req'[p] = r
         /\ \A q \in Procs \ {p} : req'[q] = req[q]
  BY DEF Shape

\* A request that has ended holds no serial and no file.
LEMMA IdleConsistent == \A rec \in Records : Consistent(Idle(rec))
  BY DEF Consistent, Idle

\* What a request that ends leaves of it.
LEMMA IdleNext ==
  ASSUME Shape, NEW p \in Procs, req' = [req EXCEPT ![p] = Idle(req[p].rec)]
  PROVE  /\ req' \in [Procs -> UploadRequest]
         /\ \A q \in Procs : Consistent(req'[q])
         /\ req'[p].pc = "idle" /\ ~req'[p].serial
         /\ \A q \in Procs \ {p} : req'[q] = req[q]
<1>1. req[p].rec \in Records
  BY DEF Shape, UploadRequest
<1> QED
  BY <1>1, IdleShape, IdleConsistent, RequestShape DEF Idle

\* What an accepted upload writes.
LEMMA AcceptedRows ==
  ASSUME Shape, NEW p \in Procs, Accepted(p)
  PROVE  /\ req[p].rec \in Records
         /\ req[p].number \in FileNumber
         /\ req[p].version \in Nat
         /\ head' \in [Records -> CertificateRow]
         /\ versions' \in [Records -> Seq(FileNumber)]
         /\ head'[req[p].rec].exists
         /\ head'[req[p].rec].current = req[p].version
         /\ head'[req[p].rec].verified = 0
         /\ head'[req[p].rec].number \in {head[req[p].rec].number, req[p].number}
         /\ versions'[req[p].rec] = Append(versions[req[p].rec], req[p].number)
         /\ \A rec \in Records \ {req[p].rec} :
              head'[rec] = head[rec] /\ versions'[rec] = versions[rec]
<1> DEFINE rec == req[p].rec
           row == Uploaded(head[rec], req[p].number, req[p].version)
           files == Append(versions[rec], req[p].number)
<1>1. rec \in Records /\ req[p].number \in FileNumber /\ req[p].version \in Nat
  BY DEF Shape, Consistent, UploadRequest, Accepted, FileNumber
<1>2. head[rec] \in CertificateRow /\ versions[rec] \in Seq(FileNumber)
  BY <1>1 DEF Shape
<1>3. /\ row \in CertificateRow /\ row.exists /\ row.current = req[p].version
      /\ row.verified = 0 /\ row.number \in {head[rec].number, req[p].number}
  BY <1>1, <1>2, UploadedShape DEF FileNumber
<1>4. files \in Seq(FileNumber)
  BY <1>1, <1>2
<1>5. head' = [head EXCEPT ![rec] = row] /\ versions' = [versions EXCEPT ![rec] = files]
  BY DEF Accepted
<1> HIDE DEF row
<1>6. /\ head' \in [Records -> CertificateRow] /\ head'[rec] = row
      /\ \A other \in Records \ {rec} : head'[other] = head[other]
  BY <1>1, <1>3, <1>5 DEF Shape
<1>7. versions'[rec] = Append(versions[rec], req[p].number)
  BY <1>1, <1>5 DEF Shape
<1> HIDE DEF files
<1>8. /\ versions' \in [Records -> Seq(FileNumber)]
      /\ \A other \in Records \ {rec} : versions'[other] = versions[other]
  BY <1>1, <1>4, <1>5 DEF Shape
<1> QED
  BY <1>1, <1>3, <1>6, <1>7, <1>8

\* What a sign-off writes.
LEMMA VerifiedRow ==
  ASSUME Shape, NEW p \in Procs, VerifyCommit(p)
  PROVE  /\ head' \in [Records -> CertificateRow]
         /\ \A rec \in Records :
              /\ head'[rec].exists = head[rec].exists
              /\ head'[rec].number = head[rec].number
              /\ head'[rec].current = head[rec].current
              /\ head'[rec].verified = IF rec = req[p].rec THEN req[p].version
                                       ELSE head[rec].verified
<1>1. req[p].rec \in Records /\ req[p].version \in Nat
  BY DEF Shape, UploadRequest
<1>2. head' = [head EXCEPT ![req[p].rec] = [head[req[p].rec] EXCEPT !.verified = req[p].version]]
  BY DEF VerifyCommit
<1>3. \A rec \in Records : head[rec] \in CertificateRow
  BY DEF Shape
<1> QED
  BY <1>1, <1>2, <1>3 DEF Shape, CertificateRow

\* What the website's number changes.
LEMMA AdoptedRow ==
  ASSUME Shape, NEW p \in Procs, Adopted(p)
  PROVE  /\ head' \in [Records -> CertificateRow]
         /\ req[p].number \in Minted
         /\ \A rec \in Records :
              /\ head[rec].exists => head'[rec].exists
              /\ head'[rec].number = head[rec].number \/ head'[rec].number = req[p].number
              /\ head'[rec].current = head[rec].current
              /\ head'[rec].verified = head[rec].verified
<1>1. req[p].rec \in Records /\ req[p].number \in Minted /\ req[p].number \in Number
  BY DEF Shape, UploadRequest, Consistent, Adopted
<1>2. head' = [head EXCEPT ![req[p].rec] =
                [head[req[p].rec] EXCEPT !.exists = TRUE, !.number = req[p].number]]
  BY <1>1 DEF Adopted, Shape, CertificateRow
<1>3. \A rec \in Records : head[rec] \in CertificateRow
  BY DEF Shape
<1> QED
  BY <1>1, <1>2, <1>3 DEF Shape, CertificateRow

\* Every step keeps the shape.
LEMMA StepShape ==
  ASSUME Shape, NEW p \in Procs, Step(p)
  PROVE  Shape'
<1>1. CASE StartsOrEnds(p)
  <2>1. PICK r \in UploadRequest : Fresh(p, r)
    BY <1>1 DEF StartsOrEnds
  <2> QED
    BY <1>1, <2>1, RequestShape DEF StartsOrEnds, Fresh, Shape
<1>2. CASE AllocateNumber(p)
  <2>1. PICK r \in UploadRequest :
          /\ req' = [req EXCEPT ![p] = r]
          /\ r.pc = "count" /\ r.rec = req[p].rec /\ r.number = series + 1 /\ r.serial
    BY <1>2, AllocateNumberStep
  <2>2. Consistent(r)
    BY <2>1, NumbersAssumption DEF Consistent, Shape
  <2> QED
    BY <1>2, <2>1, <2>2, RequestShape DEF AllocateNumber, Shape
<1>3. CASE CountVersions(p)
  <2>1. PICK r \in UploadRequest :
          /\ req' = [req EXCEPT ![p] = r]
          /\ r.pc = "upload" /\ r.rec = req[p].rec /\ r.number = req[p].number
          /\ r.serial = req[p].serial
          /\ r.version <= Len(versions[req[p].rec]) + 1
    BY <1>3, CountVersionsStep
  <2>2. Consistent(r)
    BY <1>3, <2>1 DEF Consistent, Shape, CountVersions
  <2> QED
    BY <1>3, <2>1, <2>2, RequestShape DEF CountVersions, Shape
<1>4. CASE Accepted(p)
  <2>1. series' \in Nat
    <3>1. CASE req[p].serial
      BY <1>4, <3>1 DEF Accepted, Shape, Consistent
    <3>2. CASE ~req[p].serial
      BY <1>4, <3>2 DEF Accepted, Shape
    <3> QED
      BY <3>1, <3>2
  <2> QED
    BY <1>4, <2>1, AcceptedRows, IdleNext DEF Accepted, Shape
<1>5. CASE VerifyCommit(p)
  BY <1>5, VerifiedRow, IdleNext DEF VerifyCommit, Shape
<1>6. CASE Adopted(p)
  BY <1>6, AdoptedRow, IdleNext DEF Adopted, Shape
<1> QED
  BY <1>1, <1>2, <1>3, <1>4, <1>5, <1>6, StepKinds

\* Every variable keeps its type, however uploads, sign-offs and imports race.
THEOREM TypeCorrect == Spec => []TypeOK
<1>1. Shape /\ [Next]_vars => Shape'
  <2> SUFFICES ASSUME Shape, [Next]_vars PROVE Shape'
    OBVIOUS
  <2>1. CASE Next
    BY <2>1, StepShape DEF Next
  <2>2. CASE UNCHANGED vars
    BY <2>2 DEF vars, Shape, Consistent
  <2> QED
    BY <2>1, <2>2
<1> QED
  BY <1>1, InitShape, ShapeTyped, PTL DEF Spec

-----------------------------------------------------------------------------
(* Files: the current version is the last one, and what was signed off is  *)
(* one of them.                                                            *)

\* No certificate has a file yet, and none is signed off.
LEMMA InitFiles == Init => FilesInductive
<1> SUFFICES ASSUME Init PROVE FilesInductive
  OBVIOUS
<1>1. \A rec \in Records : versions[rec] = <<>> /\ head[rec].verified = 0
  BY DEF Init, NoHead, CarriedOver
<1>2. PICK rec \in Records : req = [p \in Procs |-> Idle(rec)]
  BY DEF Init
<1>3. \A p \in Procs : req[p].pc = "idle"
  BY <1>2 DEF Idle
<1>4. Len(<<>>) = 0
  OBVIOUS
<1> QED
  BY <1>1, <1>3, <1>4 DEF FilesInductive, CurrentIsLatestFile, CountsStand

\* The file an accepted upload adds is the one after the last.
LEMMA AcceptedIsNext ==
  ASSUME Shape, CountsStand, NEW p \in Procs, Accepted(p)
  PROVE  /\ req[p].version = Len(versions[req[p].rec]) + 1
         /\ Len(versions'[req[p].rec]) = req[p].version
         /\ \A rec \in Records : Len(versions[rec]) <= Len(versions'[rec])
<1> DEFINE rec == req[p].rec
<1>1. rec \in Records /\ req[p].version \in Nat /\ req[p].number \in FileNumber
  BY AcceptedRows
<1>2. \A other \in Records : versions[other] \in Seq(FileNumber)
  BY DEF Shape
<1>3. \A other \in Records : Len(versions[other]) \in Nat
  BY <1>2
<1>4. req[p].version = Len(versions[rec]) + 1
  BY <1>1, <1>3 DEF CountsStand, Accepted, VersionTaken
<1>5. versions'[rec] = Append(versions[rec], req[p].number)
  BY AcceptedRows
<1>6. Len(versions'[rec]) = Len(versions[rec]) + 1
  BY <1>1, <1>2, <1>5
<1>7. \A other \in Records \ {rec} : versions'[other] = versions[other]
  BY AcceptedRows
<1> QED
  BY <1>1, <1>3, <1>4, <1>6, <1>7

\* Every step keeps the row and its files together.
LEMMA StepFiles ==
  ASSUME Shape, FilesInductive, NEW p \in Procs, Step(p)
  PROVE  FilesInductive'
<1> USE DEF FilesInductive
<1>0. \A rec \in Records : Len(versions[rec]) \in Nat
  BY DEF Shape
<1>1. CASE StartsOrEnds(p)
  <2>1. PICK r \in UploadRequest : Fresh(p, r)
    BY <1>1 DEF StartsOrEnds
  <2>2. CurrentIsLatestFile'
    BY <1>1 DEF StartsOrEnds, CurrentIsLatestFile
  <2>3. /\ req'[p] = r /\ r.pc # "upload"
        /\ r.pc = "verify" => r.version <= Len(versions[r.rec])
        /\ \A q \in Procs \ {p} : req'[q] = req[q]
    BY <2>1, RequestShape DEF Fresh
  <2> QED
    BY <1>1, <2>2, <2>3 DEF StartsOrEnds, CountsStand
<1>2. CASE AllocateNumber(p)
  <2>1. PICK r \in UploadRequest : req' = [req EXCEPT ![p] = r] /\ r.pc = "count"
    BY <1>2, AllocateNumberStep
  <2> QED
    BY <1>2, <2>1 DEF AllocateNumber, CurrentIsLatestFile, CountsStand, Shape
<1>3. CASE CountVersions(p)
  <2>1. PICK r \in UploadRequest :
          /\ req' = [req EXCEPT ![p] = r] /\ r.pc = "upload" /\ r.rec = req[p].rec
          /\ r.version <= Len(versions[req[p].rec]) + 1
    BY <1>3, CountVersionsStep
  <2> QED
    BY <1>3, <2>1 DEF CountVersions, CurrentIsLatestFile, CountsStand, Shape
<1>4. CASE Accepted(p)
  <2>1. /\ req'[p].pc = "idle"
        /\ \A q \in Procs \ {p} : req'[q] = req[q]
    BY <1>4, IdleNext DEF Accepted
  <2>2. \A rec \in Records : Len(versions'[rec]) \in Nat
    BY <1>4, AcceptedRows
  <2>3. \A q \in Procs : req[q].rec \in Records /\ req[q].version \in Nat
    BY DEF Shape, UploadRequest
  <2>4. \A rec \in Records : Len(versions[rec]) <= Len(versions'[rec])
    BY <1>4, AcceptedIsNext
  <2>5. CountsStand'
    <3> SUFFICES ASSUME NEW q \in Procs
                 PROVE  /\ req'[q].pc = "upload" =>
                             req'[q].version <= Len(versions'[req'[q].rec]) + 1
                        /\ req'[q].pc = "verify" =>
                             req'[q].version <= Len(versions'[req'[q].rec])
      BY DEF CountsStand
    <3>1. CASE q = p
      BY <2>1, <3>1
    <3>2. CASE q # p
      <4> DEFINE was == Len(versions[req[q].rec])
                 is  == Len(versions'[req[q].rec])
      <4>1. req'[q] = req[q]
        BY <2>1, <3>2
      <4>2. was \in Nat /\ is \in Nat /\ was <= is /\ req[q].version \in Nat
        BY <1>0, <2>2, <2>3, <2>4
      <4>3. /\ req[q].pc = "upload" => req[q].version <= was + 1
            /\ req[q].pc = "verify" => req[q].version <= was
        BY DEF CountsStand
      <4> HIDE DEF was, is
      <4>4. /\ req[q].pc = "upload" => req[q].version <= is + 1
            /\ req[q].pc = "verify" => req[q].version <= is
        BY <4>2, <4>3
      <4> QED
        BY <4>1, <4>4 DEF is
    <3> QED
      BY <3>1, <3>2
  <2>6. /\ Len(versions'[req[p].rec]) = req[p].version /\ req[p].version \in Nat
        /\ head'[req[p].rec].exists /\ head'[req[p].rec].current = req[p].version
        /\ head'[req[p].rec].verified = 0
        /\ \A rec \in Records \ {req[p].rec} :
             head'[rec] = head[rec] /\ versions'[rec] = versions[rec]
    BY <1>4, AcceptedRows, AcceptedIsNext
  <2>7. CurrentIsLatestFile'
    BY <1>0, <2>6 DEF CurrentIsLatestFile
  <2> QED
    BY <2>5, <2>7
<1>5. CASE VerifyCommit(p)
  <2>1. /\ req'[p].pc = "idle"
        /\ \A q \in Procs \ {p} : req'[q] = req[q]
        /\ versions' = versions
        /\ req[p].version <= Len(versions[req[p].rec])
    BY <1>5, IdleNext DEF VerifyCommit, CountsStand
  <2>2. CurrentIsLatestFile'
    BY <1>5, <2>1, VerifiedRow DEF CurrentIsLatestFile
  <2> QED
    BY <2>1, <2>2 DEF CountsStand
<1>6. CASE Adopted(p)
  <2>1. /\ req'[p].pc = "idle"
        /\ \A q \in Procs \ {p} : req'[q] = req[q]
        /\ versions' = versions
    BY <1>6, IdleNext DEF Adopted
  <2>2. CurrentIsLatestFile'
    BY <1>6, <2>1, AdoptedRow DEF CurrentIsLatestFile
  <2> QED
    BY <2>1, <2>2 DEF CountsStand
<1> QED
  BY <1>1, <1>2, <1>3, <1>4, <1>5, <1>6, StepKinds

\* However many uploads and sign-offs race, the certificates row points at the last
\* file uploaded, and at a file of its own as signed off.
THEOREM FilesKept == Spec => []CurrentIsLatestFile
<1> DEFINE Inv == Shape /\ FilesInductive
<1>1. Init => Inv
  BY InitShape, InitFiles
<1>2. Inv /\ [Next]_vars => Inv'
  <2> SUFFICES ASSUME Inv, [Next]_vars PROVE Inv'
    OBVIOUS
  <2>1. CASE Next
    BY <2>1, StepShape, StepFiles DEF Next
  <2>2. CASE UNCHANGED vars
    BY <2>2 DEF vars, Shape, Consistent, FilesInductive, CurrentIsLatestFile, CountsStand
  <2> QED
    BY <2>1, <2>2
<1>3. Inv => CurrentIsLatestFile
  BY DEF FilesInductive
<1> HIDE DEF Inv
<1> QED
  BY <1>1, <1>2, <1>3, PTL DEF Spec

-----------------------------------------------------------------------------
(* Serials: none is skipped.                                               *)

\* An accepted upload keeps every file and adds one.
LEMMA FilesGrow ==
  ASSUME Shape, NEW p \in Procs, Accepted(p)
  PROVE  /\ \A rec \in Records : \A i \in DOMAIN versions[rec] :
              i \in DOMAIN versions'[rec] /\ versions'[rec][i] = versions[rec][i]
         /\ \E i \in DOMAIN versions'[req[p].rec] :
              versions'[req[p].rec][i] = req[p].number
         /\ \A rec \in Records : \A i \in DOMAIN versions'[rec] :
              \/ i \in DOMAIN versions[rec] /\ versions'[rec][i] = versions[rec][i]
              \/ rec = req[p].rec /\ versions'[rec][i] = req[p].number
<1> DEFINE rec == req[p].rec
           files == versions[rec]
           number == req[p].number
<1>1. /\ rec \in Records /\ number \in FileNumber
      /\ versions'[rec] = Append(files, number)
      /\ \A other \in Records \ {rec} : versions'[other] = versions[other]
  BY AcceptedRows
<1>2. files \in Seq(FileNumber)
  BY <1>1 DEF Shape
<1> HIDE DEF files, number
<1>3. /\ DOMAIN Append(files, number) = 1 .. (Len(files) + 1)
      /\ DOMAIN files = 1 .. Len(files) /\ Len(files) \in Nat
      /\ Append(files, number)[Len(files) + 1] = number
      /\ \A i \in 1 .. Len(files) : Append(files, number)[i] = files[i]
  BY <1>1, <1>2
<1>4. /\ \A i \in DOMAIN files :
           i \in DOMAIN versions'[rec] /\ versions'[rec][i] = files[i]
      /\ \E i \in DOMAIN versions'[rec] : versions'[rec][i] = number
      /\ \A i \in DOMAIN versions'[rec] :
           \/ i \in DOMAIN files /\ versions'[rec][i] = files[i]
           \/ versions'[rec][i] = number
  BY <1>1, <1>3
<1> HIDE DEF rec
<1> QED
  BY <1>1, <1>4 DEF files, number, rec

\* No serial has been allocated yet.
LEMMA InitSeries == Init => SeriesInductive
<1> SUFFICES ASSUME Init PROVE SeriesInductive
  OBVIOUS
<1>1. PICK rec \in Records : req = [p \in Procs |-> Idle(rec)]
  BY DEF Init
<1>2. \A p \in Procs : ~req[p].serial
  BY <1>1 DEF Idle
<1>3. series = 0
  BY DEF Init
<1> QED
  BY <1>2, <1>3 DEF SeriesInductive, SeriesHasNoGaps, OneSerialInFlight

\* A request that ends, or never held the serial, leaves it to its holder.
LEMMA StillOneSerial ==
  ASSUME Shape, OneSerialInFlight, NEW p \in Procs, ~req'[p].serial, series' = series,
         \A q \in Procs \ {p} : req'[q] = req[q]
  PROVE  OneSerialInFlight'
  BY DEF OneSerialInFlight

\* No step skips a serial, and at most one is in flight.
LEMMA StepSeries ==
  ASSUME Shape, SeriesInductive, NEW p \in Procs, Step(p)
  PROVE  SeriesInductive'
<1> USE DEF SeriesInductive
<1>1. CASE StartsOrEnds(p)
  <2>1. PICK r \in UploadRequest : Fresh(p, r)
    BY <1>1 DEF StartsOrEnds
  <2>2. ~req'[p].serial /\ \A q \in Procs \ {p} : req'[q] = req[q]
    BY <2>1, RequestShape DEF Fresh
  <2>3. OneSerialInFlight'
    BY <1>1, <2>2, StillOneSerial DEF StartsOrEnds
  <2> QED
    BY <1>1, <2>3 DEF StartsOrEnds, SeriesHasNoGaps
<1>2. CASE AllocateNumber(p)
  <2>1. PICK r \in UploadRequest :
          req' = [req EXCEPT ![p] = r] /\ r.number = series + 1 /\ r.serial
    BY <1>2, AllocateNumberStep
  <2>2. \A q \in Procs : ~req[q].serial
    BY <1>2 DEF AllocateNumber, SeriesFree
  <2>3. /\ req'[p].number = series + 1
        /\ \A q \in Procs \ {p} : ~req'[q].serial
    BY <2>1, <2>2 DEF Shape
  <2>4. OneSerialInFlight'
    BY <1>2, <2>3 DEF AllocateNumber, OneSerialInFlight
  <2> QED
    BY <1>2, <2>4 DEF AllocateNumber, SeriesHasNoGaps
<1>3. CASE CountVersions(p)
  <2>1. PICK r \in UploadRequest :
          /\ req' = [req EXCEPT ![p] = r]
          /\ r.number = req[p].number /\ r.serial = req[p].serial
    BY <1>3, CountVersionsStep
  <2>2. \A q \in Procs : req'[q].number = req[q].number /\ req'[q].serial = req[q].serial
    BY <2>1 DEF Shape
  <2>3. OneSerialInFlight'
    BY <1>3, <2>2 DEF CountVersions, OneSerialInFlight
  <2> QED
    BY <1>3, <2>3 DEF CountVersions, SeriesHasNoGaps
<1>4. CASE Accepted(p)
  <2>1. ~req'[p].serial /\ \A q \in Procs \ {p} : req'[q] = req[q]
    BY <1>4, IdleNext DEF Accepted
  <2>2. CASE req[p].serial
    <3>1. series' = series + 1 /\ req[p].number = series + 1
      BY <1>4, <2>2 DEF Accepted, OneSerialInFlight
    <3>2. OneSerialInFlight'
      BY <2>1, <2>2 DEF OneSerialInFlight
    <3>3. ASSUME NEW serial \in 1 .. (series + 1)
          PROVE  \E rec \in Records : \E i \in DOMAIN versions'[rec] :
                   versions'[rec][i] = serial
      <4>1. CASE serial = series + 1
        BY <1>4, <3>1, <4>1, FilesGrow, AcceptedRows
      <4>2. CASE serial # series + 1
        <5>1. serial \in 1 .. series
          BY <4>2 DEF Shape
        <5>2. PICK rec \in Records :
                \E i \in DOMAIN versions[rec] : versions[rec][i] = serial
          BY <5>1 DEF SeriesHasNoGaps
        <5> QED
          BY <1>4, <5>2, FilesGrow
      <4> QED
        BY <4>1, <4>2
    <3> QED
      BY <3>1, <3>2, <3>3 DEF SeriesHasNoGaps
  <2>3. CASE ~req[p].serial
    <3>1. series' = series
      BY <1>4, <2>3 DEF Accepted
    <3>2. OneSerialInFlight'
      BY <2>1, <3>1, StillOneSerial
    <3>3. ASSUME NEW serial \in 1 .. series
          PROVE  \E rec \in Records : \E i \in DOMAIN versions'[rec] :
                   versions'[rec][i] = serial
      <4>1. PICK rec \in Records : \E i \in DOMAIN versions[rec] : versions[rec][i] = serial
        BY DEF SeriesHasNoGaps
      <4> QED
        BY <1>4, <4>1, FilesGrow
    <3> QED
      BY <3>1, <3>2, <3>3 DEF SeriesHasNoGaps
  <2> QED
    BY <2>2, <2>3
<1>5. CASE VerifyCommit(p)
  <2>1. ~req'[p].serial /\ \A q \in Procs \ {p} : req'[q] = req[q]
    BY <1>5, IdleNext DEF VerifyCommit
  <2>2. OneSerialInFlight'
    BY <1>5, <2>1, StillOneSerial DEF VerifyCommit
  <2> QED
    BY <1>5, <2>2 DEF VerifyCommit, SeriesHasNoGaps
<1>6. CASE Adopted(p)
  <2>1. ~req'[p].serial /\ \A q \in Procs \ {p} : req'[q] = req[q]
    BY <1>6, IdleNext DEF Adopted
  <2>2. OneSerialInFlight'
    BY <1>6, <2>1, StillOneSerial DEF Adopted
  <2> QED
    BY <1>6, <2>2 DEF Adopted, SeriesHasNoGaps
<1> QED
  BY <1>1, <1>2, <1>3, <1>4, <1>5, <1>6, StepKinds

\* Whatever uploads are refused or lost, at any step, the series of certificate
\* numbers has no gap.
THEOREM NoGaps == Spec => []SeriesHasNoGaps
<1> DEFINE Inv == Shape /\ SeriesInductive
<1>1. Init => Inv
  BY InitShape, InitSeries
<1>2. Inv /\ [Next]_vars => Inv'
  <2> SUFFICES ASSUME Inv, [Next]_vars PROVE Inv'
    OBVIOUS
  <2>1. CASE Next
    BY <2>1, StepShape, StepSeries DEF Next
  <2>2. CASE UNCHANGED vars
    BY <2>2 DEF vars, Shape, Consistent, SeriesInductive, SeriesHasNoGaps,
                OneSerialInFlight
  <2> QED
    BY <2>1, <2>2
<1>3. Inv => SeriesHasNoGaps
  BY DEF SeriesInductive
<1> HIDE DEF Inv
<1> QED
  BY <1>1, <1>2, <1>3, PTL DEF Spec

-----------------------------------------------------------------------------
(* Serials: none is on the files of two records.                           *)

NoNewBearer ==
  \A rec \in Records, serial \in Serials : Bears(rec, serial)' => Bears(rec, serial)

\* No record bears a serial yet.
LEMMA InitSerial == Init => SerialInductive
<1> SUFFICES ASSUME Init PROVE SerialInductive
  OBVIOUS
<1>1. PICK first \in Records : req = [p \in Procs |-> Idle(first)]
  BY DEF Init
<1>2. \A p \in Procs : req[p].pc = "idle"
  BY <1>1 DEF Idle
<1>3. \A rec \in Records : versions[rec] = <<>> /\ head[rec].number \notin Serials
  BY NumbersAssumption DEF Init, NoHead, CarriedOver, Serials
<1>4. \A rec \in Records, serial \in Serials : ~Bears(rec, serial)
  BY <1>2, <1>3 DEF Bears, Carries
<1> QED
  BY <1>2, <1>3, <1>4 DEF SerialInductive, SerialsIssued, Carries

\* A request that starts takes no serial but the one its record bears.
LEMMA StartsSerial ==
  ASSUME Shape, SerialsIssued, NEW p \in Procs, StartsOrEnds(p)
  PROVE  SerialsIssued' /\ NoNewBearer
<1>1. PICK r \in UploadRequest : Fresh(p, r)
  BY DEF StartsOrEnds
<1>2. /\ req'[p] = r
      /\ \A q \in Procs \ {p} : req'[q] = req[q]
      /\ UNCHANGED <<head, versions, series>>
  BY <1>1, RequestShape DEF Fresh, StartsOrEnds
<1>3. \A rec \in Records, serial \in Serials :
        Carries(p, rec, serial)' => head[rec].number = serial
  BY <1>1, <1>2 DEF Carries, Fresh, Serials
<1>4. \A q \in Procs \ {p}, rec \in Records, serial \in Serials :
        Carries(q, rec, serial)' => Carries(q, rec, serial)
  BY <1>2 DEF Carries
<1>5. SerialsIssued'
  BY <1>2, <1>3, <1>4 DEF SerialsIssued
<1>6. NoNewBearer
  BY <1>2, <1>3, <1>4 DEF NoNewBearer, Bears
<1> QED
  BY <1>5, <1>6

\* Counting the versions changes nobody's serial.
LEMMA CountSerial ==
  ASSUME Shape, SerialsIssued, NEW p \in Procs, CountVersions(p)
  PROVE  SerialsIssued' /\ NoNewBearer
<1>1. PICK r \in UploadRequest :
        /\ req' = [req EXCEPT ![p] = r]
        /\ r.pc = "upload" /\ r.rec = req[p].rec /\ r.number = req[p].number
        /\ r.serial = req[p].serial
  BY CountVersionsStep
<1>2. /\ req'[p] = r
      /\ \A q \in Procs \ {p} : req'[q] = req[q]
      /\ UNCHANGED <<head, versions, series>>
  BY <1>1 DEF CountVersions, Shape
<1>3. req[p].pc = "count"
  BY DEF CountVersions
<1>4. \A q \in Procs, rec \in Records, serial \in Serials :
        Carries(q, rec, serial)' => Carries(q, rec, serial)
  BY <1>1, <1>2, <1>3 DEF Carries
<1>5. \A q \in Procs : req'[q].serial = req[q].serial
  BY <1>1, <1>2
<1>6. SerialsIssued'
  BY <1>2, <1>4, <1>5 DEF SerialsIssued
<1>7. NoNewBearer
  BY <1>2, <1>4 DEF NoNewBearer, Bears
<1> QED
  BY <1>6, <1>7

\* An accepted upload puts the number it carries on a file, and on the certificate.
LEMMA AcceptedSerial ==
  ASSUME Shape, OneSerialInFlight, SerialsIssued, NEW p \in Procs, Accepted(p)
  PROVE  SerialsIssued' /\ NoNewBearer
<1> DEFINE number == req[p].number
<1>0. Serials \subseteq Nat
  BY DEF Serials
<1>1. /\ req'[p].pc = "idle" /\ ~req'[p].serial
      /\ \A q \in Procs \ {p} : req'[q] = req[q]
  BY IdleNext DEF Accepted
<1>2. req[p].rec \in Records /\ Carries(p, req[p].rec, number)
  BY AcceptedRows DEF Accepted, Carries
<1>3. \A rec \in Records :
        \/ head'[rec].number = head[rec].number
        \/ rec = req[p].rec /\ head'[rec].number = number
  BY AcceptedRows
<1>4. \A q \in Procs, rec \in Records, serial \in Serials :
        Carries(q, rec, serial)' => q # p /\ Carries(q, rec, serial)
  BY <1>1 DEF Carries
<1>5. NoNewBearer
  BY <1>2, <1>3, <1>4, FilesGrow DEF NoNewBearer, Bears
<1>6. /\ series \in Nat /\ series' \in Nat /\ series <= series'
      /\ number \in Serials => number <= series'
      /\ \A q \in Procs \ {p}, rec \in Records, serial \in Serials :
           Carries(q, rec, serial) => serial <= series' \/ req[q].serial
  <2>1. CASE req[p].serial
    <3>1. number = series + 1 /\ series' = number
      BY <2>1 DEF OneSerialInFlight, Accepted
    <3> HIDE DEF number
    <3>2. series \in Nat /\ series' \in Nat /\ series <= series' /\ number <= series'
      BY <3>1 DEF Shape
    <3>3. \A q \in Procs \ {p}, rec \in Records, serial \in Serials :
            Carries(q, rec, serial) => serial <= series \/ req[q].serial
      BY DEF SerialsIssued
    <3> QED
      BY <1>0, <3>2, <3>3
  <2>2. CASE ~req[p].serial
    <3>1. series' = series
      BY <2>2 DEF Accepted
    <3> QED
      BY <1>2, <2>2, <3>1 DEF SerialsIssued, Shape
  <2> QED
    BY <2>1, <2>2
<1>7. \A value \in Serials : value <= series => value <= series'
  <2> TAKE value \in Serials
  <2>1. value \in Nat
    BY <1>0
  <2>2. series \in Nat /\ series' \in Nat /\ series <= series'
    BY <1>6
  <2> QED
    BY ONLY <2>1, <2>2
<1>8. \A rec \in Records :
        /\ head'[rec].number \in Serials => head'[rec].number <= series'
        /\ \A i \in DOMAIN versions'[rec] :
             versions'[rec][i] \in Serials => versions'[rec][i] <= series'
  <2> TAKE rec \in Records
  <2>1. head'[rec].number \in Serials => head'[rec].number <= series'
    BY <1>3, <1>6, <1>7 DEF SerialsIssued
  <2>2. ASSUME NEW i \in DOMAIN versions'[rec], versions'[rec][i] \in Serials
        PROVE  versions'[rec][i] <= series'
    <3>1. CASE i \in DOMAIN versions[rec] /\ versions'[rec][i] = versions[rec][i]
      BY <1>7, <2>2, <3>1 DEF SerialsIssued
    <3>2. CASE versions'[rec][i] = number
      BY <1>6, <2>2, <3>2
    <3> QED
      BY <3>1, <3>2, FilesGrow
  <2> QED
    BY <2>1, <2>2
<1>9. \A q \in Procs, rec \in Records, serial \in Serials :
        Carries(q, rec, serial)' => serial <= series' \/ req'[q].serial
  BY <1>1, <1>4, <1>6
<1> QED
  BY <1>5, <1>8, <1>9 DEF SerialsIssued

\* Neither a sign-off nor a number of the website's is a serial.
LEMMA OtherWritesSerial ==
  ASSUME Shape, SerialsIssued, NEW p \in Procs, VerifyCommit(p) \/ Adopted(p)
  PROVE  SerialsIssued' /\ NoNewBearer
<1>1. /\ req'[p].pc = "idle" /\ ~req'[p].serial
      /\ \A q \in Procs \ {p} : req'[q] = req[q]
      /\ UNCHANGED <<versions, series>>
  BY IdleNext DEF VerifyCommit, Adopted
<1>2. \A rec \in Records :
        head'[rec].number \in Serials => head'[rec].number = head[rec].number
  <2>1. CASE VerifyCommit(p)
    BY <2>1, VerifiedRow
  <2>2. CASE Adopted(p)
    BY <2>2, AdoptedRow DEF Serials
  <2> QED
    BY <2>1, <2>2
<1>3. \A q \in Procs, rec \in Records, serial \in Serials :
        Carries(q, rec, serial)' => q # p /\ Carries(q, rec, serial)
  BY <1>1 DEF Carries
<1>4. SerialsIssued'
  BY <1>1, <1>2, <1>3 DEF SerialsIssued
<1>5. NoNewBearer
  BY <1>1, <1>2, <1>3 DEF NoNewBearer, Bears
<1> QED
  BY <1>4, <1>5

\* The serial allocated is new: nobody bears it but the upload it is allocated to.
LEMMA AllocatedSerial ==
  ASSUME Shape, SerialInductive, NEW p \in Procs, AllocateNumber(p)
  PROVE  SerialInductive'
<1>1. PICK r \in UploadRequest :
        /\ req' = [req EXCEPT ![p] = r]
        /\ r.pc = "count" /\ r.rec = req[p].rec /\ r.number = series + 1 /\ r.serial
  BY AllocateNumberStep
<1>2. /\ req'[p] = r
      /\ \A q \in Procs \ {p} : req'[q] = req[q]
      /\ UNCHANGED <<head, versions, series>>
      /\ \A q \in Procs : ~req[q].serial
      /\ series \in Nat
  BY <1>1 DEF AllocateNumber, SeriesFree, Shape
<1>3. \A rec \in Records, serial \in Serials : Bears(rec, serial) => serial <= series
  BY <1>2 DEF SerialInductive, SerialsIssued, Bears
<1>4. \A q \in Procs \ {p}, rec \in Records, serial \in Serials :
        Carries(q, rec, serial)' => Carries(q, rec, serial)
  BY <1>2 DEF Carries
<1>5. \A rec \in Records, serial \in Serials :
        Carries(p, rec, serial)' => rec = r.rec /\ serial = series + 1
  BY <1>1, <1>2 DEF Carries
<1>6. \A rec \in Records, serial \in Serials :
        Bears(rec, serial)' => Bears(rec, serial) \/ (rec = r.rec /\ serial = series + 1)
  BY <1>2, <1>4, <1>5 DEF Bears
<1>7. \A rec, other \in Records, serial \in Serials :
        Bears(rec, serial)' /\ Bears(other, serial)' => rec = other
  <2> SUFFICES ASSUME NEW rec \in Records, NEW other \in Records, NEW serial \in Serials,
                      Bears(rec, serial)', Bears(other, serial)'
               PROVE  rec = other
    OBVIOUS
  <2>1. CASE serial = series + 1
    <3>1. ~Bears(rec, serial) /\ ~Bears(other, serial)
      BY <1>2, <1>3, <2>1
    <3> QED
      BY <1>6, <3>1
  <2>2. CASE serial # series + 1
    <3>1. Bears(rec, serial) /\ Bears(other, serial)
      BY <1>6, <2>2
    <3> QED
      BY <3>1 DEF SerialInductive
  <2> QED
    BY <2>1, <2>2
<1>8. SerialsIssued'
  BY <1>1, <1>2, <1>4, <1>5 DEF SerialInductive, SerialsIssued
<1> QED
  BY <1>7, <1>8 DEF SerialInductive

\* Every step leaves each serial with one record at most.
LEMMA StepSerial ==
  ASSUME Shape, OneSerialInFlight, SerialInductive, NEW p \in Procs, Step(p)
  PROVE  SerialInductive'
<1>1. ASSUME SerialsIssued', NoNewBearer PROVE SerialInductive'
  BY <1>1 DEF SerialInductive, NoNewBearer
<1>2. SerialsIssued
  BY DEF SerialInductive
<1>3. CASE StartsOrEnds(p)
  BY <1>1, <1>2, <1>3, StartsSerial
<1>4. CASE AllocateNumber(p)
  BY <1>4, AllocatedSerial
<1>5. CASE CountVersions(p)
  BY <1>1, <1>2, <1>5, CountSerial
<1>6. CASE Accepted(p)
  BY <1>1, <1>2, <1>6, AcceptedSerial
<1>7. CASE VerifyCommit(p) \/ Adopted(p)
  BY <1>1, <1>2, <1>7, OtherWritesSerial
<1> QED
  BY <1>3, <1>4, <1>5, <1>6, <1>7, StepKinds

\* A record bears the serials of its files.
LEMMA SerialBorne == Shape /\ SerialInductive => SerialOfOneRecord
  BY DEF SerialInductive, SerialOfOneRecord, Bears

\* However many uploads allocate numbers at once, and whatever numbers staff and the
\* website write: no serial is printed on the files of two records, unless one of
\* them was numbered so by hand or by the website.
THEOREM OneRecordPerSerial == Spec => []SerialOfOneRecord
<1> DEFINE Inv == Shape /\ SeriesInductive /\ SerialInductive
<1>1. Init => Inv
  BY InitShape, InitSeries, InitSerial
<1>2. Inv /\ [Next]_vars => Inv'
  <2> SUFFICES ASSUME Inv, [Next]_vars PROVE Inv'
    OBVIOUS
  <2>1. CASE Next
    BY <2>1, StepShape, StepSeries, StepSerial DEF Next, SeriesInductive
  <2>2. CASE UNCHANGED vars
    BY <2>2 DEF vars, Shape, Consistent, SeriesInductive, SeriesHasNoGaps,
                OneSerialInFlight, SerialInductive, SerialsIssued, Bears, Carries
  <2> QED
    BY <2>1, <2>2
<1>3. Inv => SerialOfOneRecord
  BY SerialBorne
<1> HIDE DEF Inv
<1> QED
  BY <1>1, <1>2, <1>3, PTL DEF Spec

=============================================================================
