---------------------------- MODULE Certificates ----------------------------
(***************************************************************************)
(* Certificates, their numbers and their versions, statement by statement  *)
(* at READ COMMITTED: the upload of a file, its sign-off, and the number   *)
(* the website mints on its own and the import records.                    *)
(*                                                                         *)
(* The row lock and the index entries a transaction holds from its first   *)
(* write of a certificates row are released only at COMMIT, and what it    *)
(* reads after that no other can change: that write, the statements behind *)
(* it and the COMMIT are one step.  The counter row of the number series   *)
(* is locked earlier, so its allocation is a step of its own.              *)
(*                                                                         *)
(* One financial year: a serial stands for the number formatted from it.   *)
(* An operator named X_Bug is the definition X as a plausible slip would   *)
(* have it; no action uses one.                                            *)
(***************************************************************************)
EXTENDS Integers, Sequences

CONSTANTS
  Procs,     \* requests that can be in flight at once
  Records,
  Chosen,    \* numbers that staff write in, or that a back-entry carries over
  Minted,    \* numbers the website allocates
  NoNumber,  \* the NULL certificate number
  MaxVersions  \* bound on the files of a record: a further upload is lost

\* Nothing keeps a number from outside out of the series: it may be a serial, too.
ASSUME NumbersAssumption == NoNumber \notin Nat \cup Chosen \cup Minted
ASSUME UploadsAssumption == MaxVersions \in Nat

VARIABLES
  head,      \* the certificates row of each record: number, current and verified version
  versions,  \* the certificate_versions rows of each record: the number on each file
  series,    \* the serials allocated so far
  req        \* what each request has read and has still to do

vars == <<head, versions, series, req>>

-----------------------------------------------------------------------------

Number == Nat \cup Chosen \cup Minted \cup {NoNumber}

\* The serials that nobody but the series writes.
Serials == Nat \ (Chosen \cup Minted)

NoHead == [exists |-> FALSE, number |-> NoNumber, current |-> 0, verified |-> 0]

\* A back-entry carries the number its holder was given over, with no file behind
\* it; current_version is left at its column default.
CarriedOver(number) == [exists |-> TRUE, number |-> number, current |-> 1, verified |-> 0]

Idle(rec) ==
  [pc |-> "idle", rec |-> rec, number |-> NoNumber, serial |-> FALSE,
   head |-> FALSE, version |-> 0]

\* certificates_number_uq: another certificate has the number; NULLs are not compared.
NumberTaken(rec, number) ==
  number # NoNumber /\ \E other \in Records \ {rec} : head[other].number = number

\* certificate_versions_uq: the certificate has a version of that number.
VersionTaken_Unchecked(rec, version) == FALSE
VersionTaken(rec, version) == version <= Len(versions[rec])

Init ==
  /\ head \in [Records -> {NoHead} \cup {CarriedOver(number) : number \in Chosen}]
  /\ \A rec \in Records : ~NumberTaken(rec, head[rec].number)
  /\ versions = [rec \in Records |-> <<>>]
  /\ series = 0
  /\ \E rec \in Records : req = [p \in Procs |-> Idle(rec)]

-----------------------------------------------------------------------------
(* upload                                                                  *)

\* Whether a serial is to be allocated.
NeedsNumber_Never(number) == FALSE
NeedsNumber(number)       == number = NoNumber

\* The certificate's own number wins over the one the form may carry.
UploadRead(p) ==
  /\ req[p].pc = "idle"
  /\ \E rec \in Records, form \in Chosen \cup {NoNumber} :
       LET number == IF head[rec].number # NoNumber THEN head[rec].number ELSE form
       IN req' = [req EXCEPT ![p] =
                    [Idle(rec) EXCEPT !.pc = IF NeedsNumber(number) THEN "number" ELSE "count",
                                      !.number = number,
                                      !.head = head[rec].exists]]
  /\ UNCHANGED <<head, versions, series>>

\* Whether a transaction in flight has taken a serial, and holds the counter's row.
SeriesFree_Unlocked == TRUE
SeriesFree == \A q \in Procs : ~req[q].serial

\* next_in_series: the counter's row stays locked until this transaction ends.
AllocateNumber(p) ==
  /\ req[p].pc = "number"
  /\ SeriesFree
  /\ req' = [req EXCEPT ![p].pc = "count", ![p].number = series + 1, ![p].serial = TRUE]
  /\ UNCHANGED <<head, versions, series>>

\* Versions are numbered by how many a certificate seen to exist has.
CountVersions(p) ==
  /\ req[p].pc = "count"
  /\ LET uploaded == IF req[p].head THEN Len(versions[req[p].rec]) ELSE 0
     IN req' = [req EXCEPT ![p].pc = "upload", ![p].version = uploaded + 1]
  /\ UNCHANGED <<head, versions, series>>

\* The upsert: a new row takes the number, an existing one keeps its own; either way
\* nothing signed off before is signed off now.
Uploaded(row, number, version) ==
  IF row.exists THEN [row EXCEPT !.current = version, !.verified = 0]
  ELSE [exists |-> TRUE, number |-> number, current |-> version, verified |-> 0]

\* What a transaction that rolls back does to the counter.
SeriesAfterRollback_Kept(p) == IF req[p].serial THEN series + 1 ELSE series
SeriesAfterRollback(p)      == series

\* A duplicate number or version rolls the whole upload back.
UploadCommit(p) ==
  /\ req[p].pc = "upload"
  /\ Len(versions[req[p].rec]) < MaxVersions
  /\ LET rec     == req[p].rec
         number  == req[p].number
         version == req[p].version
         refused == \/ ~head[rec].exists /\ NumberTaken(rec, number)
                    \/ VersionTaken(rec, version)
     IN IF refused
        THEN /\ series' = SeriesAfterRollback(p)
             /\ UNCHANGED <<head, versions>>
        ELSE /\ head' = [head EXCEPT ![rec] = Uploaded(head[rec], number, version)]
             /\ versions' = [versions EXCEPT ![rec] = Append(versions[rec], number)]
             /\ series' = IF req[p].serial THEN number ELSE series
  /\ req' = [req EXCEPT ![p] = Idle(req[p].rec)]

-----------------------------------------------------------------------------
(* verify                                                                  *)

\* Refused without a file, and when the latest version is signed off already.
VerifyRead(p) ==
  /\ req[p].pc = "idle"
  /\ \E rec \in Records :
       LET latest == Len(versions[rec])
       IN /\ latest > 0
          /\ head[rec].verified # latest
          /\ req' = [req EXCEPT ![p] = [Idle(rec) EXCEPT !.pc = "verify", !.version = latest]]
  /\ UNCHANGED <<head, versions, series>>

VerifyCommit(p) ==
  /\ req[p].pc = "verify"
  /\ head' = [head EXCEPT ![req[p].rec].verified = req[p].version]
  /\ req' = [req EXCEPT ![p] = Idle(req[p].rec)]
  /\ UNCHANGED <<versions, series>>

-----------------------------------------------------------------------------
(* applyCertificate: the website's number, inside the import transaction   *)

\* Whether the import leaves the certificate as it is.
NothingToAdopt(rec, number) ==
  head[rec].exists /\ (versions[rec] # <<>> \/ head[rec].number = number)

MirrorRead(p) ==
  /\ req[p].pc = "idle"
  /\ \E rec \in Records, number \in Minted :
       /\ ~NothingToAdopt(rec, number)
       /\ req' = [req EXCEPT ![p] = [Idle(rec) EXCEPT !.pc = "mirror", !.number = number,
                                                      !.head = head[rec].exists]]
  /\ UNCHANGED <<head, versions, series>>

\* An existing row takes the number; otherwise a row is made for it.  The import
\* fails as a whole on a duplicate number, or a certificate made meanwhile.
MirrorCommit(p) ==
  /\ req[p].pc = "mirror"
  /\ LET rec     == req[p].rec
         number  == req[p].number
         refused == \/ NumberTaken(rec, number)
                    \/ ~req[p].head /\ head[rec].exists
     IN head' = IF refused THEN head
                ELSE [head EXCEPT ![rec].exists = TRUE, ![rec].number = number]
  /\ req' = [req EXCEPT ![p] = Idle(req[p].rec)]
  /\ UNCHANGED <<versions, series>>

\* The process dies or the connection is lost: the open transaction rolls back.
Lost(p) ==
  /\ req[p].pc # "idle"
  /\ req' = [req EXCEPT ![p] = Idle(req[p].rec)]
  /\ series' = SeriesAfterRollback(p)
  /\ UNCHANGED <<head, versions>>

-----------------------------------------------------------------------------

Step(p) ==
  \/ UploadRead(p) \/ AllocateNumber(p) \/ CountVersions(p) \/ UploadCommit(p)
  \/ VerifyRead(p) \/ VerifyCommit(p)
  \/ MirrorRead(p) \/ MirrorCommit(p)
  \/ Lost(p)

Next == \E p \in Procs : Step(p)

Spec == Init /\ [][Next]_vars

-----------------------------------------------------------------------------

\* The type of every variable.
TypeOK ==
  /\ head \in [Records -> [exists : BOOLEAN, number : Number, current : Nat, verified : Nat]]
  /\ \A rec \in Records :
       \A i \in DOMAIN versions[rec] : versions[rec][i] \in Number \ {NoNumber}
  /\ series \in Nat
  /\ \A p \in Procs :
       /\ req[p].pc \in {"idle", "number", "count", "upload", "verify", "mirror"}
       /\ req[p].rec \in Records

\* Once a file is there, the row's current version is the last file uploaded, and
\* the file signed off, if any, is one of them: racing uploads neither lose a file
\* nor leave the row pointing at one that was refused.
CurrentIsLatestFile ==
  \A rec \in Records :
    /\ versions[rec] # <<>> => head[rec].exists /\ head[rec].current = Len(versions[rec])
    /\ head[rec].verified <= Len(versions[rec])

\* Every serial allocated is on a certificate file: no upload that is refused or
\* lost, at whatever step, leaves a hole in the series.
SeriesHasNoGaps ==
  \A serial \in 1 .. series :
    \E rec \in Records : \E i \in DOMAIN versions[rec] : versions[rec][i] = serial

\* No two records have files of the same serial, however uploads and the website's
\* numbers race, unless staff or the website write that very serial in by themselves.
SerialOfOneRecord ==
  \A rec, other \in Records :
    \A i \in DOMAIN versions[rec], j \in DOMAIN versions[other] :
      versions[rec][i] = versions[other][j] /\ versions[rec][i] \in Serials => rec = other

-----------------------------------------------------------------------------
(* Why they hold: what a request that has read may still rely on.          *)

\* Files are never removed: what was counted is still there.
CountsStand ==
  \A p \in Procs :
    /\ req[p].pc = "upload" => req[p].version <= Len(versions[req[p].rec]) + 1
    /\ req[p].pc = "verify" => req[p].version <= Len(versions[req[p].rec])

\* The inductive form of CurrentIsLatestFile.
FilesInductive == CurrentIsLatestFile /\ CountsStand

\* A serial in flight is the next one, and one request holds it.
OneSerialInFlight ==
  /\ \A p \in Procs : req[p].serial => req[p].number = series + 1
  /\ \A p, q \in Procs : req[p].serial /\ req[q].serial => p = q

\* The inductive form of SeriesHasNoGaps.
SeriesInductive == SeriesHasNoGaps /\ OneSerialInFlight

\* An upload in flight carries a number for a file of the record.
Carries(p, rec, number) ==
  req[p].pc \in {"count", "upload"} /\ req[p].rec = rec /\ req[p].number = number

\* The record's certificate, a file of it, or an upload in flight has the number.
Bears(rec, number) ==
  \/ head[rec].number = number
  \/ \E i \in DOMAIN versions[rec] : versions[rec][i] = number
  \/ \E p \in Procs : Carries(p, rec, number)

\* A serial not yet committed is borne by the upload that allocated it, and by no
\* other.
SerialsIssued ==
  /\ \A rec \in Records : head[rec].number \in Serials => head[rec].number <= series
  /\ \A rec \in Records : \A i \in DOMAIN versions[rec] :
       versions[rec][i] \in Serials => versions[rec][i] <= series
  /\ \A p \in Procs, rec \in Records, serial \in Serials :
       Carries(p, rec, serial) => serial <= series \/ req[p].serial

\* The inductive form of SerialOfOneRecord.
SerialInductive ==
  /\ SerialsIssued
  /\ \A rec, other \in Records, serial \in Serials :
       Bears(rec, serial) /\ Bears(other, serial) => rec = other
=============================================================================
