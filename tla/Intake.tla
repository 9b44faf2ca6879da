------------------------------- MODULE Intake -------------------------------
(***************************************************************************)
(* One person's profiles and records: opened at the desk, added to, opened *)
(* by an application of the website, hidden when the website's data is     *)
(* reset, and brought back when the website sends the application again.   *)
(*                                                                         *)
(* A new profile is only ever refused for good by the index on the mobile  *)
(* number: whoever may override the look-up of duplicates gets past that.  *)
(* The blacklist is in Blacklist, what a snapshot does to a record it      *)
(* finds in WebsiteInbox.                                                  *)
(***************************************************************************)
EXTENDS Integers, Sequences, FiniteSets

CONSTANTS
  Procs,          \* requests that can be in flight at once
  MaxApplicants,  \* bound on the profiles ever opened
  MaxRecords      \* bound on the records ever opened

VARIABLES
  applicants,  \* the applicants rows: deleted, whether the number is theirs, record_count
  records,     \* the records rows: applicant, website's or not, deleted, mirrored
  stranded,    \* history: the applicants who were not brought back with their record
  req,         \* what each request has read and has still to do
  width        \* how many requests are in flight at most: one, or all there are

vars == <<applicants, records, stranded, req, width>>

-----------------------------------------------------------------------------

Idle == [pc |-> "idle", applicant |-> 0, record |-> 0]

Init ==
  /\ applicants = <<>> /\ records = <<>>
  /\ stranded = {}
  /\ req = [p \in Procs |-> Idle]
  /\ width \in {1, Cardinality(Procs)}

Free(p) ==
  /\ req[p].pc = "idle"
  /\ Cardinality({q \in Procs : req[q].pc # "idle"}) < width

At(p, pc) == req[p].pc = pc
Done(p)   == req' = [req EXCEPT ![p] = Idle]
Goto(p, pc, a, r) == req' = [req EXCEPT ![p] = [pc |-> pc, applicant |-> a, record |-> r]]

Alive   == {a \in DOMAIN applicants : ~applicants[a].deleted}
Website == {r \in DOMAIN records : records[r].website}

\* applicants_mobile_uq: the live profiles that keep everybody but a off the number.
Holders(a) == {b \in Alive \ {a} : applicants[b].number}

Profile(count) == [deleted |-> FALSE, number |-> TRUE, count |-> count]

\* A record of applicant a; the one that comes from the website has a mirror.
AddRecord(a, website) ==
  /\ Len(records) < MaxRecords
  /\ records' = Append(records, [applicant |-> a, website |-> website,
                                 deleted |-> FALSE, mirrored |-> website])

-----------------------------------------------------------------------------
(* The desk                                                                *)

\* create: the profile and its first record.
Create(p) ==
  /\ Free(p)
  /\ Holders(0) = {} /\ Len(applicants) < MaxApplicants
  /\ applicants' = Append(applicants, Profile(1))
  /\ AddRecord(Len(applicants) + 1, FALSE)
  /\ UNCHANGED <<stranded, req, width>>

\* addRecord: the profile is looked up, and the record added whatever has become of it.
AddCheck(p) ==
  /\ Free(p)
  /\ \E a \in Alive : Goto(p, "add", a, 0)
  /\ UNCHANGED <<applicants, records, stranded, width>>

AddInsert(p) ==
  /\ At(p, "add")
  /\ AddRecord(req[p].applicant, FALSE)
  /\ applicants' = [applicants EXCEPT ![req[p].applicant].count = @ + 1]
  /\ Done(p)
  /\ UNCHANGED <<stranded, width>>

\* update: another number, or this one again where nobody has it.
EditNumber ==
  /\ \E a \in Alive :
       /\ ~applicants[a].number => Holders(a) = {}
       /\ applicants' = [applicants EXCEPT ![a].number = ~@]
  /\ UNCHANGED <<records, stranded, req, width>>

-----------------------------------------------------------------------------
(* The website                                                             *)

\* importApplication, the application unknown: a profile that matches, by the number or
\* by what else there is, or a new one.
ImportLookUp(p) ==
  /\ Free(p) /\ Website = {}
  /\ \/ \E a \in Alive : Goto(p, "import", a, 0)
     \/ Holders(0) = {} /\ Goto(p, "import", 0, 0)
  /\ UNCHANGED <<applicants, records, stranded, width>>

\* The count a profile is inserted with, before the record is counted.
CountAtImport_One == 1
CountAtImport     == 0

\* records_external_uq and applicants_mobile_uq refuse what is there already.
ImportInsert(p) ==
  /\ At(p, "import") /\ Website = {}
  /\ IF req[p].applicant = 0
     THEN /\ Holders(0) = {} /\ Len(applicants) < MaxApplicants
          /\ applicants' = Append(applicants, Profile(CountAtImport + 1))
          /\ AddRecord(Len(applicants) + 1, TRUE)
     ELSE /\ applicants' = [applicants EXCEPT ![req[p].applicant].count = @ + 1]
          /\ AddRecord(req[p].applicant, TRUE)
  /\ Done(p)
  /\ UNCHANGED <<stranded, width>>

\* updateExisting: a record found deleted is brought back, and its applicant after it;
\* then it is mirrored.
KnownLookUp(p) ==
  /\ Free(p)
  /\ \E r \in Website :
       Goto(p, IF records[r].deleted THEN "revive_record" ELSE "mirror",
            records[r].applicant, r)
  /\ UNCHANGED <<applicants, records, stranded, width>>

ReviveRecord(p) ==
  /\ At(p, "revive_record")
  /\ records' = [records EXCEPT ![req[p].record].deleted = FALSE]
  /\ Goto(p, "revive_applicant", req[p].applicant, req[p].record)
  /\ UNCHANGED <<applicants, stranded, width>>

ReviveApplicant(p) ==
  /\ At(p, "revive_applicant")
  /\ LET a == req[p].applicant
     IN /\ applicants[a].number => Holders(a) = {}
        /\ applicants' = [applicants EXCEPT ![a].deleted = FALSE]
        /\ Goto(p, "mirror", a, req[p].record)
  /\ UNCHANGED <<records, stranded, width>>

Mirror(p) ==
  /\ At(p, "mirror")
  /\ records' = [records EXCEPT ![req[p].record].mirrored = TRUE]
  /\ Done(p)
  /\ UNCHANGED <<applicants, stranded, width>>

\* resetWebsiteData: the mirrored record goes, and its applicant unless another live
\* record of theirs survives.  What survives is read in the transaction, before others'.
Survives_Never(a, r) == FALSE
Survives(a, r) ==
  \E s \in DOMAIN records : s # r /\ records[s].applicant = a /\ ~records[s].deleted

ResetRead(p) ==
  /\ Free(p)
  /\ \E r \in DOMAIN records :
       /\ records[r].mirrored
       /\ LET a == records[r].applicant
          IN Goto(p, "reset", IF Survives(a, r) THEN 0 ELSE a, r)
  /\ UNCHANGED <<applicants, records, stranded, width>>

ResetCommit(p) ==
  /\ At(p, "reset")
  /\ records' = [records EXCEPT ![req[p].record].deleted = TRUE,
                                ![req[p].record].mirrored = FALSE]
  /\ applicants' = [a \in DOMAIN applicants |->
                      [applicants[a] EXCEPT !.deleted = @ \/ a = req[p].applicant]]
  /\ Done(p)
  /\ UNCHANGED <<stranded, width>>

\* An index refuses, or the process dies: with others in flight anywhere, and else where
\* it leaves a record brought back and not its applicant.
Lost(p) ==
  /\ req[p].pc # "idle"
  /\ width # 1 \/ req[p].pc \in {"import", "revive_applicant"}
  /\ stranded' = stranded \cup (IF At(p, "revive_applicant") THEN {req[p].applicant} ELSE {})
  /\ Done(p)
  /\ UNCHANGED <<applicants, records, width>>

-----------------------------------------------------------------------------

Step(p) ==
  \/ Create(p) \/ AddCheck(p) \/ AddInsert(p)
  \/ ImportLookUp(p) \/ ImportInsert(p)
  \/ KnownLookUp(p) \/ ReviveRecord(p) \/ ReviveApplicant(p) \/ Mirror(p)
  \/ ResetRead(p) \/ ResetCommit(p)
  \/ Lost(p)

Next == EditNumber \/ \E p \in Procs : Step(p)

Spec == Init /\ [][Next]_vars

-----------------------------------------------------------------------------

\* The type of every variable.
TypeOK ==
  /\ \A a \in DOMAIN applicants :
       applicants[a] \in [deleted : BOOLEAN, number : BOOLEAN, count : 0 .. MaxRecords]
  /\ \A r \in DOMAIN records :
       records[r] \in [applicant : DOMAIN applicants, website : BOOLEAN,
                       deleted : BOOLEAN, mirrored : BOOLEAN]
  /\ stranded \subseteq DOMAIN applicants
  /\ \A p \in Procs : req[p].applicant \in 0 .. Len(applicants)

\* A profile counts the records it was ever given, however requests race; and one at a
\* time, a record that can be seen belongs to a profile that can be seen, unless its
\* revival broke off between the two.
ProfilesHold ==
  /\ \A a \in DOMAIN applicants :
       applicants[a].count = Cardinality({r \in DOMAIN records : records[r].applicant = a})
  /\ width = 1 /\ (\A p \in Procs : req[p].pc = "idle") =>
       \A r \in DOMAIN records :
         ~records[r].deleted => records[r].applicant \in Alive \cup stranded
=============================================================================
