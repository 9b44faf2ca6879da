--------------------------- MODULE EvidenceVault ----------------------------
(***************************************************************************)
(* The evidence files of one record and the count of them it carries: an   *)
(* upload staff confirm, a proof the applicant gave the website, which the *)
(* website may deliver twice, and the copies an import makes of the files  *)
(* a snapshot lists, which every snapshot lists again.                     *)
(*                                                                         *)
(* The first two write in a transaction.  The third looks the file's name  *)
(* up, and inserts and counts in two statements of their own.              *)
(***************************************************************************)
EXTENDS Integers, Sequences, FiniteSets

CONSTANTS
  Procs,     \* requests and handlers that can be at work at once
  Contents,  \* what a file may hold; its name is taken to say which
  Uploads,   \* the upload intents handed out
  MaxFiles   \* bound on the evidence files ever kept

VARIABLES
  files,     \* the evidence_files rows: content, intent, hashed or not, who stored it
  count,     \* records.evidence_count
  confirmed, \* the intents that are confirmed
  uncounted, \* history: copies whose count the process did not live to write
  req,       \* what each request has read and has still to do
  width      \* how many are at work at most: one, or all there are

vars == <<files, count, confirmed, uncounted, req, width>>

-----------------------------------------------------------------------------

NoUpload == {}

Idle == [pc |-> "idle", content |-> {}, upload |-> NoUpload]

Init ==
  /\ files = <<>>
  /\ count = 0
  /\ confirmed = {}
  /\ uncounted = 0
  /\ req = [p \in Procs |-> Idle]
  /\ width \in {1, Cardinality(Procs)}

Free(p) ==
  /\ req[p].pc = "idle"
  /\ Cardinality({q \in Procs : req[q].pc # "idle"}) < width

At(p, pc) == req[p].pc = pc
Done(p)   == req' = [req EXCEPT ![p] = Idle]

Begins(p, pc, content, upload) ==
  req' = [req EXCEPT ![p] = [pc |-> pc, content |-> content, upload |-> upload]]

HeldAs(content, how) == {f \in DOMAIN files : files[f].content = content /\ files[f].how \in how}

\* evidence_record_checksum_uq: a browser sends a hash or none, the proofs have one and
\* the copies none.
Hashed      == {"hashed_upload", "proof"}
Clash(file) ==
  \/ file.how \in Hashed /\ HeldAs(file.content, Hashed) # {}
  \/ file.upload # NoUpload /\ \E f \in DOMAIN files : files[f].upload = file.upload

Kept(file) ==
  /\ Len(files) < MaxFiles
  /\ ~Clash(file)
  /\ files' = Append(files, file)

-----------------------------------------------------------------------------

\* confirmEvidence: an intent that is not confirmed, for an object that is there.
ConfirmCheck(p) ==
  /\ Free(p)
  /\ \E content \in Contents, upload \in Uploads \ confirmed :
       Begins(p, "confirm", {content}, {upload})
  /\ UNCHANGED <<files, count, confirmed, uncounted, width>>

ConfirmCommit(p) ==
  /\ At(p, "confirm")
  /\ \E content \in req[p].content, how \in {"upload", "hashed_upload"} :
       Kept([content |-> content, upload |-> req[p].upload, how |-> how])
  /\ count' = count + 1
  /\ confirmed' = confirmed \cup req[p].upload
  /\ Done(p)
  /\ UNCHANGED <<uncounted, width>>

\* ingestRequestedProof: what is held with its hash already is not kept again.
ProofCheck(p) ==
  /\ Free(p)
  /\ \E content \in Contents :
       /\ HeldAs(content, Hashed) = {}
       /\ Begins(p, "proof", {content}, NoUpload)
  /\ UNCHANGED <<files, count, confirmed, uncounted, width>>

ProofCommit(p) ==
  /\ At(p, "proof")
  /\ \E content \in req[p].content :
       Kept([content |-> content, upload |-> NoUpload, how |-> "proof"])
  /\ count' = count + 1
  /\ Done(p)
  /\ UNCHANGED <<confirmed, uncounted, width>>

\* copyEvidence: a file of that name, whoever stored it, is not copied again.
Copied_Unasked(content) == FALSE
Copied(content)         == \E f \in DOMAIN files : files[f].content = content

CopyCheck(p) ==
  /\ Free(p)
  /\ \E content \in Contents :
       /\ ~Copied(content)
       /\ Begins(p, "copy", {content}, NoUpload)
  /\ UNCHANGED <<files, count, confirmed, uncounted, width>>

CopyInsert(p) ==
  /\ At(p, "copy")
  /\ \E content \in req[p].content :
       Kept([content |-> content, upload |-> NoUpload, how |-> "copy"])
  /\ req' = [req EXCEPT ![p].pc = "copy_count"]
  /\ UNCHANGED <<count, confirmed, uncounted, width>>

CopyCount(p) ==
  /\ At(p, "copy_count")
  /\ count' = count + 1
  /\ Done(p)
  /\ UNCHANGED <<files, confirmed, uncounted, width>>

\* A download fails, an index refuses, or the process dies.
Lost(p) ==
  /\ req[p].pc # "idle"
  /\ uncounted' = uncounted + (IF At(p, "copy_count") THEN 1 ELSE 0)
  /\ Done(p)
  /\ UNCHANGED <<files, count, confirmed, width>>

-----------------------------------------------------------------------------

Step(p) ==
  \/ ConfirmCheck(p) \/ ConfirmCommit(p) \/ ProofCheck(p) \/ ProofCommit(p)
  \/ CopyCheck(p) \/ CopyInsert(p) \/ CopyCount(p)
  \/ Lost(p)

Next == \E p \in Procs : Step(p)

Spec == Init /\ [][Next]_vars

-----------------------------------------------------------------------------

\* The type of every variable.
TypeOK ==
  /\ \A f \in DOMAIN files :
       files[f] \in [content : Contents, upload : SUBSET Uploads,
                     how : {"upload", "hashed_upload", "proof", "copy"}]
  /\ count \in Nat /\ uncounted \in Nat /\ confirmed \subseteq Uploads
  /\ \A p \in Procs : req[p].content \subseteq Contents /\ req[p].upload \subseteq Uploads

\* The copies that are about to be counted.
Counting == Cardinality({p \in Procs : At(p, "copy_count")})

\* The record counts every file it has, but for a copy that is about to be counted and
\* those a crash kept from it; and one at a time, no file is copied that is there.
VaultAddsUp ==
  /\ count + Counting + uncounted = Len(files)
  /\ width = 1 => \A content \in Contents : Cardinality(HeldAs(content, {"copy"})) <= 1
=============================================================================
