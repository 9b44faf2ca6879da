--------------------------- MODULE ImportedRecords ---------------------------
(***************************************************************************)
(* The mirror of the website's offline certificates: pushed one by one as  *)
(* they are catalogued or revoked there, and pulled in two ways, in full   *)
(* or from the newest issue date that is held.                             *)
(*                                                                         *)
(* One pull is at work at a time, while the website goes on and pushes: a  *)
(* pull that was answered before a push may write over it.                 *)
(* Certificates are numbered by their issue dates, which are historic:     *)
(* they are catalogued in any order.                                       *)
(***************************************************************************)
EXTENDS Integers, FiniteSets

CONSTANTS
  MaxCertificates,  \* the certificates are 1 .. MaxCertificates; all fit on one page
  MaxEdits          \* bound on the states a certificate goes through on the website

VARIABLES
  catalogue,  \* the state of each certificate on the website, 0 before it is catalogued
  held,       \* the state of each in imported_records, 0 without a row
  owed,       \* the certificates the website has still to push
  missed,     \* history: what was lost or may be undone, and no pull has fetched since
  pull        \* the pull that is at work: what it was sent, and has still to store

vars == <<catalogue, held, owed, missed, pull>>

-----------------------------------------------------------------------------

Certificates == 1 .. MaxCertificates
States       == 0 .. MaxEdits

NoPull == [pc |-> "idle", full |-> FALSE, since |-> 0, rows |-> {}]

Init ==
  /\ catalogue = [c \in Certificates |-> 0]
  /\ held = [c \in Certificates |-> 0]
  /\ owed = {} /\ missed = {}
  /\ pull = NoPull

Idle == pull.pc = "idle"

\* The website catalogues a certificate, revokes it, or takes the revocation back.
Change(c) ==
  /\ catalogue[c] < MaxEdits
  /\ catalogue' = [catalogue EXCEPT ![c] = @ + 1]
  /\ owed' = owed \cup {c}
  /\ UNCHANGED <<held, missed, pull>>

\* upsert: keyed on the certificate number, whichever way the row came.
Upsert(c, state) == held' = [held EXCEPT ![c] = state]

-----------------------------------------------------------------------------

\* receivePush.  The pull at work may still hold an older row, and store it later.
Push(c) ==
  /\ c \in owed
  /\ Upsert(c, catalogue[c])
  /\ owed' = owed \ {c}
  /\ missed' = IF \E row \in pull.rows : row[1] = c THEN missed \cup {c} ELSE missed \ {c}
  /\ UNCHANGED <<catalogue, pull>>

\* The push does not arrive, or its row cannot be stored.
PushLost(c) ==
  /\ c \in owed
  /\ owed' = owed \ {c} /\ missed' = missed \cup {c}
  /\ UNCHANGED <<catalogue, held, pull>>

\* latestIssuedAt, 0 where nothing is held.
Latest == LET there == {c \in Certificates : held[c] # 0}
          IN IF there = {} THEN 0 ELSE CHOOSE c \in there : \A d \in there : d <= c

Since_Always(full) == Latest
Since(full)        == IF full THEN 0 ELSE Latest

\* sync: the issue date to start from is looked up, then the website is asked.
PullStart ==
  /\ Idle
  /\ \E full \in BOOLEAN :
       pull' = [pc |-> "ask", full |-> full, since |-> Since(full), rows |-> {}]
  /\ UNCHANGED <<catalogue, held, owed, missed>>

\* The certificates issued after a date are sent, and all where none is given; those of
\* the very date may be.
PullFetch ==
  /\ pull.pc = "ask"
  /\ LET later == {c \in Certificates : c > pull.since}
     IN \E sent \in {later, later \cup (Certificates \cap {pull.since})} :
          pull' = [pull EXCEPT !.pc = "store",
                               !.rows = {<<c, catalogue[c]>> :
                                          c \in {d \in sent : catalogue[d] # 0}}]
  /\ missed' = IF pull.full THEN {} ELSE {c \in missed : c <= pull.since}
  /\ UNCHANGED <<catalogue, held, owed>>

\* One row that cannot be stored is named and does not lose the rest.
PullRow ==
  /\ pull.pc = "store"
  /\ \E row \in pull.rows :
       /\ pull' = [pull EXCEPT !.rows = @ \ {row}]
       /\ \/ Upsert(row[1], row[2]) /\ UNCHANGED missed
          \/ missed' = missed \cup {row[1]} /\ UNCHANGED held
  /\ UNCHANGED <<catalogue, owed>>

PullEnd ==
  /\ pull.pc = "store" /\ pull.rows = {}
  /\ pull' = NoPull
  /\ UNCHANGED <<catalogue, held, owed, missed>>

\* The website does not answer, or the process dies.
PullFails ==
  /\ ~Idle
  /\ pull' = NoPull
  /\ missed' = missed \cup {row[1] : row \in pull.rows}
  /\ UNCHANGED <<catalogue, held, owed>>

-----------------------------------------------------------------------------

Next ==
  \/ \E c \in Certificates : Change(c) \/ Push(c) \/ PushLost(c)
  \/ PullStart \/ PullFetch \/ PullRow \/ PullEnd \/ PullFails

Spec == Init /\ [][Next]_vars

-----------------------------------------------------------------------------

\* The type of every variable.
TypeOK ==
  /\ catalogue \in [Certificates -> States] /\ held \in [Certificates -> States]
  /\ owed \subseteq Certificates /\ missed \subseteq Certificates
  /\ pull.since \in 0 .. MaxCertificates
  /\ \A row \in pull.rows : row[1] \in Certificates /\ row[2] \in States

\* With no pull at work, the mirror agrees with the website on every certificate but those
\* whose push is on its way, or was lost or met a pull, and which no pull has fetched since:
\* in full whatever it was, else only what was issued after the newest that is held.
MirrorAgrees ==
  Idle => \A c \in Certificates : held[c] = catalogue[c] \/ c \in owed \cup missed
=============================================================================
