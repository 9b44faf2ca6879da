------------------------------- MODULE Desks --------------------------------
(***************************************************************************)
(* The components whose requests touch none of each other's rows, side by  *)
(* side.  Which of them is at work is chosen at the start and stays; what  *)
(* holds of this specification holds of each of them, and the interleaving *)
(* of one with another would add nothing, since they share no state.       *)
(***************************************************************************)
EXTENDS Integers, FiniteSets

CONSTANTS
  Procs,                                    \* requests in flight at once, everywhere
  MaxSessions, MaxVersion,                  \* of Sessions
  MaxAttempts, MaxMisses, MaxLinks,         \* of SignIn
  MaxEntries,                               \* of Blacklist
  Stages, MaxChanges,                       \* of WebsiteDecisions
  FormStatuses, MaxRows,                    \* of Dispatches
  Payments, MaxInvoices,                    \* of Invoices
  LeadStatuses, MaxLeads, MaxAgain,         \* of Leads
  LastDay, MaxLeave,                        \* of LeaveRegister
  Months, MaxSlips,                         \* of Payslips
  Contents, Uploads, MaxFiles,              \* of EvidenceVault
  MaxApplicants, MaxRecords,                \* of Intake
  Queries, MaxTokens,                       \* of WebClient
  MaxCertificates, MaxEdits                 \* of ImportedRecords

ASSUME ProcsAssumption        == IsFiniteSet(Procs)
ASSUME DaysAssumption         == LastDay \in Nat \ {0}
ASSUME AttemptsAssumption     == MaxAttempts \in Nat \ {0}   \* a number from 3 to 20
ASSUME BoundsAssumption ==
  /\ MaxSessions \in Nat /\ MaxVersion \in Nat /\ MaxMisses \in Nat /\ MaxLinks \in Nat
  /\ MaxEntries \in Nat /\ MaxChanges \in Nat /\ MaxRows \in Nat /\ MaxLeads \in Nat
  /\ MaxAgain \in Nat /\ MaxLeave \in Nat /\ MaxRecords \in Nat
  /\ MaxCertificates \in Nat /\ MaxEdits \in Nat

VARIABLES
  desk,   \* the component at work
  width,  \* how many requests are in flight at most: one, or all there are
  account, sessions, denied, sReq, ended,                \* of Sessions
  user, links, gReq, misses,                             \* of SignIn
  entries, banner, flags, website, pushes, missed, bReq, \* of Blacklist
  site, news, known, status, read, wReq, excused, changes, \* of WebsiteDecisions
  rows, shown, dReq, strayed,                            \* of Dispatches
  invoices, counter, iReq,                               \* of Invoices
  leads, opened, reopened, taken, freed, lReq,           \* of Leads
  leave, register, rReq,                                 \* of LeaveRegister
  slips, pReq,                                           \* of Payslips
  files, count, confirmed, uncounted, vReq,              \* of EvidenceVault
  applicants, records, stranded, nReq,                   \* of Intake
  tab, jar, issued, query, reused, pardoned,            \* of WebClient
  catalogue, held, owed, unfetched, pull                 \* of ImportedRecords

-----------------------------------------------------------------------------

S == INSTANCE Sessions WITH req <- sReq
G == INSTANCE SignIn WITH req <- gReq
B == INSTANCE Blacklist WITH req <- bReq
W == INSTANCE WebsiteDecisions WITH req <- wReq
D == INSTANCE Dispatches WITH Statuses <- FormStatuses, req <- dReq
I == INSTANCE Invoices WITH req <- iReq
L == INSTANCE Leads WITH Statuses <- LeadStatuses, req <- lReq
R == INSTANCE LeaveRegister WITH req <- rReq
P == INSTANCE Payslips WITH req <- pReq
V == INSTANCE EvidenceVault WITH req <- vReq
N == INSTANCE Intake WITH req <- nReq
C == INSTANCE WebClient WITH MaxSessions <- MaxTokens, excused <- pardoned
M == INSTANCE ImportedRecords WITH missed <- unfetched

ASSUME StagesAssumption   == Stages \subseteq W!LegacyStage
ASSUME StatusesAssumption ==
  FormStatuses \subseteq D!DELIVERY_STATUS /\ LeadStatuses \subseteq L!LEAD_STATUS

S_vars == <<account, sessions, denied, sReq, ended>>
G_vars == <<user, links, gReq, misses>>
B_vars == <<entries, banner, flags, website, pushes, missed, bReq>>
W_vars == <<site, news, known, status, read, wReq, excused, changes>>
D_vars == <<rows, shown, dReq, strayed>>
I_vars == <<invoices, counter, iReq>>
L_vars == <<leads, opened, reopened, taken, freed, lReq>>
R_vars == <<leave, register, rReq>>
P_vars == <<slips, pReq>>
V_vars == <<files, count, confirmed, uncounted, vReq>>
N_vars == <<applicants, records, stranded, nReq>>
C_vars == <<tab, jar, issued, query, reused, pardoned>>
M_vars == <<catalogue, held, owed, unfetched, pull>>

vars ==
  <<desk, width, S_vars, G_vars, B_vars, W_vars, D_vars, I_vars, L_vars, R_vars, P_vars, V_vars,
    N_vars, C_vars, M_vars>>

-----------------------------------------------------------------------------

Components ==
  {"sessions", "sign_in", "blacklist", "decisions", "dispatches", "invoices",
   "leads", "leave", "payslips", "vault", "intake", "client", "imported"}

Init ==
  /\ desk \in Components
  /\ S!Init
  /\ G!Init
  /\ B!Init
  /\ W!Init /\ (desk # "decisions" => site = "submitted")
  /\ D!Init
  /\ I!Init
  /\ L!Init
  /\ R!Init
  /\ P!Init
  /\ V!Init
  /\ N!Init
  /\ C!Init /\ (desk # "client" => jar = 0)
  /\ M!Init
  /\ desk \in {"decisions", "dispatches", "client", "imported"} => width = 1  \* have none

\* The component at work is d: it stays so, and the others stand still.
Only(d) ==
  /\ UNCHANGED desk
  /\ d # "sessions" => UNCHANGED S_vars
  /\ d # "sign_in" => UNCHANGED G_vars
  /\ d # "blacklist" => UNCHANGED B_vars
  /\ d # "decisions" => UNCHANGED W_vars
  /\ d # "dispatches" => UNCHANGED D_vars
  /\ d # "invoices" => UNCHANGED I_vars
  /\ d # "leads" => UNCHANGED L_vars
  /\ d # "leave" => UNCHANGED R_vars
  /\ d # "payslips" => UNCHANGED P_vars
  /\ d # "vault" => UNCHANGED V_vars
  /\ d # "intake" => UNCHANGED N_vars
  /\ d # "client" => UNCHANGED C_vars
  /\ d # "imported" => UNCHANGED M_vars

Next ==
  \/ desk = "sessions" /\ S!Next /\ Only("sessions")
  \/ desk = "sign_in" /\ G!Next /\ Only("sign_in")
  \/ desk = "blacklist" /\ B!Next /\ Only("blacklist")
  \/ desk = "decisions" /\ W!Next /\ UNCHANGED width /\ Only("decisions")
  \/ desk = "dispatches" /\ D!Next /\ UNCHANGED width /\ Only("dispatches")
  \/ desk = "invoices" /\ I!Next /\ Only("invoices")
  \/ desk = "leads" /\ L!Next /\ Only("leads")
  \/ desk = "leave" /\ R!Next /\ Only("leave")
  \/ desk = "payslips" /\ P!Next /\ Only("payslips")
  \/ desk = "vault" /\ V!Next /\ Only("vault")
  \/ desk = "intake" /\ N!Next /\ Only("intake")
  \/ desk = "client" /\ C!Next /\ UNCHANGED width /\ Only("client")
  \/ desk = "imported" /\ M!Next /\ UNCHANGED width /\ Only("imported")

Spec == Init /\ [][Next]_vars

-----------------------------------------------------------------------------

\* The type of every variable.
TypeOK ==
  /\ desk \in Components /\ width \in Nat
  /\ S!TypeOK
  /\ G!TypeOK
  /\ B!TypeOK
  /\ W!TypeOK
  /\ D!TypeOK
  /\ I!TypeOK
  /\ L!TypeOK
  /\ R!TypeOK
  /\ P!TypeOK
  /\ V!TypeOK
  /\ N!TypeOK
  /\ C!TypeOK
  /\ M!TypeOK

\* A session that was ended stays ended, whatever refreshes, sign-ins, crashes and
\* failures of Redis run beside it (auth.service.ts, auth.guard.ts).
EndedStaysEnded == S!EndedStaysEnded

\* One request at a time: a sign-in has one refresh token at most that can still be used.
\* The web application, which refreshes once for however many requests came back 401,
\* neither presents a replaced one nor shows the sign-in page unasked (auth.service.ts,
\* refresh; api-client.ts, refreshSession).
OneHolder == S!OneHolder /\ C!StaysSignedIn

\* One request at a time: wrong passwords lead to the lock, and only the last reset
\* link works (auth.service.ts, registerFailedAttempt and requestPasswordReset).
GateHolds == G!GateHolds

\* Banner and flag agree, and one request at a time they show whether an entry of the
\* blacklist is in force (blacklist.service.ts, add and lift).
FlagFollowsRegister == B!FlagFollowsRegister

\* With nothing under way and no push given up: the block on the website agrees with
\* the blacklist, one request at a time; an application is decided there exactly when
\* its record is closed here, however moves and snapshots race; and the mirror of its
\* certificates holds what the website has (blacklist.service.ts,
\* legacy-actions.service.ts, legacy-push.service.ts, imported-records.service.ts).
WebsiteAgrees == B!WebsiteAgrees /\ W!DecisionsAgree /\ M!MirrorAgrees

\* The list shows the status of the one current dispatch, until an import has written
\* to a superseded row (dispatch.service.ts, legacy-lifecycle.service.ts).
RecordShowsCurrent == D!RecordShowsCurrent

\* The numbers of invoices and of payslips run on without a gap or a repeat, however
\* requests race (payments.service.ts, employee-hr.service.ts).
SerialsRunOn == I!InvoicesRunOn /\ P!SlipsRunOn

\* However requests race, the leads of a number open one applicant and a profile counts
\* the records it was given; and one at a time, no record can be seen whose profile
\* cannot, but for a revival that broke off (leads.service.ts, convert;
\* applicants.service.ts, nbr-website.service.ts).
OneProfile == L!ConvertedOnce /\ N!ProfilesHold

\* Every day of an approved leave is in the register, and one request at a time no two
\* live requests share a day (employee-hr.service.ts, applyLeave and decideLeave).
LeaveIsOnRegister == R!LeaveIsOnRegister

\* The evidence count of a record adds up, and one at a time nothing is copied twice
\* (vault.service.ts, nbr-website.service.ts copyEvidence).
VaultAddsUp == V!VaultAddsUp
=============================================================================
