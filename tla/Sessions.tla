------------------------------ MODULE Sessions ------------------------------
(***************************************************************************)
(* The sessions of one account: the refresh tokens that replace each       *)
(* other, the access tokens, and the ways in which sessions are ended.     *)
(* Statement by statement: none of these handlers runs in a transaction.   *)
(*                                                                         *)
(* A session stands for its row, for the refresh token whose hash it holds *)
(* and for the access token signed with it.  An access token is taken to   *)
(* last for ever: it expires before its entry on the deny list does.       *)
(* Sign-ins that fail and reset links are in SignIn.                       *)
(***************************************************************************)
EXTENDS Integers, Sequences, FiniteSets

CONSTANTS
  Procs,        \* requests that can be in flight at once
  MaxSessions,  \* bound on the sessions ever opened
  MaxVersion    \* bound on token_version

VARIABLES
  account,   \* the users row: token version, active
  sessions,  \* the sessions rows: token version signed in, revoked, successor, sign-in
  denied,    \* the sessions on the deny list
  req,       \* what each request has read and has still to do
  width,     \* how many requests are in flight at most: one, or all there are
  ended      \* history: the sessions there were when a request that ended them began

vars == <<account, sessions, denied, req, width, ended>>

-----------------------------------------------------------------------------

Sessions == DOMAIN sessions

Idle == [pc |-> "idle", session |-> 0, version |-> 0, live |-> {}, there |-> {}]

Init ==
  /\ account = [version |-> 0, active |-> TRUE]
  /\ sessions = <<>>
  /\ denied = {}
  /\ req = [p \in Procs |-> Idle]
  /\ width \in {1, Cardinality(Procs)}
  /\ ended = {}

\* A request may begin.
Free(p) ==
  /\ req[p].pc = "idle"
  /\ Cardinality({q \in Procs : req[q].pc # "idle"}) < width

At(p, pc)   == req[p].pc = pc
Goto(p, pc) == req' = [req EXCEPT ![p].pc = pc]
Done(p)     == req' = [req EXCEPT ![p] = Idle]

\* The guard of every route: what it asks of an access token, the signature aside.
Accepts(s) ==
  /\ s \notin denied
  /\ account.active
  /\ sessions[s].version = account.version

-----------------------------------------------------------------------------
(* login and refresh                                                       *)

\* login, the right password given.
Login(p) ==
  /\ Free(p) /\ account.active
  /\ req' = [req EXCEPT ![p] = [Idle EXCEPT !.pc = "login_issue",
                                            !.version = account.version]]
  /\ UNCHANGED <<account, sessions, denied, width, ended>>

\* issueTokens: a new session, signed with the token version that was read.
Issued(p, start) ==
  [version |-> req[p].version, revoked |-> FALSE, next |-> 0, start |-> start]

LoginIssue(p) ==
  /\ At(p, "login_issue")
  /\ Len(sessions) < MaxSessions
  /\ sessions' = Append(sessions, Issued(p, Len(sessions) + 1))
  /\ Done(p)
  /\ UNCHANGED <<account, denied, width, ended>>

\* A token already replaced or revoked ends every session of the account; one that
\* has expired is refused, which changes nothing.
Spent_RevokedOnly(s) == sessions[s].revoked
Spent(s)             == sessions[s].revoked \/ sessions[s].next # 0

RefreshRead(p) ==
  /\ Free(p)
  /\ \E s \in Sessions :
       req' = [req EXCEPT ![p] =
                 [Idle EXCEPT !.pc = IF Spent(s) THEN "end_select" ELSE "refresh_user",
                              !.session = s]]
  /\ UNCHANGED <<account, sessions, denied, width, ended>>

RefreshUser(p) ==
  /\ At(p, "refresh_user")
  /\ req' = [req EXCEPT ![p] = IF account.active
                               THEN [req[p] EXCEPT !.pc = "refresh_issue",
                                                   !.version = account.version]
                               ELSE Idle]
  /\ UNCHANGED <<account, sessions, denied, width, ended>>

RefreshIssue(p) ==
  /\ At(p, "refresh_issue")
  /\ Len(sessions) < MaxSessions
  /\ sessions' = Append(sessions, Issued(p, sessions[req[p].session].start))
  /\ req' = [req EXCEPT ![p].pc = "refresh_link", ![p].live = {Len(sessions) + 1}]
  /\ UNCHANGED <<account, denied, width, ended>>

\* What becomes of the session whose token was presented.
Replaced(session, next) == [session EXCEPT !.next = next]

\* The old session is closed by naming its successor, whoever has closed it meanwhile.
RefreshLink(p) ==
  /\ At(p, "refresh_link")
  /\ \E next \in req[p].live :
       sessions' = [sessions EXCEPT ![req[p].session] =
                                      Replaced(sessions[req[p].session], next)]
  /\ Done(p)
  /\ UNCHANGED <<account, denied, width, ended>>

-----------------------------------------------------------------------------
(* Ending sessions                                                         *)

\* logout: the row first, then the deny list.
LogoutMark(p) ==
  /\ Free(p)
  /\ \E s \in Sessions :
       /\ Accepts(s)
       /\ sessions' = [sessions EXCEPT ![s].revoked = TRUE]
       /\ req' = [req EXCEPT ![p] = [Idle EXCEPT !.pc = "logout_deny", !.session = s,
                                                 !.live = {s}]]
  /\ UNCHANGED <<account, denied, width, ended>>

LogoutDeny(p) ==
  /\ At(p, "logout_deny")
  /\ denied' = denied \cup req[p].live
  /\ ended' = ended \cup req[p].live
  /\ Done(p)
  /\ UNCHANGED <<account, sessions, width>>

\* An administrator's force-logout, a new role, a deletion, a new password typed by its
\* owner and one set through a reset link: each leads to revokeAllSessions.
ForceLogout(p) ==
  /\ Free(p)
  /\ Sessions # {}
  /\ req' = [req EXCEPT ![p] = [Idle EXCEPT !.pc = "end_select"]]
  /\ UNCHANGED <<account, sessions, denied, width, ended>>

\* updateUser: an account deactivated loses its sessions, one reactivated gains nothing.
SetActive(p) ==
  /\ Free(p)
  /\ account' = [account EXCEPT !.active = ~account.active]
  /\ req' = [req EXCEPT ![p] = IF account.active THEN [Idle EXCEPT !.pc = "end_select"]
                               ELSE Idle]
  /\ UNCHANGED <<sessions, denied, width, ended>>

\* revokeAllSessions: four statements.
EndSelect(p) ==
  /\ At(p, "end_select")
  /\ req' = [req EXCEPT ![p].pc = "end_mark", ![p].there = Sessions,
                        ![p].live = {s \in Sessions : ~sessions[s].revoked}]
  /\ UNCHANGED <<account, sessions, denied, width, ended>>

EndMark(p) ==
  /\ At(p, "end_mark")
  /\ sessions' = [s \in Sessions |-> [sessions[s] EXCEPT !.revoked = TRUE]]
  /\ Goto(p, "end_deny")
  /\ UNCHANGED <<account, denied, width, ended>>

EndDeny(p) ==
  /\ At(p, "end_deny")
  /\ denied' = denied \cup req[p].live
  /\ Goto(p, "end_bump")
  /\ UNCHANGED <<account, sessions, width, ended>>

\* token_version + 1, in SQL.
VersionAfter_Kept == account.version
VersionAfter      == account.version + 1

EndBump(p) ==
  /\ At(p, "end_bump")
  /\ account.version < MaxVersion
  /\ account' = [account EXCEPT !.version = VersionAfter]
  /\ ended' = ended \cup req[p].there
  /\ Done(p)
  /\ UNCHANGED <<sessions, denied, width>>

\* Redis is away: some sessions may be on the deny list, and the error is passed on.
DenyFails(p) ==
  /\ req[p].pc \in {"logout_deny", "end_deny"}
  /\ \E some \in SUBSET req[p].live : denied' = denied \cup some
  /\ Done(p)
  /\ UNCHANGED <<account, sessions, width, ended>>

\* The process dies.
Lost(p) ==
  /\ req[p].pc # "idle"
  /\ width # 1
  /\ Done(p)
  /\ UNCHANGED <<account, sessions, denied, width, ended>>

-----------------------------------------------------------------------------

Step(p) ==
  \/ Login(p) \/ LoginIssue(p)
  \/ RefreshRead(p) \/ RefreshUser(p) \/ RefreshIssue(p) \/ RefreshLink(p)
  \/ LogoutMark(p) \/ LogoutDeny(p) \/ ForceLogout(p) \/ SetActive(p)
  \/ EndSelect(p) \/ EndMark(p) \/ EndDeny(p) \/ EndBump(p) \/ DenyFails(p)
  \/ Lost(p)

Next == \E p \in Procs : Step(p)

Spec == Init /\ [][Next]_vars

-----------------------------------------------------------------------------

Quiet == width = 1 /\ \A p \in Procs : req[p].pc = "idle"

\* The type of every variable.
TypeOK ==
  /\ account \in [version : 0 .. MaxVersion, active : BOOLEAN]
  /\ \A s \in Sessions :
       sessions[s] \in [version : 0 .. MaxVersion, revoked : BOOLEAN,
                        next : 0 .. MaxSessions, start : 1 .. MaxSessions]
  /\ denied \subseteq Sessions /\ ended \subseteq Sessions
  /\ \A p \in Procs : req[p].session \in Nat /\ req[p].live \subseteq Sessions

\* What a request has ended stays ended, whatever refreshes, sign-ins, crashes and
\* failures of Redis run beside it: neither of the session's tokens is honoured again.
EndedStaysEnded == \A s \in ended : ~Accepts(s) /\ sessions[s].revoked

\* One request at a time: of the sessions that descend from one sign-in, one at most
\* has a refresh token still to be used.
OneHolder ==
  Quiet => \A s, t \in Sessions :
    sessions[s].start = sessions[t].start /\ ~Spent(s) /\ ~Spent(t) => s = t
=============================================================================
