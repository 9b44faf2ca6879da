-------------------------- MODULE DesksSignInProofs --------------------------
(***************************************************************************)
(* For any number of requests, tabs, sessions and token versions: a        *)
(* session that was ended stays ended, a sign-in has one holder, and the   *)
(* lock and the reset links before it hold.                                *)
(***************************************************************************)
EXTENDS DesksProofs, SequenceTheorems

-----------------------------------------------------------------------------
(* Sessions that were ended.                                               *)

Account == [version : Nat, active : BOOLEAN]

Session == [version : Nat, revoked : BOOLEAN, next : Nat, start : Nat]

SessionRequest ==
  [pc : {"idle", "login_issue", "refresh_user", "refresh_issue", "refresh_link",
         "logout_deny", "end_select", "end_mark", "end_deny", "end_bump"},
   session : Nat, version : Nat, live : SUBSET Nat, there : SUBSET Nat]

\* What a request r holds of the rows: a token version that was the account's, sessions
\* there are, and, where it is about to end them for good, revoked ones.
Holds(r, rs, version) ==
  /\ r.version <= version
  /\ r.live \subseteq DOMAIN rs /\ r.there \subseteq DOMAIN rs
  /\ r.pc \in {"refresh_user", "refresh_issue", "refresh_link"} => r.session \in DOMAIN rs
  /\ r.pc = "logout_deny" => \A s \in r.live : rs[s].revoked
  /\ r.pc \in {"end_deny", "end_bump"} => \A s \in r.there : rs[s].revoked

\* The session s is ended: revoked, and on the deny list or of an earlier token version.
Over(s, rs, version, deny) ==
  /\ s \in DOMAIN rs
  /\ rs[s].revoked
  /\ s \in deny \/ rs[s].version < version

SessionsInv ==
  /\ account \in Account
  /\ sessions \in Seq(Session)
  /\ sReq \in [Procs -> SessionRequest]
  /\ \A s \in DOMAIN sessions : sessions[s].version <= account.version
  /\ \A p \in Procs : Holds(sReq[p], sessions, account.version)
  /\ \A s \in ended : Over(s, sessions, account.version, denied)

\* Rows that are kept: none is lost, none changes its version, and none revoked is revived.
Kept(rs, ss) ==
  /\ DOMAIN rs \subseteq DOMAIN ss
  /\ \A s \in DOMAIN rs : ss[s].version = rs[s].version /\ (rs[s].revoked => ss[s].revoked)

\* A request that is put back to idle holds nothing.
LEMMA IdleSession ==
  /\ S!Idle \in SessionRequest /\ S!Idle.pc = "idle" /\ S!Idle.version = 0
  /\ S!Idle.live = {} /\ S!Idle.there = {}
BY DEF S!Idle, SessionRequest

\* It fits any rows.
LEMMA IdleHolds ==
  ASSUME NEW rs, NEW version \in Nat
  PROVE  Holds(S!Idle, rs, version)
BY IdleSession DEF Holds

\* Where rows are kept and the version grows, what a request holds it goes on holding.
LEMMA HoldsOn ==
  ASSUME NEW r \in SessionRequest, NEW rs, NEW ss, NEW version \in Nat, NEW later \in Nat,
         Holds(r, rs, version), Kept(rs, ss), version <= later
  PROVE  Holds(r, ss, later)
<1>1. r.version \in Nat
  BY DEF SessionRequest
<1> QED
  BY <1>1 DEF Holds, Kept

\* So does a session that is over go on being so.
LEMMA OverOn ==
  ASSUME NEW s, NEW rs, NEW ss, NEW version \in Nat, NEW later \in Nat, NEW deny, NEW more,
         rs[s].version \in Nat,
         Over(s, rs, version, deny), Kept(rs, ss), version <= later, deny \subseteq more
  PROVE  Over(s, ss, later, more)
BY DEF Over, Kept

\* What every action of a request comes to.
LEMMA SessionsStep ==
  ASSUME SessionsInv, NEW p \in Procs, NEW r \in SessionRequest,
         sReq' = [sReq EXCEPT ![p] = r],
         account' \in Account, account.version <= account'.version,
         sessions' \in Seq(Session), Kept(sessions, sessions'),
         \A s \in DOMAIN sessions' : sessions'[s].version <= account'.version,
         Holds(r, sessions', account'.version),
         denied \subseteq denied',
         \A s \in ended' : s \in ended \/ Over(s, sessions', account'.version, denied')
  PROVE  SessionsInv'
<1>1. account.version \in Nat /\ account'.version \in Nat
  BY DEF SessionsInv, Account
<1>2. sReq' \in [Procs -> SessionRequest] /\ sReq'[p] = r
      /\ \A q \in Procs \ {p} : sReq'[q] = sReq[q]
  BY DEF SessionsInv
<1>3. \A q \in Procs : Holds(sReq'[q], sessions', account'.version)
  <2> SUFFICES ASSUME NEW q \in Procs, q # p
               PROVE  Holds(sReq[q], sessions', account'.version)
    BY <1>2
  <2>1. sReq[q] \in SessionRequest /\ Holds(sReq[q], sessions, account.version)
    BY DEF SessionsInv
  <2> QED
    BY <1>1, <2>1, HoldsOn
<1>4. \A s \in ended' : Over(s, sessions', account'.version, denied')
  <2> SUFFICES ASSUME NEW s \in ended
               PROVE  Over(s, sessions', account'.version, denied')
    OBVIOUS
  <2>1. Over(s, sessions, account.version, denied)
    BY DEF SessionsInv
  <2>2. sessions[s] \in Session
    BY <2>1 DEF Over, SessionsInv
  <2>3. sessions[s].version \in Nat
    BY <2>2 DEF Session
  <2> QED
    BY <1>1, <2>1, <2>3, OverOn
<1> QED
  BY <1>2, <1>3, <1>4 DEF SessionsInv

\* There is no session yet.
LEMMA InitSessions == Init => SessionsInv
<1> SUFFICES ASSUME Init PROVE SessionsInv
  OBVIOUS
<1>1. /\ account = [version |-> 0, active |-> TRUE] /\ sessions = <<>> /\ ended = {}
      /\ sReq = [p \in Procs |-> S!Idle]
  BY DEF Init, S!Init
<1>2. account \in Account /\ account.version = 0
  BY <1>1 DEF Account
<1>3. \A p \in Procs : sReq[p] = S!Idle
  BY <1>1
<1>4. \A p \in Procs : Holds(sReq[p], sessions, account.version)
  BY <1>2, <1>3, IdleHolds
<1> QED
  BY <1>1, <1>2, <1>3, <1>4, IdleSession DEF SessionsInv

\* An action that leaves the rows and the account as they are, and ends nothing.
LEMMA SessionsWait ==
  ASSUME SessionsInv, NEW p \in Procs, NEW r \in SessionRequest,
         sReq' = [sReq EXCEPT ![p] = r],
         UNCHANGED <<sessions, ended>>,
         account' \in Account, account'.version = account.version,
         denied \subseteq denied',
         Holds(r, sessions, account.version)
  PROVE  SessionsInv'
<1>1. account.version \in Nat
  BY DEF SessionsInv, Account
<1>2. Kept(sessions, sessions')
  BY DEF Kept
<1>3. account.version <= account'.version
  BY <1>1
<1>4. \A s \in DOMAIN sessions' : sessions'[s].version <= account'.version
  BY DEF SessionsInv
<1>5. Holds(r, sessions', account'.version) /\ sessions' \in Seq(Session)
  BY DEF SessionsInv
<1> QED
  BY <1>2, <1>3, <1>4, <1>5, SessionsStep

\* A request that begins with the account or a session, or with nothing.
LEMMA SessionsBegin ==
  ASSUME SessionsInv, NEW p \in Procs,
         \/ S!Login(p) \/ S!RefreshRead(p) \/ S!ForceLogout(p) \/ S!SetActive(p)
  PROVE  SessionsInv'
<1>1. account \in Account /\ account.version \in Nat
  BY DEF SessionsInv, Account
<1>2. CASE S!Login(p)
  <2> DEFINE r == [S!Idle EXCEPT !.pc = "login_issue", !.version = account.version]
  <2>1. r \in SessionRequest
    BY <1>1, IdleSession DEF SessionRequest
  <2>2. Holds(r, sessions, account.version)
    BY <1>1 DEF Holds, S!Idle
  <2>3. sReq' = [sReq EXCEPT ![p] = r] /\ UNCHANGED <<account, sessions, denied, ended>>
    BY <1>2 DEF S!Login
  <2> HIDE DEF r
  <2> QED
    BY <1>1, <2>1, <2>2, <2>3, SessionsWait
<1>3. CASE S!RefreshRead(p)
  <2>1. PICK s \in DOMAIN sessions, pc \in {"end_select", "refresh_user"} :
          sReq' = [sReq EXCEPT ![p] = [S!Idle EXCEPT !.pc = pc, !.session = s]]
    BY <1>3 DEF S!RefreshRead, S!Sessions
  <2> DEFINE r == [S!Idle EXCEPT !.pc = pc, !.session = s]
  <2>2. s \in Nat
    BY DEF SessionsInv
  <2>3. r \in SessionRequest
    BY <2>2, IdleSession DEF SessionRequest
  <2>4. Holds(r, sessions, account.version)
    BY <1>1 DEF Holds, S!Idle
  <2>5. sReq' = [sReq EXCEPT ![p] = r] /\ UNCHANGED <<account, sessions, denied, ended>>
    BY <1>3, <2>1 DEF S!RefreshRead
  <2> HIDE DEF r
  <2> QED
    BY <1>1, <2>3, <2>4, <2>5, SessionsWait
<1>4. CASE S!ForceLogout(p) \/ S!SetActive(p)
  <2> DEFINE end == [S!Idle EXCEPT !.pc = "end_select"]
  <2>1. PICK r \in {end, S!Idle} : sReq' = [sReq EXCEPT ![p] = r]
    BY <1>4 DEF S!ForceLogout, S!SetActive
  <2>2. end \in SessionRequest
    BY IdleSession DEF SessionRequest
  <2>3. Holds(end, sessions, account.version)
    BY <1>1 DEF Holds, S!Idle
  <2>4. r \in SessionRequest /\ Holds(r, sessions, account.version)
    BY <1>1, <2>2, <2>3, IdleSession, IdleHolds
  <2>5. account' \in Account /\ account'.version = account.version
    BY <1>1, <1>4 DEF S!ForceLogout, S!SetActive, Account
  <2>6. UNCHANGED <<sessions, denied, ended>>
    BY <1>4 DEF S!ForceLogout, S!SetActive
  <2> HIDE DEF end
  <2> QED
    BY <2>1, <2>4, <2>5, <2>6, SessionsWait
<1> QED
  BY <1>2, <1>3, <1>4

\* A request that reads on, breaks off, or reaches the deny list.
LEMMA SessionsGoOn ==
  ASSUME SessionsInv, NEW p \in Procs,
         \/ S!RefreshUser(p) \/ S!EndSelect(p) \/ S!EndDeny(p) \/ S!DenyFails(p) \/ S!Lost(p)
  PROVE  SessionsInv'
<1>1. account \in Account /\ account.version \in Nat /\ sessions \in Seq(Session)
  BY DEF SessionsInv, Account
<1>2. sReq[p] \in SessionRequest /\ Holds(sReq[p], sessions, account.version)
  BY DEF SessionsInv
<1>3. CASE S!RefreshUser(p) /\ account.active
  <2> DEFINE r == [sReq[p] EXCEPT !.pc = "refresh_issue", !.version = account.version]
  <2>1. r \in SessionRequest
    BY <1>1, <1>2 DEF SessionRequest
  <2>2. Holds(r, sessions, account.version)
    BY <1>1, <1>2, <1>3 DEF Holds, SessionRequest, S!RefreshUser, S!At
  <2>3. sReq' = [sReq EXCEPT ![p] = r] /\ UNCHANGED <<account, sessions, denied, ended>>
    BY <1>3 DEF S!RefreshUser
  <2> HIDE DEF r
  <2> QED
    BY <1>1, <2>1, <2>2, <2>3, SessionsWait
<1>4. CASE S!EndSelect(p)
  <2> DEFINE there == DOMAIN sessions
             live  == {s \in there : ~sessions[s].revoked}
             r     == [sReq[p] EXCEPT !.pc = "end_mark", !.there = there, !.live = live]
  <2>1. sReq' = [sReq EXCEPT ![p] = r] /\ UNCHANGED <<account, sessions, denied, ended>>
    BY <1>4 DEF S!EndSelect, S!Sessions
  <2>2. there \in SUBSET Nat /\ live \in SUBSET there /\ live \in SUBSET Nat
    BY <1>1
  <2> HIDE DEF there, live
  <2>3. r \in SessionRequest
    BY <1>2, <2>2 DEF SessionRequest
  <2>4. Holds(r, sessions, account.version)
    BY <1>2, <2>2 DEF Holds, SessionRequest, there
  <2> HIDE DEF r
  <2> QED
    BY <1>1, <2>1, <2>3, <2>4, SessionsWait
<1>5. CASE S!EndDeny(p)
  <2> DEFINE r == [sReq[p] EXCEPT !.pc = "end_bump"]
  <2>1. r \in SessionRequest
    BY <1>2 DEF SessionRequest
  <2>2. Holds(r, sessions, account.version)
    BY <1>2, <1>5 DEF Holds, SessionRequest, S!EndDeny, S!At
  <2>3. sReq' = [sReq EXCEPT ![p] = r] /\ UNCHANGED <<account, sessions, ended>>
        /\ denied \subseteq denied'
    BY <1>5 DEF S!EndDeny, S!Goto
  <2> HIDE DEF r
  <2> QED
    BY <1>1, <2>1, <2>2, <2>3, SessionsWait
<1>6. CASE (S!RefreshUser(p) /\ ~account.active) \/ S!DenyFails(p) \/ S!Lost(p)
  <2>1. sReq' = [sReq EXCEPT ![p] = S!Idle] /\ UNCHANGED <<account, sessions, ended>>
        /\ denied \subseteq denied'
    BY <1>6 DEF S!RefreshUser, S!DenyFails, S!Lost, S!Done
  <2> QED
    BY <1>1, <2>1, IdleSession, IdleHolds, SessionsWait
<1> QED
  BY <1>3, <1>4, <1>5, <1>6

\* A session more, of a token version that was read.
LEMMA SessionsIssue ==
  ASSUME SessionsInv, NEW p \in Procs, S!LoginIssue(p) \/ S!RefreshIssue(p)
  PROVE  SessionsInv'
<1>1. account \in Account /\ account.version \in Nat /\ sessions \in Seq(Session)
  BY DEF SessionsInv, Account
<1>2. sReq[p] \in SessionRequest /\ Holds(sReq[p], sessions, account.version)
  BY DEF SessionsInv
<1>3. PICK start \in Nat : sessions' = Append(sessions, S!Issued(p, start))
  <2>1. CASE S!LoginIssue(p)
    BY <1>1, <2>1, Len(sessions) + 1 \in Nat DEF S!LoginIssue
  <2>2. CASE S!RefreshIssue(p)
    <3>1. sReq[p].session \in DOMAIN sessions
      BY <1>2, <2>2 DEF Holds, S!RefreshIssue, S!At
    <3>2. sessions[sReq[p].session] \in Session
      BY <1>1, <3>1
    <3>3. sessions[sReq[p].session].start \in Nat
      BY <3>2 DEF Session
    <3> QED
      BY <2>2, <3>3 DEF S!RefreshIssue
  <2> QED
    BY <2>1, <2>2
<1> DEFINE row == S!Issued(p, start)
<1>4. row \in Session /\ row.version <= account.version
  BY <1>2 DEF S!Issued, Session, SessionRequest, Holds
<1>5. sessions' = Append(sessions, row)
  BY <1>3
<1> HIDE DEF row
<1>6. /\ sessions' \in Seq(Session)
      /\ DOMAIN sessions' = 1 .. Len(sessions) + 1
      /\ DOMAIN sessions = 1 .. Len(sessions) /\ Len(sessions) \in Nat
      /\ sessions'[Len(sessions) + 1] = row
      /\ \A s \in DOMAIN sessions : sessions'[s] = sessions[s]
  BY <1>1, <1>4, <1>5
<1>7. Kept(sessions, sessions')
  BY <1>6 DEF Kept
<1>8. \A s \in DOMAIN sessions' : sessions'[s].version <= account.version
  BY <1>4, <1>6 DEF SessionsInv
<1>9. UNCHANGED <<account, denied, ended>>
  BY DEF S!LoginIssue, S!RefreshIssue
<1>10. PICK r \in SessionRequest :
         sReq' = [sReq EXCEPT ![p] = r] /\ Holds(r, sessions', account.version)
  <2>1. CASE S!LoginIssue(p)
    <3>1. sReq' = [sReq EXCEPT ![p] = S!Idle]
      BY <2>1 DEF S!LoginIssue, S!Done
    <3> QED
      BY <1>1, <3>1, IdleSession, IdleHolds
  <2>2. CASE S!RefreshIssue(p)
    <3> DEFINE n == Len(sessions) + 1
               live == {n}
               r == [sReq[p] EXCEPT !.pc = "refresh_link", !.live = live]
    <3>1. sReq' = [sReq EXCEPT ![p] = r]
      BY <2>2 DEF S!RefreshIssue
    <3>2. live \in SUBSET Nat /\ live \subseteq DOMAIN sessions'
      BY <1>6
    <3> HIDE DEF live
    <3>3. r \in SessionRequest
      BY <1>2, <3>2 DEF SessionRequest
    <3>4. Holds(r, sessions', account.version)
      <4>1. sReq[p].pc = "refresh_issue"
        BY <2>2 DEF S!RefreshIssue, S!At
      <4> QED
        BY <1>2, <1>6, <3>2, <4>1 DEF Holds, SessionRequest
    <3> HIDE DEF r
    <3> QED
      BY <3>1, <3>3, <3>4
  <2> QED
    BY <2>1, <2>2
<1>11. account.version <= account'.version
  BY <1>1, <1>9
<1> QED
  BY <1>1, <1>6, <1>7, <1>8, <1>9, <1>10, <1>11, SessionsStep

\* Rows that are closed or revoked.
LEMMA SessionsClose ==
  ASSUME SessionsInv, NEW p \in Procs,
         S!RefreshLink(p) \/ S!LogoutMark(p) \/ S!EndMark(p)
  PROVE  SessionsInv'
<1>1. account \in Account /\ account.version \in Nat /\ sessions \in Seq(Session)
  BY DEF SessionsInv, Account
<1>2. sReq[p] \in SessionRequest /\ Holds(sReq[p], sessions, account.version)
  BY DEF SessionsInv
<1>3. UNCHANGED <<account, denied, ended>> /\ account.version <= account'.version
  <2>1. UNCHANGED <<account, denied, ended>>
    BY DEF S!RefreshLink, S!LogoutMark, S!EndMark
  <2> QED
    BY <1>1, <2>1
<1>4. CASE S!RefreshLink(p)
  <2> DEFINE s == sReq[p].session
  <2>1. s \in DOMAIN sessions /\ sessions[s] \in Session
    BY <1>1, <1>2, <1>4 DEF Holds, S!RefreshLink, S!At
  <2>2. PICK next \in sReq[p].live : sessions' = [sessions EXCEPT ![s] =
                                                    [sessions[s] EXCEPT !.next = next]]
    BY <1>4 DEF S!RefreshLink, S!Replaced
  <2> DEFINE row == [sessions[s] EXCEPT !.next = next]
  <2>3. next \in Nat
    BY <1>2 DEF SessionRequest
  <2>4. row \in Session /\ row.version = sessions[s].version
        /\ row.revoked = sessions[s].revoked
    BY <2>1, <2>3 DEF Session
  <2>5. sessions' = [sessions EXCEPT ![s] = row]
    BY <2>2
  <2> HIDE DEF row
  <2>6. /\ sessions' \in Seq(Session) /\ DOMAIN sessions' = DOMAIN sessions
        /\ sessions'[s] = row
        /\ \A t \in DOMAIN sessions \ {s} : sessions'[t] = sessions[t]
    BY <1>1, <2>1, <2>4, <2>5
  <2>7. Kept(sessions, sessions')
    BY <2>4, <2>6 DEF Kept
  <2>8. \A t \in DOMAIN sessions' : sessions'[t].version <= account.version
    BY <2>4, <2>6 DEF SessionsInv
  <2>9. sReq' = [sReq EXCEPT ![p] = S!Idle]
    BY <1>4 DEF S!RefreshLink, S!Done
  <2>10. S!Idle \in SessionRequest /\ Holds(S!Idle, sessions', account'.version)
    BY <1>1, <1>3, IdleSession, IdleHolds
  <2> QED
    BY <1>1, <1>3, <2>6, <2>7, <2>8, <2>9, <2>10, SessionsStep
<1>5. CASE S!LogoutMark(p)
  <2>1. PICK s \in DOMAIN sessions :
          /\ sessions' = [sessions EXCEPT ![s].revoked = TRUE]
          /\ sReq' = [sReq EXCEPT ![p] = [S!Idle EXCEPT !.pc = "logout_deny",
                                                        !.session = s, !.live = {s}]]
    BY <1>5 DEF S!LogoutMark, S!Sessions
  <2> DEFINE row  == [sessions[s] EXCEPT !.revoked = TRUE]
             live == {s}
             r    == [S!Idle EXCEPT !.pc = "logout_deny", !.session = s, !.live = live]
  <2>2. sessions[s] \in Session /\ s \in Nat
    BY <1>1
  <2>3. row \in Session /\ row.version = sessions[s].version /\ row.revoked
    BY <2>2 DEF Session
  <2>4. sessions' = [sessions EXCEPT ![s] = row] /\ sReq' = [sReq EXCEPT ![p] = r]
    BY <2>1
  <2> HIDE DEF row
  <2>5. /\ sessions' \in Seq(Session) /\ DOMAIN sessions' = DOMAIN sessions
        /\ sessions'[s] = row
        /\ \A t \in DOMAIN sessions \ {s} : sessions'[t] = sessions[t]
    BY <1>1, <2>3, <2>4
  <2>6. Kept(sessions, sessions')
    BY <2>3, <2>5 DEF Kept
  <2>7. \A t \in DOMAIN sessions' : sessions'[t].version <= account.version
    BY <2>3, <2>5 DEF SessionsInv
  <2>8. live \in SUBSET Nat
    BY <2>2
  <2>9. Holds(r, sessions', account'.version)
    BY <1>1, <1>3, <2>3, <2>5 DEF Holds, S!Idle
  <2> HIDE DEF live
  <2>10. r \in SessionRequest
    BY <2>2, <2>8, IdleSession DEF SessionRequest
  <2> HIDE DEF r
  <2> QED
    BY <1>1, <1>3, <2>4, <2>5, <2>6, <2>7, <2>9, <2>10, SessionsStep
<1>6. CASE S!EndMark(p)
  <2> DEFINE r == [sReq[p] EXCEPT !.pc = "end_deny"]
  <2>1. sReq[p].pc = "end_mark" /\ sReq' = [sReq EXCEPT ![p] = r]
    BY <1>6 DEF S!EndMark, S!At, S!Goto
  <2>2. sessions' = [s \in DOMAIN sessions |-> [sessions[s] EXCEPT !.revoked = TRUE]]
    BY <1>6 DEF S!EndMark, S!Sessions
  <2>3. \A s \in DOMAIN sessions : sessions[s] \in Session
    BY <1>1
  <2>4. \A s \in DOMAIN sessions :
          /\ sessions'[s] \in Session
          /\ sessions'[s].version = sessions[s].version
          /\ sessions'[s].revoked
    BY <2>2, <2>3 DEF Session
  <2>5. sessions' \in Seq(Session) /\ DOMAIN sessions' = DOMAIN sessions
    <3>1. DOMAIN sessions = 1 .. Len(sessions) /\ Len(sessions) \in Nat
      BY <1>1
    <3>2. sessions' \in [1 .. Len(sessions) -> Session]
      BY <2>2, <2>4, <3>1
    <3> QED
      BY <3>1, <3>2, SeqDef
  <2>6. Kept(sessions, sessions')
    BY <2>4, <2>5 DEF Kept
  <2>7. \A t \in DOMAIN sessions' : sessions'[t].version <= account.version
    BY <2>4, <2>5 DEF SessionsInv
  <2>8. r \in SessionRequest
    BY <1>2 DEF SessionRequest
  <2>9. Holds(r, sessions', account'.version)
    BY <1>2, <1>3, <2>1, <2>4, <2>5 DEF Holds, SessionRequest
  <2> HIDE DEF r
  <2> QED
    BY <1>1, <1>3, <2>1, <2>5, <2>6, <2>7, <2>8, <2>9, SessionsStep
<1> QED
  BY <1>4, <1>5, <1>6

\* Sessions that are ended: on the deny list now, or of a token version that is over.
LEMMA SessionsEnd ==
  ASSUME SessionsInv, NEW p \in Procs, S!LogoutDeny(p) \/ S!EndBump(p)
  PROVE  SessionsInv'
<1>1. account \in Account /\ account.version \in Nat /\ sessions \in Seq(Session)
  BY DEF SessionsInv, Account
<1>2. Holds(sReq[p], sessions, account.version)
  BY DEF SessionsInv
<1>3. sReq' = [sReq EXCEPT ![p] = S!Idle] /\ UNCHANGED sessions /\ denied \subseteq denied'
  BY DEF S!LogoutDeny, S!EndBump, S!Done
<1>4. account' \in Account /\ account.version <= account'.version
  BY <1>1 DEF S!LogoutDeny, S!EndBump, S!VersionAfter, Account
<1>5. \A s \in ended' : s \in ended \/ Over(s, sessions', account'.version, denied')
  <2>1. CASE S!LogoutDeny(p)
    BY <1>2, <1>3, <2>1 DEF S!LogoutDeny, S!At, Holds, Over
  <2>2. CASE S!EndBump(p)
    <3>1. account'.version = account.version + 1
      BY <1>1, <2>2 DEF S!EndBump, S!VersionAfter, Account
    <3>2. \A s \in sReq[p].there : s \in DOMAIN sessions /\ sessions[s].revoked
      BY <1>2, <2>2 DEF Holds, S!EndBump, S!At
    <3>3. \A s \in DOMAIN sessions : sessions[s].version < account'.version
      <4> SUFFICES ASSUME NEW s \in DOMAIN sessions
                   PROVE  sessions[s].version < account'.version
        OBVIOUS
      <4>1. sessions[s] \in Session /\ sessions[s].version <= account.version
        BY DEF SessionsInv
      <4> QED
        BY <1>1, <3>1, <4>1 DEF Session
    <3> QED
      BY <1>3, <2>2, <3>2, <3>3 DEF S!EndBump, Over
  <2> QED
    BY <2>1, <2>2
<1>6. Kept(sessions, sessions')
  BY <1>3 DEF Kept
<1>7. \A s \in DOMAIN sessions' : sessions'[s].version <= account'.version
  <2> SUFFICES ASSUME NEW s \in DOMAIN sessions
               PROVE  sessions[s].version <= account'.version
    BY <1>3
  <2>1. sessions[s] \in Session /\ sessions[s].version <= account.version
    BY DEF SessionsInv
  <2> QED
    BY <1>1, <1>4, <2>1 DEF Session, Account
<1>8. S!Idle \in SessionRequest /\ Holds(S!Idle, sessions', account'.version)
  BY <1>4, IdleSession, IdleHolds DEF Account
<1> QED
  BY <1>1, <1>3, <1>4, <1>5, <1>6, <1>7, <1>8, SessionsStep

\* No step of Desks leaves the invariant of the sessions.
LEMMA NextSessions == SessionsInv /\ [Next]_vars => SessionsInv'
<1> SUFFICES ASSUME SessionsInv, [Next]_vars PROVE SessionsInv'
  OBVIOUS
<1>1. S!Next \/ UNCHANGED S_vars
  BY DEF Next, Only, vars, S_vars
<1>2. CASE S!Next
  BY <1>2, SessionsBegin, SessionsGoOn, SessionsIssue, SessionsClose, SessionsEnd
  DEF S!Next, S!Step
<1>3. CASE UNCHANGED S_vars
  BY <1>3 DEF S_vars, SessionsInv
<1> QED
  BY <1>1, <1>2, <1>3

\* What a request has ended stays ended, whatever refreshes, sign-ins, crashes and failures
\* of Redis run beside it (auth.service.ts, revokeAllSessions and logout; auth.guard.ts).
THEOREM SessionsStayEnded == Spec => []EndedStaysEnded
<1>1. Init => SessionsInv
  BY InitSessions
<1>2. SessionsInv /\ [Next]_vars => SessionsInv'
  BY NextSessions
<1>3. SessionsInv => EndedStaysEnded
  <2> SUFFICES ASSUME SessionsInv, NEW s \in ended
               PROVE  ~S!Accepts(s) /\ sessions[s].revoked
    BY DEF EndedStaysEnded, S!EndedStaysEnded
  <2>1. Over(s, sessions, account.version, denied)
    BY DEF SessionsInv
  <2>2. sessions[s] \in Session /\ account \in Account
    BY <2>1 DEF Over, SessionsInv
  <2> QED
    BY <2>1, <2>2 DEF Over, S!Accepts, Session, Account
<1> QED
  BY <1>1, <1>2, <1>3, PTL DEF Spec

-----------------------------------------------------------------------------
(* One refresh token for each sign-in.                                     *)

\* A row whose refresh token can still be used.
Unspent(row) == ~row.revoked /\ row.next = 0

\* The sessions whose successor is there and not named yet.
Leaving(r) == {r[p].session : p \in {q \in Procs : r[q].pc = "refresh_link"}}

\* Of the rows rs, those that are leaving aside, one for each sign-in is unspent.
OneEach(rs, leaving) ==
  \A s, t \in DOMAIN rs \ leaving :
    Unspent(rs[s]) /\ Unspent(rs[t]) /\ rs[s].start = rs[t].start => s = t

\* One at a time, what is about to be refreshed is unspent, and one of a sign-in is.
HeldByOne ==
  /\ Alone(sReq)
  /\ \A p \in Procs :
       sReq[p].pc \in {"refresh_user", "refresh_issue"} => Unspent(sessions[sReq[p].session])
  /\ OneEach(sessions, Leaving(sReq))

HoldersInv ==
  /\ SessionsInv
  /\ \A s \in DOMAIN sessions : sessions[s].start <= Len(sessions)
  /\ width = 1 => HeldByOne

\* One at a time, a request begins when none is under way.
LEMMA SessionsFree ==
  ASSUME NEW p, S!Free(p), width = 1
  PROVE  AllIdle(sReq)
<1> DEFINE busy == {q \in Procs : sReq[q].pc # "idle"}
<1>1. S!Cardinality(busy) = Cardinality(busy)
  BY DEF S!Cardinality, Cardinality
<1>2. S!Cardinality(busy) < width
  BY DEF S!Free
<1>3. busy = {}
  BY <1>1, <1>2, FreeIsAlone
<1> QED
  BY <1>3 DEF AllIdle

\* So whoever takes a step, nobody else is under way.
LEMMA SessionsAlone ==
  ASSUME HoldersInv, width = 1, NEW p \in Procs, S!Free(p) \/ sReq[p].pc # "idle",
         NEW r \in SessionRequest, sReq' = [sReq EXCEPT ![p] = r]
  PROVE  /\ \A q \in Procs \ {p} : sReq[q].pc = "idle" /\ sReq'[q] = sReq[q]
         /\ sReq'[p] = r /\ Alone(sReq')
         /\ Leaving(sReq) = IF sReq[p].pc = "refresh_link" THEN {sReq[p].session} ELSE {}
         /\ Leaving(sReq') = IF r.pc = "refresh_link" THEN {r.session} ELSE {}
<1>1. sReq \in [Procs -> SessionRequest]
  BY DEF HoldersInv, SessionsInv
<1>2. \A q \in Procs \ {p} : sReq[q].pc = "idle"
  BY SessionsFree DEF HoldersInv, HeldByOne, Alone, AllIdle
<1>3. sReq'[p] = r /\ \A q \in Procs \ {p} : sReq'[q] = sReq[q]
  BY <1>1
<1>4. Alone(sReq')
  BY <1>2, <1>3 DEF Alone
<1>5. Leaving(sReq) = IF sReq[p].pc = "refresh_link" THEN {sReq[p].session} ELSE {}
  BY <1>2 DEF Leaving
<1>6. Leaving(sReq') = IF r.pc = "refresh_link" THEN {r.session} ELSE {}
  BY <1>2, <1>3 DEF Leaving
<1> QED
  BY <1>2, <1>3, <1>4, <1>5, <1>6

\* An action of a request that is refreshing nothing yet adds no unspent row.
LEMMA HoldersWait ==
  ASSUME HoldersInv, SessionsInv', NEW p \in Procs, S!Free(p) \/ sReq[p].pc # "idle",
         NEW r \in SessionRequest, sReq' = [sReq EXCEPT ![p] = r], UNCHANGED width,
         DOMAIN sessions' = DOMAIN sessions, Len(sessions') = Len(sessions),
         \A s \in DOMAIN sessions :
           /\ sessions'[s].start = sessions[s].start
           /\ Unspent(sessions'[s]) => Unspent(sessions[s]),
         width = 1 =>
           /\ sReq[p].pc # "refresh_link" /\ r.pc # "refresh_link"
           /\ r.pc \in {"refresh_user", "refresh_issue"} => Unspent(sessions'[r.session])
  PROVE  HoldersInv'
<1>1. \A s \in DOMAIN sessions' : sessions'[s].start <= Len(sessions')
  BY DEF HoldersInv
<1>2. ASSUME width = 1 PROVE HeldByOne'
  <2>1. /\ \A q \in Procs \ {p} : sReq[q].pc = "idle" /\ sReq'[q] = sReq[q]
        /\ sReq'[p] = r /\ Alone(sReq') /\ Leaving(sReq) = {} /\ Leaving(sReq') = {}
    BY <1>2, SessionsAlone
  <2>2. OneEach(sessions', {})
    BY <1>2, <2>1 DEF HoldersInv, HeldByOne, OneEach
  <2> QED
    BY <1>2, <2>1, <2>2 DEF HeldByOne
<1> QED
  BY <1>1, <1>2 DEF HoldersInv

\* A step of a request changes what that request holds, and no other.
LEMMA OneRequest ==
  ASSUME SessionsInv, SessionsInv', NEW p \in Procs, S!Step(p)
  PROVE  \E r \in SessionRequest : r = sReq'[p] /\ sReq' = [sReq EXCEPT ![p] = r]
<1>1. sReq \in [Procs -> SessionRequest] /\ sReq' \in [Procs -> SessionRequest]
  BY DEF SessionsInv
<1>2. \A q \in Procs \ {p} : sReq'[q] = sReq[q]
  BY <1>1 DEF S!Step, S!Login, S!LoginIssue, S!RefreshRead, S!RefreshUser, S!RefreshIssue,
     S!RefreshLink, S!LogoutMark, S!LogoutDeny, S!ForceLogout, S!SetActive, S!EndSelect,
     S!EndMark, S!EndDeny, S!EndBump, S!DenyFails, S!Lost, S!Goto, S!Done
<1>3. sReq' = [sReq EXCEPT ![p] = sReq'[p]]
  BY <1>1, <1>2
<1> QED
  BY <1>1, <1>3

\* The requests that begin, read on, revoke or end.
LEMMA HoldersRead ==
  ASSUME HoldersInv, SessionsInv', NEW p \in Procs,
         \/ S!Login(p) \/ S!RefreshRead(p) \/ S!ForceLogout(p) \/ S!SetActive(p)
         \/ S!RefreshUser(p) \/ S!EndSelect(p) \/ S!EndDeny(p) \/ S!EndBump(p)
         \/ S!LogoutDeny(p) \/ S!DenyFails(p)
  PROVE  HoldersInv'
<1>1. SessionsInv /\ sReq[p] \in SessionRequest
  BY DEF HoldersInv, SessionsInv
<1>2. PICK r \in SessionRequest : r = sReq'[p] /\ sReq' = [sReq EXCEPT ![p] = r]
  BY <1>1, OneRequest DEF S!Step
<1>3. S!Free(p) \/ sReq[p].pc # "idle"
  BY DEF S!Login, S!RefreshRead, S!ForceLogout, S!SetActive, S!RefreshUser, S!EndSelect,
     S!EndDeny, S!EndBump, S!LogoutDeny, S!DenyFails, S!At
<1>4. UNCHANGED <<sessions, width>>
  BY DEF S!Login, S!RefreshRead, S!ForceLogout, S!SetActive, S!RefreshUser, S!EndSelect,
     S!EndDeny, S!EndBump, S!LogoutDeny, S!DenyFails
<1>5. sReq[p].pc # "refresh_link"
  BY DEF S!Login, S!RefreshRead, S!ForceLogout, S!SetActive, S!RefreshUser, S!EndSelect,
     S!EndDeny, S!EndBump, S!LogoutDeny, S!DenyFails, S!At, S!Free
<1>6. ASSUME width = 1
      PROVE  /\ r.pc # "refresh_link"
             /\ r.pc \in {"refresh_user", "refresh_issue"} => Unspent(sessions[r.session])
  <2>1. sReq \in [Procs -> SessionRequest]
    BY <1>1 DEF SessionsInv
  <2>2. CASE S!RefreshRead(p)
    <3>1. PICK s \in S!Sessions :
            r = [S!Idle EXCEPT !.pc = IF S!Spent(s) THEN "end_select" ELSE "refresh_user",
                               !.session = s]
      BY <1>2, <2>1, <2>2 DEF S!RefreshRead
    <3>2. r.pc = (IF S!Spent(s) THEN "end_select" ELSE "refresh_user") /\ r.session = s
      BY <3>1 DEF S!Idle
    <3>3. ~S!Spent(s) => Unspent(sessions[s])
      BY DEF S!Spent, Unspent
    <3> QED
      BY <3>2, <3>3
  <2>3. CASE S!RefreshUser(p)
    <3>1. Unspent(sessions[sReq[p].session])
      BY <1>6, <2>3 DEF HoldersInv, HeldByOne, S!RefreshUser, S!At
    <3>2. CASE account.active
      <4>1. r.pc = "refresh_issue" /\ r.session = sReq[p].session
        BY <1>1, <1>2, <2>1, <2>3, <3>2 DEF S!RefreshUser, SessionRequest
      <4> QED
        BY <3>1, <4>1
    <3>3. CASE ~account.active
      BY <1>2, <2>1, <2>3, <3>3, IdleSession DEF S!RefreshUser
    <3> QED
      BY <3>2, <3>3
  <2>4. CASE S!Login(p) \/ S!ForceLogout(p) \/ S!SetActive(p)
    <3>1. r.pc \in {"login_issue", "end_select", "idle"}
      <4>1. CASE S!Login(p)
        BY <1>2, <2>1, <4>1 DEF S!Login, S!Idle
      <4>2. CASE S!ForceLogout(p)
        BY <1>2, <2>1, <4>2 DEF S!ForceLogout, S!Idle
      <4>3. CASE S!SetActive(p)
        BY <1>2, <2>1, <4>3 DEF S!SetActive, S!Idle
      <4> QED
        BY <2>4, <4>1, <4>2, <4>3
    <3> QED
      BY <3>1
  <2>5. CASE S!EndSelect(p) \/ S!EndDeny(p)
    <3>1. r.pc \in {"end_mark", "end_bump"}
      BY <1>1, <1>2, <2>1, <2>5 DEF S!EndSelect, S!EndDeny, S!Goto, SessionRequest
    <3> QED
      BY <3>1
  <2>6. CASE S!EndBump(p) \/ S!LogoutDeny(p) \/ S!DenyFails(p)
    BY <1>2, <2>1, <2>6, IdleSession DEF S!EndBump, S!LogoutDeny, S!DenyFails, S!Done
  <2> QED
    BY <2>2, <2>3, <2>4, <2>5, <2>6
<1> QED
  BY <1>2, <1>3, <1>4, <1>5, <1>6, HoldersWait

\* Rows that are revoked are not unspent any more.
LEMMA HoldersRevoke ==
  ASSUME HoldersInv, SessionsInv', NEW p \in Procs, S!LogoutMark(p) \/ S!EndMark(p)
  PROVE  HoldersInv'
<1>1. SessionsInv /\ sReq \in [Procs -> SessionRequest] /\ sessions \in Seq(Session)
  BY DEF HoldersInv, SessionsInv
<1>2. PICK r \in SessionRequest : r = sReq'[p] /\ sReq' = [sReq EXCEPT ![p] = r]
  BY <1>1, OneRequest DEF S!Step
<1>3. (S!Free(p) \/ sReq[p].pc # "idle") /\ UNCHANGED width
  BY DEF S!LogoutMark, S!EndMark, S!At
<1>4. sReq[p].pc # "refresh_link"
  BY DEF S!LogoutMark, S!EndMark, S!At, S!Free
<1>5. r.pc \in {"logout_deny", "end_deny"}
  <2>1. CASE S!LogoutMark(p)
    BY <1>1, <1>2, <2>1 DEF S!LogoutMark, S!Idle
  <2>2. CASE S!EndMark(p)
    BY <1>1, <1>2, <2>2 DEF S!EndMark, S!Goto, SessionRequest
  <2> QED
    BY <2>1, <2>2
<1>6. DOMAIN sessions' = DOMAIN sessions
  BY DEF S!LogoutMark, S!EndMark, S!Sessions
<1>7. Len(sessions') = Len(sessions)
  <2>1. sessions' \in Seq(Session)
    BY DEF SessionsInv
  <2> QED
    BY <1>1, <1>6, <2>1
<1>8. \A s \in DOMAIN sessions :
        /\ sessions'[s].start = sessions[s].start
        /\ Unspent(sessions'[s]) => Unspent(sessions[s])
  <2> SUFFICES ASSUME NEW s \in DOMAIN sessions
               PROVE  /\ sessions'[s].start = sessions[s].start
                      /\ Unspent(sessions'[s]) => Unspent(sessions[s])
    OBVIOUS
  <2>1. sessions[s] \in Session
    BY <1>1
  <2>2. sessions'[s] \in {sessions[s], [sessions[s] EXCEPT !.revoked = TRUE]}
    BY DEF S!LogoutMark, S!EndMark, S!Sessions
  <2> QED
    BY <2>1, <2>2 DEF Session, Unspent
<1> QED
  BY <1>2, <1>3, <1>4, <1>5, <1>6, <1>7, <1>8, HoldersWait

\* A session more: the first of a sign-in, or the successor of one that is leaving.
LEMMA HoldersIssue ==
  ASSUME HoldersInv, SessionsInv', NEW p \in Procs, S!LoginIssue(p) \/ S!RefreshIssue(p)
  PROVE  HoldersInv'
<1>1. /\ SessionsInv /\ sReq \in [Procs -> SessionRequest] /\ sessions \in Seq(Session)
      /\ sReq[p] \in SessionRequest
  BY DEF HoldersInv, SessionsInv
<1>2. PICK r \in SessionRequest : r = sReq'[p] /\ sReq' = [sReq EXCEPT ![p] = r]
  BY <1>1, OneRequest DEF S!Step
<1>3. sReq[p].pc \notin {"idle", "refresh_link"} /\ UNCHANGED width
  BY DEF S!LoginIssue, S!RefreshIssue, S!At
<1> DEFINE n == Len(sessions) + 1
<1>4. PICK row :
        /\ sessions' = Append(sessions, row)
        /\ row.start = IF sReq[p].pc = "login_issue" THEN n
                       ELSE sessions[sReq[p].session].start
        /\ row.next = 0 /\ ~row.revoked
  BY DEF S!LoginIssue, S!RefreshIssue, S!Issued, S!At
<1>5. /\ Len(sessions') = n /\ n \in Nat
      /\ DOMAIN sessions' = 1 .. n
      /\ DOMAIN sessions = 1 .. Len(sessions) /\ Len(sessions) \in Nat
      /\ sessions'[n] = row /\ n \notin DOMAIN sessions
      /\ \A s \in DOMAIN sessions : sessions'[s] = sessions[s] /\ sessions[s] \in Session
  BY <1>1, <1>4
<1>6. \A s \in DOMAIN sessions : sessions[s].start \in Nat /\ sessions[s].start <= Len(sessions)
  BY <1>5 DEF HoldersInv, Session
<1>7. sReq[p].pc = "refresh_issue" => sReq[p].session \in DOMAIN sessions
  BY DEF HoldersInv, SessionsInv, Holds
<1>8. sReq[p].pc \in {"login_issue", "refresh_issue"}
  BY DEF S!LoginIssue, S!RefreshIssue, S!At
<1> HIDE DEF n
<1>9. row.start \in Nat /\ row.start <= n
  <2>1. CASE sReq[p].pc = "login_issue"
    BY <1>4, <1>5, <2>1
  <2>2. CASE sReq[p].pc = "refresh_issue"
    BY <1>4, <1>5, <1>6, <1>7, <2>2 DEF n
  <2> QED
    BY <1>8, <2>1, <2>2
<1>10. \A s \in DOMAIN sessions' : sessions'[s].start <= Len(sessions')
  <2> SUFFICES ASSUME NEW s \in DOMAIN sessions' PROVE sessions'[s].start <= n
    BY <1>5
  <2>1. CASE s = n
    BY <1>5, <1>9, <2>1
  <2>2. CASE s # n
    <3>1. s \in DOMAIN sessions
      BY <1>5, <2>2 DEF n
    <3> QED
      BY <1>5, <1>6, <3>1 DEF n
  <2> QED
    BY <2>1, <2>2
<1>11. ASSUME width = 1 PROVE HeldByOne'
  <2>1. /\ \A q \in Procs \ {p} : sReq[q].pc = "idle" /\ sReq'[q] = sReq[q]
        /\ sReq'[p] = r /\ Alone(sReq') /\ Leaving(sReq) = {}
        /\ Leaving(sReq') = IF r.pc = "refresh_link" THEN {r.session} ELSE {}
    BY <1>2, <1>3, <1>11, SessionsAlone
  <2>2. OneEach(sessions, {})
    BY <1>11, <2>1 DEF HoldersInv, HeldByOne
  <2>3. DOMAIN sessions' = DOMAIN sessions \cup {n}
    BY <1>5 DEF n
  <2>4. CASE S!LoginIssue(p)
    <3>1. r.pc = "idle"
      BY <1>1, <1>2, <2>4, IdleSession DEF S!LoginIssue, S!Done
    <3>2. \A s \in DOMAIN sessions : sessions[s].start # row.start
      <4>1. row.start = n
        BY <1>4, <2>4 DEF S!LoginIssue, S!At
      <4> QED
        BY <1>5, <1>6, <4>1 DEF n
    <3>3. OneEach(sessions', {})
      BY <1>5, <2>2, <2>3, <3>2 DEF OneEach
    <3> QED
      BY <2>1, <3>1, <3>3 DEF HeldByOne
  <2>5. CASE S!RefreshIssue(p)
    <3> DEFINE old == sReq[p].session
    <3>1. r.pc = "refresh_link" /\ r.session = old
      BY <1>1, <1>2, <2>5 DEF S!RefreshIssue, SessionRequest
    <3>2. sReq[p].pc = "refresh_issue"
      BY <2>5 DEF S!RefreshIssue, S!At
    <3>3. Unspent(sessions[old]) /\ old \in DOMAIN sessions
      BY <1>7, <1>11, <3>2 DEF HoldersInv, HeldByOne
    <3>4. row.start = sessions[old].start
      BY <1>4, <3>2
    <3> HIDE DEF old
    <3>5. \A s \in DOMAIN sessions \ {old} :
            ~(Unspent(sessions[s]) /\ sessions[s].start = row.start)
      BY <2>2, <3>3, <3>4 DEF OneEach
    <3>6. OneEach(sessions', {old})
      BY <1>5, <2>2, <2>3, <3>5 DEF OneEach
    <3> QED
      BY <2>1, <3>1, <3>6 DEF HeldByOne
  <2> QED
    BY <2>4, <2>5
<1> QED
  BY <1>3, <1>10, <1>11 DEF HoldersInv

\* The session that was leaving names its successor, and is spent.
LEMMA HoldersLink ==
  ASSUME HoldersInv, SessionsInv', NEW p \in Procs, S!RefreshLink(p)
  PROVE  HoldersInv'
<1>1. /\ SessionsInv /\ sReq \in [Procs -> SessionRequest] /\ sessions \in Seq(Session)
      /\ sReq[p] \in SessionRequest /\ Holds(sReq[p], sessions, account.version)
  BY DEF HoldersInv, SessionsInv
<1> DEFINE s == sReq[p].session
<1>2. PICK r \in SessionRequest : r = sReq'[p] /\ sReq' = [sReq EXCEPT ![p] = r]
  BY <1>1, OneRequest DEF S!Step
<1>3. sReq[p].pc = "refresh_link" /\ UNCHANGED width
  BY DEF S!RefreshLink, S!At
<1>4. r = S!Idle
  BY <1>1, <1>2 DEF S!RefreshLink, S!Done
<1>5. s \in DOMAIN sessions /\ sessions[s] \in Session
  BY <1>1, <1>3 DEF Holds
<1>6. PICK next \in sReq[p].live :
        sessions' = [sessions EXCEPT ![s] = [sessions[s] EXCEPT !.next = next]]
  BY DEF S!RefreshLink, S!Replaced
<1>7. next # 0
  BY <1>1, <1>6 DEF Holds
<1> DEFINE row == [sessions[s] EXCEPT !.next = next]
<1>8. row.start = sessions[s].start /\ ~Unspent(row)
  BY <1>5, <1>7 DEF Session, Unspent
<1>9. sessions' = [sessions EXCEPT ![s] = row]
  BY <1>6
<1> HIDE DEF row, s
<1>10. /\ DOMAIN sessions' = DOMAIN sessions
       /\ sessions'[s] = row
       /\ \A t \in DOMAIN sessions \ {s} : sessions'[t] = sessions[t]
  BY <1>5, <1>9
<1>11. Len(sessions') = Len(sessions)
  <2>1. sessions' \in Seq(Session)
    BY DEF SessionsInv
  <2> QED
    BY <1>1, <1>10, <2>1
<1>12. \A t \in DOMAIN sessions' : sessions'[t].start <= Len(sessions')
  BY <1>5, <1>8, <1>10, <1>11 DEF HoldersInv
<1>13. ASSUME width = 1 PROVE HeldByOne'
  <2>1. /\ \A q \in Procs \ {p} : sReq[q].pc = "idle" /\ sReq'[q] = sReq[q]
        /\ sReq'[p] = r /\ Alone(sReq') /\ Leaving(sReq) = {s} /\ Leaving(sReq') = {}
    BY <1>2, <1>3, <1>4, <1>13, IdleSession, SessionsAlone DEF s
  <2>2. OneEach(sessions, {s})
    BY <1>13, <2>1 DEF HoldersInv, HeldByOne
  <2>3. OneEach(sessions', {})
    BY <1>8, <1>10, <2>2 DEF OneEach
  <2> QED
    BY <1>4, <2>1, <2>3, IdleSession DEF HeldByOne
<1> QED
  BY <1>3, <1>12, <1>13 DEF HoldersInv

\* A request is lost where there are several, and the rows stay as they are.
LEMMA HoldersLost ==
  ASSUME HoldersInv, SessionsInv', NEW p \in Procs, S!Lost(p)
  PROVE  HoldersInv'
BY DEF HoldersInv, S!Lost

\* There is no session yet.
LEMMA InitHolders == Init => HoldersInv
<1> SUFFICES ASSUME Init PROVE HoldersInv
  OBVIOUS
<1>1. sessions = <<>> /\ sReq = [p \in Procs |-> S!Idle]
  BY DEF Init, S!Init
<1>2. \A p \in Procs : sReq[p].pc = "idle"
  BY <1>1, IdleSession
<1> QED
  BY <1>1, <1>2, InitSessions DEF HoldersInv, HeldByOne, OneEach, Alone

\* No step of Desks leaves the invariant of the holders.
LEMMA NextHolders == HoldersInv /\ [Next]_vars => HoldersInv'
<1> SUFFICES ASSUME HoldersInv, [Next]_vars PROVE HoldersInv'
  OBVIOUS
<1>1. SessionsInv'
  BY NextSessions DEF HoldersInv
<1>2. UNCHANGED width
  BY WidthStays
<1>3. S!Next \/ UNCHANGED <<sessions, sReq>>
  BY DEF Next, Only, vars, S_vars
<1>4. CASE S!Next
  BY <1>1, <1>4, HoldersRead, HoldersRevoke, HoldersIssue, HoldersLink, HoldersLost
  DEF S!Next, S!Step
<1>5. CASE UNCHANGED <<sessions, sReq>>
  BY <1>1, <1>2, <1>5 DEF HoldersInv, HeldByOne, Alone
<1> QED
  BY <1>3, <1>4, <1>5

\* With nothing under way, one session of a sign-in at most is unspent.
LEMMA HoldersHold == HoldersInv => S!OneHolder
<1> SUFFICES ASSUME HoldersInv, S!Quiet PROVE OneEach(sessions, {})
  BY DEF S!OneHolder, S!Sessions, S!Spent, OneEach, Unspent
<1>1. HeldByOne
  BY DEF HoldersInv, S!Quiet
<1>2. Leaving(sReq) = {}
  BY DEF S!Quiet, Leaving
<1> QED
  BY <1>1, <1>2 DEF HeldByOne

-----------------------------------------------------------------------------
(* The web application.                                                    *)

ClientSession == [replaced : BOOLEAN, revoked : BOOLEAN, lapsed : BOOLEAN]

ClientQuery ==
  [pc : {"idle", "sent", "refused", "wait", "ask", "answer"}, tab : Procs \cup {"none"},
   session : Nat, retry : BOOLEAN]

ClientTypes ==
  /\ tab \in [Procs -> {"closed", "in", "left", "expired"}]
  /\ issued \in Seq(ClientSession)
  /\ jar \in 0 .. Len(issued)
  /\ query \in [Queries -> ClientQuery]
  /\ \A q \in Queries : query[q].session \in 0 .. Len(issued)
  /\ \A q \in Queries : query[q].pc # "idle" => query[q].tab \in Procs

\* A session whose refresh token was not presented and is not revoked.
Usable(s) == ~issued[s].replaced /\ ~issued[s].revoked

\* One request refreshes, with what the browser holds, which nobody has used; and its answer
\* brings what nobody has used.
OneRefreshes ==
  /\ \A q, r \in Queries :
       query[q].pc \in {"ask", "answer"} /\ query[r].pc \in {"ask", "answer"} => q = r
  /\ \A q \in Queries : query[q].pc = "ask" => query[q].session = jar
  /\ \A q \in Queries : query[q].pc = "answer" =>
       /\ jar = 0 <=> query[q].session = 0
       /\ query[q].session # 0 => Usable(query[q].session)
  /\ jar # 0 /\ (\A q \in Queries : query[q].pc # "answer") => Usable(jar)

\* Nobody is taken for expired, and who is in has a session.
ClientIn ==
  /\ ~reused
  /\ \A t \in Procs : tab[t] # "expired"
  /\ \A t \in Procs : tab[t] = "in" => jar # 0

ClientInv == ClientTypes /\ (~pardoned => OneRefreshes /\ ClientIn)

\* A query that is put back to idle is nobody's.
LEMMA IdleQuery == C!Idle \in ClientQuery /\ C!Idle.pc = "idle" /\ C!Idle.session = 0
BY DEF C!Idle, C!NoTab, ClientQuery

\* One that is sent carries what it was given.
LEMMA SentQuery ==
  ASSUME NEW t \in Procs, NEW s \in Nat, NEW retry \in BOOLEAN
  PROVE  /\ C!Sent(t, s, retry) \in ClientQuery /\ C!Sent(t, s, retry).pc = "sent"
         /\ C!Sent(t, s, retry).session = s /\ C!Sent(t, s, retry).tab = t
BY DEF C!Sent, ClientQuery

\* Where no tab refreshes, no query does.
LEMMA NoneRefreshes ==
  ASSUME ClientTypes, ~C!AnyRefreshing(Procs)
  PROVE  \A q \in Queries : query[q].pc \notin {"ask", "answer"}
BY DEF ClientTypes, C!AnyRefreshing, C!Refreshing

\* A session more: what the browser holds and the queries carry is there still.
LEMMA ClientFresh ==
  ASSUME NEW rs \in Seq(ClientSession)
  PROVE  /\ Append(rs, C!Fresh) \in Seq(ClientSession)
         /\ Len(Append(rs, C!Fresh)) = Len(rs) + 1 /\ Len(rs) \in Nat
         /\ Append(rs, C!Fresh)[Len(rs) + 1] = C!Fresh
         /\ \A s \in 1 .. Len(rs) : Append(rs, C!Fresh)[s] = rs[s]
<1>1. C!Fresh \in ClientSession
  BY DEF C!Fresh, ClientSession
<1> QED
  BY <1>1

\* A page that is loaded drops its tab's queries, none of which may be refreshing.
LEMMA ClientPageLoad ==
  ASSUME ClientInv, ~pardoned, NEW t \in Procs, C!PageLoad(t)
  PROVE  ClientInv'
<1>1. ClientTypes /\ OneRefreshes /\ ClientIn
  BY DEF ClientInv
<1>2. UNCHANGED <<jar, issued, reused>>
  BY DEF C!PageLoad
<1>3. query' = [q \in Queries |-> IF query[q].tab = t THEN C!Idle ELSE query[q]]
  BY DEF C!PageLoad
<1>4. \A q \in Queries : query'[q] = IF query[q].tab = t THEN C!Idle ELSE query[q]
  BY <1>3
<1>5. PICK shows \in {"left", "in", "expired"} :
        /\ tab' = [tab EXCEPT ![t] = shows]
        /\ shows = IF jar = 0 THEN "left" ELSE IF C!Accepts(jar) THEN "in" ELSE "expired"
  BY DEF C!PageLoad
<1>6. ClientTypes'
  <2>1. query' \in [Queries -> ClientQuery]
    BY <1>1, <1>3, IdleQuery DEF ClientTypes
  <2>2. tab' \in [Procs -> {"closed", "in", "left", "expired"}]
    BY <1>1, <1>5 DEF ClientTypes
  <2> QED
    BY <1>1, <1>2, <1>4, <2>1, <2>2, IdleQuery DEF ClientTypes
<1>7. ASSUME ~pardoned' PROVE OneRefreshes' /\ ClientIn'
  <2>1. ~C!Refreshing(t) /\ ~(jar # 0 /\ ~C!Accepts(jar))
    BY <1>7 DEF C!PageLoad
  <2>2. \A q \in Queries : query[q].pc \in {"ask", "answer"} => query'[q] = query[q]
    BY <1>4, <2>1 DEF C!Refreshing
  <2>3. \A q \in Queries : query'[q].pc \in {"ask", "answer"} => query'[q] = query[q]
    BY <1>4, IdleQuery
  <2>4. OneRefreshes'
    BY <1>1, <1>2, <2>2, <2>3 DEF OneRefreshes, Usable
  <2>5. tab'[t] = shows /\ \A u \in Procs \ {t} : tab'[u] = tab[u]
    BY <1>1, <1>5 DEF ClientTypes
  <2>6. ClientIn'
    BY <1>1, <1>2, <1>5, <2>1, <2>5 DEF ClientIn
  <2> QED
    BY <2>4, <2>6
<1> QED
  BY <1>6, <1>7 DEF ClientInv

\* A sign-in brings a session nobody has used.
LEMMA ClientSignIn ==
  ASSUME ClientInv, ~pardoned, NEW t \in Procs, C!SignIn(t)
  PROVE  ClientInv'
<1>1. ClientTypes /\ OneRefreshes /\ ClientIn
  BY DEF ClientInv
<1>2. /\ issued' = Append(issued, C!Fresh) /\ jar' = Len(issued) + 1
      /\ tab' = [tab EXCEPT ![t] = "in"] /\ UNCHANGED <<query, reused>>
  BY DEF C!SignIn
<1>3. issued' \in Seq(ClientSession) /\ Len(issued') = Len(issued) + 1 /\ Len(issued) \in Nat
      /\ issued'[Len(issued) + 1] = C!Fresh
  BY <1>1, <1>2, ClientFresh DEF ClientTypes
<1>4. ClientTypes'
  BY <1>1, <1>2, <1>3 DEF ClientTypes
<1>5. ASSUME ~pardoned' PROVE OneRefreshes' /\ ClientIn'
  <2>1. \A q \in Queries : query'[q].pc \notin {"ask", "answer"}
    BY <1>1, <1>2, <1>5, NoneRefreshes DEF C!SignIn
  <2>2. Usable(jar)'
    BY <1>2, <1>3 DEF Usable, C!Fresh
  <2>3. OneRefreshes'
    BY <2>1, <2>2 DEF OneRefreshes
  <2>4. jar' # 0
    BY <1>2, <1>3
  <2>5. ClientIn'
    BY <1>1, <1>2, <2>4 DEF ClientIn, ClientTypes
  <2> QED
    BY <2>3, <2>5
<1> QED
  BY <1>4, <1>5 DEF ClientInv

\* A sign-out leaves no tab in, unless another is.
LEMMA ClientSignOut ==
  ASSUME ClientInv, ~pardoned, NEW t \in Procs, C!SignOut(t)
  PROVE  ClientInv'
<1>1. ClientTypes /\ OneRefreshes /\ ClientIn
  BY DEF ClientInv
<1>2. tab' = [tab EXCEPT ![t] = "left"] /\ UNCHANGED <<query, reused>>
  BY DEF C!SignOut
<1>3. \/ /\ C!Accepts(jar) /\ issued' = [issued EXCEPT ![jar].revoked = TRUE] /\ jar' = 0
      \/ UNCHANGED <<issued, jar>>
  BY DEF C!SignOut
<1>4. issued' \in Seq(ClientSession) /\ Len(issued') = Len(issued)
  <2>1. CASE UNCHANGED <<issued, jar>>
    BY <1>1, <2>1 DEF ClientTypes
  <2>2. CASE C!Accepts(jar) /\ issued' = [issued EXCEPT ![jar].revoked = TRUE]
    <3> DEFINE row == [issued[jar] EXCEPT !.revoked = TRUE]
    <3>1. jar \in 1 .. Len(issued) /\ issued \in Seq(ClientSession)
      BY <1>1, <2>2 DEF ClientTypes, C!Accepts
    <3>2. issued[jar] \in ClientSession
      BY <3>1
    <3>3. row \in ClientSession
      BY <3>2 DEF ClientSession
    <3>4. issued' = [issued EXCEPT ![jar] = row]
      BY <2>2
    <3> HIDE DEF row
    <3> QED
      BY <3>1, <3>3, <3>4
  <2> QED
    BY <1>3, <2>1, <2>2
<1>5. jar' \in 0 .. Len(issued')
  BY <1>1, <1>3, <1>4 DEF ClientTypes
<1>6. ClientTypes'
  BY <1>1, <1>2, <1>4, <1>5 DEF ClientTypes
<1>7. ASSUME ~pardoned' PROVE OneRefreshes' /\ ClientIn'
  <2>1. ~C!AnyRefreshing(Procs) /\ \A u \in Procs \ {t} : tab[u] # "in"
    BY <1>7 DEF C!SignOut, C!Others
  <2>2. \A q \in Queries : query[q].pc \notin {"ask", "answer"}
    BY <1>1, <2>1, NoneRefreshes
  <2>3. jar' # 0 => UNCHANGED <<issued, jar>>
    BY <1>3
  <2>4. OneRefreshes'
    BY <1>1, <1>2, <2>2, <2>3 DEF OneRefreshes, Usable
  <2>5. ClientIn'
    BY <1>1, <1>2, <2>1 DEF ClientIn, ClientTypes
  <2> QED
    BY <2>4, <2>5
<1> QED
  BY <1>6, <1>7 DEF ClientInv

\* A query that goes on without refreshing: what refreshes, and the tabs, stay as they are.
LEMMA ClientGoesOn ==
  ASSUME ClientInv, ~pardoned, NEW q \in Queries, NEW r \in ClientQuery,
         query' = [query EXCEPT ![q] = r],
         query[q].pc \notin {"ask", "answer"}, r.pc \notin {"ask", "answer"},
         r.session \in 0 .. Len(issued), r.pc # "idle" => r.tab \in Procs,
         UNCHANGED <<tab, jar, issued, reused>>
  PROVE  ClientInv'
<1>1. ClientTypes /\ OneRefreshes /\ ClientIn
  BY DEF ClientInv
<1>2. query' \in [Queries -> ClientQuery] /\ query'[q] = r
      /\ \A s \in Queries \ {q} : query'[s] = query[s]
  BY <1>1 DEF ClientTypes
<1>3. ClientTypes'
  BY <1>1, <1>2 DEF ClientTypes
<1>4. OneRefreshes'
  BY <1>1, <1>2 DEF OneRefreshes, Usable
<1>5. ClientIn'
  BY <1>1 DEF ClientIn
<1> QED
  BY <1>3, <1>4, <1>5 DEF ClientInv

\* A query is sent or answered.
LEMMA ClientAsk ==
  ASSUME ClientInv, ~pardoned, NEW q \in Queries, C!Ask(q) \/ C!Serve(q)
  PROVE  ClientInv'
<1>1. ClientTypes /\ query[q] \in ClientQuery
  BY DEF ClientInv, ClientTypes
<1>2. UNCHANGED <<tab, jar, issued, reused>> /\ query[q].pc \notin {"ask", "answer"}
  BY DEF C!Ask, C!Serve, C!At
<1>3. CASE C!Ask(q)
  <2>1. PICK t \in Procs : query' = [query EXCEPT ![q] = C!Sent(t, jar, FALSE)]
    BY <1>3 DEF C!Ask
  <2>2. jar \in Nat /\ jar \in 0 .. Len(issued)
    BY <1>1 DEF ClientTypes
  <2> DEFINE r == C!Sent(t, jar, FALSE)
  <2>3. r \in ClientQuery /\ r.pc = "sent" /\ r.session = jar /\ r.tab = t
    BY <2>2, SentQuery
  <2>4. query' = [query EXCEPT ![q] = r]
    BY <2>1
  <2> HIDE DEF r
  <2> QED
    BY <1>2, <2>2, <2>3, <2>4, ClientGoesOn
<1>4. CASE C!Serve(q)
  <2> DEFINE r == [query[q] EXCEPT !.pc = "refused"]
  <2>1. query' = [query EXCEPT ![q] = C!Idle] \/ query' = [query EXCEPT ![q] = r]
    BY <1>1, <1>4 DEF C!Serve, ClientTypes
  <2>2. r \in ClientQuery /\ r.pc = "refused" /\ r.session = query[q].session
        /\ r.tab = query[q].tab
    BY <1>1 DEF ClientQuery
  <2>3. query[q].session \in 0 .. Len(issued) /\ query[q].tab \in Procs
    BY <1>1, <1>4 DEF ClientTypes, C!Serve, C!At
  <2> HIDE DEF r
  <2>4. C!Idle.session \in 0 .. Len(issued)
    BY <2>3, IdleQuery
  <2>5. CASE query' = [query EXCEPT ![q] = C!Idle]
    BY <1>2, <2>4, <2>5, IdleQuery, ClientGoesOn
  <2>6. CASE query' = [query EXCEPT ![q] = r]
    BY <1>2, <2>2, <2>3, <2>6, ClientGoesOn
  <2> QED
    BY <2>1, <2>5, <2>6
<1> QED
  BY <1>3, <1>4

\* A query that was refused waits for the refresh of its tab, or begins one where no tab
\* refreshes.
LEMMA ClientRefused ==
  ASSUME ClientInv, ~pardoned, NEW q \in Queries, C!Refused(q)
  PROVE  ClientInv'
<1>1. ClientTypes /\ OneRefreshes /\ ClientIn /\ query[q] \in ClientQuery
  BY DEF ClientInv, ClientTypes
<1>2. UNCHANGED <<tab, jar, issued, reused>> /\ query[q].pc = "refused"
  BY DEF C!Refused, C!At
<1>3. query[q].session \in 0 .. Len(issued) /\ query[q].tab \in Procs
      /\ jar \in 0 .. Len(issued) /\ jar \in Nat
  BY <1>1, <1>2 DEF ClientTypes
<1>4. CASE C!Joins(q)
  <2> DEFINE r == [query[q] EXCEPT !.pc = "wait"]
  <2>1. query' = [query EXCEPT ![q] = r]
    BY <1>1, <1>4 DEF C!Refused, ClientTypes
  <2>2. r \in ClientQuery /\ r.pc = "wait" /\ r.session = query[q].session
        /\ r.tab = query[q].tab
    BY <1>1 DEF ClientQuery
  <2> HIDE DEF r
  <2> QED
    BY <1>2, <1>3, <2>1, <2>2, ClientGoesOn
<1>5. CASE ~C!Joins(q)
  <2> DEFINE r == [query[q] EXCEPT !.pc = "ask", !.session = jar]
  <2>1. query' = [query EXCEPT ![q] = r]
    BY <1>1, <1>5 DEF C!Refused, ClientTypes
  <2>2. r \in ClientQuery /\ r.pc = "ask" /\ r.session = jar /\ r.tab = query[q].tab
    <3>1. r \in ClientQuery
      BY <1>1, <1>3 DEF ClientQuery
    <3>2. r.pc = "ask" /\ r.session = jar /\ r.tab = query[q].tab
      BY <1>1 DEF ClientQuery
    <3> QED
      BY <3>1, <3>2
  <2> HIDE DEF r
  <2>3. query' \in [Queries -> ClientQuery] /\ query'[q] = r
        /\ \A s \in Queries \ {q} : query'[s] = query[s]
    BY <1>1, <2>1, <2>2 DEF ClientTypes
  <2>4. ClientTypes'
    BY <1>1, <1>2, <1>3, <2>2, <2>3 DEF ClientTypes
  <2>5. ClientIn'
    BY <1>1, <1>2 DEF ClientIn
  <2>6. ASSUME ~pardoned' PROVE OneRefreshes'
    <3>1. ~C!Refreshing(query[q].tab) /\ ~C!AnyRefreshing(Procs \ {query[q].tab})
      BY <1>5, <2>6 DEF C!Refused, C!Joins, C!Others
    <3>2. \A s \in Queries : query[s].pc \notin {"ask", "answer"}
      BY <1>1, <3>1 DEF ClientTypes, C!AnyRefreshing, C!Refreshing
    <3>3. \A s \in Queries \ {q} : query'[s].pc \notin {"ask", "answer"}
      BY <2>3, <3>2
    <3>4. jar # 0 => Usable(jar)
      BY <1>1, <3>2 DEF OneRefreshes
    <3> QED
      BY <1>2, <2>2, <2>3, <3>3, <3>4 DEF OneRefreshes, Usable
  <2> QED
    BY <2>4, <2>5, <2>6 DEF ClientInv
<1> QED
  BY <1>4, <1>5

\* Sessions that are revoked are there still.
LEMMA ClientRevoked ==
  ASSUME ClientTypes
  PROVE  C!AllRevoked \in Seq(ClientSession) /\ Len(C!AllRevoked) = Len(issued)
<1>1. issued \in Seq(ClientSession) /\ DOMAIN issued = 1 .. Len(issued) /\ Len(issued) \in Nat
  BY DEF ClientTypes
<1>2. \A s \in DOMAIN issued : [issued[s] EXCEPT !.revoked = TRUE] \in ClientSession
  <2> SUFFICES ASSUME NEW s \in DOMAIN issued
               PROVE  [issued[s] EXCEPT !.revoked = TRUE] \in ClientSession
    OBVIOUS
  <2>1. issued[s] \in ClientSession
    BY <1>1
  <2> QED
    BY <2>1 DEF ClientSession
<1>3. C!AllRevoked \in [1 .. Len(issued) -> ClientSession]
  BY <1>1, <1>2 DEF C!AllRevoked
<1>4. C!AllRevoked \in Seq(ClientSession)
  BY <1>1, <1>3, SeqDef
<1>5. DOMAIN C!AllRevoked = 1 .. Len(issued)
  BY <1>3
<1> QED
  BY <1>1, <1>4, <1>5, LenProperties

\* The refresh replaces what the browser holds by what nobody has used.
LEMMA ClientRefresh ==
  ASSUME ClientInv, ~pardoned, NEW q \in Queries, C!Refresh(q)
  PROVE  ClientInv'
<1>1. ClientTypes /\ OneRefreshes /\ ClientIn /\ query[q] \in ClientQuery
  BY DEF ClientInv, ClientTypes
<1>2. UNCHANGED <<tab, jar, pardoned>> /\ query[q].pc = "ask"
  BY DEF C!Refresh, C!At
<1>3. query[q].tab \in Procs /\ query[q].session = jar /\ jar \in 0 .. Len(issued)
  BY <1>1, <1>2 DEF ClientTypes, OneRefreshes
<1>4. issued \in Seq(ClientSession) /\ DOMAIN issued = 1 .. Len(issued) /\ Len(issued) \in Nat
  BY <1>1 DEF ClientTypes
<1>5. \A s \in Queries \ {q} : query[s].pc \notin {"ask", "answer"}
  BY <1>1, <1>2 DEF OneRefreshes
<1>6. jar # 0 => Usable(jar)
  BY <1>1, <1>2, <1>5 DEF OneRefreshes
<1>7. PICK new \in {0, Len(issued) + 1} :
        /\ jar = 0 <=> new = 0
        /\ issued' = IF new # 0 THEN Append([issued EXCEPT ![jar].replaced = TRUE], C!Fresh)
                     ELSE issued
        /\ ~reused'
        /\ query' = [query EXCEPT ![q].pc = "answer", ![q].session = new]
  <2> DEFINE spent == jar # 0 /\ (issued[jar].replaced \/ issued[jar].revoked)
             new   == IF jar = 0 \/ spent THEN 0 ELSE Len(issued) + 1
  <2>1. ~spent
    BY <1>6 DEF Usable
  <2>2. /\ issued' = IF new # 0
                     THEN Append([issued EXCEPT ![jar].replaced = TRUE], C!Fresh)
                     ELSE IF spent THEN C!AllRevoked ELSE issued
        /\ reused' = (reused \/ (jar # 0 /\ issued[jar].replaced))
        /\ query' = [query EXCEPT ![q].pc = "answer", ![q].session = new]
    BY <1>3 DEF C!Refresh
  <2>3. new \in {0, Len(issued) + 1} /\ (jar = 0 <=> new = 0)
    BY <1>4, <2>1
  <2>4. ~reused'
    BY <1>1, <2>1, <2>2 DEF ClientIn
  <2> HIDE DEF new, spent
  <2> QED
    BY <2>1, <2>2, <2>3, <2>4
<1> DEFINE r == [query[q] EXCEPT !.pc = "answer", !.session = new]
<1>8. r \in ClientQuery /\ r.pc = "answer" /\ r.session = new /\ r.tab = query[q].tab
  <2>1. new \in Nat
    BY <1>4
  <2>2. r \in ClientQuery
    BY <1>1, <2>1 DEF ClientQuery
  <2>3. r.pc = "answer" /\ r.session = new /\ r.tab = query[q].tab
    BY <1>1 DEF ClientQuery
  <2> QED
    BY <2>2, <2>3
<1>9. query' = [query EXCEPT ![q] = r]
  BY <1>7
<1> HIDE DEF r
<1>10. query' \in [Queries -> ClientQuery] /\ query'[q] = r
       /\ \A s \in Queries \ {q} : query'[s] = query[s]
  BY <1>1, <1>8, <1>9 DEF ClientTypes
<1>11. /\ issued' \in Seq(ClientSession) /\ Len(issued) <= Len(issued')
       /\ new \in 0 .. Len(issued') /\ Len(issued') \in Nat
       /\ new # 0 => issued'[new] = C!Fresh
  <2>1. CASE new = 0
    BY <1>4, <1>7, <2>1
  <2>2. CASE new # 0
    <3> DEFINE row == [issued[jar] EXCEPT !.replaced = TRUE]
               rs  == [issued EXCEPT ![jar] = row]
    <3>1. jar \in DOMAIN issued
      BY <1>3, <1>4, <1>7, <2>2
    <3>2. issued[jar] \in ClientSession
      BY <1>4, <3>1
    <3>3. row \in ClientSession
      BY <3>2 DEF ClientSession
    <3>4. issued' = Append(rs, C!Fresh)
      BY <1>7, <2>2
    <3> HIDE DEF row
    <3>5. rs \in Seq(ClientSession) /\ Len(rs) = Len(issued)
      BY <1>4, <3>1, <3>3
    <3> HIDE DEF rs
    <3> QED
      BY <1>4, <2>2, <3>4, <3>5, ClientFresh
  <2> QED
    BY <2>1, <2>2
<1>12. ClientTypes'
  BY <1>1, <1>2, <1>3, <1>4, <1>8, <1>10, <1>11 DEF ClientTypes
<1>13. new # 0 => Usable(new)'
  BY <1>11 DEF Usable, C!Fresh
<1>14. OneRefreshes'
  BY <1>2, <1>5, <1>7, <1>8, <1>10, <1>13 DEF OneRefreshes
<1>15. ClientIn'
  BY <1>1, <1>2, <1>7 DEF ClientIn
<1> QED
  BY <1>12, <1>14, <1>15 DEF ClientInv

\* What the answer to a refresh settles: the queries of its tab that waited are sent again or
\* given up, and none of them refreshes.
LEMMA ClientSettles ==
  ASSUME ClientTypes, NEW q \in Queries, query[q].pc # "idle",
         NEW s \in 0 .. Len(issued), C!Settles(q, s)
  PROVE  /\ query' \in [Queries -> ClientQuery]
         /\ query'[q].pc \in {"idle", "sent"}
         /\ \A r \in Queries :
              \/ query'[r] = query[r]
              \/ /\ query'[r].pc \in {"idle", "sent"} /\ query'[r].session = s
                 /\ query'[r].pc = "sent" => query'[r].tab \in Procs
         /\ tab' \in [Procs -> {"closed", "in", "left", "expired"}]
         /\ tab' = tab \/ (s = 0 /\ \E t \in Procs : tab[t] = "in")
<1> DEFINE t == query[q].tab
           resumed == {r \in Queries : r = q \/ (query[r].tab = t /\ C!At(r, "wait"))}
<1>1. t \in Procs /\ s \in Nat /\ query \in [Queries -> ClientQuery]
      /\ tab \in [Procs -> {"closed", "in", "left", "expired"}]
  BY DEF ClientTypes
<1>2. /\ query' = [r \in Queries |-> IF r \notin resumed THEN query[r]
                                    ELSE IF s = 0 THEN C!Idle ELSE C!Sent(t, s, TRUE)]
      /\ tab' = IF s = 0 /\ tab[t] = "in" THEN [tab EXCEPT ![t] = "expired"] ELSE tab
  BY DEF C!Settles
<1>3. q \in resumed
  OBVIOUS
<1> HIDE DEF t, resumed
<1> DEFINE sent == C!Sent(t, s, TRUE)
<1>4. sent \in ClientQuery /\ sent.pc = "sent" /\ sent.session = s /\ sent.tab = t
  BY <1>1 DEF C!Sent, ClientQuery
<1> HIDE DEF sent
<1>5. \A r \in Queries : query'[r] = IF r \notin resumed THEN query[r]
                                     ELSE IF s = 0 THEN C!Idle ELSE sent
  BY <1>2 DEF sent
<1>6. query' \in [Queries -> ClientQuery]
  BY <1>1, <1>2, <1>4, IdleQuery DEF sent
<1>7. query'[q].pc \in {"idle", "sent"}
  BY <1>3, <1>4, <1>5, IdleQuery
<1>8. \A r \in Queries :
        \/ query'[r] = query[r]
        \/ /\ query'[r].pc \in {"idle", "sent"} /\ query'[r].session = s
           /\ query'[r].pc = "sent" => query'[r].tab \in Procs
  BY <1>1, <1>4, <1>5, IdleQuery
<1>9. tab' \in [Procs -> {"closed", "in", "left", "expired"}]
  BY <1>1, <1>2
<1>10. tab' = tab \/ (s = 0 /\ \E u \in Procs : tab[u] = "in")
  BY <1>1, <1>2
<1> QED
  BY <1>6, <1>7, <1>8, <1>9, <1>10

\* The answer brings what nobody has used, or finds nobody in.
LEMMA ClientAnswer ==
  ASSUME ClientInv, ~pardoned, NEW q \in Queries, C!RefreshAnswer(q)
  PROVE  ClientInv'
<1> DEFINE s == query[q].session
<1>1. ClientTypes /\ OneRefreshes /\ ClientIn /\ query[q].pc = "answer"
  BY DEF ClientInv, C!RefreshAnswer, C!At
<1>2. C!Settles(q, s) /\ UNCHANGED <<issued, reused>> /\ s \in 0 .. Len(issued)
  BY <1>1 DEF C!RefreshAnswer, ClientTypes
<1>3. /\ query' \in [Queries -> ClientQuery]
      /\ query'[q].pc \in {"idle", "sent"}
      /\ \A r \in Queries :
           \/ query'[r] = query[r]
           \/ /\ query'[r].pc \in {"idle", "sent"} /\ query'[r].session = s
              /\ query'[r].pc = "sent" => query'[r].tab \in Procs
      /\ tab' \in [Procs -> {"closed", "in", "left", "expired"}]
      /\ tab' = tab \/ (s = 0 /\ \E t \in Procs : tab[t] = "in")
  BY <1>1, <1>2, ClientSettles
<1>4. (jar = 0 <=> s = 0) /\ (s # 0 => Usable(s))
  BY <1>1 DEF OneRefreshes
<1>5. jar' = s
  BY <1>4 DEF C!RefreshAnswer
<1> HIDE DEF s
<1>6. \A r \in Queries : query'[r].pc \notin {"ask", "answer"}
  <2>1. \A r \in Queries \ {q} : query[r].pc \notin {"ask", "answer"}
    BY <1>1 DEF OneRefreshes
  <2> QED
    BY <1>3, <2>1
<1>7. ClientTypes'
  BY <1>1, <1>2, <1>3, <1>5 DEF ClientTypes
<1>8. OneRefreshes'
  BY <1>2, <1>4, <1>5, <1>6 DEF OneRefreshes, Usable
<1>9. tab' = tab
  BY <1>1, <1>3, <1>4 DEF ClientIn
<1>10. ClientIn'
  BY <1>1, <1>2, <1>4, <1>5, <1>9 DEF ClientIn
<1> QED
  BY <1>7, <1>8, <1>10 DEF ClientInv

\* What a tab cannot know of: an answer that is lost, and sessions ended elsewhere.
LEMMA ClientUnknown ==
  ASSUME ClientInv, ~pardoned, C!EndElsewhere \/ \E q \in Queries : C!RefreshLost(q)
  PROVE  ClientInv'
<1>1. ClientTypes
  BY DEF ClientInv
<1>2. pardoned'
  BY DEF C!EndElsewhere, C!RefreshLost
<1>3. CASE C!EndElsewhere
  BY <1>1, <1>2, <1>3, ClientRevoked DEF C!EndElsewhere, ClientInv, ClientTypes
<1>4. ASSUME NEW q \in Queries, C!RefreshLost(q) PROVE ClientInv'
  <2>1. query[q].pc # "idle" /\ C!Settles(q, 0) /\ UNCHANGED <<jar, issued, reused>>
        /\ 0 \in 0 .. Len(issued)
    BY <1>1, <1>4 DEF C!RefreshLost, ClientTypes
  <2>2. /\ query' \in [Queries -> ClientQuery]
        /\ \A r \in Queries :
             \/ query'[r] = query[r]
             \/ /\ query'[r].pc \in {"idle", "sent"} /\ query'[r].session = 0
                /\ query'[r].pc = "sent" => query'[r].tab \in Procs
        /\ tab' \in [Procs -> {"closed", "in", "left", "expired"}]
    BY <1>1, <2>1, ClientSettles
  <2> QED
    BY <1>1, <1>2, <2>1, <2>2 DEF ClientInv, ClientTypes
<1> QED
  BY <1>3, <1>4

\* An access token that lapses says nothing of the refresh token beside it.
LEMMA ClientLapse ==
  ASSUME ClientInv, ~pardoned, C!Lapse
  PROVE  ClientInv'
<1>1. ClientTypes /\ OneRefreshes /\ ClientIn
  BY DEF ClientInv
<1>2. UNCHANGED <<tab, jar, query, reused, pardoned>>
  BY DEF C!Lapse
<1>3. PICK s \in DOMAIN issued : issued' = [issued EXCEPT ![s].lapsed = TRUE]
  BY DEF C!Lapse
<1> DEFINE row == [issued[s] EXCEPT !.lapsed = TRUE]
<1>4. issued \in Seq(ClientSession) /\ issued[s] \in ClientSession
  BY <1>1 DEF ClientTypes
<1>5. row \in ClientSession
  BY <1>4 DEF ClientSession
<1>6. row.replaced = issued[s].replaced /\ row.revoked = issued[s].revoked
  BY <1>4 DEF ClientSession
<1>7. issued' = [issued EXCEPT ![s] = row]
  BY <1>3
<1> HIDE DEF row
<1>8. /\ issued' \in Seq(ClientSession) /\ Len(issued') = Len(issued)
      /\ DOMAIN issued' = DOMAIN issued /\ DOMAIN issued = 1 .. Len(issued)
      /\ issued'[s] = row /\ \A r \in DOMAIN issued \ {s} : issued'[r] = issued[r]
  BY <1>4, <1>5, <1>7
<1>9. ClientTypes'
  BY <1>1, <1>2, <1>8 DEF ClientTypes
<1>10. \A r \in DOMAIN issued : Usable(r) => Usable(r)'
  BY <1>6, <1>8 DEF Usable
<1>11. \A r \in 0 .. Len(issued) : r # 0 => r \in DOMAIN issued
  BY <1>8
<1>12. jar \in 0 .. Len(issued) /\ \A q \in Queries : query[q].session \in 0 .. Len(issued)
  BY <1>1 DEF ClientTypes
<1>13. OneRefreshes'
  BY <1>1, <1>2, <1>10, <1>11, <1>12 DEF OneRefreshes
<1>14. ClientIn'
  BY <1>1, <1>2 DEF ClientIn
<1> QED
  BY <1>9, <1>13, <1>14 DEF ClientInv

\* The browser may hold the session of an earlier visit.
LEMMA InitClient == Init => ClientInv
<1> SUFFICES ASSUME Init PROVE ClientInv
  OBVIOUS
<1>1. /\ tab = [t \in Procs |-> "closed"] /\ jar \in {0, 1}
      /\ issued = (IF jar = 0 THEN <<>> ELSE <<C!Fresh>>)
      /\ query = [q \in Queries |-> C!Idle] /\ ~reused
  BY DEF Init, C!Init
<1>2. issued \in Seq(ClientSession) /\ jar = Len(issued) /\ (jar # 0 => issued[jar] = C!Fresh)
  <2>1. C!Fresh \in ClientSession
    BY DEF C!Fresh, ClientSession
  <2> QED
    BY <1>1, <2>1
<1>3. \A q \in Queries : query[q] = C!Idle
  BY <1>1
<1>4. ClientTypes
  BY <1>1, <1>2, <1>3, IdleQuery DEF ClientTypes
<1>5. OneRefreshes
  BY <1>1, <1>2, <1>3, IdleQuery DEF OneRefreshes, Usable, C!Fresh
<1>6. ClientIn
  BY <1>1 DEF ClientIn
<1> QED
  BY <1>4, <1>5, <1>6 DEF ClientInv

\* No step of Desks leaves the invariant of the web application.
LEMMA NextClient == ClientInv /\ [Next]_vars => ClientInv'
<1> SUFFICES ASSUME ClientInv, [Next]_vars PROVE ClientInv'
  OBVIOUS
<1>1. C!Next \/ UNCHANGED C_vars
  BY DEF Next, Only, vars, C_vars
<1>2. CASE C!Next
  <2>1. ~pardoned
    BY <1>2 DEF C!Next
  <2>2. ASSUME NEW t \in Procs, C!PageLoad(t) \/ C!SignIn(t) \/ C!SignOut(t)
        PROVE  ClientInv'
    BY <2>1, <2>2, ClientPageLoad, ClientSignIn, ClientSignOut
  <2>3. ASSUME NEW q \in Queries,
               \/ C!Ask(q) \/ C!Serve(q) \/ C!Refused(q)
               \/ C!Refresh(q) \/ C!RefreshAnswer(q) \/ C!RefreshLost(q)
        PROVE  ClientInv'
    BY <2>1, <2>3, ClientAsk, ClientRefused, ClientRefresh, ClientAnswer, ClientUnknown
  <2> QED
    BY <1>2, <2>1, <2>2, <2>3, ClientLapse, ClientUnknown DEF C!Next
<1>3. CASE UNCHANGED C_vars
  BY <1>3 DEF C_vars, ClientInv, ClientTypes, OneRefreshes, ClientIn, Usable
<1> QED
  BY <1>1, <1>2, <1>3

\* One request at a time, a sign-in has one refresh token that can still be used; and the web
\* application, whatever tabs, refusals and lapses come, neither presents a replaced one nor
\* shows the sign-in page unasked (auth.service.ts, refresh; api-client.ts, refreshSession).
THEOREM OneHolderHolds == Spec => []OneHolder
<1>1. Init => HoldersInv /\ ClientInv
  BY InitHolders, InitClient
<1>2. (HoldersInv /\ ClientInv) /\ [Next]_vars => (HoldersInv /\ ClientInv)'
  BY NextHolders, NextClient
<1>3. ClientInv => C!StaysSignedIn
  BY DEF ClientInv, ClientIn, C!StaysSignedIn
<1>4. HoldersInv /\ ClientInv => OneHolder
  BY <1>3, HoldersHold DEF OneHolder
<1> QED
  BY <1>1, <1>2, <1>4, PTL DEF Spec

-----------------------------------------------------------------------------
(* The lock and the reset links.                                           *)

GateUser == [failed : Nat, lock : {"none", "standing", "expired"}]

GateRequest ==
  [pc : {"idle", "login_clear", "login_miss", "request_insert", "reset_commit"},
   failed : Nat, link : Nat]

GateTypes ==
  /\ user \in GateUser /\ misses \in Nat
  /\ links \in Seq({"live", "used"})
  /\ gReq \in [Procs -> GateRequest]
  /\ \A p \in Procs : gReq[p].pc = "reset_commit" => gReq[p].link \in DOMAIN links

\* Every wrong password in a row is counted, and enough of them lead to the lock.
Locked ==
  /\ user.failed = misses
  /\ misses >= MaxAttempts => user.lock # "none"
  /\ \A p \in Procs : gReq[p].pc = "login_miss" => gReq[p].failed = user.failed

\* Only the last link is live, and none while another is about to be made.
OneLink ==
  /\ \A l \in DOMAIN links : links[l] = "live" => l = Len(links)
  /\ \A p \in Procs : gReq[p].pc = "request_insert" => \A l \in DOMAIN links : links[l] = "used"

GateInv == GateTypes /\ (width = 1 => Alone(gReq) /\ Locked /\ OneLink)

\* A request that is put back to idle holds nothing.
LEMMA IdleGate == G!Idle \in GateRequest /\ G!Idle.pc = "idle"
BY DEF G!Idle, GateRequest

\* One at a time, a request begins when none is under way.
LEMMA GateFree ==
  ASSUME NEW p, G!Free(p), width = 1
  PROVE  AllIdle(gReq)
<1> DEFINE busy == {q \in Procs : gReq[q].pc # "idle"}
<1>1. G!Cardinality(busy) = Cardinality(busy)
  BY DEF G!Cardinality, Cardinality
<1>2. G!Cardinality(busy) < width
  BY DEF G!Free
<1>3. busy = {}
  BY <1>1, <1>2, FreeIsAlone
<1> QED
  BY <1>3 DEF AllIdle

\* A step of p: the types and, one at a time, whom the others are.
LEMMA GateStep ==
  ASSUME GateInv, NEW p \in Procs, G!Free(p) \/ gReq[p].pc # "idle",
         NEW r \in GateRequest, gReq' = [gReq EXCEPT ![p] = r]
  PROVE  /\ gReq' \in [Procs -> GateRequest] /\ gReq'[p] = r
         /\ \A q \in Procs \ {p} : gReq'[q] = gReq[q]
         /\ width = 1 => Alone(gReq') /\ \A q \in Procs \ {p} : gReq'[q].pc = "idle"
<1>1. gReq' \in [Procs -> GateRequest] /\ gReq'[p] = r
      /\ \A q \in Procs \ {p} : gReq'[q] = gReq[q]
  BY DEF GateInv, GateTypes
<1>2. ASSUME width = 1 PROVE \A q \in Procs \ {p} : gReq[q].pc = "idle"
  BY <1>2, GateFree DEF GateInv, Alone, AllIdle
<1> QED
  BY <1>1, <1>2 DEF Alone

\* A sign-in reads the count; a wrong password adds one to it, the right one clears it.
LEMMA GateLogin ==
  ASSUME GateInv, NEW p \in Procs, G!LoginRead(p) \/ G!LoginMiss(p) \/ G!LoginClear(p)
  PROVE  GateInv'
<1>1. user \in GateUser /\ user.failed \in Nat /\ misses \in Nat /\ gReq[p] \in GateRequest
  BY DEF GateInv, GateTypes, GateUser
<1>2. CASE G!LoginRead(p)
  <2>1. PICK pc \in {"login_clear", "login_miss"} :
          gReq' = [gReq EXCEPT ![p] = [G!Idle EXCEPT !.pc = pc, !.failed = user.failed]]
    BY <1>2 DEF G!LoginRead
  <2> DEFINE r == [G!Idle EXCEPT !.pc = pc, !.failed = user.failed]
  <2>2. r \in GateRequest /\ r.pc = pc /\ r.failed = user.failed
    BY <1>1 DEF G!Idle, GateRequest
  <2>3. G!Free(p) /\ gReq' = [gReq EXCEPT ![p] = r] /\ UNCHANGED <<user, links, width, misses>>
    BY <1>2, <2>1 DEF G!LoginRead
  <2> HIDE DEF r
  <2>4. /\ gReq' \in [Procs -> GateRequest] /\ gReq'[p] = r
        /\ \A q \in Procs \ {p} : gReq'[q] = gReq[q]
        /\ width = 1 => Alone(gReq') /\ \A q \in Procs \ {p} : gReq'[q].pc = "idle"
    BY <2>2, <2>3, GateStep
  <2>5. GateTypes'
    BY <2>2, <2>3, <2>4 DEF GateInv, GateTypes
  <2>6. ASSUME width = 1 PROVE Locked' /\ OneLink'
    BY <2>2, <2>3, <2>4, <2>6 DEF GateInv, Locked, OneLink
  <2> QED
    BY <2>3, <2>4, <2>5, <2>6 DEF GateInv
<1>3. CASE G!LoginMiss(p)
  <2>1. /\ user' = [failed |-> gReq[p].failed + 1, lock |-> G!LockAfter(gReq[p].failed + 1)]
        /\ misses' = misses + 1 /\ gReq' = [gReq EXCEPT ![p] = G!Idle]
        /\ UNCHANGED <<links, width>> /\ gReq[p].pc = "login_miss"
    BY <1>3 DEF G!LoginMiss, G!Done, G!At
  <2>2. gReq[p].failed \in Nat
    BY <1>1 DEF GateRequest
  <2>3. user' \in GateUser /\ user'.failed = gReq[p].failed + 1
        /\ (user'.failed >= MaxAttempts => user'.lock = "standing")
    BY <2>1, <2>2 DEF GateUser, G!LockAfter
  <2>4. /\ gReq' \in [Procs -> GateRequest] /\ gReq'[p] = G!Idle
        /\ \A q \in Procs \ {p} : gReq'[q] = gReq[q]
        /\ width = 1 => Alone(gReq') /\ \A q \in Procs \ {p} : gReq'[q].pc = "idle"
    BY <2>1, IdleGate, GateStep
  <2>5. GateTypes'
    BY <1>1, <2>1, <2>3, <2>4, IdleGate DEF GateInv, GateTypes
  <2>6. ASSUME width = 1 PROVE Locked' /\ OneLink'
    <3>1. gReq[p].failed = misses
      BY <2>1, <2>6 DEF GateInv, Locked
    <3>2. user'.failed = misses' /\ (misses' >= MaxAttempts => user'.lock # "none")
      BY <2>1, <2>3, <3>1
    <3>3. \A q \in Procs : gReq'[q].pc = "idle"
      BY <2>4, <2>6, IdleGate
    <3> QED
      BY <2>1, <2>6, <3>2, <3>3 DEF GateInv, Locked, OneLink
  <2> QED
    BY <2>1, <2>4, <2>5, <2>6 DEF GateInv
<1>4. CASE G!LoginClear(p)
  <2>1. /\ user' = [failed |-> 0, lock |-> "none"] /\ misses' = 0
        /\ gReq' = [gReq EXCEPT ![p] = G!Idle]
        /\ UNCHANGED <<links, width>> /\ gReq[p].pc = "login_clear"
    BY <1>4 DEF G!LoginClear, G!Done, G!At
  <2>2. user' \in GateUser /\ user'.failed = 0
    BY <2>1 DEF GateUser
  <2>3. /\ gReq' \in [Procs -> GateRequest] /\ gReq'[p] = G!Idle
        /\ \A q \in Procs \ {p} : gReq'[q] = gReq[q]
        /\ width = 1 => Alone(gReq') /\ \A q \in Procs \ {p} : gReq'[q].pc = "idle"
    BY <2>1, IdleGate, GateStep
  <2>4. GateTypes'
    BY <2>1, <2>2, <2>3, IdleGate DEF GateInv, GateTypes
  <2>5. ASSUME width = 1 PROVE Locked' /\ OneLink'
    <3>1. \A q \in Procs : gReq'[q].pc = "idle"
      BY <2>3, <2>5, IdleGate
    <3>2. ~(misses' >= MaxAttempts)
      BY <2>1, AttemptsAssumption
    <3> QED
      BY <2>1, <2>2, <2>5, <3>1, <3>2 DEF GateInv, Locked, OneLink
  <2> QED
    BY <2>1, <2>3, <2>4, <2>5 DEF GateInv
<1> QED
  BY <1>2, <1>3, <1>4

\* The links there are go out of use before another is made.
LEMMA GateRequestLink ==
  ASSUME GateInv, NEW p \in Procs, G!RequestVoid(p) \/ G!RequestInsert(p)
  PROVE  GateInv'
<1>1. links \in Seq({"live", "used"}) /\ DOMAIN links = 1 .. Len(links) /\ Len(links) \in Nat
  BY DEF GateInv, GateTypes
<1>2. CASE G!RequestVoid(p)
  <2> DEFINE r == [G!Idle EXCEPT !.pc = "request_insert"]
  <2>1. r \in GateRequest /\ r.pc = "request_insert"
    BY DEF G!Idle, GateRequest
  <2>2. G!Free(p) /\ gReq' = [gReq EXCEPT ![p] = r] /\ UNCHANGED <<user, width, misses>>
        /\ links' = [l \in DOMAIN links |-> "used"]
    BY <1>2 DEF G!RequestVoid, G!Voided
  <2> HIDE DEF r
  <2>3. /\ gReq' \in [Procs -> GateRequest] /\ gReq'[p] = r
        /\ \A q \in Procs \ {p} : gReq'[q] = gReq[q]
        /\ width = 1 => Alone(gReq') /\ \A q \in Procs \ {p} : gReq'[q].pc = "idle"
    BY <2>1, <2>2, GateStep
  <2>4. links' \in [1 .. Len(links) -> {"live", "used"}]
    BY <1>1, <2>2
  <2>5. links' \in Seq({"live", "used"}) /\ DOMAIN links' = DOMAIN links
        /\ \A l \in DOMAIN links' : links'[l] = "used"
    BY <1>1, <2>2, <2>4, SeqDef
  <2>6. GateTypes'
    BY <2>1, <2>2, <2>3, <2>5 DEF GateInv, GateTypes
  <2>7. ASSUME width = 1 PROVE Locked' /\ OneLink'
    BY <2>1, <2>2, <2>3, <2>5, <2>7 DEF GateInv, Locked, OneLink
  <2> QED
    BY <2>2, <2>3, <2>6, <2>7 DEF GateInv
<1>3. CASE G!RequestInsert(p)
  <2>1. /\ gReq[p].pc = "request_insert" /\ gReq' = [gReq EXCEPT ![p] = G!Idle]
        /\ links' = Append(links, "live") /\ UNCHANGED <<user, width, misses>>
    BY <1>3 DEF G!RequestInsert, G!Done, G!At
  <2>2. /\ gReq' \in [Procs -> GateRequest] /\ gReq'[p] = G!Idle
        /\ \A q \in Procs \ {p} : gReq'[q] = gReq[q]
        /\ width = 1 => Alone(gReq') /\ \A q \in Procs \ {p} : gReq'[q].pc = "idle"
    BY <2>1, IdleGate, GateStep
  <2>3. /\ links' \in Seq({"live", "used"}) /\ Len(links') = Len(links) + 1
        /\ DOMAIN links' = 1 .. Len(links) + 1
        /\ \A l \in DOMAIN links : links'[l] = links[l]
    BY <1>1, <2>1
  <2>4. GateTypes'
    BY <1>1, <2>1, <2>2, <2>3, IdleGate DEF GateInv, GateTypes
  <2>5. ASSUME width = 1 PROVE Locked' /\ OneLink'
    <3>1. \A q \in Procs : gReq'[q].pc = "idle"
      BY <2>2, <2>5, IdleGate
    <3>2. \A l \in DOMAIN links : links[l] = "used"
      BY <2>1, <2>5 DEF GateInv, OneLink
    <3>3. \A l \in DOMAIN links' : links'[l] = "live" => l = Len(links')
      BY <1>1, <2>3, <3>2
    <3> QED
      BY <2>1, <2>5, <3>1, <3>3 DEF GateInv, Locked, OneLink
  <2> QED
    BY <2>1, <2>2, <2>4, <2>5 DEF GateInv
<1> QED
  BY <1>2, <1>3

\* A link that is live is used up.
LEMMA GateReset ==
  ASSUME GateInv, NEW p \in Procs, G!ResetRead(p) \/ G!ResetCommit(p)
  PROVE  GateInv'
<1>1. links \in Seq({"live", "used"}) /\ DOMAIN links = 1 .. Len(links) /\ Len(links) \in Nat
  BY DEF GateInv, GateTypes
<1>2. CASE G!ResetRead(p)
  <2>1. PICK l \in DOMAIN links :
          gReq' = [gReq EXCEPT ![p] = [G!Idle EXCEPT !.pc = "reset_commit", !.link = l]]
    BY <1>2 DEF G!ResetRead
  <2> DEFINE r == [G!Idle EXCEPT !.pc = "reset_commit", !.link = l]
  <2>2. l \in Nat
    BY <1>1
  <2>3. r \in GateRequest /\ r.pc = "reset_commit" /\ r.link = l
    BY <2>2 DEF G!Idle, GateRequest
  <2>4. G!Free(p) /\ gReq' = [gReq EXCEPT ![p] = r] /\ UNCHANGED <<user, links, width, misses>>
    BY <1>2, <2>1 DEF G!ResetRead
  <2> HIDE DEF r
  <2>5. /\ gReq' \in [Procs -> GateRequest] /\ gReq'[p] = r
        /\ \A q \in Procs \ {p} : gReq'[q] = gReq[q]
        /\ width = 1 => Alone(gReq') /\ \A q \in Procs \ {p} : gReq'[q].pc = "idle"
    BY <2>3, <2>4, GateStep
  <2>6. GateTypes'
    BY <2>3, <2>4, <2>5 DEF GateInv, GateTypes
  <2>7. ASSUME width = 1 PROVE Locked' /\ OneLink'
    BY <2>3, <2>4, <2>5, <2>7 DEF GateInv, Locked, OneLink
  <2> QED
    BY <2>4, <2>5, <2>6, <2>7 DEF GateInv
<1>3. CASE G!ResetCommit(p)
  <2> DEFINE l == gReq[p].link
  <2>1. /\ gReq[p].pc = "reset_commit" /\ gReq' = [gReq EXCEPT ![p] = G!Idle]
        /\ links' = [links EXCEPT ![l] = "used"] /\ UNCHANGED <<user, width, misses>>
    BY <1>3 DEF G!ResetCommit, G!Done, G!At
  <2>2. /\ gReq' \in [Procs -> GateRequest] /\ gReq'[p] = G!Idle
        /\ \A q \in Procs \ {p} : gReq'[q] = gReq[q]
        /\ width = 1 => Alone(gReq') /\ \A q \in Procs \ {p} : gReq'[q].pc = "idle"
    BY <2>1, IdleGate, GateStep
  <2>3. l \in DOMAIN links
    BY <2>1 DEF GateInv, GateTypes
  <2> HIDE DEF l
  <2>4. /\ links' \in Seq({"live", "used"}) /\ Len(links') = Len(links)
        /\ DOMAIN links' = DOMAIN links
        /\ \A k \in DOMAIN links : links'[k] = "live" => links[k] = "live"
    BY <1>1, <2>1, <2>3
  <2>5. GateTypes'
    BY <2>1, <2>2, <2>4, IdleGate DEF GateInv, GateTypes
  <2>6. ASSUME width = 1 PROVE Locked' /\ OneLink'
    <3>1. \A q \in Procs : gReq'[q].pc = "idle"
      BY <2>2, <2>6, IdleGate
    <3> QED
      BY <2>1, <2>4, <2>6, <3>1 DEF GateInv, Locked, OneLink
  <2> QED
    BY <2>1, <2>2, <2>5, <2>6 DEF GateInv
<1> QED
  BY <1>2, <1>3

\* A request is lost where there are several; the lock that stood has expired, and is a lock
\* still.
LEMMA GateLost ==
  ASSUME GateInv, G!LockExpires \/ \E p \in Procs : G!Lost(p)
  PROVE  GateInv'
<1>1. CASE G!LockExpires
  <2>1. user' = [user EXCEPT !.lock = "expired"] /\ UNCHANGED <<links, gReq, width, misses>>
    BY <1>1 DEF G!LockExpires
  <2>2. user \in GateUser
    BY DEF GateInv, GateTypes
  <2>3. user' \in GateUser /\ user'.failed = user.failed /\ user'.lock = "expired"
    BY <2>1, <2>2 DEF GateUser
  <2> QED
    BY <2>1, <2>3 DEF GateInv, GateTypes, Locked, OneLink
<1>2. ASSUME NEW p \in Procs, G!Lost(p) PROVE GateInv'
  <2>1. gReq' = [gReq EXCEPT ![p] = G!Idle] /\ UNCHANGED <<user, links, width, misses>>
        /\ width # 1
    BY <1>2 DEF G!Lost, G!Done
  <2>2. gReq' \in [Procs -> GateRequest] /\ gReq'[p] = G!Idle
        /\ \A q \in Procs \ {p} : gReq'[q] = gReq[q]
    BY <2>1, IdleGate DEF GateInv, GateTypes
  <2> QED
    BY <2>1, <2>2, IdleGate DEF GateInv, GateTypes
<1> QED
  BY <1>1, <1>2

\* Nobody has tried yet, and there are no links.
LEMMA InitGate == Init => GateInv
<1> SUFFICES ASSUME Init PROVE GateInv
  OBVIOUS
<1>1. /\ user = [failed |-> 0, lock |-> "none"] /\ links = <<>> /\ misses = 0
      /\ gReq = [p \in Procs |-> G!Idle]
  BY DEF Init, G!Init
<1>2. user \in GateUser /\ user.failed = 0 /\ ~(misses >= MaxAttempts)
  BY <1>1, AttemptsAssumption DEF GateUser
<1>3. \A p \in Procs : gReq[p].pc = "idle"
  BY <1>1, IdleGate
<1> QED
  BY <1>1, <1>2, <1>3, IdleGate DEF GateInv, GateTypes, Locked, OneLink, Alone

\* No step of Desks leaves the invariant of the gate.
LEMMA NextGate == GateInv /\ [Next]_vars => GateInv'
<1> SUFFICES ASSUME GateInv, [Next]_vars PROVE GateInv'
  OBVIOUS
<1>1. UNCHANGED width
  BY WidthStays
<1>2. G!Next \/ UNCHANGED G_vars
  BY DEF Next, Only, vars, G_vars
<1>3. CASE G!Next
  BY <1>3, GateLogin, GateRequestLink, GateReset, GateLost DEF G!Next, G!Step
<1>4. CASE UNCHANGED G_vars
  BY <1>1, <1>4 DEF G_vars, GateInv, GateTypes, Locked, OneLink, Alone
<1> QED
  BY <1>2, <1>3, <1>4

\* One request at a time, enough wrong passwords in a row lead to the lock, and of the reset
\* links only the last one works (auth.service.ts, registerFailedAttempt and
\* requestPasswordReset).
THEOREM GateStands == Spec => []GateHolds
<1>1. Init => GateInv
  BY InitGate
<1>2. GateInv /\ [Next]_vars => GateInv'
  BY NextGate
<1>3. GateInv => GateHolds
  BY DEF GateInv, Locked, OneLink, GateHolds, G!GateHolds, G!MissesLock, G!LastLinkOnly,
     G!Quiet
<1> QED
  BY <1>1, <1>2, <1>3, PTL DEF Spec

-----------------------------------------------------------------------------
(* The types of these components: their rows, and what requests hold, fit  *)
(* the bounds.                                                             *)

\* A session's successor, and the one it descends from, are within the bound.
RowFits(row) == row.next \in 0 .. MaxSessions /\ row.start \in 1 .. MaxSessions

\* So is every session, and the deny list is of sessions there are.
SessionsFit ==
  /\ account.version <= MaxVersion
  /\ Len(sessions) <= MaxSessions
  /\ \A s \in DOMAIN sessions : RowFits(sessions[s])
  /\ denied \subseteq DOMAIN sessions

\* There is no session yet.
LEMMA InitSessionsFit == Init => SessionsFit
BY BoundsAssumption DEF Init, S!Init, SessionsFit

\* A session more descends from a sign-in there was, or is one.
LEMMA SessionIssueFits ==
  ASSUME SessionsInv, SessionsFit, NEW p \in Procs, S!LoginIssue(p) \/ S!RefreshIssue(p)
  PROVE  SessionsFit'
<1>1. /\ sessions \in Seq(Session) /\ Len(sessions) \in Nat /\ MaxSessions \in Nat
      /\ DOMAIN sessions = 1 .. Len(sessions)
      /\ Holds(sReq[p], sessions, account.version)
  BY BoundsAssumption DEF SessionsInv
<1>2. PICK start \in 1 .. MaxSessions : sessions' = Append(sessions, S!Issued(p, start))
  <2>1. CASE S!LoginIssue(p)
    <3>1. Len(sessions) + 1 \in 1 .. MaxSessions
      BY <1>1, <2>1 DEF S!LoginIssue
    <3> QED
      BY <2>1, <3>1 DEF S!LoginIssue
  <2>2. CASE S!RefreshIssue(p)
    <3>1. sReq[p].session \in DOMAIN sessions
      BY <1>1, <2>2 DEF Holds, S!RefreshIssue, S!At
    <3>2. sessions[sReq[p].session].start \in 1 .. MaxSessions
      BY <3>1 DEF SessionsFit, RowFits
    <3> QED
      BY <2>2, <3>2 DEF S!RefreshIssue
  <2> QED
    BY <2>1, <2>2
<1> DEFINE row == S!Issued(p, start)
<1>3. RowFits(row)
  BY <1>1 DEF S!Issued, RowFits
<1>4. sessions' = Append(sessions, row)
  BY <1>2
<1> HIDE DEF row
<1>5. /\ Len(sessions') = Len(sessions) + 1 /\ DOMAIN sessions' = 1 .. Len(sessions) + 1
      /\ sessions'[Len(sessions) + 1] = row
      /\ \A s \in DOMAIN sessions : sessions'[s] = sessions[s]
  BY <1>1, <1>4
<1>6. \A s \in DOMAIN sessions' : RowFits(sessions'[s])
  BY <1>1, <1>3, <1>5 DEF SessionsFit
<1>7. Len(sessions) < MaxSessions /\ UNCHANGED <<account, denied>>
  BY DEF S!LoginIssue, S!RefreshIssue
<1> QED
  BY <1>1, <1>5, <1>6, <1>7 DEF SessionsFit

\* Rows that are closed or revoked.
LEMMA SessionCloseFits ==
  ASSUME SessionsInv, SessionsFit, NEW p \in Procs,
         S!RefreshLink(p) \/ S!LogoutMark(p) \/ S!EndMark(p)
  PROVE  SessionsFit'
<1>1. /\ sessions \in Seq(Session) /\ Len(sessions) \in Nat /\ MaxSessions \in Nat
      /\ DOMAIN sessions = 1 .. Len(sessions)
      /\ Holds(sReq[p], sessions, account.version)
      /\ \A s \in DOMAIN sessions : sessions[s] \in Session
  BY BoundsAssumption DEF SessionsInv
<1>2. UNCHANGED <<account, denied>>
  BY DEF S!RefreshLink, S!LogoutMark, S!EndMark
<1>3. DOMAIN sessions' = DOMAIN sessions /\ Len(sessions') = Len(sessions)
  <2>1. CASE S!RefreshLink(p)
    BY <1>1, <2>1 DEF S!RefreshLink
  <2>2. CASE S!LogoutMark(p)
    <3>1. PICK t, row : sessions' = [sessions EXCEPT ![t] = row]
      BY <2>2 DEF S!LogoutMark
    <3> QED
      BY <1>1, <3>1
  <2>3. CASE S!EndMark(p)
    BY <1>1, <2>3 DEF S!EndMark, S!Sessions
  <2> QED
    BY <2>1, <2>2, <2>3
<1>4. ASSUME NEW s \in DOMAIN sessions
      PROVE  /\ sessions'[s].start = sessions[s].start
             /\ sessions'[s].next = sessions[s].next \/ sessions'[s].next \in DOMAIN sessions
  <2>1. CASE S!RefreshLink(p)
    <3>1. PICK next \in sReq[p].live :
            sessions' = [sessions EXCEPT ![sReq[p].session] =
                           [sessions[sReq[p].session] EXCEPT !.next = next]]
      BY <2>1 DEF S!RefreshLink, S!Replaced
    <3>2. next \in DOMAIN sessions
      BY <1>1 DEF Holds
    <3> QED
      BY <1>1, <3>1, <3>2 DEF Session
  <2>2. CASE S!LogoutMark(p)
    <3>1. PICK t \in DOMAIN sessions :
            sessions' = [sessions EXCEPT ![t] = [sessions[t] EXCEPT !.revoked = TRUE]]
      BY <2>2 DEF S!LogoutMark, S!Sessions
    <3> QED
      BY <1>1, <3>1 DEF Session
  <2>3. CASE S!EndMark(p)
    BY <1>1, <2>3 DEF S!EndMark, S!Sessions, Session
  <2> QED
    BY <2>1, <2>2, <2>3
<1>5. \A s \in DOMAIN sessions' : RowFits(sessions'[s])
  BY <1>1, <1>3, <1>4 DEF SessionsFit, RowFits
<1> QED
  BY <1>2, <1>3, <1>5 DEF SessionsFit

\* No step leaves the bounds of the sessions.
LEMMA SessionsKeepFit ==
  ASSUME SessionsInv, SessionsFit, [Next]_vars
  PROVE  SessionsFit'
<1>1. S!Next \/ UNCHANGED <<account, sessions, denied>>
  BY DEF Next, Only, vars, S_vars
<1>2. CASE UNCHANGED <<account, sessions, denied>>
  BY <1>2 DEF SessionsFit
<1>3. ASSUME NEW p \in Procs,
             S!LogoutDeny(p) \/ S!EndDeny(p) \/ S!DenyFails(p)
      PROVE  SessionsFit'
  <2>1. sReq[p].live \subseteq DOMAIN sessions
    BY DEF SessionsInv, Holds
  <2>2. denied' \subseteq DOMAIN sessions
    BY <1>3, <2>1 DEF S!LogoutDeny, S!EndDeny, S!DenyFails, SessionsFit
  <2>3. UNCHANGED <<account, sessions>>
    BY <1>3 DEF S!LogoutDeny, S!EndDeny, S!DenyFails
  <2> QED
    BY <2>2, <2>3 DEF SessionsFit
<1>4. ASSUME NEW p \in Procs, S!SetActive(p) \/ S!EndBump(p) PROVE SessionsFit'
  <2>1. account \in Account /\ account.version \in Nat /\ MaxVersion \in Nat
    BY BoundsAssumption DEF SessionsInv, Account
  <2>2. account'.version <= MaxVersion
    BY <1>4, <2>1 DEF S!SetActive, S!EndBump, S!VersionAfter, SessionsFit, Account
  <2>3. UNCHANGED <<sessions, denied>>
    BY <1>4 DEF S!SetActive, S!EndBump
  <2> QED
    BY <2>2, <2>3 DEF SessionsFit
<1>5. ASSUME NEW p \in Procs,
             \/ S!Login(p) \/ S!RefreshRead(p) \/ S!RefreshUser(p) \/ S!ForceLogout(p)
             \/ S!EndSelect(p) \/ S!Lost(p)
      PROVE  SessionsFit'
  BY <1>2, <1>5 DEF S!Login, S!RefreshRead, S!RefreshUser, S!ForceLogout, S!EndSelect, S!Lost
<1> QED
  BY <1>1, <1>2, <1>3, <1>4, <1>5, SessionIssueFits, SessionCloseFits DEF S!Next, S!Step

\* The types of the sessions.
LEMMA SessionsTyped == SessionsInv /\ SessionsFit => S!TypeOK
<1> SUFFICES ASSUME SessionsInv, SessionsFit PROVE S!TypeOK
  OBVIOUS
<1>1. /\ account \in Account /\ account.version \in Nat /\ MaxVersion \in Nat
      /\ \A s \in DOMAIN sessions : sessions[s] \in Session
      /\ \A p \in Procs : sReq[p] \in SessionRequest
  BY BoundsAssumption DEF SessionsInv, Account
<1>2. account \in [version : 0 .. MaxVersion, active : BOOLEAN]
  BY <1>1 DEF Account, SessionsFit
<1>3. ASSUME NEW s \in DOMAIN sessions
      PROVE  sessions[s] \in [version : 0 .. MaxVersion, revoked : BOOLEAN,
                              next : 0 .. MaxSessions, start : 1 .. MaxSessions]
  <2>1. sessions[s] \in Session /\ sessions[s].version <= account.version
        /\ RowFits(sessions[s])
    BY <1>1 DEF SessionsInv, SessionsFit
  <2>2. sessions[s].version \in 0 .. MaxVersion
    BY <1>1, <2>1 DEF Session, SessionsFit
  <2> QED
    BY <2>1, <2>2 DEF Session, RowFits
<1>4. denied \subseteq DOMAIN sessions /\ ended \subseteq DOMAIN sessions
  BY DEF SessionsFit, SessionsInv, Over
<1>5. \A p \in Procs : sReq[p].session \in Nat /\ sReq[p].live \subseteq DOMAIN sessions
  BY <1>1 DEF SessionRequest, SessionsInv, Holds
<1> QED
  BY <1>2, <1>3, <1>4, <1>5 DEF S!TypeOK, S!Sessions

\* The wrong passwords, and the links, are within the bounds, wherever they were read.
GateFits ==
  /\ user.failed <= MaxMisses /\ misses <= MaxMisses
  /\ Len(links) <= MaxLinks
  /\ \A p \in Procs : gReq[p].failed <= MaxMisses /\ gReq[p].link <= MaxLinks

\* Nobody has missed yet.
LEMMA InitGateFits == Init => GateFits
<1> SUFFICES ASSUME Init PROVE GateFits
  OBVIOUS
<1>1. /\ user = [failed |-> 0, lock |-> "none"] /\ misses = 0 /\ links = <<>>
      /\ gReq = [p \in Procs |-> G!Idle]
  BY DEF Init, G!Init
<1> QED
  BY <1>1, BoundsAssumption DEF G!Idle, GateFits

\* No step leaves the bounds of the gate.
LEMMA GateKeepsFit ==
  ASSUME GateInv, GateFits, [Next]_vars
  PROVE  GateFits'
<1>1. /\ links \in Seq({"live", "used"}) /\ Len(links) \in Nat
      /\ DOMAIN links = 1 .. Len(links)
      /\ gReq \in [Procs -> GateRequest] /\ user \in GateUser
      /\ user.failed \in Nat /\ misses \in Nat
      /\ MaxMisses \in Nat /\ MaxLinks \in Nat
      /\ \A p \in Procs : gReq[p].failed \in Nat /\ gReq[p].link \in Nat
  BY BoundsAssumption DEF GateInv, GateTypes, GateUser, GateRequest
<1>2. G!Next \/ UNCHANGED <<user, links, gReq, misses>>
  BY DEF Next, Only, vars, G_vars
<1>3. CASE UNCHANGED <<user, links, gReq, misses>>
  BY <1>3 DEF GateFits
<1>4. ASSUME NEW p \in Procs, NEW r, r.failed <= MaxMisses, r.link <= MaxLinks,
             gReq' = [gReq EXCEPT ![p] = r],
             user'.failed <= MaxMisses, misses' <= MaxMisses, Len(links') <= MaxLinks
      PROVE  GateFits'
  BY <1>1, <1>4 DEF GateFits
<1>5. G!Idle.failed <= MaxMisses /\ G!Idle.link <= MaxLinks
  BY <1>1 DEF G!Idle
<1>6. ASSUME NEW p \in Procs, G!LoginRead(p) PROVE GateFits'
  <2>1. PICK pc \in {"login_clear", "login_miss"} :
          gReq' = [gReq EXCEPT ![p] = [G!Idle EXCEPT !.pc = pc, !.failed = user.failed]]
    BY <1>6 DEF G!LoginRead
  <2> DEFINE r == [G!Idle EXCEPT !.pc = pc, !.failed = user.failed]
  <2>2. r.failed <= MaxMisses /\ r.link <= MaxLinks
    BY <1>1 DEF G!Idle, GateFits
  <2>3. gReq' = [gReq EXCEPT ![p] = r]
    BY <2>1
  <2> HIDE DEF r
  <2> QED
    BY <1>4, <1>6, <2>2, <2>3 DEF G!LoginRead, GateFits
<1>7. ASSUME NEW p \in Procs, G!LoginMiss(p) \/ G!LoginClear(p) PROVE GateFits'
  <2>1. user'.failed <= MaxMisses /\ misses' <= MaxMisses /\ UNCHANGED links
    BY <1>1, <1>7 DEF G!LoginMiss, G!LoginClear
  <2> QED
    BY <1>4, <1>5, <1>7, <2>1 DEF G!LoginMiss, G!LoginClear, G!Done, GateFits
<1>8. CASE G!LockExpires
  BY <1>1, <1>8 DEF G!LockExpires, GateFits, GateUser
<1>9. ASSUME NEW p \in Procs, G!RequestVoid(p) \/ G!RequestInsert(p) PROVE GateFits'
  <2>1. UNCHANGED <<user, misses>>
    BY <1>9 DEF G!RequestVoid, G!RequestInsert
  <2>2. Len(links') <= MaxLinks
    BY <1>1, <1>9 DEF G!RequestVoid, G!RequestInsert, G!Voided, GateFits
  <2>3. \E r \in {G!Idle, [G!Idle EXCEPT !.pc = "request_insert"]} :
          gReq' = [gReq EXCEPT ![p] = r]
    BY <1>9 DEF G!RequestVoid, G!RequestInsert, G!Done
  <2>4. \A r \in {G!Idle, [G!Idle EXCEPT !.pc = "request_insert"]} :
          r.failed <= MaxMisses /\ r.link <= MaxLinks
    BY <1>5 DEF G!Idle
  <2> QED
    BY <1>4, <2>1, <2>2, <2>3, <2>4 DEF GateFits
<1>10. ASSUME NEW p \in Procs, G!ResetRead(p) PROVE GateFits'
  <2>1. PICK l \in DOMAIN links :
          gReq' = [gReq EXCEPT ![p] = [G!Idle EXCEPT !.pc = "reset_commit", !.link = l]]
    BY <1>10 DEF G!ResetRead
  <2> DEFINE r == [G!Idle EXCEPT !.pc = "reset_commit", !.link = l]
  <2>2. r.failed <= MaxMisses /\ r.link <= MaxLinks
    BY <1>1 DEF G!Idle, GateFits
  <2>3. gReq' = [gReq EXCEPT ![p] = r]
    BY <2>1
  <2> HIDE DEF r
  <2> QED
    BY <1>4, <1>10, <2>2, <2>3 DEF G!ResetRead, GateFits
<1>11. ASSUME NEW p \in Procs, G!ResetCommit(p) \/ G!Lost(p) PROVE GateFits'
  <2>1. Len(links') = Len(links) /\ UNCHANGED <<user, misses>>
    BY <1>1, <1>11 DEF G!ResetCommit, G!Lost
  <2> QED
    BY <1>4, <1>5, <1>11, <2>1 DEF G!ResetCommit, G!Lost, G!Done, GateFits
<1> QED
  BY <1>2, <1>3, <1>6, <1>7, <1>8, <1>9, <1>10, <1>11 DEF G!Next, G!Step

\* The types of the gate.
LEMMA GateTyped == GateInv /\ GateFits => G!TypeOK
<1> SUFFICES ASSUME GateInv, GateFits PROVE G!TypeOK
  OBVIOUS
<1>1. /\ user \in GateUser /\ misses \in Nat /\ MaxMisses \in Nat /\ MaxLinks \in Nat
      /\ \A l \in DOMAIN links : links[l] \in {"live", "used"}
      /\ \A p \in Procs : gReq[p] \in GateRequest
  BY BoundsAssumption DEF GateInv, GateTypes
<1>2. user \in [failed : 0 .. MaxMisses, lock : {"none", "standing", "expired"}]
  BY <1>1 DEF GateUser, GateFits
<1>3. \A p \in Procs : gReq[p].failed \in 0 .. MaxMisses /\ gReq[p].link \in 0 .. MaxLinks
  BY <1>1 DEF GateRequest, GateFits
<1> QED
  BY <1>1, <1>2, <1>3 DEF G!TypeOK, GateFits

\* The two histories of the web application are Boolean.
ClientExcuses == reused \in BOOLEAN /\ pardoned \in BOOLEAN

\* Nothing is excused yet.
LEMMA InitClientExcuses == Init => ClientExcuses
BY DEF Init, C!Init, ClientExcuses

\* Whether there was an excuse, or a token presented twice, stays a yes or a no.
LEMMA ClientKeepsExcuses == ClientExcuses /\ [Next]_vars => ClientExcuses'
<1> SUFFICES ASSUME ClientExcuses, [Next]_vars PROVE ClientExcuses'
  OBVIOUS
<1>1. C!Next \/ UNCHANGED <<reused, pardoned>>
  BY DEF Next, Only, vars, C_vars
<1>2. ASSUME NEW t \in Procs, C!PageLoad(t) \/ C!SignIn(t) \/ C!SignOut(t)
      PROVE  ClientExcuses'
  <2>1. reused' = reused
    BY <1>2 DEF C!PageLoad, C!SignIn, C!SignOut
  <2>2. CASE C!PageLoad(t)
    BY <2>1, <2>2, Zenon DEF C!PageLoad, ClientExcuses
  <2>3. CASE C!SignIn(t)
    BY <2>1, <2>3, Zenon DEF C!SignIn, C!AnyRefreshing, ClientExcuses
  <2>4. CASE C!SignOut(t)
    BY <2>1, <2>4, Zenon DEF C!SignOut, ClientExcuses
  <2> QED
    BY <1>2, <2>2, <2>3, <2>4
<1>3. ASSUME NEW q \in Queries,
             \/ C!Ask(q) \/ C!Serve(q) \/ C!Refused(q)
             \/ C!Refresh(q) \/ C!RefreshAnswer(q) \/ C!RefreshLost(q)
      PROVE  ClientExcuses'
  BY <1>3
  DEF C!Ask, C!Serve, C!Refused, C!Refresh, C!RefreshAnswer, C!RefreshLost, ClientExcuses
<1> QED
  BY <1>1, <1>2, <1>3 DEF C!Next, C!Lapse, C!EndElsewhere, ClientExcuses

\* The types of the web application.
LEMMA ClientTyped == ClientInv /\ ClientExcuses => C!TypeOK
<1> SUFFICES ASSUME ClientInv, ClientExcuses PROVE C!TypeOK
  OBVIOUS
<1>1. \A q \in Queries : query[q] \in ClientQuery
  BY DEF ClientInv, ClientTypes
<1> QED
  BY <1>1 DEF ClientInv, ClientTypes, ClientQuery, ClientExcuses, C!TypeOK, C!NoTab
=============================================================================
