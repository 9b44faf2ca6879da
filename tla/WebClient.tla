------------------------------ MODULE WebClient ------------------------------
(***************************************************************************)
(* The web application's side of a sign-in: the tabs of one browser, the   *)
(* cookies they share, the requests that come back 401, and the one        *)
(* refresh each tab makes of however many there are.                       *)
(*                                                                         *)
(* A session stands for its access and its refresh cookie.  What the API   *)
(* does statement by statement is in Sessions.                             *)
(***************************************************************************)
EXTENDS Integers, Sequences, FiniteSets

CONSTANTS
  Procs,       \* the tabs
  Queries,     \* requests that can be under way at once
  MaxSessions  \* bound on the sessions ever opened

VARIABLES
  tab,      \* what each tab shows: closed, in, left by hand, or taken for expired
  jar,      \* the session whose cookies the browser holds, 0 for none
  issued,   \* the sessions rows: replaced, revoked, and whether the access token lapsed
  query,    \* where each request is, whose, and with which session
  reused,   \* history: a token was presented that had been replaced
  excused   \* history: something went wrong that a tab cannot know of

vars == <<tab, jar, issued, query, reused, excused>>

-----------------------------------------------------------------------------

NoTab == "none"

Idle == [pc |-> "idle", tab |-> NoTab, session |-> 0, retry |-> FALSE]

Fresh == [replaced |-> FALSE, revoked |-> FALSE, lapsed |-> FALSE]

\* The browser may hold the cookies of an earlier visit.
Init ==
  /\ tab = [t \in Procs |-> "closed"]
  /\ jar \in {0, 1}
  /\ issued = IF jar = 0 THEN <<>> ELSE <<Fresh>>
  /\ query = [q \in Queries |-> Idle]
  /\ reused = FALSE /\ excused = FALSE

At(q, pc) == query[q].pc = pc

\* A refresh of the tab is under way; it belongs to the request that began it.
Refreshing(t) ==
  \E q \in Queries : query[q].tab = t /\ query[q].pc \in {"ask", "answer"}

Others(t) == Procs \ {t}
AnyRefreshing(tabs) == \E t \in tabs : Refreshing(t)

\* The guard of a route.
Accepts(s) == s # 0 /\ ~issued[s].lapsed /\ ~issued[s].revoked

AllRevoked == [s \in DOMAIN issued |-> [issued[s] EXCEPT !.revoked = TRUE]]

-----------------------------------------------------------------------------
(* The person at the browser                                               *)

\* AuthProvider: a page that is loaded asks who is signed in, and does not refresh.
PageLoad(t) ==
  /\ tab' = [tab EXCEPT ![t] = IF jar = 0 THEN "left"
                               ELSE IF Accepts(jar) THEN "in" ELSE "expired"]
  /\ query' = [q \in Queries |-> IF query[q].tab = t THEN Idle ELSE query[q]]
  /\ excused' = (Refreshing(t) \/ (jar # 0 /\ ~Accepts(jar)))
  /\ UNCHANGED <<jar, issued, reused>>

SignIn(t) ==
  /\ tab[t] \in {"left", "expired"}
  /\ Len(issued) < MaxSessions
  /\ issued' = Append(issued, Fresh)
  /\ jar' = Len(issued) + 1
  /\ tab' = [tab EXCEPT ![t] = "in"]
  /\ excused' = AnyRefreshing(Procs)
  /\ UNCHANGED <<query, reused>>

\* logout: refused with an access token that lapsed, and the cookies stay; the tab shows
\* the sign-in page either way.
SignOut(t) ==
  /\ tab[t] = "in"
  /\ IF Accepts(jar)
     THEN issued' = [issued EXCEPT ![jar].revoked = TRUE] /\ jar' = 0
     ELSE UNCHANGED <<issued, jar>>
  /\ tab' = [tab EXCEPT ![t] = "left"]
  /\ excused' = (AnyRefreshing(Procs) \/ \E u \in Others(t) : tab[u] = "in")
  /\ UNCHANGED <<query, reused>>

-----------------------------------------------------------------------------
(* request and refreshSession                                              *)

Sent(t, s, retry) == [pc |-> "sent", tab |-> t, session |-> s, retry |-> retry]

Ask(q) ==
  /\ At(q, "idle")
  /\ \E t \in Procs : tab[t] = "in" /\ query' = [query EXCEPT ![q] = Sent(t, jar, FALSE)]
  /\ UNCHANGED <<tab, jar, issued, reused, excused>>

\* The API answers: with what was asked for, or 401; a second 401 is an error like any.
Serve(q) ==
  /\ At(q, "sent")
  /\ query' = [query EXCEPT ![q] = IF Accepts(@.session) \/ @.retry THEN Idle
                                   ELSE [@ EXCEPT !.pc = "refused"]]
  /\ UNCHANGED <<tab, jar, issued, reused, excused>>

\* One shared promise: a refresh that is under way is waited for.
Joins_Never(q) == FALSE
Joins(q)       == Refreshing(query[q].tab)

Refused(q) ==
  /\ At(q, "refused")
  /\ query' = [query EXCEPT ![q] = IF Joins(q) THEN [@ EXCEPT !.pc = "wait"]
                                   ELSE [@ EXCEPT !.pc = "ask", !.session = jar]]
  /\ excused' = (~Joins(q) /\ AnyRefreshing(Others(query[q].tab)))
  /\ UNCHANGED <<tab, jar, issued, reused>>

\* The API refreshes: a token that was replaced or revoked ends every session there is,
\* one it knows is replaced, and without one it refuses.
Refresh(q) ==
  /\ At(q, "ask")
  /\ LET s == query[q].session
         spent == s # 0 /\ (issued[s].replaced \/ issued[s].revoked)
         new   == IF s = 0 \/ spent THEN 0 ELSE Len(issued) + 1
     IN /\ new <= MaxSessions
        /\ issued' = IF new # 0 THEN Append([issued EXCEPT ![s].replaced = TRUE], Fresh)
                     ELSE IF spent THEN AllRevoked ELSE issued
        /\ reused' = (reused \/ (s # 0 /\ issued[s].replaced))
        /\ query' = [query EXCEPT ![q].pc = "answer", ![q].session = new]
  /\ UNCHANGED <<tab, jar, excused>>

\* The answer to the refresh of q, with the session s or none, resumes q and whoever
\* waits for it: they send again, once, or the tab takes the session for expired.
Settles(q, s) ==
  LET t == query[q].tab
      resumed == {r \in Queries : r = q \/ (query[r].tab = t /\ At(r, "wait"))}
  IN /\ query' = [r \in Queries |-> IF r \notin resumed THEN query[r]
                                    ELSE IF s = 0 THEN Idle ELSE Sent(t, s, TRUE)]
     /\ tab' = IF s = 0 /\ tab[t] = "in" THEN [tab EXCEPT ![t] = "expired"] ELSE tab

RefreshAnswer(q) ==
  /\ At(q, "answer")
  /\ Settles(q, query[q].session)
  /\ jar' = IF query[q].session = 0 THEN jar ELSE query[q].session
  /\ UNCHANGED <<issued, reused, excused>>

\* The network loses the request or its answer: the cookies do not arrive.
RefreshLost(q) ==
  /\ query[q].pc \in {"ask", "answer"}
  /\ Settles(q, 0)
  /\ excused' = TRUE
  /\ UNCHANGED <<jar, issued, reused>>

-----------------------------------------------------------------------------
(* Elsewhere                                                               *)

\* The quarter of an hour of an access token is over.
Lapse ==
  /\ \E s \in DOMAIN issued : issued' = [issued EXCEPT ![s].lapsed = TRUE]
  /\ UNCHANGED <<tab, jar, query, reused, excused>>

\* Another device, or an administrator, ends every session of the account.
EndElsewhere ==
  /\ issued' = AllRevoked
  /\ excused' = TRUE
  /\ UNCHANGED <<tab, jar, query, reused>>

-----------------------------------------------------------------------------

\* What comes after an excuse is not looked at: a token may then be taken for stolen.
Next ==
  /\ ~excused
  /\ \/ \E t \in Procs : PageLoad(t) \/ SignIn(t) \/ SignOut(t)
     \/ \E q \in Queries :
          \/ Ask(q) \/ Serve(q) \/ Refused(q)
          \/ Refresh(q) \/ RefreshAnswer(q) \/ RefreshLost(q)
     \/ Lapse \/ EndElsewhere

Spec == Init /\ [][Next]_vars

-----------------------------------------------------------------------------

\* The type of every variable.
TypeOK ==
  /\ tab \in [Procs -> {"closed", "in", "left", "expired"}]
  /\ jar \in 0 .. Len(issued)
  /\ \A q \in Queries :
       query[q].session \in 0 .. Len(issued) /\ query[q].tab \in Procs \cup {NoTab}
  /\ reused \in BOOLEAN /\ excused \in BOOLEAN

\* Until an answer is lost, a page is loaded with an access token that lapsed, the
\* sessions are ended elsewhere, two tabs refresh at once or one is signed in or out under
\* another: however many requests are refused at once and in whatever order, no replaced
\* token is presented, and nobody is shown the sign-in page who did not ask for it.
StaysSignedIn == ~excused => ~reused /\ \A t \in Procs : tab[t] # "expired"
=============================================================================
