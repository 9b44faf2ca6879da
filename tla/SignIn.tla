------------------------------- MODULE SignIn -------------------------------
(***************************************************************************)
(* What stands before the sessions of one account: the count of failed     *)
(* sign-ins and the lock it leads to, and the links that reset a password. *)
(* Which password is right is a choice of whoever types it.                *)
(***************************************************************************)
EXTENDS Integers, Sequences, FiniteSets

CONSTANTS
  Procs,        \* requests that can be in flight at once
  MaxAttempts,  \* login_max_attempts
  MaxMisses,    \* bound on the wrong passwords, in a row and counted
  MaxLinks      \* bound on the reset links ever sent

VARIABLES
  user,    \* the users row: failed_login_count, locked_until
  links,   \* the password_reset_tokens rows: live or used
  req,     \* what each request has read and has still to do
  width,   \* how many requests are in flight at most: one, or all there are
  misses   \* history: wrong passwords since the last right one

vars == <<user, links, req, width, misses>>

-----------------------------------------------------------------------------

Idle == [pc |-> "idle", failed |-> 0, link |-> 0]

Init ==
  /\ user = [failed |-> 0, lock |-> "none"]
  /\ links = <<>>
  /\ req = [p \in Procs |-> Idle]
  /\ width \in {1, Cardinality(Procs)}
  /\ misses = 0

Free(p) ==
  /\ req[p].pc = "idle"
  /\ Cardinality({q \in Procs : req[q].pc # "idle"}) < width

At(p, pc) == req[p].pc = pc
Done(p)   == req' = [req EXCEPT ![p] = Idle]

-----------------------------------------------------------------------------
(* login                                                                   *)

\* Refused while the lock stands; then the password is looked at.
LoginRead(p) ==
  /\ Free(p)
  /\ user.lock # "standing"
  /\ \E pc \in {"login_clear", "login_miss"} :
       req' = [req EXCEPT ![p] = [Idle EXCEPT !.pc = pc, !.failed = user.failed]]
  /\ UNCHANGED <<user, links, width, misses>>

\* registerFailedAttempt: one more than was read, and a lock or none.
LockAfter_Late(failed) == IF failed > MaxAttempts THEN "standing" ELSE "none"
LockAfter(failed)      == IF failed >= MaxAttempts THEN "standing" ELSE "none"

LoginMiss(p) ==
  /\ At(p, "login_miss")
  /\ misses < MaxMisses /\ req[p].failed < MaxMisses
  /\ user' = [failed |-> req[p].failed + 1, lock |-> LockAfter(req[p].failed + 1)]
  /\ misses' = misses + 1
  /\ Done(p)
  /\ UNCHANGED <<links, width>>

LoginClear(p) ==
  /\ At(p, "login_clear")
  /\ user' = [failed |-> 0, lock |-> "none"]
  /\ misses' = 0
  /\ Done(p)
  /\ UNCHANGED <<links, width>>

LockExpires ==
  /\ user.lock = "standing"
  /\ user' = [user EXCEPT !.lock = "expired"]
  /\ UNCHANGED <<links, req, width, misses>>

-----------------------------------------------------------------------------
(* Password reset                                                          *)

\* requestPasswordReset: the links there are, used up before a new one is made.
Voided == [l \in DOMAIN links |-> "used"]

RequestVoid(p) ==
  /\ Free(p)
  /\ links' = Voided
  /\ req' = [req EXCEPT ![p] = [Idle EXCEPT !.pc = "request_insert"]]
  /\ UNCHANGED <<user, width, misses>>

RequestInsert(p) ==
  /\ At(p, "request_insert")
  /\ Len(links) < MaxLinks
  /\ links' = Append(links, "live")
  /\ Done(p)
  /\ UNCHANGED <<user, width, misses>>

\* resetPassword: the link is looked at, and used up with the new password.  What
\* follows, the end of every session, is revokeAllSessions of Sessions.
ResetRead(p) ==
  /\ Free(p)
  /\ \E l \in DOMAIN links :
       /\ links[l] = "live"
       /\ req' = [req EXCEPT ![p] = [Idle EXCEPT !.pc = "reset_commit", !.link = l]]
  /\ UNCHANGED <<user, links, width, misses>>

ResetCommit(p) ==
  /\ At(p, "reset_commit")
  /\ links' = [links EXCEPT ![req[p].link] = "used"]
  /\ Done(p)
  /\ UNCHANGED <<user, width, misses>>

\* The process dies.
Lost(p) ==
  /\ req[p].pc # "idle" /\ width # 1
  /\ Done(p)
  /\ UNCHANGED <<user, links, width, misses>>

-----------------------------------------------------------------------------

Step(p) ==
  \/ LoginRead(p) \/ LoginMiss(p) \/ LoginClear(p)
  \/ RequestVoid(p) \/ RequestInsert(p) \/ ResetRead(p) \/ ResetCommit(p)
  \/ Lost(p)

Next == LockExpires \/ \E p \in Procs : Step(p)

Spec == Init /\ [][Next]_vars

-----------------------------------------------------------------------------

Quiet == width = 1 /\ \A p \in Procs : req[p].pc = "idle"

\* The type of every variable.
TypeOK ==
  /\ user \in [failed : 0 .. MaxMisses, lock : {"none", "standing", "expired"}]
  /\ \A l \in DOMAIN links : links[l] \in {"live", "used"}
  /\ misses \in 0 .. MaxMisses
  /\ \A p \in Procs : req[p].failed \in 0 .. MaxMisses /\ req[p].link \in 0 .. MaxLinks

\* One request at a time: the wrong passwords in a row that lead to a lock do lead to
\* it, and it is there until it has expired or the right one is given.
MissesLock ==
  Quiet => user.failed = misses /\ (misses >= MaxAttempts => user.lock # "none")

\* One request at a time: of the links ever sent only the last one still works.
LastLinkOnly ==
  Quiet => \A l \in DOMAIN links : links[l] = "live" => l = Len(links)

\* What stands before the sessions holds.
GateHolds == MissesLock /\ LastLinkOnly
=============================================================================
