----------------------------- MODULE Blacklist ------------------------------
(***************************************************************************)
(* The blacklist of one applicant: the register of entries, the flag and   *)
(* the banner that follow from it, and the block on the website's account  *)
(* that mirrors it in both directions.                                     *)
(*                                                                         *)
(* add and lift check first and write in a transaction of their own.  The  *)
(* push to the website leaves after the commit, detached, and arrives late *)
(* or twice or not at all; the website's own switch calls back here.       *)
(***************************************************************************)
EXTENDS Integers, Sequences, FiniteSets

CONSTANTS
  Procs,       \* requests that can be in flight at once
  MaxEntries   \* bound on the entries ever made

VARIABLES
  entries,   \* the blacklists rows: in force or lifted
  banner,    \* applicants.is_blacklisted
  flags,     \* the live applicant_flags
  website,   \* whether the website's account is blocked
  pushes,    \* pushes under way: how many of each kind
  missed,    \* whether the last push to end had given up
  req,       \* what each request has read and has still to do
  width      \* how many requests are in flight at most: one, or all there are

vars == <<entries, banner, flags, website, pushes, missed, req, width>>

-----------------------------------------------------------------------------

FLAG == {"blacklisted", "do_not_contact"}

InForce == {e \in DOMAIN entries : entries[e] = "in_force"}

Idle == [pc |-> "idle", origin |-> "crm", entry |-> 0, remaining |-> FALSE]

Init ==
  /\ entries = <<>>
  /\ banner = FALSE
  /\ flags = {}
  /\ website = FALSE
  /\ pushes = [action \in {"add", "lift"} |-> 0]
  /\ missed = FALSE
  /\ req = [p \in Procs |-> Idle]
  /\ width \in {1, Cardinality(Procs)}

\* A request may begin; one at a time, only when the last one's push has ended too.
Free(p) ==
  /\ req[p].pc = "idle"
  /\ Cardinality({q \in Procs : req[q].pc # "idle"}) < width
  /\ width = 1 => \A action \in {"add", "lift"} : pushes[action] = 0

At(p, pc)   == req[p].pc = pc
Goto(p, pc) == req' = [req EXCEPT ![p].pc = pc]
Done(p)     == req' = [req EXCEPT ![p] = Idle]

\* Only the CRM's own change is pushed to the website.
Tells_Back(p) == req[p].origin = "website"
Tells(p)      == req[p].origin = "crm"

\* Where a request goes once it has committed.
AfterCommit(p, pc) ==
  req' = [req EXCEPT ![p] = IF Tells(p) THEN [req[p] EXCEPT !.pc = pc] ELSE Idle]

Pushed(action) == pushes' = [pushes EXCEPT ![action] = @ + 1]

-----------------------------------------------------------------------------
(* add                                                                     *)

AddCheck(p) ==
  /\ At(p, "add_check") \/ Free(p)
  /\ InForce = {}
  /\ Goto(p, "add_commit")
  /\ UNCHANGED <<entries, banner, flags, website, pushes, missed, width>>

AddRefused(p) ==
  /\ At(p, "add_check")
  /\ InForce # {}
  /\ Done(p)
  /\ UNCHANGED <<entries, banner, flags, website, pushes, missed, width>>

AddCommit(p) ==
  /\ At(p, "add_commit")
  /\ Len(entries) < MaxEntries
  /\ entries' = Append(entries, "in_force")
  /\ banner' = TRUE
  /\ flags' = flags \cup {"blacklisted"}
  /\ AfterCommit(p, "add_push")
  /\ UNCHANGED <<website, pushes, missed, width>>

AddPush(p) ==
  /\ At(p, "add_push")
  /\ Pushed("add")
  /\ Done(p)
  /\ UNCHANGED <<entries, banner, flags, website, missed, width>>

-----------------------------------------------------------------------------
(* lift                                                                    *)

LiftRead(p) ==
  /\ Free(p)
  /\ \E e \in InForce : req' = [req EXCEPT ![p] = [Idle EXCEPT !.pc = "lift_update",
                                                               !.entry = e]]
  /\ UNCHANGED <<entries, banner, flags, website, pushes, missed, width>>

\* What is in force once the entry is lifted, as the lifting transaction sees it.
Remaining(e) == InForce \ {e} # {}

\* The row of the entry stays locked from its update to the commit.
LiftUpdate(p) ==
  /\ At(p, "lift_update")
  /\ \A q \in Procs : At(q, "lift_commit") => req[q].entry # req[p].entry
  /\ req' = [req EXCEPT ![p].pc = "lift_commit", ![p].remaining = Remaining(req[p].entry)]
  /\ UNCHANGED <<entries, banner, flags, website, pushes, missed, width>>

LiftCommit(p) ==
  /\ At(p, "lift_commit")
  /\ entries' = [entries EXCEPT ![req[p].entry] = "lifted"]
  /\ IF req[p].remaining
     THEN UNCHANGED <<banner, flags>>
     ELSE banner' = FALSE /\ flags' = flags \ {"blacklisted"}
  /\ AfterCommit(p, "lift_push")
  /\ UNCHANGED <<website, pushes, missed, width>>

\* The website is told only once nothing is in force.
LiftPush(p) ==
  /\ At(p, "lift_push")
  /\ IF InForce = {} THEN Pushed("lift") ELSE UNCHANGED pushes
  /\ Done(p)
  /\ UNCHANGED <<entries, banner, flags, website, missed, width>>

-----------------------------------------------------------------------------
(* The website: applyFromWebsite, and what becomes of a push               *)

\* Its switch is turned and the CRM is called: a block where none is in force goes on to
\* add, an unblock to lift; where the two agree already nothing is left to do.
WebsiteSwitch(p) ==
  /\ Free(p)
  /\ \E block \in BOOLEAN :
       /\ website' = block
       /\ req' = [req EXCEPT ![p] = [Idle EXCEPT
                    !.pc = IF block THEN "site_block" ELSE "site_unblock",
                    !.origin = "website"]]
  /\ UNCHANGED <<entries, banner, flags, pushes, missed, width>>

SiteBlock(p) ==
  /\ At(p, "site_block")
  /\ IF InForce = {} THEN Goto(p, "add_check") ELSE Done(p)
  /\ UNCHANGED <<entries, banner, flags, website, pushes, missed, width>>

SiteUnblock(p) ==
  /\ At(p, "site_unblock")
  /\ \/ InForce = {} /\ Done(p)
     \/ \E e \in InForce : req' = [req EXCEPT ![p].pc = "lift_update", ![p].entry = e]
  /\ UNCHANGED <<entries, banner, flags, website, pushes, missed, width>>

\* A push arrives; when its answer does not, it is sent again.
PushArrives(action) ==
  /\ pushes[action] > 0
  /\ website' = (action = "add")
  /\ \/ /\ pushes' = [pushes EXCEPT ![action] = @ - 1]
        /\ missed' = FALSE
     \/ UNCHANGED <<pushes, missed>>
  /\ UNCHANGED <<entries, banner, flags, req, width>>

\* Every attempt has failed.
PushGivesUp(action) ==
  /\ pushes[action] > 0
  /\ pushes' = [pushes EXCEPT ![action] = @ - 1]
  /\ missed' = TRUE
  /\ UNCHANGED <<entries, banner, flags, website, req, width>>

-----------------------------------------------------------------------------
(* setFlag and removeFlag                                                  *)

\* The flag of the register is not set or removed by hand.
ByHand_Any(flag) == TRUE
ByHand(flag)     == flag # "blacklisted"

SetFlag(flag) ==
  /\ ByHand(flag) /\ flag \notin flags
  /\ flags' = flags \cup {flag}
  /\ UNCHANGED <<entries, banner, website, pushes, missed, req, width>>

RemoveFlag(flag) ==
  /\ ByHand(flag) /\ flag \in flags
  /\ flags' = flags \ {flag}
  /\ UNCHANGED <<entries, banner, website, pushes, missed, req, width>>

\* The process dies.
Lost(p) ==
  /\ req[p].pc # "idle" /\ width # 1
  /\ Done(p)
  /\ UNCHANGED <<entries, banner, flags, website, pushes, missed, width>>

-----------------------------------------------------------------------------

Step(p) ==
  \/ AddCheck(p) \/ AddRefused(p) \/ AddCommit(p) \/ AddPush(p)
  \/ LiftRead(p) \/ LiftUpdate(p) \/ LiftCommit(p) \/ LiftPush(p)
  \/ WebsiteSwitch(p) \/ SiteBlock(p) \/ SiteUnblock(p)
  \/ Lost(p)

Next ==
  \/ \E p \in Procs : Step(p)
  \/ \E action \in {"add", "lift"} : PushArrives(action) \/ PushGivesUp(action)
  \/ \E flag \in FLAG : SetFlag(flag) \/ RemoveFlag(flag)

Spec == Init /\ [][Next]_vars

-----------------------------------------------------------------------------

Quiet == width = 1 /\ \A p \in Procs : req[p].pc = "idle"

\* The type of every variable.
TypeOK ==
  /\ \A e \in DOMAIN entries : entries[e] \in {"in_force", "lifted"}
  /\ banner \in BOOLEAN /\ flags \subseteq FLAG
  /\ website \in BOOLEAN /\ missed \in BOOLEAN
  /\ \A action \in {"add", "lift"} : pushes[action] \in Nat
  /\ \A p \in Procs : req[p].entry \in 0 .. MaxEntries /\ req[p].origin \in {"crm", "website"}

\* The banner and the flag never part, whatever runs beside what; and one request at
\* a time they show exactly whether the register holds an entry in force.
FlagFollowsRegister ==
  /\ banner <=> "blacklisted" \in flags
  /\ Quiet => (banner <=> InForce # {})

\* One request at a time, each with its push: the website blocks the account exactly
\* when an entry is in force here, unless the last push to it has given up.
WebsiteAgrees ==
  Quiet /\ ~missed /\ (\A action \in {"add", "lift"} : pushes[action] = 0)
    => (website <=> InForce # {})
=============================================================================
