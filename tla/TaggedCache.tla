---------------------------- MODULE TaggedCache -----------------------------
(***************************************************************************)
(* One read-through entry of the cache, the tag it is registered under,    *)
(* and what it is a copy of: the grid of a role, say, which an             *)
(* administrator saves and every request reads.  Saving commits first and  *)
(* busts the tag afterwards.  Every error of Redis is swallowed.           *)
(***************************************************************************)
EXTENDS Integers, FiniteSets

CONSTANTS
  Procs,     \* requests that can be in flight at once
  Life,      \* the ticks an entry lives for
  MaxWrites  \* bound on the versions ever saved

VARIABLES
  stored,  \* the version in the database
  entry,   \* the cached version, none or one, and the ticks it has left
  tag,     \* whether the tag's set names the entry, and the ticks the set has left
  missed,  \* whether the last bust to be due did not take place
  req,     \* what each request has read and has still to do
  width    \* how many requests are in flight at most: one, or all there are

vars == <<stored, entry, tag, missed, req, width>>

-----------------------------------------------------------------------------

NoEntry == [value |-> {}, left |-> 0]
NoTag   == [names |-> FALSE, left |-> 0]

Idle == [pc |-> "idle", value |-> {}, names |-> FALSE]

Init ==
  /\ stored = 0
  /\ entry = NoEntry
  /\ tag = NoTag
  /\ missed = FALSE
  /\ req = [p \in Procs |-> Idle]
  /\ width \in {1, Cardinality(Procs)}

Free(p) ==
  /\ req[p].pc = "idle"
  /\ Cardinality({q \in Procs : req[q].pc # "idle"}) < width

At(p, pc)   == req[p].pc = pc
Goto(p, pc) == req' = [req EXCEPT ![p].pc = pc]
Done(p)     == req' = [req EXCEPT ![p] = Idle]

\* Tag sets outlive their members slightly.
TagLife_Short == Life - 1
TagLife_Twice == Life + 2
TagLife       == Life + 1

\* Redis counts down what it holds.
Tick ==
  /\ entry.left > 0 \/ tag.left > 0
  /\ entry' = IF entry.left > 1 THEN [entry EXCEPT !.left = entry.left - 1] ELSE NoEntry
  /\ tag' = IF tag.left > 1 THEN [tag EXCEPT !.left = tag.left - 1] ELSE NoTag
  /\ UNCHANGED <<stored, missed, req, width>>

-----------------------------------------------------------------------------
(* remember                                                                *)

\* What a hit does to the entry.
AfterHit_Slides == [entry EXCEPT !.left = Life]
AfterHit        == entry

Hit(p) ==
  /\ Free(p)
  /\ entry.value # {}
  /\ entry' = AfterHit
  /\ UNCHANGED <<stored, tag, missed, req, width>>

\* Nothing is there, or Redis does not say.
Miss(p) ==
  /\ Free(p)
  /\ Goto(p, "load")
  /\ UNCHANGED <<stored, entry, tag, missed, width>>

Load(p) ==
  /\ At(p, "load")
  /\ req' = [req EXCEPT ![p] = [Idle EXCEPT !.pc = "set", !.value = {stored}]]
  /\ UNCHANGED <<stored, entry, tag, missed, width>>

\* set: one pipeline, between whose commands those of others may run.
SetEntry(p) ==
  /\ At(p, "set")
  /\ entry' = [value |-> req[p].value, left |-> Life]
  /\ Goto(p, "register")
  /\ UNCHANGED <<stored, tag, missed, width>>

Register(p) ==
  /\ At(p, "register")
  /\ tag' = [names |-> TRUE, left |-> TagLife]
  /\ Done(p)
  /\ UNCHANGED <<stored, entry, missed, width>>

-----------------------------------------------------------------------------
(* Saving, and invalidateTags                                              *)

Save(p) ==
  /\ Free(p)
  /\ stored < MaxWrites
  /\ stored' = stored + 1
  /\ Goto(p, "members")
  /\ UNCHANGED <<entry, tag, missed, width>>

Members(p) ==
  /\ At(p, "members")
  /\ req' = [req EXCEPT ![p].pc = "bust", ![p].names = tag.names]
  /\ UNCHANGED <<stored, entry, tag, missed, width>>

Bust(p) ==
  /\ At(p, "bust")
  /\ entry' = IF req[p].names THEN NoEntry ELSE entry
  /\ tag' = NoTag
  /\ missed' = FALSE
  /\ Done(p)
  /\ UNCHANGED <<stored, width>>

\* Redis is away, or the process dies: what was to be stored or busted is not.  A set
\* that is cut off between its commands leaves an entry no tag names.
Fails(p) ==
  /\ req[p].pc # "idle" /\ (width # 1 \/ ~At(p, "register"))
  /\ missed' = (missed \/ req[p].pc \in {"members", "bust"})
  /\ Done(p)
  /\ UNCHANGED <<stored, entry, tag, width>>

-----------------------------------------------------------------------------

Step(p) ==
  \/ Hit(p) \/ Miss(p) \/ Load(p) \/ SetEntry(p) \/ Register(p)
  \/ Save(p) \/ Members(p) \/ Bust(p)
  \/ Fails(p)

Next == Tick \/ \E p \in Procs : Step(p)

\* Redis lets what it holds run out.
Fairness == WF_vars(Tick)

Spec == Init /\ [][Next]_vars /\ Fairness

-----------------------------------------------------------------------------

\* The type of every variable.
TypeOK ==
  /\ stored \in 0 .. MaxWrites
  /\ entry.value \subseteq 0 .. MaxWrites /\ entry.left \in 0 .. Life
  /\ tag.names \in BOOLEAN /\ tag.left \in 0 .. Life + 1
  /\ missed \in BOOLEAN
  /\ \A p \in Procs : req[p].value \subseteq 0 .. MaxWrites /\ req[p].names \in BOOLEAN

Stale == entry.value \notin {{}, {stored}}

\* One request at a time: what was saved is what is served, unless its bust failed.
SavedIsServed ==
  width = 1 /\ ~missed /\ (\A p \in Procs : At(p, "idle")) => ~Stale

\* Whatever races, fails or dies, an entry that is out of date is not served for ever.
StalenessEnds == Stale ~> ~Stale
=============================================================================
