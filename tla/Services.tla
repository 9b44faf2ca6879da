------------------------------ MODULE Services ------------------------------
(***************************************************************************)
(* The components that go on after the answer has been given: the cache,   *)
(* the messages that are sent and the exports that are rendered and swept. *)
(* They share no state.  Which of them is at work is chosen at the start   *)
(* and stays, as in Desks; each keeps its own fairness.                    *)
(***************************************************************************)
EXTENDS Integers, FiniteSets

CONSTANTS
  Procs,                            \* requests or sends under way at once
  Life, MaxWrites,                  \* of TaggedCache
  Kinds, MaxMessages, MaxAttempts,  \* of Outbox
  MaxJobs                           \* of ExportJobs

ASSUME ProcsAssumption  == IsFiniteSet(Procs)
ASSUME BoundsAssumption == Life \in Nat /\ MaxWrites \in Nat /\ MaxAttempts \in Nat \ {0}

VARIABLES
  service,                                                 \* the component at work
  stored, entry, tag, missed, req, width,                  \* of TaggedCache
  messages, sends, accepted, unclear, stranded, attempts,  \* of Outbox
  calm,                                                    \* of Outbox
  jobs, worker, objects, sweep, unclaimed                  \* of ExportJobs

-----------------------------------------------------------------------------

C == INSTANCE TaggedCache
O == INSTANCE Outbox
E == INSTANCE ExportJobs

C_vars == <<stored, entry, tag, missed, req, width>>
O_vars == <<messages, sends, accepted, unclear, stranded, attempts, calm>>
E_vars == <<jobs, worker, objects, sweep, unclaimed>>

vars == <<service, C_vars, O_vars, E_vars>>

-----------------------------------------------------------------------------

Init ==
  /\ service \in {"cache", "outbox", "exports"}
  /\ C!Init
  /\ O!Init
  /\ E!Init

Next ==
  \/ service = "cache" /\ C!Next /\ UNCHANGED <<service, O_vars, E_vars>>
  \/ service = "outbox" /\ O!Next /\ UNCHANGED <<service, C_vars, E_vars>>
  \/ service = "exports" /\ E!Next /\ UNCHANGED <<service, C_vars, O_vars>>

\* What each component relies on.  None of it asks anything of a component that is not
\* at work: what is fair there is never enabled.
Spec == Init /\ [][Next]_vars /\ C!Fairness /\ O!Fairness /\ E!Fairness

-----------------------------------------------------------------------------

\* The type of every variable.
TypeOK ==
  /\ service \in {"cache", "outbox", "exports"}
  /\ C!TypeOK
  /\ O!TypeOK
  /\ E!TypeOK

\* One request at a time: what was saved is what the cache serves, unless the bust of
\* its tag failed (cache.service.ts, remember and invalidateTags).
SavedIsServed == C!SavedIsServed

\* Whatever races, fails or dies, an entry that is out of date is not served for ever
\* (cache.service.ts, set).
StalenessEnds == C!StalenessEnds

\* A message that says sent was taken by the provider, and in the well-behaved run none
\* is taken twice (communications.service.ts, deliver and retry).
AcceptedOnce == O!AcceptedOnce

\* In the well-behaved run every message is told how its send ended, but for those a
\* failed statement has left queued (communications.service.ts, deliver and retry).
OutcomeRecorded == O!OutcomeRecorded

\* Every file of an export leaves the bucket in the end, but for those no job came to
\* name (exports.service.ts, process and sweepExpiredArtefacts).
ArtefactsGo == E!ArtefactsGo
=============================================================================
