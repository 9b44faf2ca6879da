----------------------------- MODULE ExportJobs -----------------------------
(***************************************************************************)
(* Exports: a job is queued and answered, rendered by itself into a file   *)
(* in the bucket, offered for a day, and swept by an hourly job.  The file *)
(* holds personal data and must not stay.                                  *)
(***************************************************************************)
EXTENDS Integers, Sequences

CONSTANTS MaxJobs   \* bound on the jobs ever queued

VARIABLES
  jobs,      \* the export_jobs rows: status, storage key, expires_at in the past
  worker,    \* how far the rendering of each job is
  objects,   \* the jobs whose file is in the bucket
  sweep,     \* the sweep under way: the jobs it has read, and the one it has deleted
  unclaimed  \* history: files whose job never came to name them

vars == <<jobs, worker, objects, sweep, unclaimed>>

-----------------------------------------------------------------------------

Jobs == DOMAIN jobs

NoSweep == [list |-> {}, gone |-> {}]

Init ==
  /\ jobs = <<>>
  /\ worker = <<>>
  /\ objects = {}
  /\ sweep = NoSweep
  /\ unclaimed = {}

Goto(j, pc) == worker' = [worker EXCEPT ![j] = pc]

-----------------------------------------------------------------------------
(* queue and process                                                       *)

Queue ==
  /\ Len(jobs) < MaxJobs
  /\ jobs' = Append(jobs, [status |-> "queued", key |-> FALSE, due |-> FALSE])
  /\ worker' = Append(worker, "start")
  /\ UNCHANGED <<objects, sweep, unclaimed>>

Start(j) ==
  /\ worker[j] = "start"
  /\ jobs' = [jobs EXCEPT ![j].status = "running"]
  /\ Goto(j, "put")
  /\ UNCHANGED <<objects, sweep, unclaimed>>

Put(j) ==
  /\ worker[j] = "put"
  /\ objects' = objects \cup {j}
  /\ Goto(j, "complete")
  /\ UNCHANGED <<jobs, sweep, unclaimed>>

\* The row as it is once the file is there.
Completed(job) == [job EXCEPT !.status = "completed", !.key = TRUE]

Complete(j) ==
  /\ worker[j] = "complete"
  /\ jobs' = [jobs EXCEPT ![j] = Completed(jobs[j])]
  /\ Goto(j, "notify")
  /\ UNCHANGED <<objects, sweep, unclaimed>>

Notify(j) ==
  /\ worker[j] = "notify"
  /\ Goto(j, "ended")
  /\ UNCHANGED <<jobs, objects, sweep, unclaimed>>

\* Any step of it fails, the notification too: the job is marked failed.
JobFails(j) ==
  /\ worker[j] \in {"start", "put", "complete", "notify"}
  /\ jobs' = [jobs EXCEPT ![j].status = "failed"]
  /\ unclaimed' = IF worker[j] = "complete" THEN unclaimed \cup {j} ELSE unclaimed
  /\ Goto(j, "ended")
  /\ UNCHANGED <<objects, sweep>>

-----------------------------------------------------------------------------
(* sweepExpiredArtefacts                                                   *)

Expire(j) ==
  /\ jobs[j].key /\ ~jobs[j].due
  /\ jobs' = [jobs EXCEPT ![j].due = TRUE]
  /\ UNCHANGED <<worker, objects, sweep, unclaimed>>

\* Every hour: the jobs that still name a file and are past their time, whatever became
\* of the job.
Sweepable_Completed(j) == jobs[j].key /\ jobs[j].due /\ jobs[j].status = "completed"
Sweepable(j)           == jobs[j].key /\ jobs[j].due

SweepRead ==
  /\ sweep = NoSweep
  /\ \E j \in Jobs : Sweepable(j)
  /\ sweep' = [list |-> {j \in Jobs : Sweepable(j)}, gone |-> {}]
  /\ UNCHANGED <<jobs, worker, objects, unclaimed>>

\* One after the other, in whatever order the rows were returned.
SweepDelete(j) ==
  /\ sweep.gone = {} /\ j \in sweep.list
  /\ objects' = objects \ {j}
  /\ sweep' = [list |-> sweep.list \ {j}, gone |-> {j}]
  /\ UNCHANGED <<jobs, worker, unclaimed>>

SweepMark(j) ==
  /\ j \in sweep.gone
  /\ jobs' = [jobs EXCEPT ![j].key = FALSE]
  /\ sweep' = [sweep EXCEPT !.gone = {}]
  /\ UNCHANGED <<worker, objects, unclaimed>>

\* The bucket or the database refuses: the rest is left to the next hour.
SweepFails ==
  /\ sweep # NoSweep
  /\ sweep' = NoSweep
  /\ UNCHANGED <<jobs, worker, objects, unclaimed>>

\* The process dies: no job is taken up again.
Crash ==
  /\ worker' = [j \in Jobs |-> "ended"]
  /\ unclaimed' = unclaimed \cup {j \in Jobs : worker[j] = "complete"}
  /\ sweep' = NoSweep
  /\ UNCHANGED <<jobs, objects>>

-----------------------------------------------------------------------------

Next ==
  \/ Queue \/ SweepRead \/ SweepFails \/ Crash
  \/ \E j \in Jobs :
       Start(j) \/ Put(j) \/ Complete(j) \/ Notify(j) \/ JobFails(j)
       \/ Expire(j) \/ SweepDelete(j) \/ SweepMark(j)

\* A worker runs on, a day passes, the hourly job comes round, and no file is refused
\* for ever by the bucket.
Worker(j) == Put(j) \/ Complete(j) \/ Notify(j) \/ JobFails(j)

JobFairness(j) ==
  /\ WF_vars(j \in Jobs /\ Worker(j)) /\ WF_vars(j \in Jobs /\ Expire(j))
  /\ SF_vars(j \in Jobs /\ SweepDelete(j)) /\ WF_vars(j \in Jobs /\ SweepMark(j))

Fairness == WF_vars(SweepRead) /\ \A j \in 1 .. MaxJobs : JobFairness(j)

Spec == Init /\ [][Next]_vars /\ Fairness

-----------------------------------------------------------------------------

\* The type of every variable.
TypeOK ==
  /\ \A j \in Jobs :
       jobs[j] \in [status : {"queued", "running", "completed", "failed"},
                    key : BOOLEAN, due : BOOLEAN]
  /\ objects \subseteq Jobs /\ unclaimed \subseteq objects
  /\ sweep.list \subseteq Jobs /\ sweep.gone \subseteq Jobs
  /\ \A j \in Jobs : worker[j] \in {"start", "put", "complete", "notify", "ended"}

\* A file that some row names is still stored.
Lingers(j) == j \in objects \ unclaimed

\* Every file goes in the end, whatever fails on the way, but for those that were stored
\* and never named.
ArtefactsGo == \A j \in 1 .. MaxJobs : Lingers(j) ~> ~Lingers(j)
=============================================================================
