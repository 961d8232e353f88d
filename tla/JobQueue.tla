------------------------------ MODULE JobQueue ------------------------------
(***************************************************************************)
(* The PostgreSQL job queue of backend/app/worker.py and                   *)
(* backend/app/services/jobs.py.  Rows of scheduled_jobs are claimed by    *)
(* the job slots of one or more worker processes, run, and reported done   *)
(* or failed; the scheduler puts the rows of vanished workers back, and    *)
(* the API cancels or deletes the rows of a collection.                    *)
(*                                                                         *)
(* Every action is one database transaction, except claim_job, whose       *)
(* statement snapshot and commit are two actions (ClaimJob, CommitClaim):  *)
(* what another slot has selected but not committed is invisible to the    *)
(* count of an organization's running jobs.  What a handler does between   *)
(* claim and report is left open here; MessageDelivery fills it in.        *)
(***************************************************************************)
EXTENDS Integers, FiniteSets

CONSTANTS Jobs,         \* row identities; a row never comes back once deleted
          Slots,        \* job slots of all worker processes
          Workers,      \* worker processes
          Orgs,         \* organizations
          NoOrg,        \* organization_id IS NULL (platform inbox, billing)
          NoKey,        \* dedupe_key IS NULL
          NoJob,        \* a slot without a job
          OrgOf,        \* [Jobs -> Orgs \cup {NoOrg}]
          KeyOf,        \* dedupe key of each job
          Priority,     \* [Jobs -> Nat], lower runs first
          WorkerOf,     \* [Slots -> Workers]
          CollectionJobs, \* the jobs of the collection the API cancels or deletes
          MaxAttempts,  \* settings.job_max_attempts
          OrgCap,       \* settings.worker_max_jobs_per_organization
          MaxFaults     \* bound on crashes and lost transactions

ASSUME QueueAssumption ==
  /\ IsFiniteSet(Jobs) /\ IsFiniteSet(Slots)
  /\ NoOrg \notin Orgs /\ NoJob \notin Jobs
  /\ OrgOf \in [Jobs -> Orgs \cup {NoOrg}]
  /\ Priority \in [Jobs -> Nat]
  /\ WorkerOf \in [Slots -> Workers]
  /\ CollectionJobs \subseteq Jobs
  /\ MaxAttempts \in Nat \ {0}
  /\ OrgCap \in Nat \ {0}
  /\ MaxFaults \in Nat

VARIABLES job,        \* the rows: status, attempts, and whether scheduled_at <= now
          slot,       \* what each slot is doing: pc, job, attempts of its detached copy
          cancelling, \* rows a cancel request has read as pending and not yet written
          collection, \* "live", "cancelling", "cancelled" or "deleted"
          faults,     \* crashes and lost transactions so far
          overtaken   \* history: jobs taken back while a slot was still running them

vars == <<job, slot, cancelling, collection, faults, overtaken>>

Active   == {"pending", "running"}
Finished == {"done", "failed", "cancelled"}
\* "absent" before it is enqueued, "gone" once purged or deleted.
Status   == {"absent", "gone"} \cup Active \cup Finished

Idle == [pc |-> "idle", job |-> NoJob, attempt |-> 0]

\* A claim that has locked its row (FOR UPDATE) and not committed.
Locked(j) == \E s \in Slots : slot[s].pc = "claiming" /\ slot[s].job = j
Holders(j) == {s \in Slots : slot[s].pc = "working" /\ slot[s].job = j}
Running(o) == {j \in Jobs : job[j].status = "running" /\ OrgOf[j] = o}

\* The partial unique index uq_scheduled_jobs_active_dedupe would accept j as active.
KeyFree(j) ==
  \/ KeyOf[j] = NoKey
  \/ \A i \in Jobs \ {j} : KeyOf[i] = KeyOf[j] => job[i].status \notin Active

Init ==
  /\ job = [j \in Jobs |-> [status |-> "absent", attempts |-> 0, due |-> FALSE]]
  /\ slot = [s \in Slots |-> Idle]
  /\ cancelling = {}
  /\ collection = "live"
  /\ faults = 0
  /\ overtaken = {}

-----------------------------------------------------------------------------
(* Producers *)

\* enqueue_unique and the job constructors: a new row unless its key is active.
EnqueueUnique(j, due) ==
  /\ job[j].status = "absent"
  /\ KeyFree(j)
  /\ j \in CollectionJobs => collection # "deleted"
  /\ job' = [job EXCEPT ![j] = [status |-> "pending", attempts |-> 0, due |-> due]]
  /\ UNCHANGED <<slot, cancelling, collection, faults, overtaken>>

\* scheduled_at passes.
BecomeDue(j) ==
  /\ job[j].status = "pending" /\ ~job[j].due
  /\ job' = [job EXCEPT ![j].due = TRUE]
  /\ UNCHANGED <<slot, cancelling, collection, faults, overtaken>>

-----------------------------------------------------------------------------
(* A job slot *)

\* (Mutant) No share per organization.
NeverSaturated(o) == FALSE

Saturated(o) == o \in Orgs /\ Cardinality(Running(o)) >= OrgCap

\* (Mutant) FOR UPDATE without SKIP LOCKED and without looking at the row again.
ClaimableLocked(j) ==
  job[j].status = "pending" /\ job[j].due /\ ~Saturated(OrgOf[j])

Claimable(j) ==
  /\ job[j].status = "pending" /\ job[j].due
  /\ ~Saturated(OrgOf[j])
  /\ ~Locked(j)              \* SKIP LOCKED

\* claim_job, the SELECT ... FOR UPDATE SKIP LOCKED with its snapshot.
ClaimJob(s) ==
  /\ slot[s].pc = "idle"
  /\ \E j \in Jobs :
       /\ Claimable(j)
       /\ \A i \in Jobs : Claimable(i) => Priority[j] <= Priority[i]
       /\ slot' = [slot EXCEPT ![s] = [pc |-> "claiming", job |-> j, attempt |-> 0]]
  /\ UNCHANGED <<job, cancelling, collection, faults, overtaken>>

\* (Mutant) The attempt is counted when it ends.
CommitWithoutCount(s) ==
  /\ slot[s].pc = "claiming"
  /\ job' = [job EXCEPT ![slot[s].job].status = "running"]
  /\ slot' = [slot EXCEPT ![s].pc = "working", ![s].attempt = job[slot[s].job].attempts]
  /\ UNCHANGED <<cancelling, collection, faults, overtaken>>

\* claim_job, the update and commit; the slot keeps a detached copy of the row.
CommitClaim(s) ==
  /\ slot[s].pc = "claiming"
  /\ LET j == slot[s].job
         n == job[j].attempts + 1
     IN /\ job' = [job EXCEPT ![j].status = "running", ![j].attempts = n]
        /\ slot' = [slot EXCEPT ![s] = [pc |-> "working", job |-> j, attempt |-> n]]
  /\ UNCHANGED <<cancelling, collection, faults, overtaken>>

\* complete_job: unconditional, whoever holds the row now.
CompleteJob(s) ==
  /\ slot[s].pc = "working"
  /\ LET j == slot[s].job
     IN /\ ~Locked(j)
        /\ job' = IF job[j].status = "gone" THEN job
                  ELSE [job EXCEPT ![j].status = "done"]
  /\ slot' = [slot EXCEPT ![s] = Idle]
  /\ UNCHANGED <<cancelling, collection, faults, overtaken>>

\* (Mutant) Retries without a limit.
RetryForever(s, retryable) == retryable

\* fail_job decides from the slot's own copy of attempts, not from the row.
WillRetry(s, retryable) == retryable /\ slot[s].attempt < MaxAttempts

\* fail_job.  A row put back as pending must pass the unique index; when it does
\* not, the transaction fails, job_slot logs that and the row stays as it was.
FailJob(s, retryable) ==
  /\ slot[s].pc = "working"
  /\ LET j == slot[s].job
     IN /\ ~Locked(j)
        /\ job' = IF \/ job[j].status = "gone"
                     \/ WillRetry(s, retryable) /\ ~KeyFree(j)
                  THEN job
                  ELSE [job EXCEPT ![j].status = IF WillRetry(s, retryable)
                                                 THEN "pending" ELSE "failed",
                                   ![j].due = FALSE]
  /\ slot' = [slot EXCEPT ![s] = Idle]
  /\ UNCHANGED <<cancelling, collection, faults, overtaken>>

-----------------------------------------------------------------------------
(* Faults *)

\* The transaction of a claim, or of the failure report, is lost: job_slot logs it
\* and goes on, and the row is as it was.
LoseTransaction(s) ==
  /\ faults < MaxFaults
  /\ slot[s].pc # "idle"
  /\ faults' = faults + 1
  /\ slot' = [slot EXCEPT ![s] = Idle]
  /\ UNCHANGED <<job, cancelling, collection, overtaken>>

\* A worker process dies with all its slots, and is started again.
Crash(w) ==
  /\ faults < MaxFaults
  /\ faults' = faults + 1
  /\ \E s \in Slots : WorkerOf[s] = w /\ slot[s].pc # "idle"
  /\ slot' = [s \in Slots |-> IF WorkerOf[s] = w THEN Idle ELSE slot[s]]
  /\ UNCHANGED <<job, cancelling, collection, overtaken>>

-----------------------------------------------------------------------------
(* Scheduler and API *)

\* (Mutant) Only jobs with attempts left are recovered.
RecoverUnfinished(S) ==
  /\ S # {}
  /\ \A j \in S : job[j].status = "running" /\ job[j].attempts < MaxAttempts
  /\ job' = [j \in Jobs |-> IF j \in S THEN [job[j] EXCEPT !.status = "pending", !.due = TRUE]
                            ELSE job[j]]
  /\ overtaken' = overtaken \cup {j \in S : Holders(j) # {}}
  /\ UNCHANGED <<slot, cancelling, collection, faults>>

\* recover_stale_jobs: any running row may be older than job_stale_after_seconds,
\* also one whose slot is still waiting for a slow provider.
RecoverStaleJobs(S) ==
  /\ S # {}
  /\ \A j \in S : job[j].status = "running"
  /\ job' = [j \in Jobs |->
               IF j \notin S THEN job[j]
               ELSE IF job[j].attempts < MaxAttempts
                    THEN [job[j] EXCEPT !.status = "pending", !.due = TRUE]
                    ELSE [job[j] EXCEPT !.status = "failed"]]
  /\ overtaken' = overtaken \cup {j \in S : Holders(j) # {}}
  /\ UNCHANGED <<slot, cancelling, collection, faults>>

\* purge_finished_jobs; a job runs far shorter than the retention of 30 days.
PurgeFinishedJobs(j) ==
  /\ job[j].status \in Finished
  /\ Holders(j) = {} /\ j \notin cancelling
  /\ job' = [job EXCEPT ![j].status = "gone"]
  /\ UNCHANGED <<slot, cancelling, collection, faults, overtaken>>

\* cancel_collection reads the collection's jobs without locking their rows ...
CancelRead ==
  /\ collection = "live"
  /\ collection' = "cancelling"
  /\ cancelling' = {j \in CollectionJobs : job[j].status = "pending"}
  /\ UNCHANGED <<job, slot, faults, overtaken>>

\* ... and writes by primary key those it read as pending, once no claim locks them.
CancelWrite ==
  /\ collection = "cancelling"
  /\ \A j \in cancelling : ~Locked(j)
  /\ collection' = "cancelled"
  /\ cancelling' = {}
  /\ job' = [j \in Jobs |-> IF j \in cancelling
                            THEN [job[j] EXCEPT !.status = "cancelled"] ELSE job[j]]
  /\ UNCHANGED <<slot, faults, overtaken>>

\* delete_collection: every job row of a collection that was never activated,
\* the one a slot has just claimed included.
DeleteCollection ==
  /\ collection = "live"
  /\ \A j \in CollectionJobs : ~Locked(j)
  /\ collection' = "deleted"
  /\ job' = [j \in Jobs |-> IF j \in CollectionJobs
                            THEN [job[j] EXCEPT !.status = "gone"] ELSE job[j]]
  /\ UNCHANGED <<slot, cancelling, faults, overtaken>>

-----------------------------------------------------------------------------
SlotStep(s) ==
  \/ ClaimJob(s) \/ CommitClaim(s) \/ CompleteJob(s)
  \/ \E r \in BOOLEAN : FailJob(s, r)
  \/ LoseTransaction(s)

Next ==
  \/ \E j \in Jobs : \/ \E due \in BOOLEAN : EnqueueUnique(j, due)
                     \/ BecomeDue(j)
                     \/ PurgeFinishedJobs(j)
  \/ \E s \in Slots : SlotStep(s)
  \/ \E w \in Workers : Crash(w)
  \/ \E S \in SUBSET Jobs : RecoverStaleJobs(S)
  \/ CancelRead \/ CancelWrite \/ DeleteCollection

Spec == Init /\ [][Next]_vars

\* Slots keep polling, every handler returns (all its network calls have timeouts),
\* time passes, the API request ends, and the scheduler's periodic recovery takes
\* back the rows no slot is working on.
Orphans == {j \in Jobs : job[j].status = "running" /\ Holders(j) = {}}

Fairness ==
  /\ \A s \in Slots :
       /\ WF_vars(ClaimJob(s))
       /\ WF_vars(CommitClaim(s))
       /\ WF_vars(CompleteJob(s) \/ \E r \in BOOLEAN : FailJob(s, r))
  /\ \A j \in Jobs : WF_vars(BecomeDue(j))
  /\ WF_vars(CancelWrite)
  /\ WF_vars(RecoverStaleJobs(Orphans))

FairSpec == Spec /\ Fairness

-----------------------------------------------------------------------------
(* Properties *)

\* Type invariant: rows, slots and the cancel request have the shapes of the code.
TypeOK ==
  /\ job \in [Jobs -> [status : Status, attempts : Nat, due : BOOLEAN]]
  /\ slot \in [Slots -> [pc : {"idle", "claiming", "working"},
                         job : Jobs \cup {NoJob}, attempt : Nat]]
  /\ \A s \in Slots : (slot[s].pc = "idle") = (slot[s].job = NoJob)
  /\ cancelling \in SUBSET CollectionJobs
  /\ collection \in {"live", "cancelling", "cancelled", "deleted"}
  /\ faults \in 0..MaxFaults
  /\ overtaken \in SUBSET Jobs

\* However often recovery hands a job to another slot while the first still runs,
\* no two slots run the same attempt of the same job, and the row counts every
\* attempt handed out: claim_job's row lock and attempts += 1 identify a run.
AttemptHeldOnce ==
  \A s, t \in Slots :
     slot[s].pc = "working" /\ slot[t].pc = "working" /\ slot[s].job = slot[t].job
       => /\ slot[s].attempt <= job[slot[s].job].attempts
          /\ s # t => slot[s].attempt # slot[t].attempt

\* fail_job compares the slot's stale copy of attempts with job_max_attempts, so a
\* job that recovery overtook can run more often than that; never more than twice
\* as often less one, since each of the first MaxAttempts - 1 copies reports once.
AttemptsBounded == \A j \in Jobs : job[j].attempts <= 2 * MaxAttempts - 1

\* A job that was never taken from a running slot has one owner: while a slot works
\* on it no other slot has it, and complete_job and fail_job, which check neither
\* owner nor attempt, find the attempt they ran (or a cancelled or deleted row).
OwnerUntilOvertaken ==
  \A s \in Slots :
     LET j == slot[s].job IN
     slot[s].pc = "working" /\ j \notin overtaken =>
       /\ Holders(j) = {s}
       /\ job[j].status \in {"running", "cancelled", "gone"}
       /\ job[j].attempts = slot[s].attempt

\* The unlocked count in claim_job lets an organization exceed its share only by
\* the slots that race: it never has more than OrgCap - 1 + |Slots| running jobs,
\* whatever the recoveries, crashes and late reports.
OrgShareBounded ==
  \A o \in Orgs : Cardinality(Running(o)) <= OrgCap - 1 + Cardinality(Slots)

\* One logical piece of work is active at most once, also when a late failure
\* report revives a finished row whose key has been enqueued again.
ActiveKeyUnique ==
  \A i, j \in Jobs :
     i # j /\ KeyOf[i] = KeyOf[j] /\ KeyOf[i] # NoKey =>
       ~(job[i].status \in Active /\ job[j].status \in Active)

\* A job recorded as done stays done until it is purged, deleted or overwritten by
\* the cancel request that had read it as pending, unless recovery overtook it.
DoneIsFinal ==
  [][\A j \in Jobs : job[j].status = "done" /\ j \notin overtaken
        => \/ job'[j].status \in {"done", "gone"}
           \/ j \in cancelling /\ job'[j].status = "cancelled"]_vars

\* The documented share, worker.py:6-7: "never lets a single organization occupy
\* more than worker_max_jobs_per_organization slots".
OrgShareRespected ==
  \A o \in Orgs :
     Cardinality({s \in Slots : slot[s].pc = "working" /\ OrgOf[slot[s].job] = o})
       <= OrgCap

\* Every queued job ends, whatever its handler answers: retries are bounded, a
\* crashed worker's rows are recovered, and no share or priority starves a job.
EveryJobEnds ==
  \A j \in Jobs : job[j].status \in Active ~> job[j].status \in Finished \cup {"gone"}
=============================================================================
