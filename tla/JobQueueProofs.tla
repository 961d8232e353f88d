--------------------------- MODULE JobQueueProofs ---------------------------
(***************************************************************************)
(* Theorems about JobQueue for every number of jobs, slots, workers and    *)
(* organizations, and every MaxAttempts, OrgCap and MaxFaults.             *)
(***************************************************************************)
EXTENDS JobQueue, FiniteSetTheorems, TLAPS

-----------------------------------------------------------------------------
(* The parts of the inductive invariant *)

\* A claim locks a pending row, and no other claim has it.
LockInv ==
  \A s \in Slots : slot[s].pc = "claiming" =>
    /\ job[slot[s].job].status = "pending"
    /\ \A t \in Slots : slot[t].pc = "claiming" /\ slot[t].job = slot[s].job => t = s

\* A slot runs an attempt that was handed out, of a row that was enqueued.
HeldInv ==
  \A s \in Slots : slot[s].pc = "working" =>
    slot[s].attempt >= 1 /\ job[slot[s].job].status # "absent"

\* OwnerUntilOvertaken slot by slot.
OwnerInv ==
  \A s \in Slots : slot[s].pc = "working" /\ slot[s].job \notin overtaken =>
    /\ \A t \in Slots : slot[t].pc = "working" /\ slot[t].job = slot[s].job => t = s
    /\ job[slot[s].job].status \in {"running", "cancelled", "gone"}
    /\ job[slot[s].job].attempts = slot[s].attempt

\* The attempts before the last that slots still run: the copies that fail_job
\* would put back.
EarlyCopies(j) == {slot[s].attempt : s \in Holders(j)} \cap 1..(MaxAttempts - 1)

Waiting(j) == IF job[j].status = "pending" THEN 1 ELSE 0

\* Once a job has used its attempts, each further one uses up an early copy.
LateInv ==
  \A j \in Jobs : job[j].attempts >= MaxAttempts =>
    job[j].attempts + Waiting(j) + Cardinality(EarlyCopies(j)) <= 2 * MaxAttempts - 1

Claiming(o) == {s \in Slots : slot[s].pc = "claiming" /\ OrgOf[slot[s].job] = o}

\* A claim in flight counts as the running job it becomes.
ShareInv ==
  \A o \in Orgs : Cardinality(Running(o)) + Cardinality(Claiming(o))
                    <= OrgCap - 1 + Cardinality(Slots)

QueueInv == /\ TypeOK /\ LockInv /\ HeldInv /\ AttemptHeldOnce /\ OwnerInv /\ ActiveKeyUnique

-----------------------------------------------------------------------------
\* The rows, slots and cancel request keep their types (worker.py claim_job to
\* purge_finished_jobs, collections.py cancel and delete).
LEMMA TypeStep == TypeOK /\ [Next]_vars => TypeOK'
<1> SUFFICES ASSUME TypeOK, [Next]_vars PROVE TypeOK'
  OBVIOUS
<1> USE QueueAssumption DEF TypeOK, Status, Active, Finished, Idle
<1>1. ASSUME NEW j \in Jobs, NEW due \in BOOLEAN, EnqueueUnique(j, due) PROVE TypeOK'
  BY <1>1 DEF EnqueueUnique
<1>2. ASSUME NEW j \in Jobs, BecomeDue(j) PROVE TypeOK'
  BY ZenonT(40), <1>2 DEF BecomeDue
<1>3. ASSUME NEW j \in Jobs, PurgeFinishedJobs(j) PROVE TypeOK'
  BY <1>3 DEF PurgeFinishedJobs
<1>4. ASSUME NEW s \in Slots, ClaimJob(s) PROVE TypeOK'
  BY <1>4 DEF ClaimJob
<1>5. ASSUME NEW s \in Slots, CommitClaim(s) PROVE TypeOK'
  BY <1>5 DEF CommitClaim
<1>6. ASSUME NEW s \in Slots, CompleteJob(s) PROVE TypeOK'
  BY <1>6 DEF CompleteJob
<1>7. ASSUME NEW s \in Slots, NEW r \in BOOLEAN, FailJob(s, r) PROVE TypeOK'
  BY SMTT(30), <1>7 DEF FailJob
<1>8. ASSUME NEW s \in Slots, LoseTransaction(s) PROVE TypeOK'
  BY <1>8 DEF LoseTransaction
<1>9. ASSUME NEW w \in Workers, Crash(w) PROVE TypeOK'
  BY <1>9 DEF Crash
<1>10. ASSUME NEW S \in SUBSET Jobs, RecoverStaleJobs(S) PROVE TypeOK'
  BY ZenonT(40), <1>10 DEF RecoverStaleJobs
<1>11. CASE CancelRead
  BY <1>11 DEF CancelRead
<1>12. CASE CancelWrite
  BY <1>12 DEF CancelWrite
<1>13. CASE DeleteCollection
  BY <1>13 DEF DeleteCollection
<1>14. CASE UNCHANGED vars
  BY <1>14 DEF vars
<1> QED
  BY <1>1, <1>2, <1>3, <1>4, <1>5, <1>6, <1>7, <1>8, <1>9, <1>10, <1>11, <1>12,
     <1>13, <1>14 DEF Next, SlotStep

-----------------------------------------------------------------------------
\* What the two transactions that hand a job over do, row by row and slot by slot.
LEMMA CommitClaimEffect ==
  ASSUME TypeOK, NEW s \in Slots, CommitClaim(s)
  PROVE  /\ slot[s].pc = "claiming" /\ slot[s].job \in Jobs
         /\ job'[slot[s].job].status = "running"
         /\ job'[slot[s].job].attempts = job[slot[s].job].attempts + 1
         /\ \A i \in Jobs : i # slot[s].job => job'[i] = job[i]
         /\ slot'[s].pc = "working" /\ slot'[s].job = slot[s].job
         /\ slot'[s].attempt = job[slot[s].job].attempts + 1
         /\ \A t \in Slots : t # s => slot'[t] = slot[t]
         /\ overtaken' = overtaken
<1>1. slot[s].pc = "claiming" /\ slot[s].job \in Jobs
  BY DEF CommitClaim, TypeOK
<1> QED
  BY <1>1 DEF CommitClaim, TypeOK

\* What recover_stale_jobs does to each row (worker.py:238-264).
LEMMA RecoverEffect ==
  ASSUME TypeOK, NEW S \in SUBSET Jobs, RecoverStaleJobs(S)
  PROVE  /\ \A j \in Jobs \ S : job'[j] = job[j]
         /\ \A j \in S : /\ job[j].status = "running"
                         /\ job'[j].attempts = job[j].attempts
                         /\ job'[j].status = IF job[j].attempts < MaxAttempts
                                             THEN "pending" ELSE "failed"
         /\ slot' = slot
         /\ overtaken' = overtaken \cup {j \in S : Holders(j) # {}}
<1>1. \A j \in S : j \in Jobs /\ job[j].status = "running"
  BY DEF RecoverStaleJobs
<1>2. ASSUME NEW j \in S
      PROVE  /\ job'[j].attempts = job[j].attempts
             /\ job'[j].status = IF job[j].attempts < MaxAttempts
                                 THEN "pending" ELSE "failed"
  <2>1. job'[j] = IF job[j].attempts < MaxAttempts
                  THEN [job[j] EXCEPT !.status = "pending", !.due = TRUE]
                  ELSE [job[j] EXCEPT !.status = "failed"]
    BY <1>1 DEF RecoverStaleJobs
  <2>2. job[j] \in [status : Status, attempts : Nat, due : BOOLEAN]
    BY <1>1 DEF TypeOK
  <2>3. CASE job[j].attempts < MaxAttempts
    <3>1. job'[j] = [job[j] EXCEPT !.status = "pending", !.due = TRUE]
      BY <2>1, <2>3
    <3> QED
      BY <2>2, <2>3, <3>1
  <2>4. CASE ~(job[j].attempts < MaxAttempts)
    <3>1. job'[j] = [job[j] EXCEPT !.status = "failed"]
      BY <2>1, <2>4
    <3> QED
      BY <2>2, <2>4, <3>1
  <2> QED
    BY <2>3, <2>4
<1> QED
  BY <1>1, <1>2 DEF RecoverStaleJobs

\* A committed claim: the job had no owner left unless recovery overtook it, and
\* its new attempt number is above every one handed out before.
LEMMA CommitClaimKeeps ==
  ASSUME QueueInv, NEW s \in Slots, CommitClaim(s)
  PROVE  LockInv' /\ HeldInv' /\ AttemptHeldOnce' /\ OwnerInv' /\ ActiveKeyUnique'
<1> DEFINE j == slot[s].job
           n == job[j].attempts + 1
<1>1. /\ slot[s].pc = "claiming" /\ j \in Jobs
      /\ job'[j].status = "running" /\ job'[j].attempts = n /\ n \in Nat
      /\ \A i \in Jobs : i # j => job'[i] = job[i]
      /\ slot'[s].pc = "working" /\ slot'[s].job = j /\ slot'[s].attempt = n
      /\ \A t \in Slots : t # s => slot'[t] = slot[t]
      /\ overtaken' = overtaken
  BY CommitClaimEffect DEF QueueInv, TypeOK
<1>2. job[j].status = "pending"
  BY <1>1 DEF QueueInv, LockInv
<1>3. \A t \in Slots : slot[t].pc # "idle" => slot[t].job \in Jobs /\ slot[t].attempt \in Nat
  BY DEF QueueInv, TypeOK
<1>4. \A t \in Slots \ {s} : slot[t].pc = "claiming" => slot[t].job # j
  BY <1>1 DEF QueueInv, LockInv
<1>5. \A t \in Slots \ {s} : slot[t].pc = "working" /\ slot[t].job = j =>
         j \in overtaken /\ slot[t].attempt < n
  <2> SUFFICES ASSUME NEW t \in Slots \ {s}, slot[t].pc = "working", slot[t].job = j
               PROVE  j \in overtaken /\ slot[t].attempt < n
    OBVIOUS
  <2>1. slot[t].attempt <= job[j].attempts /\ job[j].attempts \in Nat /\ slot[t].attempt \in Nat
    BY <1>1 DEF QueueInv, AttemptHeldOnce, TypeOK
  <2>2. j \in overtaken
    BY <1>2 DEF QueueInv, OwnerInv
  <2> QED
    BY <2>1, <2>2
<1> HIDE DEF j, n
<1>6. LockInv'
  BY <1>1, <1>3, <1>4 DEF QueueInv, LockInv
<1>7. HeldInv'
  <2>1. n >= 1
    BY <1>1 DEF n, j, QueueInv, TypeOK
  <2> QED
    BY <2>1, <1>1, <1>3 DEF QueueInv, HeldInv
<1>8. AttemptHeldOnce'
  <2> SUFFICES ASSUME NEW t \in Slots, NEW u \in Slots,
                      slot'[t].pc = "working", slot'[u].pc = "working",
                      slot'[t].job = slot'[u].job
               PROVE  /\ slot'[t].attempt <= job'[slot'[t].job].attempts
                      /\ t # u => slot'[t].attempt # slot'[u].attempt
    BY DEF AttemptHeldOnce
  <2>1. CASE t = s
    BY <2>1, <1>1, <1>3, <1>5
  <2>2. CASE t # s
    <3>1. slot[t].pc = "working" /\ slot[t].job \in Jobs /\ slot[t].attempt \in Nat
      BY <2>2, <1>1, <1>3
    <3>2. slot[t].attempt <= job[slot[t].job].attempts
      BY <3>1 DEF QueueInv, AttemptHeldOnce
    <3>3. slot'[t].attempt <= job'[slot'[t].job].attempts
      BY <2>2, <1>1, <1>5, <3>1, <3>2
    <3>4. CASE u = s
      BY <3>3, <3>4, <2>2, <1>1, <1>5, <1>3
    <3>5. CASE u # s
      BY <3>3, <3>5, <2>2, <1>1 DEF QueueInv, AttemptHeldOnce
    <3> QED
      BY <3>4, <3>5
  <2> QED
    BY <2>1, <2>2
<1>9. OwnerInv'
  BY <1>1, <1>3, <1>5 DEF QueueInv, OwnerInv
<1>10. ActiveKeyUnique'
  BY <1>1, <1>2 DEF QueueInv, ActiveKeyUnique, Active
<1> QED
  BY <1>6, <1>7, <1>8, <1>9, <1>10

\* Row locks, attempt numbers and ownership are kept by every transaction.
LEMMA QueueInvStep == QueueInv /\ [Next]_vars => QueueInv'
<1> SUFFICES ASSUME QueueInv, [Next]_vars PROVE QueueInv'
  OBVIOUS
<1> DEFINE Rest == LockInv /\ HeldInv /\ AttemptHeldOnce /\ OwnerInv /\ ActiveKeyUnique
<1>0. TypeOK'
  BY TypeStep DEF QueueInv
<1>a. TypeOK /\ Rest
  BY DEF QueueInv
<1>5. ASSUME NEW s \in Slots, CommitClaim(s) PROVE Rest'
  BY <1>5, CommitClaimKeeps
<1> USE QueueAssumption, <1>a, <1>0
<1> USE DEF TypeOK, Status, Active, Finished, Idle, LockInv, HeldInv, AttemptHeldOnce,
            OwnerInv, ActiveKeyUnique, Locked
<1>1. ASSUME NEW j \in Jobs, NEW due \in BOOLEAN, EnqueueUnique(j, due) PROVE Rest'
  BY <1>1 DEF EnqueueUnique, KeyFree
<1>2. ASSUME NEW j \in Jobs, BecomeDue(j) PROVE Rest'
  BY <1>2 DEF BecomeDue
<1>3. ASSUME NEW j \in Jobs, PurgeFinishedJobs(j) PROVE Rest'
  BY <1>3 DEF PurgeFinishedJobs, Holders
<1>4. ASSUME NEW s \in Slots, ClaimJob(s) PROVE Rest'
  BY <1>4 DEF ClaimJob, Claimable
<1>6. ASSUME NEW s \in Slots, CompleteJob(s) PROVE Rest'
  BY <1>6 DEF CompleteJob
<1>7. ASSUME NEW s \in Slots, NEW r \in BOOLEAN, FailJob(s, r) PROVE Rest'
  <2>1. LockInv'
    BY <1>7 DEF FailJob, KeyFree
  <2>2. HeldInv'
    BY SMTT(30), <1>7 DEF FailJob, KeyFree
  <2>3. AttemptHeldOnce'
    BY <1>7 DEF FailJob, KeyFree
  <2>4. OwnerInv'
    BY SMTT(30), <1>7 DEF FailJob, KeyFree
  <2>5. ActiveKeyUnique'
    BY <1>7 DEF FailJob, KeyFree
  <2> QED
    BY <2>1, <2>2, <2>3, <2>4, <2>5
<1>8. ASSUME NEW s \in Slots, LoseTransaction(s) PROVE Rest'
  BY <1>8 DEF LoseTransaction
<1>9. ASSUME NEW w \in Workers, Crash(w) PROVE Rest'
  BY <1>9 DEF Crash
<1>10. ASSUME NEW S \in SUBSET Jobs, RecoverStaleJobs(S) PROVE Rest'
  <2>0. /\ \A j \in Jobs \ S : job'[j] = job[j]
        /\ \A j \in S : /\ job[j].status = "running"
                        /\ job'[j].attempts = job[j].attempts
                        /\ job'[j].status = IF job[j].attempts < MaxAttempts
                                            THEN "pending" ELSE "failed"
        /\ slot' = slot
        /\ overtaken' = overtaken \cup {j \in S : Holders(j) # {}}
    BY <1>10, RecoverEffect
  <2>1. LockInv'
    BY <2>0 DEF Holders
  <2>2. HeldInv'
    BY <2>0 DEF Holders
  <2>3. AttemptHeldOnce'
    BY <2>0 DEF Holders
  <2>4. OwnerInv'
    BY <2>0 DEF Holders
  <2>5. ActiveKeyUnique'
    BY <2>0 DEF Holders
  <2> QED
    BY <2>1, <2>2, <2>3, <2>4, <2>5
<1>11. ASSUME CancelRead PROVE Rest'
  BY <1>11 DEF CancelRead
<1>12. ASSUME CancelWrite PROVE Rest'
  <2>1. LockInv'
    BY <1>12 DEF CancelWrite
  <2>2. HeldInv'
    BY <1>12 DEF CancelWrite
  <2>3. AttemptHeldOnce'
    BY <1>12 DEF CancelWrite
  <2>4. OwnerInv'
    BY <1>12 DEF CancelWrite
  <2>5. ActiveKeyUnique'
    BY <1>12 DEF CancelWrite
  <2> QED
    BY <2>1, <2>2, <2>3, <2>4, <2>5
<1>13. ASSUME DeleteCollection PROVE Rest'
  <2>1. LockInv'
    BY <1>13 DEF DeleteCollection
  <2>2. HeldInv'
    BY <1>13 DEF DeleteCollection
  <2>3. AttemptHeldOnce'
    BY <1>13 DEF DeleteCollection
  <2>4. OwnerInv'
    BY <1>13 DEF DeleteCollection
  <2>5. ActiveKeyUnique'
    BY <1>13 DEF DeleteCollection
  <2> QED
    BY <2>1, <2>2, <2>3, <2>4, <2>5
<1>14. ASSUME UNCHANGED vars PROVE Rest'
  BY <1>14 DEF vars
<1> QED
  BY SMTT(30), <1>1, <1>2, <1>3, <1>4, <1>5, <1>6, <1>7, <1>8, <1>9, <1>10, <1>11, <1>12,
     <1>13, <1>14 DEF Next, SlotStep, QueueInv

-----------------------------------------------------------------------------
\* Finite cardinalities the counting arguments rest on.
LEMMA EarlyNumbersFinite ==
  ASSUME NEW A
  PROVE  LET E == A \cap 1..(MaxAttempts - 1)
         IN  /\ IsFiniteSet(E) /\ Cardinality(E) \in Nat
             /\ Cardinality(E) <= MaxAttempts - 1
<1>1. MaxAttempts - 1 \in Nat
  BY QueueAssumption
<1>2. IsFiniteSet(1..(MaxAttempts - 1)) /\ Cardinality(1..(MaxAttempts - 1)) = MaxAttempts - 1
  BY <1>1, FS_Interval
<1> QED
  BY <1>2, FS_Subset, FS_CardinalityType

\* A job has fewer early copies than MaxAttempts.
LEMMA EarlyCopiesFinite ==
  ASSUME NEW j \in Jobs
  PROVE  /\ IsFiniteSet(EarlyCopies(j)) /\ Cardinality(EarlyCopies(j)) \in Nat
         /\ Cardinality(EarlyCopies(j)) <= MaxAttempts - 1
BY EarlyNumbersFinite DEF EarlyCopies

\* A step that hands out no attempt and adds no holder of j cannot raise the bound.
LEMMA LateFrame ==
  ASSUME TypeOK, TypeOK', LateInv, NEW j \in Jobs,
         job'[j].attempts = job[j].attempts,
         job'[j].attempts >= MaxAttempts /\ job'[j].status = "pending"
           => job[j].status = "pending",
         EarlyCopies(j)' \subseteq EarlyCopies(j)
  PROVE  job'[j].attempts >= MaxAttempts =>
           job'[j].attempts + Waiting(j)' + Cardinality(EarlyCopies(j)') <= 2 * MaxAttempts - 1
<1>1. /\ IsFiniteSet(EarlyCopies(j)) /\ Cardinality(EarlyCopies(j)) \in Nat
      /\ Cardinality(EarlyCopies(j)') \in Nat
  BY EarlyCopiesFinite, FS_Subset, FS_CardinalityType
<1>2. Cardinality(EarlyCopies(j)') <= Cardinality(EarlyCopies(j))
  BY <1>1, FS_Subset
<1>3. /\ Waiting(j) \in Nat /\ Waiting(j)' \in Nat
      /\ job'[j].attempts >= MaxAttempts => Waiting(j)' <= Waiting(j)
  BY DEF Waiting
<1>4. job[j].attempts \in Nat /\ MaxAttempts \in Nat
  BY QueueAssumption DEF TypeOK
<1>5. job[j].attempts >= MaxAttempts =>
        job[j].attempts + Waiting(j) + Cardinality(EarlyCopies(j)) <= 2 * MaxAttempts - 1
  BY DEF LateInv
<1> QED
  BY <1>1, <1>2, <1>3, <1>4, <1>5

\* A step after which no slot works on anything new leaves no new copy.
LEMMA FewerCopies ==
  ASSUME NEW j \in Jobs,
         \A s \in Slots : slot'[s].pc = "working" => slot'[s] = slot[s]
  PROVE  EarlyCopies(j)' \subseteq EarlyCopies(j)
BY DEF EarlyCopies, Holders

\* A failure report of an early attempt puts the job back and uses up that copy.
LEMMA FailJobKeepsLate ==
  ASSUME QueueInv, TypeOK', LateInv, NEW s \in Slots, NEW r \in BOOLEAN, FailJob(s, r)
  PROVE  LateInv'
<1> DEFINE j == slot[s].job
           a == slot[s].attempt
<1>1. /\ slot[s].pc = "working" /\ j \in Jobs /\ a \in Nat /\ a >= 1
      /\ slot'[s].pc = "idle" /\ \A t \in Slots : t # s => slot'[t] = slot[t]
      /\ \A i \in Jobs : job'[i].attempts = job[i].attempts
      /\ \A i \in Jobs : i # j => job'[i] = job[i]
      /\ job'[j].status = "pending" => job[j].status = "pending" \/ a < MaxAttempts
  BY DEF FailJob, WillRetry, QueueInv, TypeOK, HeldInv, Idle
<1>2. TypeOK
  BY DEF QueueInv
<1>3. \A i \in Jobs : EarlyCopies(i)' \subseteq EarlyCopies(i)
  BY <1>1, FewerCopies
<1>4. SUFFICES ASSUME NEW i \in Jobs
               PROVE  job'[i].attempts >= MaxAttempts =>
                        job'[i].attempts + Waiting(i)' + Cardinality(EarlyCopies(i)')
                          <= 2 * MaxAttempts - 1
  BY DEF LateInv
<1> HIDE DEF j, a
<1>5. CASE job'[i].status = "pending" => job[i].status = "pending"
  BY <1>1, <1>2, <1>3, <1>5, LateFrame
<1>6. CASE i = j /\ a < MaxAttempts
  <2>1. a \in EarlyCopies(i)
    BY <1>1, <1>6, QueueAssumption DEF EarlyCopies, Holders, j, a
  <2>2. a \notin EarlyCopies(i)'
    <3> SUFFICES ASSUME NEW t \in Slots, slot'[t].pc = "working", slot'[t].job = i,
                        slot'[t].attempt = a
                 PROVE  FALSE
      BY DEF EarlyCopies, Holders
    <3>1. t # s /\ slot[t].pc = "working" /\ slot[t].job = j /\ slot[t].attempt = a
      BY <1>1, <1>6
    <3> QED
      BY <3>1, <1>1 DEF QueueInv, AttemptHeldOnce, j, a
  <2>3. IsFiniteSet(EarlyCopies(i)) /\ Cardinality(EarlyCopies(i)) \in Nat
    BY <1>2, EarlyCopiesFinite
  <2>4. /\ Cardinality(EarlyCopies(i) \ {a}) = Cardinality(EarlyCopies(i)) - 1
        /\ IsFiniteSet(EarlyCopies(i) \ {a})
    BY <2>1, <2>3, FS_RemoveElement
  <2>5. /\ Cardinality(EarlyCopies(i)') <= Cardinality(EarlyCopies(i)) - 1
        /\ Cardinality(EarlyCopies(i)') \in Nat
    BY <1>3, <2>2, <2>4, FS_Subset, FS_CardinalityType
  <2>6. Waiting(i)' <= 1 /\ Waiting(i) >= 0 /\ Waiting(i)' \in Nat /\ Waiting(i) \in Nat
    BY DEF Waiting
  <2>7. /\ job[i].attempts \in Nat /\ job'[i].attempts = job[i].attempts /\ MaxAttempts \in Nat
    BY <1>1, <1>2, QueueAssumption DEF TypeOK
  <2>8. job[i].attempts >= MaxAttempts =>
          job[i].attempts + Waiting(i) + Cardinality(EarlyCopies(i)) <= 2 * MaxAttempts - 1
    BY DEF LateInv
  <2> QED
    BY <2>3, <2>5, <2>6, <2>7, <2>8
<1> QED
  BY <1>1, <1>5, <1>6

\* A claim of a job that has used its attempts turns the waiting row into a run.
LEMMA CommitClaimKeepsLate ==
  ASSUME QueueInv, TypeOK', LateInv, NEW s \in Slots, CommitClaim(s)
  PROVE  LateInv'
<1> DEFINE j == slot[s].job
           n == job[j].attempts + 1
<1>1. TypeOK
  BY DEF QueueInv
<1>2. /\ slot[s].pc = "claiming" /\ j \in Jobs /\ n \in Nat /\ job[j].attempts \in Nat
      /\ job'[j].status = "running" /\ job'[j].attempts = n
      /\ \A i \in Jobs : i # j => job'[i] = job[i]
      /\ slot'[s].pc = "working" /\ slot'[s].job = j /\ slot'[s].attempt = n
      /\ \A t \in Slots : t # s => slot'[t] = slot[t]
  BY <1>1, CommitClaimEffect DEF TypeOK
<1>3. job[j].status = "pending"
  BY <1>2 DEF QueueInv, LockInv
<1>4. SUFFICES ASSUME NEW i \in Jobs
               PROVE  job'[i].attempts >= MaxAttempts =>
                        job'[i].attempts + Waiting(i)' + Cardinality(EarlyCopies(i)')
                          <= 2 * MaxAttempts - 1
  BY DEF LateInv
<1>m. MaxAttempts \in Nat /\ MaxAttempts >= 1
  BY QueueAssumption
<1>5. CASE i # j
  <2>1. EarlyCopies(i)' \subseteq EarlyCopies(i)
    <3> HIDE DEF j, n
    <3> QED
      BY <1>2, <1>5 DEF EarlyCopies, Holders
  <2>2. job'[i] = job[i]
    BY <1>2, <1>5
  <2> QED
    BY <1>1, <2>1, <2>2, LateFrame
<1>6. CASE i = j /\ n = MaxAttempts
  <2>1. Waiting(i)' = 0
    BY <1>2, <1>6 DEF Waiting
  <2>2. Cardinality(EarlyCopies(i)') \in Nat /\ Cardinality(EarlyCopies(i)') <= MaxAttempts - 1
    BY EarlyNumbersFinite DEF EarlyCopies
  <2> QED
    BY <1>2, <1>6, <1>m, <2>1, <2>2
<1>7. CASE i = j /\ n > MaxAttempts
  <2>1. EarlyCopies(i)' \subseteq EarlyCopies(i)
    <3>1. n \notin 1..(MaxAttempts - 1)
      BY <1>m, <1>2, <1>7
    <3> HIDE DEF j, n
    <3> QED
      BY <3>1, <1>2, <1>7 DEF EarlyCopies, Holders
  <2>2. IsFiniteSet(EarlyCopies(i)) /\ Cardinality(EarlyCopies(i)) \in Nat
    BY <1>1, EarlyCopiesFinite
  <2>3. /\ Cardinality(EarlyCopies(i)') <= Cardinality(EarlyCopies(i))
        /\ Cardinality(EarlyCopies(i)') \in Nat
    BY <2>1, <2>2, FS_Subset, FS_CardinalityType
  <2>4. Waiting(i) = 1 /\ Waiting(i)' = 0
    BY <1>2, <1>3, <1>7 DEF Waiting
  <2>5. job[i].attempts + Waiting(i) + Cardinality(EarlyCopies(i)) <= 2 * MaxAttempts - 1
    BY <1>2, <1>7, <1>m DEF LateInv
  <2> QED
    BY <1>2, <1>7, <1>m, <2>2, <2>3, <2>4, <2>5
<1>8. CASE i = j /\ n < MaxAttempts
  BY <1>2, <1>8, <1>m
<1> QED
  BY <1>2, <1>m, <1>5, <1>6, <1>7, <1>8

\* No other transaction hands out an attempt or revives a job that used its own.
LEMMA LateStep == QueueInv /\ LateInv /\ [Next]_vars => LateInv'
<1> SUFFICES ASSUME QueueInv, LateInv, [Next]_vars PROVE LateInv'
  OBVIOUS
<1>t. TypeOK /\ TypeOK'
  BY TypeStep DEF QueueInv
<1>f. ASSUME \A s \in Slots : slot'[s].pc = "working" => slot'[s] = slot[s],
             \A j \in Jobs : job'[j].attempts >= MaxAttempts =>
                /\ job'[j].attempts = job[j].attempts
                /\ job'[j].status = "pending" => job[j].status = "pending"
      PROVE  LateInv'
  <2> SUFFICES ASSUME NEW j \in Jobs, job'[j].attempts >= MaxAttempts
               PROVE  job'[j].attempts + Waiting(j)' + Cardinality(EarlyCopies(j)')
                        <= 2 * MaxAttempts - 1
    BY DEF LateInv
  <2> QED
    BY <1>t, <1>f, FewerCopies, LateFrame
<1>1. ASSUME NEW j \in Jobs, NEW due \in BOOLEAN, EnqueueUnique(j, due) PROVE LateInv'
  BY <1>1, <1>f, <1>t, QueueAssumption DEF EnqueueUnique, TypeOK
<1>2. ASSUME NEW j \in Jobs, BecomeDue(j) PROVE LateInv'
  BY <1>2, <1>f, <1>t DEF BecomeDue, TypeOK
<1>3. ASSUME NEW j \in Jobs, PurgeFinishedJobs(j) PROVE LateInv'
  BY <1>3, <1>f, <1>t DEF PurgeFinishedJobs, TypeOK
<1>4. ASSUME NEW s \in Slots, ClaimJob(s) PROVE LateInv'
  BY <1>4, <1>f, <1>t DEF ClaimJob, TypeOK
<1>5. ASSUME NEW s \in Slots, CommitClaim(s) PROVE LateInv'
  BY <1>5, <1>t, CommitClaimKeepsLate
<1>6. ASSUME NEW s \in Slots, CompleteJob(s) PROVE LateInv'
  BY <1>6, <1>f, <1>t DEF CompleteJob, TypeOK, Idle
<1>7. ASSUME NEW s \in Slots, NEW r \in BOOLEAN, FailJob(s, r) PROVE LateInv'
  BY <1>7, <1>t, FailJobKeepsLate
<1>8. ASSUME NEW s \in Slots, LoseTransaction(s) PROVE LateInv'
  BY <1>8, <1>f, <1>t DEF LoseTransaction, TypeOK, Idle
<1>9. ASSUME NEW w \in Workers, Crash(w) PROVE LateInv'
  BY <1>9, <1>f, <1>t DEF Crash, TypeOK, Idle
<1>10. ASSUME NEW S \in SUBSET Jobs, RecoverStaleJobs(S) PROVE LateInv'
  <2>1. slot' = slot
    BY <1>10, <1>t, RecoverEffect
  <2>2. ASSUME NEW j \in Jobs, job'[j].attempts >= MaxAttempts
        PROVE  /\ job'[j].attempts = job[j].attempts
               /\ job'[j].status = "pending" => job[j].status = "pending"
    <3>1. job[j].attempts \in Nat
      BY <1>t DEF TypeOK
    <3> QED
      BY <2>2, <3>1, <1>10, <1>t, RecoverEffect, QueueAssumption
  <2> QED
    BY <2>1, <2>2, <1>f
<1>11. CASE CancelRead
  BY <1>11, <1>f, <1>t DEF CancelRead
<1>12. CASE CancelWrite
  BY <1>12, <1>f, <1>t DEF CancelWrite, TypeOK
<1>13. CASE DeleteCollection
  BY <1>13, <1>f, <1>t DEF DeleteCollection, TypeOK
<1>14. CASE UNCHANGED vars
  BY <1>14, <1>f, <1>t DEF vars
<1> QED
  BY <1>1, <1>2, <1>3, <1>4, <1>5, <1>6, <1>7, <1>8, <1>9, <1>10, <1>11, <1>12,
     <1>13, <1>14 DEF Next, SlotStep

-----------------------------------------------------------------------------
\* Claims are taken only below the cap, and a claim in flight holds a slot.
LEMMA SlotsAndJobsFinite ==
  ASSUME NEW o
  PROVE  /\ IsFiniteSet(Running(o)) /\ Cardinality(Running(o)) \in Nat
         /\ IsFiniteSet(Claiming(o)) /\ Cardinality(Claiming(o)) \in Nat
         /\ Cardinality(Claiming(o)) <= Cardinality(Slots) /\ Cardinality(Slots) \in Nat
<1>1. Running(o) \subseteq Jobs /\ Claiming(o) \subseteq Slots
  BY DEF Running, Claiming
<1> QED
  BY <1>1, QueueAssumption, FS_Subset, FS_CardinalityType

\* A step that adds neither a running row nor a claim of o keeps its share.
LEMMA ShareFrame ==
  ASSUME ShareInv, NEW o \in Orgs,
         Running(o)' \subseteq Running(o), Claiming(o)' \subseteq Claiming(o)
  PROVE  (Cardinality(Running(o)) + Cardinality(Claiming(o)) <= OrgCap - 1 + Cardinality(Slots))'
<1>1. /\ Cardinality(Running(o)') <= Cardinality(Running(o)) /\ Cardinality(Running(o)') \in Nat
      /\ Cardinality(Claiming(o)') <= Cardinality(Claiming(o)) /\ Cardinality(Claiming(o)') \in Nat
  BY SlotsAndJobsFinite, FS_Subset, FS_CardinalityType
<1> QED
  BY <1>1, SlotsAndJobsFinite, QueueAssumption DEF ShareInv

\* The snapshot of claim_job saw fewer running jobs than the cap (worker.py:119-140).
LEMMA ClaimJobKeepsShare ==
  ASSUME TypeOK, ShareInv, NEW s \in Slots, ClaimJob(s), NEW o \in Orgs
  PROVE  (Cardinality(Running(o)) + Cardinality(Claiming(o)) <= OrgCap - 1 + Cardinality(Slots))'
<1>1. PICK j \in Jobs : /\ Claimable(j) /\ slot[s].pc = "idle"
                        /\ slot' = [slot EXCEPT ![s] = [pc |-> "claiming", job |-> j, attempt |-> 0]]
                        /\ job' = job
  BY DEF ClaimJob
<1>2. Running(o)' = Running(o)
  BY <1>1 DEF Running
<1>3. CASE OrgOf[j] = o
  <2>1. Cardinality(Running(o)) < OrgCap
    BY <1>1, <1>3, SlotsAndJobsFinite, QueueAssumption DEF Claimable, Saturated
  <2>2. Cardinality(Claiming(o)') <= Cardinality(Slots) /\ Cardinality(Claiming(o)') \in Nat
    <3>1. Claiming(o)' \subseteq Slots
      BY DEF Claiming
    <3> QED
      BY <3>1, QueueAssumption, FS_Subset, FS_CardinalityType
  <2> QED
    BY <1>2, <2>1, <2>2, SlotsAndJobsFinite, QueueAssumption
<1>4. CASE OrgOf[j] # o
  <2>1. Claiming(o)' \subseteq Claiming(o)
    BY <1>1, <1>4 DEF Claiming, TypeOK
  <2> QED
    BY <1>2, <2>1, ShareFrame
<1> QED
  BY <1>3, <1>4

\* The commit of a claim only turns the claim in flight into a running job.
LEMMA CommitClaimKeepsShare ==
  ASSUME QueueInv, ShareInv, NEW s \in Slots, CommitClaim(s), NEW o \in Orgs
  PROVE  (Cardinality(Running(o)) + Cardinality(Claiming(o)) <= OrgCap - 1 + Cardinality(Slots))'
<1> DEFINE j == slot[s].job
<1>1. /\ slot[s].pc = "claiming" /\ j \in Jobs /\ job'[j].status = "running"
      /\ \A i \in Jobs : i # j => job'[i] = job[i]
      /\ slot'[s].pc = "working" /\ \A t \in Slots : t # s => slot'[t] = slot[t]
  BY CommitClaimEffect DEF QueueInv
<1>2. job[j].status = "pending"
  BY <1>1 DEF QueueInv, LockInv
<1> HIDE DEF j
<1>3. CASE OrgOf[j] = o
  <2>1. Running(o)' = Running(o) \cup {j} /\ j \notin Running(o)
    BY <1>1, <1>2, <1>3 DEF Running
  <2>2. Claiming(o)' = Claiming(o) \ {s} /\ s \in Claiming(o)
    BY <1>1, <1>3 DEF Claiming, j
  <2>3. Cardinality(Running(o)') = Cardinality(Running(o)) + 1
    BY <2>1, SlotsAndJobsFinite, FS_AddElement
  <2>4. Cardinality(Claiming(o)') = Cardinality(Claiming(o)) - 1
    BY <2>2, SlotsAndJobsFinite, FS_RemoveElement
  <2> QED
    BY <2>3, <2>4, SlotsAndJobsFinite, QueueAssumption DEF ShareInv
<1>4. CASE OrgOf[j] # o
  <2>1. Running(o)' \subseteq Running(o) /\ Claiming(o)' \subseteq Claiming(o)
    BY <1>1, <1>4 DEF Running, Claiming
  <2> QED
    BY <2>1, ShareFrame
<1> QED
  BY <1>3, <1>4

\* No transaction raises the running jobs and claims of an organization further.
LEMMA ShareStep == QueueInv /\ ShareInv /\ [Next]_vars => ShareInv'
<1> SUFFICES ASSUME QueueInv, ShareInv, [Next]_vars, NEW o \in Orgs
             PROVE  (Cardinality(Running(o)) + Cardinality(Claiming(o))
                       <= OrgCap - 1 + Cardinality(Slots))'
  BY DEF ShareInv
<1> DEFINE Goal == Cardinality(Running(o)) + Cardinality(Claiming(o))
                     <= OrgCap - 1 + Cardinality(Slots)
<1>t. TypeOK
  BY DEF QueueInv
<1>f. ASSUME \A j \in Jobs : job'[j].status = "running" => job[j].status = "running",
             \A s \in Slots : slot'[s].pc = "claiming" => slot'[s] = slot[s]
      PROVE  Goal'
  <2>1. Running(o)' \subseteq Running(o) /\ Claiming(o)' \subseteq Claiming(o)
    BY <1>f DEF Running, Claiming
  <2> QED
    BY <2>1, ShareFrame
<1> HIDE DEF Goal
<1>1. ASSUME NEW j \in Jobs, NEW due \in BOOLEAN, EnqueueUnique(j, due) PROVE Goal'
  BY <1>1, <1>f, <1>t DEF EnqueueUnique, TypeOK
<1>2. ASSUME NEW j \in Jobs, BecomeDue(j) PROVE Goal'
  BY <1>2, <1>f, <1>t DEF BecomeDue, TypeOK
<1>3. ASSUME NEW j \in Jobs, PurgeFinishedJobs(j) PROVE Goal'
  BY <1>3, <1>f, <1>t DEF PurgeFinishedJobs, TypeOK
<1>4. ASSUME NEW s \in Slots, ClaimJob(s) PROVE Goal'
  BY <1>4, <1>t, ClaimJobKeepsShare DEF Goal
<1>5. ASSUME NEW s \in Slots, CommitClaim(s) PROVE Goal'
  BY <1>5, CommitClaimKeepsShare DEF Goal
<1>6. ASSUME NEW s \in Slots, CompleteJob(s) PROVE Goal'
  BY <1>6, <1>f, <1>t DEF CompleteJob, TypeOK, Idle
<1>7. ASSUME NEW s \in Slots, NEW r \in BOOLEAN, FailJob(s, r) PROVE Goal'
  BY <1>7, <1>f, <1>t DEF FailJob, TypeOK, Idle
<1>8. ASSUME NEW s \in Slots, LoseTransaction(s) PROVE Goal'
  BY <1>8, <1>f, <1>t DEF LoseTransaction, TypeOK, Idle
<1>9. ASSUME NEW w \in Workers, Crash(w) PROVE Goal'
  BY <1>9, <1>f, <1>t DEF Crash, TypeOK, Idle
<1>10. ASSUME NEW S \in SUBSET Jobs, RecoverStaleJobs(S) PROVE Goal'
  <2>1. slot' = slot
    BY <1>10, <1>t, RecoverEffect
  <2>2. \A j \in Jobs : job'[j].status = "running" => job[j].status = "running"
    BY <1>10, <1>t, RecoverEffect
  <2> QED
    BY <2>1, <2>2, <1>f
<1>11. CASE CancelRead
  BY <1>11, <1>f, <1>t DEF CancelRead, Goal
<1>12. CASE CancelWrite
  BY <1>12, <1>f, <1>t DEF CancelWrite, TypeOK, Goal
<1>13. CASE DeleteCollection
  BY <1>13, <1>f, <1>t DEF DeleteCollection, TypeOK, Goal
<1>14. CASE UNCHANGED vars
  BY <1>14, <1>f, <1>t DEF vars, Goal
<1> QED
  BY <1>1, <1>2, <1>3, <1>4, <1>5, <1>6, <1>7, <1>8, <1>9, <1>10, <1>11, <1>12,
     <1>13, <1>14 DEF Next, SlotStep, Goal

-----------------------------------------------------------------------------
(* The theorems *)

\* An empty queue with idle slots satisfies every part of the invariant.
LEMMA InitInv == Init => QueueInv /\ LateInv /\ ShareInv
<1> SUFFICES ASSUME Init PROVE QueueInv /\ LateInv /\ ShareInv
  OBVIOUS
<1> USE QueueAssumption DEF Init
<1>1. TypeOK
  BY DEF TypeOK, Status, Active, Finished, Idle
<1>2. LockInv /\ HeldInv /\ AttemptHeldOnce /\ OwnerInv /\ ActiveKeyUnique
  BY DEF LockInv, HeldInv, AttemptHeldOnce, OwnerInv, ActiveKeyUnique, Idle, Active
<1>3. LateInv
  BY DEF LateInv
<1>4. ShareInv
  <2> SUFFICES ASSUME NEW o \in Orgs
               PROVE  Cardinality(Running(o)) + Cardinality(Claiming(o))
                        <= OrgCap - 1 + Cardinality(Slots)
    BY DEF ShareInv
  <2>1. Running(o) = {} /\ Claiming(o) = {}
    BY DEF Running, Claiming, Idle
  <2> QED
    BY <2>1, FS_EmptySet, SlotsAndJobsFinite
<1> QED
  BY <1>1, <1>2, <1>3, <1>4 DEF QueueInv

\* The inductive invariant: what claim, report, recovery, cancellation and deletion
\* of jobs (worker.py:119-301, collections.py:123-185) keep true together.
THEOREM QueueInvariant == Spec => [](QueueInv /\ LateInv /\ ShareInv)
<1>1. QueueInv /\ LateInv /\ ShareInv /\ [Next]_vars => (QueueInv /\ LateInv /\ ShareInv)'
  BY QueueInvStep, LateStep, ShareStep
<1> QED
  BY <1>1, InitInv, PTL DEF Spec

\* Rows, slots and the cancel request keep their types.
THEOREM TypeCorrect == Spec => []TypeOK
<1>1. QueueInv => TypeOK
  BY DEF QueueInv
<1> QED
  BY <1>1, QueueInvariant, PTL

\* No two slots run the same attempt of a job (worker.py:131-149).
THEOREM AttemptsAreHeldOnce == Spec => []AttemptHeldOnce
<1>1. QueueInv => AttemptHeldOnce
  BY DEF QueueInv
<1> QED
  BY <1>1, QueueInvariant, PTL

\* Until recovery overtakes a job its slot is its only owner (worker.py:155-221).
THEOREM SoleOwner == Spec => []OwnerUntilOvertaken
<1>1. QueueInv => OwnerUntilOvertaken
  BY DEF QueueInv, OwnerInv, OwnerUntilOvertaken, Holders
<1> QED
  BY <1>1, QueueInvariant, PTL

\* A job is handed out at most 2 * MaxAttempts - 1 times (worker.py:148, 174, 254).
THEOREM BoundedAttempts == Spec => []AttemptsBounded
<1>1. QueueInv /\ LateInv => AttemptsBounded
  <2> SUFFICES ASSUME QueueInv, LateInv, NEW j \in Jobs
               PROVE  job[j].attempts <= 2 * MaxAttempts - 1
    BY DEF AttemptsBounded
  <2>1. /\ job[j].attempts \in Nat /\ MaxAttempts \in Nat /\ MaxAttempts >= 1
        /\ Waiting(j) \in Nat /\ Cardinality(EarlyCopies(j)) \in Nat
    BY EarlyCopiesFinite, QueueAssumption DEF QueueInv, TypeOK, Waiting
  <2>2. job[j].attempts >= MaxAttempts =>
          job[j].attempts + Waiting(j) + Cardinality(EarlyCopies(j)) <= 2 * MaxAttempts - 1
    BY DEF LateInv
  <2> QED
    BY <2>1, <2>2
<1> QED
  BY <1>1, QueueInvariant, PTL

\* An organization exceeds its share by racing claims only (worker.py:119-152).
THEOREM BoundedOrgShare == Spec => []OrgShareBounded
<1>1. ShareInv => OrgShareBounded
  <2> SUFFICES ASSUME ShareInv, NEW o \in Orgs
               PROVE  Cardinality(Running(o)) <= OrgCap - 1 + Cardinality(Slots)
    BY DEF OrgShareBounded
  <2> QED
    BY SlotsAndJobsFinite, QueueAssumption DEF ShareInv
<1> QED
  BY <1>1, QueueInvariant, PTL

\* A dedupe key is active once, late reports included (jobs.py:96-130, worker.py:187).
THEOREM UniqueActiveKey == Spec => []ActiveKeyUnique
<1>1. QueueInv => ActiveKeyUnique
  BY DEF QueueInv
<1> QED
  BY <1>1, QueueInvariant, PTL

\* A done job that was never overtaken is not run again (worker.py:155-161).
THEOREM DoneStaysDone == Spec => DoneIsFinal
<1> DEFINE Kept == \A j \in Jobs : job[j].status = "done" /\ j \notin overtaken
              => \/ job'[j].status \in {"done", "gone"}
                 \/ j \in cancelling /\ job'[j].status = "cancelled"
<1>1. QueueInv /\ [Next]_vars => [Kept]_vars
  <2> SUFFICES ASSUME QueueInv, Next, NEW j \in Jobs, job[j].status = "done", j \notin overtaken
               PROVE  \/ job'[j].status \in {"done", "gone"}
                      \/ j \in cancelling /\ job'[j].status = "cancelled"
    OBVIOUS
  <2>t. TypeOK
    BY DEF QueueInv
  <2>h. \A s \in Slots : slot[s].pc = "working" => slot[s].job # j
    BY DEF QueueInv, OwnerInv
  <2>c. \A s \in Slots : slot[s].pc = "claiming" => slot[s].job # j
    BY DEF QueueInv, LockInv
  <2>1. ASSUME NEW i \in Jobs, \/ \E due \in BOOLEAN : EnqueueUnique(i, due)
                               \/ BecomeDue(i) \/ PurgeFinishedJobs(i)
        PROVE  job'[j].status \in {"done", "gone"}
    BY <2>1, <2>t DEF EnqueueUnique, BecomeDue, PurgeFinishedJobs, TypeOK
  <2>2. ASSUME NEW s \in Slots, SlotStep(s) PROVE job'[j] = job[j]
    BY <2>2, <2>t, <2>h, <2>c DEF SlotStep, ClaimJob, CommitClaim, CompleteJob, FailJob,
       LoseTransaction, TypeOK
  <2>3. ASSUME NEW w \in Workers, Crash(w) PROVE job'[j] = job[j]
    BY <2>3 DEF Crash
  <2>4. ASSUME NEW S \in SUBSET Jobs, RecoverStaleJobs(S) PROVE job'[j] = job[j]
    BY <2>4, <2>t, RecoverEffect
  <2>5. CASE CancelRead \/ CancelWrite \/ DeleteCollection
    BY <2>5, <2>t DEF CancelRead, CancelWrite, DeleteCollection, TypeOK
  <2> QED
    BY <2>1, <2>2, <2>3, <2>4, <2>5 DEF Next
<1> QED
  BY <1>1, QueueInvariant, PTL DEF Spec, DoneIsFinal
=============================================================================
