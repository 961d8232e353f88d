------------------------ MODULE MessageDeliveryProofs ------------------------
(***************************************************************************)
(* Theorems about MessageDelivery for every number of messages, slots and  *)
(* workers, every channel order and every bound on attempts and faults.    *)
(***************************************************************************)
EXTENDS MessageDelivery, JobQueueProofs

-----------------------------------------------------------------------------
(* MessageDelivery implements JobQueue *)

\* A delivery report queues a job or leaves the queue alone.
LEMMA ReportStep ==
  ASSUME NEW m \in Messages, NEW w \in Words, NEW p \in BOOLEAN, DeliveryReport(m, w, p)
  PROVE  (\E f \in Jobs : EnqueueUnique(f, TRUE)) \/ UNCHANGED vars
<1> USE DEF Messages
<1>1. CASE Fallback(m)
  BY <1>1 DEF Fallback
<1>2. CASE ~Fallback(m)
  BY <1>2 DEF DeliveryReport
<1> QED
  BY <1>1, <1>2

\* Every step of a delivery is one transaction of the queue or leaves it alone.
LEMMA QueueStep == [DNext]_dvars => [Next]_vars
<1> SUFFICES ASSUME [DNext]_dvars PROVE [Next]_vars
  OBVIOUS
<1> USE DEF Messages
<1>1. ASSUME NEW m \in Messages, NEW kind \in Kinds, Dispatch(m, kind) PROVE Next
  BY <1>1 DEF Dispatch, Next
<1>2. ASSUME NEW s \in Slots, HandlerStep(s) PROVE [Next]_vars
  <2>1. CASE StartHandler(s)
    BY <2>1 DEF StartHandler, Next, SlotStep
  <2>2. CASE Complete(s)
    BY <2>2 DEF Complete, Next, SlotStep
  <2>3. ASSUME NEW m \in Messages, Fail(s, m) PROVE Next
    <3>1. (handler[s] = "retry") \in BOOLEAN
      OBVIOUS
    <3>2. FailJob(s, handler[s] = "retry")
      BY <2>3 DEF Fail
    <3> QED
      BY <3>1, <3>2 DEF Next, SlotStep
  <2>4. ASSUME NEW m \in Messages,
               Begin(s, m) \/ BeginFails(s, m) \/ Accept(s, m) \/ Refuse(s, m) \/ Record(s, m)
        PROVE  UNCHANGED vars
    BY <2>4 DEF Begin, BeginFails, Accept, Refuse, Record
  <2> QED
    BY <1>2, <2>1, <2>2, <2>3, <2>4 DEF HandlerStep
<1>3. ASSUME NEW s \in Slots, Lose(s) PROVE Next
  BY <1>3 DEF Lose, Next, SlotStep
<1>4. ASSUME NEW s \in Slots, NEW m \in Messages, RecordFails(s, m) PROVE UNCHANGED vars
  BY <1>4 DEF RecordFails
<1>5. ASSUME NEW w \in Workers, CrashWorker(w) PROVE Next
  BY <1>5 DEF CrashWorker, Next
<1>6. ASSUME NEW m \in Messages, NEW w \in Words, NEW p \in BOOLEAN, DeliveryReport(m, w, p)
      PROVE  [Next]_vars
  BY <1>6, ReportStep DEF Next
<1>7. CASE SetPayment
  BY <1>7 DEF SetPayment
<1>8. CASE Cancel
  BY <1>8 DEF Cancel, Next
<1>9. CASE QueueOnly
  BY <1>9 DEF QueueOnly, Next, SlotStep
<1>10. CASE UNCHANGED dvars
  BY <1>10 DEF dvars, vars
<1> QED
  BY <1>1, <1>2, <1>3, <1>4, <1>5, <1>6, <1>7, <1>8, <1>9, <1>10 DEF DNext

\* The messages' jobs behave as rows of the queue: every theorem of JobQueueProofs
\* holds of them (worker.py:399-539 runs between claim_job and complete_job).
THEOREM DeliveryImplementsQueue == DSpec => Spec
<1>1. DInit => Init
  BY DEF DInit
<1> QED
  BY <1>1, QueueStep, PTL DEF DSpec, Spec

-----------------------------------------------------------------------------
(* Types *)

\* The functions from which a new status or channel comes keep their ranges.
LEMMA OperatorTypes ==
  /\ \A known : Route(known) \in Channels \cup {"none"}
  /\ \A w \in Words : StatusValue(w) \in {"read", "delivered", "failed", "sent"}
  /\ \A current \in MessageStatus, new \in {"read", "delivered", "failed", "sent"} :
       /\ Advanced(current, new) \in {current, new}
       /\ current = "read" => Advanced(current, new) = "read"
       /\ current = "delivered" => Advanced(current, new) \in {"delivered", "read"}
<1>1. ASSUME NEW known PROVE Route(known) \in Channels \cup {"none"}
  <2>1. Len(Routes) \in Nat /\ Len(Routes) >= 1
        /\ \A i \in 1..Len(Routes) : Routes[i] \in {"whatsapp", "sms", "email"}
    BY DeliveryAssumption
  <2> QED
    BY <2>1 DEF Route, Channels, Phone
<1>2. ASSUME NEW w \in Words PROVE StatusValue(w) \in {"read", "delivered", "failed", "sent"}
  BY DEF StatusValue, Words
<1>3. ASSUME NEW current \in MessageStatus, NEW new \in {"read", "delivered", "failed", "sent"}
      PROVE  /\ Advanced(current, new) \in {current, new}
             /\ current = "read" => Advanced(current, new) = "read"
             /\ current = "delivered" => Advanced(current, new) \in {"delivered", "read"}
  BY DEF Advanced
<1> QED
  BY <1>1, <1>2, <1>3

\* What queue_collection_messages stores has the type of a message.
LEMMA NewMessageType ==
  ASSUME NEW channel \in Channels, NEW kind \in {"initial", "reminder"}
  PROVE  /\ NewMessage(channel, kind).status = "queued"
         /\ NewMessage(channel, kind).channel = channel
         /\ NewMessage(channel, kind).kind = kind
         /\ NewMessage(channel, kind) \in [status : MessageStatus, channel : Channels,
                                           kind : {"initial", "reminder"}, born : Nat]
<1> DEFINE older == {m \in Messages : msg[m].status # "none"}
<1>1. Cardinality(older) \in Nat
  BY QueueAssumption, FS_Subset, FS_CardinalityType DEF Messages
<1> QED
  BY <1>1 DEF NewMessage, MessageStatus

MessageTypes ==
  /\ msg \in [Messages -> [status : MessageStatus, channel : Channels,
                           kind : {"initial", "reminder"}, born : Nat]]
  /\ cp \in [open : BOOLEAN, reached : BOOLEAN, reminders : Nat]
  /\ available \in {"unknown", "available", "unavailable"}
  /\ accepted \in [Messages -> Nat] /\ requeued \in [Messages -> Nat]
  /\ confirmed \in SUBSET Messages

HandlerTypes ==
  /\ handler \in [Slots -> {"none", "begin", "calling", "accepted", "done", "retry", "final"}]
  /\ \A s \in Slots : (handler[s] = "none") = (slot[s].pc # "working")

\* A fallback writes a message and the participant, both of their types.
LEMMA FallbackTypes ==
  ASSUME MessageTypes, NEW m \in Messages, Fallback(m)
  PROVE  /\ msg' \in [Messages -> [status : MessageStatus, channel : Channels,
                                   kind : {"initial", "reminder"}, born : Nat]]
         /\ cp' \in [open : BOOLEAN, reached : BOOLEAN, reminders : Nat]
<1> DEFINE failed == [msg EXCEPT ![m].status = "failed"]
           Row == [status : MessageStatus, channel : Channels,
                   kind : {"initial", "reminder"}, born : Nat]
           kind == msg[m].kind
<1>1. failed \in [Messages -> Row]
  BY DEF MessageTypes, MessageStatus
<1>2. cp' \in [open : BOOLEAN, reached : BOOLEAN, reminders : Nat]
  BY DEF Fallback, MessageTypes
<1>3. kind \in {"initial", "reminder"}
  BY DEF MessageTypes
<1>4. msg' = failed \/ \E f \in Messages :
         /\ Route("unavailable") # "none"
         /\ msg' = [failed EXCEPT ![f] = NewMessage(Route("unavailable"), kind)]
  BY DEF Fallback
<1>5. ASSUME NEW f \in Messages, Route("unavailable") # "none",
             msg' = [failed EXCEPT ![f] = NewMessage(Route("unavailable"), kind)]
      PROVE  msg' \in [Messages -> Row]
  <2>1. NewMessage(Route("unavailable"), kind) \in Row
    BY <1>3, <1>5, OperatorTypes, NewMessageType
  <2> HIDE DEF failed, kind
  <2> QED
    BY <1>1, <1>5, <2>1
<1> HIDE DEF failed
<1> QED
  BY <1>1, <1>2, <1>4, <1>5

\* What send_message, fail_job, reports and the API write into a message and its
\* participant is of their types.
LEMMA MessageTypesStep == MessageTypes /\ [DNext]_dvars => MessageTypes'
<1> SUFFICES ASSUME MessageTypes, [DNext]_dvars PROVE MessageTypes'
  OBVIOUS
<1> DEFINE Row == [status : MessageStatus, channel : Channels,
                   kind : {"initial", "reminder"}, born : Nat]
<1>s. ASSUME NEW m \in Messages, NEW st \in MessageStatus, SetStatus(m, st)
      PROVE  msg' \in [Messages -> Row]
  BY <1>s DEF SetStatus, MessageTypes
<1>1. ASSUME NEW m \in Messages, NEW kind \in Kinds, Dispatch(m, kind) PROVE MessageTypes'
  <2>1. kind \in {"initial", "reminder"} /\ Route(available) \in Channels
    BY <1>1, DeliveryAssumption, OperatorTypes DEF Dispatch
  <2>2. NewMessage(Route(available), kind) \in Row
    BY <2>1, NewMessageType
  <2> QED
    BY <1>1, <2>2 DEF Dispatch, MessageTypes
<1>2. ASSUME NEW s \in Slots, StartHandler(s) \/ Complete(s) \/ Lose(s) PROVE MessageTypes'
  BY <1>2 DEF StartHandler, Complete, Lose, MessageTypes
<1>3. ASSUME NEW s \in Slots, NEW m \in Messages, Begin(s, m) PROVE MessageTypes'
  BY <1>3, <1>s DEF Begin, MessageTypes, MessageStatus
<1>4. ASSUME NEW s \in Slots, NEW m \in Messages,
             BeginFails(s, m) \/ Accept(s, m) \/ Refuse(s, m) \/ RecordFails(s, m)
      PROVE  MessageTypes'
  BY SMTT(30), <1>4 DEF BeginFails, Accept, Refuse, RecordFails, MessageTypes
<1>5. ASSUME NEW s \in Slots, NEW m \in Messages, Record(s, m) PROVE MessageTypes'
  <2>1. msg' \in [Messages -> Row]
    BY <1>5, <1>s DEF Record, MessageStatus
  <2>2. cp' \in [open : BOOLEAN, reached : BOOLEAN, reminders : Nat]
    <3>1. [cp EXCEPT !.reached = TRUE] \in [open : BOOLEAN, reached : BOOLEAN, reminders : Nat]
      BY DEF MessageTypes
    <3>2. [cp EXCEPT !.reminders = @ + 1]
            \in [open : BOOLEAN, reached : BOOLEAN, reminders : Nat]
      BY DEF MessageTypes
    <3> QED
      BY <1>5, <3>1, <3>2 DEF Record
  <2> QED
    BY <1>5, <2>1, <2>2 DEF Record, MessageTypes
<1>6. ASSUME NEW s \in Slots, NEW m \in Messages, Fail(s, m) PROVE MessageTypes'
  <2>1. AfterFailure(m, TRUE) \in MessageStatus /\ AfterFailure(m, FALSE) \in MessageStatus
    BY DEF AfterFailure, MessageTypes, MessageStatus
  <2>2. WillRetry(s, handler[s] = "retry") \in BOOLEAN
    BY DEF WillRetry
  <2>3. AfterFailure(m, WillRetry(s, handler[s] = "retry")) \in MessageStatus
    BY <2>1, <2>2
  <2>4. msg[m].status \in MessageStatus
    BY DEF MessageTypes
  <2>5. PICK after \in MessageStatus :
          /\ SetStatus(m, after)
          /\ requeued' \in {requeued, [requeued EXCEPT ![m] = @ + 1]}
          /\ UNCHANGED <<cp, available, accepted, confirmed>>
    BY <1>6, <2>3, <2>4 DEF Fail
  <2>6. requeued' \in [Messages -> Nat]
    BY <2>5 DEF MessageTypes
  <2>7. msg' \in [Messages -> Row]
    BY <2>5, <1>s
  <2> QED
    BY <2>5, <2>6, <2>7 DEF MessageTypes
<1>7. ASSUME NEW w \in Workers, CrashWorker(w) PROVE MessageTypes'
  BY <1>7 DEF CrashWorker, MessageTypes
<1>8. ASSUME NEW m \in Messages, NEW w \in Words, NEW p \in BOOLEAN, DeliveryReport(m, w, p)
      PROVE  MessageTypes'
  <2>1. StatusValue(w) \in {"read", "delivered", "failed", "sent"}
        /\ msg[m].status \in MessageStatus
    BY OperatorTypes DEF MessageTypes
  <2>2. Advanced(msg[m].status, StatusValue(w)) \in MessageStatus
    BY <2>1, OperatorTypes DEF MessageStatus
  <2>3. available' \in {"unknown", "available", "unavailable"}
        /\ confirmed' \in SUBSET Messages /\ UNCHANGED <<accepted, requeued>>
    BY <1>8 DEF DeliveryReport, MessageTypes
  <2>4. CASE Fallback(m)
    BY <2>3, <2>4, FallbackTypes DEF MessageTypes
  <2>5. CASE ~Fallback(m)
    <3>1. /\ \/ SetStatus(m, "failed") \/ SetStatus(m, Advanced(msg[m].status, StatusValue(w)))
          /\ UNCHANGED cp
      BY <1>8, <2>5 DEF DeliveryReport
    <3>2. "failed" \in MessageStatus
      BY DEF MessageStatus
    <3> QED
      BY <3>1, <3>2, <2>2, <2>3, <1>s DEF MessageTypes
  <2> QED
    BY <2>4, <2>5
<1>9. CASE SetPayment
  BY <1>9 DEF SetPayment, MessageTypes
<1>11. CASE Cancel
  <2>1. \A m \in Messages : msg[m] \in Row /\ [msg[m] EXCEPT !.status = "skipped"] \in Row
    BY DEF MessageTypes, MessageStatus
  <2> QED
    BY <1>11, <2>1 DEF Cancel, MessageTypes
<1>10. CASE QueueOnly \/ UNCHANGED dvars
  BY <1>10 DEF QueueOnly, delivery, dvars, MessageTypes
<1> QED
  BY <1>1, <1>2, <1>3, <1>4, <1>5, <1>6, <1>7, <1>8, <1>9, <1>10, <1>11 DEF DNext, HandlerStep

\* A slot has a place in the handler exactly while it works on a job.
LEMMA HandlerTypesStep == TypeOK /\ HandlerTypes /\ [DNext]_dvars => HandlerTypes'
<1> SUFFICES ASSUME TypeOK, HandlerTypes, [DNext]_dvars PROVE HandlerTypes'
  OBVIOUS
<1> USE DEF TypeOK, HandlerTypes
<1>1. ASSUME NEW m \in Messages, NEW kind \in Kinds, Dispatch(m, kind) PROVE HandlerTypes'
  BY <1>1 DEF Dispatch, EnqueueUnique
<1>2. ASSUME NEW s \in Slots, StartHandler(s) PROVE HandlerTypes'
  BY <1>2 DEF StartHandler, CommitClaim
<1>3. ASSUME NEW s \in Slots, Complete(s) PROVE HandlerTypes'
  BY <1>3 DEF Complete, CompleteJob, Go, Idle
<1>4. ASSUME NEW s \in Slots, Lose(s) PROVE HandlerTypes'
  BY <1>4 DEF Lose, LoseTransaction, Go, Idle
<1>5. ASSUME NEW s \in Slots, NEW m \in Messages,
             Begin(s, m) \/ BeginFails(s, m) \/ Accept(s, m) \/ Refuse(s, m) \/ Record(s, m)
               \/ RecordFails(s, m)
      PROVE  HandlerTypes'
  <2>1. slot' = slot /\ slot[s].pc = "working"
        /\ \E where \in {"calling", "accepted", "done", "retry", "final"} : Go(s, where)
    BY <1>5 DEF Begin, BeginFails, Accept, Refuse, Record, RecordFails, At, vars
  <2> QED
    BY <2>1 DEF Go
<1>6. ASSUME NEW s \in Slots, NEW m \in Messages, Fail(s, m) PROVE HandlerTypes'
  <2>1. slot' = [slot EXCEPT ![s] = Idle] /\ Go(s, "none")
    BY <1>6 DEF Fail, FailJob
  <2> QED
    BY <2>1 DEF Go, Idle
<1>7. ASSUME NEW w \in Workers, CrashWorker(w) PROVE HandlerTypes'
  BY <1>7 DEF CrashWorker, Crash, Idle
<1>8. ASSUME NEW m \in Messages, NEW w \in Words, NEW p \in BOOLEAN, DeliveryReport(m, w, p)
      PROVE  HandlerTypes'
  <2>1. slot' = slot
    BY <1>8, ReportStep DEF EnqueueUnique, vars
  <2> QED
    BY <1>8, <2>1 DEF DeliveryReport
<1>9. CASE SetPayment \/ Cancel
  BY <1>9 DEF SetPayment, Cancel, CancelRead, vars
<1>10. CASE QueueOnly
  <2>1. handler' = handler
    BY <1>10 DEF QueueOnly, delivery
  <2>2. ASSUME NEW s \in Slots, ClaimJob(s)
        PROVE  \A t \in Slots : (slot'[t].pc = "working") = (slot[t].pc = "working")
    BY <2>2 DEF ClaimJob
  <2>3. ASSUME ~\E s \in Slots : ClaimJob(s) PROVE slot' = slot
    BY <1>10, <2>3 DEF QueueOnly, BecomeDue, RecoverStaleJobs, CancelWrite
  <2> QED
    BY <2>1, <2>2, <2>3
<1>11. CASE UNCHANGED dvars
  BY <1>11 DEF dvars, vars, delivery
<1> QED
  BY <1>1, <1>2, <1>3, <1>4, <1>5, <1>6, <1>7, <1>8, <1>9, <1>10, <1>11 DEF DNext, HandlerStep

\* Messages, participant and handlers keep their types (worker.py:399-539,
\* webhooks.py:343-400, message_dispatch.py:83-307).
THEOREM DeliveryTypeCorrect == DSpec => []DTypeOK
<1>1. DInit => MessageTypes /\ HandlerTypes
  BY DEF DInit, Init, Idle, MessageTypes, HandlerTypes, NoMessage, MessageStatus, Channels
<1>2. TypeOK /\ MessageTypes /\ HandlerTypes /\ [DNext]_dvars => (MessageTypes /\ HandlerTypes)'
  BY MessageTypesStep, HandlerTypesStep
<1>3. TypeOK /\ MessageTypes /\ HandlerTypes => DTypeOK
  BY DEF DTypeOK, MessageTypes, HandlerTypes
<1> QED
  BY <1>1, <1>2, <1>3, DeliveryImplementsQueue, TypeCorrect, PTL DEF DSpec

-----------------------------------------------------------------------------
(* The parts of the inductive invariant *)

\* A row that was never enqueued stands for a message that does not exist yet.
AbsentInv ==
  \A m \in Messages : job[m].status = "absent" => msg[m].status = "none" /\ accepted[m] = 0

\* The second transaction records a message a provider has taken.
TookInv ==
  \A s \in Slots, m \in Messages : At(s, m, "accepted") => accepted[m] > 0

InCall(m) == {s \in Slots : At(s, m, "calling")}
MayCall(m) == IF msg[m].status = "queued" THEN 1 ELSE 0

\* Each permission to call a provider for a phone message was handed out once: it
\* waits in the queue, is in use by one call, or has been used.
PhoneInv ==
  \A m \in Messages : msg[m].channel \in Phone =>
    accepted[m] + Cardinality(InCall(m)) + MayCall(m) <= 1 + requeued[m]

DeliveryTypes == QueueInv /\ MessageTypes /\ HandlerTypes
AccountInv == AbsentInv /\ TookInv /\ ReachedMeansAccepted

\* The slots inside a provider call are finitely many.
LEMMA InCallFinite ==
  ASSUME NEW m \in Messages
  PROVE  IsFiniteSet(InCall(m)) /\ Cardinality(InCall(m)) \in Nat
<1>1. InCall(m) \subseteq Slots
  BY DEF InCall
<1> QED
  BY <1>1, QueueAssumption, FS_Subset, FS_CardinalityType

-----------------------------------------------------------------------------
(* Steps that write no message *)

Quiet ==
  /\ UNCHANGED <<msg, accepted, requeued>>
  /\ cp'.reached = cp.reached
  /\ \A s \in Slots : handler'[s] \in {"calling", "accepted"} =>
       handler'[s] = handler[s] /\ slot'[s] = slot[s]

WritesMessage ==
  \/ \E m \in Messages, kind \in Kinds : Dispatch(m, kind)
  \/ \E s \in Slots, m \in Messages :
       Begin(s, m) \/ Accept(s, m) \/ Record(s, m) \/ Fail(s, m)
  \/ \E m \in Messages, w \in Words, p \in BOOLEAN : DeliveryReport(m, w, p)
  \/ Cancel

\* Every other step leaves messages and the calls in progress alone, or ends them.
LEMMA QuietSteps ==
  ASSUME DeliveryTypes, [DNext]_dvars, ~WritesMessage
  PROVE  Quiet
<1> USE DEF Quiet, DeliveryTypes, QueueInv, TypeOK, MessageTypes, HandlerTypes
<1>1. ASSUME NEW s \in Slots, StartHandler(s) PROVE Quiet
  BY <1>1 DEF StartHandler, CommitClaim
<1>2. ASSUME NEW s \in Slots, Complete(s) PROVE Quiet
  BY <1>2 DEF Complete, CompleteJob, Go
<1>3. ASSUME NEW s \in Slots, Lose(s) PROVE Quiet
  BY <1>3 DEF Lose, LoseTransaction, Go
<1>4. ASSUME NEW s \in Slots, NEW m \in Messages,
             BeginFails(s, m) \/ Refuse(s, m) \/ RecordFails(s, m)
      PROVE  Quiet
  BY <1>4 DEF BeginFails, Refuse, RecordFails, Go, vars
<1>5. ASSUME NEW w \in Workers, CrashWorker(w) PROVE Quiet
  BY <1>5 DEF CrashWorker, Crash
<1>6. CASE SetPayment
  BY <1>6 DEF SetPayment, vars
<1>7. CASE QueueOnly
  <2>1. UNCHANGED delivery
    BY <1>7 DEF QueueOnly
  <2>2. ASSUME NEW s \in Slots, ClaimJob(s) PROVE Quiet
    BY <2>1, <2>2 DEF ClaimJob, delivery
  <2>3. ASSUME ~\E s \in Slots : ClaimJob(s) PROVE slot' = slot
    BY <1>7, <2>3 DEF QueueOnly, BecomeDue, RecoverStaleJobs, CancelWrite
  <2> QED
    BY <2>1, <2>2, <2>3 DEF delivery
<1>8. CASE UNCHANGED dvars
  BY <1>8 DEF dvars, vars, delivery
<1> QED
  BY <1>1, <1>2, <1>3, <1>4, <1>5, <1>6, <1>7, <1>8 DEF DNext, HandlerStep, WritesMessage

\* A row that was enqueued is never absent again.
LEMMA NeverAbsentAgain ==
  ASSUME TypeOK, [Next]_vars, NEW j \in Jobs, job'[j].status = "absent"
  PROVE  job[j].status = "absent"
<1> USE DEF TypeOK
<1>1. ASSUME NEW i \in Jobs, \/ \E due \in BOOLEAN : EnqueueUnique(i, due)
                             \/ BecomeDue(i) \/ PurgeFinishedJobs(i)
      PROVE  job[j].status = "absent"
  BY <1>1 DEF EnqueueUnique, BecomeDue, PurgeFinishedJobs
<1>2. ASSUME NEW s \in Slots, ClaimJob(s) \/ CommitClaim(s) \/ CompleteJob(s) \/ LoseTransaction(s)
      PROVE  job[j].status = "absent"
  BY <1>2 DEF ClaimJob, CommitClaim, CompleteJob, LoseTransaction
<1>3. ASSUME NEW s \in Slots, NEW r \in BOOLEAN, FailJob(s, r) PROVE job[j].status = "absent"
  BY <1>3 DEF FailJob
<1>4. ASSUME NEW w \in Workers, Crash(w) PROVE job[j].status = "absent"
  BY <1>4 DEF Crash
<1>5. ASSUME NEW S \in SUBSET Jobs, RecoverStaleJobs(S) PROVE job[j].status = "absent"
  BY <1>5, RecoverEffect
<1>6. CASE CancelRead \/ CancelWrite \/ DeleteCollection
  BY <1>6 DEF CancelRead, CancelWrite, DeleteCollection
<1>7. CASE UNCHANGED vars
  BY <1>7 DEF vars
<1> QED
  BY <1>1, <1>2, <1>3, <1>4, <1>5, <1>6, <1>7 DEF Next, SlotStep

-----------------------------------------------------------------------------
(* What a delivery report does *)

\* f is queued as the next attempt at what o was sent for.
Succeeds(f, o) ==
  /\ job[f].status = "absent" /\ job'[f].status = "pending"
  /\ msg'[f].status = "queued" /\ msg'[f].kind = msg[o].kind
  /\ msg'[o].status = "failed"
  /\ \A i \in Messages \ {o} : msg[i].kind = msg[o].kind => msg[i].status \notin Outstanding

\* A report moves its message to a status that is not outstanding or leaves it, keeps
\* the evidence it has, and touches at most one other message: the fallback it queues.
LEMMA ReportEffect ==
  ASSUME DeliveryTypes, AbsentInv,
         NEW m \in Messages, NEW w \in Words, NEW p \in BOOLEAN, DeliveryReport(m, w, p)
  PROVE  /\ accepted[m] > 0 /\ job[m].status # "absent"
         /\ UNCHANGED <<slot, handler, accepted, requeued>>
         /\ cp'.reached => cp.reached
         /\ msg'[m].channel = msg[m].channel /\ msg'[m].kind = msg[m].kind
         /\ msg'[m].status \notin Outstanding \/ msg'[m].status = msg[m].status
         /\ msg[m].status = "read" => msg'[m].status = "read"
         /\ msg[m].status = "delivered" => msg'[m].status \in {"delivered", "read"}
         /\ \A o \in Messages \ {m} : msg'[o] = msg[o] \/ Succeeds(o, m)
         /\ \A o, i \in Messages \ {m} : msg'[o] # msg[o] /\ msg'[i] # msg[i] => o = i
<1> DEFINE new == StatusValue(w)
           previous == msg[m].status
<1>1. /\ accepted[m] > 0 /\ job[m].status # "absent"
      /\ UNCHANGED <<handler, accepted, requeued>>
  BY DEF DeliveryReport, AbsentInv
<1>2. slot' = slot
  BY ReportStep DEF EnqueueUnique, vars
<1>3. msg \in [Messages -> [status : MessageStatus, channel : Channels,
                            kind : {"initial", "reminder"}, born : Nat]]
  BY DEF DeliveryTypes, MessageTypes
<1>4. CASE Fallback(m) /\ previous \notin {"delivered", "read"}
  <2> DEFINE failed == [msg EXCEPT ![m].status = "failed"]
             kind == msg[m].kind
  <2>1. cp'.reached => cp.reached
    BY <1>4 DEF Fallback, DeliveryTypes, MessageTypes
  <2>2. \A o \in Messages : /\ failed[o].channel = msg[o].channel /\ failed[o].kind = msg[o].kind
                            /\ o # m => failed[o] = msg[o]
    BY <1>3
  <2>3. failed[m].status = "failed" /\ failed \in [Messages -> [status : MessageStatus,
           channel : Channels, kind : {"initial", "reminder"}, born : Nat]]
    BY <1>3 DEF MessageStatus
  <2>4. CASE msg' = failed
    BY <1>1, <1>2, <1>4, <2>1, <2>2, <2>3, <2>4 DEF Outstanding
  <2>5. ASSUME NEW f \in Messages, job[f].status = "absent", EnqueueUnique(f, TRUE),
               Route("unavailable") # "none",
               ~\E o \in Messages : failed[o].kind = kind /\ failed[o].status \in Outstanding,
               msg' = [failed EXCEPT ![f] = NewMessage(Route("unavailable"), kind)]
        PROVE  /\ msg'[m] = failed[m]
               /\ \A o \in Messages \ {m} : msg'[o] = msg[o] \/ Succeeds(o, m)
               /\ \A o, i \in Messages \ {m} : msg'[o] # msg[o] /\ msg'[i] # msg[i] => o = i
    <3>1. f # m
      BY <1>1, <2>5
    <3>2. msg'[f].status = "queued" /\ msg'[f].kind = kind
      <4>1. Route("unavailable") \in Channels /\ kind \in {"initial", "reminder"}
        BY <1>3, <2>5, OperatorTypes
      <4>2. msg'[f] = NewMessage(Route("unavailable"), kind)
        BY <2>3, <2>5
      <4> QED
        BY <4>1, <4>2, NewMessageType
    <3>3. job'[f].status = "pending"
      BY <2>5 DEF EnqueueUnique, Messages, DeliveryTypes, QueueInv, TypeOK
    <3>4. \A i \in Messages \ {m} : msg[i].kind = kind => msg[i].status \notin Outstanding
      BY <2>2, <2>5
    <3>5. /\ msg'[m] = failed[m] /\ failed[m].status = "failed"
          /\ \A o \in Messages \ {m, f} : msg'[o] = failed[o]
      BY <2>3, <2>5, <3>1
    <3> HIDE DEF failed
    <3> QED
      BY <2>2, <2>5, <3>2, <3>3, <3>4, <3>5 DEF Succeeds
  <2>6. msg' = failed \/ \E f \in Messages :
           /\ job[f].status = "absent" /\ EnqueueUnique(f, TRUE)
           /\ Route("unavailable") # "none"
           /\ ~\E o \in Messages : failed[o].kind = kind /\ failed[o].status \in Outstanding
           /\ msg' = [failed EXCEPT ![f] = NewMessage(Route("unavailable"), kind)]
    BY <1>4 DEF Fallback
  <2> HIDE DEF failed
  <2> QED
    BY <1>1, <1>2, <1>4, <2>1, <2>2, <2>3, <2>4, <2>5, <2>6 DEF Outstanding
<1>5. CASE ~(Fallback(m) /\ previous \notin {"delivered", "read"})
  <2>1. /\ UNCHANGED cp
        /\ \/ SetStatus(m, "failed") /\ previous \notin {"delivered", "read"}
           \/ SetStatus(m, Advanced(previous, new))
    BY <1>5 DEF DeliveryReport
  <2>2. /\ Advanced(previous, new) \in {previous, "read", "delivered", "failed", "sent"}
        /\ previous = "read" => Advanced(previous, new) = "read"
        /\ previous = "delivered" => Advanced(previous, new) \in {"delivered", "read"}
    BY <1>3, OperatorTypes
  <2> QED
    BY <1>1, <1>2, <1>3, <2>1, <2>2 DEF SetStatus, Outstanding
<1> QED
  BY <1>4, <1>5

\* A dispatch writes one new message, for which no outstanding one exists.
LEMMA DispatchEffect ==
  ASSUME DeliveryTypes, NEW m \in Messages, NEW kind \in Kinds, Dispatch(m, kind)
  PROVE  /\ job[m].status = "absent" /\ job'[m].status = "pending"
         /\ msg'[m].status = "queued" /\ msg'[m].kind = kind
         /\ \A o \in Messages \ {m} : msg'[o] = msg[o]
         /\ \A o \in Messages : msg[o].kind = kind => msg[o].status \notin Outstanding
         /\ UNCHANGED <<slot, cp, handler, accepted, requeued>>
<1>1. job[m].status = "absent" /\ job'[m].status = "pending" /\ slot' = slot
  BY DEF Dispatch, EnqueueUnique, DeliveryTypes, QueueInv, TypeOK, Messages
<1>2. kind \in {"initial", "reminder"} /\ Route(available) \in Channels
  BY DeliveryAssumption, OperatorTypes DEF Dispatch
<1>3. /\ msg'[m] = NewMessage(Route(available), kind)
      /\ \A o \in Messages \ {m} : msg'[o] = msg[o]
  BY DEF Dispatch, DeliveryTypes, MessageTypes
<1> QED
  BY <1>1, <1>2, <1>3, NewMessageType DEF Dispatch, HasOutstanding

\* One message written by its handler; the rest of the messages stay.
LEMMA HandlerEffect ==
  ASSUME DeliveryTypes, NEW s \in Slots, NEW m \in Messages,
         Begin(s, m) \/ Accept(s, m) \/ Record(s, m) \/ Fail(s, m)
  PROVE  /\ slot[s].pc = "working" /\ slot[s].job = m /\ job[m].status # "absent"
         /\ \A o \in Messages \ {m} : /\ msg'[o] = msg[o] /\ accepted'[o] = accepted[o]
                                      /\ requeued'[o] = requeued[o]
         /\ msg'[m].channel = msg[m].channel /\ msg'[m].kind = msg[m].kind
         /\ msg'[m].status \in Outstanding => msg[m].status \in Outstanding
         /\ \A t \in Slots \ {s} : slot'[t] = slot[t] /\ handler'[t] = handler[t]
<1> USE DEF DeliveryTypes, MessageTypes, HandlerTypes, SetStatus, Go, Outstanding, Messages
<1>1. slot[s].pc = "working" /\ slot[s].job = m
  BY DEF Begin, Accept, Record, Fail, FailJob, At
<1>2. job[m].status # "absent"
  BY <1>1 DEF QueueInv, HeldInv
<1>3. CASE Begin(s, m)
  BY <1>1, <1>2, <1>3 DEF Begin, vars, Unwanted
<1>4. CASE Accept(s, m)
  BY <1>1, <1>2, <1>4 DEF Accept, vars
<1>5. CASE Record(s, m)
  BY <1>1, <1>2, <1>5 DEF Record, vars
<1>6. CASE Fail(s, m)
  <2>1. /\ slot' = [slot EXCEPT ![s] = Idle] /\ handler' = [handler EXCEPT ![s] = "none"]
        /\ UNCHANGED accepted
        /\ requeued' \in {requeued, [requeued EXCEPT ![m] = @ + 1]}
    BY <1>6 DEF Fail, FailJob
  <2> DEFINE again == WillRetry(s, handler[s] = "retry")
             after == IF job[m].status = "gone" THEN msg[m].status ELSE AfterFailure(m, again)
  <2>2. /\ msg' = [msg EXCEPT ![m].status = after]
        /\ after \in Outstanding => msg[m].status \in Outstanding
    <3>1. again \in BOOLEAN
      BY DEF WillRetry
    <3>2. \A b \in BOOLEAN : AfterFailure(m, b) \in Outstanding => msg[m].status \in Outstanding
      BY DEF AfterFailure
    <3>3. msg' = [msg EXCEPT ![m].status = after]
      BY <1>6 DEF Fail
    <3> HIDE DEF again
    <3> QED
      BY <3>1, <3>2, <3>3
  <2> HIDE DEF after
  <2> QED
    BY <1>1, <1>2, <2>1, <2>2 DEF QueueInv, TypeOK
<1> QED
  BY <1>3, <1>4, <1>5, <1>6

\* cancel_collection skips what is queued and writes nothing else of a message.
LEMMA CancelEffect ==
  ASSUME DeliveryTypes, Cancel
  PROVE  /\ UNCHANGED <<slot, cp, handler, accepted, requeued>>
         /\ \A o \in Messages :
              /\ msg'[o].channel = msg[o].channel /\ msg'[o].kind = msg[o].kind
              /\ msg'[o].status = IF msg[o].status = "queued" THEN "skipped" ELSE msg[o].status
BY DEF Cancel, CancelRead, DeliveryTypes, MessageTypes

-----------------------------------------------------------------------------
(* The invariant steps *)

\* At most one message per kind is outstanding: who makes one so has looked first.
LEMMA OutstandingStep ==
  ASSUME DeliveryTypes, AbsentInv, OneOutstandingPerKind, [DNext]_dvars
  PROVE  OneOutstandingPerKind'
<1> USE DEF OneOutstandingPerKind
<1>1. CASE ~WritesMessage
  BY <1>1, QuietSteps DEF Quiet
<1>2. ASSUME NEW m \in Messages, NEW kind \in Kinds, Dispatch(m, kind)
      PROVE  OneOutstandingPerKind'
  BY <1>2, DispatchEffect
<1>3. ASSUME NEW s \in Slots, NEW m \in Messages,
             Begin(s, m) \/ Accept(s, m) \/ Record(s, m) \/ Fail(s, m)
      PROVE  OneOutstandingPerKind'
  BY <1>3, HandlerEffect
<1>4. ASSUME NEW m \in Messages, NEW w \in Words, NEW p \in BOOLEAN, DeliveryReport(m, w, p)
      PROVE  OneOutstandingPerKind'
  <2>1. /\ accepted[m] > 0 /\ msg'[m].kind = msg[m].kind
        /\ msg'[m].status \notin Outstanding \/ msg'[m].status = msg[m].status
        /\ \A o \in Messages \ {m} : msg'[o] = msg[o] \/ Succeeds(o, m)
        /\ \A o, i \in Messages \ {m} : msg'[o] # msg[o] /\ msg'[i] # msg[i] => o = i
    BY <1>4, ReportEffect
  <2>2. SUFFICES ASSUME NEW a \in Messages, NEW b \in Messages, a # b,
                        msg'[a].kind = msg'[b].kind,
                        msg'[a].status \in Outstanding, msg'[b].status \in Outstanding
                 PROVE  FALSE
    OBVIOUS
  <2>3. ASSUME NEW f \in Messages, NEW o \in Messages \ {f}, f # m, Succeeds(f, m),
               msg'[f].kind = msg'[o].kind
        PROVE  msg'[o].status \notin Outstanding
    <3>1. msg[f].status = "none" /\ msg'[f].status = "queued"
      BY <2>3 DEF Succeeds, AbsentInv, Messages
    <3>2. CASE o = m
      BY <2>3, <3>2 DEF Succeeds, Outstanding
    <3>3. CASE o # m
      <4>1. msg'[o] = msg[o]
        BY <2>1, <2>3, <3>1, <3>3
      <4> QED
        BY <2>3, <3>3, <4>1 DEF Succeeds
    <3> QED
      BY <3>2, <3>3
  <2>4. CASE (a # m /\ Succeeds(a, m)) \/ (b # m /\ Succeeds(b, m))
    BY <2>2, <2>3, <2>4
  <2>5. CASE ~((a # m /\ Succeeds(a, m)) \/ (b # m /\ Succeeds(b, m)))
    <3>1. /\ msg'[a].kind = msg[a].kind /\ msg'[a].status = msg[a].status
          /\ msg'[b].kind = msg[b].kind /\ msg'[b].status = msg[b].status
      BY <2>1, <2>2, <2>5
    <3> QED
      BY <2>2, <3>1
  <2> QED
    BY <2>4, <2>5
<1>5. CASE Cancel
  BY <1>5, CancelEffect DEF Outstanding
<1> QED
  BY <1>1, <1>2, <1>3, <1>4, <1>5 DEF WritesMessage

\* A participant is marked as reached only by the record of a message that a provider
\* took, and what a provider took is never forgotten.
LEMMA AccountStep ==
  ASSUME DeliveryTypes, AccountInv, [DNext]_dvars
  PROVE  AccountInv'
<1>0. \A j \in Jobs : job'[j].status = "absent" => job[j].status = "absent"
  BY QueueStep, NeverAbsentAgain DEF DeliveryTypes, QueueInv
<1> USE <1>0 DEF AccountInv, AbsentInv, TookInv, ReachedMeansAccepted, At, Messages
<1>1. CASE ~WritesMessage
  BY <1>1, QuietSteps DEF Quiet
<1>2. ASSUME NEW m \in Messages, NEW kind \in Kinds, Dispatch(m, kind) PROVE AccountInv'
  BY <1>2, DispatchEffect
<1>3. ASSUME NEW s \in Slots, NEW m \in Messages,
             Begin(s, m) \/ Accept(s, m) \/ Record(s, m) \/ Fail(s, m)
      PROVE  AccountInv'
  <2>1. /\ slot[s].pc = "working" /\ slot[s].job = m /\ job[m].status # "absent"
        /\ \A o \in Messages \ {m} : msg'[o] = msg[o] /\ accepted'[o] = accepted[o]
        /\ msg'[m].kind = msg[m].kind
        /\ \A t \in Slots \ {s} : slot'[t] = slot[t] /\ handler'[t] = handler[t]
    BY <1>3, HandlerEffect
  <2>2. accepted[m] \in Nat /\ accepted'[m] \in Nat /\ accepted[m] <= accepted'[m]
    BY <1>3 DEF Begin, Accept, Record, Fail, DeliveryTypes, MessageTypes
  <2>3. handler'[s] = "accepted" => accepted'[m] > 0
    BY <1>3 DEF Begin, Accept, Record, Fail, Go, DeliveryTypes, MessageTypes, HandlerTypes
  <2>4. cp'.reached => cp.reached \/ (accepted[m] > 0 /\ msg[m].kind = "initial")
    BY <1>3 DEF Begin, Accept, Record, Fail, DeliveryTypes, MessageTypes
  <2>5. handler'[s] = "accepted" => slot'[s] = slot[s]
    BY <1>3 DEF Begin, Accept, Record, Fail, Go, vars, DeliveryTypes, HandlerTypes
  <2>6. AbsentInv'
    BY <2>1, <2>2
  <2>7. TookInv'
    BY <2>1, <2>2, <2>3, <2>5
  <2>8. ReachedMeansAccepted'
    BY <2>1, <2>2, <2>4
  <2> QED
    BY <2>6, <2>7, <2>8
<1>4. ASSUME NEW m \in Messages, NEW w \in Words, NEW p \in BOOLEAN, DeliveryReport(m, w, p)
      PROVE  AccountInv'
  <2>1. /\ accepted[m] > 0 /\ job[m].status # "absent"
        /\ UNCHANGED <<slot, handler, accepted, requeued>>
        /\ cp'.reached => cp.reached
        /\ msg'[m].kind = msg[m].kind
        /\ \A o \in Messages \ {m} :
             \/ msg'[o] = msg[o]
             \/ job[o].status = "absent" /\ job'[o].status = "pending"
    BY <1>4, ReportEffect DEF Succeeds
  <2>2. \A o \in Messages : accepted[o] > 0 => msg'[o].kind = msg[o].kind
    BY <2>1
  <2>3. AbsentInv'
    BY <2>1
  <2>4. TookInv' /\ ReachedMeansAccepted'
    BY <2>1, <2>2
  <2> QED
    BY <2>3, <2>4
<1>5. CASE Cancel
  BY <1>5, CancelEffect
<1> QED
  BY <1>1, <1>2, <1>3, <1>4, <1>5 DEF WritesMessage

PhoneOK(m) ==
  msg[m].channel \in Phone =>
    accepted[m] + Cardinality(InCall(m)) + MayCall(m) <= 1 + requeued[m]

\* A step that hands out no permission for m and uses none keeps its account.
LEMMA PhoneFrame ==
  ASSUME MessageTypes, MessageTypes', NEW m \in Messages, PhoneOK(m),
         msg'[m].channel = msg[m].channel,
         msg'[m].status = "queued" => msg[m].status = "queued",
         accepted'[m] = accepted[m], requeued[m] <= requeued'[m],
         InCall(m)' \subseteq InCall(m)
  PROVE  PhoneOK(m)'
<1>1. /\ Cardinality(InCall(m)') <= Cardinality(InCall(m))
      /\ Cardinality(InCall(m)) \in Nat /\ Cardinality(InCall(m)') \in Nat
  BY InCallFinite, FS_Subset, FS_CardinalityType
<1>2. MayCall(m) \in Nat /\ MayCall(m)' \in Nat /\ MayCall(m)' <= MayCall(m)
  BY DEF MayCall
<1>3. accepted[m] \in Nat /\ requeued[m] \in Nat /\ requeued'[m] \in Nat
  BY DEF MessageTypes
<1> QED
  BY <1>1, <1>2, <1>3 DEF PhoneOK

\* A new message comes with one permission, and nobody has used it.
LEMMA PhoneFresh ==
  ASSUME DeliveryTypes, MessageTypes', AbsentInv, NEW m \in Messages,
         job[m].status = "absent", accepted'[m] = accepted[m],
         UNCHANGED <<slot, handler>>
  PROVE  PhoneOK(m)'
<1>1. InCall(m)' = {}
  BY DEF InCall, At, DeliveryTypes, QueueInv, HeldInv
<1>2. MayCall(m)' \in 0..1 /\ accepted'[m] = 0 /\ requeued'[m] \in Nat
  BY DEF MayCall, AbsentInv, MessageTypes, Messages
<1> QED
  BY <1>1, <1>2, FS_EmptySet DEF PhoneOK

\* send_message calls a provider for a phone message only out of the queue, and
\* fail_job alone puts it back there.
LEMMA PhoneHandlerStep ==
  ASSUME DeliveryTypes, MessageTypes', NEW s \in Slots, NEW m \in Messages, PhoneOK(m),
         Begin(s, m) \/ Accept(s, m) \/ Record(s, m) \/ Fail(s, m)
  PROVE  PhoneOK(m)'
<1>1. /\ slot[s].pc = "working" /\ slot[s].job = m /\ msg'[m].channel = msg[m].channel
      /\ \A t \in Slots \ {s} : slot'[t] = slot[t] /\ handler'[t] = handler[t]
  BY HandlerEffect
<1>t. MessageTypes /\ HandlerTypes
  BY DEF DeliveryTypes
<1>c. /\ IsFiniteSet(InCall(m)) /\ Cardinality(InCall(m)) \in Nat
      /\ accepted[m] \in Nat /\ requeued[m] \in Nat
  BY InCallFinite DEF DeliveryTypes, MessageTypes
<1>f. ASSUME handler'[s] # "calling" PROVE InCall(m)' = InCall(m) \ {s}
  BY <1>1, <1>f DEF InCall, At
<1>2. CASE Begin(s, m) /\ handler'[s] = "calling" /\ msg[m].channel \in Phone
  <2>1. msg[m].status = "queued" /\ msg'[m].status = "sending" /\ handler[s] = "begin"
    BY <1>2, <1>t DEF Begin, Interrupted, Unwanted, Outstanding, Go, SetStatus, At,
       MessageTypes, HandlerTypes
  <2>2. UNCHANGED <<slot, accepted, requeued>>
    BY <1>2 DEF Begin, vars
  <2>3. InCall(m)' = InCall(m) \cup {s} /\ s \notin InCall(m)
    BY <1>1, <1>2, <2>1, <2>2 DEF InCall, At
  <2>4. Cardinality(InCall(m)') = Cardinality(InCall(m)) + 1
    BY <1>c, <2>3, FS_AddElement
  <2>5. MayCall(m) = 1 /\ MayCall(m)' = 0
    BY <2>1 DEF MayCall
  <2> QED
    BY <1>1, <1>2, <1>c, <2>2, <2>4, <2>5 DEF PhoneOK
<1>3. CASE Begin(s, m) /\ handler'[s] # "calling"
  <2>1. msg'[m].status = "queued" => msg[m].status = "queued"
    BY <1>3, <1>t DEF Begin, SetStatus, MessageTypes
  <2> QED
    BY <1>1, <1>3, <1>f, <1>t, <1>c, <2>1, PhoneFrame DEF Begin
<1>4. CASE Accept(s, m)
  <2>1. /\ handler'[s] # "calling" /\ s \in InCall(m)
        /\ msg' = msg /\ requeued' = requeued /\ accepted'[m] = accepted[m] + 1
    BY <1>4, <1>t DEF Accept, Go, InCall, MessageTypes, HandlerTypes
  <2>2. Cardinality(InCall(m)') = Cardinality(InCall(m)) - 1
    BY <1>f, <1>c, <2>1, FS_RemoveElement
  <2>3. MayCall(m)' = MayCall(m) /\ MayCall(m) \in Nat
    BY <2>1 DEF MayCall
  <2> QED
    BY <1>c, <2>1, <2>2, <2>3 DEF PhoneOK
<1>5. CASE Record(s, m)
  <2>1. /\ handler'[s] # "calling" /\ msg'[m].status = "sent"
        /\ accepted' = accepted /\ requeued' = requeued
    BY <1>5, <1>t DEF Record, Go, SetStatus, MessageTypes, HandlerTypes
  <2> QED
    BY <1>1, <1>f, <1>t, <1>c, <2>1, PhoneFrame
<1>6. CASE Fail(s, m)
  <2>1. handler'[s] # "calling" /\ handler[s] # "calling" /\ accepted' = accepted
    BY <1>6, <1>t DEF Fail, Go, HandlerTypes
  <2>2. \/ msg'[m].status # "queued" /\ requeued' = requeued
        \/ msg'[m].status = msg[m].status /\ requeued' = requeued
        \/ msg[m].status = "sending" /\ msg'[m].status = "queued"
           /\ requeued'[m] = requeued[m] + 1
    <3> DEFINE again == WillRetry(s, handler[s] = "retry")
               after == IF job[m].status = "gone" THEN msg[m].status ELSE AfterFailure(m, again)
    <3>1. after \in {"queued", "failed", msg[m].status}
          /\ (after = "queued" => msg[m].status \in {"sending", "queued"})
      BY DEF AfterFailure
    <3>2. /\ msg' = [msg EXCEPT ![m].status = after]
          /\ requeued' = IF msg[m].status = "sending" /\ after = "queued"
                         THEN [requeued EXCEPT ![m] = @ + 1] ELSE requeued
      BY <1>6 DEF Fail, SetStatus
    <3> HIDE DEF after
    <3> QED
      BY <1>t, <3>1, <3>2 DEF MessageTypes
  <2>3. InCall(m)' = InCall(m)
    BY <1>f, <2>1 DEF InCall, At
  <2>4. CASE requeued' = requeued
    BY <1>1, <1>t, <1>c, <2>1, <2>2, <2>3, <2>4, PhoneFrame
  <2>5. CASE /\ msg[m].status = "sending" /\ msg'[m].status = "queued"
             /\ requeued'[m] = requeued[m] + 1
    <3>1. MayCall(m) = 0 /\ MayCall(m)' = 1
      BY <2>5 DEF MayCall
    <3> QED
      BY <1>1, <1>c, <2>1, <2>3, <2>5, <3>1 DEF PhoneOK
  <2> QED
    BY <2>2, <2>4, <2>5
<1>7. CASE Begin(s, m) /\ handler'[s] = "calling" /\ msg[m].channel \notin Phone
  BY <1>1, <1>7 DEF PhoneOK
<1> QED
  BY <1>2, <1>3, <1>4, <1>5, <1>6, <1>7

\* The accounts of all messages, step by step.
LEMMA PhoneStep ==
  ASSUME DeliveryTypes, AbsentInv, PhoneInv, [DNext]_dvars
  PROVE  PhoneInv'
<1>t. MessageTypes /\ MessageTypes'
  BY MessageTypesStep DEF DeliveryTypes
<1> SUFFICES ASSUME NEW o \in Messages PROVE PhoneOK(o)'
  BY DEF PhoneInv, PhoneOK
<1>0. PhoneOK(o) /\ requeued[o] \in Nat
  BY <1>t DEF PhoneInv, PhoneOK, MessageTypes
<1>1. CASE ~WritesMessage
  <2>1. Quiet
    BY <1>1, QuietSteps
  <2>2. InCall(o)' \subseteq InCall(o)
    BY <2>1 DEF Quiet, InCall, At
  <2> QED
    BY <1>0, <1>t, <2>1, <2>2, PhoneFrame DEF Quiet
<1>2. ASSUME NEW m \in Messages, NEW kind \in Kinds, Dispatch(m, kind) PROVE PhoneOK(o)'
  <2>1. /\ job[m].status = "absent" /\ UNCHANGED <<slot, handler, accepted, requeued>>
        /\ o # m => msg'[o] = msg[o]
    BY <1>2, DispatchEffect
  <2>2. InCall(o)' = InCall(o)
    BY <2>1 DEF InCall, At
  <2> QED
    BY <1>0, <1>t, <2>1, <2>2, PhoneFrame, PhoneFresh
<1>3. ASSUME NEW s \in Slots, NEW m \in Messages,
             Begin(s, m) \/ Accept(s, m) \/ Record(s, m) \/ Fail(s, m)
      PROVE  PhoneOK(o)'
  <2>1. CASE o = m
    BY <1>0, <1>3, <1>t, <2>1, PhoneHandlerStep
  <2>2. CASE o # m
    <3>1. /\ slot[s].job = m /\ \A t \in Slots \ {s} : slot'[t] = slot[t] /\ handler'[t] = handler[t]
          /\ msg'[o] = msg[o] /\ accepted'[o] = accepted[o] /\ requeued'[o] = requeued[o]
      BY <1>3, <2>2, HandlerEffect
    <3>2. slot'[s].pc = "working" => slot'[s].job = m
      BY <1>3, <3>1 DEF Begin, Accept, Record, Fail, FailJob, vars, Idle, DeliveryTypes, QueueInv, TypeOK
    <3>3. InCall(o)' \subseteq InCall(o)
      BY <2>2, <3>1, <3>2 DEF InCall, At
    <3> QED
      BY <1>0, <1>t, <3>1, <3>3, PhoneFrame
  <2> QED
    BY <2>1, <2>2
<1>4. ASSUME NEW m \in Messages, NEW w \in Words, NEW p \in BOOLEAN, DeliveryReport(m, w, p)
      PROVE  PhoneOK(o)'
  <2>1. /\ UNCHANGED <<slot, handler, accepted, requeued>>
        /\ msg'[m].channel = msg[m].channel
        /\ msg'[m].status = "queued" => msg[m].status = "queued"
        /\ o # m => msg'[o] = msg[o] \/ job[o].status = "absent"
    BY <1>4, ReportEffect DEF Succeeds, Outstanding
  <2>2. InCall(o)' = InCall(o)
    BY <2>1 DEF InCall, At
  <2>3. CASE o # m /\ job[o].status = "absent"
    BY <1>t, <2>1, <2>3, PhoneFresh
  <2>4. CASE o = m \/ msg'[o] = msg[o]
    BY <1>0, <1>t, <2>1, <2>2, <2>4, PhoneFrame
  <2> QED
    BY <2>1, <2>3, <2>4
<1>5. CASE Cancel
  <2>1. InCall(o)' = InCall(o)
    BY <1>5, CancelEffect DEF InCall, At
  <2> QED
    BY <1>0, <1>5, <1>t, <2>1, CancelEffect, PhoneFrame
<1> QED
  BY <1>1, <1>2, <1>3, <1>4, <1>5 DEF WritesMessage

-----------------------------------------------------------------------------
(* The theorems *)

DeliveryInv == AccountInv /\ OneOutstandingPerKind /\ PhoneInv

\* The inductive invariant of delivery, on top of the queue's.
THEOREM DeliveryInvariant == DSpec => [](DeliveryTypes /\ DeliveryInv)
<1>1. DInit => MessageTypes /\ HandlerTypes /\ DeliveryInv
  <2> SUFFICES ASSUME DInit PROVE MessageTypes /\ HandlerTypes /\ DeliveryInv
    OBVIOUS
  <2> USE DEF DInit, Init, Idle, NoMessage
  <2>1. MessageTypes /\ HandlerTypes
    BY DEF MessageTypes, HandlerTypes, MessageStatus, Channels
  <2>2. AccountInv /\ OneOutstandingPerKind
    BY DEF AccountInv, AbsentInv, TookInv, ReachedMeansAccepted, OneOutstandingPerKind,
       Outstanding, At
  <2>3. PhoneInv
    BY DEF PhoneInv, Phone
  <2> QED
    BY <2>1, <2>2, <2>3 DEF DeliveryInv
<1>2. QueueInv /\ MessageTypes /\ HandlerTypes /\ DeliveryInv /\ [DNext]_dvars
        => (MessageTypes /\ HandlerTypes /\ DeliveryInv)'
  <2> SUFFICES ASSUME QueueInv, MessageTypes, HandlerTypes, DeliveryInv, [DNext]_dvars
               PROVE  (MessageTypes /\ HandlerTypes /\ DeliveryInv)'
    OBVIOUS
  <2>1. DeliveryTypes
    BY DEF DeliveryTypes
  <2>2. MessageTypes' /\ HandlerTypes'
    BY MessageTypesStep, HandlerTypesStep DEF QueueInv
  <2>3. AccountInv' /\ OneOutstandingPerKind' /\ PhoneInv'
    BY <2>1, AccountStep, OutstandingStep, PhoneStep DEF DeliveryInv, AccountInv
  <2> QED
    BY <2>2, <2>3 DEF DeliveryInv
<1>3. QueueInv /\ MessageTypes /\ HandlerTypes => DeliveryTypes
  BY DEF DeliveryTypes
<1>4. Spec => []QueueInv
  BY QueueInvariant, PTL
<1> QED
  BY <1>1, <1>2, <1>3, <1>4, DeliveryImplementsQueue, PTL DEF DSpec

\* An SMS or WhatsApp message goes out again only after fail_job has requeued it,
\* whatever crashes and stale recovery do (worker.py:195-215, 421-434).
THEOREM PhoneRepeatsAreRequeues == DSpec => []PhoneRepeatsOnlyAfterRequeue
<1>1. DeliveryTypes /\ DeliveryInv => PhoneRepeatsOnlyAfterRequeue
  <2> SUFFICES ASSUME DeliveryTypes, DeliveryInv, NEW m \in Messages, msg[m].channel \in Phone
               PROVE  accepted[m] <= 1 + requeued[m]
    BY DEF PhoneRepeatsOnlyAfterRequeue
  <2>1. accepted[m] + Cardinality(InCall(m)) + MayCall(m) <= 1 + requeued[m]
    BY DEF DeliveryInv, PhoneInv
  <2>2. accepted[m] \in Nat /\ requeued[m] \in Nat /\ MayCall(m) \in Nat
        /\ Cardinality(InCall(m)) \in Nat
    BY InCallFinite DEF DeliveryTypes, MessageTypes, MayCall
  <2> QED
    BY <2>1, <2>2
<1> QED
  BY <1>1, DeliveryInvariant, PTL

\* One dispatch per kind is outstanding (message_dispatch.py:126-135, 251-307).
THEOREM OneIsOutstanding == DSpec => []OneOutstandingPerKind
<1>1. DeliveryInv => OneOutstandingPerKind
  BY DEF DeliveryInv
<1> QED
  BY <1>1, DeliveryInvariant, PTL

\* Who counts as reached was sent something (worker.py:522-539).
THEOREM ReachedWasAccepted == DSpec => []ReachedMeansAccepted
<1>1. DeliveryInv => ReachedMeansAccepted
  BY DEF DeliveryInv, AccountInv
<1> QED
  BY <1>1, DeliveryInvariant, PTL

\* Evidence of delivery is kept once recorded (webhooks.py:201-211, worker.py:209-217).
THEOREM EvidenceStays == DSpec => EvidenceKeptOnceRecorded
<1> DEFINE Kept(m) == Calling(m) = {} =>
              /\ msg[m].status = "read" => msg'[m].status = "read"
              /\ msg[m].status = "delivered" => msg'[m].status \in {"delivered", "read"}
<1>1. DeliveryTypes /\ DeliveryInv /\ [DNext]_dvars => [\A m \in Messages : Kept(m)]_dvars
  <2> SUFFICES ASSUME DeliveryTypes, DeliveryInv, [DNext]_dvars, NEW o \in Messages,
                      Calling(o) = {}, msg[o].status \in {"read", "delivered"}
               PROVE  \/ msg'[o].status = msg[o].status
                      \/ msg[o].status = "delivered" /\ msg'[o].status = "read"
    OBVIOUS
  <2>0. job[o].status # "absent"
    BY DEF DeliveryInv, AccountInv, AbsentInv, Messages
  <2>1. CASE ~WritesMessage
    BY <2>1, QuietSteps DEF Quiet
  <2>2. ASSUME NEW m \in Messages, NEW kind \in Kinds, Dispatch(m, kind)
        PROVE  msg'[o] = msg[o]
    BY <2>0, <2>2, DispatchEffect
  <2>3. ASSUME NEW s \in Slots, NEW m \in Messages,
               Begin(s, m) \/ Accept(s, m) \/ Record(s, m) \/ Fail(s, m)
        PROVE  msg'[o].status = msg[o].status
    <3>1. CASE o # m
      BY <2>3, <3>1, HandlerEffect
    <3>2. CASE o = m /\ (Begin(s, m) \/ Accept(s, m))
      BY <3>2 DEF Begin, Accept, AlreadyOut, Succeeded, Interrupted
    <3>3. CASE o = m /\ Record(s, m)
      BY <3>3 DEF Record, Calling
    <3>4. CASE o = m /\ Fail(s, m)
      <4>1. \A b \in BOOLEAN : AfterFailure(m, b) = msg[m].status
        BY <3>4 DEF AfterFailure, Succeeded
      <4>2. WillRetry(s, handler[s] = "retry") \in BOOLEAN
        BY DEF WillRetry
      <4>3. AfterFailure(m, WillRetry(s, handler[s] = "retry")) = msg[m].status
        BY <4>1, <4>2
      <4>4. SetStatus(m, msg[m].status)
        BY <3>4, <4>3 DEF Fail
      <4> QED
        BY <3>4, <4>4 DEF SetStatus, DeliveryTypes, MessageTypes
    <3> QED
      BY <2>3, <3>1, <3>2, <3>3, <3>4
  <2>4. ASSUME NEW m \in Messages, NEW w \in Words, NEW p \in BOOLEAN, DeliveryReport(m, w, p)
        PROVE  \/ msg'[o].status = msg[o].status
               \/ msg[o].status = "delivered" /\ msg'[o].status = "read"
    BY <2>0, <2>4, ReportEffect DEF DeliveryInv, AccountInv, Succeeds
  <2>5. CASE Cancel
    BY <2>5, CancelEffect
  <2> QED
    BY <2>1, <2>2, <2>3, <2>4, <2>5 DEF WritesMessage
<1> QED
  BY <1>1, DeliveryInvariant, PTL DEF DSpec, EvidenceKeptOnceRecorded

\* After a cancellation no message starts towards a provider (worker.py:436-447).
THEOREM CancellationStopsStarts == DSpec => NoStartAfterCancellation
<1>1. DeliveryTypes /\ [DNext]_dvars
        => [collection = "cancelled" =>
              \A s \in Slots : handler[s] # "calling" => handler'[s] # "calling"]_dvars
  <2> SUFFICES ASSUME DeliveryTypes, [DNext]_dvars, collection = "cancelled", NEW t \in Slots,
                      handler[t] # "calling", handler'[t] = "calling"
               PROVE  FALSE
    OBVIOUS
  <2>1. CASE ~WritesMessage
    BY <2>1, QuietSteps DEF Quiet
  <2>2. ASSUME NEW m \in Messages, NEW kind \in Kinds, Dispatch(m, kind) PROVE FALSE
    BY <2>2, DispatchEffect
  <2>3. ASSUME NEW s \in Slots, NEW m \in Messages,
               Begin(s, m) \/ Accept(s, m) \/ Record(s, m) \/ Fail(s, m)
        PROVE  FALSE
    <3>1. s = t
      BY <2>3, HandlerEffect
    <3> QED
      BY <2>3, <3>1 DEF Begin, Accept, Record, Fail, Go, Unwanted, DeliveryTypes, HandlerTypes
  <2>4. ASSUME NEW m \in Messages, NEW w \in Words, NEW p \in BOOLEAN, DeliveryReport(m, w, p)
        PROVE  FALSE
    BY <2>4 DEF DeliveryReport
  <2>5. CASE Cancel
    BY <2>5, CancelEffect
  <2> QED
    BY <2>1, <2>2, <2>3, <2>4, <2>5 DEF WritesMessage
<1> QED
  BY <1>1, DeliveryInvariant, PTL DEF DSpec, NoStartAfterCancellation
=============================================================================
