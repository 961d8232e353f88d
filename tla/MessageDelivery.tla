--------------------------- MODULE MessageDelivery ---------------------------
(***************************************************************************)
(* Delivery of the outgoing messages of one collection participant:        *)
(* send_message of backend/app/worker.py running in the slots of JobQueue, *)
(* the provider it calls between its two transactions, the Infobip         *)
(* delivery reports of api/routes/webhooks.py, the channel fallback of     *)
(* services/message_dispatch.py, payment and cancellation.                 *)
(*                                                                         *)
(* A message is delivered by the job of the same name.  JobQueue's actions *)
(* are extended here with what the handler and fail_job do to the message. *)
(***************************************************************************)
EXTENDS JobQueue, Sequences

CONSTANTS Kinds,   \* kinds dispatched in this instance, from {"initial", "reminder"}
          Routes   \* the organization's configured internal channels, in order

ASSUME DeliveryAssumption ==
  /\ Kinds \subseteq {"initial", "reminder"}
  /\ Routes \in Seq({"whatsapp", "sms", "email"}) /\ Routes # <<>>
  /\ \A i, k \in DOMAIN Routes : Routes[i] = Routes[k] => i = k
  /\ \A m \in Jobs : KeyOf[m] = NoKey   \* message_job gives no dedupe key

Messages == Jobs

VARIABLES msg,       \* CommunicationMessage rows: status, channel, kind, order of creation
          cp,        \* CollectionParticipant: open, reached (initial_sent_at), reminders
          available, \* what is known about the participant's WhatsApp
          handler,   \* where each slot is inside send_message
          accepted,  \* how often the provider took each message
          requeued,  \* how often fail_job put each message back from "sending"
          confirmed  \* messages the provider reported as delivered or seen

delivery == <<msg, cp, available, handler, accepted, requeued, confirmed>>
dvars == <<vars, delivery>>

MessageStatus == {"none", "queued", "sending", "sent", "delivered", "read",
                  "failed", "skipped"}
Phone == {"whatsapp", "sms"}
Channels == Phone \cup {"email"}
Outstanding == {"queued", "sending"}
Succeeded == {"sent", "delivered", "read"}
NoMessage == [status |-> "none", channel |-> "email", kind |-> "initial", born |-> 0]

DInit ==
  /\ Init
  /\ msg = [m \in Messages |-> NoMessage]
  /\ cp = [open |-> TRUE, reached |-> FALSE, reminders |-> 0]
  /\ available = "unknown"
  /\ handler = [s \in Slots |-> "none"]
  /\ accepted = [m \in Messages |-> 0]
  /\ requeued = [m \in Messages |-> 0]
  /\ confirmed = {}

-----------------------------------------------------------------------------
(* Queueing *)

Eligible(kind) == cp.open /\ (IF kind = "initial" THEN ~cp.reached ELSE cp.reached)

\* (Mutant) The check of queue_internal_message: what is being sent is forgotten.
QueuedOnly(kind) == \E m \in Messages : msg[m].kind = kind /\ msg[m].status = "queued"

HasOutstanding(kind) ==
  \E m \in Messages : msg[m].kind = kind /\ msg[m].status \in Outstanding

\* resolve_channel: the first configured channel not known to be unavailable.
Route(known) ==
  LET i == IF Routes[1] = "whatsapp" /\ known = "unavailable" THEN 2 ELSE 1
  IN IF i <= Len(Routes) THEN Routes[i] ELSE "none"

NewMessage(channel, kind) ==
  [status |-> "queued", channel |-> channel, kind |-> kind,
   born |-> Cardinality({m \in Messages : msg[m].status # "none"})]

\* queue_collection_messages for this participant, called under the collection's
\* lock (dispatch_collection, send_collection, send_reminders): a message and its job.
Dispatch(m, kind) ==
  /\ collection = "live"
  /\ Eligible(kind) /\ ~HasOutstanding(kind)
  /\ Route(available) # "none"
  /\ EnqueueUnique(m, TRUE)
  /\ msg' = [msg EXCEPT ![m] = NewMessage(Route(available), kind)]
  /\ UNCHANGED <<cp, available, handler, accepted, requeued, confirmed>>

-----------------------------------------------------------------------------
(* send_message inside a slot *)

At(s, m, where) == slot[s].pc = "working" /\ slot[s].job = m /\ handler[s] = where

StartHandler(s) ==
  /\ CommitClaim(s)
  /\ handler' = [handler EXCEPT ![s] = "begin"]
  /\ UNCHANGED <<msg, cp, available, accepted, requeued, confirmed>>

Go(s, where) == handler' = [handler EXCEPT ![s] = where]
SetStatus(m, st) == msg' = [msg EXCEPT ![m].status = st]

AlreadyOut(m) == msg[m].status \in Succeeded

\* (Mutant) An interrupted message is always sent again.
NeverInterrupted(m) == FALSE

\* An earlier attempt stopped between the provider call and its record.
Interrupted(m) == msg[m].status = "sending" /\ msg[m].channel \in Phone

\* (Mutant) The collection is not read.
UnwantedIgnoringCollection(m) ==
  msg[m].status \notin Outstanding \/ (msg[m].kind = "reminder" /\ ~cp.open)

\* No longer queued, cancelled, or a reminder of something paid.
Unwanted(m) ==
  \/ msg[m].status \notin Outstanding
  \/ collection = "cancelled"
  \/ msg[m].kind = "reminder" /\ ~cp.open

\* The first transaction, up to the commit that precedes the provider call.
Begin(s, m) ==
  /\ At(s, m, "begin")
  /\ \/ AlreadyOut(m) /\ Go(s, "done") /\ UNCHANGED msg
     \/ Interrupted(m) /\ Go(s, "done") /\ SetStatus(m, "failed")
     \/ /\ ~AlreadyOut(m) /\ ~Interrupted(m) /\ Unwanted(m)
        /\ Go(s, "done") /\ SetStatus(m, "skipped")
     \/ /\ ~AlreadyOut(m) /\ ~Interrupted(m) /\ ~Unwanted(m)
        /\ Go(s, "calling") /\ SetStatus(m, "sending")
  /\ UNCHANGED <<vars, cp, available, accepted, requeued, confirmed>>

\* The first transaction is rolled back: the channel is not configured (final) or
\* the database fails (retried).
BeginFails(s, m) ==
  /\ At(s, m, "begin")
  /\ \E r \in {"final", "retry"} : Go(s, r)
  /\ UNCHANGED <<vars, msg, cp, available, accepted, requeued, confirmed>>

\* The provider takes the message and its answer arrives, or the answer is lost in
\* a timeout, which is_retryable_exception retries.
Accept(s, m) ==
  /\ At(s, m, "calling")
  /\ accepted' = [accepted EXCEPT ![m] = @ + 1]
  /\ \E r \in {"accepted", "retry"} : Go(s, r)
  /\ UNCHANGED <<vars, msg, cp, available, requeued, confirmed>>

\* The provider refuses for good, or throttles or is unreachable.
Refuse(s, m) ==
  /\ At(s, m, "calling")
  /\ \E r \in {"final", "retry"} : Go(s, r)
  /\ UNCHANGED <<vars, msg, cp, available, accepted, requeued, confirmed>>

\* The second transaction: unconditional, whatever was written in between.
Record(s, m) ==
  /\ At(s, m, "accepted")
  /\ Go(s, "done")
  /\ SetStatus(m, "sent")
  /\ cp' = IF msg[m].kind = "initial" THEN [cp EXCEPT !.reached = TRUE]
           ELSE [cp EXCEPT !.reminders = @ + 1]
  /\ UNCHANGED <<vars, available, accepted, requeued, confirmed>>

\* The second transaction, or complete_job's, fails: an unknown exception is retried.
RecordFails(s, m) ==
  /\ At(s, m, "accepted") \/ At(s, m, "done")
  /\ Go(s, "retry")
  /\ UNCHANGED <<vars, msg, cp, available, accepted, requeued, confirmed>>

Complete(s) ==
  /\ handler[s] = "done"
  /\ CompleteJob(s)
  /\ Go(s, "none")
  /\ UNCHANGED <<msg, cp, available, accepted, requeued, confirmed>>

\* (Mutant) A final failure is recorded for the job only.
AfterFailureJobOnly(m, again) ==
  IF again /\ msg[m].status = "sending" THEN "queued" ELSE msg[m].status

\* fail_job's verdict on the message: back to the queue, or failed for good.
AfterFailure(m, again) ==
  CASE again /\ msg[m].status = "sending" -> "queued"
    [] ~again /\ msg[m].status \notin Succeeded \cup {"skipped"} -> "failed"
    [] OTHER -> msg[m].status

\* fail_job with its message part; nothing is written when the row is gone.
Fail(s, m) ==
  /\ slot[s].job = m /\ handler[s] \in {"retry", "final"}
  /\ LET r == handler[s] = "retry"
         after == IF job[m].status = "gone" THEN msg[m].status
                  ELSE AfterFailure(m, WillRetry(s, r))
     IN /\ FailJob(s, r)
        /\ SetStatus(m, after)
        /\ requeued' = IF msg[m].status = "sending" /\ after = "queued"
                       THEN [requeued EXCEPT ![m] = @ + 1] ELSE requeued
  /\ Go(s, "none")
  /\ UNCHANGED <<cp, available, accepted, confirmed>>

\* Whatever takes a slot's work away takes its place in the handler away.
Lose(s) ==
  /\ LoseTransaction(s)
  /\ Go(s, "none")
  /\ UNCHANGED <<msg, cp, available, accepted, requeued, confirmed>>

CrashWorker(w) ==
  /\ Crash(w)
  /\ handler' = [s \in Slots |-> IF WorkerOf[s] = w THEN "none" ELSE handler[s]]
  /\ UNCHANGED <<msg, cp, available, accepted, requeued, confirmed>>

-----------------------------------------------------------------------------
(* Delivery reports *)

\* Infobip status groups and events.
Words == {"PENDING", "DELIVERED", "SEEN", "UNDELIVERABLE", "REJECTED"}

\* _status_value: the tests are made in this order, on substrings of the word.
StatusValue(w) ==
  CASE w = "SEEN" -> "read"
    [] w \in {"DELIVERED", "UNDELIVERABLE"} -> "delivered"   \* contains DELIVER
    [] w = "REJECTED" -> "failed"
    [] w = "PENDING" -> "sent"

\* (Mutant) A late failure undoes a delivery.
LateFailureWins(current, new) ==
  IF new = "failed" THEN "failed" ELSE IF current = "read" THEN "read" ELSE new

\* _advanced_delivery_status
Advanced(current, new) ==
  CASE new = "read" -> "read"
    [] new = "delivered" -> IF current = "read" THEN "read" ELSE "delivered"
    [] new = "failed" -> IF current \in {"delivered", "read"} THEN current ELSE "failed"
    [] new = "sent" -> IF current \in {"queued", "sent"} THEN "sent" ELSE current

\* A confirmed permanent WhatsApp failure (queue_failed_channel_fallback): the
\* participant becomes eligible again and the next channel is queued, unless the
\* payment arrived or a later message of the kind succeeded.
FallbackDue(m) ==
  /\ cp.open
  /\ ~\E o \in Messages : /\ msg[o].kind = msg[m].kind /\ msg[o].born > msg[m].born
                          /\ msg[o].status \in Succeeded

\* (Mutant) The failed message's own job is put back instead of a new one.
FallbackSameJob(m) ==
  /\ job' = [job EXCEPT ![m].status = "pending", ![m].due = TRUE]
  /\ msg' = [msg EXCEPT ![m].status = "queued", ![m].channel = Route("unavailable")]
  /\ cp' = IF msg[m].kind = "initial" THEN [cp EXCEPT !.reached = FALSE] ELSE cp
  /\ UNCHANGED <<slot, cancelling, collection, faults, overtaken>>

Fallback(m) ==
  LET kind == msg[m].kind
      failed == [msg EXCEPT ![m].status = "failed"]
      fresh == {f \in Messages : job[f].status = "absent"}
      next == Route("unavailable")
      queues == /\ collection # "cancelled" /\ next # "none"
                /\ kind = "initial" \/ cp.reached
                /\ ~\E o \in Messages : failed[o].kind = kind /\ failed[o].status \in Outstanding
  IN /\ cp' = IF kind = "initial" THEN [cp EXCEPT !.reached = FALSE] ELSE cp
     /\ IF queues
        THEN \E f \in fresh :
               /\ EnqueueUnique(f, TRUE)
               /\ msg' = [failed EXCEPT ![f] = NewMessage(next, kind)]
        ELSE msg' = failed /\ UNCHANGED vars

\* _update_delivery for one report about a message the provider has taken; reports
\* arrive in any order and more than once.
DeliveryReport(m, w, permanent) ==
  LET new == StatusValue(w)
      previous == msg[m].status
  IN /\ accepted[m] > 0 /\ msg[m].channel \in Phone
     /\ confirmed' = IF w \in {"DELIVERED", "SEEN"} THEN confirmed \cup {m} ELSE confirmed
     /\ IF /\ msg[m].channel = "whatsapp" /\ permanent
           /\ new = "failed" /\ previous \notin {"delivered", "read"}
        THEN /\ available' = "unavailable"
             /\ IF FallbackDue(m) THEN Fallback(m)
                ELSE SetStatus(m, "failed") /\ UNCHANGED <<vars, cp>>
        ELSE /\ available' = IF msg[m].channel = "whatsapp" /\ new \in {"delivered", "read"}
                             THEN "available" ELSE available
             /\ SetStatus(m, Advanced(previous, new))
             /\ UNCHANGED <<vars, cp>>
     /\ UNCHANGED <<handler, accepted, requeued>>

-----------------------------------------------------------------------------
(* The API *)

\* A payment is recorded, or a manual one is taken back (update_payment_status).
SetPayment ==
  /\ cp' = [cp EXCEPT !.open = ~@]
  /\ UNCHANGED <<vars, msg, available, handler, accepted, requeued, confirmed>>

\* cancel_collection skips the queued messages in the transaction that reads the
\* jobs. Their rows stay locked until it commits: who needs one waits for that and
\* finds it as it is here.
Cancel ==
  /\ CancelRead
  /\ msg' = [m \in Messages |-> IF msg[m].status = "queued"
                                THEN [msg[m] EXCEPT !.status = "skipped"] ELSE msg[m]]
  /\ UNCHANGED <<cp, available, handler, accepted, requeued, confirmed>>

QueueOnly == /\ \/ \E s \in Slots : ClaimJob(s)
                \/ \E j \in Jobs : BecomeDue(j)
                \/ \E S \in SUBSET Jobs : RecoverStaleJobs(S)
                \/ CancelWrite
             /\ UNCHANGED delivery

HandlerStep(s) ==
  \/ StartHandler(s) \/ Complete(s)
  \/ \E m \in Messages : \/ Begin(s, m) \/ BeginFails(s, m) \/ Accept(s, m) \/ Refuse(s, m)
                         \/ Record(s, m) \/ Fail(s, m)

DNext ==
  \/ \E m \in Messages, kind \in Kinds : Dispatch(m, kind)
  \/ \E s \in Slots : \/ HandlerStep(s) \/ Lose(s)
                      \/ \E m \in Messages : RecordFails(s, m)
  \/ \E w \in Workers : CrashWorker(w)
  \/ \E m \in Messages, w \in Words, p \in BOOLEAN : DeliveryReport(m, w, p)
  \/ SetPayment \/ Cancel
  \/ QueueOnly

DSpec == DInit /\ [][DNext]_dvars

\* As in JobQueue: slots poll, handlers end, time passes, recovery runs.
DFairness ==
  /\ \A s \in Slots : /\ WF_dvars(ClaimJob(s) /\ UNCHANGED delivery)
                      /\ WF_dvars(HandlerStep(s))
  /\ \A j \in Jobs : WF_dvars(BecomeDue(j) /\ UNCHANGED delivery)
  /\ WF_dvars(CancelWrite /\ UNCHANGED delivery)
  /\ WF_dvars(RecoverStaleJobs(Orphans) /\ UNCHANGED delivery)

DFairSpec == DSpec /\ DFairness

-----------------------------------------------------------------------------
(* Properties *)

\* Type invariant: messages, participant and handlers have the shapes of the code.
DTypeOK ==
  /\ TypeOK
  /\ msg \in [Messages -> [status : MessageStatus, channel : Channels,
                           kind : {"initial", "reminder"}, born : Nat]]
  /\ cp \in [open : BOOLEAN, reached : BOOLEAN, reminders : Nat]
  /\ available \in {"unknown", "available", "unavailable"}
  /\ handler \in [Slots -> {"none", "begin", "calling", "accepted", "done", "retry", "final"}]
  /\ \A s \in Slots : (handler[s] = "none") = (slot[s].pc # "working")
  /\ accepted \in [Messages -> Nat] /\ requeued \in [Messages -> Nat]
  /\ confirmed \in SUBSET Messages

\* Crashes, stale recovery and late reports never make an SMS or WhatsApp message
\* go out again: each time beyond the first, fail_job had put it back to "queued".
PhoneRepeatsOnlyAfterRequeue ==
  \A m \in Messages : msg[m].channel \in Phone => accepted[m] <= 1 + requeued[m]

\* At any time one dispatch per kind is outstanding for the participant, although
\* retries, fallbacks and cancellation all write the status that decides it.
OneOutstandingPerKind ==
  \A m, o \in Messages :
     m # o /\ msg[m].kind = msg[o].kind =>
       ~(msg[m].status \in Outstanding /\ msg[o].status \in Outstanding)

\* A participant counted as reached has an initial message some provider took.
ReachedMeansAccepted ==
  cp.reached => \E m \in Messages : msg[m].kind = "initial" /\ accepted[m] > 0

\* Unless recovery overtook a running delivery, a reminder is counted at most once
\* per reminder message a provider took.
RemindersCounted ==
  overtaken = {} =>
    cp.reminders <= Cardinality({m \in Messages : msg[m].kind = "reminder" /\ accepted[m] > 0})

Calling(m) == {s \in Slots : At(s, m, "calling") \/ At(s, m, "accepted")}

\* Once no slot is between the provider call and its record, a message reported
\* delivered or read stays so: late and duplicated reports, retries, fallbacks and
\* cancellation do not undo the evidence.
EvidenceKeptOnceRecorded ==
  [][\A m \in Messages :
       Calling(m) = {} =>
         /\ msg[m].status = "read" => msg'[m].status = "read"
         /\ msg[m].status = "delivered" => msg'[m].status \in {"delivered", "read"}]_dvars

\* After the cancellation has committed no message starts on its way to a provider,
\* although jobs survive it: claimed meanwhile, retried, or queued by a fallback.
NoStartAfterCancellation ==
  [][collection = "cancelled" =>
       \A s \in Slots : handler[s] # "calling" => handler'[s] # "calling"]_dvars

\* Every queued message comes to an end, whatever providers answer; it can stay
\* behind only when its job was given up by the recovery of a lost or slow slot after
\* the last attempt, or cancelled.
EveryMessageSettles ==
  \A m \in Messages :
     msg[m].status \in Outstanding
       ~> \/ msg[m].status \notin Outstanding
          \/ job[m].status = "failed" /\ (faults > 0 \/ m \in overtaken)
          \/ job[m].status = "cancelled"

-----------------------------------------------------------------------------
(* What comments in the code say and the code does not keep: see "Known divergences" in
   the README *)

\* worker.py:421-427: an interrupted SMS or WhatsApp message "was not repeated
\* automatically to avoid a duplicate".
PhoneNeverRepeated ==
  \A m \in Messages : msg[m].channel \in Phone => accepted[m] <= 1

\* webhooks.py:180: a status with "UNDELIVER" in it means "failed"; so a message is
\* shown as delivered only when the provider said so.
DeliveredWasConfirmed ==
  \A m \in Messages : msg[m].status \in {"delivered", "read"} => m \in confirmed

\* message_dispatch.py:124: "Only an outstanding queue item prevents another
\* dispatch": a message that blocks the participant has a job that may still end it.
OutstandingHasJob ==
  \A m \in Messages :
     msg[m].status \in Outstanding /\ collection = "live" =>
       job[m].status \in Active \/ Holders(m) # {}

\* message_dispatch.py:291: "Internal sends mark initial_sent_at when the provider
\* accepts the request": a delivered initial message nobody works on is marked.
DeliveredIsMarked ==
  \A m \in Messages :
     /\ msg[m].kind = "initial" /\ msg[m].status \in Succeeded
     /\ job[m].status = "done" /\ Holders(m) = {}
     => cp.reached
=============================================================================
