------------------------- MODULE CollectionLifecycle -------------------------
(***************************************************************************)
(* The life of one collection as seen by one of its participants:          *)
(* api/routes/collections.py (create, update, dispatch, cancel, delete),   *)
(* services/reminders.py, the jobs send_collection and send_reminders of   *)
(* worker.py, and the messages sent by hand of api/routes/communications.py. *)
(*                                                                         *)
(* A job is claimed when it is due, runs through its transactions one by   *)
(* one, and may be interrupted between any two of them and run again;      *)
(* JobQueue says how.  What happens to a queued message is in              *)
(* MessageDelivery; here it is sent or not.  Time counts days.             *)
(*                                                                         *)
(* POST /send and /remind are not here: they put a DispatchOutcome into    *)
(* QueueActionResult.queued, an int, and the error that raises inside the  *)
(* transaction rolls all of it back.                                       *)
(***************************************************************************)
EXTENDS Integers, Sequences, FiniteSets

CONSTANTS Requested,  \* the reminder rules as entered
          SendTimes,  \* send_at of the request, beside "now"
          DueTimes, NoDue,
          MaxTime,
          MaxMessages, \* bound on messages queued or drafted
          MaxDetours   \* bound on payments, changed settings, moved due dates, interrupted
                       \* jobs, messages by hand and results reported again

ASSUME LifecycleAssumption ==
  /\ Requested \in Seq([type : {"after_send", "before_due", "on_due", "after_due"}, days : 0..365])
  /\ SendTimes \subseteq Nat /\ DueTimes \subseteq Nat /\ NoDue \notin Nat
  /\ MaxTime \in Nat /\ MaxMessages \in Nat /\ MaxDetours \in Nat

VARIABLES clock,
          coll,     \* status, send_at and due_at of the collection
          send,     \* its send_collection job: status, where it is, what it remembers
          reminder, \* its send_reminders job per rule: status, when, where it is
          member,   \* route to the participant, open, reached, reminders counted
          queue,    \* internal messages of each kind that are queued or being sent
          draft,    \* messages to be sent by hand
          asked,    \* the kind of message queue_internal_message is about to insert
          account,  \* "ready", "unverified" or "no bank account"
          rounds,   \* messages queued per rule
          reruns,   \* reminder jobs run again after they had committed their messages
          sent,     \* reminders sent, or reported as sent for the first time
          history,  \* "lapsed", "moved": see the properties
          made, detours

jobs == <<send, reminder, rounds, reruns>>
bounds == <<made, detours>>
lvars == <<clock, coll, jobs, member, queue, draft, asked, account, sent, history, bounds>>

Kinds == {"initial", "reminder"}
NoJob == [status |-> "none", pc |-> "idle", first |-> FALSE, due |-> NoDue, missing |-> {}]
NoReminder == [status |-> "none", at |-> 0, pc |-> "idle"]

-----------------------------------------------------------------------------
(* Reminder rules *)

Normal(rule) == [rule EXCEPT !.days = IF rule.type = "on_due" THEN 0 ELSE @]

Rule(i) == Normal(Requested[i])

\* normalize_reminder_rules: a rule counts where it is entered first.
RuleKeys == {i \in DOMAIN Requested : \A h \in 1..(i - 1) : Rule(h) # Rule(i)}

\* When a rule asks for a reminder: one time, or none without a due date.
Target(i, sendAt, due) ==
  LET days == Rule(i).days
  IN CASE Rule(i).type = "after_send" -> {sendAt + days}
       [] Rule(i).type # "after_send" /\ due = NoDue -> {}
       [] Rule(i).type = "before_due" /\ due # NoDue -> {due - days}
       [] Rule(i).type = "on_due" /\ due # NoDue -> {due}
       [] Rule(i).type = "after_due" /\ due # NoDue -> {due + days}

\* (Mutant) Every rule has its reminder.
ScheduledEach(sendAt, due, now) ==
  {i \in RuleKeys : \E t \in Target(i, sendAt, due) : t > sendAt /\ t > now}

\* reminder_schedule: what lies ahead of the sending and of now, the first rule of
\* those that fall on the same time.
Scheduled(sendAt, due, now) ==
  {i \in RuleKeys : \E t \in Target(i, sendAt, due) :
                       /\ t > sendAt /\ t > now
                       /\ \A h \in RuleKeys : h < i => t \notin Target(h, sendAt, due)}

\* (Mutant) A reminder that is done does not count as scheduled.
MissingUnlessActive(i) == reminder[i].status \notin {"pending", "running"}

Missing(i) == reminder[i].status \notin {"pending", "running", "done"}

WithReminders(keys, due) ==
  [i \in RuleKeys |->
     IF i \in keys
     THEN [status |-> "pending", at |-> CHOOSE t \in Target(i, coll.send, due) : TRUE, pc |-> "idle"]
     ELSE reminder[i]]

-----------------------------------------------------------------------------

LInit ==
  /\ clock = 0
  /\ coll = [status |-> "none", send |-> 0, due |-> NoDue]
  /\ send = NoJob
  /\ reminder = [i \in RuleKeys |-> NoReminder]
  /\ member \in [route : {"internal", "external"}, open : {TRUE}, reached : {FALSE}, reminders : {0}]
  /\ queue = [k \in Kinds |-> 0]
  /\ draft = <<>>
  /\ asked = "none"
  /\ account = "ready"
  /\ rounds = [i \in RuleKeys |-> 0] /\ reruns = [i \in RuleKeys |-> 0]
  /\ sent = 0
  /\ history = {}
  /\ made = 0 /\ detours = 0

Detour == detours < MaxDetours /\ detours' = detours + 1

Exists == coll.status \notin {"none", "deleted"}
Open == Exists /\ coll.status # "cancelled"

Eligible(kind) == member.open /\ (IF kind = "initial" THEN ~member.reached ELSE member.reached)

\* queue_collection_messages for this participant.
Queues(kind) ==
  coll.status # "cancelled" /\ Eligible(kind) /\ queue[kind] = 0 /\ member.route = "internal"

QueueMessages(kind) ==
  IF Queues(kind) THEN /\ made < MaxMessages /\ made' = made + 1
                       /\ queue' = [queue EXCEPT ![kind] = 1]
  ELSE UNCHANGED <<queue, made>>

-----------------------------------------------------------------------------
(* The API *)

\* create_collection: a send in the future needs a verified member, a bank account
\* and an internal route to every participant, and gets its job.
Create(at, due) ==
  /\ coll.status = "none"
  /\ due # NoDue => due >= at
  /\ LET scheduled == at > clock
     IN /\ scheduled => account = "ready" /\ member.route = "internal"
        /\ coll' = [status |-> IF scheduled THEN "scheduled" ELSE "draft", send |-> at, due |-> due]
        /\ send' = IF scheduled THEN [NoJob EXCEPT !.status = "pending"] ELSE send
  /\ UNCHANGED <<clock, reminder, rounds, reruns, member, queue, draft, asked, account, sent,
                 history, bounds>>

\* update_collection: reminders already scheduled stay where they are.
MoveDueDate(due) ==
  /\ Exists /\ due >= coll.send /\ due # coll.due
  /\ coll' = [coll EXCEPT !.due = due]
  /\ history' = history \cup {"moved"}
  /\ Detour
  /\ UNCHANGED <<clock, jobs, member, queue, draft, asked, account, sent, made>>

\* dispatch_collection, in one transaction under the lock of the collection.  It may
\* meet the uncommitted reminders of the worker and be rolled back: then it is as if
\* it had not been asked for.
Dispatch(kind) ==
  /\ Open /\ account = "ready"
  /\ QueueMessages(kind)
  /\ IF kind = "initial"
     THEN /\ coll' = [coll EXCEPT !.status = "active"]
          /\ reminder' = WithReminders(
               {i \in Scheduled(coll.send, coll.due, clock) : Missing(i)}, coll.due)
     ELSE UNCHANGED <<coll, reminder>>
  /\ UNCHANGED <<clock, send, rounds, reruns, member, draft, asked, account, sent, history, detours>>

\* cancel_collection: what is queued is skipped, what is being sent goes on.
Cancel ==
  /\ Open
  /\ coll' = [coll EXCEPT !.status = "cancelled"]
  /\ \E beingSent \in SUBSET {k \in Kinds : queue[k] > 0} :
       queue' = [k \in Kinds |-> IF k \in beingSent THEN 1 ELSE 0]
  /\ send' = IF send.status = "pending" THEN [send EXCEPT !.status = "cancelled"] ELSE send
  /\ reminder' = [i \in RuleKeys |-> IF reminder[i].status = "pending"
                                     THEN [NoReminder EXCEPT !.status = "cancelled"]
                                     ELSE reminder[i]]
  /\ UNCHANGED <<clock, rounds, reruns, member, draft, asked, account, sent, history, bounds>>

\* (Mutant) The status alone decides.
DeletableByStatus == coll.status \in {"draft", "scheduled"}

\* can_delete_collection.  A message insert holds the collection by its foreign key,
\* so a delete waits for it and sees it.
CanDelete == /\ coll.status \in {"draft", "scheduled"}
             /\ made = 0 /\ member.open

\* delete_collection, with its jobs, whatever they are doing.
Delete ==
  /\ CanDelete
  /\ coll' = [coll EXCEPT !.status = "deleted"]
  /\ send' = [send EXCEPT !.status = IF @ = "none" THEN @ ELSE "gone"]
  /\ reminder' = [i \in RuleKeys |-> NoReminder]
  /\ UNCHANGED <<clock, rounds, reruns, member, queue, draft, asked, account, sent, history, bounds>>

\* A payment is recorded or a manual one taken back (update_payment_status).
SetPayment ==
  /\ Exists
  /\ member' = [member EXCEPT !.open = ~@]
  /\ Detour
  /\ UNCHANGED <<clock, coll, jobs, queue, draft, asked, account, sent, history, made>>

\* The participant's channels or the organization's account change.
ChangeSettings ==
  /\ \/ \E r \in {"internal", "external", "none"} : member' = [member EXCEPT !.route = r]
        /\ UNCHANGED account
     \/ account' \in {"ready", "unverified", "no bank account"} /\ UNCHANGED member
  /\ Detour
  /\ UNCHANGED <<clock, coll, jobs, queue, draft, asked, sent, history, made>>

-----------------------------------------------------------------------------
(* The job send_collection *)

\* The job ends, is given up, or is put back to run at once; the row may be gone.
EndSend(status) == send' = [NoJob EXCEPT !.status = IF send.status = "gone" THEN "gone" ELSE status]
EndReminder(i, status) == reminder' = [reminder EXCEPT ![i] = [NoReminder EXCEPT !.status = status]]

StartSend ==
  /\ send.status = "pending" /\ coll.send <= clock
  /\ send' = [send EXCEPT !.status = "running", !.pc = "begin"]
  /\ UNCHANGED <<clock, coll, reminder, rounds, reruns, member, queue, draft, asked, account,
                 sent, history, bounds>>

\* (Mutant) A blocked collection is passed over instead of failing the job.
ActivateQuietly ==
  /\ send.pc = "begin"
  /\ \/ (~Open \/ account = "unverified") /\ send' = [send EXCEPT !.pc = "end"] /\ UNCHANGED coll
     \/ /\ Open /\ account # "unverified"
        /\ coll' = [coll EXCEPT !.status = "active"]
        /\ send' = [send EXCEPT !.pc = "activated", !.first = coll.status # "active", !.due = coll.due]
  /\ UNCHANGED <<clock, reminder, rounds, reruns, member, queue, draft, asked, account, sent,
                 history, bounds>>

\* The first transaction: the collection becomes active.
Activate ==
  /\ send.pc = "begin"
  /\ \/ /\ ~Exists \/ account = "unverified"
        /\ coll.status # "cancelled"
        /\ EndSend("failed") /\ UNCHANGED coll
     \/ coll.status = "cancelled" /\ send' = [send EXCEPT !.pc = "end"] /\ UNCHANGED coll
     \/ /\ Open /\ account # "unverified"
        /\ coll' = [coll EXCEPT !.status = "active"]
        /\ send' = [send EXCEPT !.pc = "activated", !.first = coll.status # "active", !.due = coll.due]
  /\ UNCHANGED <<clock, reminder, rounds, reruns, member, queue, draft, asked, account, sent,
                 history, bounds>>

\* The second transaction: the messages.
QueueInitial ==
  /\ send.pc = "activated"
  /\ IF coll.status # "cancelled" /\ account # "ready"
     THEN /\ EndSend("failed")
          /\ history' = IF send.first THEN history \cup {"lapsed"} ELSE history
          /\ UNCHANGED <<queue, made>>
     ELSE /\ QueueMessages("initial")
          /\ send' = [send EXCEPT !.pc = IF send.first THEN "queued" ELSE "end"]
          /\ UNCHANGED history
  /\ UNCHANGED <<clock, coll, reminder, rounds, reruns, member, draft, asked, account, sent, detours>>

\* The third transaction reads which reminders there are, without the collection's lock ...
ReadReminders ==
  /\ send.pc = "queued"
  /\ send' = [send EXCEPT !.pc = "inserting",
                          !.missing = {i \in Scheduled(coll.send, send.due, clock) : Missing(i)}]
  /\ UNCHANGED <<clock, coll, reminder, rounds, reruns, member, queue, draft, asked, account,
                 sent, history, bounds>>

\* ... and adds the others, unless the unique index has one of them by now: then the
\* job fails and is run again.
InsertReminders ==
  /\ send.pc = "inserting"
  /\ IF \A i \in send.missing : Missing(i)
     THEN /\ reminder' = WithReminders(send.missing, send.due)
          /\ send' = [send EXCEPT !.pc = "end", !.missing = {}]
     ELSE /\ EndSend("pending")
          /\ UNCHANGED reminder
  /\ UNCHANGED <<clock, coll, rounds, reruns, member, queue, draft, asked, account, sent,
                 history, bounds>>

CompleteSend ==
  /\ send.pc = "end"
  /\ EndSend("done")
  /\ UNCHANGED <<clock, coll, reminder, rounds, reruns, member, queue, draft, asked, account,
                 sent, history, bounds>>

\* The worker dies or loses the database: the job is run again, from its start, or
\* given up after the last attempt.
InterruptSend ==
  /\ send.pc # "idle" /\ Detour
  /\ \E verdict \in {"pending", "failed"} : EndSend(verdict)
  /\ history' = IF send.first /\ send.pc \in {"activated", "queued", "inserting"}
                THEN history \cup {"lapsed"} ELSE history
  /\ UNCHANGED <<clock, coll, reminder, rounds, reruns, member, queue, draft, asked, account, sent, made>>

-----------------------------------------------------------------------------
(* The job send_reminders of one rule *)

StartReminder(i) ==
  /\ reminder[i].status = "pending" /\ reminder[i].at <= clock
  /\ reminder' = [reminder EXCEPT ![i].status = "running", ![i].pc = "begin"]
  /\ UNCHANGED <<clock, coll, send, rounds, reruns, member, queue, draft, asked, account, sent,
                 history, bounds>>

\* _queue_message_jobs
QueueReminder(i) ==
  /\ reminder[i].pc = "begin"
  /\ IF coll.status # "cancelled" /\ account # "ready"
     THEN /\ EndReminder(i, "failed")
          /\ UNCHANGED <<queue, made, rounds>>
     ELSE /\ QueueMessages("reminder")
          /\ rounds' = IF Queues("reminder") THEN [rounds EXCEPT ![i] = @ + 1] ELSE rounds
          /\ reminder' = [reminder EXCEPT ![i].pc = "end"]
  /\ UNCHANGED <<clock, coll, send, reruns, member, draft, asked, account, sent, history, detours>>

CompleteReminder(i) ==
  /\ reminder[i].pc = "end"
  /\ EndReminder(i, "done")
  /\ UNCHANGED <<clock, coll, send, rounds, reruns, member, queue, draft, asked, account, sent,
                 history, bounds>>

InterruptReminder(i) ==
  /\ reminder[i].pc # "idle" /\ Detour
  /\ \E verdict \in {"pending", "failed"} : EndReminder(i, verdict)
  /\ reruns' = IF reminder[i].pc = "end" THEN [reruns EXCEPT ![i] = @ + 1] ELSE reruns
  /\ UNCHANGED <<clock, coll, send, rounds, member, queue, draft, asked, account, sent, history, made>>

-----------------------------------------------------------------------------
(* Messages *)

\* A message has been sent: who wrote initial_sent_at first, or one more reminder.
Counted(kind) ==
  IF kind = "initial" THEN [member EXCEPT !.reached = TRUE]
  ELSE [member EXCEPT !.reminders = @ + 1]

Tally(kind) == IF kind = "reminder" THEN sent + 1 ELSE sent

\* send_message ends: sent, or failed or skipped.
Deliver(kind) ==
  /\ queue[kind] > 0
  /\ queue' = [queue EXCEPT ![kind] = @ - 1]
  /\ \/ member' = Counted(kind) /\ sent' = Tally(kind)
     \/ UNCHANGED <<member, sent>>
  /\ UNCHANGED <<clock, coll, jobs, draft, asked, account, history, bounds>>

\* queue_internal_message looks for a queued message, holding the participant only ...
AskInternal(kind) ==
  /\ Open /\ account # "unverified" /\ asked = "none"
  /\ member.route = "internal" /\ queue[kind] <= 1   \* one may be on its way already
  /\ Detour
  /\ asked' = kind
  /\ UNCHANGED <<clock, coll, jobs, member, queue, draft, account, sent, history, made>>

\* ... and inserts its own, whatever became of the collection, unless that is deleted.
InsertInternal ==
  /\ asked # "none"
  /\ asked' = "none"
  /\ IF Exists THEN /\ made < MaxMessages /\ made' = made + 1
                    /\ queue' = [queue EXCEPT ![asked] = @ + 1]
     ELSE UNCHANGED <<made, queue>>
  /\ UNCHANGED <<clock, coll, jobs, member, draft, account, sent, history, detours>>

\* create_external_draft
CreateDraft(kind) ==
  /\ Open /\ account # "unverified" /\ member.route = "external"
  /\ made < MaxMessages /\ made' = made + 1 /\ Detour
  /\ draft' = Append(draft, [kind |-> kind, status |-> "draft", counted |-> FALSE])
  /\ UNCHANGED <<clock, coll, jobs, member, queue, asked, account, sent, history>>

\* (Mutant) Opening the other app counts as sending.
OpenedIsSent(d) ==
  /\ Exists
  /\ draft' = [draft EXCEPT ![d].status = "external_opened"]
  /\ member' = Counted(draft[d].kind)
  /\ UNCHANGED <<clock, coll, jobs, queue, asked, account, sent, history, bounds>>

\* mark_external_opened
MarkOpened(d) ==
  /\ Exists
  /\ draft' = [draft EXCEPT ![d].status = "external_opened"]
  /\ UNCHANGED <<clock, coll, jobs, member, queue, asked, account, sent, history, bounds>>

Results == {"sent", "failed", "skipped"}

\* confirm_external_result: any result, also one that comes after another.
ConfirmResult(d, result) ==
  /\ Exists
  /\ draft' = [draft EXCEPT ![d].status = result, ![d].counted = @ \/ result = "sent"]
  /\ IF result = "sent"
     THEN /\ member' = Counted(draft[d].kind)
          /\ sent' = IF draft[d].counted THEN sent ELSE Tally(draft[d].kind)
     ELSE /\ UNCHANGED sent
          /\ member' = IF result = "failed" THEN [member EXCEPT !.route = "none"] ELSE member
  /\ IF draft[d].counted THEN Detour ELSE UNCHANGED detours
  /\ history' = IF draft[d].counted /\ result = "sent" THEN history \cup {"reported again"} ELSE history
  /\ UNCHANGED <<clock, coll, jobs, queue, asked, account, made>>

\* A day passes after the creation; no transaction takes a day.
Tick ==
  /\ Exists /\ clock < MaxTime /\ send.pc # "inserting"
  /\ clock' = clock + 1
  /\ UNCHANGED <<coll, jobs, member, queue, draft, asked, account, sent, history, bounds>>

SendStep == StartSend \/ Activate \/ QueueInitial \/ ReadReminders \/ InsertReminders \/ CompleteSend
ReminderStep(i) == StartReminder(i) \/ QueueReminder(i) \/ CompleteReminder(i)

LNext ==
  \/ \E at \in SendTimes \cup {clock}, due \in DueTimes \cup {NoDue} : Create(at, due)
  \/ \E due \in DueTimes : MoveDueDate(due)
  \/ \E k \in Kinds : Dispatch(k) \/ Deliver(k) \/ AskInternal(k) \/ CreateDraft(k)
  \/ \E d \in DOMAIN draft : MarkOpened(d) \/ \E r \in Results : ConfirmResult(d, r)
  \/ InsertInternal \/ Cancel \/ Delete \/ SetPayment \/ ChangeSettings
  \/ SendStep \/ InterruptSend
  \/ \E i \in RuleKeys : ReminderStep(i) \/ InterruptReminder(i)
  \/ Tick

LSpec == LInit /\ [][LNext]_lvars

\* Time passes and the worker polls: a due job is claimed and its handler goes on.
LFairness == WF_lvars(Tick) /\ WF_lvars(SendStep)

-----------------------------------------------------------------------------
(* Properties *)

\* Type invariant: statuses, jobs and counters have the shapes of the code.
LTypeOK ==
  /\ clock \in 0..MaxTime
  /\ coll \in [status : {"none", "draft", "scheduled", "active", "cancelled", "deleted"},
               send : Nat, due : Nat \cup {NoDue}]
  /\ send.status \in {"none", "pending", "running", "done", "failed", "cancelled", "gone"}
  /\ send.missing \subseteq RuleKeys
  /\ (coll.status = "scheduled") => send.status # "none"
  /\ \A i \in RuleKeys :
       /\ reminder[i].status \in {"none", "pending", "running", "done", "failed", "cancelled"}
       /\ (reminder[i].pc # "idle") => reminder[i].status = "running"
  /\ \A k \in Kinds : queue[k] \in Nat
  /\ account \in {"ready", "unverified", "no bank account"}

\* Once a collection is active, each time ahead that some rule asks for has one reminder
\* job and no two, whether the worker, a user or both at once activated it; unless the
\* job that activated it was interrupted before it came to the reminders, or the due
\* date moved.
RemindersPlanned ==
  coll.status = "active" /\ history \cap {"lapsed", "moved"} = {}
    /\ ~(send.first /\ send.pc \in {"activated", "queued", "inserting"})
  => \A t \in (clock + 1)..(MaxTime + 1) :
       LET asking == {i \in RuleKeys : t > coll.send /\ t \in Target(i, coll.send, coll.due)}
           waiting == {i \in RuleKeys : reminder[i].status = "pending" /\ reminder[i].at = t}
       IN Cardinality(waiting) = IF asking = {} THEN 0 ELSE 1

\* A rule reminds a participant once, however often the reminders are scheduled again
\* by dispatches and by repeated send jobs; a second time only when its job was
\* interrupted after it had committed its messages.
OneRoundPerRule == \A i \in RuleKeys : rounds[i] <= 1 + reruns[i]

\* A collection that is deleted has never sent or drafted anything, and no job of it
\* is left that could do so.
DeletedNeverStarted ==
  coll.status = "deleted" =>
    /\ made = 0 /\ ~member.reached
    /\ send.status \in {"none", "gone"} /\ \A i \in RuleKeys : reminder[i].status = "none"

\* The worker and the person sending by hand count the same reminder once, unless its
\* result is reported twice.
RemindersCountedOnce == "reported again" \notin history => member.reminders = sent

\* A scheduled collection goes out, unless it is cancelled or deleted, or its job failed.
ScheduledGoesOut ==
  coll.status = "scheduled" ~> coll.status # "scheduled" \/ send.status = "failed"
=============================================================================
