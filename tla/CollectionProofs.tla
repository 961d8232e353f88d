-------------------------- MODULE CollectionProofs --------------------------
(***************************************************************************)
(* The life of a collection, for any reminder rules, times, dates and bounds:  *)
(* what is planned, what is sent and counted, and what a deletion leaves.     *)
(* Its list of participants, for any names, emails, numbers, sizes and bounds: *)
(* what an import may do to it and what is known about each participant.       *)
(***************************************************************************)
EXTENDS CollectionLifecycle, ParticipantList, FiniteSetTheorems, SequenceTheorems, WellFoundedInduction,
        TLAPS

-----------------------------------------------------------------------------
(* The inductive invariant *)

Colls ==
  [status : {"none", "draft", "scheduled", "active", "cancelled", "deleted"}, send : Nat, due : Nat \cup {NoDue}]
SendJobs ==
  [status : {"none", "pending", "running", "done", "failed", "cancelled", "gone"},
   pc : {"idle", "begin", "activated", "queued", "inserting", "end"},
   first : BOOLEAN, due : Nat \cup {NoDue}, missing : SUBSET RuleKeys]
ReminderJobs ==
  [status : {"none", "pending", "running", "done", "failed", "cancelled"}, at : Int, pc : {"idle", "begin", "end"}]
Members == [route : {"internal", "external", "none"}, open : BOOLEAN, reached : BOOLEAN, reminders : Nat]
Drafts == [kind : Kinds, status : {"draft", "external_opened"} \cup Results, counted : BOOLEAN]

JobShapes == send \in SendJobs /\ reminder \in [RuleKeys -> ReminderJobs]
RoundShapes == rounds \in [RuleKeys -> Nat] /\ reruns \in [RuleKeys -> Nat]
MessageShapes ==
  /\ member \in Members /\ sent \in Nat
  /\ queue \in [Kinds -> Nat] /\ made \in Nat
  /\ draft \in Seq(Drafts) /\ asked \in Kinds \cup {"none"}

Shapes ==
  /\ clock \in 0 .. MaxTime /\ coll \in Colls /\ account \in {"ready", "unverified", "no bank account"}
  /\ JobShapes /\ RoundShapes /\ MessageShapes

\* Where the send job stands tells how far the collection has come.
Active == {"active", "cancelled"}
Sending == {"activated", "queued", "inserting"}
SendFits ==
  /\ send.pc # "idle" => send.status \in {"running", "gone"}
  /\ send.pc \in Sending \cup {"end"} => coll.status \in Active
  /\ send.pc \in {"queued", "inserting"} => send.first
  /\ send.pc = "inserting" => \A i \in send.missing : Target(i, coll.send, send.due) # {}
  /\ coll.status = "none" => send = NoJob
  /\ coll.status = "scheduled" => send.status # "none"
  /\ coll.status = "deleted" => send.status \in {"none", "gone"}

\* Reminders exist once the collection was active.
ReminderFits ==
  \A i \in RuleKeys :
    /\ reminder[i].pc # "idle" => reminder[i].status = "running"
    /\ reminder[i].status # "none" => coll.status \in Active
    /\ reminder[i].status = "cancelled" => coll.status = "cancelled"

\* Nobody is reached without a message.
MessagesFit ==
  /\ made = 0 => (\A k \in Kinds : queue[k] = 0) /\ draft = <<>> /\ ~member.reached
  /\ coll.status = "deleted" => made = 0

\* A round beyond the repetitions is that of a job which has queued its messages.
Used(i) == IF reminder[i].status = "done" \/ reminder[i].pc = "end" THEN 1 ELSE 0
RoundsFit == \A i \in RuleKeys : rounds[i] <= reruns[i] + Used(i)

Times(i) == Target(i, coll.send, coll.due)
Ahead == Scheduled(coll.send, coll.due, clock)

\* What lies ahead has its reminder; every reminder is the one of its time, or its time
\* has come.
Planned == \A i \in Ahead : reminder[i].status = "pending" /\ reminder[i].at \in Times(i)
Untouched == \A i \in RuleKeys : reminder[i].status = "none"
Justified ==
  \A i \in RuleKeys : reminder[i].status # "none" =>
    \/ /\ reminder[i].status = "pending" /\ reminder[i].at \in Times(i) /\ reminder[i].at > coll.send
       /\ \A h \in RuleKeys : h < i => reminder[i].at \notin Times(h)
    \/ /\ \E t \in Times(i) : t <= clock
       /\ reminder[i].status = "pending" => reminder[i].at <= clock

\* While the job that activated the collection is on its way to the reminders, there are
\* none, or somebody else has planned them all; what the job found missing is everything
\* or nothing.
Window == send.first /\ send.pc \in Sending
Undisturbed == coll.status = "active" /\ history \cap {"lapsed", "moved"} = {}
PlanFits ==
  Undisturbed =>
    /\ Justified
    /\ Planned \/ (Window /\ Untouched)
    /\ Window => send.due = coll.due
    /\ send.pc = "inserting" => send.missing = Ahead \/ (Planned /\ send.missing = {})

LifecycleInv ==
  /\ Shapes /\ SendFits /\ ReminderFits /\ MessagesFit /\ RoundsFit /\ PlanFits /\ RemindersCountedOnce

-----------------------------------------------------------------------------
(* Rules and times *)

\* Of the rules that ask for a time one is the first.
LEMMA LeastExists ==
  ASSUME NEW S, S \subseteq Nat, S # {}
  PROVE  \E n \in S : \A m \in S : n <= m
<1>1. IsWellFoundedOn(OpToRel(<, Nat), Nat)
  BY NatLessThanWellFounded
<1>2. PICK n \in S : \A m \in S : ~(<<m, n>> \in OpToRel(<, Nat))
  BY <1>1, WFMin
<1>3. \A m \in S : ~(m < n)
  BY <1>2 DEF OpToRel
<1> QED
  BY <1>3

\* Rules are numbered, and say what is allowed.
LEMMA RuleShape ==
  ASSUME NEW i \in RuleKeys
  PROVE  i \in Nat /\ Rule(i) \in [type : {"after_send", "before_due", "on_due", "after_due"}, days : 0 .. 365]
<1>1. i \in DOMAIN Requested
  BY DEF RuleKeys
<1>2. /\ i \in Nat
      /\ Requested[i] \in [type : {"after_send", "before_due", "on_due", "after_due"}, days : 0 .. 365]
  <2> DEFINE Allowed == [type : {"after_send", "before_due", "on_due", "after_due"}, days : 0 .. 365]
  <2>1. Requested \in Seq(Allowed)
    BY LifecycleAssumption
  <2> HIDE DEF Allowed
  <2>2. i \in Nat /\ Requested[i] \in Allowed
    BY <1>1, <2>1
  <2> QED
    BY <2>2 DEF Allowed
<1> QED
  BY <1>2 DEF Rule, Normal

\* A rule asks for one time at most.
LEMMA TargetIsOne ==
  ASSUME NEW i \in RuleKeys, NEW s \in Nat, NEW due \in Nat \cup {NoDue}
  PROVE  Target(i, s, due) = {} \/ \E t \in Int : Target(i, s, due) = {t}
<1>1. Rule(i).type \in {"after_send", "before_due", "on_due", "after_due"} /\ Rule(i).days \in Int
  BY RuleShape
<1>2. CASE Rule(i).type = "after_send"
  BY <1>1, <1>2 DEF Target
<1>3. CASE Rule(i).type # "after_send" /\ due = NoDue
  BY <1>3 DEF Target
<1>4. CASE Rule(i).type # "after_send" /\ due # NoDue
  <2>1. due \in Nat
    BY <1>4
  <2>2. CASE Rule(i).type = "before_due"
    <3>1. Target(i, s, due) = {due - Rule(i).days}
      BY <1>4, <2>2 DEF Target
    <3> QED
      BY <1>1, <2>1, <3>1
  <2>3. CASE Rule(i).type = "on_due"
    BY <1>1, <1>4, <2>1, <2>3 DEF Target
  <2>4. CASE Rule(i).type = "after_due"
    <3>1. Target(i, s, due) = {due + Rule(i).days}
      BY <1>4, <2>4 DEF Target
    <3> QED
      BY <1>1, <2>1, <3>1
  <2> QED
    BY <1>1, <1>4, <2>2, <2>3, <2>4
<1> QED
  BY <1>2, <1>3, <1>4

\* New reminders: each at the time its rule asks for, the others as they were.
LEMMA WithRemindersStep ==
  ASSUME Shapes, NEW keys \in SUBSET RuleKeys, NEW due \in Nat \cup {NoDue},
         \A i \in keys : Target(i, coll.send, due) # {}
  PROVE  /\ WithReminders(keys, due) \in [RuleKeys -> ReminderJobs]
         /\ \A i \in keys : /\ WithReminders(keys, due)[i].status = "pending"
                            /\ WithReminders(keys, due)[i].pc = "idle"
                            /\ WithReminders(keys, due)[i].at \in Target(i, coll.send, due)
         /\ \A i \in RuleKeys \ keys : WithReminders(keys, due)[i] = reminder[i]
<1> DEFINE new(i) == [status |-> "pending", at |-> CHOOSE t \in Target(i, coll.send, due) : TRUE, pc |-> "idle"]
           all == WithReminders(keys, due)
<1>1. coll.send \in Nat /\ reminder \in [RuleKeys -> ReminderJobs]
  BY DEF Shapes, Colls, JobShapes
<1>2. ASSUME NEW i \in keys
      PROVE  new(i) \in ReminderJobs /\ new(i).at \in Target(i, coll.send, due)
  <2>1. PICK t \in Int : Target(i, coll.send, due) = {t}
    BY <1>1, TargetIsOne
  <2>2. (CHOOSE x \in Target(i, coll.send, due) : TRUE) = t
    BY <2>1
  <2> QED
    BY <2>1, <2>2 DEF ReminderJobs
<1>3. all = [i \in RuleKeys |-> IF i \in keys THEN new(i) ELSE reminder[i]]
  BY DEF WithReminders
<1>4. ASSUME NEW i \in keys
      PROVE  new(i).status = "pending" /\ new(i).pc = "idle"
  OBVIOUS
<1> HIDE DEF new, all
<1>5. /\ all \in [RuleKeys -> ReminderJobs]
      /\ \A i \in keys : all[i] = new(i)
      /\ \A i \in RuleKeys \ keys : all[i] = reminder[i]
  BY <1>1, <1>2, <1>3
<1>6. /\ all \in [RuleKeys -> ReminderJobs]
      /\ \A i \in keys : all[i].status = "pending" /\ all[i].pc = "idle" /\ all[i].at \in Target(i, coll.send, due)
      /\ \A i \in RuleKeys \ keys : all[i] = reminder[i]
  BY <1>2, <1>4, <1>5
<1> QED
  BY <1>6 DEF all

\* What is scheduled are rules that ask for a time ahead.
LEMMA ScheduledAre ==
  ASSUME NEW s, NEW due, NEW now
  PROVE  /\ Scheduled(s, due, now) \subseteq RuleKeys
         /\ \A i \in Scheduled(s, due, now) : Target(i, s, due) # {}
BY DEF Scheduled

-----------------------------------------------------------------------------
(* Steps about messages and settings *)

\* A step that leaves the collection and its jobs alone.
LEMMA MessageStep ==
  ASSUME LifecycleInv, UNCHANGED <<clock, coll, send, reminder, rounds, reruns>>, history \subseteq history',
         account' \in {"ready", "unverified", "no bank account"}, MessageShapes',
         made' = 0 => (\A k \in Kinds : queue'[k] = 0) /\ draft' = <<>> /\ ~member'.reached,
         coll.status = "deleted" => made' = 0, RemindersCountedOnce'
  PROVE  LifecycleInv'
<1>1. Shapes' /\ SendFits' /\ ReminderFits' /\ RoundsFit' /\ MessagesFit'
  BY DEF LifecycleInv, Shapes, JobShapes, RoundShapes, SendFits, ReminderFits, RoundsFit, Used, MessagesFit
<1>2. PlanFits'
  <2>1. Undisturbed' => Undisturbed
    BY DEF Undisturbed
  <2>2. Ahead' = Ahead /\ \A i : Times(i)' = Times(i)
    BY DEF Ahead, Times
  <2>3. (Justified' <=> Justified) /\ (Planned' <=> Planned) /\ (Untouched' <=> Untouched) /\ (Window' <=> Window)
    BY <2>2 DEF Justified, Planned, Untouched, Window
  <2> QED
    BY <2>1, <2>2, <2>3 DEF LifecycleInv, PlanFits
<1> QED
  BY <1>1, <1>2 DEF LifecycleInv

\* A message of a kind is counted: who it reached, or one more reminder.
LEMMA CountedStep ==
  ASSUME member \in Members, sent \in Nat, NEW kind \in Kinds
  PROVE  /\ Counted(kind) \in Members /\ Tally(kind) \in Nat
         /\ member.reminders = sent => Counted(kind).reminders = Tally(kind)
<1>1. CASE kind = "initial"
  <2>1. Counted(kind) = [member EXCEPT !.reached = TRUE] /\ Tally(kind) = sent
    BY <1>1 DEF Counted, Tally
  <2> QED
    BY <2>1 DEF Members
<1>2. CASE kind = "reminder"
  <2>1. Counted(kind) = [member EXCEPT !.reminders = @ + 1] /\ Tally(kind) = sent + 1
    BY <1>2 DEF Counted, Tally
  <2> QED
    BY <2>1 DEF Members
<1> QED
  BY <1>1, <1>2 DEF Kinds

\* The messages, one by one.
LEMMA MessagesAre ==
  ASSUME LifecycleInv
  PROVE  /\ member \in Members /\ sent \in Nat /\ queue \in [Kinds -> Nat] /\ made \in Nat
         /\ asked \in Kinds \cup {"none"} /\ account \in {"ready", "unverified", "no bank account"}
BY DEF LifecycleInv, Shapes, MessageShapes

\* The counts of messages.
LEMMA QueueIs ==
  ASSUME LifecycleInv
  PROVE  queue \in [Kinds -> Nat] /\ made \in Nat
BY DEF LifecycleInv, Shapes, MessageShapes

\* The drafts: one more, or one that changes.
LEMMA DraftsAre ==
  ASSUME LifecycleInv
  PROVE  /\ draft \in Seq(Drafts)
         /\ \A x \in Drafts : Append(draft, x) \in Seq(Drafts)
         /\ \A d \in DOMAIN draft : draft[d] \in Drafts /\ \A x \in Drafts : [draft EXCEPT ![d] = x] \in Seq(Drafts)
<1>1. draft \in Seq(Drafts)
  BY DEF LifecycleInv, Shapes, MessageShapes
<1>2. ASSUME NEW x \in Drafts
      PROVE  Append(draft, x) \in Seq(Drafts)
  BY <1>1, AppendProperties
<1>3. ASSUME NEW d \in DOMAIN draft
      PROVE  draft[d] \in Drafts /\ \A x \in Drafts : [draft EXCEPT ![d] = x] \in Seq(Drafts)
  BY <1>1, ExceptSeq, ElementOfSeq, LenProperties
<1> QED
  BY <1>1, <1>2, <1>3

\* Without a message made, nothing is queued or drafted and nobody is reached.
LEMMA NoneMade ==
  ASSUME LifecycleInv
  PROVE  /\ made = 0 => (\A k \in Kinds : queue[k] = 0) /\ draft = <<>> /\ ~member.reached
         /\ coll.status = "deleted" => made = 0
BY DEF LifecycleInv, MessagesFit

\* A payment, a change of the settings.
LEMMA SettingsKeep ==
  ASSUME LifecycleInv, SetPayment \/ ChangeSettings
  PROVE  LifecycleInv'
<1>1. UNCHANGED <<clock, coll, send, reminder, rounds, reruns, history, queue, draft, asked, sent, made>>
  BY DEF SetPayment, ChangeSettings, jobs
<1>2. member' \in Members /\ member'.reached = member.reached /\ member'.reminders = member.reminders
  <2>1. CASE SetPayment
    <3> DEFINE o == ~member.open
    <3>1. o \in BOOLEAN /\ member' = [member EXCEPT !.open = o]
      BY <2>1 DEF SetPayment
    <3> HIDE DEF o
    <3> QED
      BY <3>1, MessagesAre DEF Members
  <2>2. CASE ChangeSettings
    BY <2>2, MessagesAre DEF ChangeSettings, Members
  <2> QED
    BY <2>1, <2>2
<1>3. account' \in {"ready", "unverified", "no bank account"}
  BY MessagesAre DEF SetPayment, ChangeSettings
<1>4. MessageShapes' /\ RemindersCountedOnce'
  BY <1>1, <1>2, MessagesAre, DraftsAre DEF MessageShapes, LifecycleInv, RemindersCountedOnce
<1> QED
  BY <1>1, <1>2, <1>3, <1>4, NoneMade, MessageStep

\* A queued message ends.
LEMMA DeliverKeeps ==
  ASSUME LifecycleInv, NEW kind \in Kinds, Deliver(kind)
  PROVE  LifecycleInv'
<1>1. UNCHANGED <<clock, coll, send, reminder, rounds, reruns, history, draft, asked, account, made>>
  BY DEF Deliver, jobs, bounds
<1>2. queue' \in [Kinds -> Nat] /\ queue[kind] # 0
  <2>1. queue[kind] > 0 /\ queue' = [queue EXCEPT ![kind] = @ - 1]
    BY DEF Deliver
  <2> QED
    BY <2>1, QueueIs
<1>3. made # 0
  <2>1. queue[kind] # 0
    BY <1>2
  <2> QED
    BY <2>1, NoneMade
<1>4. \/ member' = Counted(kind) /\ sent' = Tally(kind)
      \/ UNCHANGED <<member, sent>>
  BY DEF Deliver
<1>5. member' \in Members /\ sent' \in Nat /\ (member.reminders = sent => member'.reminders = sent')
  BY <1>4, MessagesAre, CountedStep
<1>6. MessageShapes' /\ RemindersCountedOnce'
  BY <1>1, <1>2, <1>5, MessagesAre, DraftsAre DEF MessageShapes, LifecycleInv, RemindersCountedOnce
<1> QED
  BY <1>1, <1>3, <1>6, NoneMade, MessagesAre, MessageStep

\* A message by hand is asked for, inserted, or drafted.
LEMMA ByHandKeeps ==
  ASSUME LifecycleInv, InsertInternal \/ \E kind \in Kinds : AskInternal(kind) \/ CreateDraft(kind)
  PROVE  LifecycleInv'
<1>1. UNCHANGED <<clock, coll, send, reminder, rounds, reruns, history, account, member, sent>>
  BY DEF InsertInternal, AskInternal, CreateDraft, jobs
<1>2. RemindersCountedOnce'
  BY <1>1 DEF LifecycleInv, RemindersCountedOnce
<1>3. ASSUME UNCHANGED <<draft, queue, made>>, asked' \in Kinds \cup {"none"}
      PROVE  LifecycleInv'
  <2>1. MessageShapes'
    BY <1>1, <1>3, MessagesAre, DraftsAre DEF MessageShapes
  <2> QED
    BY <1>1, <1>2, <1>3, <2>1, MessagesAre, NoneMade, MessageStep
<1>4. ASSUME made' = made + 1, Exists, draft' \in Seq(Drafts), queue' \in [Kinds -> Nat], asked' \in Kinds \cup {"none"}
      PROVE  LifecycleInv'
  <2>1. made' \in Nat /\ made' # 0
    <3>1. made' = made + 1
      BY <1>4
    <3> QED
      BY <3>1, QueueIs
  <2>2. MessageShapes'
    BY <1>1, <1>4, <2>1, MessagesAre DEF MessageShapes
  <2>3. coll.status # "deleted"
    BY <1>4 DEF Exists
  <2> QED
    BY <1>1, <1>2, <2>1, <2>2, <2>3, MessagesAre, MessageStep
<1>5. CASE InsertInternal
  <2>1. asked \in Kinds /\ asked' = "none" /\ draft' = draft
    BY <1>5, MessagesAre DEF InsertInternal
  <2>2. CASE Exists
    <3>1. made' = made + 1 /\ queue' = [queue EXCEPT ![asked] = @ + 1]
      BY <1>5, <2>2 DEF InsertInternal
    <3>2. queue' \in [Kinds -> Nat]
      BY <2>1, <3>1, QueueIs
    <3> QED
      BY <1>4, <2>1, <2>2, <3>1, <3>2, DraftsAre
  <2>3. CASE ~Exists
    BY <1>3, <1>5, <2>1, <2>3 DEF InsertInternal
  <2> QED
    BY <2>2, <2>3
<1>6. ASSUME NEW kind \in Kinds, AskInternal(kind)
      PROVE  LifecycleInv'
  BY <1>3, <1>6 DEF AskInternal
<1>7. ASSUME NEW kind \in Kinds, CreateDraft(kind)
      PROVE  LifecycleInv'
  <2>1. [kind |-> kind, status |-> "draft", counted |-> FALSE] \in Drafts
    BY DEF Drafts
  <2>2. draft' \in Seq(Drafts)
    BY <1>7, <2>1, DraftsAre DEF CreateDraft
  <2> QED
    BY <1>4, <1>7, <2>2, MessagesAre DEF CreateDraft, Open
<1> QED
  BY <1>5, <1>6, <1>7

\* A draft is opened, or its result is reported, perhaps again.
LEMMA DraftKeeps ==
  ASSUME LifecycleInv, NEW d \in DOMAIN draft, MarkOpened(d) \/ \E result \in Results : ConfirmResult(d, result)
  PROVE  LifecycleInv'
<1>1. UNCHANGED <<clock, coll, send, reminder, rounds, reruns, account, queue, asked, made>>
  BY DEF MarkOpened, ConfirmResult, jobs, bounds
<1>2. made # 0
  <2>1. draft # <<>>
    OBVIOUS
  <2> QED
    BY <2>1, NoneMade
<1>3. ASSUME draft' \in Seq(Drafts), member' \in Members, sent' \in Nat, history \subseteq history', RemindersCountedOnce'
      PROVE  LifecycleInv'
  <2>1. MessageShapes'
    BY <1>1, <1>3, MessagesAre DEF MessageShapes
  <2> QED
    BY <1>1, <1>2, <1>3, <2>1, NoneMade, MessagesAre, MessageStep
<1>4. CASE MarkOpened(d)
  <2>1. [draft[d] EXCEPT !.status = "external_opened"] \in Drafts
    BY DraftsAre DEF Drafts
  <2>2. draft' = [draft EXCEPT ![d] = [draft[d] EXCEPT !.status = "external_opened"]]
    BY <1>4 DEF MarkOpened
  <2>3. draft' \in Seq(Drafts)
    BY <2>1, <2>2, DraftsAre
  <2>4. UNCHANGED <<member, sent, history>>
    BY <1>4 DEF MarkOpened
  <2> QED
    BY <1>3, <2>3, <2>4, MessagesAre DEF LifecycleInv, RemindersCountedOnce
<1>5. ASSUME NEW result \in Results, ConfirmResult(d, result)
      PROVE  LifecycleInv'
  <2> DEFINE c == draft[d].counted \/ result = "sent"
  <2>1. draft' \in Seq(Drafts)
    <3>1. c \in BOOLEAN /\ draft' = [draft EXCEPT ![d] = [draft[d] EXCEPT !.status = result, !.counted = c]]
      BY <1>5 DEF ConfirmResult
    <3> HIDE DEF c
    <3>2. [draft[d] EXCEPT !.status = result, !.counted = c] \in Drafts
      BY <3>1, DraftsAre DEF Drafts
    <3> QED
      BY <3>1, <3>2, DraftsAre
  <2>2. draft[d].kind \in Kinds
    BY DraftsAre DEF Drafts
  <2>3. CASE result = "sent"
    <3>1. member' = Counted(draft[d].kind) /\ sent' = (IF draft[d].counted THEN sent ELSE Tally(draft[d].kind))
      BY <1>5, <2>3 DEF ConfirmResult
    <3>2. history \subseteq history' /\ ("reported again" \notin history' => "reported again" \notin history /\ ~draft[d].counted)
      BY <1>5, <2>3 DEF ConfirmResult
    <3>3. member' \in Members /\ sent' \in Nat
      BY <2>2, <3>1, MessagesAre, CountedStep
    <3>4. RemindersCountedOnce'
      BY <2>2, <3>1, <3>2, MessagesAre, CountedStep DEF LifecycleInv, RemindersCountedOnce
    <3> QED
      BY <1>3, <2>1, <3>2, <3>3, <3>4
  <2>4. CASE result # "sent"
    <3>1. /\ sent' = sent /\ history' = history
          /\ member' = IF result = "failed" THEN [member EXCEPT !.route = "none"] ELSE member
      BY <1>5, <2>4 DEF ConfirmResult
    <3>2. member' \in Members /\ member'.reminders = member.reminders
      BY <3>1, MessagesAre DEF Members
    <3> QED
      BY <1>3, <2>1, <3>1, <3>2, MessagesAre DEF LifecycleInv, RemindersCountedOnce
  <2> QED
    BY <2>3, <2>4
<1> QED
  BY <1>4, <1>5
-----------------------------------------------------------------------------
(* Steps of the send job that leave the collection and the reminders alone *)

\* The jobs, one by one.
LEMMA JobsAre ==
  ASSUME LifecycleInv
  PROVE  /\ coll \in Colls /\ send \in SendJobs /\ reminder \in [RuleKeys -> ReminderJobs]
         /\ clock \in 0 .. MaxTime
BY DEF LifecycleInv, Shapes, JobShapes

\* Such a step keeps the invariant when the job still fits the collection, and when it
\* gives up its task of planning only with the plan made, or with the lapse noted.
LEMMA SendStepKeeps ==
  ASSUME LifecycleInv, UNCHANGED <<clock, coll, reminder, rounds, reruns, member, draft, asked, account, sent>>,
         history' \in {history, history \cup {"lapsed"}},
         send' \in SendJobs, SendFits', queue' \in [Kinds -> Nat], made' \in Nat,
         made' = 0 => made = 0 /\ queue' = queue,
         coll.status = "deleted" => made' = made,
         Undisturbed' =>
           /\ Window => Window' \/ Planned
           /\ Window' => send'.due = coll.due
           /\ send'.pc = "inserting" => send'.missing = Ahead \/ (Planned /\ send'.missing = {})
  PROVE  LifecycleInv'
<1>1. Shapes'
  BY DEF LifecycleInv, Shapes, JobShapes, RoundShapes, MessageShapes
<1>2. ReminderFits' /\ RoundsFit'
  BY DEF LifecycleInv, ReminderFits, RoundsFit, Used
<1>3. MessagesFit'
  BY NoneMade DEF MessagesFit
<1>4. RemindersCountedOnce'
  BY DEF LifecycleInv, RemindersCountedOnce
<1>5. PlanFits'
  <2>1. Undisturbed' => Undisturbed
    BY DEF Undisturbed
  <2>2. Ahead' = Ahead /\ \A i : Times(i)' = Times(i)
    BY DEF Ahead, Times
  <2>3. (Justified' <=> Justified) /\ (Planned' <=> Planned) /\ (Untouched' <=> Untouched)
    BY <2>2 DEF Justified, Planned, Untouched
  <2>4. PlanFits
    BY DEF LifecycleInv
  <2> QED
    BY <2>1, <2>2, <2>3, <2>4 DEF PlanFits
<1> QED
  BY <1>1, <1>2, <1>3, <1>4, <1>5 DEF LifecycleInv

\* Messages are queued, or none is wanted.
LEMMA QueueMessagesStep ==
  ASSUME LifecycleInv, NEW kind \in Kinds, QueueMessages(kind)
  PROVE  /\ queue' \in [Kinds -> Nat] /\ made' \in Nat
         /\ made' = 0 => made = 0 /\ queue' = queue
         /\ Queues(kind) \/ (made' = made /\ queue' = queue)
<1>1. CASE Queues(kind)
  <2>1. made' = made + 1 /\ queue' = [queue EXCEPT ![kind] = 1]
    BY <1>1 DEF QueueMessages
  <2> QED
    BY <1>1, <2>1, QueueIs
<1>2. CASE ~Queues(kind)
  <2>1. made' = made /\ queue' = queue
    BY <1>2 DEF QueueMessages
  <2> QED
    BY <2>1, QueueIs
<1> QED
  BY <1>1, <1>2

\* The job ends, is given up, or is put back.
LEMMA EndSendStep ==
  ASSUME LifecycleInv, NEW status \in {"pending", "failed", "done"}, EndSend(status), send.pc # "idle", coll' = coll
  PROVE  send' \in SendJobs /\ SendFits' /\ ~Window' /\ send'.pc = "idle"
<1> DEFINE s == IF send.status = "gone" THEN "gone" ELSE status
<1>1. send' = [NoJob EXCEPT !.status = s]
  BY DEF EndSend
<1>2. s \in {"pending", "failed", "done", "gone"} /\ (send.status = "gone" => s = "gone")
  OBVIOUS
<1> HIDE DEF s
<1>3. send' \in SendJobs /\ send'.pc = "idle" /\ send'.status = s
  BY <1>1, <1>2 DEF NoJob, SendJobs
<1>4. ~Window'
  BY <1>3 DEF Window, Sending
<1>5. SendFits /\ coll.status # "none"
  BY DEF LifecycleInv, SendFits, NoJob
<1>6. SendFits'
  BY <1>2, <1>3, <1>5 DEF SendFits, Sending
<1> QED
  BY <1>3, <1>4, <1>6

\* The job is claimed, reads, waits, completes or is interrupted.
LEMMA StartSendKeeps ==
  ASSUME LifecycleInv, StartSend
  PROVE  LifecycleInv'
<1>1. /\ send.status = "pending" /\ send' = [send EXCEPT !.status = "running", !.pc = "begin"]
      /\ UNCHANGED <<clock, coll, reminder, rounds, reruns, member, queue, draft, asked, account, sent, history, made>>
  BY DEF StartSend, bounds
<1>2. SendFits /\ send \in SendJobs
  BY JobsAre DEF LifecycleInv
<1>3. send' \in SendJobs /\ send'.pc = "begin" /\ send'.status = "running"
  BY <1>1, <1>2 DEF SendJobs
<1>4. send.pc = "idle" /\ coll.status \notin {"none", "deleted"}
  BY <1>1, <1>2 DEF SendFits, NoJob
<1>5. SendFits'
  BY <1>1, <1>3, <1>4 DEF SendFits, Sending
<1>6. ~Window /\ ~Window'
  BY <1>3, <1>4 DEF Window, Sending
<1> QED
  BY <1>1, <1>3, <1>5, <1>6, QueueIs, SendStepKeeps

\* The send job is done.
LEMMA CompleteSendKeeps ==
  ASSUME LifecycleInv, CompleteSend
  PROVE  LifecycleInv'
<1>1. /\ send.pc = "end" /\ EndSend("done")
      /\ UNCHANGED <<clock, coll, reminder, rounds, reruns, member, queue, draft, asked, account, sent, history, made>>
  BY DEF CompleteSend, bounds
<1>2. send' \in SendJobs /\ SendFits' /\ ~Window' /\ send'.pc = "idle"
  BY <1>1, EndSendStep
<1>3. ~Window
  BY <1>1 DEF Window, Sending
<1> QED
  BY <1>1, <1>2, <1>3, QueueIs, SendStepKeeps

\* The send job is interrupted, and runs again or has failed.
LEMMA InterruptSendKeeps ==
  ASSUME LifecycleInv, InterruptSend
  PROVE  LifecycleInv'
<1>1. /\ send.pc # "idle" /\ \E verdict \in {"pending", "failed"} : EndSend(verdict)
      /\ UNCHANGED <<clock, coll, reminder, rounds, reruns, member, queue, draft, asked, account, sent, made>>
  BY DEF InterruptSend
<1>2. history' = IF Window THEN history \cup {"lapsed"} ELSE history
  BY DEF InterruptSend, Window, Sending
<1>3. send' \in SendJobs /\ SendFits' /\ ~Window' /\ send'.pc = "idle"
  BY <1>1, EndSendStep
<1>4. Undisturbed' => ~Window
  BY <1>2 DEF Undisturbed
<1> QED
  BY <1>1, <1>2, <1>3, <1>4, QueueIs, SendStepKeeps

\* The messages of the job are queued.
LEMMA QueueInitialKeeps ==
  ASSUME LifecycleInv, QueueInitial
  PROVE  LifecycleInv'
<1>1. /\ send.pc = "activated"
      /\ UNCHANGED <<clock, coll, reminder, rounds, reruns, member, draft, asked, account, sent>>
  BY DEF QueueInitial
<1>2. SendFits /\ send \in SendJobs /\ coll.status \in Active
  BY <1>1, JobsAre DEF LifecycleInv, SendFits, Sending
<1>3. CASE coll.status # "cancelled" /\ account # "ready"
  <2>1. /\ EndSend("failed") /\ UNCHANGED <<queue, made>>
        /\ history' = IF send.first THEN history \cup {"lapsed"} ELSE history
    BY <1>3 DEF QueueInitial
  <2>2. send' \in SendJobs /\ SendFits' /\ ~Window' /\ send'.pc = "idle"
    BY <1>1, <2>1, EndSendStep
  <2>3. Undisturbed' => ~Window
    BY <2>1 DEF Undisturbed, Window
  <2> QED
    BY <1>1, <2>1, <2>2, <2>3, QueueIs, SendStepKeeps
<1>4. CASE ~(coll.status # "cancelled" /\ account # "ready")
  <2>1. /\ QueueMessages("initial") /\ history' = history
        /\ send' = [send EXCEPT !.pc = IF send.first THEN "queued" ELSE "end"]
    BY <1>4 DEF QueueInitial
  <2>2. /\ queue' \in [Kinds -> Nat] /\ made' \in Nat
        /\ made' = 0 => made = 0 /\ queue' = queue
    BY <2>1, QueueMessagesStep DEF Kinds
  <2>3. coll.status # "deleted"
    BY <1>2 DEF Active
  <2>4. /\ send' \in SendJobs
        /\ send'.pc = IF send.first THEN "queued" ELSE "end"
        /\ send'.first = send.first /\ send'.due = send.due /\ send'.status = send.status
    BY <1>2, <2>1 DEF SendJobs
  <2>5. SendFits'
    BY <1>1, <1>2, <2>4 DEF SendFits, Sending, NoJob
  <2>6. Window => Window'
    BY <2>4 DEF Window, Sending
  <2>7. Undisturbed' => (Window' => send'.due = coll.due)
    <3>1. Window' => Window
      BY <1>1, <2>4 DEF Window, Sending
    <3>2. Undisturbed' => Undisturbed
      BY <1>1, <2>1 DEF Undisturbed
    <3> QED
      BY <2>4, <3>1, <3>2 DEF LifecycleInv, PlanFits
  <2>8. send'.pc # "inserting"
    BY <2>4
  <2> QED
    BY <1>1, <2>1, <2>2, <2>3, <2>4, <2>5, <2>6, <2>7, <2>8, SendStepKeeps
<1> QED
  BY <1>3, <1>4

\* The job reads which reminders are missing: all of them, or none.
LEMMA ReadRemindersKeeps ==
  ASSUME LifecycleInv, ReadReminders
  PROVE  LifecycleInv'
<1> DEFINE missing == {i \in Scheduled(coll.send, send.due, clock) : Missing(i)}
<1>1. /\ send.pc = "queued" /\ send' = [send EXCEPT !.pc = "inserting", !.missing = missing]
      /\ UNCHANGED <<clock, coll, reminder, rounds, reruns, member, queue, draft, asked, account, sent, history, made>>
  BY DEF ReadReminders, bounds
<1>2. SendFits /\ send \in SendJobs /\ coll.status \in Active /\ Window
  BY <1>1, JobsAre DEF LifecycleInv, SendFits, Sending, Window
<1>3. missing \subseteq RuleKeys /\ \A i \in missing : Target(i, coll.send, send.due) # {}
  BY ScheduledAre
<1>4. Undisturbed' => send.due = coll.due /\ (missing = Ahead \/ (Planned /\ missing = {}))
  <2>1. SUFFICES ASSUME Undisturbed'
                 PROVE  send.due = coll.due /\ (missing = Ahead \/ (Planned /\ missing = {}))
    OBVIOUS
  <2>2. Undisturbed
    BY <1>1, <2>1 DEF Undisturbed
  <2>3. send.due = coll.due /\ (Planned \/ Untouched)
    BY <1>2, <2>2 DEF LifecycleInv, PlanFits
  <2>4. missing = {i \in Ahead : Missing(i)}
    BY <2>3 DEF Ahead
  <2>5. Planned => missing = {}
    BY <2>4 DEF Planned, Missing
  <2>6. Untouched => missing = Ahead
    BY <2>4, ScheduledAre DEF Untouched, Missing, Ahead
  <2> QED
    BY <2>3, <2>5, <2>6
<1> HIDE DEF missing
<1>5. /\ send' \in SendJobs /\ send'.pc = "inserting" /\ send'.missing = missing
      /\ send'.first = send.first /\ send'.due = send.due /\ send'.status = send.status
  BY <1>1, <1>2, <1>3 DEF SendJobs
<1>6. SendFits'
  BY <1>1, <1>2, <1>3, <1>5 DEF SendFits, Sending, NoJob, Window
<1>7. Window'
  BY <1>2, <1>5 DEF Window, Sending
<1> QED
  BY <1>1, <1>4, <1>5, <1>6, <1>7, QueueIs, SendStepKeeps

-----------------------------------------------------------------------------
(* Steps that plan reminders *)

\* A step that adds what is missing of the reminders, or leaves them, and leaves an active
\* collection with a plan, or to the job that is on its way.
LEMMA PlanStep ==
  ASSUME LifecycleInv, NEW keys \in SUBSET RuleKeys, NEW due \in Nat \cup {NoDue},
         \A i \in keys : Target(i, coll.send, due) # {} /\ Missing(i),
         reminder' = WithReminders(keys, due), coll' = [coll EXCEPT !.status = "active"] \/ coll' = coll,
         keys # {} => coll'.status \in Active, coll.status \notin {"none", "deleted"},
         coll'.status # "cancelled" => coll.status # "cancelled",
         UNCHANGED <<clock, rounds, reruns, member, draft, asked, account, sent, history>>,
         send' \in SendJobs, SendFits', queue' \in [Kinds -> Nat], made' \in Nat,
         made' = 0 => made = 0 /\ queue' = queue,
         PlanFits'
  PROVE  LifecycleInv'
<1>1. coll' \in Colls /\ coll'.status \notin {"none", "deleted"} /\ coll'.status \in {coll.status, "active"}
  BY JobsAre DEF Colls
<1>2. /\ reminder' \in [RuleKeys -> ReminderJobs]
      /\ \A i \in keys : reminder'[i].status = "pending" /\ reminder'[i].pc = "idle"
      /\ \A i \in RuleKeys \ keys : reminder'[i] = reminder[i]
  <2>1. Shapes
    BY DEF LifecycleInv
  <2> QED
    BY <2>1, WithRemindersStep
<1>3. Shapes'
  BY <1>1, <1>2 DEF LifecycleInv, Shapes, JobShapes, RoundShapes, MessageShapes
<1>4. \A i \in keys : Used(i) = 0
  BY JobsAre DEF LifecycleInv, ReminderFits, Missing, Used, ReminderJobs
<1>5. RoundsFit'
  <2>1. \A i \in RuleKeys : Used(i)' = Used(i)
    BY <1>2, <1>4 DEF Used
  <2> QED
    BY <2>1 DEF LifecycleInv, RoundsFit
<1>6. ReminderFits'
  <2>1. ASSUME NEW i \in keys
        PROVE  /\ reminder'[i].pc # "idle" => reminder'[i].status = "running"
               /\ reminder'[i].status # "none" => coll'.status \in Active
               /\ reminder'[i].status = "cancelled" => coll'.status = "cancelled"
    BY <1>2, <2>1
  <2>2. ASSUME NEW i \in RuleKeys \ keys
        PROVE  /\ reminder'[i].pc # "idle" => reminder'[i].status = "running"
               /\ reminder'[i].status # "none" => coll'.status \in Active
               /\ reminder'[i].status = "cancelled" => coll'.status = "cancelled"
    <3>1. reminder'[i] = reminder[i]
      BY <1>2, <2>2
    <3>2. ReminderFits
      BY DEF LifecycleInv
    <3>3. coll.status = "cancelled" => coll'.status = "cancelled"
      OBVIOUS
    <3> QED
      BY <1>1, <3>1, <3>2, <3>3 DEF ReminderFits, Active
  <2> QED
    BY <2>1, <2>2 DEF ReminderFits
<1>7. MessagesFit'
  BY <1>1, NoneMade DEF MessagesFit
<1>8. RemindersCountedOnce'
  BY DEF LifecycleInv, RemindersCountedOnce
<1> QED
  BY <1>3, <1>5, <1>6, <1>7, <1>8 DEF LifecycleInv

\* A rule that asks for a time ahead has no other time.
LEMMA AheadIsOne ==
  ASSUME LifecycleInv, NEW i \in Ahead
  PROVE  \E t \in Int : /\ Times(i) = {t} /\ t > clock /\ t > coll.send
                        /\ \A h \in RuleKeys : h < i => t \notin Times(h)
<1>1. coll.send \in Nat /\ coll.due \in Nat \cup {NoDue} /\ clock \in Nat
  BY JobsAre, LifecycleAssumption DEF Colls
<1>2. i \in RuleKeys
  BY ScheduledAre DEF Ahead
<1>3. PICK t \in Times(i) : t > coll.send /\ t > clock /\ \A h \in RuleKeys : h < i => t \notin Times(h)
  BY DEF Ahead, Scheduled, Times
<1>4. PICK u \in Int : Times(i) = {u}
  BY <1>1, <1>2, <1>3, TargetIsOne DEF Times
<1>5. t = u
  BY <1>3, <1>4
<1> QED
  BY <1>3, <1>4, <1>5

\* Adding the missing ones of what lies ahead completes the plan.
LEMMA PlanMade ==
  ASSUME LifecycleInv, Justified, NEW keys, keys = {i \in Ahead : Missing(i)},
         reminder' = WithReminders(keys, coll.due),
         coll'.send = coll.send, coll'.due = coll.due, clock' = clock
  PROVE  Justified' /\ Planned' /\ Ahead' = Ahead
<1>1. keys \subseteq RuleKeys /\ \A i \in keys : Target(i, coll.send, coll.due) # {}
  BY ScheduledAre DEF Ahead
<1>2. /\ \A i \in keys : reminder'[i].status = "pending" /\ reminder'[i].at \in Times(i)
      /\ \A i \in RuleKeys \ keys : reminder'[i] = reminder[i]
  <2>1. Shapes /\ coll.due \in Nat \cup {NoDue}
    BY JobsAre DEF LifecycleInv, Colls
  <2>2. keys \in SUBSET RuleKeys
    BY <1>1
  <2>3. /\ \A i \in keys : reminder'[i].status = "pending" /\ reminder'[i].at \in Target(i, coll.send, coll.due)
        /\ \A i \in RuleKeys \ keys : reminder'[i] = reminder[i]
    BY <1>1, <2>1, <2>2, WithRemindersStep
  <2> QED
    BY <2>3 DEF Times
<1>3. Ahead' = Ahead /\ \A i : Times(i)' = Times(i)
  BY DEF Ahead, Times
<1>4. Planned'
  <2>1. SUFFICES ASSUME NEW i \in Ahead
                 PROVE  reminder'[i].status = "pending" /\ reminder'[i].at \in Times(i)
    BY <1>3 DEF Planned
  <2>2. i \in RuleKeys
    BY ScheduledAre DEF Ahead
  <2>3. CASE i \in keys
    BY <1>2, <2>3
  <2>4. CASE i \notin keys
    <3>1. reminder'[i] = reminder[i] /\ ~Missing(i)
      BY <1>2, <2>2, <2>4
    <3>2. reminder[i].status # "none"
      BY <3>1 DEF Missing
    <3>3. ~ \E t \in Times(i) : t <= clock
      BY JobsAre, AheadIsOne, LifecycleAssumption
    <3>4. reminder[i].status = "pending" /\ reminder[i].at \in Times(i)
      BY <2>2, <3>2, <3>3 DEF Justified
    <3> QED
      BY <3>1, <3>4
  <2> QED
    BY <2>3, <2>4
<1>5. ASSUME NEW i \in RuleKeys, reminder'[i].status # "none"
      PROVE  \/ /\ reminder'[i].status = "pending" /\ reminder'[i].at \in Times(i) /\ reminder'[i].at > coll.send
                /\ \A h \in RuleKeys : h < i => reminder'[i].at \notin Times(h)
             \/ /\ \E t \in Times(i) : t <= clock
                /\ reminder'[i].status = "pending" => reminder'[i].at <= clock
  <2>1. CASE i \in keys
    <3>1. i \in Ahead
      BY <2>1
    <3>2. PICK t \in Int : /\ Times(i) = {t} /\ t > clock /\ t > coll.send
                           /\ \A h \in RuleKeys : h < i => t \notin Times(h)
      BY <3>1, AheadIsOne
    <3>3. reminder'[i].at = t /\ reminder'[i].status = "pending"
      BY <1>2, <2>1, <3>2
    <3> QED
      BY <3>2, <3>3
  <2>2. CASE i \notin keys
    <3>1. reminder'[i] = reminder[i]
      BY <1>2, <2>2
    <3> QED
      BY <1>5, <3>1 DEF Justified
  <2> QED
    BY <2>1, <2>2
<1>6. Justified'
  BY <1>3, <1>5 DEF Justified
<1> QED
  BY <1>3, <1>4, <1>6

\* The job adds the reminders it found missing, or meets one of them and is run again.
LEMMA InsertRemindersKeeps ==
  ASSUME LifecycleInv, InsertReminders
  PROVE  LifecycleInv'
<1>1. /\ send.pc = "inserting"
      /\ UNCHANGED <<clock, coll, rounds, reruns, member, queue, draft, asked, account, sent, history, made>>
  BY DEF InsertReminders, bounds
<1>2. SendFits /\ send \in SendJobs /\ coll.status \in Active /\ Window
  BY <1>1, JobsAre DEF LifecycleInv, SendFits, Sending, Window
<1>3. Undisturbed' <=> Undisturbed
  BY <1>1 DEF Undisturbed
<1>4. Undisturbed => /\ Justified /\ (Planned \/ Untouched) /\ send.due = coll.due
                     /\ send.missing = Ahead \/ (Planned /\ send.missing = {})
  BY <1>1, <1>2 DEF LifecycleInv, PlanFits
<1>5. CASE \A i \in send.missing : Missing(i)
  <2>1. /\ reminder' = WithReminders(send.missing, send.due)
        /\ send' = [send EXCEPT !.pc = "end", !.missing = {}]
    BY <1>5 DEF InsertReminders
  <2>2. /\ send' \in SendJobs /\ send'.pc = "end" /\ send'.status = send.status
    BY <1>2, <2>1 DEF SendJobs
  <2>3. SendFits' /\ ~Window'
    BY <1>1, <1>2, <2>2 DEF SendFits, Sending, NoJob, Window
  <2>4. send.missing \in SUBSET RuleKeys /\ send.due \in Nat \cup {NoDue}
    BY <1>2 DEF SendJobs
  <2>5. \A i \in send.missing : Target(i, coll.send, send.due) # {}
    BY <1>1, <1>2 DEF SendFits
  <2>6. ASSUME Undisturbed'
        PROVE  Justified' /\ Planned'
    <3>1. /\ Justified /\ send.due = coll.due
          /\ send.missing = Ahead \/ (Planned /\ send.missing = {})
      BY <1>3, <1>4, <2>6
    <3>2. Planned => {i \in Ahead : Missing(i)} = {}
      BY DEF Planned, Missing
    <3>3. send.missing = {i \in Ahead : Missing(i)}
      BY <1>5, <3>1, <3>2
    <3>4. reminder' = WithReminders(send.missing, coll.due)
      BY <2>1, <3>1
    <3> QED
      BY <1>1, <3>1, <3>3, <3>4, PlanMade
  <2>7. PlanFits'
    BY <2>2, <2>3, <2>6 DEF PlanFits
  <2>8. coll.status \notin {"none", "deleted"}
    BY <1>2 DEF Active
  <2> QED
    BY <1>1, <1>2, <1>5, <2>1, <2>2, <2>3, <2>4, <2>5, <2>7, <2>8, QueueIs, PlanStep
<1>6. CASE ~ \A i \in send.missing : Missing(i)
  <2>1. EndSend("pending") /\ reminder' = reminder
    BY <1>6 DEF InsertReminders
  <2>2. send' \in SendJobs /\ SendFits' /\ ~Window' /\ send'.pc = "idle"
    BY <1>1, <2>1, EndSendStep
  <2>3. Undisturbed' => Planned
    <3>1. Untouched => \A i \in RuleKeys : Missing(i)
      BY DEF Untouched, Missing
    <3>2. send.missing \subseteq RuleKeys
      BY <1>2 DEF SendJobs
    <3> QED
      BY <1>3, <1>4, <1>6, <3>1, <3>2
  <2> QED
    BY <1>1, <2>1, <2>2, <2>3, QueueIs, SendStepKeeps
<1> QED
  BY <1>5, <1>6

\* Before the collection is active there is no reminder, and nothing to justify.
LEMMA NothingYet ==
  ASSUME LifecycleInv, coll.status \notin Active
  PROVE  Untouched /\ Justified
BY DEF LifecycleInv, ReminderFits, Untouched, Justified

\* The job activates the collection, or finds it blocked or cancelled.
LEMMA ActivateKeeps ==
  ASSUME LifecycleInv, Activate
  PROVE  LifecycleInv'
<1>1. /\ send.pc = "begin"
      /\ UNCHANGED <<clock, reminder, rounds, reruns, member, queue, draft, asked, account, sent, history, made>>
  BY DEF Activate, bounds
<1>2. SendFits /\ send \in SendJobs /\ ~Window
  BY <1>1, JobsAre DEF LifecycleInv, Window, Sending
<1>3. CASE EndSend("failed") /\ coll' = coll
  <2>1. send' \in SendJobs /\ SendFits' /\ ~Window' /\ send'.pc = "idle"
    BY <1>1, <1>3, EndSendStep
  <2> QED
    BY <1>1, <1>2, <1>3, <2>1, QueueIs, SendStepKeeps
<1>4. CASE coll.status = "cancelled" /\ send' = [send EXCEPT !.pc = "end"] /\ coll' = coll
  <2>1. send' \in SendJobs /\ send'.pc = "end" /\ send'.status = send.status
    BY <1>2, <1>4 DEF SendJobs
  <2>2. SendFits' /\ ~Window'
    BY <1>1, <1>2, <1>4, <2>1 DEF SendFits, Sending, Active, NoJob, Window
  <2> QED
    BY <1>1, <1>2, <1>4, <2>1, <2>2, QueueIs, SendStepKeeps
<1>5. CASE Open /\ coll' = [coll EXCEPT !.status = "active"]
           /\ send' = [send EXCEPT !.pc = "activated", !.first = coll.status # "active", !.due = coll.due]
  <2> DEFINE f == coll.status # "active"
  <2>1. f \in BOOLEAN /\ send' = [send EXCEPT !.pc = "activated", !.first = f, !.due = coll.due]
    BY <1>5
  <2>2. coll \in Colls /\ coll.status \notin {"none", "deleted", "cancelled"} /\ (f <=> coll.status # "active")
    BY <1>5, JobsAre DEF Open, Exists
  <2> HIDE DEF f
  <2>3. /\ send' \in SendJobs /\ send'.pc = "activated" /\ send'.status = send.status
        /\ send'.first = f /\ send'.due = coll.due
    BY <1>2, <2>1, <2>2 DEF SendJobs, Colls
  <2>4. /\ coll' \in Colls /\ coll'.status = "active" /\ coll'.send = coll.send /\ coll'.due = coll.due
    BY <1>5, <2>2 DEF Colls
  <2>5. SendFits'
    BY <1>1, <1>2, <2>3, <2>4 DEF SendFits, Sending, Active
  <2>6. Ahead' = Ahead /\ \A i : Times(i)' = Times(i)
    BY <1>1, <2>4 DEF Ahead, Times
  <2>7. (Justified' <=> Justified) /\ (Planned' <=> Planned) /\ (Untouched' <=> Untouched)
    BY <1>1, <2>4, <2>6 DEF Justified, Planned, Untouched
  <2>8. Window' <=> f
    BY <2>3 DEF Window, Sending
  <2>9. PlanFits'
    <3>1. CASE f
      <4>1. Untouched /\ Justified
        BY <2>2, <3>1, NothingYet DEF Active
      <4> QED
        BY <2>3, <2>4, <2>7, <2>8, <3>1, <4>1 DEF PlanFits
    <3>2. CASE ~f
      <4>1. Undisturbed' <=> Undisturbed
        BY <1>1, <2>2, <2>4, <3>2 DEF Undisturbed
      <4>2. Undisturbed => Justified /\ Planned
        BY <1>2 DEF LifecycleInv, PlanFits
      <4> QED
        BY <2>3, <2>7, <2>8, <3>2, <4>1, <4>2 DEF PlanFits
    <3> QED
      BY <3>1, <3>2
  <2>10. Shapes'
    BY <1>1, <2>3, <2>4 DEF LifecycleInv, Shapes, JobShapes, RoundShapes, MessageShapes
  <2>11. ReminderFits'
    <3>1. ReminderFits
      BY DEF LifecycleInv
    <3> QED
      BY <1>1, <2>2, <2>4, <3>1 DEF ReminderFits, Active
  <2>12. RoundsFit' /\ RemindersCountedOnce' /\ MessagesFit'
    BY <1>1, <2>4 DEF LifecycleInv, RoundsFit, Used, RemindersCountedOnce, MessagesFit
  <2> QED
    BY <2>5, <2>9, <2>10, <2>11, <2>12 DEF LifecycleInv
<1> QED
  BY <1>3, <1>4, <1>5 DEF Activate

\* A dispatch: of the collection, which plans what is missing, or of reminders by hand.
LEMMA DispatchKeeps ==
  ASSUME LifecycleInv, NEW kind \in Kinds, Dispatch(kind)
  PROVE  LifecycleInv'
<1>1. /\ Open /\ QueueMessages(kind)
      /\ UNCHANGED <<clock, send, rounds, reruns, member, draft, asked, account, sent, history>>
  BY DEF Dispatch
<1>2. coll \in Colls /\ send \in SendJobs /\ SendFits /\ coll.status \notin {"none", "deleted", "cancelled"}
  BY <1>1, JobsAre DEF LifecycleInv, Open, Exists
<1>3. /\ queue' \in [Kinds -> Nat] /\ made' \in Nat
      /\ made' = 0 => made = 0 /\ queue' = queue
  BY <1>1, QueueMessagesStep
<1>4. CASE kind = "initial"
  <2> DEFINE keys == {i \in Scheduled(coll.send, coll.due, clock) : Missing(i)}
  <2>1. coll' = [coll EXCEPT !.status = "active"] /\ reminder' = WithReminders(keys, coll.due)
    BY <1>4 DEF Dispatch
  <2>2. keys = {i \in Ahead : Missing(i)}
    BY DEF Ahead
  <2> HIDE DEF keys
  <2>3. coll'.status = "active" /\ coll'.send = coll.send /\ coll'.due = coll.due
    BY <1>2, <2>1 DEF Colls
  <2>4. keys \in SUBSET RuleKeys /\ \A i \in keys : Target(i, coll.send, coll.due) # {} /\ Missing(i)
    BY <2>2, ScheduledAre DEF Ahead
  <2>5. coll.due \in Nat \cup {NoDue}
    BY <1>2 DEF Colls
  <2>6. SendFits' /\ (Window' <=> Window) /\ (Window => coll.status = "active")
    BY <1>1, <1>2, <2>3 DEF SendFits, Active, Window
  <2>7. ASSUME Undisturbed'
        PROVE  /\ Justified' /\ Planned' /\ Ahead' = Ahead
               /\ Window' => send.due = coll.due
               /\ send.pc = "inserting" => send.missing = Ahead \/ send.missing = {}
    <3>1. CASE coll.status = "active"
      <4>1. Undisturbed
        BY <1>1, <2>7, <3>1 DEF Undisturbed
      <4>2. PlanFits
        BY DEF LifecycleInv
      <4>3. /\ Justified /\ (Window => send.due = coll.due)
            /\ send.pc = "inserting" => send.missing = Ahead \/ send.missing = {}
        BY <4>1, <4>2 DEF PlanFits
      <4>4. Justified' /\ Planned' /\ Ahead' = Ahead
        BY <1>1, <2>1, <2>2, <2>3, <4>3, PlanMade
      <4> QED
        BY <2>6, <4>3, <4>4
    <3>2. CASE coll.status # "active"
      <4>1. Justified
        BY <1>2, <3>2, NothingYet DEF Active
      <4>2. ~Window /\ send.pc # "inserting"
        BY <1>2, <2>6, <3>2 DEF SendFits, Sending, Active
      <4>3. Justified' /\ Planned' /\ Ahead' = Ahead
        BY <1>1, <2>1, <2>2, <2>3, <4>1, PlanMade
      <4> QED
        BY <2>6, <4>2, <4>3
    <3> QED
      BY <3>1, <3>2
  <2>8. PlanFits'
    BY <1>1, <2>3, <2>7 DEF PlanFits
  <2> QED
    BY <1>1, <1>2, <1>3, <2>1, <2>3, <2>4, <2>5, <2>6, <2>8, PlanStep DEF Active
<1>5. CASE kind # "initial"
  <2>1. UNCHANGED <<coll, reminder>>
    BY <1>5 DEF Dispatch
  <2>2. SendFits' /\ Window' = Window
    BY <1>1, <1>2, <2>1 DEF SendFits, Window
  <2>3. ASSUME Undisturbed'
        PROVE  /\ Window' => send'.due = coll.due
               /\ send'.pc = "inserting" => send'.missing = Ahead \/ (Planned /\ send'.missing = {})
    <3>1. Undisturbed
      BY <1>1, <2>1, <2>3 DEF Undisturbed
    <3> QED
      BY <1>1, <2>2, <3>1 DEF LifecycleInv, PlanFits
  <2> QED
    BY <1>1, <1>2, <1>3, <2>1, <2>2, <2>3, SendStepKeeps
<1> QED
  BY <1>4, <1>5

-----------------------------------------------------------------------------
(* Steps that take the collection out of sight *)

\* A step that leaves the messages alone and the plan without a word to say.
LEMMA StatusStep ==
  ASSUME LifecycleInv, UNCHANGED <<clock, rounds, reruns, member, draft, asked, account, sent, made>>,
         coll' \in Colls, send' \in SendJobs, reminder' \in [RuleKeys -> ReminderJobs],
         SendFits', ReminderFits', ~Undisturbed', "reported again" \in history' <=> "reported again" \in history,
         \A i \in RuleKeys : Used(i)' = Used(i),
         queue' \in [Kinds -> Nat], \A k \in Kinds : queue[k] = 0 => queue'[k] = 0,
         coll'.status = "deleted" => made = 0
  PROVE  LifecycleInv'
<1>1. Shapes'
  BY DEF LifecycleInv, Shapes, JobShapes, RoundShapes, MessageShapes
<1>2. MessagesFit'
  BY NoneMade DEF MessagesFit
<1>3. RoundsFit' /\ RemindersCountedOnce' /\ PlanFits'
  BY DEF LifecycleInv, RoundsFit, RemindersCountedOnce, PlanFits
<1> QED
  BY <1>1, <1>2, <1>3 DEF LifecycleInv

\* A collection is created.
LEMMA CreateKeeps ==
  ASSUME LifecycleInv, NEW at \in SendTimes \cup {clock}, NEW due \in DueTimes \cup {NoDue}, Create(at, due)
  PROVE  LifecycleInv'
<1> DEFINE s == IF at > clock THEN "scheduled" ELSE "draft"
<1>1. /\ coll.status = "none" /\ coll' = [status |-> s, send |-> at, due |-> due]
      /\ send' = IF at > clock THEN [NoJob EXCEPT !.status = "pending"] ELSE send
      /\ UNCHANGED <<clock, reminder, rounds, reruns, member, queue, draft, asked, account, sent, history, made>>
  BY DEF Create, bounds
<1>2. s \in {"scheduled", "draft"} /\ (s = "scheduled" => at > clock)
  OBVIOUS
<1> HIDE DEF s
<1>3. at \in Nat /\ due \in Nat \cup {NoDue}
  BY JobsAre, LifecycleAssumption
<1>4. coll' \in Colls /\ coll'.status \in {"scheduled", "draft"} /\ coll'.status = s
  BY <1>1, <1>2, <1>3 DEF Colls
<1>5. SendFits /\ send = NoJob
  BY <1>1 DEF LifecycleInv, SendFits
<1>6. /\ send' \in SendJobs /\ send'.pc = "idle"
      /\ at > clock => send'.status = "pending"
  BY <1>1, <1>5 DEF NoJob, SendJobs
<1>7. SendFits'
  BY <1>2, <1>4, <1>6 DEF SendFits, Sending
<1>8. ReminderFits'
  BY <1>1, JobsAre DEF LifecycleInv, ReminderFits, Active, ReminderJobs
<1>9. ~Undisturbed' /\ \A i \in RuleKeys : Used(i)' = Used(i)
  BY <1>1, <1>4 DEF Undisturbed, Used
<1> QED
  BY <1>1, <1>4, <1>6, <1>7, <1>8, <1>9, QueueIs, JobsAre, StatusStep

\* The due date moves.
LEMMA MoveDueDateKeeps ==
  ASSUME LifecycleInv, NEW due \in DueTimes, MoveDueDate(due)
  PROVE  LifecycleInv'
<1>1. /\ coll' = [coll EXCEPT !.due = due] /\ history' = history \cup {"moved"}
      /\ UNCHANGED <<clock, send, reminder, rounds, reruns, member, queue, draft, asked, account, sent, made>>
  BY DEF MoveDueDate, jobs
<1>2. coll' \in Colls /\ coll'.status = coll.status /\ coll'.send = coll.send
  BY <1>1, JobsAre, LifecycleAssumption DEF Colls
<1>3. SendFits' /\ ReminderFits'
  BY <1>1, <1>2 DEF LifecycleInv, SendFits, ReminderFits
<1>4. ~Undisturbed' /\ \A i \in RuleKeys : Used(i)' = Used(i)
  BY <1>1 DEF Undisturbed, Used
<1> QED
  BY <1>1, <1>2, <1>3, <1>4, QueueIs, NoneMade, JobsAre, StatusStep

\* The collection is cancelled, with what is queued.
LEMMA CancelKeeps ==
  ASSUME LifecycleInv, Cancel
  PROVE  LifecycleInv'
<1>1. /\ Open /\ coll' = [coll EXCEPT !.status = "cancelled"]
      /\ UNCHANGED <<clock, rounds, reruns, member, draft, asked, account, sent, history, made>>
  BY DEF Cancel, bounds
<1>2. coll' \in Colls /\ coll'.status = "cancelled" /\ coll'.send = coll.send
  BY <1>1, JobsAre DEF Colls
<1>3. queue' \in [Kinds -> Nat] /\ \A k \in Kinds : queue[k] = 0 => queue'[k] = 0
  <2>1. PICK beingSent \in SUBSET {k \in Kinds : queue[k] > 0} :
          queue' = [k \in Kinds |-> IF k \in beingSent THEN 1 ELSE 0]
    BY DEF Cancel
  <2> QED
    BY <2>1, QueueIs
<1>4. send' \in SendJobs /\ SendFits'
  <2>1. SendFits /\ send \in SendJobs /\ coll.status # "none"
    BY <1>1, JobsAre DEF LifecycleInv, Open, Exists
  <2>2. send' = IF send.status = "pending" THEN [send EXCEPT !.status = "cancelled"] ELSE send
    BY DEF Cancel
  <2>3. /\ send' \in SendJobs /\ send'.pc = send.pc /\ send'.first = send.first
        /\ send'.missing = send.missing /\ send'.due = send.due
        /\ send'.status = IF send.status = "pending" THEN "cancelled" ELSE send.status
    BY <2>1, <2>2 DEF SendJobs
  <2>4. send.status = "pending" => send.pc = "idle"
    BY <2>1 DEF SendFits
  <2> QED
    BY <1>2, <2>1, <2>3, <2>4 DEF SendFits, Sending, Active
<1>5. /\ reminder' \in [RuleKeys -> ReminderJobs]
      /\ \A i \in RuleKeys : \/ reminder'[i] = reminder[i]
                             \/ /\ reminder[i].status = "pending"
                                /\ reminder'[i].status = "cancelled" /\ reminder'[i].pc = "idle"
  <2>1. [NoReminder EXCEPT !.status = "cancelled"] = [status |-> "cancelled", at |-> 0, pc |-> "idle"]
    BY DEF NoReminder
  <2>2. [status |-> "cancelled", at |-> 0, pc |-> "idle"] \in ReminderJobs
    BY DEF ReminderJobs
  <2>3. reminder' = [i \in RuleKeys |-> IF reminder[i].status = "pending"
                                        THEN [status |-> "cancelled", at |-> 0, pc |-> "idle"]
                                        ELSE reminder[i]]
    BY <2>1 DEF Cancel
  <2> QED
    BY <2>2, <2>3, JobsAre
<1>6. ReminderFits' /\ \A i \in RuleKeys : Used(i)' = Used(i)
  <2>1. ReminderFits
    BY DEF LifecycleInv
  <2>2. ReminderFits'
    BY <1>2, <1>5, <2>1 DEF ReminderFits, Active
  <2>3. \A i \in RuleKeys : Used(i)' = Used(i)
    BY <1>5, <2>1 DEF ReminderFits, Used
  <2> QED
    BY <2>2, <2>3
<1>7. ~Undisturbed'
  BY <1>2 DEF Undisturbed
<1> QED
  BY <1>1, <1>2, <1>3, <1>4, <1>5, <1>6, <1>7, StatusStep

\* The collection is deleted, with its jobs.
LEMMA DeleteKeeps ==
  ASSUME LifecycleInv, Delete
  PROVE  LifecycleInv'
<1>1. /\ coll.status \in {"draft", "scheduled"} /\ made = 0
      /\ coll' = [coll EXCEPT !.status = "deleted"] /\ reminder' = [i \in RuleKeys |-> NoReminder]
      /\ UNCHANGED <<clock, rounds, reruns, member, queue, draft, asked, account, sent, history, made>>
  BY DEF Delete, CanDelete, bounds
<1>2. coll' \in Colls /\ coll'.status = "deleted" /\ coll'.send = coll.send
  BY <1>1, JobsAre DEF Colls
<1>3. send' \in SendJobs /\ SendFits'
  <2> DEFINE s == IF send.status = "none" THEN "none" ELSE "gone"
  <2>1. SendFits /\ send \in SendJobs
    BY JobsAre DEF LifecycleInv
  <2>2. send' = [send EXCEPT !.status = s]
    BY <2>1 DEF Delete
  <2>3. s \in {"none", "gone"} /\ (send.status # "none" => s = "gone")
    OBVIOUS
  <2> HIDE DEF s
  <2>4. send' \in SendJobs /\ send'.pc = send.pc /\ send'.status = s
    BY <2>1, <2>2, <2>3 DEF SendJobs
  <2>5. send.pc \notin Sending \cup {"end"}
    BY <1>1, <2>1 DEF SendFits, Active
  <2> QED
    BY <1>2, <2>1, <2>3, <2>4, <2>5 DEF SendFits, Sending
<1>4. \A i \in RuleKeys : reminder[i].status = "none" /\ reminder[i].pc = "idle"
  BY <1>1, JobsAre DEF LifecycleInv, ReminderFits, Active, ReminderJobs
<1>5. reminder' \in [RuleKeys -> ReminderJobs] /\ \A i \in RuleKeys : reminder'[i].status = "none" /\ reminder'[i].pc = "idle"
  BY <1>1 DEF NoReminder, ReminderJobs
<1>6. ReminderFits' /\ (\A i \in RuleKeys : Used(i)' = Used(i)) /\ ~Undisturbed'
  BY <1>2, <1>4, <1>5 DEF ReminderFits, Used, Undisturbed
<1> QED
  BY <1>1, <1>2, <1>3, <1>5, <1>6, QueueIs, StatusStep

-----------------------------------------------------------------------------
(* Steps of the reminder jobs *)

\* A reminder job moves on, once its time has come.
LEMMA ReminderStepKeeps ==
  ASSUME LifecycleInv, NEW i \in RuleKeys, NEW x \in ReminderJobs, reminder' = [reminder EXCEPT ![i] = x],
         UNCHANGED <<clock, coll, send, member, draft, asked, account, sent, history>>,
         reminder[i].status \notin {"none", "cancelled"}, reminder[i].status = "pending" => reminder[i].at <= clock,
         x.status \notin {"none", "cancelled"}, x.pc # "idle" => x.status = "running",
         x.status = "pending" => x.at <= clock,
         rounds' \in [RuleKeys -> Nat], reruns' \in [RuleKeys -> Nat],
         \A j \in RuleKeys \ {i} : rounds'[j] = rounds[j] /\ reruns'[j] = reruns[j],
         rounds'[i] <= reruns'[i] + (IF x.status = "done" \/ x.pc = "end" THEN 1 ELSE 0),
         queue' \in [Kinds -> Nat], made' \in Nat, made' = 0 => made = 0 /\ queue' = queue
  PROVE  LifecycleInv'
<1>1. /\ reminder' \in [RuleKeys -> ReminderJobs] /\ reminder'[i] = x
      /\ \A j \in RuleKeys \ {i} : reminder'[j] = reminder[j]
  BY JobsAre
<1>2. Shapes'
  BY <1>1 DEF LifecycleInv, Shapes, JobShapes, RoundShapes, MessageShapes
<1>3. coll.status \in Active
  BY DEF LifecycleInv, ReminderFits
<1>4. SendFits'
  BY DEF LifecycleInv, SendFits
<1>5. ReminderFits'
  <2>1. ReminderFits
    BY DEF LifecycleInv
  <2>2. ASSUME NEW j \in RuleKeys
        PROVE  /\ reminder'[j].pc # "idle" => reminder'[j].status = "running"
               /\ reminder'[j].status # "none" => coll.status \in Active
               /\ reminder'[j].status = "cancelled" => coll.status = "cancelled"
    <3>1. CASE j = i
      BY <1>1, <1>3, <3>1
    <3>2. CASE j # i
      BY <1>1, <2>1, <3>2 DEF ReminderFits
    <3> QED
      BY <3>1, <3>2
  <2> QED
    BY <2>2 DEF ReminderFits
<1>6. MessagesFit'
  <2>1. coll.status # "deleted"
    BY <1>3 DEF Active
  <2> QED
    BY <2>1, NoneMade DEF MessagesFit
<1>7. RemindersCountedOnce'
  BY DEF LifecycleInv, RemindersCountedOnce
<1>8. RoundsFit'
  <2>1. ASSUME NEW j \in RuleKeys
        PROVE  rounds'[j] <= reruns'[j] + Used(j)'
    <3>1. CASE j = i
      BY <1>1, <3>1 DEF Used
    <3>2. CASE j # i
      <4>1. rounds'[j] = rounds[j] /\ reruns'[j] = reruns[j] /\ Used(j)' = Used(j)
        BY <1>1, <3>2 DEF Used
      <4>2. rounds[j] <= reruns[j] + Used(j)
        BY DEF LifecycleInv, RoundsFit
      <4> QED
        BY <4>1, <4>2
    <3> QED
      BY <3>1, <3>2
  <2> QED
    BY <2>1 DEF RoundsFit
<1>9. PlanFits'
  <2>1. SUFFICES ASSUME Undisturbed
                 PROVE  /\ Justified' /\ Planned' /\ Ahead' = Ahead
                        /\ Window' = Window /\ Planned
    BY DEF LifecycleInv, PlanFits, Undisturbed
  <2>2. Justified /\ (Planned \/ Untouched)
    BY <2>1 DEF LifecycleInv, PlanFits
  <2>3. Planned
    BY <2>2 DEF Untouched
  <2>4. \E t \in Times(i) : t <= clock
    BY <2>2 DEF Justified
  <2>5. Ahead' = Ahead /\ (\A j : Times(j)' = Times(j)) /\ Window' = Window
    BY DEF Ahead, Times, Window
  <2>6. i \notin Ahead
    BY <2>4, AheadIsOne, JobsAre, LifecycleAssumption
  <2>7. Planned'
    BY <1>1, <2>3, <2>5, <2>6, ScheduledAre DEF Planned, Ahead
  <2>8. ASSUME NEW j \in RuleKeys, reminder'[j].status # "none"
        PROVE  \/ /\ reminder'[j].status = "pending" /\ reminder'[j].at \in Times(j) /\ reminder'[j].at > coll.send
                  /\ \A h \in RuleKeys : h < j => reminder'[j].at \notin Times(h)
               \/ /\ \E t \in Times(j) : t <= clock
                  /\ reminder'[j].status = "pending" => reminder'[j].at <= clock
    <3>1. CASE j = i
      BY <1>1, <2>4, <3>1
    <3>2. CASE j # i
      <4>1. reminder'[j] = reminder[j]
        BY <1>1, <3>2
      <4> QED
        BY <2>2, <2>8, <4>1 DEF Justified
    <3> QED
      BY <3>1, <3>2
  <2>9. Justified'
    BY <2>5, <2>8 DEF Justified
  <2> QED
    BY <2>3, <2>5, <2>7, <2>9
<1> QED
  BY <1>2, <1>4, <1>5, <1>6, <1>7, <1>8, <1>9 DEF LifecycleInv

\* The rounds of a rule.
LEMMA RoundsAre ==
  ASSUME LifecycleInv, NEW i \in RuleKeys
  PROVE  /\ rounds \in [RuleKeys -> Nat] /\ reruns \in [RuleKeys -> Nat]
         /\ rounds[i] <= reruns[i] + Used(i)
         /\ reminder[i].pc # "idle" => reminder[i].status = "running"
BY DEF LifecycleInv, Shapes, RoundShapes, RoundsFit, ReminderFits

\* A reminder job that is due starts.
LEMMA StartReminderKeeps ==
  ASSUME LifecycleInv, NEW i \in RuleKeys, StartReminder(i)
  PROVE  LifecycleInv'
<1> DEFINE x == [reminder[i] EXCEPT !.status = "running", !.pc = "begin"]
<1>1. /\ reminder[i].status = "pending" /\ reminder[i].at <= clock /\ reminder' = [reminder EXCEPT ![i] = x]
      /\ UNCHANGED <<clock, coll, send, rounds, reruns, member, queue, draft, asked, account, sent, history, made>>
  BY DEF StartReminder, bounds
<1>2. x \in ReminderJobs /\ x.status = "running" /\ x.pc = "begin"
  BY JobsAre DEF ReminderJobs
<1> HIDE DEF x
<1>3. reminder[i].pc = "idle"
  BY <1>1, RoundsAre
<1>4. rounds[i] <= reruns[i] + (IF x.status = "done" \/ x.pc = "end" THEN 1 ELSE 0)
  BY <1>1, <1>2, <1>3, RoundsAre DEF Used
<1> QED
  BY <1>1, <1>2, <1>4, RoundsAre, QueueIs, ReminderStepKeeps

\* A reminder job queues its round.
LEMMA QueueReminderKeeps ==
  ASSUME LifecycleInv, NEW i \in RuleKeys, QueueReminder(i)
  PROVE  LifecycleInv'
<1>1. /\ reminder[i].pc = "begin"
      /\ UNCHANGED <<clock, coll, send, reruns, member, draft, asked, account, sent, history>>
  BY DEF QueueReminder
<1>2. reminder[i].status = "running" /\ rounds[i] <= reruns[i]
  <2>1. reminder[i].status = "running"
    BY <1>1, RoundsAre
  <2>2. Used(i) = 0
    BY <1>1, <2>1 DEF Used
  <2> QED
    BY <2>1, <2>2, RoundsAre
<1>3. CASE coll.status # "cancelled" /\ account # "ready"
  <2> DEFINE x == [NoReminder EXCEPT !.status = "failed"]
  <2>1. reminder' = [reminder EXCEPT ![i] = x] /\ UNCHANGED <<queue, made, rounds>>
    BY <1>3 DEF QueueReminder, EndReminder
  <2>2. x \in ReminderJobs /\ x.status = "failed" /\ x.pc = "idle"
    BY DEF NoReminder, ReminderJobs
  <2> HIDE DEF x
  <2>3. rounds[i] <= reruns[i] + (IF x.status = "done" \/ x.pc = "end" THEN 1 ELSE 0)
    BY <1>2, <2>2, RoundsAre
  <2> QED
    BY <1>1, <1>2, <2>1, <2>2, <2>3, RoundsAre, QueueIs, ReminderStepKeeps
<1>4. CASE ~(coll.status # "cancelled" /\ account # "ready")
  <2> DEFINE x == [reminder[i] EXCEPT !.pc = "end"]
  <2>1. /\ reminder' = [reminder EXCEPT ![i] = x] /\ QueueMessages("reminder")
        /\ rounds' = IF Queues("reminder") THEN [rounds EXCEPT ![i] = @ + 1] ELSE rounds
    BY <1>4 DEF QueueReminder
  <2>2. x \in ReminderJobs /\ x.status = "running" /\ x.pc = "end"
    BY <1>2, JobsAre DEF ReminderJobs
  <2> HIDE DEF x
  <2>3. /\ queue' \in [Kinds -> Nat] /\ made' \in Nat
        /\ made' = 0 => made = 0 /\ queue' = queue
    BY <2>1, QueueMessagesStep DEF Kinds
  <2>4. /\ rounds' \in [RuleKeys -> Nat] /\ rounds'[i] <= rounds[i] + 1
        /\ \A j \in RuleKeys \ {i} : rounds'[j] = rounds[j]
    BY <2>1, RoundsAre
  <2>5. rounds'[i] <= reruns[i] + (IF x.status = "done" \/ x.pc = "end" THEN 1 ELSE 0)
    <3>1. rounds'[i] \in Nat /\ rounds[i] \in Nat /\ reruns[i] \in Nat
      BY <2>4, RoundsAre
    <3> QED
      BY <1>2, <2>2, <2>4, <3>1
  <2> QED
    BY <1>1, <1>2, <2>1, <2>2, <2>3, <2>4, <2>5, RoundsAre, ReminderStepKeeps
<1> QED
  BY <1>3, <1>4

\* The end of a job: completed, or interrupted.
LEMMA EndReminderKeeps ==
  ASSUME LifecycleInv, NEW i \in RuleKeys, CompleteReminder(i) \/ InterruptReminder(i)
  PROVE  LifecycleInv'
<1>1. /\ reminder[i].pc # "idle" /\ reminder[i].pc \in {"begin", "end"}
      /\ UNCHANGED <<clock, coll, send, rounds, member, queue, draft, asked, account, sent, history, made>>
  <2>1. reminder[i].pc \in {"idle", "begin", "end"}
    BY JobsAre DEF ReminderJobs
  <2> QED
    BY <2>1 DEF CompleteReminder, InterruptReminder, bounds
<1>2. reminder[i].status = "running" /\ Used(i) = IF reminder[i].pc = "end" THEN 1 ELSE 0
  BY <1>1, RoundsAre DEF Used
<1>3. PICK status \in {"pending", "failed", "done"} :
        /\ EndReminder(i, status)
        /\ \/ status = "done" /\ reruns' = reruns
           \/ reruns' = IF reminder[i].pc = "end" THEN [reruns EXCEPT ![i] = @ + 1] ELSE reruns
  BY DEF CompleteReminder, InterruptReminder
<1> DEFINE x == [NoReminder EXCEPT !.status = status]
<1>4. reminder' = [reminder EXCEPT ![i] = x]
  BY <1>3 DEF EndReminder
<1>5. x \in ReminderJobs /\ x.status = status /\ x.pc = "idle" /\ x.at = 0
  BY DEF NoReminder, ReminderJobs
<1> HIDE DEF x
<1>6. /\ reruns' \in [RuleKeys -> Nat] /\ \A j \in RuleKeys \ {i} : reruns'[j] = reruns[j]
      /\ rounds[i] <= reruns'[i] + (IF x.status = "done" \/ x.pc = "end" THEN 1 ELSE 0)
  <2>1. rounds[i] \in Nat /\ reruns[i] \in Nat /\ rounds[i] <= reruns[i] + Used(i) /\ reruns \in [RuleKeys -> Nat]
    BY RoundsAre
  <2>2. CASE status = "done" /\ reruns' = reruns
    BY <1>2, <1>5, <2>1, <2>2
  <2>3. CASE reminder[i].pc = "end" /\ reruns' = [reruns EXCEPT ![i] = @ + 1]
    BY <1>2, <2>1, <2>3
  <2>4. CASE reminder[i].pc # "end" /\ reruns' = reruns
    BY <1>2, <2>1, <2>4
  <2> QED
    BY <1>3, <2>2, <2>3, <2>4
<1>7. 0 <= clock
  BY JobsAre, LifecycleAssumption
<1> QED
  BY <1>1, <1>2, <1>4, <1>5, <1>6, <1>7, RoundsAre, QueueIs, ReminderStepKeeps

-----------------------------------------------------------------------------
(* Time, the beginning, and every step *)

\* The time a rule asks for is a day.
LEMMA TimesAreDays ==
  ASSUME LifecycleInv, NEW i \in RuleKeys, NEW t \in Times(i)
  PROVE  t \in Int /\ Times(i) = {t}
<1>1. coll.send \in Nat /\ coll.due \in Nat \cup {NoDue}
  BY JobsAre DEF Colls
<1>2. Target(i, coll.send, coll.due) = {} \/ \E u \in Int : Target(i, coll.send, coll.due) = {u}
  BY ZenonT(40), <1>1, TargetIsOne
<1> QED
  BY SMTT(30), <1>2 DEF Times

\* A day passes: what lay ahead may be due, nothing new lies ahead.
LEMMA TickKeeps ==
  ASSUME LifecycleInv, Tick
  PROVE  LifecycleInv'
<1>1. /\ clock < MaxTime /\ send.pc # "inserting" /\ clock' = clock + 1
      /\ UNCHANGED <<coll, send, reminder, rounds, reruns, member, queue, draft, asked, account, sent, history, made>>
  BY DEF Tick, jobs, bounds
<1>2. clock \in Nat /\ clock' \in 0 .. MaxTime
  BY <1>1, JobsAre, LifecycleAssumption
<1>3. Shapes' /\ SendFits' /\ ReminderFits' /\ MessagesFit' /\ RoundsFit' /\ RemindersCountedOnce'
  BY <1>1, <1>2 DEF LifecycleInv, Shapes, JobShapes, RoundShapes, MessageShapes, SendFits, ReminderFits,
     MessagesFit, RoundsFit, Used, RemindersCountedOnce
<1>4. PlanFits'
  <2>1. \A i : Times(i)' = Times(i)
    BY <1>1 DEF Times
  <2>2. Ahead' \subseteq Ahead
    <3>1. SUFFICES ASSUME NEW i \in RuleKeys, NEW t \in Target(i, coll.send, coll.due), t > clock + 1
                   PROVE  t > clock
      BY <1>1 DEF Ahead, Scheduled
    <3>2. t \in Int
      BY TimesAreDays DEF Times
    <3> QED
      BY <1>2, <3>1, <3>2
  <2>3. Planned => Planned'
    BY <1>1, <2>1, <2>2 DEF Planned
  <2>4. ASSUME Justified
        PROVE  Justified'
    <3>1. SUFFICES ASSUME NEW i \in RuleKeys, reminder[i].status # "none"
                   PROVE  \/ /\ reminder[i].status = "pending" /\ reminder[i].at \in Times(i)
                             /\ reminder[i].at > coll.send
                             /\ \A h \in RuleKeys : h < i => reminder[i].at \notin Times(h)
                          \/ /\ \E t \in Times(i) : t <= clock + 1
                             /\ reminder[i].status = "pending" => reminder[i].at <= clock + 1
      BY <1>1, <2>1 DEF Justified
    <3>2. CASE \E t \in Times(i) : t <= clock
      <4>1. PICK t \in Times(i) : t <= clock
        BY <3>2
      <4>2. t \in Int
        BY <4>1, TimesAreDays
      <4>3. t <= clock + 1
        BY <1>2, <4>1, <4>2
      <4>4. reminder[i].at \in Int
        BY JobsAre DEF ReminderJobs
      <4>5. reminder[i].at <= clock => reminder[i].at <= clock + 1
        BY <1>2, <4>4
      <4> QED
        BY <2>4, <3>1, <4>1, <4>3, <4>5 DEF Justified
    <3>3. CASE ~ \E t \in Times(i) : t <= clock
      BY <2>4, <3>1, <3>3 DEF Justified
    <3> QED
      BY <3>2, <3>3
  <2>5. (Untouched' <=> Untouched) /\ (Window' <=> Window) /\ (Undisturbed' <=> Undisturbed)
    BY <1>1 DEF Untouched, Window, Undisturbed
  <2> QED
    BY <1>1, <2>3, <2>4, <2>5 DEF LifecycleInv, PlanFits
<1> QED
  BY <1>3, <1>4 DEF LifecycleInv

\* Before anything is created.
LEMMA LifecycleStarts ==
  ASSUME LInit
  PROVE  LifecycleInv
<1> USE DEF LInit
<1>1. coll \in Colls /\ coll.status = "none" /\ clock \in 0 .. MaxTime
  BY LifecycleAssumption DEF Colls
<1>2. send = NoJob /\ send \in SendJobs /\ send.pc = "idle" /\ send.status = "none"
  BY DEF NoJob, SendJobs
<1>3. reminder \in [RuleKeys -> ReminderJobs] /\ \A i \in RuleKeys : reminder[i].status = "none" /\ reminder[i].pc = "idle"
  BY DEF NoReminder, ReminderJobs
<1>4. member \in Members /\ member.reached = FALSE /\ member.reminders = 0
  <2>1. PICK r \in {"internal", "external"} : member = [route |-> r, open |-> TRUE, reached |-> FALSE, reminders |-> 0]
    <3>1. ASSUME NEW m \in [route : {"internal", "external"}, open : {TRUE}, reached : {FALSE}, reminders : {0}]
          PROVE  \E r \in {"internal", "external"} : m = [route |-> r, open |-> TRUE, reached |-> FALSE, reminders |-> 0]
      OBVIOUS
    <3> QED
      BY <3>1
  <2> QED
    BY <2>1 DEF Members
<1>5. draft \in Seq(Drafts) /\ draft = <<>>
  OBVIOUS
<1>6. MessageShapes /\ RoundShapes
  BY <1>4, <1>5 DEF MessageShapes, RoundShapes
<1>7. Shapes
  BY <1>1, <1>2, <1>3, <1>6 DEF Shapes, JobShapes
<1>8. SendFits
  BY <1>1, <1>2 DEF SendFits, Sending
<1>9. ReminderFits /\ RoundsFit
  BY <1>3 DEF ReminderFits, RoundsFit, Used
<1>10. MessagesFit /\ PlanFits /\ RemindersCountedOnce
  BY <1>1, <1>4 DEF MessagesFit, PlanFits, Undisturbed, RemindersCountedOnce
<1> QED
  BY <1>7, <1>8, <1>9, <1>10 DEF LifecycleInv

\* A step that changes nothing.
LEMMA StandstillKeeps ==
  ASSUME LifecycleInv, UNCHANGED lvars
  PROVE  LifecycleInv'
<1>1. UNCHANGED <<clock, coll, send, reminder, rounds, reruns, member, queue, draft, asked, account, sent, history, made>>
  BY DEF lvars, jobs, bounds
<1>2. MessageShapes' /\ RemindersCountedOnce'
  BY <1>1 DEF LifecycleInv, Shapes, MessageShapes, RemindersCountedOnce
<1> QED
  BY <1>1, <1>2, NoneMade, MessagesAre, MessageStep

-----------------------------------------------------------------------------
(* What holds always *)

\* Whatever is done to a collection, in any order and however often its jobs are
\* interrupted, its jobs, its reminders, its messages and its plan fit together.
THEOREM LifecycleInvariant == LSpec => []LifecycleInv
<1>1. LInit => LifecycleInv
  BY LifecycleStarts
<1>2. LifecycleInv /\ [LNext]_lvars => LifecycleInv'
  <2>1. SUFFICES ASSUME LifecycleInv, LNext \/ UNCHANGED lvars
                 PROVE  LifecycleInv'
    OBVIOUS
  <2>2. ASSUME NEW at \in SendTimes \cup {clock}, NEW due \in DueTimes \cup {NoDue}, Create(at, due)
        PROVE  LifecycleInv'
    BY <2>1, <2>2, CreateKeeps
  <2>3. ASSUME NEW due \in DueTimes, MoveDueDate(due)
        PROVE  LifecycleInv'
    BY <2>1, <2>3, MoveDueDateKeeps
  <2>4. ASSUME NEW k \in Kinds, Dispatch(k) \/ Deliver(k) \/ AskInternal(k) \/ CreateDraft(k)
        PROVE  LifecycleInv'
    BY <2>1, <2>4, DispatchKeeps, DeliverKeeps, ByHandKeeps
  <2>5. ASSUME NEW d \in DOMAIN draft, MarkOpened(d) \/ \E r \in Results : ConfirmResult(d, r)
        PROVE  LifecycleInv'
    BY <2>1, <2>5, DraftKeeps
  <2>6. CASE InsertInternal \/ Cancel \/ Delete \/ SetPayment \/ ChangeSettings
    BY <2>1, <2>6, ByHandKeeps, CancelKeeps, DeleteKeeps, SettingsKeep
  <2>7. CASE SendStep
    BY <2>1, <2>7, StartSendKeeps, ActivateKeeps, QueueInitialKeeps, ReadRemindersKeeps, InsertRemindersKeeps,
       CompleteSendKeeps DEF SendStep
  <2>8. CASE InterruptSend
    BY <2>1, <2>8, InterruptSendKeeps
  <2>9. ASSUME NEW i \in RuleKeys, ReminderStep(i) \/ InterruptReminder(i)
        PROVE  LifecycleInv'
    BY <2>1, <2>9, StartReminderKeeps, QueueReminderKeeps, EndReminderKeeps DEF ReminderStep
  <2>10. CASE Tick
    BY <2>1, <2>10, TickKeeps
  <2>11. CASE UNCHANGED lvars
    BY <2>1, <2>11, StandstillKeeps
  <2> QED
    BY <2>1, <2>2, <2>3, <2>4, <2>5, <2>6, <2>7, <2>8, <2>9, <2>10, <2>11 DEF LNext
<1> QED
  BY <1>1, <1>2, PTL DEF LSpec

\* The statuses, jobs and counters keep the shapes of the code.
THEOREM LifecycleTypeCorrect == LSpec => []LTypeOK
<1>1. LifecycleInv => LTypeOK
  <2>1. SUFFICES ASSUME LifecycleInv
                 PROVE  LTypeOK
    OBVIOUS
  <2>2. send.status \in {"none", "pending", "running", "done", "failed", "cancelled", "gone"} /\ send.missing \subseteq RuleKeys
    BY <2>1, JobsAre DEF SendJobs
  <2>3. \A i \in RuleKeys :
          /\ reminder[i].status \in {"none", "pending", "running", "done", "failed", "cancelled"}
          /\ reminder[i].pc # "idle" => reminder[i].status = "running"
    BY <2>1, JobsAre DEF ReminderJobs, LifecycleInv, ReminderFits
  <2>4. coll.status = "scheduled" => send.status # "none"
    BY <2>1 DEF LifecycleInv, SendFits
  <2>5. \A k \in Kinds : queue[k] \in Nat
    BY <2>1, QueueIs
  <2> QED
    BY <2>1, <2>2, <2>3, <2>4, <2>5, JobsAre, MessagesAre DEF LTypeOK, Colls
<1> QED
  BY <1>1, LifecycleInvariant, PTL

\* No rule reminds twice, however often dispatches and repeated jobs schedule its
\* reminder again: a round more than one is one more interrupted job that had queued.
THEOREM RulesRemindOnce == LSpec => []OneRoundPerRule
<1>1. LifecycleInv => OneRoundPerRule
  <2>1. SUFFICES ASSUME LifecycleInv, NEW i \in RuleKeys
                 PROVE  rounds[i] <= 1 + reruns[i]
    BY DEF OneRoundPerRule
  <2>2. rounds[i] \in Nat /\ reruns[i] \in Nat /\ rounds[i] <= reruns[i] + Used(i) /\ Used(i) \in {0, 1}
    BY <2>1, RoundsAre DEF Used
  <2> QED
    BY <2>2
<1> QED
  BY <1>1, LifecycleInvariant, PTL

\* Only what never went out is deleted, while its jobs may be running.
THEOREM DeletionIsClean == LSpec => []DeletedNeverStarted
<1>1. LifecycleInv => DeletedNeverStarted
  BY DEF LifecycleInv, SendFits, ReminderFits, MessagesFit, Active, DeletedNeverStarted
<1> QED
  BY <1>1, LifecycleInvariant, PTL

\* The worker and the person sending by hand count the same reminders.
THEOREM CountsAgree == LSpec => []RemindersCountedOnce
<1>1. LifecycleInv => RemindersCountedOnce
  BY DEF LifecycleInv
<1> QED
  BY <1>1, LifecycleInvariant, PTL

\* Of an active collection, every time ahead that some rule asks for has one reminder,
\* and no other time has any, whoever activated it and whoever came between.
THEOREM PlanIsComplete == LSpec => []RemindersPlanned
<1>1. LifecycleInv => RemindersPlanned
  <2>1. SUFFICES ASSUME LifecycleInv, Undisturbed, ~Window, NEW t \in (clock + 1) .. (MaxTime + 1),
                        NEW asking, asking = {i \in RuleKeys : t > coll.send /\ t \in Times(i)},
                        NEW waiting, waiting = {i \in RuleKeys : reminder[i].status = "pending" /\ reminder[i].at = t}
                 PROVE  Cardinality(waiting) = IF asking = {} THEN 0 ELSE 1
    BY DEF RemindersPlanned, Undisturbed, Window, Sending, Times
  <2>2. Justified /\ Planned
    BY <2>1 DEF LifecycleInv, PlanFits
  <2>3. t \in Nat /\ t > clock /\ clock \in Nat
    BY <2>1, JobsAre, LifecycleAssumption
  <2>4. ASSUME NEW i \in waiting
        PROVE  i \in asking /\ \A h \in RuleKeys : h < i => t \notin Times(h)
    <3>1. i \in RuleKeys /\ reminder[i].status = "pending" /\ reminder[i].at = t
      BY <2>1
    <3>2. ~(reminder[i].at <= clock)
      BY <2>3, <3>1
    <3>3. t \in Times(i) /\ t > coll.send /\ \A h \in RuleKeys : h < i => t \notin Times(h)
      BY <2>2, <3>1, <3>2 DEF Justified
    <3> QED
      BY <2>1, <3>1, <3>3
  <2>5. CASE asking = {}
    BY <2>4, <2>5, FS_EmptySet
  <2>6. CASE asking # {}
    <3>1. asking \subseteq Nat
      BY <2>1, RuleShape
    <3>2. PICK i \in asking : \A j \in asking : i <= j
      BY <2>6, <3>1, LeastExists
    <3>3. i \in RuleKeys /\ t \in Times(i) /\ t > coll.send
      BY <2>1
    <3>4. \A h \in RuleKeys : h < i => t \notin Times(h)
      <4>1. SUFFICES ASSUME NEW h \in RuleKeys, h < i, t \in Times(h)
                     PROVE  FALSE
        OBVIOUS
      <4>2. h \in asking
        BY <2>1, <3>3, <4>1
      <4> QED
        BY <3>1, <3>2, <4>1, <4>2
    <3>5. i \in Ahead
      BY <2>3, <3>3, <3>4 DEF Ahead, Scheduled, Times
    <3>6. reminder[i].status = "pending" /\ reminder[i].at \in Times(i)
      BY <2>2, <3>5 DEF Planned
    <3>7. reminder[i].at = t
      BY <2>1, <3>3, <3>6, TimesAreDays
    <3>8. i \in waiting
      BY <2>1, <3>3, <3>6, <3>7
    <3>9. ASSUME NEW j \in waiting
          PROVE  j = i
      <4>1. j \in asking /\ ~(i < j)
        BY <2>4, <3>3, <3>9
      <4> QED
        BY <3>1, <3>2, <4>1
    <3>10. waiting = {i}
      BY <3>8, <3>9
    <3> QED
      BY <2>6, <3>10, FS_Singleton
  <2> QED
    BY <2>5, <2>6
<1> QED
  BY <1>1, LifecycleInvariant, PTL

-----------------------------------------------------------------------------
(* One list of participants: the inductive invariant *)

Contacts == Emails \cup Phones
Knowledges ==
  [availability : {"none", "unknown", "available", "unavailable"}, about : Phones \cup {None}, late : BOOLEAN]

\* The participants p, of whom the first n were added, and what is known about them, k.
PeopleFit(p, n, k) ==
  /\ p \in [Ids -> Values \cup {Absent}] /\ n \in 0 .. MaxPeople /\ k \in [Ids -> Knowledges]
  /\ \A i \in Ids : i > n => p[i] = Absent
  /\ \A i \in Ids : k[i] # NothingKnown => p[i] # Absent
  /\ \A i \in Ids : k[i].availability \in {"available", "unavailable"} /\ ~k[i].late => k[i].about = p[i].phone

ListInv ==
  /\ PeopleFit(person, added, known)
  /\ used \subseteq People(person) /\ byHand \subseteq Contacts
  /\ messages \subseteq [to : used, phone : Phones]
  /\ ImportsShareNoContact

\* What an import has done so far.
Imports ==
  [person : [Ids -> Values \cup {Absent}], known : [Ids -> Knowledges], added : 0 .. MaxPeople, refused : BOOLEAN,
   holder : [Contacts \cup {None} -> 0 .. MaxPeople]]

\* An import on its way: of a contact nobody shared before, it finds the one who has it.
ImportFits(d) ==
  /\ d \in Imports /\ PeopleFit(d.person, d.added, d.known) /\ People(person) \subseteq People(d.person)
  /\ d.holder[None] = 0
  /\ \A c \in Contacts : d.holder[c] <= d.added
  /\ \A c \in Contacts \ byHand : Holders(d.person, c) \subseteq {d.holder[c]}

-----------------------------------------------------------------------------
(* The operators of the list and of an import *)

\* The recursive function of an import is what it says: the first row is imported into the
\* list as it is, each other into what the rows before it have done. It exists for every
\* number of rows, as there is no least number it does not exist for.
LEMMA RowByRow ==
  ASSUME NEW size \in Nat, NEW rows \in [1 .. size -> Values]
  PROVE  /\ Len(rows) = size /\ Imported(rows)[0] = Started
         /\ \A n \in 1 .. size : Imported(rows)[n] = ImportRow(Imported(rows)[n - 1], rows[n])
<1> DEFINE Runs(g, k) == g = [n \in 0 .. k |-> IF n = 0 THEN Started ELSE ImportRow(g[n - 1], rows[n])]
           Stuck == {k \in Nat : ~\E g : Runs(g, k)}
<1>1. Stuck = {}
  <2>1. SUFFICES ASSUME Stuck # {}
                 PROVE  FALSE
    OBVIOUS
  <2>2. PICK k \in Stuck : \A m \in Stuck : k <= m
    <3>1. Stuck \subseteq Nat
      OBVIOUS
    <3> HIDE DEF Stuck
    <3> QED
      BY <2>1, <3>1, LeastExists
  <2>3. k \in Nat /\ \A g : ~Runs(g, k)
    BY <2>2
  <2>4. CASE k = 0
    <3>1. Runs([n \in 0 .. 0 |-> Started], k)
      BY <2>4
    <3> QED
      BY <2>3, <3>1
  <2>5. CASE k # 0
    <3>1. k - 1 \in Nat /\ k - 1 \notin Stuck
      <4> HIDE DEF Stuck
      <4> QED
        BY <2>2, <2>3, <2>5
    <3>2. PICK g : Runs(g, k - 1)
      BY <3>1
    <3> DEFINE h == [n \in 0 .. k |-> IF n = k THEN ImportRow(g[k - 1], rows[k]) ELSE g[n]]
    <3>3. ASSUME NEW n \in 0 .. k
          PROVE  h[n] = IF n = 0 THEN Started ELSE ImportRow(h[n - 1], rows[n])
      <4>1. CASE n = k
        <5>1. h[n - 1] = g[n - 1]
          BY <2>5, <3>1, <4>1
        <5> QED
          BY <2>5, <4>1, <5>1
      <4>2. CASE n # k
        <5>1. n \in 0 .. k - 1 /\ (n # 0 => n - 1 \in 0 .. k)
          BY <2>3, <4>2
        <5>2. g[n] = IF n = 0 THEN Started ELSE ImportRow(g[n - 1], rows[n])
          BY <3>2, <5>1
        <5>3. h[n] = g[n] /\ (n # 0 => h[n - 1] = g[n - 1])
          BY <2>3, <4>2, <5>1
        <5> QED
          BY <5>2, <5>3
      <4> QED
        BY <4>1, <4>2
    <3>4. Runs(h, k)
      BY <3>3
    <3> QED
      BY <2>3, <3>4
  <2> QED
    BY <2>4, <2>5
<1>2. Len(rows) = size
  OBVIOUS
<1>3. PICK g : Runs(g, size)
  BY <1>1
<1>4. Imported(rows) = CHOOSE done : done = [n \in 0 .. Len(rows) |-> IF n = 0 THEN Started ELSE ImportRow(done[n - 1], rows[n])]
  BY DEF Imported
<1>5. Runs(Imported(rows), size)
  BY <1>2, <1>3, <1>4
<1> HIDE DEF Stuck
<1>6. ASSUME NEW n \in 1 .. size
      PROVE  Imported(rows)[n] = ImportRow(Imported(rows)[n - 1], rows[n])
  BY <1>5
<1> QED
  BY <1>2, <1>5, <1>6

\* Nobody has no contact in common with somebody; the people of a list are finite.
LEMMA PeopleAre ==
  /\ Absent \notin Values /\ Absent.email = None /\ Absent.phone = None /\ NothingKnown \in Knowledges
  /\ NothingKnown.availability = "none" /\ None \notin Contacts
  /\ IsFiniteSet(Ids) /\ Ids \subseteq Nat /\ 0 \notin Ids
<1>1. Absent \notin Values /\ Absent.email = None /\ Absent.phone = None /\ None \notin Contacts
  BY ListAssumption DEF Absent, Values, Contacts
<1>2. NothingKnown \in Knowledges /\ NothingKnown.availability = "none"
  BY DEF NothingKnown, Knowledges
<1>3. IsFiniteSet(Ids)
  BY ListAssumption, FS_Interval DEF Ids
<1> QED
  BY <1>1, <1>2, <1>3, ListAssumption DEF Ids

\* Whether a contact is shared.
LEMMA SharedIs ==
  ASSUME NEW p, NEW c
  PROVE  /\ (\E h : Holders(p, c) \subseteq {h}) => ~(Cardinality(Holders(p, c)) > 1)
         /\ ~(Cardinality(Holders(p, c)) > 1) =>
              \A i, j \in Holders(p, c) : i = j
<1>1. Holders(p, c) \subseteq Ids
  BY DEF Holders, People
<1>2. IsFiniteSet(Holders(p, c))
  BY <1>1, PeopleAre, FS_Subset
<1>3. Cardinality(Holders(p, c)) \in Nat
  BY <1>2, FS_CardinalityType
<1>4. ASSUME NEW h, Holders(p, c) \subseteq {h}
      PROVE  ~(Cardinality(Holders(p, c)) > 1)
  <2>1. IsFiniteSet({h}) /\ Cardinality({h}) = 1
    BY FS_Singleton
  <2>2. Cardinality(Holders(p, c)) <= 1
    BY <1>4, <2>1, FS_Subset
  <2> QED
    BY <1>3, <2>2
<1>5. ASSUME ~(Cardinality(Holders(p, c)) > 1), NEW i \in Holders(p, c), NEW j \in Holders(p, c), i # j
      PROVE  FALSE
  <2>1. IsFiniteSet({i}) /\ Cardinality({i}) = 1
    BY FS_Singleton
  <2>2. Cardinality({i} \cup {j}) = 2
    BY <1>5, <2>1, FS_AddElement
  <2>3. {i} \cup {j} \subseteq Holders(p, c)
    BY <1>5
  <2>4. Cardinality({i} \cup {j}) <= Cardinality(Holders(p, c))
    BY <1>2, <2>3, FS_Subset
  <2> QED
    BY <1>3, <1>5, <2>2, <2>4
<1> QED
  BY <1>4, <1>5

\* What is known of a changed participant is about the number he has now.
LEMMA KnowledgeFits ==
  ASSUME NEW k \in Knowledges, NEW old \in Values \cup {Absent}, NEW v \in Values,
         k.availability \in {"available", "unavailable"} /\ ~k.late => k.about = old.phone
  PROVE  /\ Knowledge(k, old, v) \in Knowledges
         /\ Knowledge(k, old, v).availability \in {"available", "unavailable"} /\ ~Knowledge(k, old, v).late =>
              Knowledge(k, old, v).about = v.phone
<1>1. CASE old.phone = v.phone \/ k.availability = "none"
  BY <1>1 DEF Knowledge
<1>2. CASE ~(old.phone = v.phone \/ k.availability = "none")
  <2>1. Knowledge(k, old, v) = [NothingKnown EXCEPT !.availability = "unknown"]
    BY <1>2 DEF Knowledge
  <2> QED
    BY <2>1 DEF NothingKnown, Knowledges
<1> QED
  BY <1>1, <1>2

\* One participant is changed, or added as the next.
LEMMA ChangeFits ==
  ASSUME NEW p, NEW n, NEW k, PeopleFit(p, n, k), NEW i \in Ids, NEW v \in Values, NEW m \in 0 .. MaxPeople,
         i <= m, n <= m
  PROVE  PeopleFit([p EXCEPT ![i] = v], m, [k EXCEPT ![i] = Knowledge(@, p[i], v)])
<1> DEFINE q == [p EXCEPT ![i] = v]
           l == [k EXCEPT ![i] = Knowledge(@, p[i], v)]
<1>1. p \in [Ids -> Values \cup {Absent}] /\ k \in [Ids -> Knowledges] /\ n \in Nat /\ m \in Nat /\ Ids \subseteq Nat
  BY PeopleAre, ListAssumption DEF PeopleFit
<1>2. q[i] = v /\ l[i] = Knowledge(k[i], p[i], v) /\ \A j \in Ids \ {i} : q[j] = p[j] /\ l[j] = k[j]
  BY <1>1
<1>3. /\ Knowledge(k[i], p[i], v) \in Knowledges
      /\ l[i].availability \in {"available", "unavailable"} /\ ~l[i].late => l[i].about = v.phone
  <2>1. k[i] \in Knowledges /\ p[i] \in Values \cup {Absent}
    BY <1>1
  <2>2. k[i].availability \in {"available", "unavailable"} /\ ~k[i].late => k[i].about = p[i].phone
    BY DEF PeopleFit
  <2> HIDE DEF q, l
  <2> QED
    BY SMTT(30), <1>2, <2>1, <2>2, KnowledgeFits
<1>4. q \in [Ids -> Values \cup {Absent}] /\ l \in [Ids -> Knowledges]
  BY <1>1, <1>3
<1>5. v # Absent
  BY PeopleAre
<1> HIDE DEF q, l
<1>6. \A j \in Ids : j > m => q[j] = Absent
  BY <1>1, <1>2 DEF PeopleFit
<1>7. \A j \in Ids : l[j] # NothingKnown => q[j] # Absent
  BY <1>2, <1>5 DEF PeopleFit
<1>8. \A j \in Ids : l[j].availability \in {"available", "unavailable"} /\ ~l[j].late => l[j].about = q[j].phone
  BY <1>2, <1>3 DEF PeopleFit
<1>9. PeopleFit(q, m, l)
  BY <1>4, <1>6, <1>7, <1>8 DEF PeopleFit
<1> QED
  BY <1>9 DEF q, l

\* Of bounded numbers, the maximum is one of them.
LEMMA MaxIs ==
  ASSUME NEW S, S \subseteq Ids, S # {}
  PROVE  Max(S) \in S
<1> DEFINE T == {m \in Nat : \E x \in S : m = MaxPeople - x}
<1>1. T \subseteq Nat /\ T # {}
  <2>1. PICK x : x \in S
    OBVIOUS
  <2>2. x \in Nat /\ x <= MaxPeople
    BY <2>1, ListAssumption DEF Ids
  <2>3. MaxPeople - x \in T
    BY <2>1, <2>2, ListAssumption
  <2> QED
    BY <2>3
<1>2. PICK t \in T : \A m \in T : t <= m
  BY <1>1, LeastExists
<1>3. PICK x \in S : t = MaxPeople - x
  BY <1>2
<1>4. \A y \in S : x >= y
  <2>1. SUFFICES ASSUME NEW y \in S
                 PROVE  x >= y
    OBVIOUS
  <2>2. x \in Nat /\ y \in Nat /\ x <= MaxPeople /\ y <= MaxPeople /\ MaxPeople \in Nat
    BY ListAssumption DEF Ids
  <2>3. MaxPeople - y \in T
    BY <2>2
  <2>4. MaxPeople - x <= MaxPeople - y
    BY <1>2, <1>3, <2>3
  <2> QED
    BY <2>2, <2>4
<1> QED
  BY <1>4 DEF Max

-----------------------------------------------------------------------------
(* The steps of the list *)

\* At first an import finds whoever has a contact, the last one of those who share it.
LEMMA StartedFits ==
  ASSUME ListInv
  PROVE  ImportFits(Started)
<1> DEFINE holder == [c \in Emails \cup Phones \cup {None} |->
                        IF c = None \/ Holders(person, c) = {} THEN 0 ELSE Max(Holders(person, c))]
<1>1. /\ Started.person = person /\ Started.known = known /\ Started.added = added /\ Started.refused = FALSE
      /\ Started.holder = holder
  BY DEF Started
<1>2. PeopleFit(person, added, known) /\ ImportsShareNoContact
  BY DEF ListInv
<1>3. \A c : Holders(person, c) \subseteq Ids
  BY DEF Holders, People
<1>4. \A i \in People(person) : i \in Nat /\ i <= added
  <2>1. SUFFICES ASSUME NEW i \in People(person)
                 PROVE  i \in Nat /\ i <= added
    OBVIOUS
  <2>2. i \in Ids /\ person[i] # Absent
    BY DEF People
  <2>3. i \in Nat /\ added \in Nat /\ ~(i > added)
    BY <1>2, <2>2, PeopleAre, ListAssumption DEF PeopleFit
  <2> QED
    BY <2>3
<1>5. ASSUME NEW c \in Contacts \cup {None}
      PROVE  holder[c] \in 0 .. MaxPeople /\ holder[c] <= added
  <2>1. CASE holder[c] = 0
    BY <1>2, <2>1, ListAssumption DEF PeopleFit
  <2>2. CASE holder[c] # 0
    <3>1. holder[c] = Max(Holders(person, c)) /\ Holders(person, c) # {}
      BY <2>2 DEF Contacts
    <3>2. holder[c] \in Holders(person, c)
      BY <1>3, <3>1, MaxIs
    <3>3. holder[c] \in People(person)
      BY <3>2 DEF Holders
    <3>4. holder[c] \in Nat /\ holder[c] <= added
      BY <1>4, <3>3
    <3>5. added \in 0 .. MaxPeople
      BY <1>2 DEF PeopleFit
    <3> HIDE DEF holder
    <3> QED
      BY <3>4, <3>5, ListAssumption
  <2> QED
    BY <2>1, <2>2
<1>6. holder \in [Contacts \cup {None} -> 0 .. MaxPeople] /\ holder[None] = 0
  BY <1>5 DEF Contacts
<1>7. ASSUME NEW c \in Contacts \ byHand
      PROVE  Holders(person, c) \subseteq {holder[c]}
  <2>1. ~(Cardinality(Holders(person, c)) > 1)
    BY <1>2, <1>7 DEF ImportsShareNoContact, Shared, Contacts
  <2>2. CASE Holders(person, c) = {}
    BY <2>2
  <2>3. CASE Holders(person, c) # {}
    <3>1. holder[c] = Max(Holders(person, c))
      BY <2>3, PeopleAre DEF Contacts
    <3>2. holder[c] \in Holders(person, c)
      BY <1>3, <2>3, <3>1, MaxIs
    <3> QED
      BY <2>1, <3>2, SharedIs
  <2> QED
    BY <2>2, <2>3
<1> HIDE DEF holder
<1>8. Started \in Imports
  <2>1. Started = [person |-> person, known |-> known, added |-> added, refused |-> FALSE, holder |-> holder]
    BY DEF Started, holder
  <2> QED
    BY <1>2, <1>6, <2>1 DEF Imports, PeopleFit
<1> QED
  BY <1>1, <1>2, <1>5, <1>6, <1>7, <1>8 DEF ImportFits

\* A row of an import.
LEMMA RowFits ==
  ASSUME ListInv, NEW d, ImportFits(d), NEW row \in Values
  PROVE  ImportFits(ImportRow(d, row))
<1>1. d \in Imports /\ PeopleFit(d.person, d.added, d.known) /\ People(person) \subseteq People(d.person)
  BY DEF ImportFits
<1> DEFINE e == d.holder[row.email]
           f == d.holder[row.phone]
           found == IF e # 0 THEN e ELSE f
           new == d.added + 1
           i == IF found # 0 THEN found ELSE new
           v == IF found # 0 THEN Merged(d.person[found], row) ELSE row
           added_ == IF found = 0 THEN new ELSE d.added
           refused == \/ d.refused
                      \/ e # 0 /\ f # 0 /\ e # f
                      \/ found = 0 /\ (new > MaxPeople \/ ~Capacity(Cardinality(People(d.person))))
           after == [person |-> [d.person EXCEPT ![i] = v], added |-> added_,
                     known |-> [d.known EXCEPT ![i] = Knowledge(@, d.person[i], v)],
                     refused |-> FALSE, holder |-> Remember(d.holder, row, i)]
<1>2. ImportRow(d, row) = IF refused THEN Refuse(d) ELSE after
  BY DEF ImportRow
<1>3. CASE refused
  <2>1. ImportRow(d, row) = [d EXCEPT !.refused = TRUE]
    BY <1>2, <1>3 DEF Refuse
  <2> HIDE DEF refused
  <2>2. PICK x \in Imports : x = [d EXCEPT !.refused = TRUE]
    BY <1>1 DEF Imports
  <2>3. x.person = d.person /\ x.known = d.known /\ x.added = d.added /\ x.holder = d.holder
    BY <1>1, <2>2 DEF Imports
  <2>4. ImportFits(x)
    BY <2>3 DEF ImportFits
  <2> QED
    BY <2>1, <2>2, <2>4
<1>4. CASE ~refused
  <2>1. row.name \in Names /\ row.email \in Emails \cup {None} /\ row.phone \in Phones \cup {None}
    BY DEF Values
  <2>2. e \in 0 .. MaxPeople /\ f \in 0 .. MaxPeople /\ d.added \in 0 .. MaxPeople /\ e <= d.added /\ f <= d.added
    BY <1>1, <2>1, ListAssumption DEF Imports, ImportFits, Contacts
  <2>3. /\ (e # 0 /\ f # 0 => e = f) /\ (found = 0 => new <= MaxPeople)
    BY <1>4, <2>2, ListAssumption
  <2>4. i \in Ids /\ added_ \in 0 .. MaxPeople /\ i <= added_ /\ d.added <= added_ /\ found \in 0 .. MaxPeople
    BY <2>2, <2>3, ListAssumption DEF Ids
  <2>5. found # 0 => found \in Ids /\ i = found
    BY <2>4, ListAssumption DEF Ids
  <2>6. v \in Values /\ \A c \in Contacts : c \in {v.email, v.phone} =>
          c \in {row.email, row.phone} \/ (found # 0 /\ c \in {d.person[i].email, d.person[i].phone})
    <3>1. CASE found = 0
      BY <3>1
    <3>2. CASE found # 0
      <4>1. PICK old \in Values \cup {Absent} : old = d.person[found]
        BY <1>1, <2>5, <3>2 DEF PeopleFit
      <4>2. old.email \in Emails \cup {None} /\ old.phone \in Phones \cup {None}
        BY PeopleAre DEF Values
      <4>3. Merged(old, row) \in Values
        BY <2>1, <4>2 DEF Merged, Values
      <4>4. \A c : c \in {Merged(old, row).email, Merged(old, row).phone} =>
               c \in {row.email, row.phone} \/ c \in {old.email, old.phone}
        BY DEF Merged
      <4> QED
        BY <2>5, <3>2, <4>1, <4>3, <4>4
    <3> QED
      BY <3>1, <3>2
  <2> HIDE DEF i, v, added_, found, refused
  <2>7. PeopleFit([d.person EXCEPT ![i] = v], added_, [d.known EXCEPT ![i] = Knowledge(@, d.person[i], v)])
    BY <1>1, <2>2, <2>4, <2>6, ChangeFits
  <2> DEFINE q == [d.person EXCEPT ![i] = v]
             h == Remember(d.holder, row, i)
  <2>8. /\ d.holder \in [Contacts \cup {None} -> 0 .. MaxPeople] /\ d.holder[None] = 0
        /\ \A c \in Contacts : d.holder[c] <= d.added
    BY <1>1 DEF ImportFits, Imports
  <2>9. \A c \in Contacts \cup {None} : h[c] = IF c # None /\ c \in {row.email, row.phone} THEN i ELSE d.holder[c]
    BY <2>8 DEF Remember
  <2>10. h \in [Contacts \cup {None} -> 0 .. MaxPeople]
    <3>1. i \in 0 .. MaxPeople
      BY <2>4, ListAssumption DEF Ids
    <3> QED
      BY <2>8, <3>1 DEF Remember
  <2>11. q \in [Ids -> Values \cup {Absent}] /\ q[i] = v /\ \A j \in Ids \ {i} : q[j] = d.person[j]
    BY <1>1, <2>4, <2>6 DEF PeopleFit
  <2>12. People(d.person) \subseteq People(q)
    BY <2>6, <2>11, PeopleAre DEF People
  <2>13. ASSUME NEW c \in Contacts \ byHand
         PROVE  Holders(q, c) \subseteq {h[c]}
    <3>1. Holders(d.person, c) \subseteq {d.holder[c]} /\ c # None
      BY PeopleAre DEF ImportFits
    <3>2. CASE c \in {row.email, row.phone}
      <4>1. h[c] = i
        BY <2>9, <3>1, <3>2
      <4>2. d.holder[c] \in {0, i}
        BY <2>3, <3>2 DEF i, found
      <4>3. Holders(d.person, c) \subseteq {i}
        BY <3>1, <4>2, PeopleAre DEF Holders, People
      <4> QED
        BY <2>11, <4>1, <4>3 DEF Holders, People
    <3>3. CASE c \notin {row.email, row.phone}
      <4>1. h[c] = d.holder[c]
        BY <2>9, <3>3
      <4>2. ASSUME NEW j \in Holders(q, c)
            PROVE  j \in Holders(d.person, c)
        <5>1. CASE j = i
          <6>1. c \in {d.person[i].email, d.person[i].phone}
            BY <2>6, <2>11, <3>3, <4>2, <5>1 DEF Holders
          <6>2. d.person[i] # Absent
            BY <3>1, <6>1, PeopleAre
          <6> QED
            BY <2>4, <5>1, <6>1, <6>2 DEF Holders, People
        <5>2. CASE j # i
          BY <2>11, <4>2, <5>2 DEF Holders, People
        <5> QED
          BY <5>1, <5>2
      <4> QED
        BY <3>1, <4>1, <4>2
    <3> QED
      BY <3>2, <3>3
  <2>14. /\ ImportRow(d, row) = after /\ after.person = q /\ after.added = added_ /\ after.holder = h
         /\ after.known = [d.known EXCEPT ![i] = Knowledge(@, d.person[i], v)] /\ after.refused = FALSE
    BY <1>2, <1>4
  <2>15. after \in Imports
    <3>1. /\ [d.known EXCEPT ![i] = Knowledge(@, d.person[i], v)] \in [Ids -> Knowledges]
          /\ q \in [Ids -> Values \cup {Absent}] /\ added_ \in 0 .. MaxPeople
      BY <2>4, <2>7, <2>11 DEF PeopleFit
    <3> HIDE DEF q, h
    <3> QED
      BY <2>10, <3>1 DEF Imports, q, h
  <2>16. h[None] = 0 /\ \A c \in Contacts : h[c] <= added_
    BY <2>2, <2>4, <2>8, <2>9, ListAssumption DEF Ids
  <2> HIDE DEF after, q, h
  <2>17. People(person) \subseteq People(q)
    BY <1>1, <2>12
  <2>18. PeopleFit(after.person, after.added, after.known)
    BY <2>7, <2>14 DEF q
  <2>19. ImportFits(after)
    BY <2>13, <2>14, <2>15, <2>16, <2>17, <2>18 DEF ImportFits
  <2> QED
    BY <2>14, <2>19
<1> QED
  BY <1>3, <1>4

\* A whole import: the first row after which it would not fit does not exist.
LEMMA ImportedFits ==
  ASSUME ListInv, NEW size \in Nat, NEW rows \in [1 .. size -> Values]
  PROVE  ImportFits(Imported(rows)[size])
<1> DEFINE Wrong == {n \in 0 .. size : ~ImportFits(Imported(rows)[n])}
<1>1. SUFFICES ASSUME Wrong # {}
               PROVE  FALSE
  BY <1>1
<1>2. PICK n \in Wrong : \A m \in Wrong : n <= m
  <2>1. Wrong \subseteq Nat
    OBVIOUS
  <2> HIDE DEF Wrong
  <2> QED
    BY <1>1, <2>1, LeastExists
<1>3. n \in 0 .. size /\ ~ImportFits(Imported(rows)[n])
  BY <1>2
<1>4. n # 0
  BY <1>3, RowByRow, StartedFits
<1>5. n - 1 \in 0 .. size /\ n \in 1 .. size /\ ~(n <= n - 1)
  BY <1>3, <1>4
<1>6. ImportFits(Imported(rows)[n - 1])
  BY <1>2, <1>5
<1>7. Imported(rows)[n] = ImportRow(Imported(rows)[n - 1], rows[n]) /\ rows[n] \in Values
  BY <1>5, RowByRow
<1>8. ImportFits(Imported(rows)[n])
  BY <1>6, <1>7, RowFits
<1> QED
  BY <1>3, <1>8

\* An import keeps the invariant.
LEMMA ImportKeeps ==
  ASSUME ListInv, NEW size \in Nat, NEW rows \in [1 .. size -> Values], Import(rows)
  PROVE  ListInv'
<1> DEFINE d == Imported(rows)[size]
<1>1. Len(rows) = size
  BY RowByRow
<1>2. /\ person' = d.person /\ known' = d.known /\ added' = d.added
      /\ used' = used /\ messages' = messages /\ byHand' = byHand
  BY <1>1 DEF Import
<1>3. ImportFits(d)
  BY ImportedFits
<1> HIDE DEF d
<1>4. PeopleFit(person', added', known') /\ People(person) \subseteq People(person')
  BY <1>2, <1>3 DEF ImportFits
<1>5. \A c \in Contacts \ byHand : ~(Cardinality(Holders(person', c)) > 1)
  <2>1. ASSUME NEW c \in Contacts \ byHand
        PROVE  ~(Cardinality(Holders(person', c)) > 1)
    <3>1. Holders(person', c) \subseteq {d.holder[c]}
      BY <1>2, <1>3 DEF ImportFits
    <3> QED
      BY <3>1, SharedIs
  <2> QED
    BY <2>1
<1>6. Shared(person') \subseteq byHand
  BY <1>5 DEF Shared, Contacts
<1>7. PeopleFit(person, added, known)' /\ ImportsShareNoContact'
  BY <1>2, <1>4, <1>6 DEF ImportsShareNoContact, Shared, Holders, People, PeopleFit
<1> QED
  BY <1>2, <1>4, <1>7 DEF ListInv, People

\* What the treasurer saves of a participant: whoever shares a contact now is remembered.
LEMMA SavedKeeps ==
  ASSUME ListInv, NEW i \in Ids, NEW v \in Values, NEW m \in 0 .. MaxPeople, i <= m, added <= m,
         person' = [person EXCEPT ![i] = v], added' = m,
         known' = [known EXCEPT ![i] = Knowledge(@, person[i], v)],
         byHand' = byHand \cup Shared(person'), UNCHANGED <<used, messages>>
  PROVE  ListInv'
<1>1. PeopleFit(person', added', known')
  BY ChangeFits DEF ListInv
<1>2. PeopleFit(person, added, known)'
  BY <1>1 DEF PeopleFit
<1>3. People(person) \subseteq People(person')
  BY PeopleAre DEF People, ListInv, PeopleFit
<1>4. used' \subseteq People(person')
  BY <1>3 DEF ListInv
<1>5. byHand' \subseteq Contacts /\ Shared(person') \subseteq byHand'
  BY DEF ListInv, Shared, Contacts
<1>6. (used \subseteq People(person) /\ byHand \subseteq Contacts /\ ImportsShareNoContact)'
  BY <1>4, <1>5 DEF ImportsShareNoContact, Shared, Holders, People
<1>7. (messages \subseteq [to : used, phone : Phones])'
  BY DEF ListInv
<1> QED
  BY <1>2, <1>6, <1>7 DEF ListInv

\* The treasurer adds a participant.
LEMMA AddKeeps ==
  ASSUME ListInv, NEW v \in Values, Add(v)
  PROVE  ListInv'
<1>1. /\ added \in 0 .. MaxPeople /\ added < MaxPeople /\ added' = added + 1
      /\ person' = [person EXCEPT ![added'] = v] /\ known' = known
      /\ byHand' = byHand \cup Shared(person') /\ UNCHANGED <<used, messages>>
  BY DEF Add, ListInv, PeopleFit
<1> DEFINE i == added + 1
<1>2. i \in Ids /\ i \in 0 .. MaxPeople /\ added <= i /\ i > added /\ i <= i
  BY <1>1, ListAssumption DEF Ids
<1>3. person[i] = Absent /\ known[i] = NothingKnown /\ known \in [Ids -> Knowledges]
  BY <1>2 DEF ListInv, PeopleFit
<1>4. Knowledge(known[i], person[i], v) = known[i]
  BY <1>3, PeopleAre DEF Knowledge
<1>5. known' = [known EXCEPT ![i] = Knowledge(@, person[i], v)]
  BY <1>1, <1>2, <1>3, <1>4
<1>6. person' = [person EXCEPT ![i] = v] /\ added' = i
  BY <1>1
<1> HIDE DEF i
<1> QED
  BY <1>1, <1>2, <1>5, <1>6, SavedKeeps

\* The treasurer changes a participant.
LEMMA UpdateKeeps ==
  ASSUME ListInv, NEW i \in Ids, NEW v \in Values, Update(i, v)
  PROVE  ListInv'
<1>1. /\ person[i] # Absent /\ person' = [person EXCEPT ![i] = v] /\ added' = added
      /\ known' = [known EXCEPT ![i] = Knowledge(@, person[i], v)]
      /\ byHand' = byHand \cup Shared(person') /\ UNCHANGED <<used, messages>>
  BY DEF Update
<1>2. i \in Nat /\ added \in 0 .. MaxPeople /\ ~(i > added)
  BY <1>1, PeopleAre DEF ListInv, PeopleFit
<1>3. i <= added /\ added <= added
  BY <1>2, ListAssumption
<1> QED
  BY <1>1, <1>2, <1>3, SavedKeeps

\* Participants that stay as they are, and what becomes known of one of them.
LEMMA KnownKeeps ==
  ASSUME ListInv, NEW i \in Ids, NEW k \in Knowledges, person[i] # Absent,
         k.availability \in {"available", "unavailable"} /\ ~k.late => k.about = person[i].phone,
         known' = [known EXCEPT ![i] = k], UNCHANGED <<person, added, used, messages, byHand>>
  PROVE  ListInv'
<1>1. known \in [Ids -> Knowledges] /\ known'[i] = k /\ \A j \in Ids \ {i} : known'[j] = known[j]
  BY DEF ListInv, PeopleFit
<1>2. known' \in [Ids -> Knowledges]
  BY <1>1
<1>3. PeopleFit(person, added, known)'
  BY <1>1, <1>2 DEF ListInv, PeopleFit
<1>4. (used \subseteq People(person) /\ byHand \subseteq Contacts /\ ImportsShareNoContact)'
  BY DEF ListInv, ImportsShareNoContact, Shared, Holders, People
<1> QED
  BY <1>3, <1>4 DEF ListInv

\* The treasurer says what he knows.
LEMMA SetAvailabilityKeeps ==
  ASSUME ListInv, NEW i \in Ids, NEW a \in {"unknown", "available", "unavailable"}, SetAvailability(i, a)
  PROVE  ListInv'
<1> DEFINE k == [availability |-> a, about |-> person[i].phone, late |-> FALSE]
<1>1. person[i] # Absent /\ known' = [known EXCEPT ![i] = k] /\ UNCHANGED <<person, added, used, messages, byHand>>
  BY DEF SetAvailability
<1>2. person[i] \in Values
  BY <1>1 DEF ListInv, PeopleFit
<1>3. k \in Knowledges /\ k.about = person[i].phone
  BY <1>2 DEF Knowledges, Values
<1> HIDE DEF k
<1> QED
  BY <1>1, <1>3, KnownKeeps

\* A report of a message, whatever the number is by now.
LEMMA ReportKeeps ==
  ASSUME ListInv, NEW m \in messages, NEW a \in {"available", "unavailable"}, Report(m, a)
  PROVE  ListInv'
<1> DEFINE late == m.phone # person[m.to].phone
           k == [availability |-> a, about |-> m.phone, late |-> late]
<1>1. m.to \in used /\ m.phone \in Phones /\ used \subseteq People(person)
  BY DEF ListInv
<1>2. m.to \in Ids /\ person[m.to] # Absent
  BY <1>1 DEF People
<1>3. known' = [known EXCEPT ![m.to] = k] /\ UNCHANGED <<person, added, used, messages, byHand>>
  BY DEF Report
<1>4. k.availability \in {"available", "unavailable"} /\ ~k.late => k.about = person[m.to].phone
  OBVIOUS
<1>5. k \in Knowledges
  <2>1. late \in BOOLEAN
    OBVIOUS
  <2> HIDE DEF late
  <2> QED
    BY <1>1, <2>1 DEF Knowledges
<1> HIDE DEF k, late
<1> QED
  BY <1>2, <1>3, <1>4, <1>5, KnownKeeps

\* A participant of no collection is deleted.
LEMMA DeleteParticipantKeeps ==
  ASSUME ListInv, NEW i \in Ids, DeleteParticipant(i)
  PROVE  ListInv'
<1>1. /\ i \notin used /\ person' = [person EXCEPT ![i] = Absent] /\ known' = [known EXCEPT ![i] = NothingKnown]
      /\ UNCHANGED <<added, used, messages, byHand>>
  BY DEF DeleteParticipant
<1>2. /\ person \in [Ids -> Values \cup {Absent}] /\ known \in [Ids -> Knowledges]
      /\ person'[i] = Absent /\ known'[i] = NothingKnown
      /\ \A j \in Ids \ {i} : person'[j] = person[j] /\ known'[j] = known[j]
  BY <1>1 DEF ListInv, PeopleFit
<1>3. person' \in [Ids -> Values \cup {Absent}] /\ known' \in [Ids -> Knowledges]
  BY <1>1, <1>2, PeopleAre
<1>4. PeopleFit(person, added, known)'
  BY <1>1, <1>2, <1>3, PeopleAre DEF ListInv, PeopleFit
<1>5. \A c : Holders(person', c) \subseteq Holders(person, c)
  BY <1>2 DEF Holders, People
<1>6. used' \subseteq People(person') /\ byHand' \subseteq Contacts
  BY <1>1, <1>2 DEF ListInv, People
<1>7. ASSUME NEW c \in Contacts, c \notin byHand
      PROVE  ~(Cardinality(Holders(person', c)) > 1)
  <2>1. ~(Cardinality(Holders(person, c)) > 1)
    BY <1>7 DEF ListInv, ImportsShareNoContact, Shared, Contacts
  <2>2. \E h : Holders(person', c) \subseteq {h}
    BY <1>5, <2>1, SharedIs
  <2> QED
    BY <2>2, SharedIs
<1>8. Shared(person') \subseteq byHand'
  BY <1>1, <1>7 DEF Shared, Contacts
<1>9. (used \subseteq People(person) /\ byHand \subseteq Contacts /\ ImportsShareNoContact)'
  BY <1>6, <1>8 DEF ImportsShareNoContact, Shared, Holders, People
<1> QED
  BY <1>1, <1>4, <1>9 DEF ListInv

\* A message is written, or a collection is created.
LEMMA UseKeeps ==
  ASSUME ListInv, CreateCollection \/ \E i \in Ids : Send(i)
  PROVE  ListInv'
<1>1. CASE CreateCollection
  <2>1. used' = used \cup People(person) /\ UNCHANGED <<person, added, known, messages, byHand>>
    BY <1>1 DEF CreateCollection
  <2>2. PeopleFit(person, added, known)' /\ ImportsShareNoContact'
    BY <2>1 DEF ListInv, PeopleFit, ImportsShareNoContact, Shared, Holders, People
  <2>3. (used \subseteq People(person) /\ byHand \subseteq Contacts /\ messages \subseteq [to : used, phone : Phones])'
    BY <2>1 DEF ListInv, People
  <2> QED
    BY <2>2, <2>3 DEF ListInv
<1>2. CASE \E i \in Ids : Send(i)
  <2>1. PICK i \in Ids : Send(i)
    BY <1>2
  <2>2. /\ i \in used /\ person[i].phone # None /\ messages' = messages \cup {[to |-> i, phone |-> person[i].phone]}
        /\ UNCHANGED <<person, added, used, known, byHand>>
    BY <2>1 DEF Send
  <2>3. PeopleFit(person, added, known)' /\ ImportsShareNoContact'
    BY <2>2 DEF ListInv, PeopleFit, ImportsShareNoContact, Shared, Holders, People
  <2>4. person[i] \in Values
    BY <2>2 DEF ListInv, People, PeopleFit
  <2>5. person[i].phone \in Phones
    BY <2>2, <2>4 DEF Values
  <2>6. (used \subseteq People(person) /\ byHand \subseteq Contacts /\ messages \subseteq [to : used, phone : Phones])'
    BY <2>2, <2>5 DEF ListInv, People
  <2> QED
    BY <2>3, <2>6 DEF ListInv
<1> QED
  BY <1>1, <1>2

-----------------------------------------------------------------------------
(* The theorems of the list *)

\* The list and what is known keep their inductive invariant.
THEOREM ListInvariant == PSpec => []ListInv
<1>1. PInit => ListInv
  <2>1. SUFFICES ASSUME PInit
                 PROVE  ListInv
    OBVIOUS
  <2>2. person = [i \in Ids |-> Absent] /\ added = 0 /\ used = {} /\ known = [i \in Ids |-> NothingKnown]
        /\ messages = {} /\ byHand = {}
    BY <2>1 DEF PInit
  <2>3. PeopleFit(person, added, known)
    BY <2>2, PeopleAre, ListAssumption DEF PeopleFit
  <2>4. \A c : Holders(person, c) \subseteq {0}
    BY <2>2 DEF Holders, People
  <2>5. \A c : ~(Cardinality(Holders(person, c)) > 1)
    BY <2>4, SharedIs
  <2>6. ImportsShareNoContact
    BY <2>5 DEF ImportsShareNoContact, Shared
  <2> QED
    BY <2>2, <2>3, <2>6 DEF ListInv
<1>2. ListInv /\ [PNext]_pvars => ListInv'
  <2>1. SUFFICES ASSUME ListInv, [PNext]_pvars
                 PROVE  ListInv'
    OBVIOUS
  <2>2. ASSUME NEW v \in Values, Add(v)
        PROVE  ListInv'
    BY <2>1, <2>2, AddKeeps
  <2>3. ASSUME NEW v \in Values, NEW i \in Ids, Update(i, v)
        PROVE  ListInv'
    BY <2>1, <2>3, UpdateKeeps
  <2>4. ASSUME NEW i \in Ids, DeleteParticipant(i)
        PROVE  ListInv'
    BY <2>1, <2>4, DeleteParticipantKeeps
  <2>5. ASSUME NEW i \in Ids, NEW a \in {"unknown", "available", "unavailable"}, SetAvailability(i, a)
        PROVE  ListInv'
    BY <2>1, <2>5, SetAvailabilityKeeps
  <2>6. CASE CreateCollection \/ \E i \in Ids : Send(i)
    BY <2>1, <2>6, UseKeeps
  <2>7. ASSUME NEW size \in 0 .. ImportSize, NEW rows \in [1 .. size -> Values], Import(rows)
        PROVE  ListInv'
    <3>1. size \in Nat
      BY ListAssumption
    <3> QED
      BY <2>1, <2>7, <3>1, ImportKeeps
  <2>8. ASSUME NEW m \in messages, NEW a \in {"available", "unavailable"}, Report(m, a)
        PROVE  ListInv'
    BY <2>1, <2>8, ReportKeeps
  <2>9. CASE ChangePlan \/ UNCHANGED pvars
    <3>1. UNCHANGED <<person, added, used, known, messages, byHand>>
      BY <2>9 DEF ChangePlan, pvars
    <3> QED
      BY <2>1, <3>1 DEF ListInv, PeopleFit, ImportsShareNoContact, Shared, Holders, People
  <2> QED
    BY <2>1, <2>2, <2>3, <2>4, <2>5, <2>6, <2>7, <2>8, <2>9 DEF PNext
<1> QED
  BY <1>1, <1>2, PTL DEF PSpec

\* Shapes; a participant of a collection is there, and a message has a recipient who is.
THEOREM ListTypeCorrect == PSpec => []PTypeOK
<1>1. ListInv => PTypeOK
  BY DEF ListInv, PeopleFit, PTypeOK, Contacts
<1> QED
  BY <1>1, ListInvariant, PTL

\* No import gives one email or number to two participants, whatever the order of its rows.
THEOREM ImportsAreClean == PSpec => []ImportsShareNoContact
<1>1. ListInv => ImportsShareNoContact
  BY DEF ListInv
<1> QED
  BY <1>1, ListInvariant, PTL

\* What is known is about the number of the moment, but for what a late report says.
THEOREM KnowledgeIsOfTheNumber == PSpec => []KnowledgeFollowsNumber
<1>1. ListInv => KnowledgeFollowsNumber
  BY DEF ListInv, PeopleFit, KnowledgeFollowsNumber
<1> QED
  BY <1>1, ListInvariant, PTL
=============================================================================
