------------------------------ MODULE InboxSync ------------------------------
(***************************************************************************)
(* Replies.  By email: the worker reads the platform's own mailbox and the     *)
(* organization's IMAP or Microsoft 365 mailbox again and again and stores      *)
(* what answers one of their messages (worker.py, services/communications.py,  *)
(* services/microsoft365.py), while the customer changes the email setting      *)
(* (api/routes/communication_settings.py).  By phone: Infobip calls the         *)
(* webhook, and calls again when it had no answer (api/routes/webhooks.py).     *)
(*                                                                         *)
(* A job reads a mailbox with a copy of the setting, stores each reply in a     *)
(* transaction of its own and writes the cursor last, into whatever setting    *)
(* there is by then.  Two jobs overlap when a slow one is recovered.           *)
(***************************************************************************)
EXTENDS Integers, FiniteSets, FiniteSetsExt

CONSTANTS Replies,
          ImapBoxes,  \* mailboxes of own mail servers
          GraphBoxes, \* Microsoft 365 mailboxes
          PlatformBox, \* the mailbox behind the platform's own sender
          Infobip,    \* where replies by phone come from
          NoBox,
          Jobs,       \* overlapping sync_inbox and sync_platform_inbox jobs
          Calls,      \* overlapping calls of the webhook
          Batch,      \* messages a round takes from an IMAP mailbox (250)
          Overlap,    \* how far a Microsoft 365 round goes back, and how late Graph may show a message
          MaxRows, \* bound on Microsoft 365 connection rows
          MaxChanges, \* bound on changes of the setting
          MaxSent,    \* bound on messages sent to one phone number
          MaxFailures   \* bound on failed calls, unreadable messages and crashes

ASSUME InboxAssumption ==
  /\ ImapBoxes \cap GraphBoxes = {} /\ Cardinality({PlatformBox, Infobip, NoBox}) = 3
  /\ {PlatformBox, Infobip, NoBox} \cap (ImapBoxes \cup GraphBoxes) = {}
  /\ Batch \in Nat \ {0} /\ Overlap \in Nat
  /\ MaxSent \in Nat \ {0} /\ MaxRows \in Nat /\ MaxChanges \in Nat /\ MaxFailures \in Nat

VARIABLES setting,    \* the email setting: provider, IMAP mailbox or connection row, cursor
                      \* (its "of", not in the code: the mailbox whose UIDs it counts)
          graph,      \* the Microsoft 365 connection row (0: none) and the account it opens
          connections, \* Microsoft 365 connection rows made so far
          reply,      \* each reply: its mailbox, UID and time of receipt, whether Graph shows it
          clock,      \* time of the last receipt
          stored,     \* incoming messages stored per reply
          job,        \* what each job has read
          platform,   \* the last UID read from the platform's mailbox, kept in its heartbeat row
          unread,     \* replies the mail server did not deliver, older than the first round,
                      \* or of before the account was signed in to (not in the code)
          changes, inboxFaults,
          sent, tests, \* the newest message to the phone number; those that are test messages
          naming,     \* replies by phone that name the message they answer
          call,       \* the reply each call reports, the message it is taken to answer
          onWhatsApp  \* the participant is known to be reachable by WhatsApp

mailvars == <<setting, graph, connections, clock, job, platform, unread, changes, inboxFaults>>
phonevars == <<sent, tests, naming, call, onWhatsApp>>
ivars == <<mailvars, reply, stored, phonevars>>

NoCursor == [kind |-> "none", at |-> 0, of |-> NoBox]
Platform == [provider |-> "zahlmeister_email", box |-> NoBox, connection |-> 0, cursor |-> NoCursor]
NotReceived == [box |-> NoBox, uid |-> 0, time |-> 0, shown |-> FALSE]
NoCall == [pc |-> "idle", reply |-> NoBox, parent |-> 0, duplicate |-> FALSE]
IdleJob == [pc |-> "idle", copy |-> Platform, batch |-> {}, newest |-> 0]

IInit ==
  /\ setting = Platform
  /\ graph = [id |-> 0, box |-> NoBox] /\ connections = 0
  /\ reply = [r \in Replies |-> NotReceived]
  /\ clock = 0
  /\ stored = [r \in Replies |-> 0]
  /\ job = [j \in Jobs |-> IdleJob]
  /\ platform = 0 /\ unread = {}
  /\ changes = 0 /\ inboxFaults = 0
  /\ sent = 1 /\ tests = {} /\ naming = {}
  /\ call = [c \in Calls |-> NoCall] /\ onWhatsApp = FALSE

\* The mailbox the setting reads.
Mailbox(s) ==
  CASE s.provider = "smtp_imap" -> s.box
    [] s.provider = "microsoft365" /\ s.connection = graph.id -> graph.box
    [] s.provider = "zahlmeister_email" -> PlatformBox
    [] OTHER -> NoBox

Received(b) == {r \in Replies : reply[r].box = b}
Visible(b) == {r \in Received(b) : reply[r].shown}

At(j, pc) == job[j].pc = pc
IFault == inboxFaults < MaxFailures /\ inboxFaults' = inboxFaults + 1
SameInbox == UNCHANGED <<reply, clock, stored, platform, unread>>
SameSetting == UNCHANGED <<setting, graph, connections, changes>>

-----------------------------------------------------------------------------
(* The setting *)

Change == changes < MaxChanges /\ changes' = changes + 1

\* update_setting: another IMAP mailbox does not reset the cursor, another provider does.
UseImap(b) ==
  /\ Change
  /\ setting' = [provider |-> "smtp_imap", box |-> b, connection |-> 0,
                 cursor |-> IF setting.provider = "smtp_imap" THEN setting.cursor ELSE NoCursor]
  /\ UNCHANGED <<graph, connections, job, inboxFaults>> /\ SameInbox

UseGraph ==
  /\ Change /\ graph.id # 0 /\ setting.connection # graph.id
  /\ setting' = [provider |-> "microsoft365", box |-> NoBox, connection |-> graph.id, cursor |-> NoCursor]
  /\ UNCHANGED <<graph, connections, job, inboxFaults>> /\ SameInbox

UsePlatform ==
  /\ Change /\ setting.provider # "zahlmeister_email"
  /\ setting' = Platform
  /\ UNCHANGED <<graph, connections, job, inboxFaults>> /\ SameInbox

\* finish_microsoft365_oauth: the row opens the account that was signed in.  Of an account
\* that is signed in to after another, what it received before is not looked after.
SignInGraph(b) ==
  /\ Change
  /\ IF graph.id = 0
     THEN connections < MaxRows /\ connections' = connections + 1
     ELSE UNCHANGED connections
  /\ graph' = [id |-> connections', box |-> b]
  /\ setting' = [provider |-> "microsoft365", box |-> NoBox, connection |-> connections', cursor |-> NoCursor]
  /\ unread' = IF graph.box = b THEN unread ELSE unread \cup Received(b)
  /\ UNCHANGED <<reply, clock, stored, platform, job, inboxFaults>>

\* disconnect_connection deletes the row and resets the setting that uses it.
DisconnectGraph ==
  /\ Change /\ graph.id # 0
  /\ graph' = [id |-> 0, box |-> NoBox]
  /\ setting' = IF setting.connection = graph.id THEN Platform ELSE setting
  /\ UNCHANGED <<connections, job, inboxFaults>> /\ SameInbox

-----------------------------------------------------------------------------
(* The mailboxes *)

\* An answer arrives in the mailbox its message was sent from.  Graph may show it later,
\* but no later than Overlap.
Receive(r) == \E b \in ImapBoxes \cup GraphBoxes \cup {PlatformBox}, shown \in BOOLEAN :
  /\ reply[r] = NotReceived /\ Mailbox(setting) = b
  /\ b \notin GraphBoxes => shown
  /\ \A q \in Replies : reply[q].box # NoBox /\ ~reply[q].shown => reply[q].time + Overlap > clock
  /\ clock' = clock + 1
  /\ reply' = [reply EXCEPT ![r] = [box |-> b, uid |-> Cardinality(Received(b)) + 1, time |-> clock + 1,
                                    shown |-> shown]]
  /\ UNCHANGED <<stored, platform, unread, job, inboxFaults>> /\ SameSetting

Show(r) ==
  /\ reply[r].box # NoBox /\ ~reply[r].shown
  /\ reply' = [reply EXCEPT ![r].shown = TRUE]
  /\ UNCHANGED <<clock, stored, platform, unread, job, inboxFaults>> /\ SameSetting

-----------------------------------------------------------------------------
(* sync_inbox and sync_platform_inbox *)

Start(j) ==
  /\ At(j, "idle") /\ setting.provider # "zahlmeister_email"
  /\ job' = [job EXCEPT ![j] = [IdleJob EXCEPT !.pc = "fetch", !.copy = setting]]
  /\ UNCHANGED inboxFaults /\ SameInbox /\ SameSetting

\* The platform's mailbox is read whatever this organization's setting is.
StartPlatform(j) ==
  /\ At(j, "idle")
  /\ job' = [job EXCEPT ![j] = [IdleJob EXCEPT !.pc = "fetch", !.copy = [Platform EXCEPT !.box = PlatformBox,
                                 !.cursor = [kind |-> "uid", at |-> platform, of |-> PlatformBox]]]]
  /\ UNCHANGED inboxFaults /\ SameInbox /\ SameSetting

\* _imap_uids_to_fetch: the newest UIDs in the first round, else the next ones.
UidsToFetch(S, last) ==
  {r \in S : LET before == {q \in S : IF last = 0 THEN reply[q].uid > reply[r].uid
                                      ELSE reply[q].uid < reply[r].uid}
             IN  Cardinality(before) < Batch}

Read(j, batch, newest) ==
  job' = [job EXCEPT ![j] = [@ EXCEPT !.pc = "store", !.batch = batch, !.newest = newest]]

\* A cursor that is no UID counts as none; a message the server fails to deliver is
\* passed over.
FetchImap(j) ==
  LET copy == job[j].copy
      last == IF copy.cursor.kind = "uid" THEN copy.cursor.at ELSE 0
      new == {r \in Visible(copy.box) : reply[r].uid > last}
      found == UidsToFetch(new, last) IN
  /\ At(j, "fetch") /\ copy.provider # "microsoft365"
  /\ \E failed \in {{}} \cup {{r} : r \in found} :
       /\ failed # {} => IFault
       /\ failed = {} => UNCHANGED inboxFaults
       /\ Read(j, found \ failed, Max({last} \cup {reply[r].uid : r \in found \ failed}))
       /\ unread' = unread \cup failed \cup (IF last = 0 THEN new \ found ELSE {})
  /\ UNCHANGED <<reply, clock, stored, platform>> /\ SameSetting

\* fetch_inbox reads the account the connection opens now.  A cursor that is no time
\* stands for ten minutes ago, whenever that was: what came before is not read.
Since(copy) == IF copy.cursor.kind = "time" THEN {copy.cursor.at} ELSE 0 .. clock

ReadSince(j, since, found) ==
  /\ Read(j, found, Max({since} \cup {reply[r].time : r \in found}))
  /\ unread' = IF job[j].copy.cursor.kind = "time" THEN unread
               ELSE unread \cup {r \in Received(graph.box) : reply[r].time < since - Overlap}
  /\ UNCHANGED <<reply, clock, stored, platform, inboxFaults>> /\ SameSetting

\* (Mutant) A round starts at the cursor.
FetchWithoutOverlap(j) ==
  /\ At(j, "fetch") /\ job[j].copy.provider = "microsoft365" /\ job[j].copy.connection = graph.id
  /\ \E since \in Since(job[j].copy) : ReadSince(j, since, {r \in Visible(graph.box) : reply[r].time > since})

FetchGraph(j) ==
  /\ At(j, "fetch") /\ job[j].copy.provider = "microsoft365" /\ job[j].copy.connection = graph.id
  /\ \E since \in Since(job[j].copy) :
       ReadSince(j, since, {r \in Visible(graph.box) : reply[r].time >= since - Overlap})

\* (Mutant) No look for a duplicate.
StoreUnseen(j) == \E r \in job[j].batch :
  /\ At(j, "store")
  /\ stored' = [stored EXCEPT ![r] = @ + 1]
  /\ job' = [job EXCEPT ![j].batch = @ \ {r}]
  /\ UNCHANGED <<reply, clock, platform, unread, inboxFaults>> /\ SameSetting

\* _store_incoming_email and the platform's job lock the message that is answered and look
\* for a duplicate.
Store(j) == \E r \in job[j].batch :
  /\ At(j, "store")
  /\ \A q \in job[j].batch : reply[q].time >= reply[r].time
  /\ stored' = [stored EXCEPT ![r] = IF @ = 0 THEN 1 ELSE @]
  /\ job' = [job EXCEPT ![j].batch = @ \ {r}]
  /\ UNCHANGED <<reply, clock, platform, unread, inboxFaults>> /\ SameSetting

\* The cursor is written into the setting as it is now.
WriteCursor(j) ==
  LET copy == job[j].copy
      imap == copy.provider = "smtp_imap"
      last == IF copy.cursor.kind = "uid" THEN copy.cursor.at ELSE 0
      own == copy.cursor.kind = "uid" => copy.cursor.of = copy.box
      written == [kind |-> IF imap THEN "uid" ELSE "time", at |-> job[j].newest,
                  of |-> IF imap /\ own THEN copy.box ELSE NoBox] IN
  /\ At(j, "store") /\ job[j].batch = {} /\ copy.provider # "zahlmeister_email"
  /\ setting' = IF imap /\ job[j].newest = last THEN setting ELSE [setting EXCEPT !.cursor = written]
  /\ job' = [job EXCEPT ![j] = IdleJob]
  /\ UNCHANGED <<graph, connections, changes, inboxFaults>> /\ SameInbox

\* The platform's cursor is written whatever another job has written before.
WritePlatformCursor(j) ==
  /\ At(j, "store") /\ job[j].batch = {} /\ job[j].copy.provider = "zahlmeister_email"
  /\ platform' = job[j].newest
  /\ job' = [job EXCEPT ![j] = IdleJob]
  /\ UNCHANGED <<reply, clock, stored, unread, inboxFaults>> /\ SameSetting

\* A call fails, the connection is gone, or the process dies: the cursor stays.
Fail(j) ==
  /\ ~At(j, "idle")
  /\ IF At(j, "fetch") /\ job[j].copy.provider = "microsoft365" /\ job[j].copy.connection # graph.id
     THEN UNCHANGED inboxFaults ELSE IFault
  /\ job' = [job EXCEPT ![j] = IdleJob]
  /\ SameInbox /\ SameSetting

-----------------------------------------------------------------------------
(* Replies by phone *)

SendAnother(test) ==
  /\ sent < MaxSent /\ sent' = sent + 1
  /\ tests' = IF test THEN tests \cup {sent'} ELSE tests
  /\ UNCHANGED <<reply, stored, naming, call, onWhatsApp>>

\* A reply to the first message; it may name it.
ReceivePhone(r, names) ==
  /\ reply[r] = NotReceived
  /\ reply' = [reply EXCEPT ![r].box = Infobip, ![r].shown = TRUE]
  /\ naming' = IF names THEN naming \cup {r} ELSE naming
  /\ UNCHANGED <<stored, sent, tests, call, onWhatsApp>>

\* Infobip calls, or calls again: _find_outgoing takes the message that is named, or the
\* newest one to the sender.
Call(c, r) ==
  /\ call[c].pc = "idle" /\ reply[r].box = Infobip
  /\ call' = [call EXCEPT ![c] = [pc |-> "found", reply |-> r, duplicate |-> FALSE,
                                  parent |-> IF r \in naming THEN 1 ELSE sent]]
  /\ UNCHANGED <<reply, stored, sent, tests, naming, onWhatsApp>>

\* _store_incoming locks the message that is answered and looks for a duplicate; a reply
\* to a test message is not stored.
LookForDuplicate(c) ==
  /\ call[c].pc = "found"
  /\ \A d \in Calls : call[d].pc = "insert" => call[d].parent # call[c].parent
  /\ call' = [call EXCEPT ![c] = IF call[c].parent \in tests THEN NoCall
                                 ELSE [@ EXCEPT !.pc = "insert", !.duplicate = stored[call[c].reply] > 0]]
  /\ UNCHANGED <<reply, stored, sent, tests, naming, onWhatsApp>>

\* A reply by WhatsApp shows that the participant has it.
Insert(c) ==
  /\ call[c].pc = "insert"
  /\ stored' = [stored EXCEPT ![call[c].reply] = IF call[c].duplicate THEN @ ELSE @ + 1]
  /\ onWhatsApp' = (onWhatsApp \/ ~call[c].duplicate)
  /\ call' = [call EXCEPT ![c] = NoCall]
  /\ UNCHANGED <<reply, sent, tests, naming>>

\* The process dies; the transaction is rolled back.
FailCall(c) ==
  /\ call[c].pc # "idle"
  /\ call' = [call EXCEPT ![c] = NoCall]
  /\ UNCHANGED <<reply, stored, sent, tests, naming, onWhatsApp>>

-----------------------------------------------------------------------------

\* The organization's own mailbox, the platform's mailbox, and what both rounds share.
OwnNext ==
  \/ \E b \in ImapBoxes : UseImap(b)
  \/ \E b \in GraphBoxes : SignInGraph(b)
  \/ UseGraph \/ UsePlatform \/ DisconnectGraph
  \/ \E j \in Jobs : Start(j) \/ FetchGraph(j) \/ WriteCursor(j)

PlatformNext == \E j \in Jobs : StartPlatform(j) \/ WritePlatformCursor(j)

RoundNext ==
  \/ \E r \in Replies : Receive(r) \/ Show(r)
  \/ \E j \in Jobs : FetchImap(j) \/ Store(j) \/ Fail(j)

PhoneNext ==
  \/ \E test \in BOOLEAN : SendAnother(test)
  \/ \E r \in Replies, names \in BOOLEAN : ReceivePhone(r, names)
  \/ \E c \in Calls : \/ \E r \in Replies : Call(c, r)
                      \/ LookForDuplicate(c) \/ Insert(c) \/ FailCall(c)

INext ==
  \/ (OwnNext \/ PlatformNext \/ RoundNext) /\ UNCHANGED phonevars
  \/ PhoneNext /\ UNCHANGED mailvars

ISpec == IInit /\ [][INext]_ivars

-----------------------------------------------------------------------------
(* Properties *)

\* Shapes; a Microsoft 365 setting refers to the connection row there is.
ITypeOK ==
  /\ setting.provider \in {"zahlmeister_email", "smtp_imap", "microsoft365"}
  /\ setting.provider = "smtp_imap" <=> setting.box \in ImapBoxes
  /\ setting.provider = "microsoft365" <=> setting.connection # 0
  /\ setting.connection \in {0, graph.id}
  /\ setting.cursor.kind \in {"none", "uid", "time"}
  /\ graph.id = 0 <=> graph.box = NoBox
  /\ \A j \in Jobs : job[j].pc \in {"idle", "fetch", "store"} /\ job[j].batch \subseteq Replies
  /\ unread \subseteq Replies /\ naming \subseteq Replies /\ tests \subseteq 1 .. sent
  /\ \A c \in Calls : call[c].pc \in {"idle", "found", "insert"}

\* "Duplicates are removed by external_id": overlapping jobs and calls, rounds that go
\* back, and rounds and calls repeated after a failure store a reply once.  Excepted is a
\* reply by phone that does not name its message: a call repeated while the first is
\* under way may take it for the answer to a newer message, and locks that one.
ReplyStoredOnce ==
  \A r \in Replies : (reply[r].box = Infobip => r \in naming) => stored[r] <= 1

\* The same without the exception, as the comment says it ("Known divergences" in the
\* README).
EveryReplyStoredOnce == \A r \in Replies : stored[r] <= 1

WillBeRead(r) ==
  LET c == setting.cursor IN
  CASE setting.provider = "smtp_imap" -> c.kind = "uid" /\ c.of = setting.box => reply[r].uid > c.at
    [] setting.provider = "microsoft365" -> c.kind = "time" => reply[r].time >= c.at - Overlap
    [] OTHER -> reply[r].uid > platform

\* "the cursor then only ever advances past messages that were actually read, so a
\* burst is never skipped": no round to come will miss a reply that is not stored,
\* whatever jobs overlapped, failed, or read another mailbox before.  Excepted are
\* messages the mail server failed to deliver, those before the first round or before the
\* account was signed in to, and a cursor left over from another IMAP mailbox.
NothingSkipped ==
  \A r \in Replies \ unread :
     reply[r].box # NoBox /\ reply[r].box = Mailbox(setting) /\ stored[r] = 0 => WillBeRead(r)
=============================================================================
