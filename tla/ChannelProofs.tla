---------------------------- MODULE ChannelProofs ----------------------------
(***************************************************************************)
(* What InfobipRouting and InboxSync guarantee for every number of senders,    *)
(* connections, mailboxes, replies, jobs, calls and failures.                 *)
(***************************************************************************)
EXTENDS InfobipRouting, InboxSync, FiniteSetTheorems, WellFoundedInduction, TLAPS

-----------------------------------------------------------------------------
(* The way to Infobip *)

Sender == Senders \cup {NoSender}
ConnectionRow == [id : 0 .. MaxConnections, marker : Sender, status : {"connected", "error"}]
Request == [pc : {"idle", "look", "removeOld", "clean", "post", "commit"},
            task : {"none", "save", "off", "test", "check", "disconnect"},
            want : Sender, marker : Sender]

Shapes ==
  /\ connection \in ConnectionRow /\ signIn \in ConnectionRow
  /\ rows \in 0 .. MaxConnections
  /\ route \in Sender
  /\ remote \in [1 .. MaxConnections -> Sender]
  /\ op \in Request
  /\ report \in [id : 0 .. MaxConnections, status : {"connected", "error"}]
  /\ verified \in BOOLEAN /\ split \in BOOLEAN
  /\ connection.id = 0 => Doing("idle") /\ route = NoSender

\* A disconnection removes the subscription and then the row, and wants no sender.
DisconnectsLast ==
  op.task = "disconnect" =>
    /\ op.want = NoSender /\ op.pc \in {"removeOld", "commit"}
    /\ Doing("commit") => Subscribed = NoSender

\* Only a save removes the old subscription to create another.
RemovesFirst == Doing("removeOld") => op.task = "save" \/ op.want = NoSender

\* A new subscription is created only after the old one is gone.
PostsAfterRemoval == Doing("post") => Subscribed = NoSender

\* Unless a request that did not commit has changed it, Infobip has the subscription of
\* the route or none; a request that looks finds its own, and commits with its own.
InfobipFollows ==
  ~split =>
    /\ Doing("idle") /\ connection.id # 0 => Subscribed \in {NoSender, route}
    /\ Doing("look") => Subscribed \in {NoSender, op.want}
    /\ Doing("commit") => Subscribed = op.want

RoutingInv ==
  /\ Shapes /\ DisconnectsLast /\ RemovesFirst /\ PostsAfterRemoval /\ InfobipFollows
  /\ NothingLeftAtInfobip /\ SavedRouteIsSubscribed

\* Initially nothing is connected.
LEMMA RoutingStart == RInit => RoutingInv
<1> SUFFICES ASSUME RInit PROVE RoutingInv
  OBVIOUS
<1> USE RoutingAssumption DEF RInit, NoConnection, IdleOp, NoReport, Doing
<1>1. Shapes
  <2>1. 0 \in 0 .. MaxConnections /\ NoSender \in Sender
    BY DEF Sender
  <2>2. connection \in ConnectionRow /\ signIn \in ConnectionRow /\ op \in Request
    BY <2>1 DEF ConnectionRow, Request
  <2> QED
    BY <2>1, <2>2 DEF Shapes
<1>2. DisconnectsLast /\ RemovesFirst /\ PostsAfterRemoval /\ InfobipFollows
  BY DEF DisconnectsLast, RemovesFirst, PostsAfterRemoval, InfobipFollows
<1>3. NothingLeftAtInfobip /\ SavedRouteIsSubscribed
  BY DEF NothingLeftAtInfobip, SavedRouteIsSubscribed
<1> QED
  BY <1>1, <1>2, <1>3 DEF RoutingInv

\* Changing columns of the connection's row leaves a row.
LEMMA ConnectionColumns ==
  ASSUME NEW c \in ConnectionRow, NEW m \in Sender, NEW s \in {"connected", "error"}
  PROVE  [c EXCEPT !.marker = m, !.status = s] = [id |-> c.id, marker |-> m, status |-> s]
<1> DEFINE d == [id |-> c.id, marker |-> m, status |-> c.status]
<1>1. [c EXCEPT !.marker = m] = d
  BY DEF ConnectionRow
<1>2. [d EXCEPT !.status = s] = [id |-> c.id, marker |-> m, status |-> s]
  OBVIOUS
<1>3. [c EXCEPT !.marker = m, !.status = s] = [[c EXCEPT !.marker = m] EXCEPT !.status = s]
  OBVIOUS
<1> QED
  BY <1>1, <1>2, <1>3

\* A request that moves on is about what it was about.
LEMMA RequestColumns ==
  ASSUME NEW r \in Request, NEW m \in Sender, NEW pc \in {"look", "post", "commit"}
  PROVE  /\ [r EXCEPT !.marker = m, !.pc = pc] = [pc |-> pc, task |-> r.task, want |-> r.want, marker |-> m]
         /\ [r EXCEPT !.pc = pc, !.marker = m] = [pc |-> pc, task |-> r.task, want |-> r.want, marker |-> m]
<1> DEFINE d == [pc |-> r.pc, task |-> r.task, want |-> r.want, marker |-> m]
           e == [pc |-> pc, task |-> r.task, want |-> r.want, marker |-> r.marker]
           f == [pc |-> pc, task |-> r.task, want |-> r.want, marker |-> m]
<1>1. [r EXCEPT !.marker = m] = d /\ [r EXCEPT !.pc = pc] = e
  BY DEF Request
<1>2. [d EXCEPT !.pc = pc] = f /\ [e EXCEPT !.marker = m] = f
  OBVIOUS
<1>3. [r EXCEPT !.marker = m, !.pc = pc] = [[r EXCEPT !.marker = m] EXCEPT !.pc = pc]
  OBVIOUS
<1>4. [r EXCEPT !.pc = pc, !.marker = m] = [[r EXCEPT !.pc = pc] EXCEPT !.marker = m]
  OBVIOUS
<1> QED
  BY <1>1, <1>2, <1>3, <1>4

\* The shapes are kept by every step.
LEMMA ShapesStep ==
  ASSUME Shapes, DisconnectsLast, [RNext]_rvars
  PROVE  Shapes'
<1> USE RoutingAssumption DEF Shapes, Doing, Sender
<1>1. CASE ConnectApiKey
  <2>1. CASE connection.id = 0
    BY <1>1, <2>1 DEF ConnectApiKey, ConnectionRow
  <2>2. CASE connection.id # 0
    <3>1. connection' = [id |-> connection.id, marker |-> NoSender, status |-> "connected"]
      BY <1>1, <2>2, ConnectionColumns DEF ConnectApiKey
    <3> QED
      BY <1>1, <2>2, <3>1 DEF ConnectApiKey, ConnectionRow
  <2> QED
    BY <2>1, <2>2
<1>2. CASE ReadForSignIn
  BY <1>2 DEF ReadForSignIn
<1>3. CASE SignIn
  BY <1>3 DEF SignIn, ConnectionRow, NoConnection
<1>4. ASSUME NEW pc \in {"look", "removeOld", "commit"},
             NEW task \in {"save", "off", "test", "check", "disconnect"},
             NEW want \in Sender, Open(pc, task, want)
      PROVE  Shapes'
  BY <1>4 DEF Open, Kept, ConnectionRow, Request
<1>5. CASE \E s \in Senders : Save(s)
  BY <1>5, <1>4 DEF Save
<1>6. CASE SwitchOff \/ TestRoute \/ TestConnection \/ Disconnect
  BY <1>6, <1>4 DEF SwitchOff, TestRoute, TestConnection, Disconnect
<1>7. CASE Look
  BY <1>7 DEF Look, Goto, Kept, Request
<1>8. CASE Remove
  <2>1. PICK pc \in {"look", "post", "commit"} : op' = [op EXCEPT !.marker = NoSender, !.pc = pc]
    BY <1>8 DEF Remove
  <2>2. op' = [pc |-> pc, task |-> op.task, want |-> op.want, marker |-> NoSender]
    BY <2>1, RequestColumns
  <2>3. op' \in Request
    BY <2>2 DEF Request
  <2>4. connection.id # 0 /\ remote' \in [1 .. MaxConnections -> Sender]
    BY <1>8 DEF Remove
  <2> QED
    BY <1>8, <2>3, <2>4 DEF Remove, Kept
<1>9. CASE Post
  BY <1>9 DEF Post, Kept, Request, ConnectionRow
<1>10. CASE CallFails
  BY <1>10 DEF CallFails, IdleOp, Fault, Request, ConnectionRow
<1>11. CASE Crash
  BY <1>11 DEF Crash, IdleOp, Fault, Request
<1>12. CASE Commit
  <2>1. /\ NoConnection \in ConnectionRow /\ IdleOp \in Request
        /\ op.want \in Sender /\ op.marker \in Sender /\ connection.id \in 0 .. MaxConnections
    BY DEF NoConnection, IdleOp, Request, ConnectionRow
  <2>2. /\ connection' \in ConnectionRow
        /\ connection'.id = IF op.task = "disconnect" THEN 0 ELSE connection.id
    <3>1. CASE op.task = "disconnect"
      BY <1>12, <2>1, <3>1 DEF Commit, NoConnection
    <3>2. CASE op.task # "disconnect"
      <4>1. PICK s \in {"connected", "error"} :
              connection' = [connection EXCEPT !.marker = op.marker, !.status = s]
        BY <1>12, <3>2 DEF Commit, ConnectionRow
      <4>2. connection' = [id |-> connection.id, marker |-> op.marker, status |-> s]
        BY <2>1, <4>1, ConnectionColumns
      <4> QED
        BY <2>1, <3>2, <4>2 DEF ConnectionRow
    <3> QED
      BY <3>1, <3>2
  <2>3. op' = IdleOp /\ route' = op.want /\ UNCHANGED <<rows, remote, signIn, split>> /\ verified' = TRUE
    BY <1>12 DEF Commit
  <2>4. report' \in [id : 0 .. MaxConnections, status : {"connected", "error"}]
    BY <1>12, <2>1 DEF Commit
  <2>5. op.task = "disconnect" => op.want = NoSender
    BY DEF DisconnectsLast
  <2>6. connection'.id = 0 => route' = NoSender
    BY <1>12, <2>2, <2>3, <2>5 DEF Commit
  <2>7. op'.pc = "idle" /\ op' \in Request /\ route' \in Sender
    BY <2>1, <2>3 DEF IdleOp
  <2> QED
    BY <2>2, <2>3, <2>4, <2>6, <2>7
<1>13. CASE RecordTest
  BY <1>13 DEF RecordTest, NoReport, ConnectionRow
<1>14. CASE LostAtInfobip
  BY <1>14 DEF LostAtInfobip, Fault, ConnectionRow
<1>15. CASE UNCHANGED rvars
  BY <1>15 DEF rvars
<1> QED
  BY <1>1, <1>2, <1>3, <1>5, <1>6, <1>7, <1>8, <1>9, <1>10, <1>11, <1>12, <1>13, <1>14, <1>15 DEF RNext

-----------------------------------------------------------------------------
(* Infobip and the rows *)

\* Every step keeps what the row, the request and Infobip's subscriptions have to do
\* with each other.
LEMMA RoutingStep ==
  ASSUME RoutingInv, [RNext]_rvars
  PROVE  RoutingInv'
<1>1. Shapes'
  BY ShapesStep DEF RoutingInv
<1> DEFINE Relations == /\ DisconnectsLast /\ RemovesFirst /\ PostsAfterRemoval /\ InfobipFollows
                        /\ NothingLeftAtInfobip /\ SavedRouteIsSubscribed
<1> SUFFICES Relations'
  BY <1>1 DEF RoutingInv
<1> USE RoutingAssumption
    DEF RoutingInv, Shapes, ConnectionRow, Request, Sender, Doing, Subscribed, DisconnectsLast,
        RemovesFirst, PostsAfterRemoval, InfobipFollows, NothingLeftAtInfobip, SavedRouteIsSubscribed
<1>2. CASE ConnectApiKey
  <2>1. CASE connection.id = 0
    <3>1. /\ connection'.id = rows' /\ rows' \in 1 .. MaxConnections
          /\ remote' = remote /\ route = NoSender
          /\ UNCHANGED <<route, op, verified, split>>
      BY <1>2, <2>1 DEF ConnectApiKey
    <3>2. \A i \in 1 .. MaxConnections : remote'[i] = NoSender
      BY <2>1, <3>1
    <3> QED
      BY <1>2, <3>1, <3>2 DEF ConnectApiKey
  <2>2. CASE connection.id # 0
    <3>1. connection'.id = connection.id
      BY <1>2, <2>2 DEF ConnectApiKey
    <3> QED
      BY <1>2, <2>2, <3>1 DEF ConnectApiKey
  <2> QED
    BY <2>1, <2>2
<1>3. CASE ReadForSignIn
  BY <1>3 DEF ReadForSignIn
<1>4. CASE SignIn
  <2>1. connection'.id = connection.id
    BY <1>4 DEF SignIn
  <2> QED
    BY <1>4, <2>1 DEF SignIn
<1>5. CASE \E s \in Senders : Save(s)
  BY <1>5 DEF Save, Open, Kept
<1>6. CASE SwitchOff \/ TestRoute
  BY <1>6 DEF SwitchOff, TestRoute, Open, Kept
<1>7. CASE TestConnection
  BY <1>7 DEF TestConnection, Open, Kept
<1>8. CASE Disconnect
  BY <1>8 DEF Disconnect, Open, Kept
<1>9. CASE Look
  BY <1>9 DEF Look, Goto, Kept
<1>10. CASE Remove
  <2>1. PICK pc \in {"look", "post", "commit"} :
          /\ op' = [op EXCEPT !.marker = NoSender, !.pc = pc]
          /\ Doing("clean") => pc = "post"
          /\ ~Doing("clean") => pc = IF op.task = "save" THEN "look" ELSE "commit"
    BY <1>10 DEF Remove
  <2>2. op'.pc = pc /\ op'.task = op.task /\ op'.want = op.want
    BY <2>1
  <2>3. /\ connection.id \in 1 .. MaxConnections
        /\ UNCHANGED <<connection, route, verified>>
        /\ remote' = [remote EXCEPT ![connection.id] = NoSender]
    BY <1>10 DEF Remove
  <2>4. remote'[connection.id] = NoSender /\ \A i \in 1 .. MaxConnections : remote'[i] = NoSender
    BY <2>3
  <2>5. op.task = "disconnect" => pc = "commit" /\ op.want = NoSender
    BY <1>10, <2>1 DEF Remove
  <2>6. pc = "commit" => op.want = NoSender
    BY <1>10, <2>1 DEF Remove
  <2> QED
    BY <2>2, <2>3, <2>4, <2>5, <2>6
<1>11. CASE Post
  <2>1. op'.pc = "commit" /\ op'.task = op.task /\ op'.want = op.want
    BY <1>11 DEF Post
  <2>2. /\ connection.id \in 1 .. MaxConnections
        /\ UNCHANGED <<connection, route, verified, split>>
        /\ remote' = [remote EXCEPT ![connection.id] = op.want]
        /\ op.task # "disconnect"
    BY <1>11 DEF Post
  <2> QED
    BY <2>1, <2>2
<1>12. CASE CallFails
  BY <1>12 DEF CallFails, IdleOp, Fault
<1>13. CASE Crash
  BY <1>13 DEF Crash, IdleOp, Fault
<1>14. CASE Commit
  <2>1. op' = IdleOp /\ route' = op.want /\ verified' = TRUE /\ UNCHANGED <<remote, split>>
    BY <1>14 DEF Commit
  <2>2. op'.pc = "idle" /\ op'.task = "none"
    BY <2>1 DEF IdleOp
  <2>3. connection'.id = IF op.task = "disconnect" THEN 0 ELSE connection.id
    BY <1>14 DEF Commit, NoConnection
  <2>4. CASE op.task = "disconnect"
    BY <1>14, <2>1, <2>2, <2>3, <2>4 DEF Commit
  <2>5. CASE op.task # "disconnect"
    BY <1>14, <2>1, <2>2, <2>3, <2>5 DEF Commit
  <2> QED
    BY <2>4, <2>5
<1>15. CASE RecordTest
  <2>1. connection'.id = connection.id
    BY <1>15 DEF RecordTest
  <2> QED
    BY <1>15, <2>1 DEF RecordTest
<1>16. CASE LostAtInfobip
  <2>1. /\ connection.id \in 1 .. MaxConnections
        /\ remote' = [remote EXCEPT ![connection.id] = NoSender]
        /\ verified' = FALSE
        /\ UNCHANGED <<connection, route, op, split>> /\ op.pc = "idle"
    BY <1>16 DEF LostAtInfobip
  <2> QED
    BY <2>1
<1>17. CASE UNCHANGED rvars
  BY <1>17 DEF rvars
<1> QED
  BY <1>2, <1>3, <1>4, <1>5, <1>6, <1>7, <1>8, <1>9, <1>10, <1>11, <1>12, <1>13, <1>14, <1>15, <1>16, <1>17 DEF RNext

-----------------------------------------------------------------------------
(* Theorems *)

\* Routes, requests and subscriptions always fit together.
THEOREM RoutingInvariant == RSpec => []RoutingInv
<1>1. RoutingInv /\ [RNext]_rvars => RoutingInv'
  BY RoutingStep
<1> QED
  BY RoutingStart, <1>1, PTL DEF RSpec

\* Connections, routes and requests keep their shapes.
THEOREM RoutingTypeCorrect == RSpec => []RTypeOK
<1>1. RoutingInv => RTypeOK
  BY DEF RoutingInv, Shapes, RTypeOK, ConnectionRow, Request, Sender
<1> QED
  BY <1>1, RoutingInvariant, PTL

\* Infobip keeps no subscription of a connection that is gone, whatever call failed or
\* process died half way through its removal.
THEOREM NothingIsLeft == RSpec => []NothingLeftAtInfobip
<1>1. RoutingInv => NothingLeftAtInfobip
  BY DEF RoutingInv
<1> QED
  BY <1>1, RoutingInvariant, PTL

\* Setting up a route never meets a subscription of its own: the interrupted and the
\* repeated set-up remove what may be there before they create another.
THEOREM SetupHealsItself == RSpec => []NeverStuckBehindConflict
<1>1. RoutingInv => NeverStuckBehindConflict
  <2> SUFFICES ASSUME RoutingInv, Doing("post") PROVE ~Conflict
    BY DEF NeverStuckBehindConflict
  <2>1. op.want \in Senders \cup {NoSender}
    BY DEF RoutingInv, Shapes, Request, Sender
  <2>2. \A i \in 1 .. MaxConnections : remote[i] = NoSender
    BY DEF RoutingInv, PostsAfterRemoval, NothingLeftAtInfobip, Subscribed
  <2> QED
    BY <2>2 DEF Conflict
<1> QED
  BY <1>1, RoutingInvariant, PTL

\* A route that was saved or tested with success is subscribed, unless a request that
\* did not commit has subscribed another sender.
THEOREM SavedRoutesAreSubscribed == RSpec => []SavedRouteIsSubscribed
<1>1. RoutingInv => SavedRouteIsSubscribed
  BY DEF RoutingInv
<1> QED
  BY <1>1, RoutingInvariant, PTL

-----------------------------------------------------------------------------
(* The mailboxes: the inductive invariant *)

MailBoxes == ImapBoxes \cup GraphBoxes \cup {PlatformBox}
UidBoxes == ImapBoxes \cup {PlatformBox}
Boxes == MailBoxes \cup {Infobip, NoBox}
Cursors == [kind : {"none", "uid", "time"}, at : Nat, of : Boxes]
EmailSettings ==
  [provider : {"zahlmeister_email", "smtp_imap", "microsoft365"}, box : Boxes, connection : Nat, cursor : Cursors]
Answers == [box : Boxes, uid : Nat, time : Nat, shown : BOOLEAN]
Rounds == [pc : {"idle", "fetch", "store"}, copy : EmailSettings, batch : SUBSET Replies, newest : Nat]
WebhookCalls == [pc : {"idle", "found", "insert"}, reply : Replies \cup {NoBox}, parent : Nat, duplicate : BOOLEAN]

InboxShapes ==
  /\ setting \in EmailSettings /\ connections \in Nat
  /\ graph \in [id : Nat, box : GraphBoxes \cup {NoBox}]
  /\ reply \in [Replies -> Answers] /\ clock \in Nat /\ stored \in [Replies -> Nat]
  /\ job \in [Jobs -> Rounds] /\ platform \in Nat /\ unread \subseteq Replies
PhoneShapes ==
  /\ sent \in Nat \ {0} /\ tests \subseteq 1 .. sent /\ naming \subseteq Replies
  /\ call \in [Calls -> WebhookCalls]

\* The setting refers to the connection row there is.
SettingFits ==
  /\ setting.provider = "smtp_imap" <=> setting.box \in ImapBoxes
  /\ setting.provider = "microsoft365" <=> setting.connection # 0
  /\ setting.connection \in {0, graph.id}
  /\ graph.id = 0 <=> graph.box = NoBox
  /\ graph.id \in {0, connections}

\* UIDs count what a mailbox received, and nothing is shown too late.
RepliesFit ==
  /\ \A b \in MailBoxes : IsFiniteSet(Received(b))
  /\ \A r \in Replies :
       /\ reply[r].box = NoBox => reply[r] = NotReceived
       /\ reply[r].box \in MailBoxes => /\ reply[r].uid \in 1 .. Cardinality(Received(reply[r].box))
                                        /\ reply[r].time <= clock
       /\ reply[r].box # NoBox /\ ~reply[r].shown => reply[r].time + Overlap >= clock
       /\ reply[r].box \in UidBoxes => reply[r].shown

\* What is due in mailbox b, up to a UID or a time, is stored or about to be.
UidRead(b, at, pending) ==
  /\ at <= Cardinality(Received(b))
  /\ \A r \in Received(b) \ (unread \cup pending) : stored[r] = 0 => reply[r].uid > at
TimeRead(at, pending) ==
  /\ at <= clock
  /\ graph.box # NoBox =>
       \A r \in Received(graph.box) \ (unread \cup pending) : stored[r] = 0 => reply[r].time + Overlap >= at

\* A cursor has passed nothing of the mailbox it counts, or of the account that is open.
CursorFits(c) ==
  /\ c.kind = "uid" /\ c.of # NoBox => c.of \in UidBoxes /\ UidRead(c.of, c.at, {})
  /\ c.kind = "time" => TimeRead(c.at, {})
CursorsFit == CursorFits(setting.cursor) /\ UidRead(PlatformBox, platform, {})

Own(copy) == copy.cursor.kind = "uid" => copy.cursor.of = copy.box
CopyFits(copy) ==
  /\ copy.provider = "smtp_imap" => copy.box \in ImapBoxes
  /\ copy.provider = "zahlmeister_email" => copy.box = PlatformBox /\ Own(copy)
  /\ copy.provider = "microsoft365" => copy.connection # 0

\* A round has a cursor that fits; what it has passed by is in its batch.
RoundFits(x) ==
  /\ \A r \in x.batch : reply[r].box \in MailBoxes
  /\ x.pc # "idle" => CopyFits(x.copy)
  /\ x.pc = "fetch" => CursorFits(x.copy.cursor)
  /\ x.pc = "store" /\ x.copy.provider # "microsoft365" /\ Own(x.copy) => UidRead(x.copy.box, x.newest, x.batch)
  /\ x.pc = "store" /\ x.copy.provider = "microsoft365" => TimeRead(x.newest, x.batch)
RoundsFit == \A j \in Jobs : RoundFits(job[j])

MailInv == InboxShapes /\ SettingFits /\ RepliesFit /\ CursorsFit /\ RoundsFit

\* A call holds the message it takes to be answered from the look to the insert; calls
\* that report one reply which names its message hold the same one.
CallsFit ==
  /\ \A r \in naming : reply[r].box = Infobip
  /\ \A c \in Calls : call[c].pc # "idle" =>
       /\ call[c].reply \in Replies /\ reply[call[c].reply].box = Infobip
       /\ call[c].reply \in naming => call[c].parent = 1
  /\ \A c, d \in Calls : call[c].pc = "insert" /\ call[d].pc = "insert" /\ call[c].parent = call[d].parent => c = d
  /\ \A c \in Calls : call[c].pc = "insert" /\ ~call[c].duplicate /\ call[c].reply \in naming => stored[call[c].reply] = 0

\* Only what came is stored.
StoredFits == \A r \in Replies : reply[r].box = NoBox => stored[r] = 0

InboxInv == MailInv /\ PhoneShapes /\ CallsFit /\ StoredFits /\ ReplyStoredOnce

-----------------------------------------------------------------------------
(* Steps that pass nothing by *)

\* No reply is lost: what was received stays, what is new is newer than all before, and
\* nothing stored or excepted is forgotten.
Forward ==
  /\ clock' >= clock /\ clock' \in Nat /\ unread \subseteq unread'
  /\ \A r \in Replies : /\ stored'[r] = 0 => stored[r] = 0
                        /\ reply[r].box # NoBox => reply'[r].box = reply[r].box
  /\ \A b \in MailBoxes :
       /\ Cardinality(Received(b))' \in Nat /\ Cardinality(Received(b)) \in Nat
       /\ Cardinality(Received(b))' >= Cardinality(Received(b))
       /\ \A r \in Received(b)' :
            \/ r \in Received(b) /\ reply'[r].uid = reply[r].uid /\ reply'[r].time = reply[r].time
            \/ reply'[r].uid > Cardinality(Received(b)) /\ reply'[r].time >= clock

\* The account that is open stays, or its replies of before are excepted.
SameAccount == graph'.box \in {graph.box, NoBox} \/ Received(graph.box)' \subseteq unread'

\* What was read up to a UID or a time stays read.
LEMMA ReadStays ==
  ASSUME InboxShapes, InboxShapes', Forward, NEW at \in Nat, NEW pending
  PROVE  /\ \A b \in MailBoxes : UidRead(b, at, pending) => UidRead(b, at, pending)'
         /\ SameAccount /\ TimeRead(at, pending) => TimeRead(at, pending)'
<1>1. ASSUME NEW b \in MailBoxes, UidRead(b, at, pending)
      PROVE  UidRead(b, at, pending)'
  <2>1. at <= Cardinality(Received(b)) /\ Cardinality(Received(b)) \in Nat /\ Cardinality(Received(b))' \in Nat
    BY <1>1 DEF UidRead, Forward
  <2>2. Cardinality(Received(b))' >= Cardinality(Received(b))
    BY DEF Forward
  <2>3. at <= Cardinality(Received(b))'
    BY <2>1, <2>2
  <2>4. ASSUME NEW r \in Received(b)', r \notin unread', r \notin pending, stored'[r] = 0
        PROVE  reply'[r].uid > at
    <3>1. r \in Replies /\ reply'[r].uid \in Nat
      BY <2>4 DEF Received, InboxShapes, Answers
    <3>2. stored[r] = 0 /\ r \notin unread
      BY <2>4, <3>1 DEF Forward
    <3>3. CASE r \in Received(b) /\ reply'[r].uid = reply[r].uid
      BY <1>1, <2>4, <3>2, <3>3 DEF UidRead
    <3>4. CASE reply'[r].uid > Cardinality(Received(b))
      BY <2>1, <3>1, <3>4
    <3> QED
      BY <2>4, <3>3, <3>4 DEF Forward
  <2> QED
    BY <2>3, <2>4 DEF UidRead
<1>2. ASSUME SameAccount, TimeRead(at, pending)
      PROVE  TimeRead(at, pending)'
  <2>1. at <= clock' /\ at <= clock /\ clock \in Nat /\ clock' \in Nat
    BY <1>2 DEF TimeRead, Forward, InboxShapes
  <2>2. ASSUME graph'.box # NoBox, NEW r \in Received(graph.box)', r \notin unread', r \notin pending, stored'[r] = 0
        PROVE  reply'[r].time + Overlap >= at
    <3>1. graph'.box = graph.box /\ graph.box \in MailBoxes
      BY <1>2, <2>2 DEF SameAccount, InboxShapes, MailBoxes
    <3>2. r \in Replies /\ reply'[r].time \in Nat
      BY <2>2 DEF Received, InboxShapes, Answers
    <3>3. stored[r] = 0 /\ r \notin unread
      BY <2>2, <3>2 DEF Forward
    <3>4. r \in {q \in Replies : reply'[q].box = graph.box}
      BY <2>2, <3>1 DEF Received
    <3>5. CASE r \in Received(graph.box) /\ reply'[r].time = reply[r].time
      BY <1>2, <2>2, <3>1, <3>3, <3>5 DEF TimeRead
    <3>6. CASE reply'[r].time >= clock
      BY <2>1, <3>2, <3>6, InboxAssumption
    <3>7. PICK b \in MailBoxes : b = graph.box
      BY <3>1
    <3>8. r \in Received(b)'
      BY <3>4, <3>7 DEF Received
    <3>9. \/ r \in Received(b) /\ reply'[r].uid = reply[r].uid /\ reply'[r].time = reply[r].time
          \/ reply'[r].time >= clock
      BY <3>8 DEF Forward
    <3> QED
      BY <3>5, <3>6, <3>7, <3>9
  <2> QED
    BY <2>1, <2>2 DEF TimeRead
<1> QED
  BY <1>1, <1>2

\* The mailboxes, the webhook and no mailbox are told apart.
LEMMA BoxesDiffer ==
  /\ PlatformBox # Infobip /\ PlatformBox # NoBox /\ Infobip # NoBox
  /\ Infobip \notin MailBoxes /\ NoBox \notin MailBoxes /\ PlatformBox \notin ImapBoxes /\ PlatformBox \notin GraphBoxes
<1>1. \A x, y : Cardinality({x, y}) # 3
  <2>1. SUFFICES ASSUME NEW x, NEW y
                 PROVE  Cardinality({x, y}) # 3
    OBVIOUS
  <2>2. IsFiniteSet({x}) /\ Cardinality({x}) = 1
    BY FS_Singleton
  <2>3. Cardinality({x} \cup {y}) = IF y \in {x} THEN Cardinality({x}) ELSE Cardinality({x}) + 1
    BY <2>2, FS_AddElement
  <2>4. {x} \cup {y} = {x, y}
    OBVIOUS
  <2> QED
    BY <2>2, <2>3, <2>4
<1>2. Cardinality({PlatformBox, Infobip, NoBox}) = 3
  BY InboxAssumption
<1>3. ASSUME PlatformBox = Infobip \/ PlatformBox = NoBox \/ Infobip = NoBox
      PROVE  FALSE
  <2>1. \/ {PlatformBox, Infobip, NoBox} = {Infobip, NoBox}
        \/ {PlatformBox, Infobip, NoBox} = {PlatformBox, Infobip}
    BY <1>3
  <2> QED
    BY <1>1, <1>2, <2>1
<1>4. {PlatformBox, Infobip, NoBox} \cap (ImapBoxes \cup GraphBoxes) = {}
  BY InboxAssumption
<1> QED
  BY <1>3, <1>4 DEF MailBoxes

\* What a step leaves of a cursor and of a round.
LEMMA CursorStays ==
  ASSUME InboxShapes, InboxShapes', Forward, SameAccount, NEW c \in Cursors, CursorFits(c)
  PROVE  CursorFits(c)'
<1>1. c.at \in Nat
  BY DEF Cursors
<1>2. ASSUME c.kind = "uid", c.of # NoBox
      PROVE  c.of \in UidBoxes /\ UidRead(c.of, c.at, {})'
  <2>1. c.of \in UidBoxes /\ UidRead(c.of, c.at, {})
    BY <1>2 DEF CursorFits
  <2>2. c.of \in MailBoxes
    BY <2>1 DEF UidBoxes, MailBoxes
  <2> QED
    BY <1>1, <2>1, <2>2, ReadStays
<1>3. ASSUME c.kind = "time"
      PROVE  TimeRead(c.at, {})'
  <2>1. TimeRead(c.at, {})
    BY <1>3 DEF CursorFits
  <2> QED
    BY <1>1, <2>1, ReadStays
<1> QED
  BY <1>2, <1>3 DEF CursorFits

\* A round on its way keeps fitting while time and replies go forward and nobody signs in.
LEMMA RoundStays ==
  ASSUME InboxShapes, InboxShapes', Forward, SameAccount, NEW x \in Rounds, RoundFits(x)
  PROVE  RoundFits(x)'
<1>1. x.newest \in Nat /\ x.copy.cursor \in Cursors /\ x.batch \subseteq Replies
  BY DEF Rounds, EmailSettings
<1>2. \A r \in x.batch : reply'[r].box \in MailBoxes
  BY <1>1, BoxesDiffer DEF RoundFits, Forward
<1>3. x.pc = "fetch" => CursorFits(x.copy.cursor)'
  BY <1>1, CursorStays DEF RoundFits
<1>4. ASSUME x.pc = "store", x.copy.provider # "microsoft365", Own(x.copy)
      PROVE  UidRead(x.copy.box, x.newest, x.batch)'
  <2>1. UidRead(x.copy.box, x.newest, x.batch) /\ CopyFits(x.copy)
    BY <1>4 DEF RoundFits
  <2>2. x.copy.box \in MailBoxes
    <3>1. x.copy.provider \in {"zahlmeister_email", "smtp_imap", "microsoft365"}
      BY DEF Rounds, EmailSettings
    <3> QED
      BY <1>4, <2>1, <3>1 DEF CopyFits, MailBoxes
  <2> QED
    BY <1>1, <2>1, <2>2, ReadStays
<1>5. ASSUME x.pc = "store", x.copy.provider = "microsoft365"
      PROVE  TimeRead(x.newest, x.batch)'
  <2>1. TimeRead(x.newest, x.batch)
    BY <1>5 DEF RoundFits
  <2> QED
    BY <1>1, <2>1, ReadStays
<1>6. x.pc # "idle" => CopyFits(x.copy)
  BY DEF RoundFits
<1> QED
  BY <1>2, <1>3, <1>4, <1>5, <1>6 DEF RoundFits, CopyFits, Own

\* When a step is forward, only the setting, the platform's cursor and the round it
\* changes need another look.
LEMMA ForwardKeeps ==
  ASSUME InboxShapes, InboxShapes', Forward, SameAccount, CursorsFit, RoundsFit
  PROVE  /\ setting'.cursor = setting.cursor => CursorFits(setting.cursor)'
         /\ platform' = platform => UidRead(PlatformBox, platform, {})'
         /\ \A j \in Jobs : job'[j] = job[j] => RoundFits(job[j])'
<1>1. ASSUME setting'.cursor = setting.cursor
      PROVE  CursorFits(setting.cursor)'
  <2>1. PICK c \in Cursors : c = setting.cursor
    BY DEF InboxShapes, EmailSettings
  <2>2. CursorFits(c)'
    BY <2>1, CursorStays DEF CursorsFit
  <2>3. setting'.cursor = c
    BY <1>1, <2>1
  <2> QED
    BY <2>2, <2>3
<1>2. ASSUME platform' = platform
      PROVE  UidRead(PlatformBox, platform, {})'
  <2>1. PICK at \in Nat : at = platform
    BY DEF InboxShapes
  <2>2. UidRead(PlatformBox, at, {})'
    BY <2>1, ReadStays DEF CursorsFit, MailBoxes
  <2> QED
    BY <1>2, <2>1, <2>2
<1>3. ASSUME NEW j \in Jobs, job'[j] = job[j]
      PROVE  RoundFits(job[j])'
  <2>1. PICK x \in Rounds : x = job[j]
    BY DEF InboxShapes
  <2>2. RoundFits(x)'
    BY <2>1, RoundStays DEF RoundsFit
  <2>3. job'[j] = x
    BY <1>3, <2>1
  <2> QED
    BY <2>2, <2>3
<1> QED
  BY <1>1, <1>2, <1>3

\* A step about mail leaves the calls alone.
LEMMA CallsStay ==
  ASSUME InboxInv, UNCHANGED phonevars,
         \A r \in Replies : reply[r].box = Infobip => reply'[r].box = Infobip /\ stored'[r] = stored[r]
  PROVE  PhoneShapes' /\ CallsFit'
<1>1. UNCHANGED <<sent, tests, naming, call>>
  BY DEF phonevars
<1>2. PhoneShapes /\ CallsFit
  BY DEF InboxInv
<1>3. PhoneShapes'
  BY <1>1, <1>2 DEF PhoneShapes
<1>4. naming \subseteq Replies
  BY <1>2 DEF PhoneShapes
<1>5. CallsFit'
  BY <1>1, <1>2, <1>4 DEF CallsFit
<1> QED
  BY <1>3, <1>5

\* The mailboxes are finite.
LEMMA ReceivedIsFinite ==
  ASSUME MailInv, NEW b \in MailBoxes
  PROVE  IsFiniteSet(Received(b)) /\ Cardinality(Received(b)) \in Nat
BY FS_CardinalityType DEF MailInv, RepliesFit

\* Without anything received, a step is forward.
LEMMA StillIsForward ==
  ASSUME MailInv, UNCHANGED <<reply, clock>>, unread \subseteq unread',
         \A r \in Replies : stored'[r] = 0 => stored[r] = 0
  PROVE  /\ Forward /\ RepliesFit' /\ \A b : Received(b)' = Received(b)
<1>1. \A b : Received(b)' = Received(b)
  BY DEF Received
<1>2. RepliesFit'
  BY <1>1 DEF MailInv, RepliesFit
<1>3. clock' \in Nat /\ clock' >= clock
  BY DEF MailInv, InboxShapes
<1>4. \A b \in MailBoxes : Cardinality(Received(b))' = Cardinality(Received(b)) /\ Cardinality(Received(b)) \in Nat
  BY <1>1, ReceivedIsFinite
<1>5. \A b \in MailBoxes : Cardinality(Received(b))' >= Cardinality(Received(b))
  BY <1>4
<1>6. Forward
  BY <1>1, <1>3, <1>4, <1>5 DEF Forward
<1> QED
  BY <1>1, <1>2, <1>6

\* The customer changes the setting: the cursor stays or starts anew.
LEMMA SettingStep ==
  ASSUME InboxInv, UNCHANGED <<reply, clock, stored, platform, job>>, UNCHANGED phonevars,
         unread \subseteq unread', unread' \subseteq Replies, SameAccount,
         setting' \in EmailSettings, connections' \in Nat, graph' \in [id : Nat, box : GraphBoxes \cup {NoBox}],
         SettingFits', setting'.cursor \in {setting.cursor, NoCursor}
  PROVE  InboxInv'
<1>1. MailInv /\ StoredFits /\ ReplyStoredOnce
  BY DEF InboxInv
<1>2. InboxShapes'
  BY <1>1 DEF MailInv, InboxShapes
<1>3. Forward /\ RepliesFit'
  BY <1>1, StillIsForward
<1>4. UidRead(PlatformBox, platform, {})' /\ RoundsFit'
  BY <1>1, <1>2, <1>3, ForwardKeeps DEF MailInv, RoundsFit
<1>5. CursorFits(setting.cursor)'
  <2>1. CASE setting'.cursor = setting.cursor
    BY <1>1, <1>2, <1>3, <2>1, ForwardKeeps DEF MailInv
  <2>2. CASE setting'.cursor = NoCursor
    BY <2>2 DEF NoCursor, CursorFits
  <2> QED
    BY <2>1, <2>2
<1>6. PhoneShapes' /\ CallsFit'
  BY CallsStay
<1>7. StoredFits' /\ ReplyStoredOnce'
  BY <1>1 DEF StoredFits, ReplyStoredOnce, phonevars
<1> QED
  BY <1>2, <1>3, <1>4, <1>5, <1>6, <1>7 DEF InboxInv, MailInv, CursorsFit

\* The settings there are.
LEMMA SettingsAre ==
  /\ NoCursor \in Cursors /\ Platform \in EmailSettings /\ Platform.box = NoBox /\ Platform.connection = 0
  /\ Platform.provider = "zahlmeister_email" /\ Platform.cursor = NoCursor /\ NotReceived \in Answers
  /\ IdleJob \in Rounds /\ IdleJob.pc = "idle" /\ IdleJob.batch = {}
<1>1. NoCursor \in Cursors
  BY DEF NoCursor, Cursors, Boxes
<1>2. Platform \in EmailSettings /\ Platform.box = NoBox /\ Platform.connection = 0
      /\ Platform.provider = "zahlmeister_email" /\ Platform.cursor = NoCursor
  BY <1>1 DEF Platform, EmailSettings, Boxes
<1>3. NotReceived \in Answers
  BY DEF NotReceived, Answers, Boxes
<1>4. IdleJob \in Rounds /\ IdleJob.pc = "idle" /\ IdleJob.batch = {}
  BY <1>2 DEF IdleJob, Rounds
<1> QED
  BY <1>1, <1>2, <1>3, <1>4

\* Every change of the setting.
LEMMA ChangesKeep ==
  ASSUME InboxInv, UNCHANGED phonevars,
         \/ \E b \in ImapBoxes : UseImap(b)
         \/ \E b \in GraphBoxes : SignInGraph(b)
         \/ UseGraph \/ UsePlatform \/ DisconnectGraph
  PROVE  InboxInv'
<1>1. MailInv /\ InboxShapes /\ SettingFits /\ setting \in EmailSettings /\ setting.cursor \in Cursors
      /\ graph \in [id : Nat, box : GraphBoxes \cup {NoBox}] /\ connections \in Nat /\ unread \subseteq Replies
  BY DEF InboxInv, MailInv, InboxShapes, EmailSettings
<1>2. ImapBoxes \subseteq Boxes /\ NoBox \in Boxes /\ NoBox \notin ImapBoxes /\ NoBox \notin GraphBoxes
  BY BoxesDiffer DEF Boxes, MailBoxes
<1>3. UNCHANGED <<reply, clock, stored, platform, job>>
  BY DEF UseImap, SignInGraph, UseGraph, UsePlatform, DisconnectGraph, SameInbox
<1>4. ASSUME NEW b \in ImapBoxes, UseImap(b)
      PROVE  InboxInv'
  <2> DEFINE c == IF setting.provider = "smtp_imap" THEN setting.cursor ELSE NoCursor
  <2>1. /\ setting' = [provider |-> "smtp_imap", box |-> b, connection |-> 0, cursor |-> c]
        /\ UNCHANGED <<graph, connections, unread>>
    BY <1>4 DEF UseImap, SameInbox
  <2>2. c \in Cursors /\ c \in {setting.cursor, NoCursor}
    BY <1>1, SettingsAre
  <2> HIDE DEF c
  <2>3. setting' \in EmailSettings /\ setting'.cursor = c
    BY <1>2, <2>1, <2>2 DEF EmailSettings
  <2>4. SettingFits'
    BY <1>1, <2>1 DEF SettingFits
  <2>5. SameAccount
    BY <2>1 DEF SameAccount
  <2> QED
    BY <1>1, <1>3, <2>1, <2>2, <2>3, <2>4, <2>5, SettingStep
<1>5. ASSUME NEW b \in GraphBoxes, SignInGraph(b)
      PROVE  InboxInv'
  <2>1. /\ graph' = [id |-> connections', box |-> b]
        /\ setting' = [provider |-> "microsoft365", box |-> NoBox, connection |-> connections', cursor |-> NoCursor]
        /\ connections' = IF graph.id = 0 THEN connections + 1 ELSE connections
        /\ unread' = IF graph.box = b THEN unread ELSE unread \cup Received(b)
    BY <1>5 DEF SignInGraph
  <2>2. connections' \in Nat /\ connections' # 0
    BY <1>1, <2>1 DEF SettingFits
  <2>3. setting' \in EmailSettings /\ setting'.cursor = NoCursor /\ graph' \in [id : Nat, box : GraphBoxes \cup {NoBox}]
    BY <1>2, <2>1, <2>2, SettingsAre DEF EmailSettings
  <2>4. SettingFits'
    BY <1>2, <2>1, <2>2 DEF SettingFits
  <2>5. unread \subseteq unread' /\ unread' \subseteq Replies
    BY <1>1, <2>1 DEF Received
  <2>6. SameAccount
    <3>1. graph'.box = b
      BY <2>1
    <3>2. Received(graph.box)' = Received(b)
      BY <1>3, <3>1 DEF Received
    <3> QED
      BY <2>1, <3>1, <3>2 DEF SameAccount
  <2> QED
    BY <1>3, <2>2, <2>3, <2>4, <2>5, <2>6, SettingStep
<1>6. CASE UseGraph
  <2>1. /\ graph.id # 0 /\ UNCHANGED <<graph, connections, unread>>
        /\ setting' = [provider |-> "microsoft365", box |-> NoBox, connection |-> graph.id, cursor |-> NoCursor]
    BY <1>6 DEF UseGraph, SameInbox
  <2>2. setting' \in EmailSettings /\ setting'.cursor = NoCursor
    BY <1>1, <1>2, <2>1, SettingsAre DEF EmailSettings
  <2>3. SettingFits' /\ SameAccount
    BY <1>1, <1>2, <2>1 DEF SettingFits, SameAccount
  <2> QED
    BY <1>1, <1>3, <2>1, <2>2, <2>3, SettingStep
<1>7. CASE UsePlatform
  <2>1. setting' = Platform /\ UNCHANGED <<graph, connections, unread>>
    BY <1>7 DEF UsePlatform, SameInbox
  <2>2. SettingFits' /\ SameAccount
    BY <1>1, <1>2, <2>1, SettingsAre DEF SettingFits, SameAccount
  <2> QED
    BY <1>1, <1>3, <2>1, <2>2, SettingsAre, SettingStep
<1>8. CASE DisconnectGraph
  <2>1. /\ graph.id # 0 /\ graph' = [id |-> 0, box |-> NoBox] /\ UNCHANGED <<connections, unread>>
        /\ setting' = IF setting.connection = graph.id THEN Platform ELSE setting
    BY <1>8 DEF DisconnectGraph, SameInbox
  <2>2. setting' \in EmailSettings /\ setting'.cursor \in {setting.cursor, NoCursor}
    BY <1>1, <2>1, SettingsAre
  <2>3. SettingFits'
    BY <1>1, <1>2, <2>1, SettingsAre DEF SettingFits
  <2>4. SameAccount /\ graph' \in [id : Nat, box : GraphBoxes \cup {NoBox}]
    BY <2>1 DEF SameAccount
  <2> QED
    BY <1>1, <1>3, <2>1, <2>2, <2>3, <2>4, SettingStep
<1> QED
  BY <1>4, <1>5, <1>6, <1>7, <1>8

-----------------------------------------------------------------------------
(* Answers arrive *)

\* One more reply, in a mailbox or by phone, or one that is shown.
LEMMA ReplyStep ==
  ASSUME InboxInv, UNCHANGED <<setting, graph, connections, stored, job, platform, unread>>,
         clock' \in Nat, clock' >= clock, reply' \in [Replies -> Answers], RepliesFit', Forward,
         \A r \in Replies : reply'[r].box = NoBox => reply[r].box = NoBox,
         \A r \in Replies : reply'[r].box # reply[r].box => reply[r].box = NoBox,
         PhoneShapes', CallsFit', \A r \in naming' : r \in naming \/ reply[r].box = NoBox
  PROVE  InboxInv'
<1>1. MailInv /\ StoredFits /\ ReplyStoredOnce
  BY DEF InboxInv
<1>2. InboxShapes'
  BY <1>1 DEF MailInv, InboxShapes
<1>3. SameAccount
  BY DEF SameAccount
<1>4. CursorsFit' /\ RoundsFit'
  BY <1>1, <1>2, <1>3, ForwardKeeps DEF MailInv, CursorsFit, RoundsFit
<1>5. SettingFits'
  BY <1>1 DEF MailInv, SettingFits
<1>6. StoredFits'
  BY <1>1 DEF StoredFits
<1>7. ReplyStoredOnce'
  <2>1. SUFFICES ASSUME NEW r \in Replies, reply'[r].box = Infobip => r \in naming'
                 PROVE  stored[r] <= 1
    BY DEF ReplyStoredOnce
  <2>2. CASE reply[r].box = NoBox
    BY <1>1, <2>2 DEF StoredFits
  <2>3. CASE reply[r].box # NoBox
    <3>1. reply'[r].box = reply[r].box
      BY <2>3
    <3>2. reply[r].box = Infobip => r \in naming
      BY <2>1, <2>3, <3>1
    <3> QED
      BY <1>1, <3>2 DEF ReplyStoredOnce
  <2> QED
    BY <2>2, <2>3
<1> QED
  BY <1>2, <1>4, <1>5, <1>6, <1>7 DEF InboxInv, MailInv

\* An answer arrives in the mailbox of the setting.
LEMMA ReceiveKeeps ==
  ASSUME InboxInv, UNCHANGED phonevars, NEW r \in Replies, Receive(r)
  PROVE  InboxInv'
<1>1. MailInv /\ InboxShapes /\ RepliesFit /\ reply \in [Replies -> Answers] /\ clock \in Nat
  BY DEF InboxInv, MailInv, InboxShapes
<1>2. PICK b \in MailBoxes, shown \in BOOLEAN :
        /\ reply[r] = NotReceived
        /\ \A q \in Replies : reply[q].box # NoBox /\ ~reply[q].shown => reply[q].time + Overlap > clock
        /\ clock' = clock + 1 /\ (b \notin GraphBoxes => shown)
        /\ reply' = [reply EXCEPT ![r] = [box |-> b, uid |-> Cardinality(Received(b)) + 1, time |-> clock + 1,
                                          shown |-> shown]]
  BY DEF Receive, MailBoxes
<1>3. UNCHANGED <<setting, graph, connections, stored, job, platform, unread>>
  BY DEF Receive, SameSetting
<1>4. PICK n \in Nat : n = Cardinality(Received(b))
  BY <1>1, ReceivedIsFinite
<1>5. PICK new \in Answers : new = [box |-> b, uid |-> n + 1, time |-> clock + 1, shown |-> shown]
  <2>1. n + 1 \in Nat /\ clock + 1 \in Nat /\ b \in Boxes
    BY <1>1 DEF Boxes
  <2>2. [box |-> b, uid |-> n + 1, time |-> clock + 1, shown |-> shown] \in Answers
    BY <2>1 DEF Answers
  <2> QED
    BY <2>2
<1>6. /\ new.box = b /\ new.uid = n + 1 /\ new.time = clock + 1 /\ b # NoBox /\ b # Infobip
      /\ b \in UidBoxes => new.shown
  <2>1. b \in UidBoxes => b \notin GraphBoxes
    BY BoxesDiffer, InboxAssumption DEF UidBoxes
  <2>2. new.shown = shown
    BY <1>5
  <2>3. b \in UidBoxes => new.shown
    BY <1>2, <2>1, <2>2
  <2> QED
    BY <1>5, <2>3, BoxesDiffer
<1>7. /\ reply' \in [Replies -> Answers] /\ reply'[r] = new /\ reply[r].box = NoBox
      /\ \A q \in Replies \ {r} : reply'[q] = reply[q]
  <2>1. reply' = [reply EXCEPT ![r] = new]
    BY <1>2, <1>4, <1>5
  <2> QED
    BY <1>1, <1>2, <2>1 DEF NotReceived
<1>8. /\ Received(b)' = Received(b) \cup {r} /\ r \notin Received(b)
      /\ \A a \in MailBoxes \ {b} : Received(a)' = Received(a)
  BY <1>6, <1>7, BoxesDiffer DEF Received
<1>9. /\ IsFiniteSet(Received(b)') /\ Cardinality(Received(b)') = n + 1
      /\ \A a \in MailBoxes \ {b} : Cardinality(Received(a)') = Cardinality(Received(a))
      /\ \A a \in MailBoxes : Cardinality(Received(a)) \in Nat /\ IsFiniteSet(Received(a)')
  BY <1>1, <1>4, <1>8, ReceivedIsFinite, FS_AddElement
<1>10. \A a \in MailBoxes : Cardinality(Received(a)') \in Nat /\ Cardinality(Received(a)') >= Cardinality(Received(a))
  BY <1>4, <1>9
<1>11. RepliesFit'
  <2>1. ASSUME NEW q \in Replies
        PROVE  /\ reply'[q].box = NoBox => reply'[q] = NotReceived
               /\ reply'[q].box \in MailBoxes => /\ reply'[q].uid \in 1 .. Cardinality(Received(reply[q].box)')
                                                 /\ reply'[q].time <= clock'
               /\ reply'[q].box # NoBox /\ ~reply'[q].shown => reply'[q].time + Overlap >= clock'
               /\ reply'[q].box \in UidBoxes => reply'[q].shown
    <3>1. CASE q = r
      <4>1. Received(reply[q].box)' = Received(b)'
        BY <1>6, <1>7, <3>1 DEF Received
      <4>2. reply'[q].time = clock' /\ reply'[q].uid = n + 1 /\ reply'[q].box # NoBox
        BY <1>2, <1>6, <1>7, <3>1
      <4> QED
        BY <1>1, <1>2, <1>4, <1>6, <1>7, <1>9, <3>1, <4>1, <4>2, InboxAssumption
    <3>2. CASE q # r
      <4>1. reply'[q] = reply[q]
        BY <1>7, <3>2
      <4>2. reply[q] \in Answers
        BY <1>1
      <4>3. reply[q].box = NoBox => reply[q] = NotReceived
        BY <1>1 DEF RepliesFit
      <4>4. ASSUME reply[q].box \in MailBoxes
            PROVE  reply'[q].uid \in 1 .. Cardinality(Received(reply[q].box)') /\ reply'[q].time <= clock'
        <5>1. reply[q].uid \in 1 .. Cardinality(Received(reply[q].box)) /\ reply[q].time <= clock
          BY <1>1, <4>4 DEF RepliesFit
        <5>2. PICK a \in MailBoxes : a = reply[q].box
          BY <4>4
        <5>3. Received(reply[q].box)' = Received(a)'
          BY <4>1, <5>2 DEF Received
        <5> QED
          BY <1>1, <1>2, <1>9, <1>10, <4>1, <4>2, <5>1, <5>2, <5>3 DEF Answers
      <4>5. ASSUME reply[q].box # NoBox, ~reply[q].shown
            PROVE  reply'[q].time + Overlap >= clock'
        <5>1. reply[q].time + Overlap > clock /\ clock' = clock + 1
          BY <1>2, <4>5
        <5>2. reply[q].time \in Nat
          BY <4>2 DEF Answers
        <5> QED
          BY <1>1, <4>1, <5>1, <5>2, InboxAssumption
      <4>6. reply[q].box \in UidBoxes => reply[q].shown
        BY <1>1 DEF RepliesFit
      <4> QED
        BY <4>1, <4>3, <4>4, <4>5, <4>6
    <3> QED
      BY <3>1, <3>2
  <2> QED
    BY <1>9, <2>1 DEF RepliesFit
<1>12. Forward
  <2>1. ASSUME NEW a \in MailBoxes, NEW q \in Received(a)'
        PROVE  \/ q \in Received(a) /\ reply'[q].uid = reply[q].uid /\ reply'[q].time = reply[q].time
               \/ reply'[q].uid > Cardinality(Received(a)) /\ reply'[q].time >= clock
    <3>1. q \in Replies /\ reply'[q].box = a
      BY <2>1 DEF Received
    <3>2. CASE q = r
      BY <1>1, <1>4, <1>6, <1>7, <3>1, <3>2
    <3>3. CASE q # r
      BY <1>7, <3>1, <3>3 DEF Received
    <3> QED
      BY <3>2, <3>3
  <2>2. clock' \in Nat /\ clock' >= clock
    BY <1>1, <1>2
  <2>3. \A q \in Replies : /\ stored'[q] = 0 => stored[q] = 0
                           /\ reply[q].box # NoBox => reply'[q].box = reply[q].box
    BY <1>3, <1>7
  <2> QED
    BY <1>3, <1>9, <1>10, <2>1, <2>2, <2>3 DEF Forward
<1>13. PhoneShapes' /\ CallsFit'
  BY <1>3, <1>7, BoxesDiffer, CallsStay
<1>14. naming' = naming
  BY DEF phonevars
<1> QED
  BY <1>1, <1>2, <1>3, <1>6, <1>7, <1>11, <1>12, <1>13, <1>14, ReplyStep

\* A reply that changes neither its mailbox, its UID nor its time, or is one by phone.
LEMMA SameMailboxes ==
  ASSUME MailInv, UNCHANGED <<clock, stored, unread>>, NEW r \in Replies, NEW new \in Answers,
         reply' = [reply EXCEPT ![r] = new], new.shown,
         \/ reply[r].box # NoBox /\ new.box = reply[r].box /\ new.uid = reply[r].uid /\ new.time = reply[r].time
         \/ reply[r].box = NoBox /\ new.box = Infobip
  PROVE  /\ reply' \in [Replies -> Answers] /\ RepliesFit' /\ Forward
         /\ \A q \in Replies : reply'[q].box = NoBox => reply[q].box = NoBox
         /\ \A q \in Replies : reply'[q].box # reply[q].box => reply[q].box = NoBox
         /\ \A q \in Replies : reply[q].box # NoBox => reply'[q].box = reply[q].box
<1>1. reply \in [Replies -> Answers] /\ RepliesFit /\ clock \in Nat
  BY DEF MailInv, InboxShapes
<1>2. reply' \in [Replies -> Answers] /\ reply'[r] = new /\ \A q \in Replies \ {r} : reply'[q] = reply[q]
  BY <1>1
<1>3. \A b \in MailBoxes : Received(b)' = Received(b)
  BY <1>2, BoxesDiffer DEF Received
<1>4. \A b \in MailBoxes : Cardinality(Received(b))' = Cardinality(Received(b))
  BY <1>3
<1>5. ASSUME NEW q \in Replies
      PROVE  /\ reply'[q].box = NoBox => reply[q].box = NoBox /\ reply'[q] = NotReceived
             /\ reply'[q].box # reply[q].box => reply[q].box = NoBox
             /\ reply[q].box # NoBox => reply'[q].box = reply[q].box
             /\ reply'[q].box \in MailBoxes => reply'[q].box = reply[q].box /\ reply'[q].uid = reply[q].uid
                                               /\ reply'[q].time = reply[q].time
             /\ reply'[q].box # NoBox /\ ~reply'[q].shown => reply'[q] = reply[q]
             /\ reply'[q].box \in UidBoxes => reply'[q].shown
  <2>1. CASE q = r
    BY <1>2, <2>1, BoxesDiffer
  <2>2. CASE q # r
    BY <1>1, <1>2, <2>2 DEF RepliesFit
  <2> QED
    BY <2>1, <2>2
<1>6. RepliesFit'
  <2>1. \A b \in MailBoxes : IsFiniteSet(Received(b)')
    BY <1>1, <1>3 DEF RepliesFit
  <2>2. ASSUME NEW q \in Replies, reply'[q].box \in MailBoxes
        PROVE  reply'[q].uid \in 1 .. Cardinality(Received(reply[q].box)') /\ reply'[q].time <= clock'
    <3>1. PICK b \in MailBoxes : b = reply[q].box
      BY <1>5, <2>2
    <3>2. reply'[q].box = b
      BY <1>5, <2>2, <3>1
    <3>3. Received(reply[q].box)' = Received(b)'
      BY <3>2 DEF Received
    <3>4. reply[q].uid \in 1 .. Cardinality(Received(b)) /\ reply[q].time <= clock
      BY <1>1, <3>1 DEF RepliesFit
    <3> QED
      BY <1>4, <1>5, <2>2, <3>3, <3>4
  <2>3. \A q \in Replies : reply'[q].box # NoBox /\ ~reply'[q].shown => reply'[q].time + Overlap >= clock'
    BY <1>1, <1>5 DEF RepliesFit
  <2> QED
    BY <1>5, <2>1, <2>2, <2>3 DEF RepliesFit
<1>7. Forward
  <2>1. \A b \in MailBoxes : /\ Cardinality(Received(b))' \in Nat /\ Cardinality(Received(b)) \in Nat
                             /\ Cardinality(Received(b))' >= Cardinality(Received(b))
    BY <1>4, ReceivedIsFinite
  <2>2. \A b \in MailBoxes : \A q \in Received(b)' :
          q \in Received(b) /\ reply'[q].uid = reply[q].uid /\ reply'[q].time = reply[q].time
    BY <1>3, <1>5 DEF Received
  <2>3. clock' \in Nat /\ clock' >= clock
    BY <1>1
  <2> QED
    BY <1>5, <2>1, <2>2, <2>3 DEF Forward
<1> QED
  BY <1>2, <1>5, <1>6, <1>7

\* Graph shows a message; a reply comes by phone.
LEMMA ShowKeeps ==
  ASSUME InboxInv, UNCHANGED phonevars, NEW r \in Replies, Show(r)
  PROVE  InboxInv'
<1>1. MailInv /\ reply \in [Replies -> Answers] /\ clock \in Nat
  BY DEF InboxInv, MailInv, InboxShapes
<1>2. /\ reply[r].box # NoBox /\ reply' = [reply EXCEPT ![r] = [reply[r] EXCEPT !.shown = TRUE]]
      /\ UNCHANGED <<clock, setting, graph, connections, stored, job, platform, unread>>
  BY DEF Show, SameSetting
<1>3. PICK new \in Answers : new = [reply[r] EXCEPT !.shown = TRUE]
  BY <1>1 DEF Answers
<1>4. new.shown /\ new.box = reply[r].box /\ new.uid = reply[r].uid /\ new.time = reply[r].time
  BY <1>1, <1>3 DEF Answers
<1>5. reply' = [reply EXCEPT ![r] = new]
  BY <1>2, <1>3
<1>6. /\ reply' \in [Replies -> Answers] /\ RepliesFit' /\ Forward
      /\ \A q \in Replies : reply'[q].box = NoBox => reply[q].box = NoBox
      /\ \A q \in Replies : reply'[q].box # reply[q].box => reply[q].box = NoBox
      /\ \A q \in Replies : reply[q].box # NoBox => reply'[q].box = reply[q].box
  BY <1>1, <1>2, <1>4, <1>5, SameMailboxes
<1>7. PhoneShapes' /\ CallsFit'
  BY <1>2, <1>6, BoxesDiffer, CallsStay
<1>8. naming' = naming /\ clock' >= clock /\ clock' \in Nat
  BY <1>1, <1>2 DEF phonevars
<1> QED
  BY <1>2, <1>6, <1>7, <1>8, ReplyStep

\* A reply by phone reaches Infobip.
LEMMA ReceivePhoneKeeps ==
  ASSUME InboxInv, UNCHANGED mailvars, NEW r \in Replies, NEW names \in BOOLEAN, ReceivePhone(r, names)
  PROVE  InboxInv'
<1>1. MailInv /\ reply \in [Replies -> Answers] /\ clock \in Nat /\ PhoneShapes /\ CallsFit
  BY DEF InboxInv, MailInv, InboxShapes
<1>2. /\ reply[r] = NotReceived /\ UNCHANGED <<clock, setting, graph, connections, stored, job, platform, unread>>
      /\ reply' = [reply EXCEPT ![r] = [reply[r] EXCEPT !.box = Infobip, !.shown = TRUE]]
      /\ naming' \in {naming, naming \cup {r}} /\ UNCHANGED <<sent, tests, call>>
  BY DEF ReceivePhone, mailvars
<1>3. PICK new \in Answers : new = [reply[r] EXCEPT !.box = Infobip, !.shown = TRUE]
  <2>1. [reply[r] EXCEPT !.box = Infobip, !.shown = TRUE] \in Answers
    BY <1>1 DEF Answers, Boxes
  <2> QED
    BY <2>1
<1>4. new.shown /\ new.box = Infobip /\ reply[r].box = NoBox
  BY <1>1, <1>2, <1>3 DEF Answers, NotReceived
<1>5. reply' = [reply EXCEPT ![r] = new]
  BY <1>2, <1>3
<1>6. /\ reply' \in [Replies -> Answers] /\ RepliesFit' /\ Forward
      /\ \A q \in Replies : reply'[q].box = NoBox => reply[q].box = NoBox
      /\ \A q \in Replies : reply'[q].box # reply[q].box => reply[q].box = NoBox
      /\ \A q \in Replies : reply[q].box # NoBox => reply'[q].box = reply[q].box
  BY <1>1, <1>2, <1>4, <1>5, SameMailboxes
<1>7. PhoneShapes'
  BY <1>1, <1>2 DEF PhoneShapes
<1>8. CallsFit'
  <2>1. reply'[r].box = Infobip /\ naming \subseteq Replies
    BY <1>1, <1>4, <1>5 DEF PhoneShapes
  <2>2. \A c \in Calls : call[c].pc # "idle" => call[c].reply # r
    BY <1>1, <1>4, BoxesDiffer DEF CallsFit
  <2>3. \A q \in naming' : reply'[q].box = Infobip
    BY <1>1, <1>2, <1>6, <2>1, BoxesDiffer DEF CallsFit
  <2>4. ASSUME NEW c \in Calls, call[c].pc # "idle"
        PROVE  /\ call[c].reply \in Replies /\ reply'[call[c].reply].box = Infobip
               /\ call[c].reply \in naming' => call[c].parent = 1
    <3>1. call[c].reply \in Replies /\ reply[call[c].reply].box = Infobip
      BY <1>1, <2>4 DEF CallsFit
    <3>2. call[c].reply \in naming' => call[c].reply \in naming
      BY <1>2, <2>2, <2>4
    <3> QED
      BY <1>1, <1>6, <2>4, <3>1, <3>2, BoxesDiffer DEF CallsFit
  <2>5. ASSUME NEW c \in Calls, call[c].pc = "insert", ~call[c].duplicate, call[c].reply \in naming'
        PROVE  stored'[call[c].reply] = 0
    <3>1. call[c].reply \in naming
      BY <1>2, <2>2, <2>5
    <3> QED
      BY <1>1, <1>2, <2>5, <3>1 DEF CallsFit
  <2>6. \A c, d \in Calls : call[c].pc = "insert" /\ call[d].pc = "insert" /\ call[c].parent = call[d].parent => c = d
    BY <1>1 DEF CallsFit
  <2> QED
    BY <1>2, <2>3, <2>4, <2>5, <2>6 DEF CallsFit
<1>9. clock' >= clock /\ clock' \in Nat /\ \A q \in naming' : q \in naming \/ reply[q].box = NoBox
  BY <1>1, <1>2, <1>4
<1> QED
  BY <1>2, <1>6, <1>7, <1>8, <1>9, ReplyStep

-----------------------------------------------------------------------------
(* A round goes on *)

\* Of numbers, one is the least.
LEMMA LeastExists ==
  ASSUME NEW S, S \subseteq Nat, S # {}
  PROVE  \E n \in S : \A m \in S : n <= m
<1>1. IsWellFoundedOn(OpToRel(<, Nat), Nat)
  BY NatLessThanWellFounded
<1>2. PICK n \in S : \A m \in S : ~(<<m, n>> \in OpToRel(<, Nat))
  BY <1>1, WFMin
<1>3. \A m \in S : ~(m < n)
  BY <1>2 DEF OpToRel
<1> QED
  BY <1>3

\* Of bounded numbers, the maximum is one of them, and none is greater.
LEMMA MaxIs ==
  ASSUME NEW S, S \subseteq Nat, S # {}, NEW n \in Nat, \A x \in S : x <= n
  PROVE  Max(S) \in S /\ Max(S) \in Nat /\ \A x \in S : x <= Max(S)
<1> DEFINE T == {m \in Nat : \E x \in S : m = n - x}
<1>1. T \subseteq Nat /\ T # {}
  <2>1. PICK x \in S : x \in Nat /\ x <= n
    OBVIOUS
  <2>2. n - x \in T
    BY <2>1
  <2> QED
    BY <2>2
<1>2. PICK t \in T : \A m \in T : t <= m
  BY <1>1, LeastExists
<1>3. PICK x \in S : t = n - x
  BY <1>2
<1>4. \A y \in S : x >= y
  <2>1. SUFFICES ASSUME NEW y \in S
                 PROVE  x >= y
    OBVIOUS
  <2>2. n - y \in T /\ n - x <= n - y
    BY <1>2, <1>3
  <2> QED
    BY <2>2
<1>5. Max(S) \in S /\ \A y \in S : Max(S) >= y
  BY <1>4 DEF Max
<1> QED
  BY <1>5

\* A round takes a step: it may store, pass messages over and write a cursor that fits.
RoundTaken(j, x) ==
  /\ UNCHANGED phonevars /\ UNCHANGED <<reply, clock, graph, connections>>
  /\ job' = [job EXCEPT ![j] = x]
  /\ unread \subseteq unread' /\ unread' \subseteq Replies
  /\ setting' \in EmailSettings /\ setting'.provider = setting.provider /\ setting'.box = setting.box
  /\ setting'.connection = setting.connection /\ (setting' = setting \/ CursorFits(setting.cursor)')
  /\ platform' \in Nat /\ (platform' = platform \/ UidRead(PlatformBox, platform, {})')
  /\ stored' \in [Replies -> Nat]
  /\ \A r \in Replies : stored'[r] = stored[r] \/ (reply[r].box \in MailBoxes /\ stored'[r] = 1)

\* Such a step keeps the invariant when the round fits.
LEMMA RoundStep ==
  ASSUME InboxInv, NEW j \in Jobs, NEW x \in Rounds, RoundTaken(j, x), RoundFits(x)'
  PROVE  InboxInv'
<1> USE DEF RoundTaken
<1>1. MailInv /\ InboxShapes /\ StoredFits /\ ReplyStoredOnce
  BY DEF InboxInv, MailInv
<1>2. /\ job \in [Jobs -> Rounds] /\ job' \in [Jobs -> Rounds]
      /\ job'[j] = x /\ \A k \in Jobs \ {j} : job'[k] = job[k]
  BY <1>1 DEF InboxShapes
<1>3. InboxShapes'
  BY <1>1, <1>2 DEF InboxShapes
<1>4. \A r \in Replies : stored'[r] = 0 => stored[r] = 0
  OBVIOUS
<1>5. Forward /\ RepliesFit' /\ SameAccount
  BY <1>1, <1>4, StillIsForward DEF SameAccount
<1>6. CursorsFit /\ RoundsFit
  BY <1>1 DEF MailInv
<1>7. CursorsFit'
  BY <1>1, <1>3, <1>5, <1>6, ForwardKeeps DEF CursorsFit
<1>8. RoundsFit'
  <2>1. SUFFICES ASSUME NEW k \in Jobs
                 PROVE  RoundFits(job[k])'
    BY DEF RoundsFit
  <2>2. CASE k = j
    BY <1>2, <2>2
  <2>3. CASE k # j
    BY <1>1, <1>2, <1>3, <1>5, <1>6, <2>3, ForwardKeeps
  <2> QED
    BY <2>2, <2>3
<1>9. SettingFits'
  BY <1>1 DEF MailInv, SettingFits
<1>10. PhoneShapes' /\ CallsFit'
  BY BoxesDiffer, CallsStay
<1>11. StoredFits' /\ ReplyStoredOnce'
  BY <1>1, BoxesDiffer DEF StoredFits, ReplyStoredOnce, phonevars
<1> QED
  BY <1>3, <1>5, <1>7, <1>8, <1>9, <1>10, <1>11 DEF InboxInv, MailInv

\* A round ends.
LEMMA IdleFits == RoundFits(IdleJob)'
BY SettingsAre DEF RoundFits

\* A round starts with the cursor there is.
LEMMA StartKeeps ==
  ASSUME InboxInv, UNCHANGED phonevars, NEW j \in Jobs, Start(j) \/ StartPlatform(j)
  PROVE  InboxInv'
<1>1. MailInv /\ InboxShapes /\ SettingFits /\ CursorsFit
  BY DEF InboxInv, MailInv
<1>2. UNCHANGED <<reply, clock, graph, connections, unread, setting, platform, stored>>
  BY DEF Start, StartPlatform, SameInbox, SameSetting
<1>3. PICK copy \in EmailSettings :
        /\ job' = [job EXCEPT ![j] = [IdleJob EXCEPT !.pc = "fetch", !.copy = copy]]
        /\ CopyFits(copy) /\ CursorFits(copy.cursor)
  <2>1. CASE Start(j)
    <3>1. setting \in EmailSettings /\ CursorFits(setting.cursor)
      BY <1>1 DEF InboxShapes, CursorsFit
    <3>2. CopyFits(setting)
      BY <1>1, <2>1 DEF SettingFits, CopyFits, Start
    <3> QED
      BY <2>1, <3>1, <3>2 DEF Start
  <2>2. CASE StartPlatform(j)
    <3> DEFINE cursor == [kind |-> "uid", at |-> platform, of |-> PlatformBox]
               read == [Platform EXCEPT !.box = PlatformBox, !.cursor = cursor]
    <3>1. cursor \in Cursors /\ cursor.kind = "uid" /\ cursor.of = PlatformBox /\ cursor.at = platform
      BY <1>1 DEF InboxShapes, Cursors, Boxes, MailBoxes
    <3>2. /\ read \in EmailSettings /\ read.provider = "zahlmeister_email" /\ read.box = PlatformBox
          /\ read.cursor = cursor
      BY <3>1, SettingsAre DEF EmailSettings, Boxes, MailBoxes
    <3>3. job' = [job EXCEPT ![j] = [IdleJob EXCEPT !.pc = "fetch", !.copy = read]]
      BY <2>2 DEF StartPlatform
    <3> HIDE DEF cursor, read
    <3>4. CursorFits(cursor)
      BY <1>1, <3>1 DEF CursorFits, CursorsFit, UidBoxes
    <3>5. CopyFits(read)
      BY <3>1, <3>2 DEF CopyFits, Own
    <3> QED
      BY <3>2, <3>3, <3>4, <3>5
  <2> QED
    BY <2>1, <2>2
<1>4. PICK x \in Rounds : x = [IdleJob EXCEPT !.pc = "fetch", !.copy = copy]
  BY SettingsAre DEF Rounds
<1>5. x.pc = "fetch" /\ x.copy = copy /\ x.batch = {} /\ job' = [job EXCEPT ![j] = x]
  BY <1>3, <1>4, SettingsAre DEF Rounds
<1>6. PICK c \in Cursors : c = copy.cursor
  BY DEF EmailSettings
<1>7. InboxShapes'
  BY <1>1, <1>2, <1>5 DEF InboxShapes
<1>8. Forward /\ SameAccount
  BY <1>1, <1>2, StillIsForward DEF SameAccount
<1>9. CursorFits(c)'
  BY <1>1, <1>3, <1>6, <1>7, <1>8, CursorStays
<1>10. RoundFits(x)'
  BY <1>3, <1>5, <1>6, <1>9 DEF RoundFits, CopyFits, Own
<1>11. /\ setting' = setting /\ setting \in EmailSettings /\ platform' = platform /\ platform \in Nat
       /\ stored' = stored /\ stored \in [Replies -> Nat] /\ unread' = unread /\ unread \subseteq Replies
       /\ UNCHANGED <<reply, clock, graph, connections>>
  BY <1>1, <1>2 DEF InboxShapes
<1>12. RoundTaken(j, x)
  BY <1>5, <1>11 DEF RoundTaken
<1> QED
  BY <1>10, <1>12, RoundStep

\* What a round has read is its batch, and how far it went.
LEMMA ReadStep ==
  ASSUME InboxShapes, NEW j \in Jobs, NEW batch \in SUBSET Replies, NEW newest \in Nat, Read(j, batch, newest)
  PROVE  \E x \in Rounds : /\ job' = [job EXCEPT ![j] = x]
                           /\ x.pc = "store" /\ x.copy = job[j].copy /\ x.batch = batch /\ x.newest = newest
<1>1. PICK y \in Rounds : y = job[j]
  BY DEF InboxShapes
<1> DEFINE x == [y EXCEPT !.pc = "store", !.batch = batch, !.newest = newest]
<1>2. x \in Rounds /\ x.pc = "store" /\ x.copy = y.copy /\ x.batch = batch /\ x.newest = newest
  BY DEF Rounds
<1>3. job' = [job EXCEPT ![j] = x]
  BY <1>1 DEF Read
<1> QED
  BY <1>1, <1>2, <1>3

\* After the first round, what is fetched comes before what is left for the next.
LEMMA FetchesNext ==
  ASSUME MailInv, NEW b \in MailBoxes, NEW new \in SUBSET Received(b), NEW last \in Nat \ {0},
         NEW f \in UidsToFetch(new, last), NEW r \in new \ UidsToFetch(new, last)
  PROVE  reply[r].uid > reply[f].uid
<1> DEFINE Before(q) == {p \in new : reply[p].uid < reply[q].uid}
<1>1. IsFiniteSet(new)
  BY ReceivedIsFinite, FS_Subset
<1>2. f \in new /\ reply[f].uid \in Nat /\ reply[r].uid \in Nat /\ \A p \in new : reply[p].uid \in Nat
  BY DEF UidsToFetch, Received, MailInv, InboxShapes, Answers
<1>3. IsFiniteSet(Before(f)) /\ IsFiniteSet(Before(r))
  BY <1>1, FS_Subset
<1>4. Cardinality(Before(f)) \in Nat /\ Cardinality(Before(r)) \in Nat
  BY <1>3, FS_CardinalityType
<1>5. Cardinality(Before(f)) < Batch /\ ~(Cardinality(Before(r)) < Batch)
  BY DEF UidsToFetch
<1>6. ASSUME ~(reply[r].uid > reply[f].uid)
      PROVE  FALSE
  <2>1. Before(r) \subseteq Before(f)
    BY <1>2, <1>6
  <2>2. Cardinality(Before(r)) <= Cardinality(Before(f))
    BY <1>3, <2>1, FS_Subset
  <2> QED
    BY <1>4, <1>5, <2>2, InboxAssumption
<1> QED
  BY <1>6

\* A round reads an IMAP mailbox: what it passes by is in its batch, or was not delivered.
LEMMA FetchImapKeeps ==
  ASSUME InboxInv, UNCHANGED phonevars, NEW j \in Jobs, FetchImap(j)
  PROVE  InboxInv'
<1>1. MailInv /\ InboxShapes /\ RepliesFit /\ RoundsFit
  BY DEF InboxInv, MailInv
<1> DEFINE Copy == job[j].copy
           Last == IF Copy.cursor.kind = "uid" THEN Copy.cursor.at ELSE 0
           New == {r \in Visible(Copy.box) : reply[r].uid > Last}
           Found == UidsToFetch(New, Last)
           Fetched(last, new, found) ==
             \E failed \in {{}} \cup {{r} : r \in found} :
               /\ Read(j, found \ failed, Max({last} \cup {reply[r].uid : r \in found \ failed}))
               /\ unread' = unread \cup failed \cup (IF last = 0 THEN new \ found ELSE {})
<1>2. Fetched(Last, New, Found) /\ job[j].pc = "fetch" /\ Copy.provider # "microsoft365"
  BY DEF FetchImap, At
<1>3. Copy \in EmailSettings /\ Last \in Nat /\ New \subseteq Replies /\ Found \subseteq New
  <2>1. job[j] \in Rounds
    BY <1>1 DEF InboxShapes
  <2>2. Copy \in EmailSettings
    BY <2>1 DEF Rounds
  <2>3. Last \in Nat
    BY <2>2 DEF EmailSettings, Cursors
  <2>4. New \subseteq Replies
    BY DEF Visible, Received
  <2>5. Found \subseteq New
    BY DEF UidsToFetch
  <2> QED
    BY <2>2, <2>3, <2>4, <2>5
<1>4. PICK copy \in EmailSettings, last \in Nat, new \in SUBSET Replies, found \in SUBSET Replies :
        /\ found \subseteq new /\ Copy = copy /\ Last = last /\ New = new /\ Found = found
        /\ Fetched(last, new, found)
  <2> HIDE DEF Copy, Last, New, Found, Fetched
  <2> QED
    BY <1>2, <1>3
<1>5. /\ last = IF copy.cursor.kind = "uid" THEN copy.cursor.at ELSE 0
      /\ new = {r \in Visible(copy.box) : reply[r].uid > last}
  BY <1>4
<1>6. found = UidsToFetch(new, last) /\ found \subseteq new
  <2> HIDE DEF New, Last
  <2> QED
    BY <1>4
<1>7. PICK failed \in SUBSET found :
        /\ Read(j, found \ failed, Max({last} \cup {reply[r].uid : r \in found \ failed}))
        /\ unread' = unread \cup failed \cup (IF last = 0 THEN new \ found ELSE {})
  <2>1. Fetched(last, new, found)
    BY <1>4
  <2>2. \A failed \in {{}} \cup {{r} : r \in found} : failed \in SUBSET found
    OBVIOUS
  <2> QED
    BY ONLY <2>1, <2>2
<1> HIDE DEF Last, New, Found, Fetched
<1>8. UNCHANGED <<reply, clock, stored, platform, setting, graph, connections>>
  BY DEF FetchImap, SameSetting
<1>9. CopyFits(copy) /\ CursorFits(copy.cursor)
  BY <1>1, <1>2, <1>4 DEF RoundsFit, RoundFits
<1>10. PICK b \in UidBoxes : b = copy.box
  BY <1>2, <1>4, <1>9 DEF CopyFits, EmailSettings, UidBoxes
<1>11. b \in MailBoxes /\ b # NoBox
  BY BoxesDiffer DEF UidBoxes, MailBoxes
<1>12. PICK n \in Nat : n = Cardinality(Received(b))
  BY <1>1, <1>11, ReceivedIsFinite
<1>13. \A r \in Received(b) : reply[r].uid \in 1 .. n /\ reply[r].shown /\ r \in Replies /\ reply[r].box = b
  BY <1>1, <1>11, <1>12 DEF Received, RepliesFit
<1>14. new \subseteq Received(b)
  BY <1>5, <1>10 DEF Visible
<1>15. PICK S : S = {last} \cup {reply[r].uid : r \in found \ failed}
  OBVIOUS
<1>16. S \subseteq Nat /\ S # {} /\ \A s \in S : s <= last + n
  BY <1>6, <1>13, <1>14, <1>15
<1>17. PICK m \in Nat : m = Max(S) /\ m \in S /\ \A s \in S : s <= m
  <2>1. PICK k \in Nat : k = last + n
    OBVIOUS
  <2> QED
    BY <1>16, <2>1, MaxIs
<1>18. PICK x \in Rounds : /\ job' = [job EXCEPT ![j] = x]
                           /\ x.pc = "store" /\ x.copy = copy /\ x.batch = found \ failed /\ x.newest = m
  <2>1. Read(j, found \ failed, m) /\ found \ failed \in SUBSET Replies
    BY <1>7, <1>15, <1>17
  <2> QED
    BY <1>1, <1>4, <2>1, ReadStep
<1>19. unread \subseteq unread' /\ unread' \subseteq Replies /\ failed \subseteq unread'
  BY <1>1, <1>7 DEF InboxShapes
<1>20. ASSUME Own(copy)
       PROVE  UidRead(b, m, found \ failed)'
  <2>1. copy.cursor.kind = "uid" => UidRead(b, last, {})
    BY <1>5, <1>9, <1>10, <1>11, <1>20 DEF Own, CursorFits
  <2>2. last <= n /\ \A r \in Received(b) \ unread : stored[r] = 0 => reply[r].uid > last
    <3>1. CASE copy.cursor.kind = "uid"
      BY <1>12, <2>1, <3>1 DEF UidRead
    <3>2. CASE copy.cursor.kind # "uid"
      BY <1>5, <1>13, <3>2
    <3> QED
      BY <3>1, <3>2
  <2>3. m <= n
    BY <1>6, <1>13, <1>14, <1>15, <1>17, <2>2
  <2>4. ASSUME NEW r \in Received(b), r \notin unread', r \notin found \ failed, stored[r] = 0
        PROVE  reply[r].uid > m
    <3>1. r \in new /\ reply[r].uid > last
      BY <1>5, <1>10, <1>13, <1>19, <2>2, <2>4 DEF Visible
    <3>2. r \notin found
      BY <1>19, <2>4
    <3>3. last # 0
      BY <1>7, <2>4, <3>1, <3>2
    <3>4. \A f \in found : reply[r].uid > reply[f].uid
      BY <1>1, <1>6, <1>11, <1>14, <3>1, <3>2, <3>3, FetchesNext
    <3> QED
      BY <1>15, <1>17, <3>1, <3>4
  <2>5. Received(b)' = Received(b)
    BY <1>8 DEF Received
  <2>6. m <= Cardinality(Received(b)')
    BY <1>12, <2>3, <2>5
  <2>7. \A r \in Received(b)' : r \notin unread' /\ r \notin found \ failed /\ stored'[r] = 0 => reply'[r].uid > m
    BY <1>8, <2>4, <2>5
  <2> QED
    BY <2>6, <2>7 DEF UidRead
<1>21. RoundFits(x)'
  <2>1. \A r \in x.batch : reply'[r].box \in MailBoxes
    BY <1>6, <1>8, <1>11, <1>13, <1>14, <1>18
  <2>2. Own(x.copy) => UidRead(x.copy.box, x.newest, x.batch)'
    BY <1>10, <1>18, <1>20
  <2>3. CopyFits(x.copy) /\ x.copy.provider # "microsoft365" /\ x.pc = "store"
    BY <1>2, <1>4, <1>9, <1>18
  <2> QED
    BY <2>1, <2>2, <2>3 DEF RoundFits, CopyFits, Own
<1>22. RoundTaken(j, x)
  BY <1>1, <1>8, <1>18, <1>19 DEF RoundTaken, InboxShapes
<1> QED
  BY <1>21, <1>22, RoundStep

\* A round reads the account that is open: what it passes by is in its batch, not shown
\* yet and young, or older than a round without a cursor goes back.
LEMMA FetchGraphKeeps ==
  ASSUME InboxInv, UNCHANGED phonevars, NEW j \in Jobs, FetchGraph(j)
  PROVE  InboxInv'
<1>1. MailInv /\ InboxShapes /\ RepliesFit /\ RoundsFit /\ SettingFits /\ clock \in Nat
  BY DEF InboxInv, MailInv, InboxShapes
<1>2. PICK y \in Rounds : y = job[j]
  BY <1>1 DEF InboxShapes
<1>3. PICK since \in Since(y.copy) :
        ReadSince(j, since, {r \in Visible(graph.box) : reply[r].time >= since - Overlap})
  BY <1>2 DEF FetchGraph
<1>4. PICK found \in SUBSET Replies : found = {r \in Visible(graph.box) : reply[r].time >= since - Overlap}
  BY DEF Visible, Received
<1>5. /\ Read(j, found, Max({since} \cup {reply[r].time : r \in found}))
      /\ unread' = IF y.copy.cursor.kind = "time" THEN unread
                   ELSE unread \cup {r \in Received(graph.box) : reply[r].time < since - Overlap}
      /\ UNCHANGED <<reply, clock, stored, platform, setting, graph, connections>>
  <2>1. ReadSince(j, since, found)
    BY <1>3, <1>4
  <2> QED
    BY <1>2, <2>1 DEF ReadSince, SameSetting
<1>6. y.pc = "fetch" /\ y.copy.provider = "microsoft365" /\ y.copy.connection = graph.id
  BY <1>2 DEF FetchGraph, At
<1>7. y.copy \in EmailSettings /\ y.copy.cursor \in Cursors /\ CopyFits(y.copy) /\ CursorFits(y.copy.cursor)
  BY <1>1, <1>2, <1>6 DEF RoundsFit, RoundFits, Rounds, EmailSettings
<1>8. graph.box \in GraphBoxes /\ graph.box \in MailBoxes /\ graph.box # NoBox
  BY <1>1, <1>6, <1>7 DEF CopyFits, SettingFits, InboxShapes, MailBoxes
<1>9. since \in Nat /\ since <= clock /\ (y.copy.cursor.kind = "time" => TimeRead(since, {}))
  BY <1>1, <1>3, <1>7 DEF Since, CursorFits, TimeRead, Cursors
<1>10. \A r \in Received(graph.box) :
         /\ r \in Replies /\ reply[r].box = graph.box /\ reply[r].time \in Nat /\ reply[r].time <= clock
         /\ ~reply[r].shown => reply[r].time + Overlap >= clock
  BY <1>1, <1>8 DEF Received, RepliesFit, InboxShapes, Answers
<1>11. found \subseteq Received(graph.box)
  BY <1>4 DEF Visible
<1>12. PICK S : S = {since} \cup {reply[r].time : r \in found}
  OBVIOUS
<1>13. S \subseteq Nat /\ S # {} /\ \A s \in S : s <= clock
  BY <1>9, <1>10, <1>11, <1>12
<1>14. PICK m \in Nat : m = Max(S) /\ m <= clock
  <2>1. PICK n \in Nat : n = clock
    BY <1>1
  <2> QED
    BY <1>13, <2>1, MaxIs
<1>15. PICK x \in Rounds : /\ job' = [job EXCEPT ![j] = x]
                           /\ x.pc = "store" /\ x.copy = y.copy /\ x.batch = found /\ x.newest = m
  <2>1. Read(j, found, m)
    BY <1>5, <1>12, <1>14
  <2> QED
    BY <1>1, <1>2, <2>1, ReadStep
<1>16. unread \subseteq unread' /\ unread' \subseteq Replies
  BY <1>1, <1>5, <1>10 DEF InboxShapes
<1>17. ASSUME NEW r \in Received(graph.box), r \notin unread', r \notin found, stored[r] = 0
       PROVE  reply[r].time + Overlap >= m
  <2>1. CASE ~reply[r].shown
    BY <1>1, <1>10, <1>14, <2>1, InboxAssumption
  <2>2. CASE reply[r].shown
    <3>1. reply[r].time < since - Overlap
      BY <1>4, <1>9, <1>10, <1>17, <2>2, InboxAssumption DEF Visible
    <3>2. y.copy.cursor.kind = "time" /\ r \notin unread
      BY <1>5, <1>16, <1>17, <3>1
    <3>3. reply[r].time + Overlap >= since
      BY <1>8, <1>9, <1>17, <3>2 DEF TimeRead
    <3> QED
      BY <1>9, <1>10, <3>1, <3>3, InboxAssumption
  <2> QED
    BY <2>1, <2>2
<1>18. TimeRead(m, found)'
  <2>1. Received(graph.box)' = Received(graph.box)
    BY <1>5 DEF Received
  <2>2. m <= clock'
    BY <1>5, <1>14
  <2>3. \A r \in Received(graph.box)' : r \notin unread' /\ r \notin found /\ stored'[r] = 0 => reply'[r].time + Overlap >= m
    BY <1>5, <1>17, <2>1
  <2> QED
    BY <2>2, <2>3 DEF TimeRead
<1>19. RoundFits(x)'
  <2>1. \A r \in x.batch : reply'[r].box \in MailBoxes
    BY <1>5, <1>8, <1>10, <1>11, <1>15
  <2>2. TimeRead(x.newest, x.batch)'
    BY <1>15, <1>18
  <2>3. CopyFits(x.copy) /\ x.copy.provider = "microsoft365" /\ x.pc = "store"
    BY <1>6, <1>7, <1>15
  <2> QED
    BY <2>1, <2>2, <2>3 DEF RoundFits, CopyFits, Own
<1>20. RoundTaken(j, x)
  BY <1>1, <1>5, <1>15, <1>16 DEF RoundTaken, InboxShapes
<1> QED
  BY <1>19, <1>20, RoundStep

\* A round stores what it has read, each reply once.
LEMMA StoreKeeps ==
  ASSUME InboxInv, UNCHANGED phonevars, NEW j \in Jobs, Store(j)
  PROVE  InboxInv'
<1>1. MailInv /\ InboxShapes /\ RoundsFit
  BY DEF InboxInv, MailInv
<1>2. PICK y \in Rounds : y = job[j]
  BY <1>1 DEF InboxShapes
<1>3. PICK r \in y.batch :
        /\ y.pc = "store" /\ stored' = [stored EXCEPT ![r] = IF @ = 0 THEN 1 ELSE @]
        /\ job' = [job EXCEPT ![j].batch = @ \ {r}]
  BY <1>2 DEF Store, At
<1>4. UNCHANGED <<reply, clock, platform, unread, setting, graph, connections>>
  BY DEF Store, SameSetting
<1>5. RoundFits(y) /\ r \in Replies /\ reply[r].box \in MailBoxes /\ y.copy \in EmailSettings
  BY <1>1, <1>2, <1>3 DEF RoundsFit, RoundFits, Rounds
<1>6. PICK x \in Rounds : /\ job' = [job EXCEPT ![j] = x] /\ x.pc = "store" /\ x.copy = y.copy
                          /\ x.batch = y.batch \ {r} /\ x.newest = y.newest
  <2> DEFINE z == [y EXCEPT !.batch = y.batch \ {r}]
  <2>1. z \in Rounds /\ z.pc = "store" /\ z.copy = y.copy /\ z.batch = y.batch \ {r} /\ z.newest = y.newest
    BY <1>3 DEF Rounds
  <2>2. job' = [job EXCEPT ![j] = z]
    BY <1>2, <1>3
  <2> QED
    BY <2>1, <2>2
<1>7. /\ stored' \in [Replies -> Nat] /\ stored'[r] # 0
      /\ \A q \in Replies : stored'[q] = stored[q] \/ (q = r /\ stored'[q] = 1)
  BY <1>1, <1>3, <1>5 DEF InboxShapes
<1>8. \A q \in Replies : stored'[q] = 0 => stored[q] = 0 /\ q # r
  BY <1>7
<1>9. \A b : Received(b)' = Received(b)
  BY <1>4 DEF Received
<1>10. ASSUME y.copy.provider # "microsoft365", Own(y.copy)
       PROVE  UidRead(y.copy.box, y.newest, x.batch)'
  <2>1. UidRead(y.copy.box, y.newest, y.batch)
    BY <1>3, <1>5, <1>10 DEF RoundFits
  <2>2. PICK b : b = y.copy.box
    OBVIOUS
  <2>3. y.newest <= Cardinality(Received(b)')
    BY <1>9, <2>1, <2>2 DEF UidRead
  <2>4. \A q \in Received(b)' : q \notin unread' /\ q \notin x.batch /\ stored'[q] = 0 => reply'[q].uid > y.newest
    <3>1. \A q \in Received(b) : q \in Replies
      BY DEF Received
    <3> QED
      BY <1>4, <1>6, <1>8, <1>9, <2>1, <2>2, <3>1 DEF UidRead
  <2> QED
    BY <2>2, <2>3, <2>4 DEF UidRead
<1>11. ASSUME y.copy.provider = "microsoft365"
       PROVE  TimeRead(y.newest, x.batch)'
  <2>1. TimeRead(y.newest, y.batch)
    BY <1>3, <1>5, <1>11 DEF RoundFits
  <2>2. y.newest <= clock'
    BY <1>4, <2>1 DEF TimeRead
  <2>3. Received(graph.box)' = Received(graph.box)
    BY <1>4 DEF Received
  <2>4. graph'.box # NoBox => \A q \in Received(graph.box)' :
          q \notin unread' /\ q \notin x.batch /\ stored'[q] = 0 => reply'[q].time + Overlap >= y.newest
    <3>1. \A q \in Received(graph.box) : q \in Replies
      BY DEF Received
    <3> QED
      BY <1>4, <1>6, <1>8, <2>1, <2>3, <3>1 DEF TimeRead
  <2> QED
    BY <2>2, <2>4 DEF TimeRead
<1>12. RoundFits(x)'
  <2>1. \A q \in x.batch : reply'[q].box \in MailBoxes
    BY <1>4, <1>5, <1>6 DEF RoundFits
  <2>2. x.copy.provider # "microsoft365" /\ Own(x.copy) => UidRead(x.copy.box, x.newest, x.batch)'
    BY <1>6, <1>10
  <2>3. x.copy.provider = "microsoft365" => TimeRead(x.newest, x.batch)'
    BY <1>6, <1>11
  <2>4. CopyFits(x.copy) /\ x.pc = "store"
    BY <1>3, <1>5, <1>6 DEF RoundFits
  <2> QED
    BY <2>1, <2>2, <2>3, <2>4 DEF RoundFits, CopyFits, Own
<1>13. RoundTaken(j, x)
  BY <1>1, <1>4, <1>5, <1>6, <1>7 DEF RoundTaken, InboxShapes
<1> QED
  BY <1>12, <1>13, RoundStep

\* A round ends with its cursor written.
LEMMA WriteCursorKeeps ==
  ASSUME InboxInv, UNCHANGED phonevars, NEW j \in Jobs, WriteCursor(j)
  PROVE  InboxInv'
<1>1. MailInv /\ InboxShapes /\ RoundsFit
  BY DEF InboxInv, MailInv
<1>2. PICK y \in Rounds : y = job[j]
  BY <1>1 DEF InboxShapes
<1>3. /\ y.pc = "store" /\ y.batch = {} /\ y.copy.provider # "zahlmeister_email" /\ RoundFits(y)
      /\ y.copy \in EmailSettings /\ y.copy.cursor \in Cursors /\ y.newest \in Nat /\ CopyFits(y.copy)
  BY <1>1, <1>2 DEF WriteCursor, At, RoundsFit, RoundFits, Rounds, EmailSettings
<1>4. UNCHANGED <<reply, clock, stored, platform, unread, graph, connections>> /\ job' = [job EXCEPT ![j] = IdleJob]
  BY DEF WriteCursor, SameInbox
<1> DEFINE imap == y.copy.provider = "smtp_imap"
           of == IF imap /\ Own(y.copy) THEN y.copy.box ELSE NoBox
           written == [kind |-> IF imap THEN "uid" ELSE "time", at |-> y.newest, of |-> of]
<1>5. setting' = setting \/ setting' = [setting EXCEPT !.cursor = written]
  BY <1>2 DEF WriteCursor, Own
<1>6. of \in Boxes /\ (of # NoBox => imap /\ Own(y.copy) /\ of = y.copy.box)
  BY <1>3 DEF EmailSettings, Boxes
<1>7. PICK c \in Cursors : /\ c.kind = (IF imap THEN "uid" ELSE "time") /\ c.at = y.newest /\ c.of = of
                           /\ c = written
  <2>1. written \in Cursors
    <3> HIDE DEF of
    <3> QED
      BY <1>3, <1>6 DEF Cursors
  <2> QED
    BY <2>1
<1>8. Forward /\ SameAccount
  BY <1>1, <1>4, StillIsForward DEF SameAccount
<1> HIDE DEF of, written
<1>9. CursorFits(c)
  <2>1. ASSUME c.kind = "uid", c.of # NoBox
        PROVE  c.of \in UidBoxes /\ UidRead(c.of, c.at, {})
    <3>1. imap /\ Own(y.copy) /\ c.of = y.copy.box /\ y.copy.box \in ImapBoxes
      BY <1>3, <1>6, <1>7, <2>1 DEF CopyFits
    <3> QED
      BY <1>3, <1>7, <3>1 DEF RoundFits, UidBoxes
  <2>2. ASSUME c.kind = "time"
        PROVE  TimeRead(c.at, {})
    <3>1. y.copy.provider = "microsoft365"
      BY <1>3, <1>7, <2>2 DEF EmailSettings
    <3> QED
      BY <1>3, <1>7, <3>1 DEF RoundFits
  <2> QED
    BY <2>1, <2>2 DEF CursorFits
<1>10. /\ setting \in EmailSettings /\ setting' \in EmailSettings /\ setting'.provider = setting.provider
       /\ setting'.box = setting.box /\ setting'.connection = setting.connection
       /\ setting' = setting \/ setting'.cursor = c
  BY <1>1, <1>5, <1>7 DEF InboxShapes, EmailSettings
<1>11. InboxShapes'
  BY <1>1, <1>4, <1>10, SettingsAre DEF InboxShapes
<1>12. CursorFits(c)'
  BY <1>1, <1>8, <1>9, <1>11, CursorStays
<1>13. setting' = setting \/ CursorFits(setting.cursor)'
  BY <1>10, <1>12
<1>14. RoundTaken(j, IdleJob)
  BY <1>1, <1>4, <1>10, <1>13 DEF RoundTaken, InboxShapes
<1> QED
  BY <1>14, IdleFits, SettingsAre, RoundStep

\* A round of the platform's mailbox writes its cursor into the heartbeat.
LEMMA WritePlatformCursorKeeps ==
  ASSUME InboxInv, UNCHANGED phonevars, NEW j \in Jobs, WritePlatformCursor(j)
  PROVE  InboxInv'
<1>1. MailInv /\ InboxShapes /\ RoundsFit
  BY DEF InboxInv, MailInv
<1>2. PICK y \in Rounds : y = job[j]
  BY <1>1 DEF InboxShapes
<1>3. y.pc = "store" /\ y.batch = {} /\ y.copy.provider = "zahlmeister_email" /\ RoundFits(y) /\ y.newest \in Nat
  BY <1>1, <1>2 DEF WritePlatformCursor, At, RoundsFit, Rounds
<1>4. /\ UNCHANGED <<reply, clock, stored, unread, setting, graph, connections>>
      /\ platform' = y.newest /\ job' = [job EXCEPT ![j] = IdleJob]
  BY <1>2 DEF WritePlatformCursor, SameSetting
<1>5. UidRead(PlatformBox, y.newest, {})
  BY <1>3 DEF RoundFits, CopyFits
<1>6. Forward
  BY <1>1, <1>4, StillIsForward
<1>7. InboxShapes'
  BY <1>1, <1>3, <1>4, SettingsAre DEF InboxShapes
<1>8. PICK n \in Nat : n = y.newest
  BY <1>3
<1>9. UidRead(PlatformBox, n, {})'
  BY <1>1, <1>5, <1>6, <1>7, <1>8, ReadStays DEF MailBoxes
<1>10. UidRead(PlatformBox, platform, {})'
  BY <1>4, <1>8, <1>9
<1>11. RoundTaken(j, IdleJob)
  BY <1>1, <1>4, <1>7, <1>10 DEF RoundTaken, InboxShapes
<1> QED
  BY <1>11, IdleFits, SettingsAre, RoundStep

\* A round that fails leaves the cursor where it was.
LEMMA FailKeeps ==
  ASSUME InboxInv, UNCHANGED phonevars, NEW j \in Jobs, Fail(j)
  PROVE  InboxInv'
<1>1. InboxShapes
  BY DEF InboxInv, MailInv
<1>2. /\ UNCHANGED <<reply, clock, stored, platform, unread, setting, graph, connections>>
      /\ job' = [job EXCEPT ![j] = IdleJob]
  BY DEF Fail, SameInbox, SameSetting
<1>3. RoundTaken(j, IdleJob)
  BY <1>1, <1>2 DEF RoundTaken, InboxShapes
<1> QED
  BY <1>3, IdleFits, SettingsAre, RoundStep

-----------------------------------------------------------------------------
(* Calls of the webhook *)

\* A call takes a step: it may store its reply, which no other call is about to store if
\* it names its message.
CallTaken(c, x) ==
  /\ UNCHANGED mailvars /\ UNCHANGED <<reply, sent, tests, naming>>
  /\ call' = [call EXCEPT ![c] = x]
  /\ x.pc # "idle" => /\ x.reply \in Replies /\ reply[x.reply].box = Infobip
                      /\ x.reply \in naming => x.parent = 1
  /\ x.pc = "insert" => \A d \in Calls \ {c} : call[d].pc = "insert" => call[d].parent # x.parent
  /\ x.pc = "insert" /\ ~x.duplicate /\ x.reply \in naming => stored'[x.reply] = 0
  /\ stored' \in [Replies -> Nat]
  /\ \A r \in Replies :
       \/ stored'[r] = stored[r]
       \/ /\ reply[r].box = Infobip
          /\ r \in naming => /\ stored'[r] = 1
                             /\ \A d \in Calls \ {c} : call[d].pc = "insert" => call[d].reply # r

\* A reply by phone is no mail: the rounds are where they were.
LEMMA MailStays ==
  ASSUME InboxInv, UNCHANGED mailvars, UNCHANGED reply, stored' \in [Replies -> Nat],
         \A r \in Replies : stored'[r] = stored[r] \/ reply[r].box = Infobip
  PROVE  MailInv'
<1>1. MailInv /\ InboxShapes /\ CursorsFit /\ RoundsFit
  BY DEF InboxInv, MailInv
<1>2. UNCHANGED <<setting, graph, connections, clock, job, platform, unread, reply>>
  BY DEF mailvars
<1>3. InboxShapes'
  BY <1>1, <1>2 DEF InboxShapes
<1>4. RepliesFit' /\ SettingFits'
  BY <1>1, <1>2 DEF MailInv, RepliesFit, SettingFits, Received
<1>5. \A b : Received(b)' = Received(b)
  BY <1>2 DEF Received
<1>6. \A b \in MailBoxes, r \in Replies : r \in Received(b) => stored'[r] = stored[r]
  BY BoxesDiffer DEF Received
<1>7. \A b \in MailBoxes : \A at, pending : UidRead(b, at, pending) => UidRead(b, at, pending)'
  <2>1. SUFFICES ASSUME NEW b \in MailBoxes, NEW at, NEW pending, UidRead(b, at, pending)
                 PROVE  UidRead(b, at, pending)'
    OBVIOUS
  <2>2. at <= Cardinality(Received(b)')
    BY <1>5, <2>1 DEF UidRead
  <2>3. \A r \in Received(b)' : r \notin unread' /\ r \notin pending /\ stored'[r] = 0 => reply'[r].uid > at
    <3>1. \A r \in Received(b) : r \in Replies
      BY DEF Received
    <3> QED
      BY <1>2, <1>5, <1>6, <2>1, <3>1 DEF UidRead
  <2> QED
    BY <2>2, <2>3 DEF UidRead
<1>8. \A at, pending : TimeRead(at, pending) => TimeRead(at, pending)'
  <2>1. SUFFICES ASSUME NEW at, NEW pending, TimeRead(at, pending)
                 PROVE  TimeRead(at, pending)'
    OBVIOUS
  <2>2. at <= clock' /\ Received(graph.box)' = Received(graph.box)
    BY <1>2, <2>1 DEF TimeRead, Received
  <2>3. graph'.box # NoBox => graph.box \in MailBoxes
    BY <1>1, <1>2 DEF InboxShapes, MailBoxes
  <2>4. graph'.box # NoBox => \A r \in Received(graph.box)' :
          r \notin unread' /\ r \notin pending /\ stored'[r] = 0 => reply'[r].time + Overlap >= at
    <3>1. \A r \in Received(graph.box) : r \in Replies
      BY DEF Received
    <3> QED
      BY <1>2, <1>6, <2>1, <2>2, <2>3, <3>1 DEF TimeRead
  <2> QED
    BY <2>2, <2>4 DEF TimeRead
<1>9. \A c \in Cursors : CursorFits(c) => CursorFits(c)'
  BY <1>7, <1>8 DEF CursorFits, UidBoxes, MailBoxes
<1>10. \A x \in Rounds : RoundFits(x) => RoundFits(x)'
  <2>1. SUFFICES ASSUME NEW x \in Rounds, RoundFits(x)
                 PROVE  RoundFits(x)'
    OBVIOUS
  <2>2. x.pc = "fetch" => CursorFits(x.copy.cursor)'
    BY <1>9, <2>1 DEF RoundFits, Rounds, EmailSettings
  <2>3. ASSUME x.pc = "store", x.copy.provider # "microsoft365", Own(x.copy)
        PROVE  UidRead(x.copy.box, x.newest, x.batch)'
    <3>1. CopyFits(x.copy) /\ x.copy.provider \in {"zahlmeister_email", "smtp_imap", "microsoft365"}
      BY <2>1, <2>3 DEF RoundFits, Rounds, EmailSettings
    <3>2. x.copy.box \in MailBoxes
      BY <2>3, <3>1 DEF CopyFits, MailBoxes
    <3> QED
      BY <1>7, <2>1, <2>3, <3>2 DEF RoundFits
  <2>4. x.pc = "store" /\ x.copy.provider = "microsoft365" => TimeRead(x.newest, x.batch)'
    BY <1>8, <2>1 DEF RoundFits
  <2>5. (\A r \in x.batch : reply'[r].box \in MailBoxes) /\ (x.pc # "idle" => CopyFits(x.copy))
    BY <1>2, <2>1 DEF RoundFits
  <2> QED
    BY <2>2, <2>3, <2>4, <2>5 DEF RoundFits, CopyFits, Own
<1>11. CursorsFit'
  <2>1. PICK c \in Cursors : c = setting.cursor
    BY <1>1 DEF InboxShapes, EmailSettings
  <2>2. PICK at \in Nat : at = platform
    BY <1>1 DEF InboxShapes
  <2>3. CursorFits(c)' /\ UidRead(PlatformBox, at, {})'
    BY <1>1, <1>7, <1>9, <2>1, <2>2 DEF CursorsFit, MailBoxes
  <2>4. setting'.cursor = c /\ platform' = at
    BY <1>2, <2>1, <2>2
  <2> QED
    BY <2>3, <2>4 DEF CursorsFit
<1>12. RoundsFit'
  <2>1. SUFFICES ASSUME NEW j \in Jobs
                 PROVE  RoundFits(job[j])'
    BY DEF RoundsFit
  <2>2. PICK x \in Rounds : x = job[j]
    BY <1>1 DEF InboxShapes
  <2>3. RoundFits(x)' /\ job'[j] = x
    BY <1>1, <1>2, <1>10, <2>2 DEF RoundsFit
  <2> QED
    BY <2>3
<1> QED
  BY <1>3, <1>4, <1>11, <1>12 DEF MailInv

\* A step of a call keeps the invariant.
LEMMA CallStep ==
  ASSUME InboxInv, NEW c \in Calls, NEW x \in WebhookCalls, CallTaken(c, x)
  PROVE  InboxInv'
<1> USE DEF CallTaken
<1>1. PhoneShapes /\ CallsFit /\ StoredFits /\ ReplyStoredOnce
  BY DEF InboxInv
<1>2. call \in [Calls -> WebhookCalls] /\ call' \in [Calls -> WebhookCalls]
      /\ call'[c] = x /\ \A d \in Calls \ {c} : call'[d] = call[d]
  BY <1>1 DEF PhoneShapes
<1>3. PhoneShapes'
  BY <1>1, <1>2 DEF PhoneShapes
<1>4. MailInv'
  BY MailStays
<1>5. CallsFit'
  <2>1. \A r \in naming' : reply'[r].box = Infobip
    BY <1>1 DEF CallsFit
  <2>2. ASSUME NEW d \in Calls, call'[d].pc # "idle"
        PROVE  /\ call'[d].reply \in Replies /\ reply'[call'[d].reply].box = Infobip
               /\ call'[d].reply \in naming' => call'[d].parent = 1
    <3>1. CASE d = c
      BY <1>2, <2>2, <3>1
    <3>2. CASE d # c
      BY <1>1, <1>2, <2>2, <3>2 DEF CallsFit
    <3> QED
      BY <3>1, <3>2
  <2>3. ASSUME NEW d \in Calls, NEW e \in Calls, call'[d].pc = "insert", call'[e].pc = "insert",
               call'[d].parent = call'[e].parent
        PROVE  d = e
    <3>1. CASE d # c /\ e # c
      BY <1>1, <1>2, <2>3, <3>1 DEF CallsFit
    <3>2. CASE d = c \/ e = c
      BY <1>2, <2>3, <3>2
    <3> QED
      BY <3>1, <3>2
  <2>4. ASSUME NEW d \in Calls, call'[d].pc = "insert", ~call'[d].duplicate, call'[d].reply \in naming'
        PROVE  stored'[call'[d].reply] = 0
    <3>1. CASE d = c
      BY <1>2, <2>4, <3>1
    <3>2. CASE d # c
      <4>1. call'[d] = call[d] /\ call[d].reply \in Replies /\ stored[call[d].reply] = 0
        BY <1>1, <1>2, <2>4, <3>2 DEF CallsFit
      <4> QED
        BY <2>4, <3>2, <4>1
    <3> QED
      BY <3>1, <3>2
  <2> QED
    BY <2>1, <2>2, <2>3, <2>4 DEF CallsFit
<1>6. StoredFits' /\ ReplyStoredOnce'
  BY <1>1, BoxesDiffer DEF StoredFits, ReplyStoredOnce
<1> QED
  BY <1>3, <1>4, <1>5, <1>6 DEF InboxInv

\* No call is one that fits.
LEMMA NoCallIs == NoCall \in WebhookCalls /\ NoCall.pc = "idle"
BY DEF NoCall, WebhookCalls

\* Another message is sent.
LEMMA SendAnotherKeeps ==
  ASSUME InboxInv, UNCHANGED mailvars, NEW test \in BOOLEAN, SendAnother(test)
  PROVE  InboxInv'
<1>1. PhoneShapes /\ CallsFit /\ StoredFits /\ ReplyStoredOnce /\ stored \in [Replies -> Nat]
  BY DEF InboxInv, MailInv, InboxShapes
<1>2. sent' = sent + 1 /\ tests' \in {tests, tests \cup {sent'}} /\ UNCHANGED <<reply, stored, naming, call>>
  BY DEF SendAnother
<1>3. MailInv'
  BY <1>1, <1>2, MailStays
<1>4. PhoneShapes'
  BY <1>1, <1>2 DEF PhoneShapes
<1>5. CallsFit' /\ StoredFits' /\ ReplyStoredOnce'
  BY <1>1, <1>2 DEF CallsFit, StoredFits, ReplyStoredOnce
<1> QED
  BY <1>3, <1>4, <1>5 DEF InboxInv

\* Infobip reports a reply: of two calls that report one which names its message, both
\* take it to answer the first.
LEMMA CallKeeps ==
  ASSUME InboxInv, UNCHANGED mailvars, NEW c \in Calls, NEW r \in Replies, Call(c, r)
  PROVE  InboxInv'
<1>1. PhoneShapes /\ stored \in [Replies -> Nat] /\ sent \in Nat
  BY DEF InboxInv, MailInv, InboxShapes, PhoneShapes
<1>2. PICK parent \in Nat : parent = IF r \in naming THEN 1 ELSE sent
  BY <1>1
<1>3. PICK x \in WebhookCalls : x = [pc |-> "found", reply |-> r, duplicate |-> FALSE, parent |-> parent]
  <2>1. [pc |-> "found", reply |-> r, duplicate |-> FALSE, parent |-> parent] \in WebhookCalls
    BY DEF WebhookCalls
  <2> QED
    BY <2>1
<1>4. x.pc = "found" /\ x.reply = r /\ x.parent = parent
  BY <1>3
<1>5. call' = [call EXCEPT ![c] = x] /\ reply[r].box = Infobip /\ UNCHANGED <<reply, stored, sent, tests, naming>>
  BY <1>2, <1>3 DEF Call
<1>6. CallTaken(c, x)
  BY <1>1, <1>2, <1>4, <1>5 DEF CallTaken
<1> QED
  BY <1>6, CallStep

\* The call that looks for a duplicate holds the message.
LEMMA LookKeeps ==
  ASSUME InboxInv, UNCHANGED mailvars, NEW c \in Calls, LookForDuplicate(c)
  PROVE  InboxInv'
<1>1. PhoneShapes /\ CallsFit /\ stored \in [Replies -> Nat]
  BY DEF InboxInv, MailInv, InboxShapes
<1>2. PICK y \in WebhookCalls : y = call[c]
  BY <1>1 DEF PhoneShapes
<1>3. /\ y.pc = "found" /\ \A d \in Calls : call[d].pc = "insert" => call[d].parent # y.parent
      /\ UNCHANGED <<reply, stored, sent, tests, naming>>
  BY <1>2 DEF LookForDuplicate
<1>4. y.reply \in Replies /\ reply[y.reply].box = Infobip /\ (y.reply \in naming => y.parent = 1)
  BY <1>1, <1>2, <1>3 DEF CallsFit
<1> DEFINE seen == stored[call[c].reply] > 0
           looked == [call[c] EXCEPT !.pc = "insert", !.duplicate = seen]
<1>5. seen \in BOOLEAN /\ (~seen => stored[y.reply] = 0)
  BY <1>1, <1>2, <1>4
<1>6. CASE y.parent \in tests
  <2>1. call' = [call EXCEPT ![c] = NoCall]
    BY <1>2, <1>6 DEF LookForDuplicate
  <2>2. CallTaken(c, NoCall)
    BY <1>1, <1>3, <2>1, NoCallIs DEF CallTaken
  <2> QED
    BY <2>2, NoCallIs, CallStep
<1>7. CASE y.parent \notin tests
  <2>1. call' = [call EXCEPT ![c] = looked]
    BY <1>2, <1>7 DEF LookForDuplicate
  <2> HIDE DEF seen
  <2>2. looked = [y EXCEPT !.pc = "insert", !.duplicate = seen]
    BY <1>2
  <2> HIDE DEF looked
  <2>3. /\ looked \in WebhookCalls /\ looked.pc = "insert" /\ looked.reply = y.reply
        /\ looked.parent = y.parent /\ looked.duplicate = seen
    BY <1>5, <2>2 DEF WebhookCalls
  <2>4. PICK x \in WebhookCalls : x = looked
    BY <2>3
  <2>5. CallTaken(c, x)
    BY <1>1, <1>3, <1>4, <1>5, <2>1, <2>3, <2>4 DEF CallTaken
  <2> QED
    BY <2>5, CallStep
<1> QED
  BY <1>6, <1>7

\* What is inserted was not there, when the reply names its message: no other call held it.
LEMMA InsertKeeps ==
  ASSUME InboxInv, UNCHANGED mailvars, NEW c \in Calls, Insert(c)
  PROVE  InboxInv'
<1>1. PhoneShapes /\ CallsFit /\ stored \in [Replies -> Nat]
  BY DEF InboxInv, MailInv, InboxShapes
<1>2. PICK y \in WebhookCalls : y = call[c]
  BY <1>1 DEF PhoneShapes
<1>3. y.pc = "insert" /\ y.reply \in Replies /\ reply[y.reply].box = Infobip /\ (y.reply \in naming => y.parent = 1)
  BY <1>1, <1>2 DEF Insert, CallsFit
<1>4. /\ stored' = [stored EXCEPT ![y.reply] = IF y.duplicate THEN @ ELSE @ + 1]
      /\ call' = [call EXCEPT ![c] = NoCall] /\ UNCHANGED <<reply, sent, tests, naming>>
  BY <1>2 DEF Insert
<1>5. stored' \in [Replies -> Nat] /\ \A r \in Replies \ {y.reply} : stored'[r] = stored[r]
  BY <1>1, <1>3, <1>4
<1>6. \/ stored'[y.reply] = stored[y.reply]
      \/ ~y.duplicate /\ stored'[y.reply] = stored[y.reply] + 1
  BY <1>1, <1>3, <1>4
<1>7. ASSUME y.reply \in naming
      PROVE  /\ ~y.duplicate => stored[y.reply] = 0
             /\ \A d \in Calls \ {c} : call[d].pc = "insert" => call[d].reply # y.reply
  <2>1. ~y.duplicate => stored[y.reply] = 0
    BY <1>1, <1>2, <1>3, <1>7 DEF CallsFit
  <2>2. ASSUME NEW d \in Calls \ {c}, call[d].pc = "insert", call[d].reply = y.reply
        PROVE  FALSE
    <3>1. call[d].parent = 1 /\ y.parent = 1
      BY <1>1, <1>3, <1>7, <2>2 DEF CallsFit
    <3> QED
      BY <1>1, <1>2, <1>3, <2>2, <3>1 DEF CallsFit
  <2> QED
    BY <2>1, <2>2
<1>8. CallTaken(c, NoCall)
  BY <1>1, <1>3, <1>4, <1>5, <1>6, <1>7, NoCallIs DEF CallTaken
<1> QED
  BY <1>8, NoCallIs, CallStep

\* A call that fails is rolled back.
LEMMA FailCallKeeps ==
  ASSUME InboxInv, UNCHANGED mailvars, NEW c \in Calls, FailCall(c)
  PROVE  InboxInv'
<1>1. stored \in [Replies -> Nat]
  BY DEF InboxInv, MailInv, InboxShapes
<1>2. CallTaken(c, NoCall)
  BY <1>1, NoCallIs DEF CallTaken, FailCall
<1> QED
  BY <1>2, NoCallIs, CallStep

-----------------------------------------------------------------------------
(* Theorems about replies *)

\* At first nothing was received.
LEMMA InboxStart == IInit => InboxInv
<1> SUFFICES ASSUME IInit
             PROVE  InboxInv
  OBVIOUS
<1>1. /\ setting = Platform /\ graph.id = 0 /\ graph.box = NoBox /\ graph \in [id : Nat, box : GraphBoxes \cup {NoBox}]
      /\ connections = 0 /\ clock = 0 /\ platform = 0 /\ unread = {} /\ naming = {} /\ tests = {} /\ sent = 1
      /\ \A r \in Replies : reply[r] = NotReceived /\ stored[r] = 0
      /\ \A j \in Jobs : job[j] = IdleJob
      /\ \A c \in Calls : call[c] = NoCall
  BY DEF IInit
<1>2. InboxShapes
  BY <1>1, SettingsAre DEF InboxShapes, IInit
<1>3. PhoneShapes
  BY <1>1, NoCallIs DEF PhoneShapes, IInit
<1>4. NotReceived.box = NoBox
  BY DEF NotReceived
<1>5. \A b \in MailBoxes : Received(b) = {}
  BY <1>1, <1>4, BoxesDiffer DEF Received
<1>6. IsFiniteSet({}) /\ Cardinality({}) = 0
  BY FS_EmptySet
<1>7. RepliesFit
  BY <1>1, <1>4, <1>5, <1>6, BoxesDiffer DEF RepliesFit, UidBoxes, MailBoxes
<1>8. SettingFits
  <2>1. NoBox \notin ImapBoxes
    BY BoxesDiffer DEF MailBoxes
  <2> QED
    BY <1>1, <2>1, SettingsAre DEF SettingFits
<1>9. CursorFits(setting.cursor)
  BY <1>1, SettingsAre DEF CursorFits, NoCursor
<1>10. UidRead(PlatformBox, platform, {})
  BY <1>1, <1>5, <1>6 DEF UidRead, MailBoxes
<1>11. RoundsFit
  BY <1>1, SettingsAre DEF RoundsFit, RoundFits
<1>12. CallsFit /\ StoredFits /\ ReplyStoredOnce
  BY <1>1, <1>4, NoCallIs DEF CallsFit, StoredFits, ReplyStoredOnce
<1> QED
  BY <1>2, <1>3, <1>7, <1>8, <1>9, <1>10, <1>11, <1>12 DEF InboxInv, MailInv, CursorsFit

\* Every step keeps the invariant.
LEMMA InboxStep == InboxInv /\ [INext]_ivars => InboxInv'
<1> SUFFICES ASSUME InboxInv, [INext]_ivars
             PROVE  InboxInv'
  OBVIOUS
<1>1. CASE OwnNext /\ UNCHANGED phonevars
  <2>1. CASE \E j \in Jobs : Start(j)
    BY <1>1, <2>1, StartKeeps
  <2>2. CASE \E j \in Jobs : FetchGraph(j)
    BY <1>1, <2>2, FetchGraphKeeps
  <2>3. CASE \E j \in Jobs : WriteCursor(j)
    BY <1>1, <2>3, WriteCursorKeeps
  <2>4. CASE \/ \E b \in ImapBoxes : UseImap(b)
             \/ \E b \in GraphBoxes : SignInGraph(b)
             \/ UseGraph \/ UsePlatform \/ DisconnectGraph
    BY <1>1, <2>4, ChangesKeep
  <2> QED
    BY <1>1, <2>1, <2>2, <2>3, <2>4 DEF OwnNext
<1>2. CASE PlatformNext /\ UNCHANGED phonevars
  BY <1>2, StartKeeps, WritePlatformCursorKeeps DEF PlatformNext
<1>3. CASE RoundNext /\ UNCHANGED phonevars
  <2>1. CASE \E r \in Replies : Receive(r) \/ Show(r)
    BY <1>3, <2>1, ReceiveKeeps, ShowKeeps
  <2>2. CASE \E j \in Jobs : FetchImap(j) \/ Store(j) \/ Fail(j)
    BY <1>3, <2>2, FetchImapKeeps, StoreKeeps, FailKeeps
  <2> QED
    BY <1>3, <2>1, <2>2 DEF RoundNext
<1>4. CASE PhoneNext /\ UNCHANGED mailvars
  <2>1. CASE \E test \in BOOLEAN : SendAnother(test)
    BY <1>4, <2>1, SendAnotherKeeps
  <2>2. CASE \E r \in Replies, names \in BOOLEAN : ReceivePhone(r, names)
    BY <1>4, <2>2, ReceivePhoneKeeps
  <2>3. ASSUME NEW c \in Calls, (\E r \in Replies : Call(c, r)) \/ LookForDuplicate(c) \/ Insert(c) \/ FailCall(c)
        PROVE  InboxInv'
    BY <1>4, <2>3, CallKeeps, LookKeeps, InsertKeeps, FailCallKeeps
  <2> QED
    BY <1>4, <2>1, <2>2, <2>3 DEF PhoneNext
<1>5. CASE UNCHANGED ivars
  <2>1. UNCHANGED phonevars /\ UNCHANGED mailvars /\ UNCHANGED <<reply, stored>>
    BY <1>5 DEF ivars
  <2>2. MailInv'
    <3>1. stored \in [Replies -> Nat]
      BY DEF InboxInv, MailInv, InboxShapes
    <3> QED
      BY <2>1, <3>1, MailStays
  <2>3. PhoneShapes' /\ CallsFit'
    BY <2>1, CallsStay
  <2>4. StoredFits' /\ ReplyStoredOnce'
    BY <2>1 DEF InboxInv, StoredFits, ReplyStoredOnce, phonevars
  <2> QED
    BY <2>2, <2>3, <2>4 DEF InboxInv
<1> QED
  BY <1>1, <1>2, <1>3, <1>4, <1>5 DEF INext

\* The invariant of the mailboxes, the rounds and the calls holds always.
THEOREM InboxInvariant == ISpec => []InboxInv
BY InboxStart, InboxStep, PTL DEF ISpec

\* The shapes, and the connection row the setting refers to.
THEOREM InboxTypeCorrect == ISpec => []ITypeOK
<1>1. InboxInv => ITypeOK
  <2> SUFFICES ASSUME InboxInv
               PROVE  ITypeOK
    OBVIOUS
  <2>1. InboxShapes /\ SettingFits /\ PhoneShapes
    BY DEF InboxInv, MailInv
  <2>2. setting.provider \in {"zahlmeister_email", "smtp_imap", "microsoft365"} /\ setting.cursor.kind \in {"none", "uid", "time"}
    BY <2>1 DEF InboxShapes, EmailSettings, Cursors
  <2>3. \A j \in Jobs : job[j].pc \in {"idle", "fetch", "store"} /\ job[j].batch \subseteq Replies
    <3>1. \A x \in Rounds : x.pc \in {"idle", "fetch", "store"} /\ x.batch \subseteq Replies
      BY DEF Rounds
    <3> QED
      BY <2>1, <3>1 DEF InboxShapes
  <2>4. \A c \in Calls : call[c].pc \in {"idle", "found", "insert"}
    <3>1. \A x \in WebhookCalls : x.pc \in {"idle", "found", "insert"}
      BY DEF WebhookCalls
    <3> QED
      BY <2>1, <3>1 DEF PhoneShapes
  <2> QED
    BY <2>1, <2>2, <2>3, <2>4 DEF ITypeOK, SettingFits, InboxShapes, PhoneShapes
<1> QED
  BY <1>1, InboxInvariant, PTL

\* Overlapping jobs and calls, and rounds and calls that are repeated, store a reply once,
\* but for a reply by phone that does not name its message.
THEOREM RepliesAreStoredOnce == ISpec => []ReplyStoredOnce
<1>1. InboxInv => ReplyStoredOnce
  BY DEF InboxInv
<1> QED
  BY <1>1, InboxInvariant, PTL

\* No round to come will miss a reply that is not stored, whatever jobs overlapped, failed,
\* or read another mailbox before.
THEOREM NothingIsSkipped == ISpec => []NothingSkipped
<1>1. InboxInv => NothingSkipped
  <2> SUFFICES ASSUME InboxInv, NEW r \in Replies, r \notin unread, reply[r].box # NoBox,
                      reply[r].box = Mailbox(setting), stored[r] = 0
               PROVE  WillBeRead(r)
    BY DEF NothingSkipped
  <2>1. InboxShapes /\ SettingFits /\ CursorsFit
    BY DEF InboxInv, MailInv
  <2>2. r \in Received(Mailbox(setting))
    BY DEF Received
  <2>3. setting.cursor \in Cursors /\ reply[r] \in Answers /\ setting.provider \in {"zahlmeister_email", "smtp_imap", "microsoft365"}
    BY <2>1 DEF InboxShapes, EmailSettings
  <2>4. CASE setting.provider = "smtp_imap"
    <3>1. Mailbox(setting) = setting.box /\ setting.box # NoBox
      BY <2>4 DEF Mailbox
    <3>2. ASSUME setting.cursor.kind = "uid", setting.cursor.of = setting.box
          PROVE  reply[r].uid > setting.cursor.at
      BY <2>1, <2>2, <3>1, <3>2 DEF CursorsFit, CursorFits, UidRead
    <3> QED
      BY <2>4, <3>2 DEF WillBeRead
  <2>5. CASE setting.provider = "microsoft365"
    <3>1. Mailbox(setting) = graph.box /\ graph.box # NoBox
      BY <2>5 DEF Mailbox
    <3>2. ASSUME setting.cursor.kind = "time"
          PROVE  reply[r].time >= setting.cursor.at - Overlap
      <4>1. reply[r].time + Overlap >= setting.cursor.at
        BY <2>1, <2>2, <3>1, <3>2 DEF CursorsFit, CursorFits, TimeRead
      <4> QED
        BY <2>3, <4>1, InboxAssumption DEF Answers, Cursors
    <3> QED
      BY <2>5, <3>2 DEF WillBeRead
  <2>6. CASE setting.provider = "zahlmeister_email"
    <3>1. Mailbox(setting) = PlatformBox
      BY <2>6 DEF Mailbox
    <3>2. reply[r].uid > platform
      BY <2>1, <2>2, <3>1 DEF CursorsFit, UidRead
    <3> QED
      BY <2>6, <3>2 DEF WillBeRead
  <2> QED
    BY <2>3, <2>4, <2>5, <2>6
<1> QED
  BY <1>1, InboxInvariant, PTL
=============================================================================
