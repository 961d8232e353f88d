--------------------------- MODULE InfobipRouting ---------------------------
(***************************************************************************)
(* The Infobip route of an SMS or WhatsApp channel and the webhook           *)
(* subscription that Infobip keeps for it (services/infobip.py,               *)
(* api/routes/communication_settings.py).                                     *)
(*                                                                         *)
(* A save, a test or a disconnection holds the connection's row while it calls *)
(* Infobip; what it did there stays when its transaction does not commit.     *)
(***************************************************************************)
EXTENDS Integers

CONSTANTS Senders,        \* senders the customer may select
          NoSender,
          MaxConnections, \* bound on connection rows made one after the other
          MaxFaults       \* bound on failed calls, lost answers, losses at Infobip, crashes

ASSUME RoutingAssumption ==
  /\ NoSender \notin Senders
  /\ MaxConnections \in Nat \ {0} /\ MaxFaults \in Nat

VARIABLES connection, \* the row: its id (0: none), the sender its metadata names, its status
          rows,       \* connection rows made so far
          route,      \* the channel's stored sender, NoSender while it is not internal
          remote,     \* Infobip: per connection id, the sender of its subscription
          op,         \* the request that holds the connection's row
          signIn,     \* the OAuth callback: the metadata it read without the lock
          report,     \* what a test of the connection has yet to record on the row
          verified,   \* the last save or test succeeded and nothing was lost since
          split,      \* Infobip was changed by a request that did not commit
          routeFaults

rvars == <<connection, rows, route, remote, op, signIn, report, verified, split, routeFaults>>

IdleOp == [pc |-> "idle", task |-> "none", want |-> NoSender, marker |-> NoSender]
NoConnection == [id |-> 0, marker |-> NoSender, status |-> "connected"]
NoReport == [id |-> 0, status |-> "connected"]

RInit ==
  /\ connection = NoConnection
  /\ rows = 0
  /\ route = NoSender
  /\ remote = [i \in 1 .. MaxConnections |-> NoSender]
  /\ op = IdleOp
  /\ signIn = NoConnection /\ report = NoReport
  /\ verified = FALSE /\ split = FALSE
  /\ routeFaults = 0

Subscribed == remote[connection.id]
Doing(pc) == op.pc = pc
Goto(pc) == op' = [op EXCEPT !.pc = pc]
Fault == routeFaults < MaxFaults /\ routeFaults' = routeFaults + 1
Kept == UNCHANGED <<rows, signIn, report, routeFaults>>

-----------------------------------------------------------------------------
(* Connections *)

\* connect_infobip_api_key: a new row, or the old one with its metadata replaced.
ConnectApiKey ==
  /\ Doing("idle")
  /\ IF connection.id = 0
     THEN /\ rows < MaxConnections
          /\ rows' = rows + 1
          /\ connection' = [id |-> rows + 1, marker |-> NoSender, status |-> "connected"]
     ELSE /\ connection' = [connection EXCEPT !.marker = NoSender, !.status = "connected"]
          /\ UNCHANGED rows
  /\ UNCHANGED <<route, remote, op, signIn, report, verified, split, routeFaults>>

\* finish_infobip_oauth keeps the metadata it read before it waited for the row.
ReadForSignIn ==
  /\ signIn = NoConnection /\ connection.id # 0
  /\ signIn' = connection
  /\ UNCHANGED <<connection, rows, route, remote, op, report, verified, split, routeFaults>>

SignIn ==
  /\ signIn # NoConnection /\ Doing("idle")
  /\ connection' = IF connection.id = signIn.id THEN [signIn EXCEPT !.status = "connected"] ELSE connection
  /\ signIn' = NoConnection
  /\ UNCHANGED <<rows, route, remote, op, report, verified, split, routeFaults>>

-----------------------------------------------------------------------------
(* Requests that hold the row *)

Open(pc, task, want) ==
  /\ Doing("idle") /\ connection.id # 0
  /\ op' = [pc |-> pc, task |-> task, want |-> want, marker |-> connection.marker]
  /\ UNCHANGED <<connection, route, remote, verified, split>> /\ Kept

\* update_setting: the route that is replaced is removed first.
Save(s) == connection.status = "connected" /\ Open(IF route \in {NoSender, s} THEN "look" ELSE "removeOld", "save", s)

\* update_setting to another mode: the channel leaves Infobip.
SwitchOff == route # NoSender /\ Open("removeOld", "off", NoSender)

\* The tests of the channel and of the connection set up what is missing.
TestRoute == route # NoSender /\ Open("look", "test", route)
TestConnection ==
  /\ report = NoReport
  /\ Open(IF route = NoSender THEN "commit" ELSE "look", "check", route)

Disconnect == Open("removeOld", "disconnect", NoSender)

\* (Mutant) Metadata that name the sender are trusted without asking Infobip.
TrustMetadata ==
  /\ Doing("look")
  /\ Goto(IF op.marker = op.want THEN "commit" ELSE "clean")
  /\ UNCHANGED <<connection, route, remote, verified, split>> /\ Kept

\* (Mutant) Nothing is removed where no metadata say that there is something.
CleanOnlyWhatIsKnown ==
  /\ Doing("look")
  /\ Goto(IF op.marker = op.want /\ Subscribed # NoSender THEN "commit"
          ELSE IF op.marker = NoSender THEN "post" ELSE "clean")
  /\ UNCHANGED <<connection, route, remote, verified, split>> /\ Kept

\* ensure_event_subscription trusts metadata that names the sender if Infobip has
\* the subscription; otherwise it removes what may be there, metadata or not.
Look ==
  /\ Doing("look")
  /\ Goto(IF op.marker = op.want /\ Subscribed # NoSender THEN "commit" ELSE "clean")
  /\ UNCHANGED <<connection, route, remote, verified, split>> /\ Kept

\* (Mutant) Without metadata there is nothing to remove.
RemoveWhatIsKnown ==
  /\ op.pc \in {"removeOld", "clean"}
  /\ remote' = IF op.marker = NoSender THEN remote ELSE [remote EXCEPT ![connection.id] = NoSender]
  /\ op' = [op EXCEPT !.marker = NoSender,
                      !.pc = IF Doing("clean") THEN "post"
                             ELSE IF op.task = "save" THEN "look" ELSE "commit"]
  /\ split' = FALSE
  /\ UNCHANGED <<connection, route, verified>> /\ Kept

\* remove_event_subscription: its identifier follows from the connection's id.
Remove ==
  /\ op.pc \in {"removeOld", "clean"}
  /\ remote' = [remote EXCEPT ![connection.id] = NoSender]
  /\ op' = [op EXCEPT !.marker = NoSender,
                      !.pc = IF Doing("clean") THEN "post"
                             ELSE IF op.task = "save" THEN "look" ELSE "commit"]
  /\ split' = FALSE
  /\ UNCHANGED <<connection, route, verified>> /\ Kept

\* Infobip refuses a second subscription under one identifier or for one sender.
Conflict == \E i \in 1 .. MaxConnections : remote[i] # NoSender /\ (i = connection.id \/ remote[i] = op.want)

Post ==
  /\ Doing("post") /\ ~Conflict
  /\ remote' = [remote EXCEPT ![connection.id] = op.want]
  /\ op' = [op EXCEPT !.pc = "commit", !.marker = op.want]
  /\ UNCHANGED <<connection, route, verified, split>> /\ Kept

\* Any call may fail, before or after it had its effect: all is rolled back.
CallFails ==
  /\ op.pc \notin {"idle", "commit"} /\ Fault
  /\ \/ UNCHANGED remote
     \/ op.pc \in {"removeOld", "clean"} /\ remote' = [remote EXCEPT ![connection.id] = NoSender]
     \/ Doing("post") /\ ~Conflict /\ remote' = [remote EXCEPT ![connection.id] = op.want]
  /\ split' = (split \/ remote'[connection.id] \notin {NoSender, route})
  /\ verified' = FALSE
  /\ op' = IdleOp
  /\ report' = IF op.task = "check" THEN [id |-> connection.id, status |-> "error"] ELSE report
  /\ UNCHANGED <<connection, rows, route, signIn>>

Crash ==
  /\ ~Doing("idle") /\ Fault
  /\ split' = (split \/ Subscribed \notin {NoSender, route})
  /\ verified' = FALSE
  /\ op' = IdleOp
  /\ UNCHANGED <<connection, rows, route, remote, signIn, report>>

\* The transaction commits: the setting, and the metadata or the row's deletion.
Commit ==
  /\ Doing("commit")
  /\ connection' = IF op.task = "disconnect" THEN NoConnection
                   ELSE [connection EXCEPT !.marker = op.marker,
                                           !.status = IF op.task = "test" THEN "connected" ELSE @]
  /\ route' = op.want
  /\ verified' = TRUE
  /\ op' = IdleOp
  /\ report' = IF op.task = "check" THEN [id |-> connection.id, status |-> "connected"] ELSE report
  /\ UNCHANGED <<rows, remote, signIn, split, routeFaults>>

\* _set_connection_test_result, a transaction of its own.
RecordTest ==
  /\ report # NoReport /\ Doing("idle")
  /\ connection' = IF connection.id = report.id THEN [connection EXCEPT !.status = report.status]
                   ELSE connection
  /\ report' = NoReport
  /\ UNCHANGED <<rows, route, remote, op, signIn, verified, split, routeFaults>>

\* The subscription is deleted in Infobip's own portal.
LostAtInfobip ==
  /\ Doing("idle") /\ connection.id # 0 /\ Subscribed # NoSender /\ Fault
  /\ remote' = [remote EXCEPT ![connection.id] = NoSender]
  /\ verified' = FALSE
  /\ UNCHANGED <<connection, rows, route, op, signIn, report, split>>

RNext ==
  \/ ConnectApiKey \/ ReadForSignIn \/ SignIn
  \/ \E s \in Senders : Save(s)
  \/ SwitchOff \/ TestRoute \/ TestConnection \/ RecordTest \/ Disconnect
  \/ Look \/ Remove \/ Post \/ CallFails \/ Crash \/ Commit \/ LostAtInfobip

RSpec == RInit /\ [][RNext]_rvars

-----------------------------------------------------------------------------
(* Properties *)

\* Shapes; only a connection that exists can be locked or serve a route.
RTypeOK ==
  /\ connection.id \in 0 .. MaxConnections /\ connection.marker \in Senders \cup {NoSender}
  /\ connection.status \in {"connected", "error"}
  /\ route \in Senders \cup {NoSender}
  /\ remote \in [1 .. MaxConnections -> Senders \cup {NoSender}]
  /\ op.pc \in {"idle", "look", "removeOld", "clean", "post", "commit"}
  /\ connection.id = 0 => Doing("idle") /\ route = NoSender

\* "If remote cleanup fails, the local connection is retained ... instead of leaving an
\* unknown remote configuration" (docker/INTEGRATIONS.md): whatever fails or crashes
\* half way, Infobip has no subscription of a connection that is gone.
NothingLeftAtInfobip ==
  \A i \in 1 .. MaxConnections : remote[i] # NoSender => i = connection.id

\* "reconnects and interrupted setup runs can self-heal instead of getting stuck behind
\* an Infobip 409 conflict": setting up a route never meets a subscription of its own.
NeverStuckBehindConflict == Doing("post") => ~Conflict

\* A route that was saved or tested with success is subscribed at Infobip, also when
\* the metadata were lost or the subscription deleted before.  Excepted are requests
\* that subscribed another sender and did not commit.
SavedRouteIsSubscribed ==
  verified /\ route # NoSender /\ ~split /\ Doing("idle") => Subscribed = route

\* The same without the exception.
TestedRouteIsSubscribed ==
  verified /\ route # NoSender /\ Doing("idle") => Subscribed = route
=============================================================================
