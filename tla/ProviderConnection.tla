-------------------------- MODULE ProviderConnection --------------------------
(***************************************************************************)
(* An organization's connection to Ponto (bank accounts) or Mollie (online    *)
(* payments): OAuth authorization, rotating tokens, use by requests and jobs, *)
(* tests, disconnection.                                                      *)
(*                                                                         *)
(* The row holds one authorization ("grant").  A refresh token is spent when   *)
(* it is used; the new one exists only in the answer until the transaction     *)
(* that holds the row's lock commits.  Ponto refreshes in a transaction of its *)
(* own, Mollie in the transaction of the caller.                               *)
(***************************************************************************)
EXTENDS Integers, FiniteSets

CONSTANTS Providers, \* which provider the connection may belong to
          Handlers,  \* requests and jobs at once
          MaxGrants, \* bound on authorizations
          MaxFaults  \* bound on failed calls, lost answers and crashes

ASSUME ConnectionAssumption ==
  /\ Providers \subseteq {"ponto", "mollie"}
  /\ MaxGrants \in Nat /\ MaxFaults \in Nat

VARIABLES provider, \* never changes
          conn,     \* the row: status, authorization, and its stored token
          accounts, \* authorization whose bank accounts are stored (0: none)
          lock,     \* handler that holds the row's lock
          handler,  \* where each handler stands, with the copy it read
          granted,  \* authorizations given so far
          lost,     \* authorizations whose newest token died with an answer or a crash
          undone,   \* authorizations whose newest token was rolled back
          faults

vars == <<provider, conn, accounts, lock, handler, granted, lost, undone, faults>>

NoRow == [status |-> "none", grant |-> 0, token |-> "none"]
Idle == [pc |-> "idle", task |-> "none", grant |-> 0, fresh |-> FALSE, status |-> "none", seen |-> FALSE]

Init ==
  /\ provider \in Providers
  /\ conn = NoRow
  /\ accounts = 0
  /\ lock = {}
  /\ handler = [h \in Handlers |-> Idle]
  /\ granted = 0
  /\ lost = {} /\ undone = {}
  /\ faults = 0

Is(p) == provider = p
At(h, pc) == handler[h].pc = pc
Task(h) == handler[h].task
Step(h, pc) == handler' = [handler EXCEPT ![h].pc = pc]
Finish(h) == handler' = [handler EXCEPT ![h] = Idle]
Begin(h, pc, task, c) ==
  handler' = [handler EXCEPT ![h] = [pc |-> pc, task |-> task, grant |-> c.grant,
                                     fresh |-> c.token = "fresh", status |-> c.status, seen |-> FALSE]]
Free == lock = {}
Fault == faults < MaxFaults /\ faults' = faults + 1
Same == UNCHANGED <<provider, granted, lost, undone, faults>>

-----------------------------------------------------------------------------
(* Authorization *)

\* The provider exchanges the code before the row is locked.
Exchange(h) ==
  /\ At(h, "idle") /\ granted < MaxGrants
  /\ granted' = granted + 1
  /\ Begin(h, "exchanged", "authorize", [status |-> "connected", grant |-> granted + 1, token |-> "fresh"])
  /\ UNCHANGED <<provider, conn, accounts, lock, lost, undone, faults>>

\* The authorization replaces the stored one.  Mollie's callback asks for profiles
\* in the same transaction and notes a failure; Ponto's goes on to read the accounts.
StoreGrant(h) ==
  /\ At(h, "exchanged") /\ Free
  /\ \E s \in {"connected"} \cup (IF Is("mollie") THEN {"error"} ELSE {}) :
       conn' = [status |-> s, grant |-> handler[h].grant,
                token |-> IF handler[h].fresh THEN "fresh" ELSE "expired"]
  /\ accounts' = 0
  /\ IF Is("mollie") THEN Finish(h) ELSE Step(h, "read")
  /\ UNCHANGED lock /\ Same

-----------------------------------------------------------------------------
(* Reading the provider with no lock held *)

\* A bank job needs an entry of enqueue_bank_syncs (or sync_now), the payment webhook
\* only a row.
MayRead ==
  IF Is("ponto") THEN conn.status \in {"connected", "error"} ELSE conn.grant # 0

\* (Mutant) The job locks the row while it reads the provider.
LockedSnapshot(h) ==
  /\ At(h, "idle") /\ MayRead /\ Free
  /\ lock' = {h}
  /\ Begin(h, "read", "use", conn)
  /\ UNCHANGED <<conn, accounts>> /\ Same

Snapshot(h) ==
  /\ At(h, "idle") /\ MayRead
  /\ Begin(h, "read", "use", conn)
  /\ UNCHANGED <<conn, accounts, lock>> /\ Same

\* POST connection/test reads the row without locking it.
TestRead(h) ==
  /\ At(h, "idle") /\ ~Is("mollie") /\ conn.grant # 0 /\ conn.status # "disconnected"
  /\ Begin(h, "read", "test", conn)
  /\ UNCHANGED <<conn, accounts, lock>> /\ Same

\* access_token: the copy's token, while it is valid.
UseCopy(h) ==
  /\ At(h, "read") /\ handler[h].fresh
  /\ Step(h, "call")
  /\ UNCHANGED <<conn, accounts, lock>> /\ Same

\* Under the lock: another handler's refreshed token is adopted, ...
Adopt(h) ==
  /\ At(h, "read") /\ Free /\ conn.token = "fresh" /\ ~handler[h].fresh
  /\ handler' = [handler EXCEPT ![h].pc = "call", ![h].grant = conn.grant, ![h].fresh = TRUE]
  /\ UNCHANGED <<conn, accounts, lock>> /\ Same

\* ... or the stored refresh token is used, which spends it, ...
Refresh(h) ==
  /\ At(h, "read") /\ Free /\ conn.token = "expired" /\ ~handler[h].fresh
  /\ lock' = {h}
  /\ conn' = [conn EXCEPT !.token = "spent"]
  /\ handler' = [handler EXCEPT ![h].pc = "refreshed", ![h].grant = conn.grant, ![h].fresh = TRUE]
  /\ UNCHANGED accounts /\ Same

\* ... or there is none that works.
NoToken(h) ==
  /\ At(h, "read") /\ Free /\ conn.token \in {"none", "spent"} /\ ~handler[h].fresh
  /\ Step(h, "failed")
  /\ UNCHANGED <<conn, accounts, lock>> /\ Same

\* (Mutant) Only the access token is stored, the refresh token that was spent stays.
CommitWithoutRefreshToken(h) ==
  /\ At(h, "refreshed") /\ lock = {h}
  /\ lock' = {} /\ Step(h, "call")
  /\ UNCHANGED <<conn, accounts>> /\ Same

CommitRefresh(h) ==
  /\ At(h, "refreshed") /\ lock = {h}
  /\ conn' = [conn EXCEPT !.token = "fresh"]
  /\ lock' = {}
  /\ Step(h, "call")
  /\ UNCHANGED accounts /\ Same

\* The provider answers; an expired token sends a paginated read back for another.
Call(h) ==
  /\ At(h, "call")
  /\ Step(h, IF handler[h].fresh THEN "answered" ELSE "read")
  /\ UNCHANGED <<conn, accounts, lock>> /\ Same

CallFails(h) ==
  /\ At(h, "call") /\ Fault
  /\ Step(h, "failed")
  /\ UNCHANGED <<provider, conn, accounts, lock, granted, lost, undone>>

\* sync_connection: the bank data are applied unless the row says disconnected.
ApplySync(h) ==
  /\ At(h, "answered") /\ Is("ponto") /\ Task(h) = "use" /\ Free
  /\ IF conn.status = "disconnected"
     THEN Step(h, "failed") /\ UNCHANGED <<conn, accounts>>
     ELSE /\ conn' = [conn EXCEPT !.status = "connected"]
          /\ accounts' = handler[h].grant
          /\ Finish(h)
  /\ UNCHANGED lock /\ Same

\* The end of a callback: the accounts are stored.
ApplyAuthorization(h) ==
  /\ At(h, "answered") /\ Task(h) = "authorize" /\ Free
  /\ conn' = IF conn.status = "none" THEN conn ELSE [conn EXCEPT !.status = "connected"]
  /\ accounts' = IF Is("ponto") THEN handler[h].grant ELSE accounts
  /\ Finish(h)
  /\ UNCHANGED lock /\ Same

\* The result of a test.  The bank's row is written through an object read before the
\* test: only a value that differs from what was read reaches the database.
ApplyTest(h) ==
  LET result == IF At(h, "answered") THEN "connected" ELSE "error" IN
  /\ handler[h].pc \in {"answered", "failed"} /\ Task(h) = "test" /\ Free
  /\ conn' = IF conn.status = "none" \/ (Is("ponto") /\ handler[h].status = result) THEN conn
             ELSE [conn EXCEPT !.status = result]
  /\ Finish(h)
  /\ UNCHANGED <<accounts, lock>> /\ Same

\* A payment was looked up: the row is not concerned.
ApplyUse(h) ==
  /\ Task(h) = "use" /\ ~Is("ponto") /\ handler[h].pc \in {"answered", "failed"}
  /\ Finish(h)
  /\ UNCHANGED <<conn, accounts, lock>> /\ Same

\* mark_connection_error and the callbacks' handlers, whatever the row says by now.
MarkError(h) ==
  /\ At(h, "failed") /\ Free
  /\ Task(h) = "authorize" \/ (Task(h) = "use" /\ Is("ponto"))
  /\ conn' = IF conn.status = "none" THEN conn ELSE [conn EXCEPT !.status = "error"]
  /\ Finish(h)
  /\ UNCHANGED <<accounts, lock>> /\ Same

-----------------------------------------------------------------------------
(* Mollie's routes: the row stays locked while Mollie is called *)

Routes == {"profiles", "select", "test", "checkout"}

OpenRoute(h) == \E route \in Routes :
  /\ At(h, "idle") /\ Is("mollie") /\ Free /\ conn.grant # 0
  /\ route = "checkout" => conn.status = "connected"
  /\ lock' = {h}
  /\ Begin(h, "route", route, conn)
  /\ UNCHANGED <<conn, accounts>> /\ Same

\* authorization_for_connection: flushed, not committed.
RouteRefresh(h) ==
  /\ At(h, "route") /\ conn.token = "expired"
  /\ conn' = [conn EXCEPT !.token = "spent"]
  /\ handler' = [handler EXCEPT ![h].pc = "asked", ![h].fresh = TRUE]
  /\ UNCHANGED <<accounts, lock>> /\ Same

RouteUsesStored(h) ==
  /\ At(h, "route") /\ conn.token \in {"fresh", "spent"}
  /\ Step(h, IF conn.token = "fresh" THEN "asked" ELSE "refused")
  /\ UNCHANGED <<conn, accounts, lock>> /\ Same

\* The token as the transaction sees it is stored with the route's outcome.
Stored(h, s) ==
  [conn EXCEPT !.status = s, !.token = IF handler[h].fresh THEN "fresh" ELSE @]

RouteSucceeds(h) ==
  /\ At(h, "asked")
  /\ conn' = Stored(h, IF Task(h) \in {"select", "test"} THEN "connected" ELSE conn.status)
  /\ lock' = {} /\ Finish(h)
  /\ UNCHANGED accounts /\ Same

RouteFails(h) ==
  /\ At(h, "asked") /\ Fault
  /\ Step(h, "refused")
  /\ UNCHANGED <<provider, conn, accounts, lock, granted, lost, undone>>

\* A test and a checkout note the failure and commit.
RouteNotes(h) ==
  /\ At(h, "refused") /\ Task(h) \in {"test", "checkout"}
  /\ conn' = Stored(h, IF Task(h) = "test" THEN "error" ELSE conn.status)
  /\ lock' = {} /\ Finish(h)
  /\ UNCHANGED accounts /\ Same

\* Reading and selecting profiles raise inside the transaction: all is rolled back,
\* a refreshed token included.
RouteRaises(h) ==
  /\ At(h, "refused") /\ Task(h) \in {"profiles", "select"}
  /\ lock' = {} /\ Finish(h)
  /\ undone' = IF conn.token = "spent" /\ handler[h].fresh THEN undone \cup {conn.grant} ELSE undone
  /\ UNCHANGED <<provider, conn, accounts, granted, lost, faults>>

-----------------------------------------------------------------------------
(* Disconnection *)

\* Ponto's token is revoked while the row is locked.
StartDisconnect(h) ==
  /\ At(h, "idle") /\ Is("ponto") /\ Free /\ conn.grant # 0 /\ conn.status # "disconnected"
  /\ lock' = {h}
  /\ Begin(h, "revoking", "disconnect", conn)
  /\ UNCHANGED <<conn, accounts>> /\ Same

FinishDisconnect(h) ==
  /\ At(h, "revoking")
  /\ conn' = [status |-> "disconnected", grant |-> 0, token |-> "none"]
  /\ accounts' = 0 /\ lock' = {}
  /\ Finish(h)
  /\ Same

\* Ponto refuses: rolled back, nothing local is removed.
DisconnectFails(h) ==
  /\ At(h, "revoking") /\ Fault
  /\ lock' = {} /\ Finish(h)
  /\ UNCHANGED <<provider, conn, accounts, granted, lost, undone>>

\* A Ponto row without an authorization is reset, Mollie's revocation may fail
\* unnoticed.
DisconnectAtOnce ==
  /\ Free /\ conn.status \notin {"none", "disconnected"}
  /\ Is("ponto") => conn.grant = 0
  /\ conn' = [status |-> "disconnected", grant |-> 0, token |-> "none"]
  /\ accounts' = 0
  /\ UNCHANGED <<lock, handler>> /\ Same

-----------------------------------------------------------------------------
(* Time and failures *)

\* An access token expires, wherever it is kept; not while one is being stored.  Tokens
\* live for at least some minutes: no task sees it happen twice.
Expire(g) ==
  /\ Free /\ \A h \in Handlers : ~handler[h].seen
  /\ \/ conn.grant = g /\ conn.token = "fresh"
     \/ \E h \in Handlers : handler[h].grant = g /\ handler[h].fresh
  /\ conn' = [conn EXCEPT !.token = IF conn.grant = g /\ @ = "fresh" THEN "expired" ELSE @]
  /\ handler' = [h \in Handlers |->
       [handler[h] EXCEPT !.seen = ~At(h, "idle"), !.fresh = @ /\ handler[h].grant # g]]
  /\ UNCHANGED <<accounts, lock>> /\ Same

\* A process dies: its transaction is rolled back and its lock released.
Crash(h) ==
  /\ ~At(h, "idle") /\ Fault
  /\ lock' = lock \ {h}
  /\ lost' = IF h \in lock /\ (conn.token = "spent" \/ At(h, "revoking")) THEN lost \cup {conn.grant} ELSE lost
  /\ Finish(h)
  /\ UNCHANGED <<provider, conn, accounts, granted, undone>>

Read(h) == UseCopy(h) \/ Adopt(h) \/ Refresh(h) \/ NoToken(h) \/ CommitRefresh(h) \/ Call(h)
Conclude(h) == ApplySync(h) \/ ApplyAuthorization(h) \/ ApplyTest(h) \/ ApplyUse(h) \/ MarkError(h)
Route(h) == RouteRefresh(h) \/ RouteUsesStored(h) \/ RouteSucceeds(h) \/ RouteNotes(h) \/ RouteRaises(h)
Proceed(h) == StoreGrant(h) \/ Read(h) \/ Conclude(h) \/ Route(h) \/ FinishDisconnect(h)

Next ==
  \/ \E h \in Handlers :
       \/ Exchange(h) \/ Snapshot(h) \/ TestRead(h) \/ OpenRoute(h) \/ StartDisconnect(h)
       \/ Proceed(h) \/ CallFails(h) \/ RouteFails(h) \/ DisconnectFails(h) \/ Crash(h)
  \/ DisconnectAtOnce
  \/ \E g \in 1 .. MaxGrants : Expire(g)

\* Handlers run on; the worker synchronizes a bank connection again and again
\* (enqueue_bank_syncs).
Fairness ==
  /\ \A h \in Handlers : SF_vars(Proceed(h))
  /\ SF_vars(\E h \in Handlers : Snapshot(h))

Spec == Init /\ [][Next]_vars /\ Fairness

-----------------------------------------------------------------------------
(* Properties *)

\* Shapes, and one holder of the lock at most.
TypeOK ==
  /\ provider \in Providers
  /\ conn \in [status : {"none", "connected", "error", "disconnected"},
               grant : 0 .. MaxGrants, token : {"none", "fresh", "expired", "spent"}]
  /\ conn.grant = 0 <=> conn.token = "none"
  /\ accounts \in 0 .. MaxGrants /\ granted \in 0 .. MaxGrants
  /\ lock \subseteq Handlers /\ Cardinality(lock) <= 1
  /\ lost \subseteq 1 .. MaxGrants /\ undone \subseteq 1 .. MaxGrants
  /\ faults \in 0 .. MaxFaults

\* However many requests and jobs refresh at once, the stored refresh token is the
\* newest one, save while its successor is being stored, after a crash in between,
\* and after the rollbacks of RouteRaises.
StoredTokenIsCurrent ==
  conn.token = "spent" => lock # {} \/ conn.grant \in lost \cup undone

\* mollie.authorization_for_connection: requests do not "invalidate one another": only
\* a crash costs the newest token.
FailuresKeepToken == undone = {}

\* sync_connection: "BankSync connection is no longer connected": no bank data are
\* stored once the customer has disconnected.
BankDataStops == [][accounts' # accounts /\ accounts' # 0 => conn.grant # 0]_vars

Working == conn.status = "connected" /\ (Is("ponto") => accounts = conn.grant)

\* A bank connection that is authorized works again and shows its own
\* accounts in the end, after errors, crashes, a cancelled consent, a token that
\* expired under several handlers, and a synchronization that began before it was
\* authorized anew.
ConnectionRecovers ==
  (conn.grant # 0 /\ ~Is("mollie")) ~> (Working \/ conn.grant = 0 \/ conn.grant \in lost)
=============================================================================
