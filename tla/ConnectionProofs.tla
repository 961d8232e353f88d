--------------------------- MODULE ConnectionProofs ---------------------------
(***************************************************************************)
(* The single-use refresh tokens of ProviderConnection, for any number of     *)
(* requests, jobs, authorizations and faults: the one that is stored is the    *)
(* newest, and Ponto's is lost in a crash only.                              *)
(***************************************************************************)
EXTENDS ProviderConnection, FiniteSetTheorems, TLAPS

-----------------------------------------------------------------------------
(* The inductive invariant *)

\* Where a handler stands while it holds the row's lock.
Locking == {"refreshed", "route", "asked", "refused", "revoking"}

HandlerRecord ==
  [pc : {"idle", "exchanged", "read", "call", "answered", "failed"} \cup Locking,
   task : {"none", "authorize", "use", "disconnect"} \cup Routes, grant : 0 .. MaxGrants, fresh : BOOLEAN,
   status : {"none", "connected", "error", "disconnected"}, seen : BOOLEAN]

ConnRows ==
  [status : {"none", "connected", "error", "disconnected"},
   grant : 0 .. MaxGrants, token : {"none", "fresh", "expired", "spent"}]

Shapes == TypeOK /\ handler \in [Handlers -> HandlerRecord]

\* The lock is held by the handler that is in a transaction with a call, and by no other.
LockFits ==
  /\ \A h \in Handlers : handler[h].pc \in Locking <=> h \in lock
  /\ \A h \in lock : lock = {h}

\* An authorization that was exchanged is one, and a row in a transaction with a call has
\* one; only Mollie's routes keep the lock over their calls.
GrantsFit ==
  \A h \in Handlers :
    /\ handler[h].pc = "exchanged" => handler[h].grant # 0
    /\ handler[h].pc \in Locking => conn.grant # 0
    /\ handler[h].pc \in {"route", "asked", "refused"} => Is("mollie")

\* The successor of a spent token is held by the handler that will store it, unless it was
\* lost or rolled back.
TokenFits ==
  conn.token = "spent" =>
    \/ conn.grant \in lost \cup undone
    \/ \E h \in lock : \/ handler[h].pc = "refreshed"
                       \/ handler[h].pc \in {"asked", "refused"} /\ handler[h].fresh

\* Nothing is rolled back at Ponto.
PontoKeeps == Is("ponto") => undone = {}

ConnectionInv == Shapes /\ LockFits /\ GrantsFit /\ TokenFits /\ PontoKeeps

-----------------------------------------------------------------------------
(* The shapes *)

\* The shapes, one by one.
LEMMA ShapesAre ==
  ASSUME ConnectionInv
  PROVE  /\ conn \in ConnRows /\ (conn.grant = 0 <=> conn.token = "none")
         /\ accounts \in 0 .. MaxGrants /\ granted \in 0 .. MaxGrants
         /\ lock \subseteq Handlers /\ lost \subseteq 1 .. MaxGrants /\ undone \subseteq 1 .. MaxGrants
         /\ faults \in 0 .. MaxFaults /\ handler \in [Handlers -> HandlerRecord]
         /\ provider \in Providers
BY DEF ConnectionInv, Shapes, TypeOK, ConnRows

\* They are kept when each is.
LEMMA ShapesKeep ==
  ASSUME conn' \in ConnRows, conn'.grant = 0 <=> conn'.token = "none",
         accounts' \in 0 .. MaxGrants, granted' \in 0 .. MaxGrants,
         lock' \subseteq Handlers, \A h \in lock' : lock' = {h},
         lost' \subseteq 1 .. MaxGrants, undone' \subseteq 1 .. MaxGrants,
         faults' \in 0 .. MaxFaults, handler' \in [Handlers -> HandlerRecord], provider' \in Providers
  PROVE  Shapes'
<1>1. Cardinality(lock') <= 1
  <2>1. CASE lock' = {}
    BY <2>1, FS_EmptySet
  <2>2. CASE \E h : lock' = {h}
    BY <2>2, FS_Singleton
  <2> QED
    BY <2>1, <2>2
<1> QED
  BY <1>1 DEF Shapes, TypeOK, ConnRows

\* Steps that leave the lock with nobody, or with who has it, and every other handler alone.
OthersStay(h) == \A k \in Handlers : k # h => handler'[k] = handler[k]

\* Where a step leaves a handler.
LEMMA GoStep ==
  ASSUME handler \in [Handlers -> HandlerRecord], NEW h \in Handlers, NEW r \in HandlerRecord,
         handler' = [handler EXCEPT ![h] = r]
  PROVE  handler' \in [Handlers -> HandlerRecord] /\ OthersStay(h) /\ handler'[h] = r
BY DEF OthersStay

\* A handler that ends.
LEMMA FinishStep ==
  ASSUME handler \in [Handlers -> HandlerRecord], NEW h \in Handlers, Finish(h)
  PROVE  handler' \in [Handlers -> HandlerRecord] /\ OthersStay(h) /\ handler'[h].pc = "idle"
BY ConnectionAssumption DEF Finish, Idle, HandlerRecord, OthersStay

\* A handler that goes on to another place.
LEMMA PlaceStep ==
  ASSUME handler \in [Handlers -> HandlerRecord], NEW h \in Handlers,
         NEW pc \in {"idle", "exchanged", "read", "call", "answered", "failed"} \cup Locking, Step(h, pc)
  PROVE  /\ handler' \in [Handlers -> HandlerRecord] /\ OthersStay(h)
         /\ handler'[h].pc = pc /\ handler'[h].grant = handler[h].grant /\ handler'[h].fresh = handler[h].fresh
BY DEF Step, HandlerRecord, OthersStay

\* A handler that begins with a copy of the row.
LEMMA BeginStep ==
  ASSUME handler \in [Handlers -> HandlerRecord], NEW h \in Handlers,
         NEW pc \in {"idle", "exchanged", "read", "call", "answered", "failed"} \cup Locking,
         NEW task \in {"none", "authorize", "use", "disconnect"} \cup Routes,
         NEW c \in ConnRows, Begin(h, pc, task, c)
  PROVE  /\ handler' \in [Handlers -> HandlerRecord] /\ OthersStay(h)
         /\ handler'[h].pc = pc /\ handler'[h].grant = c.grant
<1>1. [pc |-> pc, task |-> task, grant |-> c.grant, fresh |-> c.token = "fresh", status |-> c.status,
       seen |-> FALSE] \in HandlerRecord
  BY DEF HandlerRecord, ConnRows
<1> QED
  BY <1>1 DEF Begin, OthersStay

-----------------------------------------------------------------------------
(* Steps, by what they do to the lock *)

\* A step outside the lock of a handler that does not hold it: the row may change if the
\* lock is free and no token is spent.
LEMMA OutsideKeeps ==
  ASSUME ConnectionInv, NEW h \in Handlers, h \notin lock, OthersStay(h),
         handler' \in [Handlers -> HandlerRecord], handler'[h].pc \notin Locking,
         handler'[h].pc = "exchanged" => handler'[h].grant # 0,
         conn' = conn \/ lock = {},
         conn' \in ConnRows, conn'.grant = 0 <=> conn'.token = "none",
         conn'.token = "spent" => conn.token = "spent" /\ conn'.grant = conn.grant,
         accounts' \in 0 .. MaxGrants, granted' \in 0 .. MaxGrants, faults' \in 0 .. MaxFaults,
         UNCHANGED <<provider, lock, lost, undone>>
  PROVE  ConnectionInv'
<1>1. Shapes'
  BY ShapesAre, ShapesKeep DEF ConnectionInv, LockFits
<1>2. LockFits'
  BY DEF ConnectionInv, LockFits, OthersStay
<1>3. GrantsFit'
  BY DEF ConnectionInv, GrantsFit, LockFits, OthersStay, Is, Locking
<1>4. TokenFits'
  <2>1. SUFFICES ASSUME conn'.token = "spent", conn.grant \notin lost \cup undone
                 PROVE  \E k \in lock : \/ handler'[k].pc = "refreshed"
                                        \/ handler'[k].pc \in {"asked", "refused"} /\ handler'[k].fresh
    BY DEF TokenFits
  <2>2. PICK k \in lock : \/ handler[k].pc = "refreshed"
                          \/ handler[k].pc \in {"asked", "refused"} /\ handler[k].fresh
    BY <2>1 DEF ConnectionInv, TokenFits
  <2>3. k \in Handlers /\ k # h
    BY ShapesAre
  <2> QED
    BY <2>2, <2>3 DEF OthersStay
<1>5. PontoKeeps'
  BY DEF ConnectionInv, PontoKeeps, Is
<1> QED
  BY <1>1, <1>2, <1>3, <1>4, <1>5 DEF ConnectionInv

\* A step that takes the free lock.
LEMMA LockKeeps ==
  ASSUME ConnectionInv, NEW h \in Handlers, lock = {}, lock' = {h}, OthersStay(h),
         handler' \in [Handlers -> HandlerRecord], handler'[h].pc \in Locking,
         conn'.grant # 0,
         handler'[h].pc \in {"route", "asked", "refused"} => Is("mollie"),
         conn' \in ConnRows, conn'.grant = 0 <=> conn'.token = "none",
         conn'.token = "spent" => conn' = conn \/ handler'[h].pc = "refreshed",
         accounts' \in 0 .. MaxGrants, UNCHANGED <<provider, granted, lost, undone, faults>>
  PROVE  ConnectionInv'
<1>1. Shapes'
  BY ShapesAre, ShapesKeep
<1>2. LockFits'
  BY DEF ConnectionInv, LockFits, OthersStay
<1>3. GrantsFit'
  BY DEF ConnectionInv, GrantsFit, LockFits, OthersStay, Is, Locking
<1>4. TokenFits'
  BY DEF ConnectionInv, TokenFits
<1>5. PontoKeeps'
  BY DEF ConnectionInv, PontoKeeps, Is
<1> QED
  BY <1>1, <1>2, <1>3, <1>4, <1>5 DEF ConnectionInv

\* A step of the lock's holder, who keeps it.
LEMMA HoldKeeps ==
  ASSUME ConnectionInv, NEW h \in Handlers, h \in lock, OthersStay(h), UNCHANGED lock,
         handler' \in [Handlers -> HandlerRecord], handler'[h].pc \in {"asked", "refused"}, Is("mollie"),
         conn' \in ConnRows, conn'.grant # 0, conn'.token # "none",
         conn'.token = "spent" => handler'[h].fresh \/ conn'.grant \in lost \cup undone,
         accounts' \in 0 .. MaxGrants, faults' \in 0 .. MaxFaults, UNCHANGED <<provider, granted, lost, undone>>
  PROVE  ConnectionInv'
<1>0. lock = {h}
  BY DEF ConnectionInv, LockFits
<1>1. Shapes'
  BY <1>0, ShapesAre, ShapesKeep
<1>2. LockFits'
  BY <1>0 DEF ConnectionInv, LockFits, OthersStay, Locking
<1>3. GrantsFit'
  BY <1>0 DEF ConnectionInv, GrantsFit, LockFits, OthersStay, Is, Locking
<1>4. TokenFits'
  BY <1>0 DEF ConnectionInv, TokenFits
<1>5. PontoKeeps'
  BY DEF ConnectionInv, PontoKeeps, Is
<1> QED
  BY <1>1, <1>2, <1>3, <1>4, <1>5 DEF ConnectionInv

\* A step that ends the transaction of the lock's holder.
LEMMA ReleaseKeeps ==
  ASSUME ConnectionInv, NEW h \in Handlers, h \in lock, OthersStay(h), lock' = {},
         handler' \in [Handlers -> HandlerRecord], handler'[h].pc \notin Locking \cup {"exchanged"},
         conn' \in ConnRows, conn'.grant = 0 <=> conn'.token = "none",
         conn'.token = "spent" => conn'.grant \in lost' \cup undone',
         lost \subseteq lost', lost' \subseteq 1 .. MaxGrants,
         undone \subseteq undone', undone' \subseteq 1 .. MaxGrants, undone' = undone \/ ~Is("ponto"),
         accounts' \in 0 .. MaxGrants, faults' \in 0 .. MaxFaults, UNCHANGED <<provider, granted>>
  PROVE  ConnectionInv'
<1>0. lock = {h}
  BY DEF ConnectionInv, LockFits
<1>1. Shapes'
  BY ShapesAre, ShapesKeep
<1>2. LockFits'
  BY <1>0 DEF ConnectionInv, LockFits, OthersStay
<1>3. GrantsFit'
  BY <1>0 DEF ConnectionInv, GrantsFit, LockFits, OthersStay, Is, Locking
<1>4. TokenFits'
  BY DEF TokenFits
<1>5. PontoKeeps'
  BY DEF ConnectionInv, PontoKeeps, Is
<1> QED
  BY <1>1, <1>2, <1>3, <1>4, <1>5 DEF ConnectionInv

-----------------------------------------------------------------------------
(* Authorization, and reading the provider with no lock held *)

\* A handler outside the transactions holds no lock.
LEMMA NotLocking ==
  ASSUME ConnectionInv, NEW h \in Handlers, handler[h].pc \notin Locking
  PROVE  h \notin lock
BY DEF ConnectionInv, LockFits

\* A step to another place outside the lock that leaves the row alone.
LEMMA PlaceKeeps ==
  ASSUME ConnectionInv, NEW h \in Handlers, handler[h].pc \notin Locking,
         NEW pc \in {"read", "call", "answered", "failed"}, Step(h, pc),
         faults' \in 0 .. MaxFaults, UNCHANGED <<provider, conn, accounts, lock, granted, lost, undone>>
  PROVE  ConnectionInv'
<1>1. handler' \in [Handlers -> HandlerRecord] /\ OthersStay(h) /\ handler'[h].pc = pc
  BY ShapesAre, PlaceStep
<1> QED
  BY <1>1, ShapesAre, NotLocking, OutsideKeeps DEF Locking

\* A handler that begins to read outside the lock.
LEMMA ReadKeeps ==
  ASSUME ConnectionInv, NEW h \in Handlers, At(h, "idle"),
         NEW task \in {"use", "test"}, Begin(h, "read", task, conn), UNCHANGED <<conn, accounts, lock>>, Same
  PROVE  ConnectionInv'
<1>1. handler' \in [Handlers -> HandlerRecord] /\ OthersStay(h) /\ handler'[h].pc = "read"
  BY ShapesAre, BeginStep DEF Routes
<1> QED
  BY <1>1, ShapesAre, NotLocking, OutsideKeeps DEF Locking, At, Same

\* A handler that ends outside the lock, with what it may write to the row.
LEMMA EndKeeps ==
  ASSUME ConnectionInv, NEW h \in Handlers, handler[h].pc \notin Locking, Finish(h),
         conn' = conn \/ lock = {},
         NEW s \in {"none", "connected", "error", "disconnected"},
         conn' = conn \/ conn' = [conn EXCEPT !.status = s],
         accounts' \in 0 .. MaxGrants, faults' \in 0 .. MaxFaults, UNCHANGED <<provider, lock, granted, lost, undone>>
  PROVE  ConnectionInv'
<1>1. handler' \in [Handlers -> HandlerRecord] /\ OthersStay(h) /\ handler'[h].pc = "idle"
  BY ShapesAre, FinishStep
<1>2. conn' \in ConnRows /\ conn'.grant = conn.grant /\ conn'.token = conn.token
  BY ShapesAre DEF ConnRows
<1> QED
  BY <1>1, <1>2, ShapesAre, NotLocking, OutsideKeeps DEF Locking

\* An authorization code is exchanged.
LEMMA ExchangeKeeps ==
  ASSUME ConnectionInv, NEW h \in Handlers, Exchange(h)
  PROVE  ConnectionInv'
<1> DEFINE c == [status |-> "connected", grant |-> granted + 1, token |-> "fresh"]
<1>1. c \in ConnRows /\ c.grant # 0
  BY ShapesAre, ConnectionAssumption DEF Exchange, ConnRows
<1>2. /\ handler' \in [Handlers -> HandlerRecord] /\ OthersStay(h)
      /\ handler'[h].pc = "exchanged" /\ handler'[h].grant # 0
  BY <1>1, ShapesAre, BeginStep DEF Exchange
<1>3. granted' \in 0 .. MaxGrants
  BY ShapesAre, ConnectionAssumption DEF Exchange
<1> QED
  BY <1>2, <1>3, ShapesAre, NotLocking, OutsideKeeps DEF Locking, At, Exchange

\* The authorization is stored.
LEMMA StoreGrantKeeps ==
  ASSUME ConnectionInv, NEW h \in Handlers, StoreGrant(h)
  PROVE  ConnectionInv'
<1>1. /\ handler' \in [Handlers -> HandlerRecord] /\ OthersStay(h)
      /\ handler'[h].pc \in {"idle", "read"}
  <2>1. CASE Finish(h)
    BY <2>1, ShapesAre, FinishStep
  <2>2. CASE Step(h, "read")
    BY <2>2, ShapesAre, PlaceStep
  <2> QED
    BY <2>1, <2>2 DEF StoreGrant
<1>2. handler[h].grant \in 1 .. MaxGrants
  <2>1. handler[h].grant # 0 /\ handler[h] \in HandlerRecord
    BY ShapesAre DEF StoreGrant, At, ConnectionInv, GrantsFit
  <2> QED
    BY <2>1, ConnectionAssumption DEF HandlerRecord
<1>3. conn' \in ConnRows /\ conn'.grant # 0 /\ conn'.token \in {"fresh", "expired"}
  BY <1>2, ConnectionAssumption DEF StoreGrant, ConnRows, Is
<1>4. accounts' \in 0 .. MaxGrants
  BY ConnectionAssumption DEF StoreGrant
<1> QED
  BY <1>1, <1>3, <1>4, ShapesAre, NotLocking, OutsideKeeps DEF Locking, At, StoreGrant, Free, Same

\* A handler that goes on to the call, with its own token or an adopted one, or ends
\* up without any.
LEMMA TokenReadKeeps ==
  ASSUME ConnectionInv, NEW h \in Handlers, UseCopy(h) \/ Adopt(h) \/ NoToken(h) \/ Call(h) \/ CallFails(h)
  PROVE  ConnectionInv'
<1>1. CASE UseCopy(h)
  BY <1>1, ShapesAre, PlaceKeeps DEF UseCopy, At, Locking, Same
<1>2. CASE NoToken(h)
  BY <1>2, ShapesAre, PlaceKeeps DEF NoToken, At, Locking, Same
<1>3. CASE Call(h)
  BY <1>3, ShapesAre, PlaceKeeps DEF Call, At, Locking, Same
<1>4. CASE CallFails(h)
  <2>1. faults' \in 0 .. MaxFaults
    BY <1>4, ShapesAre, ConnectionAssumption DEF CallFails, Fault
  <2> QED
    BY <2>1, <1>4, ShapesAre, PlaceKeeps DEF CallFails, At, Locking
<1>5. CASE Adopt(h)
  <2>1. handler[h] \in HandlerRecord /\ conn.grant \in 0 .. MaxGrants
    BY ShapesAre DEF ConnRows
  <2>2. [handler[h] EXCEPT !.pc = "call", !.grant = conn.grant, !.fresh = TRUE] \in HandlerRecord
    BY <2>1 DEF HandlerRecord
  <2>3. /\ handler' \in [Handlers -> HandlerRecord] /\ OthersStay(h)
        /\ handler'[h] = [handler[h] EXCEPT !.pc = "call", !.grant = conn.grant, !.fresh = TRUE]
    BY <1>5, <2>2, ShapesAre DEF Adopt, OthersStay
  <2>4. handler'[h].pc = "call"
    BY <2>1, <2>3 DEF HandlerRecord
  <2> QED
    BY <1>5, <2>3, <2>4, ShapesAre, NotLocking, OutsideKeeps DEF Adopt, Locking, At, Same
<1> QED
  BY <1>1, <1>2, <1>3, <1>4, <1>5

\* The result of a read is noted in the row, under its lock.
LEMMA ConcludeKeeps ==
  ASSUME ConnectionInv, NEW h \in Handlers, Conclude(h)
  PROVE  ConnectionInv'
<1>1. conn = [conn EXCEPT !.status = conn.status] /\ conn.status \in {"none", "connected", "error", "disconnected"}
  BY ShapesAre DEF ConnRows
<1>2. handler[h].grant \in 0 .. MaxGrants
  BY ShapesAre DEF HandlerRecord
<1>3. CASE ApplySync(h)
  <2>1. CASE Step(h, "failed") /\ UNCHANGED <<conn, accounts>>
    BY <1>3, <2>1, ShapesAre, PlaceKeeps DEF ApplySync, At, Locking, Same
  <2>2. CASE Finish(h)
    BY <1>2, <1>3, <2>2, ShapesAre, EndKeeps DEF ApplySync, At, Locking, Same, Free
  <2> QED
    BY <1>3, <2>1, <2>2 DEF ApplySync
<1>4. CASE ApplyAuthorization(h)
  BY <1>2, <1>4, ShapesAre, EndKeeps DEF ApplyAuthorization, At, Locking, Same, Free
<1>5. CASE ApplyTest(h)
  <2> DEFINE result == IF At(h, "answered") THEN "connected" ELSE "error"
  <2>1. result \in {"none", "connected", "error", "disconnected"}
    OBVIOUS
  <2>2. conn' = conn \/ conn' = [conn EXCEPT !.status = result]
    BY <1>5 DEF ApplyTest
  <2>3. lock = {} /\ Finish(h) /\ Same /\ UNCHANGED <<accounts, lock>> /\ handler[h].pc \notin Locking
    BY <1>5 DEF ApplyTest, Free, Locking
  <2> HIDE DEF result
  <2> QED
    BY <2>1, <2>2, <2>3, ShapesAre, EndKeeps DEF Same
<1>6. CASE ApplyUse(h)
  BY <1>1, <1>6, ShapesAre, EndKeeps DEF ApplyUse, Locking, Same
<1>7. CASE MarkError(h)
  BY <1>7, ShapesAre, EndKeeps DEF MarkError, At, Locking, Same, Free
<1> QED
  BY <1>3, <1>4, <1>5, <1>6, <1>7 DEF Conclude

-----------------------------------------------------------------------------
(* The transactions that call the provider *)

\* A stored refresh token is used and spent.
LEMMA RefreshKeeps ==
  ASSUME ConnectionInv, NEW h \in Handlers, Refresh(h)
  PROVE  ConnectionInv'
<1> DEFINE r == [handler[h] EXCEPT !.pc = "refreshed", !.grant = conn.grant, !.fresh = TRUE]
<1>1. r \in HandlerRecord /\ r.pc = "refreshed"
  BY ZenonT(40), ShapesAre DEF HandlerRecord, ConnRows, Locking
<1>2. handler' \in [Handlers -> HandlerRecord] /\ OthersStay(h) /\ handler'[h] = r
  BY <1>1, ShapesAre DEF Refresh, OthersStay
<1>3. conn' \in ConnRows /\ conn'.grant # 0 /\ conn'.token # "none"
  BY ShapesAre DEF Refresh, ConnRows
<1>4. handler'[h].pc = "refreshed"
  BY <1>1, <1>2
<1> QED
  BY <1>2, <1>3, <1>4, ShapesAre, LockKeeps DEF Refresh, Free, Same, Locking

\* A handler in a transaction with a call holds the lock, over a row with an authorization.
LEMMA LockingHolds ==
  ASSUME ConnectionInv, NEW h \in Handlers, handler[h].pc \in Locking
  PROVE  h \in lock /\ lock = {h} /\ conn.grant # 0 /\ conn.token # "none"
BY ShapesAre DEF ConnectionInv, LockFits, GrantsFit

\* The refreshed token is stored.
LEMMA CommitKeeps ==
  ASSUME ConnectionInv, NEW h \in Handlers, CommitRefresh(h)
  PROVE  ConnectionInv'
<1>1. handler' \in [Handlers -> HandlerRecord] /\ OthersStay(h) /\ handler'[h].pc = "call"
  BY ShapesAre, PlaceStep DEF CommitRefresh
<1>2. h \in lock /\ conn.grant # 0
  BY LockingHolds DEF CommitRefresh, At, Locking
<1>3. conn' \in ConnRows /\ conn'.grant # 0 /\ conn'.token = "fresh"
  BY <1>2, ShapesAre DEF CommitRefresh, ConnRows
<1> QED
  BY <1>1, <1>2, <1>3, ShapesAre, ReleaseKeeps DEF CommitRefresh, Same, Locking

\* A route of Mollie's locks the row.
LEMMA OpenRouteKeeps ==
  ASSUME ConnectionInv, NEW h \in Handlers, OpenRoute(h)
  PROVE  ConnectionInv'
<1>1. PICK route \in Routes : Begin(h, "route", route, conn)
  BY DEF OpenRoute
<1>2. handler' \in [Handlers -> HandlerRecord] /\ OthersStay(h) /\ handler'[h].pc = "route"
  BY <1>1, ShapesAre, BeginStep DEF Locking
<1>3. conn.grant # 0 /\ lock = {} /\ lock' = {h} /\ UNCHANGED <<conn, accounts>> /\ Same /\ Is("mollie")
  BY DEF OpenRoute, Free
<1> QED
  BY <1>2, <1>3, ShapesAre, LockKeeps DEF Same, Locking

\* A route asks Mollie: with a token it refreshed, with the stored one, or without.
LEMMA RouteAsksKeeps ==
  ASSUME ConnectionInv, NEW h \in Handlers, RouteRefresh(h) \/ RouteUsesStored(h) \/ RouteFails(h)
  PROVE  ConnectionInv'
<1>1. handler[h].pc \in {"route", "asked"}
  BY DEF RouteRefresh, RouteUsesStored, RouteFails, At
<1>2. h \in lock /\ lock = {h} /\ conn.grant # 0 /\ conn.token # "none" /\ Is("mollie")
  BY <1>1, LockingHolds DEF Locking, ConnectionInv, GrantsFit
<1>3. handler[h] \in HandlerRecord
  BY ShapesAre
<1>4. CASE RouteRefresh(h)
  <2> DEFINE r == [handler[h] EXCEPT !.pc = "asked", !.fresh = TRUE]
  <2>1. r \in HandlerRecord /\ r.pc = "asked" /\ r.fresh
    BY <1>3 DEF HandlerRecord, Locking
  <2>2. handler' \in [Handlers -> HandlerRecord] /\ OthersStay(h) /\ handler'[h] = r
    BY <1>4, <2>1, ShapesAre DEF RouteRefresh, OthersStay
  <2>3. conn' \in ConnRows /\ conn'.grant # 0 /\ conn'.token # "none"
    BY <1>2, <1>4, ShapesAre DEF RouteRefresh, ConnRows
  <2> QED
    BY <1>2, <1>4, <2>1, <2>2, <2>3, ShapesAre, HoldKeeps DEF RouteRefresh, Same
<1>5. CASE RouteUsesStored(h)
  <2>1. PICK pc \in {"asked", "refused"} : Step(h, pc)
    BY <1>5 DEF RouteUsesStored
  <2>2. handler' \in [Handlers -> HandlerRecord] /\ OthersStay(h) /\ handler'[h].pc = pc
    BY <2>1, ShapesAre, PlaceStep DEF Locking
  <2>3. conn.token = "spent" => conn.grant \in lost \cup undone
    BY <1>2, <1>5 DEF RouteUsesStored, At, ConnectionInv, TokenFits
  <2> QED
    BY <1>2, <1>5, <2>2, <2>3, ShapesAre, HoldKeeps DEF RouteUsesStored, Same
<1>6. CASE RouteFails(h)
  <2>1. /\ handler' \in [Handlers -> HandlerRecord] /\ OthersStay(h)
        /\ handler'[h].pc = "refused" /\ handler'[h].fresh = handler[h].fresh
    BY <1>6, ShapesAre, PlaceStep DEF RouteFails, Locking
  <2>2. conn.token = "spent" => handler[h].fresh \/ conn.grant \in lost \cup undone
    BY <1>2, <1>6 DEF RouteFails, At, ConnectionInv, TokenFits
  <2>3. faults' \in 0 .. MaxFaults
    BY <1>6, ShapesAre, ConnectionAssumption DEF RouteFails, Fault
  <2> QED
    BY <1>2, <1>6, <2>1, <2>2, <2>3, ShapesAre, HoldKeeps DEF RouteFails
<1> QED
  BY <1>4, <1>5, <1>6

\* A route ends: its outcome and the token it refreshed are stored, or all is rolled back.
LEMMA RouteEndsKeeps ==
  ASSUME ConnectionInv, NEW h \in Handlers, RouteSucceeds(h) \/ RouteNotes(h) \/ RouteRaises(h)
  PROVE  ConnectionInv'
<1>1. handler[h].pc \in {"asked", "refused"}
  BY DEF RouteSucceeds, RouteNotes, RouteRaises, At
<1>2. h \in lock /\ lock = {h} /\ conn.grant # 0 /\ conn.token # "none" /\ Is("mollie")
  BY <1>1, LockingHolds DEF Locking, ConnectionInv, GrantsFit
<1>3. handler' \in [Handlers -> HandlerRecord] /\ OthersStay(h) /\ handler'[h].pc = "idle"
  BY ShapesAre, FinishStep DEF RouteSucceeds, RouteNotes, RouteRaises
<1>4. conn.token = "spent" => handler[h].fresh \/ conn.grant \in lost \cup undone
  BY <1>1, <1>2 DEF ConnectionInv, TokenFits
<1>5. ~Is("ponto")
  BY <1>2 DEF Is
<1>6. CASE RouteSucceeds(h) \/ RouteNotes(h)
  <2>1. PICK s \in {"none", "connected", "error", "disconnected"} : conn' = Stored(h, s)
    BY <1>6, ShapesAre DEF RouteSucceeds, RouteNotes, ConnRows
  <2>2. /\ conn' \in ConnRows /\ conn'.grant = conn.grant
        /\ conn'.token = IF handler[h].fresh THEN "fresh" ELSE conn.token
    BY <2>1, ShapesAre DEF Stored, ConnRows
  <2>3. lock' = {} /\ accounts' = accounts /\ Same
    BY <1>6 DEF RouteSucceeds, RouteNotes
  <2> QED
    BY <1>2, <1>3, <1>4, <2>2, <2>3, ShapesAre, ReleaseKeeps DEF Same, Locking
<1>7. CASE RouteRaises(h)
  <2>1. conn.grant \in 1 .. MaxGrants
    BY <1>2, ShapesAre, ConnectionAssumption DEF ConnRows
  <2>2. undone \subseteq undone' /\ undone' \subseteq 1 .. MaxGrants
    BY <1>7, <2>1, ShapesAre DEF RouteRaises
  <2>3. conn'.token = "spent" => conn'.grant \in lost' \cup undone'
    BY <1>4, <1>7 DEF RouteRaises
  <2> QED
    BY <1>2, <1>3, <1>5, <1>7, <2>2, <2>3, ShapesAre, ReleaseKeeps DEF RouteRaises, Locking
<1> QED
  BY <1>6, <1>7

-----------------------------------------------------------------------------
(* Disconnection, time and crashes *)

\* Ponto's authorization is about to be revoked.
LEMMA StartDisconnectKeeps ==
  ASSUME ConnectionInv, NEW h \in Handlers, StartDisconnect(h)
  PROVE  ConnectionInv'
<1>1. handler' \in [Handlers -> HandlerRecord] /\ OthersStay(h) /\ handler'[h].pc = "revoking"
  BY ShapesAre, BeginStep DEF Locking, StartDisconnect
<1> QED
  BY <1>1, ShapesAre, LockKeeps DEF StartDisconnect, Free, Same, Locking

\* Ponto revoked it, or refused.
LEMMA EndDisconnectKeeps ==
  ASSUME ConnectionInv, NEW h \in Handlers, FinishDisconnect(h) \/ DisconnectFails(h)
  PROVE  ConnectionInv'
<1>1. handler[h].pc = "revoking"
  BY DEF FinishDisconnect, DisconnectFails, At
<1>2. h \in lock /\ lock = {h}
  BY <1>1, LockingHolds DEF Locking
<1>3. handler' \in [Handlers -> HandlerRecord] /\ OthersStay(h) /\ handler'[h].pc = "idle"
  BY ShapesAre, FinishStep DEF FinishDisconnect, DisconnectFails
<1>4. CASE FinishDisconnect(h)
  <2>1. conn' \in ConnRows /\ conn'.grant = 0 /\ conn'.token = "none" /\ accounts' \in 0 .. MaxGrants
    BY <1>4, ConnectionAssumption DEF FinishDisconnect, ConnRows
  <2> QED
    BY <1>2, <1>3, <1>4, <2>1, ShapesAre, ReleaseKeeps DEF FinishDisconnect, Same, Locking
<1>5. CASE DisconnectFails(h)
  <2>1. conn.token = "spent" => conn.grant \in lost \cup undone
    BY <1>1, <1>2 DEF ConnectionInv, TokenFits
  <2>2. faults' \in 0 .. MaxFaults
    BY <1>5, ShapesAre, ConnectionAssumption DEF DisconnectFails, Fault
  <2> QED
    BY <1>2, <1>3, <1>5, <2>1, <2>2, ShapesAre, ReleaseKeeps DEF DisconnectFails, Locking
<1> QED
  BY <1>4, <1>5

\* A row is disconnected at once.
LEMMA DisconnectAtOnceKeeps ==
  ASSUME ConnectionInv, DisconnectAtOnce
  PROVE  ConnectionInv'
<1>1. conn' \in ConnRows /\ conn'.grant = 0 /\ conn'.token = "none" /\ accounts' \in 0 .. MaxGrants
  BY ConnectionAssumption DEF DisconnectAtOnce, ConnRows
<1>2. lock = {} /\ UNCHANGED <<provider, lock, handler, granted, lost, undone, faults>>
  BY DEF DisconnectAtOnce, Free, Same
<1>3. Shapes'
  BY <1>1, <1>2, ShapesAre, ShapesKeep
<1>4. LockFits' /\ GrantsFit' /\ PontoKeeps'
  BY <1>2 DEF ConnectionInv, LockFits, GrantsFit, PontoKeeps, Is, Locking
<1>5. TokenFits'
  BY <1>1 DEF TokenFits
<1> QED
  BY <1>3, <1>4, <1>5 DEF ConnectionInv

\* An access token expires.
LEMMA ExpireKeeps ==
  ASSUME ConnectionInv, NEW g \in 1 .. MaxGrants, Expire(g)
  PROVE  ConnectionInv'
<1>1. lock = {} /\ UNCHANGED <<provider, accounts, lock, granted, lost, undone, faults>>
  BY DEF Expire, Free, Same
<1>2. /\ conn' \in ConnRows /\ (conn'.grant = 0 <=> conn'.token = "none")
      /\ conn'.token = "spent" => conn.token = "spent" /\ conn'.grant = conn.grant
  BY ShapesAre DEF Expire, ConnRows
<1>3. /\ handler' \in [Handlers -> HandlerRecord]
      /\ \A h \in Handlers : handler'[h].pc = handler[h].pc /\ handler'[h].grant = handler[h].grant
  <2> DEFINE s(h) == ~At(h, "idle")
             f(h) == handler[h].fresh /\ handler[h].grant # g
  <2>1. handler' = [h \in Handlers |-> [handler[h] EXCEPT !.seen = s(h), !.fresh = f(h)]]
    BY DEF Expire
  <2>2. ASSUME NEW h \in Handlers
        PROVE  s(h) \in BOOLEAN /\ f(h) \in BOOLEAN
    OBVIOUS
  <2>3. handler \in [Handlers -> HandlerRecord]
    BY ShapesAre
  <2> HIDE DEF s, f
  <2>4. ASSUME NEW h \in Handlers
        PROVE  /\ handler'[h] \in HandlerRecord
               /\ handler'[h].pc = handler[h].pc /\ handler'[h].grant = handler[h].grant
    BY <2>1, <2>2, <2>3 DEF HandlerRecord
  <2> QED
    BY <2>1, <2>4
<1>4. Shapes'
  BY <1>1, <1>2, <1>3, ShapesAre, ShapesKeep
<1>5. LockFits' /\ GrantsFit' /\ PontoKeeps'
  BY <1>1, <1>3 DEF ConnectionInv, LockFits, GrantsFit, PontoKeeps, Is, Locking
<1>6. TokenFits'
  BY <1>1, <1>2 DEF ConnectionInv, TokenFits
<1> QED
  BY <1>4, <1>5, <1>6 DEF ConnectionInv

\* A process dies.
LEMMA CrashKeeps ==
  ASSUME ConnectionInv, NEW h \in Handlers, Crash(h)
  PROVE  ConnectionInv'
<1>1. handler' \in [Handlers -> HandlerRecord] /\ OthersStay(h) /\ handler'[h].pc = "idle"
  BY ShapesAre, FinishStep DEF Crash
<1>2. faults' \in 0 .. MaxFaults /\ UNCHANGED <<provider, conn, accounts, granted, undone>>
  BY ShapesAre, ConnectionAssumption DEF Crash, Fault
<1>3. CASE h \in lock
  <2>1. lock' = {} /\ conn.grant \in 1 .. MaxGrants
    <3>1. handler[h].pc \in Locking
      BY <1>3 DEF ConnectionInv, LockFits
    <3>2. lock = {h} /\ conn.grant # 0
      BY <3>1, LockingHolds
    <3> QED
      BY <3>2, ShapesAre, ConnectionAssumption DEF Crash, ConnRows
  <2>2. /\ lost \subseteq lost' /\ lost' \subseteq 1 .. MaxGrants
        /\ conn.token = "spent" => conn.grant \in lost'
    BY <1>3, <2>1, ShapesAre DEF Crash
  <2> QED
    BY <1>1, <1>2, <1>3, <2>1, <2>2, ShapesAre, ReleaseKeeps DEF Locking
<1>4. CASE h \notin lock
  <2>1. UNCHANGED <<lock, lost>>
    BY <1>4 DEF Crash
  <2> QED
    BY <1>1, <1>2, <1>4, <2>1, ShapesAre, OutsideKeeps DEF Locking
<1> QED
  BY <1>3, <1>4

-----------------------------------------------------------------------------
(* The theorems *)

\* No step leaves the invariant.
LEMMA ConnectionNext ==
  ASSUME ConnectionInv, [Next]_vars
  PROVE  ConnectionInv'
<1>1. ASSUME NEW h \in Handlers, Proceed(h)
      PROVE  ConnectionInv'
  <2>1. CASE StoreGrant(h)
    BY <2>1, StoreGrantKeeps
  <2>2. CASE Read(h)
    BY <2>2, TokenReadKeeps, RefreshKeeps, CommitKeeps DEF Read
  <2>3. CASE Conclude(h)
    BY <2>3, ConcludeKeeps
  <2>4. CASE Route(h)
    BY <2>4, RouteAsksKeeps, RouteEndsKeeps DEF Route
  <2>5. CASE FinishDisconnect(h)
    BY <2>5, EndDisconnectKeeps
  <2> QED
    BY <1>1, <2>1, <2>2, <2>3, <2>4, <2>5 DEF Proceed
<1>2. ASSUME NEW h \in Handlers, Snapshot(h) \/ TestRead(h)
      PROVE  ConnectionInv'
  BY <1>2, ReadKeeps DEF Snapshot, TestRead
<1>3. CASE UNCHANGED vars
  BY <1>3 DEF vars, ConnectionInv, Shapes, TypeOK, LockFits, GrantsFit, TokenFits, PontoKeeps, Is
<1>4. CASE Next
  BY <1>1, <1>2, <1>4, ExchangeKeeps, OpenRouteKeeps, StartDisconnectKeeps, TokenReadKeeps, RouteAsksKeeps,
     EndDisconnectKeeps, CrashKeeps, DisconnectAtOnceKeeps, ExpireKeeps DEF Next
<1> QED
  BY <1>3, <1>4

\* The connection is always in the invariant.
THEOREM ConnectionInvariant == Spec => []ConnectionInv
<1>1. Init => ConnectionInv
  <2>1. ASSUME Init
        PROVE  Shapes
    <3>1. handler \in [Handlers -> HandlerRecord]
      BY <2>1, ConnectionAssumption DEF Init, Idle, HandlerRecord
    <3>2. TypeOK
      BY <2>1, ConnectionAssumption, FS_EmptySet DEF Init, NoRow, TypeOK
    <3> QED
      BY <3>1, <3>2 DEF Shapes
  <2> QED
    BY <2>1 DEF Init, NoRow, Idle, ConnectionInv, LockFits, GrantsFit, TokenFits, PontoKeeps, Locking
<1>2. ConnectionInv /\ [Next]_vars => ConnectionInv'
  BY ConnectionNext
<1> QED
  BY <1>1, <1>2, PTL DEF Spec

\* The shapes of the row, the lock and the counters, with one holder of the lock at most.
THEOREM ConnectionTypeCorrect == Spec => []TypeOK
<1>1. ConnectionInv => TypeOK
  BY DEF ConnectionInv, Shapes
<1> QED
  BY <1>1, ConnectionInvariant, PTL

\* However many requests and jobs refresh at once, the stored refresh token is the newest
\* one, save while its successor is being stored, after a crash, and after a rollback.
THEOREM StoredTokenIsNewest == Spec => []StoredTokenIsCurrent
<1>1. ConnectionInv => StoredTokenIsCurrent
  BY DEF ConnectionInv, TokenFits, StoredTokenIsCurrent
<1> QED
  BY <1>1, ConnectionInvariant, PTL

\* What mollie.authorization_for_connection promises holds of Ponto, which commits its
\* refreshed token in a transaction of its own: only a crash costs the newest token.
THEOREM PontoKeepsToken == Spec => [](Is("ponto") => FailuresKeepToken)
<1>1. ConnectionInv => (Is("ponto") => FailuresKeepToken)
  BY DEF ConnectionInv, PontoKeeps, FailuresKeepToken
<1> QED
  BY <1>1, ConnectionInvariant, PTL
=============================================================================
