-------------------------- MODULE EntitlementProofs --------------------------
(***************************************************************************)
(* Who grants Pro, for any number of purchases, requests, periods and upsets: *)
(* no two providers at once, and Google keeps no money for a purchase that    *)
(* was not recorded.  And the receipts for what was paid, for any number of   *)
(* invoices, handlers and faults: one for a payment.                         *)
(***************************************************************************)
EXTENDS Entitlements, BillingReceipts, FiniteSetTheorems, TLAPS

-----------------------------------------------------------------------------
(* The inductive invariant *)

States == {"none", "pending", "active", "grace_period", "cancelled", "expired", "revoked"}
Payloads == [state : States, until : Nat, acked : BOOLEAN]

\* Where a request stands while it holds the organization's lock.
Applying == {"locked", "flushed", "acknowledged"}

RequestRecord ==
  [pc : {"idle", "fetched"} \cup Applying, verifies : BOOLEAN, token : Purchases \cup {NoPurchase},
   payload : Payloads]

Rows == [status : States, until : Nat]

RequestShape == request \in [Requests -> RequestRecord]

Shapes ==
  /\ time \in Nat
  /\ market \in [Purchases -> Payloads]
  /\ google \in [token : Purchases \cup {NoPurchase}, status : States, until : Nat]
  /\ mollie \in Rows /\ admin \in Rows
  /\ settled \subseteq Purchases

\* Every request that is under way has a purchase.
RequestsFit == \A r \in Requests : request[r].pc # "idle" => request[r].token \in Purchases

\* The organization is locked by the request that applies a payload, and by no other.
LocksFit ==
  /\ orgLock \subseteq Requests /\ rowLock \subseteq Requests
  /\ \A r \in Requests : request[r].pc \in Applying <=> r \in orgLock
  /\ \A r \in orgLock : orgLock = {r}
  /\ \A r \in rowLock : rowLock = {r}

\* What ended at Mollie has no date: a date ahead is a paid period or a grace.
EndedHasNoDate == mollie.status \notin EntitledStatuses => mollie.until = 0

\* What a request is about to record was seen to be in nobody's way, and still is.
StillAdmitted == \A r \in Requests : request[r].pc \in {"flushed", "acknowledged"} => ~Conflicting(r)

EntitlementInv ==
  /\ Shapes /\ RequestShape /\ RequestsFit /\ LocksFit /\ EndedHasNoDate /\ StillAdmitted
  /\ OneProviderGrants /\ AcknowledgedIsGranted

-----------------------------------------------------------------------------
(* Requests *)

\* Every request but one stays where it is.
OthersWait(r) == \A q \in Requests : q # r => request'[q] = request[q]

\* A request that goes on keeps what it read.
LEMMA ToStep ==
  ASSUME RequestShape, NEW r \in Requests, NEW pc \in {"idle", "fetched"} \cup Applying, To(r, pc)
  PROVE  /\ RequestShape' /\ OthersWait(r) /\ request'[r].pc = pc
         /\ request'[r].token = request[r].token /\ request'[r].payload = request[r].payload
BY DEF To, RequestShape, RequestRecord, OthersWait

\* A request that ends.
LEMMA ReleaseStep ==
  ASSUME RequestShape, NEW r \in Requests, Release(r)
  PROVE  RequestShape' /\ OthersWait(r) /\ request'[r].pc = "idle"
BY DEF Release, NoRequest, RequestShape, RequestRecord, Payloads, States, OthersWait

\* A request that begins.
LEMMA FetchStep ==
  ASSUME RequestShape, NEW r \in Requests, NEW p \in Purchases, NEW verifies \in BOOLEAN, NEW payload \in Payloads,
         request' = [request EXCEPT ![r] = [pc |-> "fetched", verifies |-> verifies, token |-> p,
                                            payload |-> payload]]
  PROVE  RequestShape' /\ OthersWait(r) /\ request'[r].pc = "fetched" /\ request'[r].token = p
BY DEF RequestShape, RequestRecord, OthersWait

-----------------------------------------------------------------------------
(* The parts, by what a step does to them *)

\* Requests and locks after a step of one request: the organization's lock is its own
\* while it applies a payload, and another's stays.
LEMMA LocksKeep ==
  ASSUME EntitlementInv, NEW r \in Requests, OthersWait(r),
         request'[r].pc # "idle" => request'[r].token \in Purchases,
         request'[r].pc \in Applying =>
           orgLock' = {r} /\ (orgLock = {} \/ request[r].pc \in Applying),
         request'[r].pc \notin Applying => orgLock' = orgLock \ {r},
         rowLock' = rowLock \/ rowLock' = rowLock \ {r} \/ (rowLock \subseteq {r} /\ rowLock' = {r})
  PROVE  RequestsFit' /\ LocksFit'
<1>1. RequestsFit'
  BY DEF EntitlementInv, RequestsFit, OthersWait
<1>2. orgLock' \subseteq Requests /\ rowLock' \subseteq Requests
  BY DEF EntitlementInv, LocksFit
<1>3. \A q \in orgLock' : orgLock' = {q}
  BY DEF EntitlementInv, LocksFit
<1>4. \A q \in rowLock' : rowLock' = {q}
  BY DEF EntitlementInv, LocksFit
<1>5. ASSUME NEW q \in Requests
      PROVE  request'[q].pc \in Applying <=> q \in orgLock'
  <2>1. CASE q = r
    BY <2>1
  <2>2. CASE q # r /\ request'[r].pc \notin Applying
    BY <2>2 DEF EntitlementInv, LocksFit, OthersWait
  <2>3. CASE q # r /\ request'[r].pc \in Applying
    <3>1. q \notin orgLock
      BY <2>3 DEF EntitlementInv, LocksFit
    <3> QED
      BY <2>3, <3>1 DEF EntitlementInv, LocksFit, OthersWait
  <2> QED
    BY <2>1, <2>2, <2>3
<1> QED
  BY <1>1, <1>2, <1>3, <1>4, <1>5 DEF LocksFit

\* The requests that are admitted stay so when the other providers' rows stay or the
\* organization is not locked.
LEMMA AdmittedKeep ==
  ASSUME EntitlementInv, NEW r \in Requests, OthersWait(r), UNCHANGED <<time, mollie, admin>>,
         request'[r].pc \in {"flushed", "acknowledged"} =>
           ~Conflicting(r) /\ request'[r].payload = request[r].payload
  PROVE  StillAdmitted'
BY DEF EntitlementInv, StillAdmitted, OthersWait, Conflicting, Grants, Entitles

\* What was acknowledged was recorded, or is being recorded by the request that
\* acknowledged it.
LEMMA AcknowledgedKeep ==
  ASSUME EntitlementInv, NEW r \in Requests, OthersWait(r), settled \subseteq settled',
         \A p \in Purchases : market'[p].acked =>
           market[p].acked \/ p \in settled' \/ (request'[r].pc = "acknowledged" /\ request'[r].token = p),
         request[r].pc = "acknowledged" => \A p \in Purchases :
           p = request[r].token => p \in settled' \/ (request'[r].pc = "acknowledged" /\ request'[r].token = p)
  PROVE  AcknowledgedIsGranted'
<1> SUFFICES ASSUME NEW p \in Purchases, market'[p].acked, p \notin settled'
             PROVE  \E q \in Requests : request'[q].pc = "acknowledged" /\ request'[q].token = p
  BY DEF AcknowledgedIsGranted, Stands
<1>1. CASE request'[r].pc = "acknowledged" /\ request'[r].token = p
  BY <1>1
<1>2. CASE ~(request'[r].pc = "acknowledged" /\ request'[r].token = p)
  <2>1. PICK q \in Requests : request[q].pc = "acknowledged" /\ request[q].token = p
    BY <1>2 DEF EntitlementInv, AcknowledgedIsGranted, Stands
  <2>2. q # r
    BY <1>2, <2>1
  <2> QED
    BY <2>1, <2>2 DEF OthersWait
<1> QED
  BY <1>1, <1>2

\* A step that leaves the rows and the time alone leaves the grants alone.
LEMMA GrantsKeep ==
  ASSUME EntitlementInv, UNCHANGED <<time, subscriptions>>
  PROVE  OneProviderGrants' /\ EndedHasNoDate'
BY DEF EntitlementInv, OneProviderGrants, EndedHasNoDate, Grants, Entitles, subscriptions

-----------------------------------------------------------------------------
(* Google's side, and the beginning of a request *)

\* A purchase changes at Google, which acknowledges nothing.
LEMMA MarketKeeps ==
  ASSUME EntitlementInv, NEW p \in Purchases, Market(p) \/ Refund(p)
  PROVE  EntitlementInv'
<1>1. UNCHANGED <<time, subscriptions, request, locks, settled, upsets>>
  BY DEF Market, Refund
<1>2. market' \in [Purchases -> Payloads] /\ \A q \in Purchases : market'[q].acked = market[q].acked
  <2>1. market[p] \in Payloads /\ time + 1 \in Nat /\ market \in [Purchases -> Payloads]
    BY DEF EntitlementInv, Shapes
  <2> DEFINE Goal == market' \in [Purchases -> Payloads] /\ \A q \in Purchases : market'[q].acked = market[q].acked
             Paid == [market[p] EXCEPT !.state = "active", !.until = time + 1]
  <2>2. ASSUME NEW s \in States, market' = [market EXCEPT ![p].state = s]
        PROVE  Goal
    BY <2>1, <2>2 DEF Payloads
  <2>3. ASSUME market' = [market EXCEPT ![p].state = "expired", ![p].until = 0]
        PROVE  Goal
    BY <2>1, <2>3 DEF Payloads, States
  <2>4. ASSUME market' = [market EXCEPT ![p] = Paid]
        PROVE  Goal
    <3>1. Paid \in Payloads /\ Paid.acked = market[p].acked
      BY <2>1 DEF Payloads, States
    <3> HIDE DEF Paid
    <3> QED
      BY <2>1, <2>4, <3>1
  <2>5. \/ \E s \in States : market' = [market EXCEPT ![p].state = s]
        \/ market' = [market EXCEPT ![p].state = "expired", ![p].until = 0]
        \/ market' = [market EXCEPT ![p] = Paid]
    <3>1. {"pending", "cancelled"} \subseteq States
      BY DEF States
    <3>2. CASE Refund(p)
      BY <3>2 DEF Refund
    <3>3. CASE Market(p)
      BY <3>1, <3>3 DEF Market
    <3> QED
      BY <3>2, <3>3
  <2> HIDE DEF Goal, Paid
  <2>6. Goal
    BY <2>2, <2>3, <2>4, <2>5
  <2> QED
    BY <2>6 DEF Goal
<1>3. Shapes' /\ RequestShape' /\ RequestsFit' /\ LocksFit' /\ StillAdmitted' /\ AcknowledgedIsGranted'
  BY <1>1, <1>2 DEF EntitlementInv, Shapes, RequestShape, RequestsFit, LocksFit, StillAdmitted, Conflicting,
     Grants, Entitles, AcknowledgedIsGranted, Stands, subscriptions, locks
<1> QED
  BY <1>1, <1>3, GrantsKeep DEF EntitlementInv

\* A request reads a purchase; a synchronization with the row locked.
LEMMA AskKeeps ==
  ASSUME EntitlementInv, NEW r \in Requests,
         (\E p \in Purchases, verifies \in BOOLEAN : Ask(r, p, verifies)) \/ Synchronize(r)
  PROVE  EntitlementInv'
<1>1. PICK p \in Purchases, verifies \in BOOLEAN :
        request' = [request EXCEPT ![r] = [pc |-> "fetched", verifies |-> verifies, token |-> p,
                                           payload |-> market[p]]]
  <2>1. google.token \in Purchases \cup {NoPurchase}
    BY DEF EntitlementInv, Shapes
  <2> QED
    BY <2>1 DEF Ask, Synchronize
<1>2. RequestShape' /\ OthersWait(r) /\ request'[r].pc = "fetched" /\ request'[r].token = p
  BY <1>1, FetchStep DEF EntitlementInv, Shapes
<1>3. /\ request[r].pc = "idle" /\ UNCHANGED <<time, market, subscriptions, orgLock, settled, upsets>>
      /\ rowLock' = rowLock \/ (rowLock \subseteq {r} /\ rowLock' = {r})
  BY DEF Ask, Synchronize, Stands, subscriptions, locks
<1>4. RequestsFit' /\ LocksFit'
  <2>1. orgLock' = orgLock \ {r}
    BY <1>3 DEF EntitlementInv, LocksFit, Applying
  <2> QED
    BY <1>2, <1>3, <2>1, LocksKeep DEF Applying
<1>5. Shapes'
  BY <1>3 DEF EntitlementInv, Shapes, subscriptions
<1>6. StillAdmitted'
  BY <1>2, <1>3, AdmittedKeep DEF subscriptions
<1>7. AcknowledgedIsGranted'
  BY <1>2, <1>3, AcknowledgedKeep
<1> QED
  BY <1>2, <1>3, <1>4, <1>5, <1>6, <1>7, GrantsKeep DEF EntitlementInv

-----------------------------------------------------------------------------
(* A request applies what it read *)

\* The request that applies holds the organization's lock.
LEMMA ApplyingHolds ==
  ASSUME EntitlementInv, NEW r \in Requests, request[r].pc \in Applying
  PROVE  orgLock = {r} /\ request[r].token \in Purchases /\ request[r].payload \in Payloads
<1>1. orgLock = {r} /\ request[r].token \in Purchases
  BY DEF EntitlementInv, LocksFit, RequestsFit, Applying
<1>2. request[r].payload \in Payloads
  BY DEF EntitlementInv, RequestShape, RequestRecord
<1> QED
  BY <1>1, <1>2

\* A step of one request that leaves the rows alone and records nothing.
LEMMA QuietKeeps ==
  ASSUME EntitlementInv, NEW r \in Requests, RequestShape', OthersWait(r),
         UNCHANGED <<time, market, subscriptions, settled>>, RequestsFit', LocksFit',
         request[r].pc # "acknowledged", request'[r].pc # "acknowledged",
         request'[r].pc = "flushed" => ~Conflicting(r) /\ request'[r].payload = request[r].payload
  PROVE  EntitlementInv'
<1>1. Shapes'
  BY DEF EntitlementInv, Shapes, subscriptions
<1>2. StillAdmitted'
  BY AdmittedKeep DEF subscriptions
<1>3. AcknowledgedIsGranted'
  BY AcknowledgedKeep
<1> QED
  BY <1>1, <1>2, <1>3, GrantsKeep DEF EntitlementInv

\* A request locks the organization.
LEMMA LockOrganizationKeeps ==
  ASSUME EntitlementInv, NEW r \in Requests, LockOrganization(r)
  PROVE  EntitlementInv'
<1>1. /\ RequestShape' /\ OthersWait(r) /\ request'[r].pc = "locked"
      /\ request'[r].token = request[r].token
  BY ToStep DEF LockOrganization, EntitlementInv, Applying
<1>2. request[r].pc = "fetched" /\ request[r].token \in Purchases
  BY DEF LockOrganization, Stands, EntitlementInv, RequestsFit
<1>3. /\ orgLock = {} /\ orgLock' = {r} /\ rowLock' = rowLock
      /\ UNCHANGED <<time, market, subscriptions, settled>>
  BY DEF LockOrganization
<1>4. RequestsFit' /\ LocksFit'
  BY <1>1, <1>2, <1>3, LocksKeep DEF Applying
<1> QED
  BY <1>1, <1>2, <1>3, <1>4, QuietKeeps

\* A request is released: its locks are free.
LEMMA ReleaseKeepsLocks ==
  ASSUME EntitlementInv, NEW r \in Requests, Release(r)
  PROVE  RequestShape' /\ OthersWait(r) /\ request'[r].pc = "idle" /\ RequestsFit' /\ LocksFit'
<1>1. RequestShape' /\ OthersWait(r) /\ request'[r].pc = "idle"
  BY ReleaseStep DEF EntitlementInv
<1> QED
  BY <1>1, LocksKeep DEF Release, Applying

\* A request is rejected, or PostgreSQL ends it.
LEMMA RejectKeeps ==
  ASSUME EntitlementInv, NEW r \in Requests, Release(r), request[r].pc \in {"fetched", "locked"},
         UNCHANGED <<time, market, subscriptions, settled>>
  PROVE  EntitlementInv'
BY ReleaseKeepsLocks, QuietKeeps

\* An admitted payload is recorded: when it grants Pro, nobody else does.
LEMMA RecordKeeps ==
  ASSUME EntitlementInv, NEW r \in Requests, request[r].pc \in Applying, ~Conflicting(r),
         Record(request[r].token, request[r].payload), Release(r), UNCHANGED <<time, market, mollie, admin>>
  PROVE  EntitlementInv'
<1> DEFINE p == request[r].token
           payload == request[r].payload
<1>1. p \in Purchases /\ payload \in Payloads
  BY ApplyingHolds
<1>2. RequestShape' /\ OthersWait(r) /\ request'[r].pc = "idle" /\ RequestsFit' /\ LocksFit'
  BY ReleaseKeepsLocks
<1>3. google' = [token |-> p, status |-> payload.state, until |-> payload.until] /\ settled' = settled \cup {p}
  BY DEF Record
<1>4. Shapes'
  BY <1>1, <1>3 DEF EntitlementInv, Shapes, Payloads
<1>5. EndedHasNoDate'
  BY DEF EntitlementInv, EndedHasNoDate
<1>6. OneProviderGrants'
  <2>1. google'.status = payload.state /\ google'.until = payload.until
    BY <1>3
  <2>2. Grants(google)' => Entitles(payload.state, payload.until)
    BY <2>1 DEF Grants, Entitles
  <2>3. Grants(mollie)' = Grants(mollie) /\ Grants(admin)' = Grants(admin)
    BY DEF Grants, Entitles
  <2>4. Grants(google)' => ~Grants(mollie)' /\ ~Grants(admin)'
    BY <2>2, <2>3 DEF Conflicting
  <2> QED
    BY <2>3, <2>4 DEF EntitlementInv, OneProviderGrants
<1>7. StillAdmitted'
  BY <1>2, AdmittedKeep
<1>8. AcknowledgedIsGranted'
  BY <1>2, <1>3, AcknowledgedKeep
<1> QED
  BY <1>2, <1>4, <1>5, <1>6, <1>7, <1>8 DEF EntitlementInv

\* A request writes the row, or flushes it and goes on to acknowledge the purchase.
LEMMA WriteKeeps ==
  ASSUME EntitlementInv, NEW r \in Requests, Write(r)
  PROVE  EntitlementInv'
<1>1. request[r].pc = "locked" /\ ~Conflicting(r) /\ rowLock \subseteq {r} /\ UNCHANGED <<time, market, mollie, admin>>
  BY DEF Write, Stands
<1>2. CASE To(r, "flushed") /\ rowLock' = {r} /\ UNCHANGED <<google, orgLock, settled>>
  <2>1. /\ RequestShape' /\ OthersWait(r) /\ request'[r].pc = "flushed"
        /\ request'[r].token = request[r].token /\ request'[r].payload = request[r].payload
    BY <1>2, ToStep DEF EntitlementInv, Applying
  <2>2. orgLock = {r} /\ request[r].token \in Purchases
    BY <1>1, ApplyingHolds DEF Applying
  <2>3. RequestsFit' /\ LocksFit'
    BY <1>1, <1>2, <2>1, <2>2, LocksKeep DEF Applying
  <2> QED
    BY <1>1, <1>2, <2>1, <2>3, QuietKeeps DEF subscriptions
<1>3. CASE Record(request[r].token, request[r].payload) /\ Release(r)
  BY <1>1, <1>3, RecordKeeps DEF Applying
<1> QED
  BY <1>2, <1>3 DEF Write

\* Google takes the acknowledgement of a request that goes on to record the purchase.
LEMMA AcknowledgeKeeps ==
  ASSUME EntitlementInv, NEW r \in Requests, Acknowledge(r)
  PROVE  EntitlementInv'
<1>1. request[r].pc = "flushed" /\ UNCHANGED <<time, subscriptions, locks, settled>>
  BY DEF Acknowledge, Stands
<1>2. orgLock = {r} /\ request[r].token \in Purchases
  BY <1>1, ApplyingHolds DEF Applying
<1>3. /\ RequestShape' /\ OthersWait(r) /\ request'[r].pc = "acknowledged"
      /\ request'[r].token = request[r].token /\ request'[r].payload = request[r].payload
  BY ToStep DEF Acknowledge, EntitlementInv, Applying
<1>4. /\ market' \in [Purchases -> Payloads]
      /\ \A p \in Purchases : p # request[r].token => market'[p] = market[p]
  BY <1>2 DEF Acknowledge, EntitlementInv, Shapes, Payloads
<1>5. Shapes'
  BY <1>1, <1>4 DEF EntitlementInv, Shapes, subscriptions
<1>6. RequestsFit' /\ LocksFit'
  BY <1>1, <1>2, <1>3, LocksKeep DEF Applying, locks
<1>7. StillAdmitted'
  BY <1>1, <1>3, AdmittedKeep DEF EntitlementInv, StillAdmitted, subscriptions
<1>8. AcknowledgedIsGranted'
  BY <1>1, <1>3, <1>4, AcknowledgedKeep
<1> QED
  BY <1>1, <1>3, <1>5, <1>6, <1>7, <1>8, GrantsKeep DEF EntitlementInv

\* The acknowledged purchase is recorded.
LEMMA CommitPurchaseKeeps ==
  ASSUME EntitlementInv, NEW r \in Requests, CommitPurchase(r)
  PROVE  EntitlementInv'
<1>1. request[r].pc = "acknowledged" /\ ~Conflicting(r)
  BY DEF CommitPurchase, Stands, EntitlementInv, StillAdmitted
<1> QED
  BY <1>1, RecordKeeps DEF CommitPurchase, Applying

\* A request breaks off; what Google had acknowledged for it is settled.
LEMMA BreakKeeps ==
  ASSUME EntitlementInv, NEW r \in Requests, Break(r)
  PROVE  EntitlementInv'
<1> DEFINE p == request[r].token
<1>1. p \in Purchases
  BY DEF Break, Stands, EntitlementInv, RequestsFit
<1>2. RequestShape' /\ OthersWait(r) /\ request'[r].pc = "idle" /\ RequestsFit' /\ LocksFit'
  BY ReleaseKeepsLocks DEF Break
<1>3. /\ UNCHANGED <<time, subscriptions>>
      /\ market' = market \/ (request[r].pc = "flushed" /\ market' = [market EXCEPT ![p].acked = TRUE])
      /\ settled' = IF market'[p].acked /\ request[r].pc \in {"flushed", "acknowledged"}
                    THEN settled \cup {p} ELSE settled
  BY DEF Break, Stands
<1>4. /\ market' \in [Purchases -> Payloads]
      /\ \A q \in Purchases : q # p => market'[q] = market[q]
  <2>1. market \in [Purchases -> Payloads]
    BY DEF EntitlementInv, Shapes
  <2>2. CASE market' = market
    BY <2>1, <2>2
  <2>3. CASE market' = [market EXCEPT ![p].acked = TRUE]
    BY <1>1, <2>1, <2>3 DEF Payloads
  <2> QED
    BY <1>3, <2>2, <2>3
<1>5. Shapes'
  BY <1>1, <1>3, <1>4 DEF EntitlementInv, Shapes, subscriptions
<1>6. StillAdmitted'
  BY <1>2, <1>3, AdmittedKeep DEF subscriptions
<1>7. AcknowledgedIsGranted'
  <2>1. \A q \in Purchases : market'[q].acked => market[q].acked \/ q \in settled'
    BY <1>3, <1>4
  <2>2. settled \subseteq settled'
    BY <1>3
  <2>3. ASSUME request[r].pc = "acknowledged"
        PROVE  ~market'[p].acked \/ p \in settled'
    BY <1>3, <2>3
  <2>4. ASSUME NEW q \in Purchases, market'[q].acked, q \notin settled'
        PROVE  \E k \in Requests : request'[k].pc = "acknowledged" /\ request'[k].token = q
    <3>1. PICK k \in Requests : request[k].pc = "acknowledged" /\ request[k].token = q
      BY <2>1, <2>2, <2>4 DEF EntitlementInv, AcknowledgedIsGranted, Stands
    <3>2. k # r
      BY <2>3, <2>4, <3>1
    <3> QED
      BY <1>2, <3>1, <3>2 DEF OthersWait
  <2> QED
    BY <2>4 DEF AcknowledgedIsGranted, Stands
<1> QED
  BY <1>2, <1>3, <1>5, <1>6, <1>7, GrantsKeep DEF EntitlementInv

-----------------------------------------------------------------------------
(* Mollie, the administrators and time *)

\* A step of Mollie's or an administrator's, that changes a row while nobody holds the
\* organization.
LEMMA OtherRowKeeps ==
  ASSUME EntitlementInv, orgLock = {}, Others, mollie' \in Rows, admin' \in Rows,
         OneProviderGrants', EndedHasNoDate'
  PROVE  EntitlementInv'
<1>1. UNCHANGED <<time, market, google, request, orgLock, rowLock, settled>>
  BY DEF Others, locks
<1>2. Shapes' /\ RequestShape' /\ RequestsFit' /\ LocksFit' /\ AcknowledgedIsGranted'
  BY <1>1 DEF EntitlementInv, Shapes, RequestShape, RequestsFit, LocksFit, AcknowledgedIsGranted, Stands
<1>3. StillAdmitted'
  BY <1>1 DEF EntitlementInv, LocksFit, StillAdmitted, Applying
<1> QED
  BY <1>2, <1>3 DEF EntitlementInv

\* Mollie's row.
LEMMA MollieKeeps ==
  ASSUME EntitlementInv, OfferCheckout \/ MolliePaid \/ MollieCancel \/ MollieGrace
  PROVE  EntitlementInv'
<1>1. orgLock = {} /\ Others /\ UNCHANGED <<time, google, admin>>
  BY DEF OfferCheckout, MolliePaid, MollieCancel, MollieGrace, Undisturbed, Others
<1>2. time \in Nat /\ mollie \in Rows /\ admin \in Rows
  BY DEF EntitlementInv, Shapes
<1>3. mollie' \in Rows /\ EndedHasNoDate'
  <2>1. CASE OfferCheckout
    BY <2>1 DEF OfferCheckout, Over, Rows, States, EndedHasNoDate, EntitledStatuses
  <2>2. CASE MolliePaid \/ MollieGrace
    BY <2>2, <1>2 DEF MolliePaid, MollieGrace, Rows, States, EndedHasNoDate, EntitledStatuses
  <2>3. CASE MollieCancel
    BY <2>3, <1>2 DEF MollieCancel, Over, Rows, States, EndedHasNoDate, EntitledStatuses
  <2> QED
    BY <2>1, <2>2, <2>3
<1>4. OneProviderGrants'
  <2>1. (Grants(google)' <=> Grants(google)) /\ (Grants(admin)' <=> Grants(admin))
    BY <1>1 DEF Grants, Entitles
  <2>2. ~(Grants(google)' /\ Grants(admin)')
    BY <2>1 DEF EntitlementInv, OneProviderGrants
  <2>3. CASE OfferCheckout
    BY <2>2, <2>3 DEF OfferCheckout, Over, OneProviderGrants, Grants, Entitles, EntitledStatuses
  <2>4. CASE MolliePaid
    BY <2>1, <2>2, <2>4 DEF MolliePaid, OneProviderGrants
  <2>5. CASE MollieGrace
    BY <2>2, <2>5 DEF MollieGrace, OneProviderGrants
  <2>6. CASE MollieCancel
    <3>1. CASE mollie' = Over("expired")
      BY <2>2, <3>1 DEF Over, OneProviderGrants, Grants, Entitles, EntitledStatuses
    <3>2. CASE mollie.status # "grace_period" /\ mollie.until > time
      <4>1. Grants(mollie)
        BY <1>2, <3>2 DEF EntitlementInv, EndedHasNoDate, Grants, Entitles
      <4> QED
        BY <2>1, <2>2, <3>2, <4>1 DEF EntitlementInv, OneProviderGrants
    <3> QED
      BY <2>6, <3>1, <3>2 DEF MollieCancel
  <2> QED
    BY <2>3, <2>4, <2>5, <2>6
<1> QED
  BY <1>1, <1>2, <1>3, <1>4, OtherRowKeeps

\* The administrators' row.
LEMMA AdminKeeps ==
  ASSUME EntitlementInv, RevokePro \/ \E until \in {0, time + 1} : GrantPro(until)
  PROVE  EntitlementInv'
<1>1. orgLock = {} /\ Others /\ UNCHANGED <<time, google, mollie>>
  BY DEF RevokePro, GrantPro, Others
<1>2. mollie \in Rows /\ time \in Nat
  BY DEF EntitlementInv, Shapes
<1>3. EndedHasNoDate'
  BY <1>1 DEF EntitlementInv, EndedHasNoDate
<1>4. (Grants(google)' <=> Grants(google)) /\ (Grants(mollie)' <=> Grants(mollie)) /\ mollie' = mollie
  BY <1>1 DEF Grants, Entitles
<1>5. CASE RevokePro
  <2>1. admin' \in Rows /\ ~Grants(admin)'
    BY <1>5 DEF RevokePro, Over, Rows, States, Grants, Entitles, EntitledStatuses
  <2>2. OneProviderGrants'
    BY <1>4, <2>1 DEF EntitlementInv, OneProviderGrants
  <2> QED
    BY <1>1, <1>2, <1>3, <2>1, <2>2, OtherRowKeeps
<1>6. CASE \E until \in {0, time + 1} : GrantPro(until)
  <2>1. admin' \in Rows
    BY <1>2, <1>6 DEF GrantPro, Rows, States
  <2>2. ~(Grants(google) \/ Grants(mollie)) \/ Grants(admin)
    BY <1>6 DEF GrantPro
  <2>3. OneProviderGrants'
    BY <1>4, <2>2 DEF EntitlementInv, OneProviderGrants
  <2> QED
    BY <1>1, <1>2, <1>3, <2>1, <2>3, OtherRowKeeps
<1> QED
  BY <1>5, <1>6

\* A period passes, and nobody grants more than before.
LEMMA PassKeeps ==
  ASSUME EntitlementInv, Pass
  PROVE  EntitlementInv'
<1>1. time \in Nat /\ time' = time + 1 /\ UNCHANGED <<market, google, mollie, admin, request, orgLock, rowLock, settled>>
  BY DEF EntitlementInv, Shapes, Pass, subscriptions, locks
<1>2. Shapes' /\ RequestShape' /\ RequestsFit' /\ LocksFit' /\ AcknowledgedIsGranted' /\ EndedHasNoDate'
  BY <1>1 DEF EntitlementInv, Shapes, RequestShape, RequestsFit, LocksFit, AcknowledgedIsGranted, Stands,
     EndedHasNoDate
<1>3. StillAdmitted'
  BY <1>1 DEF Pass, Stands, StillAdmitted
<1>4. /\ Grants(google)' => Grants(google)
      /\ Grants(mollie)' => Grants(mollie)
      /\ Grants(admin)' => Grants(admin)
  BY <1>1 DEF EntitlementInv, Shapes, Rows, Grants, Entitles
<1>5. OneProviderGrants'
  BY <1>1, <1>4 DEF EntitlementInv, OneProviderGrants
<1> QED
  BY <1>2, <1>3, <1>5 DEF EntitlementInv

-----------------------------------------------------------------------------
(* The theorems *)

\* No step leaves the invariant.
LEMMA EntitlementNext ==
  ASSUME EntitlementInv, [ENext]_evars
  PROVE  EntitlementInv'
<1>1. ASSUME NEW r \in Requests, Continue(r)
      PROVE  EntitlementInv'
  <2>1. CASE Reject(r)
    BY <2>1, RejectKeeps DEF Reject, Stands
  <2> QED
    BY <1>1, <2>1, LockOrganizationKeeps, WriteKeeps, AcknowledgeKeeps, CommitPurchaseKeeps DEF Continue
<1>2. ASSUME NEW q \in Requests, NEW r \in Requests, Abort(q, r)
      PROVE  EntitlementInv'
  BY <1>2, RejectKeeps DEF Abort, Deadlocked, Stands
<1>3. CASE UNCHANGED evars
  <2>1. UNCHANGED <<time, market, google, mollie, admin, request, orgLock, rowLock, settled>>
    BY <1>3 DEF evars
  <2> QED
    BY <2>1 DEF EntitlementInv, Shapes, RequestShape, RequestsFit, LocksFit, EndedHasNoDate, StillAdmitted,
       Conflicting, OneProviderGrants, Grants, Entitles, AcknowledgedIsGranted, Stands
<1>4. CASE ENext
  BY <1>1, <1>2, <1>4, MarketKeeps, AskKeeps, BreakKeeps, MollieKeeps, AdminKeeps, PassKeeps DEF ENext
<1> QED
  BY <1>3, <1>4

\* The organization's subscriptions are always in the invariant.
THEOREM EntitlementInvariant == ESpec => []EntitlementInv
<1>1. EInit => EntitlementInv
  <2>1. ASSUME EInit
        PROVE  Shapes /\ RequestShape
    BY <2>1, EntitlementAssumption DEF EInit, Over, NoRequest, Shapes, Rows, RequestShape, RequestRecord,
       Payloads, States
  <2>2. ASSUME EInit
        PROVE  RequestsFit /\ LocksFit /\ StillAdmitted
    BY <2>2 DEF EInit, NoRequest, RequestsFit, LocksFit, StillAdmitted, Applying
  <2>3. ASSUME EInit
        PROVE  EndedHasNoDate /\ OneProviderGrants /\ AcknowledgedIsGranted
    BY <2>3 DEF EInit, Over, EndedHasNoDate, OneProviderGrants, AcknowledgedIsGranted, Grants, Entitles,
       EntitledStatuses
  <2> QED
    BY <2>1, <2>2, <2>3 DEF EntitlementInv
<1>2. EntitlementInv /\ [ENext]_evars => EntitlementInv'
  BY EntitlementNext
<1> QED
  BY <1>1, <1>2, PTL DEF ESpec

\* The shapes of the rows and requests, with one holder of each lock at most.
THEOREM EntitlementTypeCorrect == ESpec => []ETypeOK
<1>1. ASSUME EntitlementInv
      PROVE  ETypeOK
  <2>1. ASSUME NEW S, \A r \in S : S = {r}
        PROVE  Cardinality(S) <= 1
    <3>1. CASE S = {}
      BY <3>1, FS_EmptySet
    <3>2. CASE \E r : S = {r}
      BY <3>2, FS_Singleton
    <3> QED
      BY <2>1, <3>1, <3>2
  <2>2. Cardinality(orgLock) <= 1 /\ Cardinality(rowLock) <= 1
    BY <1>1, <2>1 DEF EntitlementInv, LocksFit
  <2> QED
    BY <1>1, <2>2 DEF EntitlementInv, Shapes, Rows, RequestShape, RequestRecord, ETypeOK
<1> QED
  BY <1>1, EntitlementInvariant, PTL

\* "Another billing provider already grants Pro for this account": two providers never
\* grant Pro at once, whatever requests, payments and grants meet, save in Mollie's grace.
THEOREM OneProviderAtOnce == ESpec => []OneProviderGrants
<1>1. EntitlementInv => OneProviderGrants
  BY DEF EntitlementInv
<1> QED
  BY <1>1, EntitlementInvariant, PTL

\* A purchase that Google was told to keep the money for is recorded, or its request is
\* about to, or was cut off after Google's word.
THEOREM AcknowledgedIsRecorded == ESpec => []AcknowledgedIsGranted
<1>1. EntitlementInv => AcknowledgedIsGranted
  BY DEF EntitlementInv
<1> QED
  BY <1>1, EntitlementInvariant, PTL

-----------------------------------------------------------------------------
(* Receipts: the inductive invariant *)

ReceiptRow == [status : {"none", "creating", "issued", "paid"}, bound : BOOLEAN]
ReceiptHandler ==
  [pc : {"idle", "ensure", "missing", "answered", "event"},
   invoice : Invoices \cup {"none"}, seen : {"none", "issued", "paid"}]

\* Mollie has an invoice exactly when it was created, once, and only for a row that
\* was booked; what a remembered key returns exists.
InvoicesFit ==
  \A i \in Invoices :
    /\ posted[i] = IF remote[i] = "none" THEN 0 ELSE 1
    /\ remote[i] # "none" => row[i].status # "none"
    /\ i \in recent => remote[i] # "none"

\* Handlers are about a booked row; one that missed the invoice meets a remembered key
\* if another handler has created it since, and one with an answer was told what exists.
HandlersFit ==
  \A h \in Handlers : LET i == handler[h].invoice IN
    /\ handler[h].pc # "idle" => i \in Invoices /\ row[i].status # "none"
    /\ handler[h].pc = "missing" /\ remote[i] # "none" => i \in recent
    /\ handler[h].pc \in {"answered", "event"} => handler[h].seen # "none" /\ remote[i] # "none"

ReceiptInv == TypeOK /\ InvoicesFit /\ HandlersFit

\* Where a step leaves a handler.
LEMMA ReceiptGo ==
  ASSUME handler \in [Handlers -> ReceiptHandler], NEW h \in Handlers,
         NEW pc \in {"ensure", "missing", "answered", "event"}, NEW i \in Invoices,
         NEW seen \in {"none", "issued", "paid"}, Go(h, pc, i, seen)
  PROVE  /\ handler' \in [Handlers -> ReceiptHandler]
         /\ handler'[h].pc = pc /\ handler'[h].invoice = i /\ handler'[h].seen = seen
         /\ \A k \in Handlers : k # h => handler'[k] = handler[k]
BY DEF Go, ReceiptHandler

\* A handler that ends.
LEMMA ReceiptFinish ==
  ASSUME handler \in [Handlers -> ReceiptHandler], NEW h \in Handlers, Finish(h)
  PROVE  /\ handler' \in [Handlers -> ReceiptHandler] /\ handler'[h].pc = "idle"
         /\ \A k \in Handlers : k # h => handler'[k] = handler[k]
BY DEF Finish, Idle, ReceiptHandler

\* The shapes, one by one.
LEMMA ReceiptShapes ==
  ASSUME ReceiptInv
  PROVE  /\ row \in [Invoices -> ReceiptRow] /\ remote \in [Invoices -> {"none", "issued", "paid"}]
         /\ posted \in [Invoices -> Nat] /\ recent \subseteq Invoices
         /\ handler \in [Handlers -> ReceiptHandler] /\ faults \in 0 .. MaxFaults
         /\ \A i \in Invoices : row[i].bound => remote[i] # "none"
BY DEF ReceiptInv, TypeOK, ReceiptRow, ReceiptHandler

\* A step of a handler that leaves Mollie alone and makes no row unknown.
LEMMA LocalKeeps ==
  ASSUME ReceiptInv, NEW h \in Handlers, handler' \in [Handlers -> ReceiptHandler],
         \A k \in Handlers : k # h => handler'[k] = handler[k],
         handler'[h].pc # "idle" =>
           handler'[h].invoice \in Invoices /\ row'[handler'[h].invoice].status # "none",
         handler'[h].pc = "missing" => remote[handler'[h].invoice] = "none",
         handler'[h].pc \in {"answered", "event"} =>
           handler'[h].seen # "none" /\ remote[handler'[h].invoice] # "none",
         row' \in [Invoices -> ReceiptRow],
         \A i \in Invoices : /\ row[i].status # "none" => row'[i].status # "none"
                             /\ row'[i].bound => remote[i] # "none",
         faults' \in 0 .. MaxFaults, UNCHANGED <<remote, posted, recent>>
  PROVE  ReceiptInv'
<1>1. TypeOK'
  BY ReceiptShapes DEF TypeOK, ReceiptRow, ReceiptHandler
<1>2. InvoicesFit'
  BY DEF ReceiptInv, InvoicesFit
<1>3. ASSUME NEW k \in Handlers
      PROVE  /\ handler'[k].pc # "idle" => handler'[k].invoice \in Invoices /\ row'[handler'[k].invoice].status # "none"
             /\ handler'[k].pc = "missing" /\ remote'[handler'[k].invoice] # "none" => handler'[k].invoice \in recent'
             /\ handler'[k].pc \in {"answered", "event"} =>
                  handler'[k].seen # "none" /\ remote'[handler'[k].invoice] # "none"
  BY DEF ReceiptInv, HandlersFit
<1> QED
  BY <1>1, <1>2, <1>3 DEF ReceiptInv, HandlersFit

\* A payment is booked, or an open receipt or an event comes up.
LEMMA ReceiptBegins ==
  ASSUME ReceiptInv, NEW h \in Handlers,
         Book(h) \/ \E i \in Invoices : SyncReceipt(h, i) \/ InvoiceEvent(h, i)
  PROVE  ReceiptInv'
<1>1. CASE Book(h)
  <2>1. PICK i \in Invoices :
          /\ row' = [row EXCEPT ![i].status = IF @ = "none" THEN "creating" ELSE @]
          /\ Go(h, "ensure", i, "none") /\ UNCHANGED <<remote, posted, recent, faults>>
    BY <1>1 DEF Book
  <2>2. /\ row' \in [Invoices -> ReceiptRow] /\ row'[i].status # "none"
        /\ \A k \in Invoices : /\ row[k].status # "none" => row'[k].status # "none"
                               /\ row'[k].bound = row[k].bound
    BY <2>1, ReceiptShapes DEF ReceiptRow
  <2> QED
    BY <2>1, <2>2, ReceiptShapes, ReceiptGo, LocalKeeps
<1>2. ASSUME NEW i \in Invoices, SyncReceipt(h, i)
      PROVE  ReceiptInv'
  <2>1. row[i].status # "none"
    BY <1>2 DEF SyncReceipt, OpenInvoice
  <2> QED
    BY <1>2, <2>1, ReceiptShapes, ReceiptGo, LocalKeeps DEF SyncReceipt
<1>3. ASSUME NEW i \in Invoices, InvoiceEvent(h, i)
      PROVE  ReceiptInv'
  <2>1. row[i].status # "none" /\ remote[i] # "none" /\ remote[i] \in {"none", "issued", "paid"}
    BY <1>3, ReceiptShapes DEF InvoiceEvent, ReceiptInv, InvoicesFit
  <2> QED
    BY <1>3, <2>1, ReceiptShapes, ReceiptGo, LocalKeeps DEF InvoiceEvent
<1> QED
  BY <1>1, <1>2, <1>3

\* The invoice is looked for.
LEMMA LookUpKeeps ==
  ASSUME ReceiptInv, NEW h \in Handlers, LookUp(h)
  PROVE  ReceiptInv'
<1> DEFINE i == handler[h].invoice
<1>1. i \in Invoices /\ row[i].status # "none" /\ remote[i] \in {"none", "issued", "paid"}
  BY ReceiptShapes DEF LookUp, At, ReceiptInv, HandlersFit
<1>2. UNCHANGED <<row, remote, posted, recent, faults>>
  BY DEF LookUp
<1>3. CASE remote[i] = "none" /\ Go(h, "missing", i, "none")
  BY <1>1, <1>2, <1>3, ReceiptShapes, ReceiptGo, LocalKeeps
<1>4. CASE remote[i] # "none" /\ Go(h, "answered", i, remote[i])
  BY <1>1, <1>2, <1>4, ReceiptShapes, ReceiptGo, LocalKeeps
<1> QED
  BY <1>3, <1>4 DEF LookUp

\* The invoice is created, unless the key is remembered.
LEMMA CreateRemoteKeeps ==
  ASSUME ReceiptInv, NEW h \in Handlers, CreateRemote(h)
  PROVE  ReceiptInv'
<1>1. PICK i \in Invoices : /\ i = handler[h].invoice /\ row[i].status # "none"
                            /\ remote[i] # "none" => i \in recent
  BY DEF CreateRemote, At, ReceiptInv, HandlersFit
<1>2. handler[h].pc = "missing" /\ UNCHANGED row /\ recent' = recent \cup {i}
  BY <1>1 DEF CreateRemote, At
<1>3. /\ remote' \in [Invoices -> {"none", "issued", "paid"}] /\ remote'[i] # "none"
      /\ posted' \in [Invoices -> Nat] /\ posted'[i] = 1
      /\ \A k \in Invoices : k # i => remote'[k] = remote[k] /\ posted'[k] = posted[k]
  <2>1. CASE i \in recent
    <3>1. remote' = remote /\ posted' = posted
      BY <1>1, <2>1 DEF CreateRemote
    <3> QED
      BY <2>1, <3>1, ReceiptShapes DEF ReceiptInv, InvoicesFit
  <2>2. CASE i \notin recent
    <3>1. remote' = [remote EXCEPT ![i] = IF @ = "none" THEN "issued" ELSE @] /\ posted' = [posted EXCEPT ![i] = @ + 1]
      BY <1>1, <2>2 DEF CreateRemote
    <3>2. remote[i] = "none" /\ posted[i] = 0
      BY <1>1, <2>2 DEF ReceiptInv, InvoicesFit
    <3> QED
      BY <3>1, <3>2, ReceiptShapes
  <2> QED
    BY <2>1, <2>2
<1>4. /\ handler' \in [Handlers -> ReceiptHandler]
      /\ \A k \in Handlers : k # h => handler'[k] = handler[k]
      /\ \/ handler'[h].pc = "idle"
         \/ handler'[h].pc = "answered" /\ handler'[h].invoice = i /\ handler'[h].seen # "none"
      /\ faults' \in 0 .. MaxFaults
  <2>1. CASE Go(h, "answered", i, remote'[i]) /\ UNCHANGED faults
    BY <1>3, <2>1, ReceiptShapes, ReceiptGo
  <2>2. CASE faults < MaxFaults /\ faults' = faults + 1 /\ Finish(h)
    BY <2>2, ReceiptShapes, ReceiptFinish, ReceiptAssumption
  <2> QED
    BY <1>1, <2>1, <2>2 DEF CreateRemote
<1>5. TypeOK'
  <2>1. \A k \in Invoices : row'[k].bound => remote'[k] # "none"
    BY <1>2, <1>3, ReceiptShapes
  <2> QED
    BY <1>2, <1>3, <1>4, <2>1, ReceiptShapes DEF TypeOK, ReceiptRow, ReceiptHandler
<1>6. InvoicesFit'
  BY <1>1, <1>2, <1>3 DEF ReceiptInv, InvoicesFit
<1>7. ASSUME NEW k \in Handlers
      PROVE  /\ handler'[k].pc # "idle" => handler'[k].invoice \in Invoices /\ row'[handler'[k].invoice].status # "none"
             /\ handler'[k].pc = "missing" /\ remote'[handler'[k].invoice] # "none" => handler'[k].invoice \in recent'
             /\ handler'[k].pc \in {"answered", "event"} =>
                  handler'[k].seen # "none" /\ remote'[handler'[k].invoice] # "none"
  <2>1. CASE k = h
    BY <1>1, <1>2, <1>3, <1>4, <2>1
  <2>2. CASE k # h
    BY <1>2, <1>3, <1>4, <2>2 DEF ReceiptInv, HandlersFit
  <2> QED
    BY <2>1, <2>2
<1> QED
  BY <1>5, <1>6, <1>7 DEF ReceiptInv, HandlersFit

\* An answer is written to the row, whatever that says by now; or the handler breaks off.
LEMMA ReceiptEnds ==
  ASSUME ReceiptInv, NEW h \in Handlers, Apply(h) \/ ApplyEvent(h) \/ Fail(h)
  PROVE  ReceiptInv'
<1>1. CASE Fail(h)
  <2>1. faults' \in 0 .. MaxFaults
    BY <1>1, ReceiptShapes, ReceiptAssumption DEF Fail
  <2> QED
    BY <1>1, <2>1, ReceiptShapes, ReceiptFinish, LocalKeeps DEF Fail
<1>2. CASE Apply(h) \/ ApplyEvent(h)
  <2>1. PICK i \in Invoices : i = handler[h].invoice /\ remote[i] # "none"
    BY <1>2 DEF Apply, ApplyEvent, At, ReceiptInv, HandlersFit
  <2>2. handler[h].seen \in {"issued", "paid"}
    BY <1>2, ReceiptShapes DEF Apply, ApplyEvent, At, ReceiptInv, HandlersFit, ReceiptHandler
  <2>3. row' = row \/ row' = [row EXCEPT ![i] = [status |-> handler[h].seen, bound |-> TRUE]]
    BY <1>2, <2>1 DEF Apply, ApplyEvent
  <2>4. /\ row' \in [Invoices -> ReceiptRow]
        /\ \A k \in Invoices : /\ row[k].status # "none" => row'[k].status # "none"
                               /\ row'[k].bound => remote[k] # "none"
    <3> DEFINE r == [status |-> handler[h].seen, bound |-> TRUE]
    <3>1. r \in ReceiptRow /\ r.status # "none"
      BY <2>2 DEF ReceiptRow
    <3>2. CASE row' = row
      BY <3>2, ReceiptShapes
    <3>3. CASE row' = [row EXCEPT ![i] = r]
      <4>1. row' \in [Invoices -> ReceiptRow] /\ row'[i] = r /\ \A k \in Invoices : k # i => row'[k] = row[k]
        <5> HIDE DEF r
        <5> QED
          BY <3>1, <3>3, ReceiptShapes
      <4> QED
        BY <2>1, <3>1, <4>1, ReceiptShapes
    <3> QED
      BY <2>3, <3>2, <3>3
  <2>5. Finish(h) /\ UNCHANGED <<remote, posted, recent, faults>>
    BY <1>2 DEF Apply, ApplyEvent
  <2> QED
    BY <2>4, <2>5, ReceiptShapes, ReceiptFinish, LocalKeeps
<1> QED
  BY <1>1, <1>2

\* Mollie settles an invoice, or forgets the key of calls that are over.
LEMMA MollieSideKeeps ==
  ASSUME ReceiptInv, NEW i \in Invoices, SettleRemote(i) \/ ForgetKey(i)
  PROVE  ReceiptInv'
<1>1. CASE SettleRemote(i)
  <2>1. /\ remote' \in [Invoices -> {"none", "issued", "paid"}]
        /\ \A k \in Invoices : remote'[k] = "none" <=> remote[k] = "none"
        /\ UNCHANGED <<row, posted, recent, handler, faults>>
    BY <1>1, ReceiptShapes DEF SettleRemote
  <2>2. TypeOK'
    BY <2>1, ReceiptShapes DEF TypeOK, ReceiptRow, ReceiptHandler
  <2> QED
    BY <2>1, <2>2 DEF ReceiptInv, InvoicesFit, HandlersFit
<1>2. CASE ForgetKey(i)
  <2>1. TypeOK'
    BY <1>2, ReceiptShapes DEF ForgetKey, TypeOK, ReceiptRow, ReceiptHandler
  <2> QED
    BY <1>2, <2>1 DEF ForgetKey, ReceiptInv, InvoicesFit, HandlersFit
<1> QED
  BY <1>1, <1>2

\* The receipts are always in the invariant.
THEOREM ReceiptInvariant == Spec => []ReceiptInv
<1>1. Init => ReceiptInv
  BY ReceiptAssumption DEF Init, Idle, ReceiptInv, TypeOK, InvoicesFit, HandlersFit
<1>2. ReceiptInv /\ [Next]_vars => ReceiptInv'
  <2>1. ASSUME ReceiptInv, UNCHANGED vars
        PROVE  ReceiptInv'
    BY <2>1 DEF vars, ReceiptInv, TypeOK, InvoicesFit, HandlersFit
  <2>2. ASSUME ReceiptInv, Next
        PROVE  ReceiptInv'
    BY <2>2, ReceiptBegins, LookUpKeeps, CreateRemoteKeeps, ReceiptEnds, MollieSideKeeps DEF Next, Proceed
  <2> QED
    BY <2>1, <2>2
<1> QED
  BY <1>1, <1>2, PTL DEF Spec

\* The shapes of the rows and of Mollie's side; a bound row has its invoice at Mollie.
THEOREM ReceiptTypeCorrect == Spec => []TypeOK
<1>1. ReceiptInv => TypeOK
  BY DEF ReceiptInv
<1> QED
  BY <1>1, ReceiptInvariant, PTL

\* A customer gets one receipt for a payment, and only for one that was booked, although
\* handlers look and create without a lock, answers are lost and keys are forgotten.
THEOREM OneReceiptEach == Spec => []OneReceiptPerPayment
<1>1. ReceiptInv => OneReceiptPerPayment
  BY DEF ReceiptInv, InvoicesFit, OneReceiptPerPayment
<1> QED
  BY <1>1, ReceiptInvariant, PTL
=============================================================================
