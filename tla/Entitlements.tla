----------------------------- MODULE Entitlements -----------------------------
(***************************************************************************)
(* Who grants Pro to one organization: the rows that Google Play, Mollie and  *)
(* the platform's administrators keep in store_subscriptions                  *)
(* (services/google_play_billing.py, services/billing.py,                     *)
(* api/routes/billing.py, api/routes/admin.py).                               *)
(*                                                                         *)
(* A request reads a purchase from Google and applies it under the lock of the *)
(* organization; a synchronization locks the row of the subscription first and *)
(* keeps it while it asks Google.  How Mollie comes to its payments is in      *)
(* Billing.                                                                  *)
(***************************************************************************)
EXTENDS Integers, FiniteSets

CONSTANTS Purchases,  \* Google's purchase tokens for this organization
          NoPurchase,
          Requests,   \* requests to the backend at once
          MaxTime,    \* bound on the clock
          MaxUpsets   \* bound on failed calls, crashes and aborted transactions

ASSUME EntitlementAssumption ==
  /\ NoPurchase \notin Purchases
  /\ MaxTime \in Nat /\ MaxUpsets \in Nat

VARIABLES time,     \* 0 stands for "no time" in the rows, the clock starts at 1
          market,   \* Google's side of each purchase
          google, mollie, admin, \* the rows of store_subscriptions
          request,  \* where each request stands, with the payload it read
          orgLock, rowLock,  \* who holds the organization, and Google's row
          settled,  \* purchases a commit recorded, or a failure cut off after Google's word
          upsets

evars == <<time, market, google, mollie, admin, request, orgLock, rowLock, settled, upsets>>
subscriptions == <<google, mollie, admin>>
locks == <<orgLock, rowLock>>

\* What has ended entitles to nothing, whatever its date: the date is dropped.
Over(status) == [status |-> status, until |-> 0]
NoRequest == [pc |-> "idle", verifies |-> FALSE, token |-> NoPurchase,
              payload |-> [state |-> "none", until |-> 0, acked |-> FALSE]]

EInit ==
  /\ time \in 1 .. MaxTime
  /\ market = [p \in Purchases |-> [state |-> "none", until |-> 0, acked |-> FALSE]]
  /\ google = [token |-> NoPurchase, status |-> "none", until |-> 0]
  /\ mollie = Over("none") /\ admin = Over("none")
  /\ request = [r \in Requests |-> NoRequest]
  /\ orgLock = {} /\ rowLock = {}
  /\ settled = {}
  /\ upsets = 0

EntitledStatuses == {"active", "grace_period", "cancelled"}

\* subscription_is_entitled, and verified_subscription_is_entitled for a payload.
Entitles(status, until) ==
  /\ status \in EntitledStatuses
  /\ until > time \/ (until = 0 /\ status # "cancelled")
Grants(row) == Entitles(row.status, row.until)
Upset == upsets < MaxUpsets /\ upsets' = upsets + 1

-----------------------------------------------------------------------------
(* Google Play *)

\* A purchase is bought, confirmed, renewed, cancelled or ends.  One put on hold reads
\* like one that has run out.
Market(p) ==
  LET now == market[p]
      paid == [now EXCEPT !.state = "active", !.until = time + 1] IN
  /\ \/ now.state = "none" /\ market' = [market EXCEPT ![p].state = "pending"]
     \/ now.state \in {"none", "pending"} /\ market' = [market EXCEPT ![p] = paid]
     \/ now.state = "active" /\ now.until <= time /\ market' = [market EXCEPT ![p] = paid]
     \/ now.state = "active" /\ market' = [market EXCEPT ![p].state = "cancelled"]
     \/ /\ now.state \in {"pending", "active", "cancelled"} /\ now.until <= time
        /\ market' = [market EXCEPT ![p].state = "expired", ![p].until = 0]
  /\ UNCHANGED <<time, subscriptions, request, locks, settled, upsets>>

\* Money for a purchase that is not acknowledged goes back.
Refund(p) ==
  /\ market[p].state \in {"active", "cancelled"} /\ ~market[p].acked /\ market[p].until > time
  /\ market' = [market EXCEPT ![p].state = "expired", ![p].until = 0]
  /\ UNCHANGED <<time, subscriptions, request, locks, settled, upsets>>

-----------------------------------------------------------------------------
(* Requests *)

To(r, pc) == request' = [request EXCEPT ![r].pc = pc]
Stands(r, pc) == request[r].pc = pc
Release(r) ==
  /\ request' = [request EXCEPT ![r] = NoRequest]
  /\ orgLock' = orgLock \ {r} /\ rowLock' = rowLock \ {r}

\* (Mutant) A purchase is acknowledged as soon as it is read.
AskAndAcknowledge(r, p, verifies) ==
  /\ Stands(r, "idle") /\ market[p].state # "none"
  /\ request' = [request EXCEPT ![r] = [pc |-> "fetched", verifies |-> verifies, token |-> p,
                                       payload |-> market[p]]]
  /\ market' = [market EXCEPT ![p].acked = @ \/ verifies]
  /\ UNCHANGED <<time, subscriptions, locks, settled, upsets>>

\* verify_google_purchase and process_google_rtdn read the purchase with no lock held.
\* The app repeats a verification, Pub/Sub a notification.
Ask(r, p, verifies) ==
  /\ Stands(r, "idle") /\ market[p].state # "none"
  /\ request' = [request EXCEPT ![r] = [pc |-> "fetched", verifies |-> verifies, token |-> p,
                                       payload |-> market[p]]]
  /\ UNCHANGED <<time, market, subscriptions, locks, settled, upsets>>

\* sync_google_subscription locks the row of the subscription before it asks.
Synchronize(r) ==
  /\ Stands(r, "idle") /\ google.token # NoPurchase /\ rowLock = {}
  /\ rowLock' = {r}
  /\ request' = [request EXCEPT ![r] = [pc |-> "fetched", verifies |-> FALSE, token |-> google.token,
                                       payload |-> market[google.token]]]
  /\ UNCHANGED <<time, market, subscriptions, orgLock, settled, upsets>>

\* (Mutant) The organization is not locked.
LockNothing(r) ==
  /\ Stands(r, "fetched")
  /\ To(r, "locked")
  /\ UNCHANGED <<time, market, subscriptions, locks, settled, upsets>>

\* apply_verified_subscription: _lock_organization.
LockOrganization(r) ==
  /\ Stands(r, "fetched") /\ orgLock = {}
  /\ orgLock' = {r}
  /\ To(r, "locked")
  /\ UNCHANGED <<time, market, subscriptions, rowLock, settled, upsets>>

\* _conflicting_entitlement_subscription
Conflicting(r) ==
  /\ Entitles(request[r].payload.state, request[r].payload.until)
  /\ Grants(mollie) \/ Grants(admin)

\* "Another billing provider already grants Pro": the app is told, a notification is
\* lost (google_rtdn answers 204).
Reject(r) ==
  /\ Stands(r, "locked") /\ Conflicting(r)
  /\ Release(r)
  /\ UNCHANGED <<time, market, subscriptions, settled, upsets>>

\* (Mutant) The row keeps the purchase it has.
RecordFirst(p, payload) ==
  /\ google' = IF google.token \in {NoPurchase, p}
               THEN [token |-> p, status |-> payload.state, until |-> payload.until] ELSE google
  /\ settled' = settled \cup {p}

\* The payload replaces what the row says, also what a newer request or another
\* purchase has written.
Record(p, payload) ==
  /\ google' = [token |-> p, status |-> payload.state, until |-> payload.until]
  /\ settled' = settled \cup {p}

\* The row is locked, written and committed; a verification first acknowledges the
\* purchase, with both locks held.
MustAcknowledge(r) ==
  request[r].verifies /\ ~request[r].payload.acked /\ request[r].payload.state \in EntitledStatuses

Write(r) ==
  /\ Stands(r, "locked") /\ ~Conflicting(r) /\ rowLock \subseteq {r}
  /\ IF MustAcknowledge(r)
     THEN To(r, "flushed") /\ rowLock' = {r} /\ UNCHANGED <<google, orgLock, settled>>
     ELSE Record(request[r].token, request[r].payload) /\ Release(r)
  /\ UNCHANGED <<time, market, mollie, admin, upsets>>

Acknowledge(r) ==
  /\ Stands(r, "flushed")
  /\ market' = [market EXCEPT ![request[r].token].acked = TRUE]
  /\ To(r, "acknowledged")
  /\ UNCHANGED <<time, subscriptions, locks, settled, upsets>>

CommitPurchase(r) ==
  /\ Stands(r, "acknowledged")
  /\ Record(request[r].token, request[r].payload)
  /\ Release(r)
  /\ UNCHANGED <<time, market, mollie, admin, upsets>>

\* A call fails or the process dies: rolled back.  Google may have taken the
\* acknowledgement.
Break(r) ==
  LET p == request[r].token IN
  /\ ~Stands(r, "idle") /\ Upset
  /\ \/ UNCHANGED market
     \/ Stands(r, "flushed") /\ market' = [market EXCEPT ![p].acked = TRUE]
  /\ settled' = IF market'[p].acked /\ request[r].pc \in {"flushed", "acknowledged"}
                THEN settled \cup {p} ELSE settled
  /\ Release(r)
  /\ UNCHANGED <<time, subscriptions>>

\* A synchronization holds the row and waits for the organization, another request the
\* reverse: PostgreSQL ends one of them.
Deadlocked(q, r) ==
  /\ q \in rowLock /\ Stands(q, "fetched")
  /\ r \in orgLock /\ Stands(r, "locked") /\ ~Conflicting(r)

Abort(q, r) ==
  /\ Deadlocked(q, r)
  /\ \/ Release(q) /\ UNCHANGED upsets
     \/ Release(r) /\ Upset
  /\ UNCHANGED <<time, market, subscriptions, settled>>

-----------------------------------------------------------------------------
(* Mollie and the administrators, under the organization's lock *)

\* An entitled row of Google is locked for the look at conflicts.
Undisturbed == orgLock = {} /\ (google.status \in EntitledStatuses => rowLock = {})
Others == UNCHANGED <<time, market, google, request, locks, settled, upsets>>

\* A checkout sets the row back.  It was admitted (purchase_context) in a transaction of
\* its own: another provider may grant Pro by now.
OfferCheckout ==
  /\ orgLock = {} /\ ~Grants(mollie)
  /\ mollie' = Over("pending")
  /\ UNCHANGED admin /\ Others

\* A checkout or a renewal that is paid, however late, is applied unless another provider
\* grants Pro.
MolliePaid ==
  /\ Undisturbed
  /\ mollie.status = "grace_period" \/ (mollie.status # "none" /\ mollie.until <= time)
  /\ ~Grants(google) /\ ~Grants(admin)
  /\ mollie' = [status |-> "active", until |-> time + 1]
  /\ UNCHANGED admin /\ Others

\* cancel_subscription keeps the period that is paid, and ends a grace period.
MollieCancel ==
  LET kept == mollie.status # "grace_period" /\ mollie.until > time IN
  /\ orgLock = {} /\ mollie.status # "none"
  /\ mollie' = IF kept THEN [mollie EXCEPT !.status = "cancelled"] ELSE Over("expired")
  /\ UNCHANGED admin /\ Others

\* A renewal that fails leaves the row in grace, whoever grants Pro by now.
MollieGrace ==
  /\ orgLock = {} /\ mollie.status = "active" /\ mollie.until <= time
  /\ mollie' = [status |-> "grace_period", until |-> time + 1]
  /\ UNCHANGED admin /\ Others

\* active_entitlement_subscription: of several rows the one that lasts longest.
Lasts(row) == IF row.until = 0 THEN MaxTime + 2 ELSE row.until
GrantPro(until) ==
  /\ orgLock = {}
  /\ ~(Grants(google) \/ Grants(mollie))
     \/ /\ Grants(admin)
        /\ \A row \in {google, mollie} : Grants(row) => Lasts(row) < Lasts(admin)
  /\ admin' = [status |-> "active", until |-> until]
  /\ UNCHANGED mollie /\ Others

RevokePro ==
  /\ orgLock = {} /\ admin.status # "none"
  /\ admin' = Over("revoked")
  /\ UNCHANGED mollie /\ Others

-----------------------------------------------------------------------------

\* A period passes; requests are short against it.
Pass ==
  /\ time < MaxTime /\ \A r \in Requests : Stands(r, "idle")
  /\ time' = time + 1
  /\ UNCHANGED <<market, subscriptions, request, locks, settled, upsets>>

Continue(r) ==
  \/ LockOrganization(r) \/ Reject(r) \/ Write(r) \/ Acknowledge(r) \/ CommitPurchase(r)

ENext ==
  \/ \E p \in Purchases : Market(p) \/ Refund(p)
  \/ \E r \in Requests, p \in Purchases, verifies \in BOOLEAN : Ask(r, p, verifies)
  \/ \E r \in Requests : Synchronize(r) \/ Continue(r) \/ Break(r)
  \/ \E q, r \in Requests : Abort(q, r)
  \/ OfferCheckout \/ MolliePaid \/ MollieCancel \/ MollieGrace \/ RevokePro
  \/ \E until \in {0, time + 1} : GrantPro(until)
  \/ Pass

\* Requests run on, PostgreSQL resolves deadlocks, and the app verifies what the phone
\* holds again and again.
EFairness ==
  /\ \A r \in Requests : SF_evars(Continue(r))
  /\ WF_evars(\E q, r \in Requests : Abort(q, r))
  /\ \A p \in Purchases : SF_evars(\E r \in Requests : Ask(r, p, TRUE))

ESpec == EInit /\ [][ENext]_evars /\ EFairness

-----------------------------------------------------------------------------
(* Properties *)

\* Shapes; locks have one holder.
ETypeOK ==
  /\ google.token \in Purchases \cup {NoPurchase}
  /\ \A row \in {google, mollie, admin} : row.until \in Nat
  /\ \A r \in Requests : request[r].token \in Purchases \cup {NoPurchase}
  /\ Cardinality(orgLock) <= 1 /\ Cardinality(rowLock) <= 1
  /\ settled \subseteq Purchases

\* "Another billing provider already grants Pro for this account": two providers never
\* grant Pro at once, whatever requests, payments and grants meet.  Excepted is
\* Mollie's grace for a failed renewal, which asks nobody.
OneProviderGrants ==
  /\ ~(Grants(google) /\ Grants(admin))
  /\ mollie.status # "grace_period" => ~(Grants(mollie) /\ (Grants(google) \/ Grants(admin)))

\* Google keeps the customer's money for a purchase only when Pro was recorded for it:
\* it is never acknowledged for a request that is rejected.  Excepted are requests that
\* fail after the acknowledgement.
AcknowledgedIsGranted ==
  \A p \in Purchases : market[p].acked =>
     \/ p \in settled
     \/ \E r \in Requests : Stands(r, "acknowledged") /\ request[r].token = p

Valid(p) == market[p].state = "active" /\ market[p].until > time

\* Who holds a valid purchase gets Pro in the end, through stale payloads written over
\* newer ones, notifications of earlier purchases, deadlocks, crashes, and another
\* provider whose period ends.
PurchaseGrantsPro ==
  \A p \in Purchases : Valid(p) ~> (Grants(google) \/ Grants(mollie) \/ Grants(admin) \/ ~Valid(p))
=============================================================================
