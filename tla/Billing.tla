------------------------------- MODULE Billing -------------------------------
(***************************************************************************)
(* The yearly Pro subscription of one organization, collected through        *)
(* Mollie: checkout, payment webhook, worker renewal, grace, cancellation   *)
(* and reactivation (services/mollie_billing_core.py,               *)
(* mollie_billing_runtime.py, mollie_billing_preferences.py, billing.py).    *)
(*                                                                         *)
(* Every handler alternates between short transactions under the lock of the *)
(* subscription's row and calls of Mollie made without it; one step is one    *)
(* transaction or one call.  The exception is the renewal charge, which is    *)
(* posted while the row is locked.                                           *)
(***************************************************************************)
EXTENDS Integers, FiniteSets

CONSTANTS MaxCycles,   \* billing_cycles rows, in order of creation
          MaxAttempts, \* MAX_RENEWAL_RETRIES
          Year,        \* length of a paid period, in ticks
          Grace,       \* MOLLIE_GRACE_DAYS
          RetryAfter,  \* RENEWAL_RETRY_INTERVAL
          Verdicts,    \* final states of a payment Mollie reports
          Handlers,    \* requests and jobs that run at once
          MaxTime,     \* bound on the clock
          MaxFaults    \* bound on failed calls, lost answers and crashes

ASSUME BillingAssumption ==
  /\ MaxCycles \in Nat \ {0} /\ MaxAttempts \in Nat \ {0}
  /\ Year \in Nat \ {0} /\ Grace \in Nat \ {0} /\ RetryAfter \in Nat
  /\ Verdicts \subseteq {"paid", "failed", "cancelled"}
  /\ MaxTime \in Nat /\ MaxFaults \in Nat

Cycles == 1 .. MaxCycles
Attempts == 1 .. MaxAttempts
Payments == Cycles \X Attempts  \* billing_payment_transactions rows
CycleOf(t) == t[1]
AttemptOf(t) == t[2]

VARIABLES now,      \* 0 stands for "no time" in the rows, the clock starts at 1
          sub,      \* the store_subscriptions row with its verification data
          cycle,    \* billing_cycles
          tx,       \* billing_payment_transactions
          remote,   \* Mollie's payment for each transaction
          posted,   \* payments created at Mollie per transaction
          recent,   \* idempotency keys Mollie still remembers
          booked,   \* cycles with a billing_invoices row (see BillingReceipts)
          dropped,  \* attempts a cancellation ended, knowing of no payment (not in the code)
          handler,  \* where each request or job stands
          faults

vars == <<now, sub, cycle, tx, remote, posted, recent, booked, dropped, handler, faults>>
records == <<booked, dropped>>
rows == <<sub, cycle, tx, records>>
provider == <<remote, posted>>

Open == {"open"}                     \* OPEN_PAYMENT_STATUSES
Refused == {"failed", "cancelled"}   \* FAILED_PAYMENT_STATUSES
Unsettled == {"reserved", "open"}

Idle == [pc |-> "idle", t |-> <<1, 1>>, seen |-> "none"]

Init ==
  /\ now = 1
  /\ sub = [status |-> "none", autoRenew |-> FALSE, cancelled |-> FALSE, expires |-> 0,
            paidThrough |-> 0, graceUntil |-> 0, mandate |-> FALSE]
  /\ cycle = [c \in Cycles |-> [operation |-> "initial", status |-> "none", start |-> 0, end |-> 0]]
  /\ tx = [t \in Payments |-> [status |-> "none", bound |-> FALSE, synced |-> 0]]
  /\ remote = [t \in Payments |-> [status |-> "none", paidAt |-> 0]]
  /\ posted = [t \in Payments |-> 0]
  /\ recent = {}
  /\ booked = {} /\ dropped = {}
  /\ handler = [h \in Handlers |-> Idle]
  /\ faults = 0

\* subscription_is_entitled
Entitled ==
  \/ sub.status \in {"active", "grace_period"} /\ (sub.expires = 0 \/ sub.expires > now)
  \/ sub.status = "cancelled" /\ sub.expires > now

Go(h, pc, t, seen) == handler' = [handler EXCEPT ![h] = [pc |-> pc, t |-> t, seen |-> seen]]
At(h, pc) == handler[h].pc = pc
Finish(h) == handler' = [handler EXCEPT ![h] = Idle]

Unused == {c \in Cycles : cycle[c].status = "none"}
NextCycle == CHOOSE c \in Unused : \A d \in Unused : c <= d
Tried(c) == {a \in Attempts : tx[<<c, a>>].status # "none"}
Used(c) == {c} \X Tried(c)
Latest(S) == CHOOSE t \in S : \A u \in S : AttemptOf(u) <= AttemptOf(t)

\* (Mutant) Every check grants a new grace period.
RenewedGrace(s, boundary) == now + Grace

\* _grace_expiry: the deadline is fixed once.
GraceExpiry(s, boundary) == IF s.graceUntil # 0 THEN s.graceUntil ELSE boundary + Grace
InGrace(s, boundary) ==
  LET g == GraceExpiry(s, boundary) IN
  [s EXCEPT !.status = IF g > now THEN "grace_period" ELSE "expired", !.expires = g, !.graceUntil = g]

-----------------------------------------------------------------------------
(* start_checkout *)

\* purchase_context: the first transaction of _reserve_initial_checkout.
StartCheckout(h) ==
  /\ At(h, "idle") /\ ~Entitled
  /\ Go(h, "admitted", <<1, 1>>, "none")
  /\ UNCHANGED <<now, rows, provider, recent, faults>>

\* The newest initial cycle whose payment is not settled is offered again.
OpenInitial == {c \in Cycles : cycle[c].operation = "initial" /\ cycle[c].status \in {"prepared", "payment_pending"}}

ReserveInitial(h) ==
  /\ At(h, "admitted")
  /\ IF OpenInitial # {}
     THEN LET c == CHOOSE c \in OpenInitial : \A d \in OpenInitial : d <= c IN
          /\ Go(h, "reserved", Latest(Used(c)), "none")
          /\ UNCHANGED rows
     ELSE /\ Unused # {}
          /\ cycle' = [cycle EXCEPT ![NextCycle] =
               [operation |-> "initial", status |-> "prepared", start |-> now, end |-> now + Year]]
          /\ tx' = [tx EXCEPT ![<<NextCycle, 1>>] = [@ EXCEPT !.status = "reserved"]]
          /\ sub' = [sub EXCEPT !.status = "pending", !.autoRenew = FALSE, !.cancelled = FALSE, !.expires = 0]
          /\ Go(h, "reserved", <<NextCycle, 1>>, "none")
          /\ UNCHANGED records
  /\ UNCHANGED <<now, provider, recent, faults>>

\* A payment bound to the transaction, or found in Mollie's list by its metadata.
Known(t) == remote[t].status # "none"

LookUpInitial(h) ==
  LET t == handler[h].t IN
  /\ At(h, "reserved")
  /\ IF Known(t) THEN Go(h, "answered", t, remote[t].status) ELSE Go(h, "missing", t, "none")
  /\ UNCHANGED <<now, rows, provider, recent, faults>>

\* (Mutant) No idempotency key.
PostWithoutKey(t) ==
  /\ remote' = [remote EXCEPT ![t] = IF Known(t) THEN @ ELSE [@ EXCEPT !.status = "open"]]
  /\ posted' = [posted EXCEPT ![t] = @ + 1]
  /\ recent' = recent \cup {t}

\* POST payments: a remembered idempotency key returns the first payment.
Post(t) ==
  /\ IF t \in recent
     THEN UNCHANGED <<remote, posted>>
     ELSE /\ remote' = [remote EXCEPT ![t] = IF Known(t) THEN @ ELSE [@ EXCEPT !.status = "open"]]
          /\ posted' = [posted EXCEPT ![t] = @ + 1]
  /\ recent' = recent \cup {t}

PostInitial(h) ==
  LET t == handler[h].t IN
  /\ At(h, "missing")
  /\ Post(t)
  /\ \/ Go(h, "answered", t, remote'[t].status) /\ UNCHANGED faults
     \/ /\ faults < MaxFaults /\ faults' = faults + 1      \* the answer is lost
        /\ Finish(h)
  /\ UNCHANGED <<now, rows>>

\* The last transaction writes the status it saw, however old.
BindInitial(h) ==
  LET t == handler[h].t  seen == handler[h].seen IN
  /\ At(h, "answered")
  /\ tx' = [tx EXCEPT ![t] = [status |-> seen, bound |-> TRUE, synced |-> now]]
  /\ cycle' = [cycle EXCEPT ![CycleOf(t)].status = IF seen \in Open THEN "payment_pending" ELSE @]
  /\ IF seen = "paid" THEN Go(h, "charged", t, "none") ELSE Finish(h)
  /\ UNCHANGED <<now, sub, records, provider, recent, faults>>

-----------------------------------------------------------------------------
(* The webhook, sync_subscription and _process_payment_payload *)

\* Mollie reports a settled payment at any later time, and more than once.
Webhook(h) == \E t \in Payments :
  /\ At(h, "idle") /\ remote[t].status \in Verdicts
  /\ Go(h, "fetched", t, remote[t].status)
  /\ UNCHANGED <<now, rows, provider, recent, faults>>

SyncPayment(h) == \E t \in Payments :
  /\ At(h, "idle") /\ tx[t].status \in Unsettled /\ Known(t)
  /\ Go(h, "fetched", t, remote[t].status)
  /\ UNCHANGED <<now, rows, provider, recent, faults>>

FetchPayment(h) ==
  /\ At(h, "charged") /\ Go(h, "fetched", handler[h].t, remote[handler[h].t].status)
  /\ UNCHANGED <<now, rows, provider, recent, faults>>

\* (Mutant) A payment clears the cancellation.
PaidRevives(s, end) ==
  [s EXCEPT !.status = "active", !.autoRenew = TRUE, !.cancelled = FALSE, !.expires = end,
            !.paidThrough = end, !.graceUntil = 0, !.mandate = TRUE]

\* A verified payment extends Pro; a cancellation of the customer survives it
\* (_preserve_cancelled_state).
PaidUntil(s, end) ==
  LET kept == s.cancelled /\ ~s.autoRenew IN
  [s EXCEPT !.status = IF kept THEN "cancelled" ELSE "active", !.autoRenew = ~kept,
            !.cancelled = kept, !.expires = end, !.paidThrough = end, !.graceUntil = 0, !.mandate = TRUE]

ApplyPaid(h, c) ==
  LET end == IF cycle[c].operation = "initial" THEN remote[handler[h].t].paidAt + Year ELSE cycle[c].end IN
  /\ cycle' = [cycle EXCEPT ![c] = [@ EXCEPT !.status = "paid", !.start = end - Year, !.end = end]]
  /\ sub' = PaidUntil(sub, end)
  /\ booked' = booked \cup {c}

ApplyUnpaid(h, c) ==
  LET seen == handler[h].seen IN
  /\ cycle' = [cycle EXCEPT ![c].status = IF seen \in Refused THEN seen ELSE "payment_pending"]
  /\ sub' = IF cycle[c].operation = "renewal" /\ (seen \in Refused \/ cycle[c].start <= now)
            THEN InGrace(sub, cycle[c].start)
            ELSE [sub EXCEPT !.status = "pending"]
  /\ UNCHANGED booked

\* Whatever the rows say by now, the payload is written over them.
ApplyPayment(h) ==
  LET t == handler[h].t IN
  /\ At(h, "fetched")
  /\ tx' = [tx EXCEPT ![t] = [status |-> handler[h].seen, bound |-> TRUE, synced |-> now]]
  /\ IF handler[h].seen = "paid" THEN ApplyPaid(h, CycleOf(t)) ELSE ApplyUnpaid(h, CycleOf(t))
  /\ Finish(h)
  /\ UNCHANGED <<now, dropped, provider, recent, faults>>

-----------------------------------------------------------------------------
(* _execute_due_renewal *)

Through == IF sub.paidThrough # 0 THEN sub.paidThrough ELSE sub.expires
Overdue == sub.autoRenew /\ Through # 0 /\ Through <= now
RenewalDue == Overdue /\ sub.status \in {"active", "grace_period", "expired"} /\ sub.mandate

RenewalCycles == {c \in Cycles : /\ cycle[c].operation = "renewal" /\ cycle[c].status # "none"
                                 /\ cycle[c].start = Through}

\* _reserve_due_renewal: the open attempt of the period, the next one, or grace.
ReserveAttempt(h, c) ==
  LET open == {t \in Used(c) : tx[t].status \in Unsettled}
      next == <<c, Cardinality(Tried(c)) + 1>> IN
  \/ /\ open # {}
     /\ Go(h, "due", Latest(open), "none")
     /\ UNCHANGED rows
  \/ /\ open = {} /\ next \in Payments
     /\ tx' = [tx EXCEPT ![next] = [@ EXCEPT !.status = "reserved"]]
     /\ cycle' = [cycle EXCEPT ![c] = [operation |-> "renewal", status |-> "prepared",
                                       start |-> Through, end |-> Through + Year]]
     /\ Go(h, "due", next, "none")
     /\ UNCHANGED <<sub, records>>
  \/ /\ open = {} /\ next \notin Payments
     /\ sub' = InGrace(sub, Through)
     /\ UNCHANGED <<cycle, tx, records, handler>>

ReserveRenewal(h) ==
  /\ At(h, "idle") /\ RenewalDue
  /\ \/ \E c \in RenewalCycles : cycle[c].status # "paid" /\ ReserveAttempt(h, c)
     \/ RenewalCycles = {} /\ Unused # {} /\ ReserveAttempt(h, NextCycle)
  /\ UNCHANGED <<now, provider, recent, faults>>

\* The tax service is down: no reservation, and in a second transaction a fixed grace.
TaxUnavailable(h) ==
  /\ At(h, "idle") /\ RenewalDue /\ faults < MaxFaults
  /\ faults' = faults + 1
  /\ Go(h, "untaxed", <<1, 1>>, "none")
  /\ UNCHANGED <<now, rows, provider, recent>>

ValidationGrace(h) ==
  /\ At(h, "untaxed")
  /\ sub' = IF Overdue THEN InGrace(sub, Through) ELSE sub
  /\ Finish(h)
  /\ UNCHANGED <<now, cycle, tx, records, provider, recent, faults>>

RetryIsDue(t) ==
  AttemptOf(t) > 1 => tx[<<CycleOf(t), AttemptOf(t) - 1>>].synced + RetryAfter <= now

LookUpRenewal(h) ==
  LET t == handler[h].t IN
  /\ At(h, "due")
  /\ \/ ~RetryIsDue(t) /\ Finish(h)
     \/ RetryIsDue(t) /\ Known(t) /\ Go(h, "found", t, remote[t].status)
     \/ RetryIsDue(t) /\ ~Known(t) /\ Go(h, "unpaid", t, "none")
  /\ UNCHANGED <<now, rows, provider, recent, faults>>

\* (Mutant) No last look at the cancellation.
NeverUnwanted(t) == FALSE

Unwanted(t) == ~sub.autoRenew \/ cycle[CycleOf(t)].status = "cancelled" \/ tx[t].status = "cancelled"

\* Under the row lock: the last look at the cancellation, and the charge.
DropRenewal(h, t) ==
  /\ Unwanted(t) \/ ~RetryIsDue(t)
  /\ IF Unwanted(t) /\ ~tx[t].bound
     THEN /\ tx' = [tx EXCEPT ![t].status = "cancelled"]
          /\ cycle' = [cycle EXCEPT ![CycleOf(t)].status = "cancelled"]
          /\ dropped' = dropped \cup {t}
     ELSE UNCHANGED <<tx, cycle, dropped>>
  /\ Finish(h)
  /\ UNCHANGED <<remote, posted, recent, faults>>

PostRenewal(h, t) ==
  /\ ~Unwanted(t) /\ RetryIsDue(t)
  /\ IF tx[t].bound
     THEN Go(h, "charged", t, "none") /\ UNCHANGED <<tx, cycle, remote, posted, recent, faults>>
     ELSE /\ Post(t)
          /\ \/ /\ tx' = [tx EXCEPT ![t] = [status |-> remote'[t].status, bound |-> TRUE, synced |-> now]]
                /\ cycle' = [cycle EXCEPT ![CycleOf(t)].status = "payment_pending"]
                /\ Go(h, "charged", t, "none")
                /\ UNCHANGED faults
             \/ /\ faults < MaxFaults /\ faults' = faults + 1   \* no answer: rolled back
                /\ Finish(h)
                /\ UNCHANGED <<tx, cycle>>
  /\ UNCHANGED dropped

ChargeRenewal(h) ==
  /\ At(h, "unpaid")
  /\ DropRenewal(h, handler[h].t) \/ PostRenewal(h, handler[h].t)
  /\ UNCHANGED <<now, sub, booked>>

BindRenewal(h) ==
  LET t == handler[h].t  seen == handler[h].seen IN
  /\ At(h, "found")
  /\ tx' = [tx EXCEPT ![t] = [status |-> seen, bound |-> TRUE, synced |-> now]]
  /\ cycle' = [cycle EXCEPT ![CycleOf(t)].status = IF seen \in Open THEN "payment_pending" ELSE @]
  /\ Go(h, "charged", t, "none")
  /\ UNCHANGED <<now, sub, records, provider, recent, faults>>

-----------------------------------------------------------------------------
(* The customer: cancel_subscription and set_auto_renew *)

\* Renewals with no payment yet end with the cancellation.
Dropped(t) ==
  /\ cycle[CycleOf(t)].operation = "renewal" /\ cycle[CycleOf(t)].status \in {"prepared", "payment_pending"}
  /\ t \in Used(CycleOf(t)) /\ t = Latest(Used(CycleOf(t))) /\ ~tx[t].bound

Cancel ==
  /\ sub.status # "none"
  /\ sub' = [sub EXCEPT !.autoRenew = FALSE, !.cancelled = TRUE, !.expires = Through, !.graceUntil = 0,
                        !.status = IF Through > now THEN "cancelled" ELSE "expired"]
  /\ tx' = [t \in Payments |-> IF Dropped(t) THEN [tx[t] EXCEPT !.status = "cancelled"] ELSE tx[t]]
  /\ cycle' = [c \in Cycles |-> IF \E t \in Payments : CycleOf(t) = c /\ Dropped(t)
                                THEN [cycle[c] EXCEPT !.status = "cancelled"] ELSE cycle[c]]
  /\ dropped' = dropped \cup {t \in Payments : Dropped(t)}
  /\ UNCHANGED <<now, booked, provider, recent, handler, faults>>

Enable ==
  /\ sub.status \in {"active", "cancelled"} /\ sub.expires > now /\ sub.mandate
  /\ sub' = [sub EXCEPT !.autoRenew = TRUE, !.cancelled = FALSE, !.status = "active", !.graceUntil = 0]
  /\ UNCHANGED <<now, cycle, tx, records, provider, recent, handler, faults>>

-----------------------------------------------------------------------------
(* Around the handlers *)

\* A provider error, an exception or a crash ends a handler between two steps.
Fail(h) ==
  /\ ~At(h, "idle") /\ Finish(h)
  /\ faults < MaxFaults /\ faults' = faults + 1
  /\ UNCHANGED <<now, rows, provider, recent>>

\* The customer or his bank decides; Mollie calls the webhook.
SettleRemote == \E t \in Payments, verdict \in Verdicts :
  /\ remote[t].status \in Open
  /\ remote' = [remote EXCEPT ![t] = [status |-> verdict, paidAt |-> IF verdict = "paid" THEN now ELSE 0]]
  /\ UNCHANGED <<now, rows, posted, recent, handler, faults>>

\* A tick is long against a handler; Mollie forgets idempotency keys meanwhile.
Tick ==
  /\ now < MaxTime /\ \A h \in Handlers : At(h, "idle")
  /\ now' = now + 1
  /\ recent' = {}
  /\ UNCHANGED <<rows, provider, handler, faults>>

Checkout(h) == StartCheckout(h) \/ ReserveInitial(h) \/ LookUpInitial(h) \/ PostInitial(h) \/ BindInitial(h)
Renewal(h) == ReserveRenewal(h) \/ LookUpRenewal(h) \/ ChargeRenewal(h) \/ BindRenewal(h)
Booking(h) == Webhook(h) \/ SyncPayment(h) \/ FetchPayment(h) \/ ApplyPayment(h)

Next ==
  \/ \E h \in Handlers :
       \/ Checkout(h) \/ Renewal(h) \/ Booking(h)
       \/ TaxUnavailable(h) \/ ValidationGrace(h) \/ Fail(h)
  \/ Cancel \/ Enable \/ SettleRemote \/ Tick

Spec == Init /\ [][Next]_vars

-----------------------------------------------------------------------------
(* Properties *)

\* The rows keep their shapes; Mollie's payments belong to transactions.
TypeOK ==
  /\ now \in Nat /\ faults \in Nat
  /\ sub \in [status : {"none", "pending", "active", "grace_period", "cancelled", "expired"},
              autoRenew : BOOLEAN, cancelled : BOOLEAN, expires : Nat, paidThrough : Nat,
              graceUntil : Nat, mandate : BOOLEAN]
  /\ cycle \in [Cycles -> [operation : {"initial", "renewal"},
                           status : {"none", "prepared", "payment_pending", "paid"} \cup Refused,
                           start : Nat, end : Nat]]
  /\ tx \in [Payments -> [status : {"none", "paid"} \cup Unsettled \cup Refused, bound : BOOLEAN, synced : Nat]]
  /\ remote \in [Payments -> [status : {"none", "paid"} \cup Open \cup Refused, paidAt : Nat]]
  /\ posted \in [Payments -> Nat]
  /\ recent \subseteq Payments
  /\ booked \subseteq Cycles /\ dropped \subseteq Payments
  /\ \A h \in Handlers : handler[h].t \in Payments
  /\ \A t \in Payments : tx[t].bound => remote[t].status # "none"

\* What the books know: a payment that was posted without an answer and then dropped is
\* not collecting any more.
AccountOf(c) ==
  IF \E a \in Attempts : remote[<<c, a>>].status \in Open /\ <<c, a>> \notin dropped
  THEN "collecting" ELSE "due"

\* Two handlers, lost answers and retries never charge a period while an earlier
\* charge may still succeed, nor any attempt twice: the payments at Mollie follow the
\* ledger a customer expects.  A cancellation that did not hear of a charge gives it up.
Ledger == INSTANCE RenewalLedger WITH
  Periods <- Cycles, Tries <- Attempts,
  account <- [c \in Cycles |-> AccountOf(c)],
  charges <- [c \in Cycles |-> [a \in Attempts |-> posted[<<c, a>>]]]
ChargesFollowLedger == Ledger!Spec

\* mollie_billing_runtime.py: "an already started payment is durably bound before
\* cancellation can proceed".
DroppedWasNotCharged == \A t \in dropped : ~Known(t)

\* docs/BILLING.md: a billing period is paid at most once.
PaidOnce ==
  \A c \in Cycles : Cardinality({a \in Attempts : remote[<<c, a>>].status = "paid"}) <= 1

\* Pro is never free: whoever is entitled has a period Mollie reports as paid that
\* lasts, or ended no longer than the grace period ago, however often renewals,
\* tax checks and late webhooks set the row into grace.
EntitledIsCovered ==
  Entitled => \E t \in Payments : /\ remote[t].status = "paid"
                                  /\ now < cycle[CycleOf(t)].end + Grace

\* No renewal is charged unless the customer wants it at the moment of the charge,
\* whatever was reserved and looked up before he cancelled.
ChargesAreWanted ==
  [][\A t \in Payments : posted'[t] # posted[t] /\ cycle[CycleOf(t)].operation = "renewal" => sub.autoRenew]_vars

\* A cancellation survives every late confirmation: no payment applied after it
\* turns the renewal on again, only the customer does.
CancellationSticks == [][sub.cancelled /\ sub'.autoRenew => tx' = tx]_vars

\* docs/BILLING.md: a verified payment "activates the paid annual Pro period", and
\* "a successfully paid period is never revoked by cancellation".
PaidPeriodIsKept ==
  \A c \in Cycles : c \in booked /\ now < cycle[c].end => Entitled
=============================================================================
