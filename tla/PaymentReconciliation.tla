------------------------ MODULE PaymentReconciliation ------------------------
(***************************************************************************)
(* How a collection participant becomes paid: online checkouts and Mollie's *)
(* status webhook (api/routes/public_payments.py, webhooks.py), bank        *)
(* statements and their review (api/routes/bank_imports.py, services/       *)
(* bank_sync.py) and the manual switch (api/routes/collections.py).         *)
(*                                                                         *)
(* Row locks decide the grain.  A checkout holds the participant's row while *)
(* it calls Mollie; a webhook asks Mollie with nothing locked and applies the *)
(* answer later; a statement is matched against the open participants it read *)
(* before it locks any.  Everything else is one transaction.                 *)
(***************************************************************************)
EXTENDS Integers, FiniteSets

CONSTANTS People,       \* collection participants
          Attempts,     \* online_payment_attempts rows and their Mollie payments
          Transactions, \* bank_transactions, one per fingerprint
          Handlers,     \* concurrent webhook requests
          OwnerOf,      \* [Attempts -> People]
          RefersTo,     \* whose payment reference, with the amount due, a transaction carries
          Nothing,      \* no attempt, no person
          MaxFaults     \* bound on failed calls, lost answers and crashes

ASSUME ReconciliationAssumption ==
  /\ IsFiniteSet(Attempts) /\ IsFiniteSet(Transactions)
  /\ OwnerOf \in [Attempts -> People]
  /\ RefersTo \in [Transactions -> People \cup {Nothing}]
  /\ Nothing \notin Attempts \cup People
  /\ MaxFaults \in Nat

VARIABLES paid,      \* people whose status is "paid"
          manual,    \* manual Payment rows per person
          online,    \* online Payment rows per attempt (its external_reference)
          bank,      \* bank Payment rows per transaction: the person, or Nothing
          attempt,   \* the attempt's row: status, and whether it is younger than 30 minutes
          handed,    \* attempts whose checkout URL was given to the customer
          checkout,  \* the attempt being created under each person's row lock
          provider,  \* Mollie's payment of each attempt
          calls,     \* webhook calls Mollie still has to deliver
          handler,   \* what each webhook request has found out
          statement, \* the statement being matched: its transactions, the open people read
          tx,        \* status of the bank transactions
          faults

vars == <<paid, manual, online, bank, attempt, handed, checkout, provider, calls,
          handler, statement, tx, faults>>

Payable == {"open", "pending"}
ProviderStatus == Payable \cup {"paid", "expired"}
IdleHandler == [pc |-> "idle", attempt |-> Nothing, status |-> "open"]
NoStatement == [pc |-> "none", rows |-> {}, targets |-> {}]

Locked(p) == checkout[p] # Nothing
BankPaid(p) == \E t \in Transactions : bank[t] = p
OnlinePaid(p) == \E a \in Attempts : OwnerOf[a] = p /\ online[a] > 0

Init ==
  /\ paid = {}
  /\ manual = [p \in People |-> 0]
  /\ online = [a \in Attempts |-> 0]
  /\ bank = [t \in Transactions |-> Nothing]
  /\ attempt = [a \in Attempts |-> [status |-> "none", fresh |-> FALSE]]
  /\ handed = {}
  /\ checkout = [p \in People |-> Nothing]
  /\ provider = [a \in Attempts |-> "none"]
  /\ calls = [a \in Attempts |-> 0]
  /\ handler = [h \in Handlers |-> IdleHandler]
  /\ statement = NoStatement
  /\ tx = [t \in Transactions |-> "absent"]
  /\ faults = 0

-----------------------------------------------------------------------------
(* create_online_checkout *)

\* The attempt of p that is handed out again instead of creating another.
Reusable(a, p) == OwnerOf[a] = p /\ attempt[a].status \in Payable /\ attempt[a].fresh

\* (Mutant) Only an attempt nobody has started to pay is handed out again.
StartUnlessOpen(a) ==
  LET p == OwnerOf[a] IN
  /\ ~Locked(p) /\ p \notin paid
  /\ attempt[a].status = "none" /\ provider[a] = "none"
  /\ ~\E b \in Attempts : Reusable(b, p) /\ attempt[b].status = "open"
  /\ checkout' = [checkout EXCEPT ![p] = a]
  /\ UNCHANGED <<paid, manual, online, bank, attempt, handed, provider, calls, handler,
                 statement, tx, faults>>

\* Up to the provider call; a reusable attempt is answered at once and changes nothing.
StartCheckout(a) ==
  LET p == OwnerOf[a] IN
  /\ ~Locked(p) /\ p \notin paid
  /\ attempt[a].status = "none" /\ provider[a] = "none"
  /\ ~\E b \in Attempts : Reusable(b, p)
  /\ checkout' = [checkout EXCEPT ![p] = a]
  /\ UNCHANGED <<paid, manual, online, bank, attempt, handed, provider, calls, handler,
                 statement, tx, faults>>

\* Mollie creates the payment, and its answer is stored and returned.
FinishCheckout(p) ==
  /\ Locked(p)
  /\ LET a == checkout[p] IN
       /\ provider' = [provider EXCEPT ![a] = "open"]
       /\ attempt' = [attempt EXCEPT ![a] = [status |-> "open", fresh |-> TRUE]]
       /\ handed' = handed \cup {a}
  /\ checkout' = [checkout EXCEPT ![p] = Nothing]
  /\ UNCHANGED <<paid, manual, online, bank, calls, handler, statement, tx, faults>>

\* The call fails, with or without a payment created, and that is recorded; or the
\* request dies before its commit and leaves no row.
FailCheckout(p, recorded, created) ==
  /\ Locked(p) /\ faults < MaxFaults
  /\ faults' = faults + 1
  /\ LET a == checkout[p] IN
       /\ provider' = IF created THEN [provider EXCEPT ![a] = "open"] ELSE provider
       /\ attempt' = IF recorded THEN [attempt EXCEPT ![a].status = "failed"] ELSE attempt
  /\ checkout' = [checkout EXCEPT ![p] = Nothing]
  /\ UNCHANGED <<paid, manual, online, bank, handed, calls, handler, statement, tx>>

\* Thirty minutes pass.
Age(a) ==
  /\ attempt[a].fresh
  /\ attempt' = [attempt EXCEPT ![a].fresh = FALSE]
  /\ UNCHANGED <<paid, manual, online, bank, handed, checkout, provider, calls, handler,
                 statement, tx, faults>>

-----------------------------------------------------------------------------
(* Mollie *)

\* The customer pays an URL he was given, or the payment expires; Mollie calls the
\* webhook for each change.
ProviderChanges(a, status) ==
  /\ \/ provider[a] = "open" /\ status \in {"pending", "paid", "expired"}
     \/ provider[a] = "pending" /\ status \in {"paid", "expired"}
  /\ status # "expired" => a \in handed
  /\ provider' = [provider EXCEPT ![a] = status]
  /\ calls' = [calls EXCEPT ![a] = @ + 1]
  /\ UNCHANGED <<paid, manual, online, bank, attempt, handed, checkout, handler, statement,
                 tx, faults>>

-----------------------------------------------------------------------------
(* mollie_webhook *)

\* The attempt is identified; without a row the answer is 404 and Mollie calls again.
ReceiveCall(h, a) ==
  /\ handler[h].pc = "idle"
  /\ calls[a] > 0 /\ attempt[a].status # "none"
  /\ calls' = [calls EXCEPT ![a] = @ - 1]
  /\ handler' = [handler EXCEPT ![h] = [pc |-> "asking", attempt |-> a, status |-> "open"]]
  /\ UNCHANGED <<paid, manual, online, bank, attempt, handed, checkout, provider, statement,
                 tx, faults>>

\* Mollie is asked, with no transaction open.
FetchPayment(h) ==
  /\ handler[h].pc = "asking"
  /\ handler' = [handler EXCEPT ![h].pc = "fetched", ![h].status = provider[handler[h].attempt]]
  /\ UNCHANGED <<paid, manual, online, bank, attempt, handed, checkout, provider, calls,
                 statement, tx, faults>>

\* (Mutant) Every paid call books a payment.
BookEvery(a) == online' = [online EXCEPT ![a] = @ + 1]

\* One Payment per Mollie payment, however often the webhook is called.
Book(a) == online' = IF online[a] = 0 THEN [online EXCEPT ![a] = 1] ELSE online

\* The answer is applied under the locks of the attempt and, when paid, the person.
\* If the 200 is lost, Mollie calls again.
ApplyPayment(h, answered) ==
  LET a == handler[h].attempt
      p == OwnerOf[a]
  IN /\ handler[h].pc = "fetched"
     /\ attempt' = [attempt EXCEPT ![a].status = handler[h].status]
     /\ IF handler[h].status = "paid"
        THEN ~Locked(p) /\ Book(a) /\ paid' = paid \cup {p}
        ELSE UNCHANGED <<online, paid>>
     /\ \/ answered /\ UNCHANGED <<calls, faults>>
        \/ /\ ~answered /\ faults < MaxFaults
           /\ faults' = faults + 1
           /\ calls' = [calls EXCEPT ![a] = @ + 1]
     /\ handler' = [handler EXCEPT ![h] = IdleHandler]
     /\ UNCHANGED <<manual, bank, handed, checkout, provider, statement, tx>>

\* (Mutant) A call that could not be served is acknowledged.
FailQuietly(h) ==
  /\ handler[h].pc # "idle" /\ faults < MaxFaults
  /\ faults' = faults + 1
  /\ handler' = [handler EXCEPT ![h] = IdleHandler]
  /\ UNCHANGED <<paid, manual, online, bank, attempt, handed, checkout, provider, calls,
                 statement, tx>>

\* Mollie cannot be asked (502), or the process dies: Mollie calls again.
FailCall(h) ==
  /\ handler[h].pc # "idle" /\ faults < MaxFaults
  /\ faults' = faults + 1
  /\ calls' = [calls EXCEPT ![handler[h].attempt] = @ + 1]
  /\ handler' = [handler EXCEPT ![h] = IdleHandler]
  /\ UNCHANGED <<paid, manual, online, bank, attempt, handed, checkout, provider, statement, tx>>

-----------------------------------------------------------------------------
(* Bank statements: import_bank_statement and _apply_sync *)

\* The advisory lock "bank-ingestion" admits one statement; its rows are new by
\* fingerprint, and the open participants are read without a lock.
ReadTargets(rows) ==
  /\ statement.pc = "none" /\ rows # {}
  /\ statement' = [pc |-> "matching", rows |-> {t \in rows : tx[t] = "absent"},
                   targets |-> People \ paid]
  /\ UNCHANGED <<paid, manual, online, bank, attempt, handed, checkout, provider, calls,
                 handler, tx, faults>>

\* (Mutant) The participant's status as it was read with the targets is trusted.
MatchedFromTargets(chosen) == {t \in chosen : RefersTo[t] \in statement.targets}

\* _apply_payment and _apply_auto_payment look again, under the person's lock.
MatchedNow(chosen) == {t \in chosen : RefersTo[t] \notin paid}

\* Each open target takes the first row that carries its reference (consumed_targets);
\* rows whose target was paid meanwhile, and all others, are left for review.
CommitStatement(chosen) ==
  LET rows == statement.rows
      auto == {t \in rows : RefersTo[t] \in statement.targets}
      matched == MatchedNow(chosen)
  IN /\ statement.pc = "matching"
     /\ chosen \subseteq auto
     /\ \A t \in auto : \E c \in chosen : RefersTo[c] = RefersTo[t]
     /\ \A c, d \in chosen : RefersTo[c] = RefersTo[d] => c = d
     /\ \A c \in chosen : ~Locked(RefersTo[c])
     /\ bank' = [t \in Transactions |-> IF t \in matched THEN RefersTo[t] ELSE bank[t]]
     /\ paid' = paid \cup {RefersTo[t] : t \in matched}
     /\ tx' = [t \in Transactions |-> IF t \in matched THEN "auto_matched"
                                      ELSE IF t \in rows THEN "review" ELSE tx[t]]
     /\ statement' = NoStatement
     /\ UNCHANGED <<manual, online, attempt, handed, checkout, provider, calls, handler, faults>>

\* A synchronization that finds nobody open stores none of its rows.
SkipSync ==
  /\ statement.pc = "matching" /\ statement.targets = {}
  /\ statement' = NoStatement
  /\ UNCHANGED <<paid, manual, online, bank, attempt, handed, checkout, provider, calls,
                 handler, tx, faults>>

\* The upload or synchronization fails and is rolled back.
LoseStatement ==
  /\ statement.pc = "matching" /\ faults < MaxFaults
  /\ faults' = faults + 1
  /\ statement' = NoStatement
  /\ UNCHANGED <<paid, manual, online, bank, attempt, handed, checkout, provider, calls,
                 handler, tx>>

\* confirm_bank_match: a reviewer assigns an unassigned transaction to an open person.
ConfirmMatch(t, p) ==
  /\ tx[t] # "absent" /\ bank[t] = Nothing
  /\ ~Locked(p) /\ p \notin paid
  /\ bank' = [bank EXCEPT ![t] = p]
  /\ paid' = paid \cup {p}
  /\ tx' = [tx EXCEPT ![t] = "matched"]
  /\ UNCHANGED <<manual, online, attempt, handed, checkout, provider, calls, handler,
                 statement, faults>>

\* ignore_bank_transaction
IgnoreTransaction(t) ==
  /\ tx[t] # "absent" /\ bank[t] = Nothing
  /\ tx' = [tx EXCEPT ![t] = "ignored"]
  /\ UNCHANGED <<paid, manual, online, bank, attempt, handed, checkout, provider, calls,
                 handler, statement, faults>>

-----------------------------------------------------------------------------
(* update_payment_status *)

\* (Mutant) Only payments made online are protected from a manual change.
OnlineOnly(p) == ~OnlinePaid(p)

\* _require_manual_payment_change
OnlyManual(p) == ~OnlinePaid(p) /\ ~BankPaid(p)

MarkPaid(p) ==
  /\ ~Locked(p) /\ OnlyManual(p) /\ p \notin paid
  /\ paid' = paid \cup {p}
  /\ manual' = [manual EXCEPT ![p] = @ + 1]
  /\ UNCHANGED <<online, bank, attempt, handed, checkout, provider, calls, handler,
                 statement, tx, faults>>

MarkOpen(p) ==
  /\ ~Locked(p) /\ OnlyManual(p) /\ p \in paid
  /\ paid' = paid \ {p}
  /\ manual' = [manual EXCEPT ![p] = 0]
  /\ UNCHANGED <<online, bank, attempt, handed, checkout, provider, calls, handler,
                 statement, tx, faults>>

-----------------------------------------------------------------------------
Checkout ==
  \/ \E a \in Attempts : StartCheckout(a) \/ Age(a)
  \/ \E p \in People : \/ FinishCheckout(p)
                       \/ \E recorded, created \in BOOLEAN : FailCheckout(p, recorded, created)

Webhook(h) ==
  \/ \E a \in Attempts : ReceiveCall(h, a)
  \/ FetchPayment(h)
  \/ \E answered \in BOOLEAN : ApplyPayment(h, answered)

Next ==
  \/ Checkout
  \/ \E a \in Attempts, status \in ProviderStatus : ProviderChanges(a, status)
  \/ \E h \in Handlers : Webhook(h) \/ FailCall(h)
  \/ \E rows \in SUBSET Transactions : ReadTargets(rows) \/ CommitStatement(rows)
  \/ SkipSync \/ LoseStatement
  \/ \E t \in Transactions : IgnoreTransaction(t) \/ \E p \in People : ConfirmMatch(t, p)
  \/ \E p \in People : MarkPaid(p) \/ MarkOpen(p)

Spec == Init /\ [][Next]_vars

\* Requests end (every network call has a timeout) and Mollie repeats its calls until
\* they are answered.
Fairness ==
  /\ \A h \in Handlers : WF_vars(Webhook(h))
  /\ \A p \in People : WF_vars(FinishCheckout(p))

FairSpec == Spec /\ Fairness

-----------------------------------------------------------------------------
(* Properties *)

\* Type invariant: payments, attempts, webhook requests and transactions have the
\* shapes of the code.
TypeOK ==
  /\ paid \in SUBSET People
  /\ manual \in [People -> Nat] /\ online \in [Attempts -> Nat]
  /\ bank \in [Transactions -> People \cup {Nothing}]
  /\ attempt \in [Attempts -> [status : ProviderStatus \cup {"none", "failed"}, fresh : BOOLEAN]]
  /\ handed \in SUBSET Attempts
  /\ checkout \in [People -> Attempts \cup {Nothing}]
  /\ provider \in [Attempts -> ProviderStatus \cup {"none"}]
  /\ calls \in [Attempts -> Nat] /\ \A a \in Attempts : calls[a] > 0 => provider[a] # "none"
  /\ handler \in [Handlers -> [pc : {"idle", "asking", "fetched"},
                               attempt : Attempts \cup {Nothing}, status : ProviderStatus]]
  /\ \A h \in Handlers : handler[h].pc # "idle" =>
       handler[h].attempt \in Attempts /\ provider[handler[h].attempt] # "none"
  /\ statement \in [pc : {"none", "matching"}, rows : SUBSET Transactions,
                    targets : SUBSET People]
  /\ tx \in [Transactions -> {"absent", "review", "auto_matched", "matched", "ignored"}]
  /\ faults \in 0..MaxFaults

\* A participant is paid exactly when a payment of his is recorded, whichever of the
\* three ways it came and whatever a reviewer or the treasurer takes back meanwhile.
PaidIffRecorded ==
  \A p \in People : p \in paid <=> manual[p] > 0 \/ OnlinePaid(p) \/ BankPaid(p)

\* Money that arrived is booked once: repeated and concurrent webhook calls book one
\* payment per Mollie payment, and only of one Mollie reports as paid; the treasurer's
\* switch books at most one.
BookedOnce ==
  /\ \A a \in Attempts : online[a] <= 1 /\ (online[a] = 1 => provider[a] = "paid")
  /\ \A p \in People : manual[p] <= 1

\* No participant is paid twice from bank statements, although targets are read before
\* they are locked and the same reference can stand in several rows.
OneBankPaymentEach ==
  \A t, u \in Transactions : bank[t] # Nothing /\ bank[t] = bank[u] => t = u

\* A transaction counted as matched is the one whose payment is recorded, and one in
\* review or set aside is not.
MatchedIffBooked ==
  \A t \in Transactions : tx[t] \in {"auto_matched", "matched"} <=> bank[t] # Nothing

\* Within thirty minutes a participant has one checkout that can still be paid, with
\* requests from several devices and webhooks applied out of order.
OneOpenCheckout ==
  \A a, b \in handed :
     OwnerOf[a] = OwnerOf[b] /\ attempt[a].fresh /\ attempt[b].fresh
     /\ provider[a] \in Payable /\ provider[b] \in Payable => a = b

\* What a provider or a bank reported is never taken back.
ReportedPaymentsStay ==
  [][/\ \A a \in Attempts : online[a] > 0 => online'[a] = online[a] /\ OwnerOf[a] \in paid'
     /\ \A t \in Transactions : bank[t] # Nothing => bank'[t] = bank[t] /\ bank[t] \in paid']_vars

\* Every payment a customer made online is booked in the end, however late, often or
\* out of order Mollie's calls arrive.
PaidOnlineIsBooked ==
  \A a \in Attempts : provider[a] = "paid" ~> online[a] > 0 /\ OwnerOf[a] \in paid
=============================================================================
