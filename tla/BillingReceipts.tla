--------------------------- MODULE BillingReceipts ---------------------------
(***************************************************************************)
(* Receipts for booked Pro payments: the invoice row committed with the       *)
(* payment (Billing!booked) is turned into a Mollie sales invoice by          *)
(* _ensure_receipt, _sync_receipts and the sales invoice webhook              *)
(* (services/mollie_billing_core.py, mollie_billing_webhooks.py).             *)
(*                                                                         *)
(* None of them holds a lock while it talks to Mollie, so what was read, found *)
(* or created is written by a later transaction, whatever happened meanwhile. *)
(***************************************************************************)
EXTENDS Integers, FiniteSets

CONSTANTS Invoices,  \* billing_invoices rows
          Handlers,  \* payment handlers, sync jobs and invoice webhooks at once
          MaxFaults  \* bound on lost answers, provider errors and crashes

ASSUME ReceiptAssumption == MaxFaults \in Nat

VARIABLES row,     \* status and binding of each billing_invoices row
          remote,  \* Mollie's sales invoice with the row's reference
          posted,  \* sales invoices created at Mollie per row
          recent,  \* idempotency keys Mollie still remembers
          handler, \* where each handler stands and what Mollie told it
          faults

vars == <<row, remote, posted, recent, handler, faults>>

\* (Mutant) An issued receipt is not synchronized again.
OnlyCreating == {"creating"}

OpenInvoice == {"creating", "issued"}  \* OPEN_INVOICE_STATUSES
Idle == [pc |-> "idle", invoice |-> "none", seen |-> "none"]

Init ==
  /\ row = [i \in Invoices |-> [status |-> "none", bound |-> FALSE]]
  /\ remote = [i \in Invoices |-> "none"]
  /\ posted = [i \in Invoices |-> 0]
  /\ recent = {}
  /\ handler = [h \in Handlers |-> Idle]
  /\ faults = 0

At(h, pc) == handler[h].pc = pc
Finish(h) == handler' = [handler EXCEPT ![h] = Idle]
Go(h, pc, i, seen) == handler' = [handler EXCEPT ![h] = [pc |-> pc, invoice |-> i, seen |-> seen]]

\* _process_payment_payload commits the row with the payment (_invoice_record keeps
\* an existing one) and goes on to its receipt.
Book(h) == \E i \in Invoices :
  /\ At(h, "idle")
  /\ row' = [row EXCEPT ![i].status = IF @ = "none" THEN "creating" ELSE @]
  /\ Go(h, "ensure", i, "none")
  /\ UNCHANGED <<remote, posted, recent, faults>>

\* _sync_receipts takes the open rows one after the other.
SyncReceipt(h, i) ==
  /\ At(h, "idle") /\ row[i].status \in OpenInvoice
  /\ Go(h, "ensure", i, "none")
  /\ UNCHANGED <<row, remote, posted, recent, faults>>

\* (Mutant) No recovery scan.
CreateAtOnce(h) ==
  /\ At(h, "ensure")
  /\ Go(h, "missing", handler[h].invoice, "none")
  /\ UNCHANGED <<row, remote, posted, recent, faults>>

\* GET of the bound invoice, or the scan of Mollie's list for the row's reference.
LookUp(h) ==
  LET i == handler[h].invoice IN
  /\ At(h, "ensure")
  /\ IF remote[i] = "none" THEN Go(h, "missing", i, "none") ELSE Go(h, "answered", i, remote[i])
  /\ UNCHANGED <<row, remote, posted, recent, faults>>

\* _create_remote_receipt: a remembered idempotency key returns the first invoice.
CreateRemote(h) ==
  LET i == handler[h].invoice IN
  /\ At(h, "missing")
  /\ IF i \in recent
     THEN UNCHANGED <<remote, posted>>
     ELSE /\ remote' = [remote EXCEPT ![i] = IF @ = "none" THEN "issued" ELSE @]
          /\ posted' = [posted EXCEPT ![i] = @ + 1]
  /\ recent' = recent \cup {i}
  /\ \/ Go(h, "answered", i, remote'[i]) /\ UNCHANGED faults
     \/ faults < MaxFaults /\ faults' = faults + 1 /\ Finish(h)   \* the answer is lost
  /\ UNCHANGED row

\* _apply_invoice_payload under the row's lock: the status read before, however old.
Apply(h) ==
  LET i == handler[h].invoice IN
  /\ At(h, "answered")
  /\ row' = [row EXCEPT ![i] = [status |-> handler[h].seen, bound |-> TRUE]]
  /\ Finish(h)
  /\ UNCHANGED <<remote, posted, recent, faults>>

\* A signed event: the invoice is read from Mollie first; the row is found by its
\* binding, or by the reference while it is "creating" and unbound.
InvoiceEvent(h, i) ==
  /\ At(h, "idle") /\ remote[i] # "none"
  /\ Go(h, "event", i, remote[i])
  /\ UNCHANGED <<row, remote, posted, recent, faults>>

ApplyEvent(h) ==
  LET i == handler[h].invoice IN
  /\ At(h, "event")
  /\ IF row[i].bound \/ row[i].status = "creating"
     THEN row' = [row EXCEPT ![i] = [status |-> handler[h].seen, bound |-> TRUE]]
     ELSE UNCHANGED row
  /\ Finish(h)
  /\ UNCHANGED <<remote, posted, recent, faults>>

\* A provider error (noted in the row, the receipt is deferred) or a crash.
Fail(h) ==
  /\ ~At(h, "idle") /\ faults < MaxFaults
  /\ faults' = faults + 1
  /\ Finish(h)
  /\ UNCHANGED <<row, remote, posted, recent>>

\* Mollie's side: the invoice is settled, and keys are forgotten once every call
\* that was under way with them is over.
SettleRemote(i) ==
  /\ remote[i] = "issued"
  /\ remote' = [remote EXCEPT ![i] = "paid"]
  /\ UNCHANGED <<row, posted, recent, handler, faults>>

ForgetKey(i) ==
  /\ i \in recent /\ \A h \in Handlers : handler[h].invoice # i
  /\ recent' = recent \ {i}
  /\ UNCHANGED <<row, remote, posted, handler, faults>>

Proceed(h) == LookUp(h) \/ CreateRemote(h) \/ Apply(h) \/ ApplyEvent(h)

Next ==
  \/ \E h \in Handlers : Book(h) \/ Proceed(h) \/ Fail(h)
  \/ \E h \in Handlers, i \in Invoices : SyncReceipt(h, i) \/ InvoiceEvent(h, i)
  \/ \E i \in Invoices : SettleRemote(i) \/ ForgetKey(i)

\* Requests and jobs run on; worker.enqueue_billing_syncs keeps visiting every open
\* row; Mollie settles what it issued.  Nobody promises a webhook.
Fairness ==
  /\ \A h \in Handlers : WF_vars(Proceed(h))
  /\ \A i \in Invoices : SF_vars(\E h \in Handlers : SyncReceipt(h, i)) /\ WF_vars(SettleRemote(i))

Spec == Init /\ [][Next]_vars /\ Fairness

-----------------------------------------------------------------------------
(* Properties *)

\* Shapes; a bound row has its invoice at Mollie.
TypeOK ==
  /\ row \in [Invoices -> [status : {"none", "creating", "issued", "paid"}, bound : BOOLEAN]]
  /\ remote \in [Invoices -> {"none", "issued", "paid"}]
  /\ posted \in [Invoices -> Nat]
  /\ recent \subseteq Invoices
  /\ handler \in [Handlers -> [pc : {"idle", "ensure", "missing", "answered", "event"},
                               invoice : Invoices \cup {"none"}, seen : {"none", "issued", "paid"}]]
  /\ faults \in 0 .. MaxFaults
  /\ \A i \in Invoices : row[i].bound => remote[i] # "none"

\* A customer gets one receipt for a payment, although handlers look and create
\* without a lock, answers are lost and Mollie forgets idempotency keys.
OneReceiptPerPayment ==
  \A i \in Invoices : /\ posted[i] <= 1
                      /\ posted[i] > 0 => row[i].status # "none"

\* Every booked payment gets its receipt and the row learns that it is settled,
\* even after lost answers, crashes and old answers written over newer ones.
ReceiptSettles == \A i \in Invoices : (row[i].status # "none") ~> [](row[i].status = "paid")
=============================================================================
