--------------------- MODULE PaymentReconciliationProofs ---------------------
(***************************************************************************)
(* What PaymentReconciliation guarantees for every number of participants,   *)
(* checkouts, bank transactions and concurrent requests.                     *)
(***************************************************************************)
EXTENDS PaymentReconciliation, TLAPS

\* The rows a statement brings are not stored before it commits.
RowsAreNew == \A t \in statement.rows : tx[t] = "absent"

\* What a webhook request was told about a payment can be old but was true: a final
\* status stays final.
ToldTheTruth ==
  \A h \in Handlers : handler[h].pc = "fetched" =>
    LET a == handler[h].attempt IN
      /\ handler[h].status = "paid" => provider[a] = "paid"
      /\ handler[h].status \notin Payable => provider[a] \notin Payable

PayableNow(a) == a \in handed /\ attempt[a].fresh /\ provider[a] \in Payable

\* A checkout that can still be paid is recorded as such.
RecordedPayable == \A a \in Attempts : PayableNow(a) => attempt[a].status \in Payable

\* Only a stored attempt's URL is handed out.
HandedIsStored == \A a \in handed : attempt[a].status # "none"

\* The person's lock covers the whole creation: until it ends nothing of the new
\* attempt is visible and no other checkout of the person can be paid.
CreatedUnderLock ==
  \A p \in People : Locked(p) =>
    /\ OwnerOf[checkout[p]] = p
    /\ attempt[checkout[p]].status = "none"
    /\ provider[checkout[p]] = "none"
    /\ \A a \in Attempts : OwnerOf[a] = p => ~PayableNow(a)

LedgerInv == PaidIffRecorded /\ MatchedIffBooked /\ RowsAreNew /\ OneBankPaymentEach
CheckoutInv ==
  RecordedPayable /\ HandedIsStored /\ CreatedUnderLock /\ OneOpenCheckout
IInv == TypeOK /\ LedgerInv /\ CheckoutInv /\ ToldTheTruth /\ BookedOnce

-----------------------------------------------------------------------------
(* Type correctness *)

AttemptRow == [status : ProviderStatus \cup {"none", "failed"}, fresh : BOOLEAN]
Request == [pc : {"idle", "asking", "fetched"}, attempt : Attempts \cup {Nothing},
            status : ProviderStatus]

\* Changing one column of an attempt's row leaves the other.
LEMMA AttemptColumns ==
  ASSUME NEW r \in AttemptRow, NEW s \in ProviderStatus \cup {"none", "failed"},
         NEW b \in BOOLEAN
  PROVE  /\ [r EXCEPT !.status = s] = [status |-> s, fresh |-> r.fresh]
         /\ [r EXCEPT !.fresh = b] = [status |-> r.status, fresh |-> b]
  BY DEF AttemptRow

\* What a request learns from Mollie does not change which attempt it is about.
LEMMA RequestColumns ==
  ASSUME NEW r \in Request, NEW s \in ProviderStatus
  PROVE  [r EXCEPT !.pc = "fetched", !.status = s]
           = [pc |-> "fetched", attempt |-> r.attempt, status |-> s]
<1> DEFINE asked == [pc |-> "fetched", attempt |-> r.attempt, status |-> r.status]
<1>1. [r EXCEPT !.pc = "fetched"] = asked
  BY DEF Request
<1>2. [asked EXCEPT !.status = s] = [pc |-> "fetched", attempt |-> r.attempt, status |-> s]
  OBVIOUS
<1>3. [r EXCEPT !.pc = "fetched", !.status = s] = [[r EXCEPT !.pc = "fetched"] EXCEPT !.status = s]
  OBVIOUS
<1> QED
  BY <1>1, <1>2, <1>3

\* Every step keeps the type invariant.
LEMMA TypeStep ==
  ASSUME TypeOK, [Next]_vars
  PROVE  TypeOK'
<1>1. ASSUME NEW a \in Attempts, StartCheckout(a) PROVE TypeOK'
  BY <1>1, ReconciliationAssumption DEF StartCheckout, TypeOK
<1>2. ASSUME NEW a \in Attempts, Age(a) PROVE TypeOK'
  <2>1. attempt' = [attempt EXCEPT ![a] = [status |-> attempt[a].status, fresh |-> FALSE]]
    BY <1>2, attempt[a] \in AttemptRow, AttemptColumns DEF Age, TypeOK, AttemptRow
  <2>2. attempt' \in [Attempts -> AttemptRow]
    BY <2>1 DEF TypeOK, AttemptRow
  <2> QED
    BY <1>2, <2>2 DEF Age, TypeOK, AttemptRow
<1>3. ASSUME NEW p \in People, FinishCheckout(p) PROVE TypeOK'
  BY <1>3 DEF FinishCheckout, TypeOK, Locked, ProviderStatus, Payable
<1>4. ASSUME NEW p \in People, NEW recorded \in BOOLEAN, NEW created \in BOOLEAN, FailCheckout(p, recorded, created) PROVE TypeOK'
  <2> DEFINE a == checkout[p]
  <2>1. a \in Attempts
    BY <1>4, ReconciliationAssumption DEF FailCheckout, Locked, TypeOK
  <2>2. attempt' \in [Attempts -> AttemptRow]
    <3>1. attempt[a] \in AttemptRow
      BY <2>1 DEF TypeOK, AttemptRow
    <3>2. attempt' = IF recorded
                     THEN [attempt EXCEPT ![a] = [status |-> "failed", fresh |-> attempt[a].fresh]]
                     ELSE attempt
      BY <1>4, <2>1, <3>1, AttemptColumns DEF FailCheckout, TypeOK
    <3> QED
      BY <2>1, <3>1, <3>2 DEF TypeOK, AttemptRow
  <2>3. provider' \in [Attempts -> ProviderStatus \cup {"none"}]
    BY <1>4, <2>1 DEF FailCheckout, TypeOK, ProviderStatus, Payable
  <2>4. \A b \in Attempts : provider[b] # "none" => provider'[b] # "none"
    BY <1>4, <2>1 DEF FailCheckout, TypeOK
  <2>5. checkout' \in [People -> Attempts \cup {Nothing}] /\ faults' \in 0..MaxFaults
    BY <1>4, ReconciliationAssumption DEF FailCheckout, TypeOK
  <2> QED
    BY <1>4, <2>2, <2>3, <2>4, <2>5 DEF FailCheckout, TypeOK, AttemptRow
<1>5. ASSUME NEW a \in Attempts, NEW status \in ProviderStatus, ProviderChanges(a, status) PROVE TypeOK'
  BY <1>5 DEF ProviderChanges, TypeOK, ProviderStatus, Payable
<1>6. ASSUME NEW h \in Handlers, NEW a \in Attempts, ReceiveCall(h, a) PROVE TypeOK'
  <2>1. handler' \in [Handlers -> Request]
    BY <1>6 DEF ReceiveCall, TypeOK, Request, ProviderStatus, Payable
  <2>2. provider[a] # "none"
    BY <1>6 DEF ReceiveCall, TypeOK
  <2>3. \A g \in Handlers : handler'[g].pc # "idle" =>
           handler'[g].attempt \in Attempts /\ provider'[handler'[g].attempt] # "none"
    BY <1>6, <2>2 DEF ReceiveCall, TypeOK
  <2>4. calls' \in [Attempts -> Nat]
    BY <1>6 DEF ReceiveCall, TypeOK
  <2> QED
    BY <1>6, <2>1, <2>3, <2>4 DEF ReceiveCall, TypeOK, Request
<1>7. ASSUME NEW h \in Handlers, FetchPayment(h) PROVE TypeOK'
  <2>1. provider[handler[h].attempt] \in ProviderStatus
    BY <1>7 DEF FetchPayment, TypeOK
  <2>2. handler' = [handler EXCEPT ![h] = [pc |-> "fetched", attempt |-> handler[h].attempt,
                                           status |-> provider[handler[h].attempt]]]
    BY <1>7, <2>1, handler[h] \in Request, RequestColumns DEF FetchPayment, TypeOK, Request
  <2>3. handler' \in [Handlers -> Request]
    BY <2>1, <2>2 DEF TypeOK, Request
  <2>4. \A g \in Handlers : handler'[g].pc # "idle" =>
           handler'[g].attempt \in Attempts /\ provider'[handler'[g].attempt] # "none"
    BY <1>7, <2>2 DEF FetchPayment, TypeOK
  <2> QED
    BY <1>7, <2>3, <2>4 DEF FetchPayment, TypeOK, Request
<1>8. ASSUME NEW h \in Handlers, NEW answered \in BOOLEAN, ApplyPayment(h, answered) PROVE TypeOK'
  <2> DEFINE a == handler[h].attempt
  <2>1. a \in Attempts /\ OwnerOf[a] \in People /\ handler[h].status \in ProviderStatus
    BY <1>8, ReconciliationAssumption DEF ApplyPayment, TypeOK
  <2>2. attempt' = [attempt EXCEPT ![a] = [status |-> handler[h].status,
                                           fresh |-> attempt[a].fresh]]
    BY <1>8, <2>1, attempt[a] \in AttemptRow, AttemptColumns DEF ApplyPayment, TypeOK, AttemptRow
  <2>3. attempt' \in [Attempts -> AttemptRow]
    BY <2>1, <2>2 DEF TypeOK, AttemptRow
  <2>4. online' \in [Attempts -> Nat] /\ paid' \in SUBSET People
    <3>1. CASE handler[h].status = "paid"
      BY SMTT(30), <1>8, <2>1, <3>1 DEF ApplyPayment, Book, TypeOK
    <3>2. CASE handler[h].status # "paid"
      BY <1>8, <3>2 DEF ApplyPayment, TypeOK
    <3> QED
      BY <3>1, <3>2
  <2>5. calls' \in [Attempts -> Nat] /\ faults' \in 0..MaxFaults
    BY <1>8, <2>1, ReconciliationAssumption DEF ApplyPayment, TypeOK
  <2>6. handler' \in [Handlers -> Request]
    BY <1>8 DEF ApplyPayment, TypeOK, Request, IdleHandler, ProviderStatus, Payable
  <2>7. \A g \in Handlers : handler'[g].pc # "idle" => handler'[g] = handler[g]
    BY <1>8 DEF ApplyPayment, TypeOK, IdleHandler
  <2> QED
    BY <1>8, <2>3, <2>4, <2>5, <2>6, <2>7 DEF ApplyPayment, TypeOK, AttemptRow, Request
<1>9. ASSUME NEW h \in Handlers, FailCall(h) PROVE TypeOK'
  BY <1>9, ReconciliationAssumption DEF FailCall, TypeOK, IdleHandler, ProviderStatus, Payable
<1>10. ASSUME NEW rows \in SUBSET Transactions, ReadTargets(rows) PROVE TypeOK'
  BY <1>10 DEF ReadTargets, TypeOK
<1>11. ASSUME NEW chosen \in SUBSET Transactions, CommitStatement(chosen) PROVE TypeOK'
  <2>1. \A t \in MatchedNow(chosen) : RefersTo[t] \in People
    BY <1>11 DEF CommitStatement, MatchedNow, TypeOK
  <2>2. bank' \in [Transactions -> People \cup {Nothing}]
    BY <1>11, <2>1 DEF CommitStatement, TypeOK
  <2>3. paid' \in SUBSET People
    BY <1>11, <2>1 DEF CommitStatement, TypeOK
  <2>4. tx' \in [Transactions -> {"absent", "review", "auto_matched", "matched", "ignored"}]
    BY <1>11 DEF CommitStatement, TypeOK
  <2> QED
    BY <1>11, <2>2, <2>3, <2>4 DEF CommitStatement, TypeOK, NoStatement
<1>12. ASSUME SkipSync PROVE TypeOK'
  BY <1>12 DEF SkipSync, TypeOK, NoStatement
<1>13. ASSUME LoseStatement PROVE TypeOK'
  BY <1>13, ReconciliationAssumption DEF LoseStatement, TypeOK, NoStatement
<1>14. ASSUME NEW t \in Transactions, IgnoreTransaction(t) PROVE TypeOK'
  BY <1>14 DEF IgnoreTransaction, TypeOK
<1>15. ASSUME NEW t \in Transactions, NEW p \in People, ConfirmMatch(t, p) PROVE TypeOK'
  BY <1>15 DEF ConfirmMatch, TypeOK
<1>16. ASSUME NEW p \in People, MarkPaid(p) PROVE TypeOK'
  BY <1>16 DEF MarkPaid, TypeOK
<1>17. ASSUME NEW p \in People, MarkOpen(p) PROVE TypeOK'
  BY <1>17 DEF MarkOpen, TypeOK
<1>18. ASSUME UNCHANGED vars PROVE TypeOK'
  BY <1>18 DEF vars, TypeOK
<1> QED
  BY <1>1, <1>2, <1>3, <1>4, <1>5, <1>6, <1>7, <1>8, <1>9, <1>10, <1>11, <1>12, <1>13, <1>14, <1>15, <1>16, <1>17, <1>18 DEF Next, Checkout, Webhook
-----------------------------------------------------------------------------
(* The ledger: who is paid, and which payments say so *)

LedgerVars == <<paid, manual, online, bank, statement, tx>>

\* Every step keeps the ledger consistent.  What is inductive is that a participant is
\* paid exactly when a payment is recorded: it lets a statement that read its targets
\* earlier trust the status it reads under the lock.
LEMMA LedgerStep ==
  ASSUME TypeOK, LedgerInv, [Next]_vars
  PROVE  LedgerInv'
<1> USE DEF LedgerInv
<1>1. CASE UNCHANGED LedgerVars
  BY <1>1 DEF LedgerVars, PaidIffRecorded, OnlinePaid, BankPaid, MatchedIffBooked, RowsAreNew,
              OneBankPaymentEach
<1>2. ASSUME NEW h \in Handlers, NEW answered \in BOOLEAN, ApplyPayment(h, answered)
      PROVE  LedgerInv'
  <2> DEFINE a == handler[h].attempt
  <2>1. a \in Attempts /\ OwnerOf[a] \in People
    BY <1>2, ReconciliationAssumption DEF ApplyPayment, TypeOK
  <2>2. UNCHANGED <<manual, bank, statement, tx>>
    BY <1>2 DEF ApplyPayment
  <2>3. CASE handler[h].status = "paid"
    <3>1. paid' = paid \cup {OwnerOf[a]}
      BY <1>2, <2>3 DEF ApplyPayment
    <3>2. /\ online'[a] > 0
          /\ \A b \in Attempts : online[b] > 0 => online'[b] > 0
          /\ \A b \in Attempts : b # a => online'[b] = online[b]
      BY <1>2, <2>1, <2>3 DEF ApplyPayment, Book, TypeOK
    <3>3. PaidIffRecorded'
      BY <2>1, <2>2, <3>1, <3>2 DEF PaidIffRecorded, OnlinePaid, BankPaid, TypeOK
    <3> QED
      BY <2>2, <3>3 DEF MatchedIffBooked, RowsAreNew, OneBankPaymentEach
  <2>4. CASE handler[h].status # "paid"
    BY <1>1, <1>2, <2>4 DEF ApplyPayment, LedgerVars
  <2> QED
    BY <2>3, <2>4
<1>3. ASSUME NEW rows \in SUBSET Transactions, ReadTargets(rows)
      PROVE  LedgerInv'
  BY <1>3 DEF ReadTargets, PaidIffRecorded, OnlinePaid, BankPaid, MatchedIffBooked, RowsAreNew,
              OneBankPaymentEach
<1>4. ASSUME NEW chosen \in SUBSET Transactions, CommitStatement(chosen)
      PROVE  LedgerInv'
  <2> DEFINE matched == MatchedNow(chosen)
  <2>1. /\ matched \subseteq statement.rows /\ statement.rows \subseteq Transactions
        /\ \A t \in matched : RefersTo[t] \in People \ paid
        /\ \A t, u \in matched : RefersTo[t] = RefersTo[u] => t = u
    BY <1>4 DEF CommitStatement, MatchedNow, TypeOK
  <2>2. /\ \A t \in Transactions : bank'[t] = IF t \in matched THEN RefersTo[t] ELSE bank[t]
        /\ paid' = paid \cup {RefersTo[t] : t \in matched}
        /\ \A t \in Transactions : tx'[t] = IF t \in matched THEN "auto_matched"
                                            ELSE IF t \in statement.rows THEN "review" ELSE tx[t]
        /\ statement' = NoStatement
        /\ UNCHANGED <<manual, online>>
    BY <1>4 DEF CommitStatement
  <2>3. \A t \in statement.rows : bank[t] = Nothing
    BY <2>1 DEF RowsAreNew, MatchedIffBooked
  <2>4. PaidIffRecorded'
    BY <2>1, <2>2, <2>3, ReconciliationAssumption DEF PaidIffRecorded, OnlinePaid, BankPaid
  <2>5. MatchedIffBooked'
    BY <2>1, <2>2, <2>3, ReconciliationAssumption DEF MatchedIffBooked
  <2>6. OneBankPaymentEach'
    <3> SUFFICES ASSUME NEW t \in Transactions, NEW u \in Transactions,
                        bank'[t] # Nothing, bank'[t] = bank'[u]
                 PROVE  t = u
      BY DEF OneBankPaymentEach
    <3>1. CASE t \in matched /\ u \in matched
      BY <2>1, <2>2, <3>1
    <3>2. CASE t \notin matched /\ u \notin matched
      BY <2>2, <3>2 DEF OneBankPaymentEach
    <3>3. ASSUME NEW v \in matched, NEW w \in Transactions \ matched, bank'[v] = bank'[w]
          PROVE  FALSE
      BY <2>1, <2>2, <3>3 DEF PaidIffRecorded, BankPaid
    <3> QED
      BY <3>1, <3>2, <3>3
  <2>7. RowsAreNew'
    BY <2>2 DEF RowsAreNew, NoStatement
  <2> QED
    BY <2>4, <2>5, <2>6, <2>7
<1>5. CASE SkipSync \/ LoseStatement
  BY <1>5 DEF SkipSync, LoseStatement, NoStatement, PaidIffRecorded, OnlinePaid, BankPaid,
              MatchedIffBooked, RowsAreNew, OneBankPaymentEach
<1>6. ASSUME NEW t \in Transactions, IgnoreTransaction(t)
      PROVE  LedgerInv'
  BY <1>6 DEF IgnoreTransaction, TypeOK, PaidIffRecorded, OnlinePaid, BankPaid,
              MatchedIffBooked, RowsAreNew, OneBankPaymentEach
<1>7. ASSUME NEW t \in Transactions, NEW p \in People, ConfirmMatch(t, p)
      PROVE  LedgerInv'
  <2>1. PaidIffRecorded'
    BY <1>7, ReconciliationAssumption DEF ConfirmMatch, TypeOK, PaidIffRecorded, OnlinePaid, BankPaid
  <2>2. MatchedIffBooked' /\ RowsAreNew'
    BY <1>7, ReconciliationAssumption DEF ConfirmMatch, TypeOK, MatchedIffBooked, RowsAreNew
  <2>3. OneBankPaymentEach'
    BY <1>7 DEF ConfirmMatch, TypeOK, OneBankPaymentEach, PaidIffRecorded, BankPaid
  <2> QED
    BY <2>1, <2>2, <2>3
<1>8. ASSUME NEW p \in People, MarkPaid(p) \/ MarkOpen(p)
      PROVE  LedgerInv'
  <2>1. PaidIffRecorded'
    BY <1>8 DEF MarkPaid, MarkOpen, OnlyManual, TypeOK, PaidIffRecorded, OnlinePaid, BankPaid
  <2> QED
    BY <1>8, <2>1 DEF MarkPaid, MarkOpen, MatchedIffBooked, RowsAreNew, OneBankPaymentEach
<1> QED
  BY <1>1, <1>2, <1>3, <1>4, <1>5, <1>6, <1>7, <1>8
  DEF Next, Checkout, Webhook, vars, LedgerVars, StartCheckout, Age, FinishCheckout,
      FailCheckout, ProviderChanges, ReceiveCall, FetchPayment, FailCall

-----------------------------------------------------------------------------
(* Booking what Mollie reports *)

\* Mollie's statuses only advance, and a new attempt has none.
LEMMA ProviderAdvances ==
  ASSUME TypeOK, CreatedUnderLock, [Next]_vars, NEW a \in Attempts
  PROVE  /\ provider[a] = "paid" => provider'[a] = "paid"
         /\ provider[a] \notin Payable \cup {"none"} => provider'[a] = provider[a]
<1>1. CASE UNCHANGED provider
  BY <1>1
<1>2. ASSUME NEW p \in People, FinishCheckout(p) \/ \E recorded, created \in BOOLEAN :
                                                      FailCheckout(p, recorded, created)
      PROVE  /\ provider[a] = "paid" => provider'[a] = "paid"
             /\ provider[a] \notin Payable \cup {"none"} => provider'[a] = provider[a]
  BY <1>2 DEF FinishCheckout, FailCheckout, CreatedUnderLock, TypeOK, Payable
<1>3. ASSUME NEW b \in Attempts, NEW status \in ProviderStatus, ProviderChanges(b, status)
      PROVE  /\ provider[a] = "paid" => provider'[a] = "paid"
             /\ provider[a] \notin Payable \cup {"none"} => provider'[a] = provider[a]
  BY <1>3 DEF ProviderChanges, TypeOK, Payable
<1> QED
  BY <1>1, <1>2, <1>3
  DEF Next, Checkout, Webhook, vars, StartCheckout, Age, ReceiveCall, FetchPayment, ApplyPayment,
      FailCall, ReadTargets, CommitStatement, SkipSync, LoseStatement, IgnoreTransaction,
      ConfirmMatch, MarkPaid, MarkOpen

\* Every step leaves the requests with true, if old, answers.
LEMMA TruthStep ==
  ASSUME TypeOK, CreatedUnderLock, ToldTheTruth, [Next]_vars
  PROVE  ToldTheTruth'
<1> SUFFICES ASSUME NEW h \in Handlers, handler'[h].pc = "fetched"
             PROVE  LET a == handler'[h].attempt IN
                      /\ handler'[h].status = "paid" => provider'[a] = "paid"
                      /\ handler'[h].status \notin Payable => provider'[a] \notin Payable
  BY DEF ToldTheTruth
<1>1. CASE handler'[h] = handler[h]
  <2>1. handler[h].attempt \in Attempts /\ provider[handler[h].attempt] # "none"
    BY <1>1 DEF TypeOK
  <2> QED
    BY <1>1, <2>1, ProviderAdvances DEF ToldTheTruth
<1>2. CASE FetchPayment(h)
  BY <1>2 DEF FetchPayment, TypeOK
<1>3. handler'[h] = handler[h] \/ FetchPayment(h)
  <2>1. ASSUME NEW g \in Handlers, g # h, FetchPayment(g) PROVE handler'[h] = handler[h]
    BY <2>1 DEF FetchPayment, TypeOK
  <2>2. ASSUME NEW g \in Handlers, NEW a \in Attempts, ReceiveCall(g, a)
        PROVE  handler'[h] = handler[h]
    BY <2>2 DEF ReceiveCall, TypeOK
  <2>3. ASSUME NEW g \in Handlers, FailCall(g) \/ \E answered \in BOOLEAN : ApplyPayment(g, answered)
        PROVE  handler'[h] = handler[h]
    BY <2>3 DEF FailCall, ApplyPayment, TypeOK, IdleHandler
  <2> QED
    BY <2>1, <2>2, <2>3
    DEF Next, Checkout, Webhook, vars, StartCheckout, Age, FinishCheckout, FailCheckout,
        ProviderChanges, ReadTargets, CommitStatement, SkipSync, LoseStatement,
        IgnoreTransaction, ConfirmMatch, MarkPaid, MarkOpen
<1> QED
  BY <1>1, <1>2, <1>3

\* Every step books at most once, and only what is paid.
LEMMA BookingStep ==
  ASSUME TypeOK, LedgerInv, CreatedUnderLock, ToldTheTruth, BookedOnce, [Next]_vars
  PROVE  BookedOnce'
<1>1. \A a \in Attempts : online'[a] <= 1 /\ (online'[a] = 1 => provider'[a] = "paid")
  <2> SUFFICES ASSUME NEW a \in Attempts
               PROVE  online'[a] <= 1 /\ (online'[a] = 1 => provider'[a] = "paid")
    OBVIOUS
  <2>1. CASE online'[a] = online[a]
    BY <2>1, ProviderAdvances DEF BookedOnce
  <2>2. ASSUME NEW h \in Handlers, NEW answered \in BOOLEAN, ApplyPayment(h, answered),
               online'[a] # online[a]
        PROVE  online'[a] = 1 /\ provider'[a] = "paid"
    BY <2>2 DEF ApplyPayment, Book, TypeOK, ToldTheTruth
  <2>3. \/ UNCHANGED online
        \/ \E h \in Handlers, answered \in BOOLEAN : ApplyPayment(h, answered)
    BY DEF Next, Checkout, Webhook, vars, StartCheckout, Age, FinishCheckout, FailCheckout,
           ProviderChanges, ReceiveCall, FetchPayment, FailCall, ReadTargets, CommitStatement,
           SkipSync, LoseStatement, IgnoreTransaction, ConfirmMatch, MarkPaid, MarkOpen
  <2> QED
    BY <2>1, <2>2, <2>3
<1>2. \A p \in People : manual'[p] <= 1
  <2>1. ASSUME NEW p \in People, MarkPaid(p) PROVE \A q \in People : manual'[q] <= 1
    BY <2>1 DEF MarkPaid, BookedOnce, LedgerInv, PaidIffRecorded, TypeOK
  <2>2. ASSUME NEW p \in People, MarkOpen(p) PROVE \A q \in People : manual'[q] <= 1
    BY <2>2 DEF MarkOpen, BookedOnce, TypeOK
  <2>3. ASSUME UNCHANGED manual PROVE \A q \in People : manual'[q] <= 1
    BY <2>3 DEF BookedOnce
  <2> QED
    BY <2>1, <2>2, <2>3
    DEF Next, Checkout, Webhook, vars, StartCheckout, Age, FinishCheckout, FailCheckout,
        ProviderChanges, ReceiveCall, FetchPayment, ApplyPayment, FailCall, ReadTargets,
        CommitStatement, SkipSync, LoseStatement, IgnoreTransaction, ConfirmMatch
<1> QED
  BY <1>1, <1>2 DEF BookedOnce

-----------------------------------------------------------------------------
(* One open checkout *)

CheckoutVars == <<handed, attempt, provider, checkout>>

\* Every step hands out stored attempts only.
LEMMA HandedStep ==
  ASSUME TypeOK, HandedIsStored, [Next]_vars
  PROVE  HandedIsStored'
<1>1. CASE UNCHANGED CheckoutVars
  BY <1>1 DEF CheckoutVars, HandedIsStored
<1>2. ASSUME NEW a \in Attempts, StartCheckout(a) \/ Age(a)
      PROVE  HandedIsStored'
  BY <1>2 DEF StartCheckout, Age, HandedIsStored, TypeOK
<1>3. ASSUME NEW p \in People, FinishCheckout(p)
      PROVE  HandedIsStored'
  BY <1>3 DEF FinishCheckout, HandedIsStored, Locked, TypeOK
<1>4. ASSUME NEW p \in People, NEW recorded \in BOOLEAN, NEW created \in BOOLEAN,
             FailCheckout(p, recorded, created)
      PROVE  HandedIsStored'
  BY <1>4 DEF FailCheckout, HandedIsStored, Locked, TypeOK
<1>5. ASSUME NEW h \in Handlers, NEW answered \in BOOLEAN, ApplyPayment(h, answered)
      PROVE  HandedIsStored'
  BY SMTT(30), <1>5 DEF ApplyPayment, HandedIsStored, TypeOK, ProviderStatus, Payable
<1>6. ASSUME NEW a \in Attempts, NEW status \in ProviderStatus, ProviderChanges(a, status)
      PROVE  HandedIsStored'
  BY <1>6 DEF ProviderChanges, HandedIsStored
<1> QED
  BY <1>1, <1>2, <1>3, <1>4, <1>5, <1>6
  DEF Next, Checkout, Webhook, vars, CheckoutVars, ReceiveCall, FetchPayment, FailCall,
      ReadTargets, CommitStatement, SkipSync, LoseStatement, IgnoreTransaction, ConfirmMatch,
      MarkPaid, MarkOpen

\* Every step keeps a participant to one checkout that can still be paid.
LEMMA CheckoutStep ==
  ASSUME TypeOK, ToldTheTruth, CheckoutInv, [Next]_vars
  PROVE  CheckoutInv'
<1> USE DEF CheckoutInv
<1>0. \A a, b \in Attempts : OwnerOf[a] = OwnerOf[b] /\ PayableNow(a) /\ PayableNow(b) => a = b
  BY DEF OneOpenCheckout, PayableNow, TypeOK
<1>a. handed' \subseteq Attempts
  <2>1. TypeOK'
    BY TypeStep
  <2> QED
    BY <2>1 DEF TypeOK
<1>c. HandedIsStored'
  BY HandedStep
<1>b. ASSUME \A a \in Attempts : PayableNow(a)' => PayableNow(a)
      PROVE  OneOpenCheckout'
  BY <1>a, <1>b DEF OneOpenCheckout, PayableNow
<1>1. CASE UNCHANGED CheckoutVars
  BY <1>c, <1>1 DEF CheckoutVars, RecordedPayable, CreatedUnderLock, OneOpenCheckout, PayableNow,
                    Locked
<1>2. ASSUME NEW a \in Attempts, StartCheckout(a)
      PROVE  CheckoutInv'
  <2>1. \A b \in Attempts : OwnerOf[b] = OwnerOf[a] => ~PayableNow(b)
    BY <1>2, <1>0 DEF StartCheckout, Reusable, RecordedPayable, PayableNow
  <2>2. \A b \in Attempts : PayableNow(b)' <=> PayableNow(b)
    BY <1>2 DEF StartCheckout, PayableNow
  <2>3. OwnerOf[a] \in People
    BY ReconciliationAssumption
  <2>4. CreatedUnderLock'
    BY <1>2, <2>1, <2>2, <2>3 DEF StartCheckout, CreatedUnderLock, Locked, TypeOK
  <2> QED
    BY <1>2, <1>b, <1>c, <2>2, <2>4 DEF StartCheckout, RecordedPayable
<1>3. ASSUME NEW a \in Attempts, Age(a)
      PROVE  CheckoutInv'
  <2>1. \A b \in Attempts : /\ PayableNow(b)' => PayableNow(b)
                            /\ attempt'[b].status = attempt[b].status
    BY <1>3 DEF Age, PayableNow, TypeOK
  <2> QED
    BY <1>3, <1>b, <1>c, <2>1, ReconciliationAssumption
    DEF Age, RecordedPayable, CreatedUnderLock, Locked, TypeOK
<1>4. ASSUME NEW p \in People, FinishCheckout(p)
      PROVE  CheckoutInv'
  <2> DEFINE a == checkout[p]
  <2>1. a \in Attempts /\ OwnerOf[a] = p /\ \A b \in Attempts : OwnerOf[b] = p => ~PayableNow(b)
    BY <1>4, ReconciliationAssumption DEF FinishCheckout, CreatedUnderLock, Locked, TypeOK
  <2>2. /\ \A b \in Attempts : b # a => (PayableNow(b)' <=> PayableNow(b))
                                        /\ attempt'[b] = attempt[b]
        /\ attempt'[a].status = "open"
    BY <1>4, <2>1 DEF FinishCheckout, PayableNow, TypeOK
  <2>3. RecordedPayable'
    BY <2>2 DEF RecordedPayable, Payable
  <2>4. CreatedUnderLock'
    <3> SUFFICES ASSUME NEW q \in People, checkout'[q] # Nothing
                 PROVE  /\ OwnerOf[checkout'[q]] = q
                        /\ attempt'[checkout'[q]].status = "none"
                        /\ provider'[checkout'[q]] = "none"
                        /\ \A b \in Attempts : OwnerOf[b] = q => ~PayableNow(b)'
      BY DEF CreatedUnderLock, Locked, PayableNow
    <3>1. q # p /\ checkout'[q] = checkout[q]
      BY <1>4 DEF FinishCheckout, TypeOK
    <3>2. /\ OwnerOf[checkout[q]] = q /\ attempt[checkout[q]].status = "none"
          /\ provider[checkout[q]] = "none"
          /\ checkout[q] \in Attempts
          /\ \A b \in Attempts : OwnerOf[b] = q => ~PayableNow(b)
      BY <3>1 DEF CreatedUnderLock, Locked, TypeOK
    <3> QED
      BY <1>4, <2>1, <2>2, <3>1, <3>2 DEF FinishCheckout, TypeOK
  <2>5. OneOpenCheckout'
    BY <1>a, <2>1, <2>2 DEF OneOpenCheckout, PayableNow
  <2> QED
    BY <1>c, <2>3, <2>4, <2>5
<1>5. ASSUME NEW p \in People, NEW recorded \in BOOLEAN, NEW created \in BOOLEAN,
             FailCheckout(p, recorded, created)
      PROVE  CheckoutInv'
  <2>0. PICK a \in Attempts : a = checkout[p]
    BY <1>5 DEF FailCheckout, Locked, TypeOK
  <2>1. OwnerOf[a] = p /\ \A b \in Attempts : OwnerOf[b] = p => ~PayableNow(b)
    BY <1>5, <2>0 DEF FailCheckout, CreatedUnderLock
  <2>2. \A b \in Attempts : b # a => (PayableNow(b)' <=> PayableNow(b)) /\ attempt'[b] = attempt[b]
    BY <1>5, <2>0 DEF FailCheckout, PayableNow, TypeOK
  <2>3. ~PayableNow(a)'
    <3>1. a \notin handed
      BY <1>5, <2>0 DEF FailCheckout, CreatedUnderLock, HandedIsStored
    <3> QED
      BY <1>5, <3>1 DEF FailCheckout, PayableNow
  <2> QED
    BY <1>5, <1>b, <1>c, <2>0, <2>1, <2>2, <2>3
    DEF FailCheckout, RecordedPayable, CreatedUnderLock, Locked, TypeOK
<1>6. ASSUME NEW a \in Attempts, NEW status \in ProviderStatus, ProviderChanges(a, status)
      PROVE  CheckoutInv'
  <2>1. \A b \in Attempts : PayableNow(b)' => PayableNow(b)
    BY <1>6 DEF ProviderChanges, PayableNow, Payable, TypeOK
  <2> QED
    BY <1>6, <1>b, <1>c, <2>1 DEF ProviderChanges, RecordedPayable, CreatedUnderLock, Locked
<1>7. ASSUME NEW h \in Handlers, NEW answered \in BOOLEAN, ApplyPayment(h, answered)
      PROVE  CheckoutInv'
  <2> DEFINE a == handler[h].attempt
  <2>1. a \in Attempts /\ (handler[h].status \notin Payable => provider[a] \notin Payable)
    BY <1>7 DEF ApplyPayment, TypeOK, ToldTheTruth
  <2>2. /\ \A b \in Attempts : PayableNow(b)' <=> PayableNow(b)
        /\ \A b \in Attempts : b # a => attempt'[b] = attempt[b]
        /\ attempt'[a].status = handler[h].status
    BY <1>7, <2>1 DEF ApplyPayment, PayableNow, TypeOK
  <2>3. RecordedPayable'
    BY <1>7, <2>1, <2>2 DEF ApplyPayment, RecordedPayable, PayableNow
  <2>4. \A p \in People : Locked(p) => checkout[p] # a
    BY <1>7 DEF ApplyPayment, CreatedUnderLock, TypeOK
  <2>5. CreatedUnderLock'
    BY <1>7, <2>2, <2>4 DEF ApplyPayment, CreatedUnderLock, Locked, TypeOK
  <2> QED
    BY <1>b, <1>c, <2>2, <2>3, <2>5
<1> QED
  BY <1>1, <1>2, <1>3, <1>4, <1>5, <1>6, <1>7
  DEF Next, Checkout, Webhook, vars, CheckoutVars, ReceiveCall, FetchPayment, FailCall,
      ReadTargets, CommitStatement, SkipSync, LoseStatement, IgnoreTransaction, ConfirmMatch,
      MarkPaid, MarkOpen

-----------------------------------------------------------------------------
(* The theorems *)

\* The inductive invariant: what is booked, what Mollie can still be paid for and what
\* the requests in flight know hold together in every reachable state.
THEOREM ReconciliationInvariant == Spec => []IInv
<1>1. Init => IInv
  BY ReconciliationAssumption
  DEF Init, IInv, TypeOK, LedgerInv, CheckoutInv, IdleHandler, NoStatement, ProviderStatus, Payable,
      PaidIffRecorded, OnlinePaid, BankPaid, MatchedIffBooked, RowsAreNew, OneBankPaymentEach,
      RecordedPayable, PayableNow, HandedIsStored, CreatedUnderLock, Locked, OneOpenCheckout,
      ToldTheTruth, BookedOnce
<1>2. IInv /\ [Next]_vars => IInv'
  BY TypeStep, LedgerStep, CheckoutStep, TruthStep, BookingStep DEF IInv, CheckoutInv
<1> QED
  BY <1>1, <1>2, PTL DEF Spec

\* The type invariant holds for every number of participants, checkouts and requests.
THEOREM ReconciliationTypeCorrect == Spec => []TypeOK
<1>1. IInv => TypeOK
  BY DEF IInv
<1> QED
  BY <1>1, ReconciliationInvariant, PTL

\* A participant counts as paid exactly while one of the three kinds of payment is on
\* record, whichever requests run concurrently.
THEOREM PaidMeansRecorded == Spec => []PaidIffRecorded
<1>1. IInv => PaidIffRecorded
  BY DEF IInv, LedgerInv
<1> QED
  BY <1>1, ReconciliationInvariant, PTL

\* Webhook calls, repeated or concurrent, book a Mollie payment once and only when
\* Mollie reports it as paid.
THEOREM MoneyIsBookedOnce == Spec => []BookedOnce
<1>1. IInv => BookedOnce
  BY DEF IInv
<1> QED
  BY <1>1, ReconciliationInvariant, PTL

\* Statements and reviewers never book two bank payments for one participant.
THEOREM OneBankPayment == Spec => []OneBankPaymentEach
<1>1. IInv => OneBankPaymentEach
  BY DEF IInv, LedgerInv
<1> QED
  BY <1>1, ReconciliationInvariant, PTL

\* The status of a bank transaction says whether a payment was booked for it.
THEOREM MatchedMeansBooked == Spec => []MatchedIffBooked
<1>1. IInv => MatchedIffBooked
  BY DEF IInv, LedgerInv
<1> QED
  BY <1>1, ReconciliationInvariant, PTL

\* A participant never holds two fresh checkouts that can both be paid.
THEOREM OneCheckoutToPay == Spec => []OneOpenCheckout
<1>1. IInv => OneOpenCheckout
  BY DEF IInv, CheckoutInv
<1> QED
  BY <1>1, ReconciliationInvariant, PTL

\* A payment that came from Mollie or from the bank is never taken back, by the
\* treasurer's switch least of all.
THEOREM ReportedPaymentsAreKept == Spec => ReportedPaymentsStay
<1> DEFINE Kept ==
      /\ \A a \in Attempts : online[a] > 0 => online'[a] = online[a] /\ OwnerOf[a] \in paid'
      /\ \A t \in Transactions : bank[t] # Nothing => bank'[t] = bank[t] /\ bank[t] \in paid'
<1>1. IInv /\ [Next]_vars => [Kept]_vars
  <2> SUFFICES ASSUME IInv, [Next]_vars PROVE Kept
    OBVIOUS
  <2> USE DEF IInv, LedgerInv
  <2>1. /\ \A a \in Attempts : online[a] > 0 => OwnerOf[a] \in paid
        /\ \A t \in Transactions : bank[t] # Nothing => bank[t] \in paid
    BY ReconciliationAssumption DEF PaidIffRecorded, OnlinePaid, BankPaid, TypeOK
  <2>2. CASE UNCHANGED <<online, bank, paid>>
    BY <2>1, <2>2
  <2>3. ASSUME NEW h \in Handlers, NEW answered \in BOOLEAN, ApplyPayment(h, answered)
        PROVE  Kept
    BY <2>1, <2>3 DEF ApplyPayment, Book, TypeOK
  <2>4. ASSUME NEW chosen \in SUBSET Transactions, CommitStatement(chosen)
        PROVE  Kept
    BY <2>1, <2>4 DEF CommitStatement, MatchedNow, RowsAreNew, MatchedIffBooked, TypeOK
  <2>5. ASSUME NEW t \in Transactions, NEW p \in People, ConfirmMatch(t, p)
        PROVE  Kept
    BY <2>1, <2>5 DEF ConfirmMatch, TypeOK
  <2>6. ASSUME NEW p \in People, MarkPaid(p) \/ MarkOpen(p)
        PROVE  Kept
    BY <2>1, <2>6 DEF MarkPaid, MarkOpen, OnlyManual, OnlinePaid, BankPaid
  <2> QED
    BY <2>2, <2>3, <2>4, <2>5, <2>6
    DEF Next, Checkout, Webhook, vars, StartCheckout, Age, FinishCheckout, FailCheckout,
        ProviderChanges, ReceiveCall, FetchPayment, FailCall, ReadTargets, SkipSync,
        LoseStatement, IgnoreTransaction
<1>2. [][Kept]_vars => ReportedPaymentsStay
  BY PTL DEF ReportedPaymentsStay
<1> QED
  BY <1>1, <1>2, ReconciliationInvariant, PTL DEF Spec
=============================================================================
