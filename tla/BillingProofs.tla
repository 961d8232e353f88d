---------------------------- MODULE BillingProofs ----------------------------
(***************************************************************************)
(* What Billing guarantees for every number of cycles, attempts, handlers and *)
(* faults, every length of a period, of grace and of the pause between        *)
(* attempts: its payments follow RenewalLedger, Pro is never free, renewals    *)
(* are wanted, and a cancellation stays.                                      *)
(***************************************************************************)
EXTENDS Billing, FiniteSetTheorems, WellFoundedInduction, TLAPS

-----------------------------------------------------------------------------
(* The inductive invariant *)

HandlerRecord ==
  [pc : {"idle", "admitted", "reserved", "missing", "answered", "charged", "fetched",
         "due", "found", "unpaid", "untaxed"},
   t : Payments, seen : {"none", "open", "paid", "failed", "cancelled"}]

TxRows == [Payments -> [status : {"none", "paid"} \cup Unsettled \cup Refused, bound : BOOLEAN, synced : Nat]]
CycleRows == [Cycles -> [operation : {"initial", "renewal"},
                         status : {"none", "prepared", "payment_pending", "paid"} \cup Refused,
                         start : Nat, end : Nat]]
RemoteRows == [Payments -> [status : {"none", "paid"} \cup Open \cup Refused, paidAt : Nat]]

Shapes == TypeOK /\ now # 0 /\ handler \in [Handlers -> HandlerRecord]

Tries(t) == tx[t].status # "none"
Renews(t) == cycle[CycleOf(t)].operation = "renewal"
SamePeriod(t, u) == t # u /\ CycleOf(t) = CycleOf(u)

\* A cycle has a first attempt, and attempts follow one after the other; only renewals
\* have several, or are dropped.
RowsFit ==
  /\ \A c \in Cycles : cycle[c].status # "none" => Tries(<<c, 1>>)
  /\ \A t \in Payments :
       /\ Tries(t) => cycle[CycleOf(t)].status # "none"
       /\ Tries(t) => \A a \in 1 .. AttemptOf(t) : Tries(<<CycleOf(t), a>>)
       /\ Tries(t) /\ ~Renews(t) => AttemptOf(t) = 1
       /\ t \in dropped => Tries(t) /\ Renews(t)

\* A row without a payment's reference is reserved, or was cancelled by a cancellation.
UnboundRows ==
  \A t \in Payments :
    /\ ~tx[t].bound => tx[t].status \in {"none", "reserved", "cancelled"}
    /\ ~tx[t].bound /\ tx[t].status = "cancelled" => t \in dropped
    /\ tx[t].status = "reserved" => ~tx[t].bound /\ t \notin dropped

\* Mollie has one payment for an attempt at most, and only for one that was reserved; it
\* remembers the key of a payment that exists.
PaymentsFit ==
  \A t \in Payments :
    /\ Known(t) => Tries(t)
    /\ posted[t] = IF Known(t) THEN 1 ELSE 0
    /\ t \in recent => Known(t)

\* While an attempt waits for its payment, no other of its period waits, and none can be
\* paid unless a cancellation dropped it.
OneCollects ==
  \A t, u \in Payments : tx[t].status = "reserved" /\ SamePeriod(t, u) =>
    /\ tx[u].status # "reserved"
    /\ remote[u].status = "open" => u \in dropped

\* A payment that can be paid has a row that says so, or was dropped.
OpenIsUnsettled ==
  \A t \in Payments : remote[t].status = "open" => tx[t].status \in Unsettled \/ t \in dropped

\* What a handler works on is there, what it was told may be old but never wrong, and as
\* long as it runs Mollie remembers a payment made since it looked.
HandlerFact(r) ==
  /\ r.pc \in {"reserved", "missing", "answered"} => Tries(r.t) /\ ~Renews(r.t)
  /\ r.pc \in {"due", "found", "unpaid"} => Tries(r.t) /\ Renews(r.t)
  /\ r.pc \in {"missing", "unpaid"} /\ Known(r.t) => r.t \in recent
  /\ r.pc = "charged" => Known(r.t)
  /\ r.pc \in {"answered", "found", "fetched"} =>
       Known(r.t) /\ r.seen # "none" /\ r.seen \in {"open", remote[r.t].status}
HandlersFit == \A h \in Handlers : HandlerFact(handler[h])

\* A time that a period paid at Mollie reaches, or reaches with the grace after it.
PaidUpTo(x) == \E t \in Payments : remote[t].status = "paid" /\ x <= cycle[CycleOf(t)].end
GraceUpTo(x) == \E t \in Payments : remote[t].status = "paid" /\ x <= cycle[CycleOf(t)].end + Grace

\* Every date in the row goes back to a paid period, and a cancelled row does not renew.
Subscriptions ==
  [status : {"none", "pending", "active", "grace_period", "cancelled", "expired"},
   autoRenew : BOOLEAN, cancelled : BOOLEAN, expires : Nat, paidThrough : Nat,
   graceUntil : Nat, mandate : BOOLEAN]
DatesFit(s) ==
  /\ s.paidThrough # 0 => PaidUpTo(s.paidThrough)
  /\ s.expires # 0 => s.paidThrough # 0 /\ GraceUpTo(s.expires)
  /\ s.graceUntil # 0 => s.paidThrough # 0 /\ GraceUpTo(s.graceUntil)
  /\ s.status \in {"active", "grace_period"} => s.expires # 0
  /\ s.cancelled => ~s.autoRenew

\* So does the start of every renewal.
RenewalsFit ==
  \A c \in Cycles : cycle[c].status # "none" /\ cycle[c].operation = "renewal" =>
    /\ sub.paidThrough # 0 /\ cycle[c].start # 0 /\ PaidUpTo(cycle[c].start)
    /\ cycle[c].end = cycle[c].start + Year

\* A first period is dated when it is reserved, and again, never earlier, when it is paid.
FirstPeriods ==
  \A t \in Payments :
    /\ remote[t].paidAt <= now
    /\ ~Renews(t) /\ Tries(t) => cycle[CycleOf(t)].end <= now + Year
    /\ ~Renews(t) /\ remote[t].status = "paid" => cycle[CycleOf(t)].end <= remote[t].paidAt + Year

RowsInv == RowsFit /\ UnboundRows
PaymentsInv == PaymentsFit /\ OneCollects /\ OpenIsUnsettled
MoneyInv == DatesFit(sub) /\ RenewalsFit /\ FirstPeriods

BillingInv == Shapes /\ RowsInv /\ PaymentsInv /\ HandlersFit /\ MoneyInv

-----------------------------------------------------------------------------
(* Numbers, cycles and attempts *)

\* A set of natural numbers has a least one.
LEMMA Least ==
  ASSUME NEW S \in SUBSET Nat, S # {}
  PROVE  \E x \in S : \A y \in S : x <= y
<1> DEFINE R == OpToRel(<, Nat)
<1>1. IsWellFoundedOn(R, Nat)
  BY NatLessThanWellFounded
<1>2. \A x, y \in Nat : x < y => <<x, y>> \in R
  BY DEF OpToRel
<1> HIDE DEF R
<1>3. PICK x \in S : \A y \in S : ~(<<y, x>> \in R)
  BY <1>1, WFMin
<1>4. \A y \in S : ~(y < x)
  BY <1>2, <1>3
<1> QED
  BY <1>4

\* A set of natural numbers with a bound has a greatest one.
LEMMA Greatest ==
  ASSUME NEW n \in Nat, NEW S \in SUBSET (0 .. n), S # {}
  PROVE  \E x \in S : \A y \in S : y <= x
<1> DEFINE T == {n - x : x \in S}
<1>1. T # {}
  OBVIOUS
<1>2. \A x \in S : n - x \in Nat
  OBVIOUS
<1>3. PICK z \in T : \A y \in T : z <= y
  <2>1. T \in SUBSET Nat
    BY <1>2
  <2> HIDE DEF T
  <2> QED
    BY <1>1, <2>1, Least
<1>4. PICK x \in S : z = n - x
  OBVIOUS
<1>5. ASSUME NEW y \in S PROVE y <= x
  <2>1. n - x <= n - y
    BY <1>3, <1>4
  <2> QED
    BY <2>1
<1> QED
  BY <1>5

\* A set of numbers from 1 that leaves none out is an interval.
LEMMA Segment ==
  ASSUME NEW n \in Nat, NEW S \in SUBSET (1 .. n), \A x \in S : 1 .. x \subseteq S
  PROVE  Cardinality(S) \in Nat /\ S = 1 .. Cardinality(S)
<1>1. CASE S = {}
  BY <1>1, FS_EmptySet
<1>2. CASE S # {}
  <2>1. PICK m \in S : \A y \in S : y <= m
    <3>1. S \in SUBSET (0 .. n)
      OBVIOUS
    <3> QED
      BY <1>2, <3>1, Greatest
  <2>2. S = 1 .. m
    <3>1. m \in Nat /\ S \subseteq 1 .. m
      BY <2>1
    <3>2. 1 .. m \subseteq S
      OBVIOUS
    <3> QED
      BY <3>1, <3>2
  <2>3. Cardinality(1 .. m) = m
    BY FS_Interval
  <2> QED
    BY <2>2, <2>3
<1> QED
  BY <1>1, <1>2

\* The next cycle is one that is not used.
LEMMA NextCycleIsUnused ==
  ASSUME Shapes, Unused # {}
  PROVE  NextCycle \in Unused
<1>1. Unused \in SUBSET Nat
  BY BillingAssumption DEF Unused, Cycles
<1>2. \E c \in Unused : \A d \in Unused : c <= d
  BY <1>1, Least
<1> QED
  BY <1>2 DEF NextCycle

\* The newest open cycle is one of them.
LEMMA NewestIsOpen ==
  ASSUME OpenInitial # {}
  PROVE  (CHOOSE c \in OpenInitial : \A d \in OpenInitial : d <= c) \in OpenInitial
<1>1. OpenInitial \in SUBSET (0 .. MaxCycles)
  BY BillingAssumption DEF OpenInitial, Cycles
<1>2. \E c \in OpenInitial : \A d \in OpenInitial : d <= c
  BY <1>1, BillingAssumption, Greatest
<1> QED
  BY <1>2

\* The latest of some attempts is one of them.
LEMMA LatestIsOne ==
  ASSUME NEW S \in SUBSET Payments, S # {}
  PROVE  Latest(S) \in S
<1> DEFINE T == {AttemptOf(t) : t \in S}
<1>1. T \in SUBSET (0 .. MaxAttempts) /\ T # {}
  BY BillingAssumption DEF Payments, Attempts, AttemptOf
<1>2. PICK x \in T : \A y \in T : y <= x
  <2> HIDE DEF T
  <2> QED
    BY <1>1, BillingAssumption, Greatest
<1>3. \E t \in S : \A u \in S : AttemptOf(u) <= AttemptOf(t)
  BY <1>2
<1> QED
  BY <1>3 DEF Latest

\* Attempts are pairs.
LEMMA Pairs ==
  /\ \A c \in Cycles, a \in Attempts :
       <<c, a>> \in Payments /\ CycleOf(<<c, a>>) = c /\ AttemptOf(<<c, a>>) = a
  /\ \A t \in Payments : /\ CycleOf(t) \in Cycles /\ AttemptOf(t) \in Attempts
                         /\ t = <<CycleOf(t), AttemptOf(t)>>
BY DEF Payments, CycleOf, AttemptOf

\* What is in use of a cycle.
LEMMA UsedAttempts ==
  ASSUME NEW c \in Cycles
  PROVE  Used(c) = {t \in Payments : CycleOf(t) = c /\ Tries(t)}
BY Pairs DEF Used, Tried, Tries

\* The attempt after the last one has not been used, and all before it have.
LEMMA NextAttempt ==
  ASSUME RowsFit, NEW c \in Cycles
  PROVE  /\ Cardinality(Tried(c)) \in Nat
         /\ \A a \in Attempts : Tries(<<c, a>>) <=> a <= Cardinality(Tried(c))
<1>1. Tried(c) \in SUBSET (1 .. MaxAttempts)
  BY DEF Tried, Attempts
<1>2. ASSUME NEW a \in Tried(c) PROVE 1 .. a \subseteq Tried(c)
  <2>1. \A b \in 1 .. a : Tries(<<c, b>>)
    BY <1>2, Pairs DEF RowsFit, Tried, Tries
  <2> QED
    BY <2>1, BillingAssumption DEF Tried, Tries, Attempts
<1>3. Cardinality(Tried(c)) \in Nat /\ Tried(c) = 1 .. Cardinality(Tried(c))
  BY <1>1, <1>2, BillingAssumption, Segment
<1>4. \A a \in Attempts : Tries(<<c, a>>) <=> a \in Tried(c)
  BY DEF Tried, Tries
<1> QED
  BY <1>3, <1>4, BillingAssumption DEF Attempts

-----------------------------------------------------------------------------
(* What every step keeps *)

\* Reserved attempts and payments stay, a settled payment keeps its verdict, and Mollie
\* remembers the payments it makes.
Progress ==
  \A t \in Payments :
    /\ Tries(t) => Tries(t)' /\ (Renews(t)' <=> Renews(t))
    /\ Known(t) => Known(t)'
    /\ remote[t].status \notin {"none", "open"} => remote'[t].status = remote[t].status
    /\ ~Known(t) /\ Known(t)' => t \in recent'
    /\ t \in recent => t \in recent'

\* The shapes, one by one.
LEMMA ShapesAre ==
  ASSUME BillingInv
  PROVE  /\ now \in Nat /\ now # 0 /\ faults \in Nat
         /\ sub \in Subscriptions /\ cycle \in CycleRows /\ tx \in TxRows
         /\ remote \in RemoteRows /\ posted \in [Payments -> Nat] /\ recent \subseteq Payments
         /\ booked \subseteq Cycles /\ dropped \subseteq Payments
         /\ handler \in [Handlers -> HandlerRecord]
         /\ \A t \in Payments : tx[t].bound => Known(t)
BY DEF BillingInv, Shapes, TypeOK, Subscriptions, CycleRows, TxRows, RemoteRows, Known

\* They are kept when each is.
LEMMA ShapesKeep ==
  ASSUME now' \in Nat, now' # 0, faults' \in Nat,
         sub' \in Subscriptions, cycle' \in CycleRows, tx' \in TxRows,
         remote' \in RemoteRows, posted' \in [Payments -> Nat], recent' \subseteq Payments,
         booked' \subseteq Cycles, dropped' \subseteq Payments,
         handler' \in [Handlers -> HandlerRecord],
         \A t \in Payments : tx'[t].bound => Known(t)'
  PROVE  Shapes'
<1>1. \A h \in Handlers : handler'[h].t \in Payments
  BY DEF HandlerRecord
<1> QED
  BY <1>1 DEF Shapes, TypeOK, Subscriptions, CycleRows, TxRows, RemoteRows, Known

\* All handlers but one stand where they stood.
OthersStay(h) == \A k \in Handlers : k # h => handler'[k] = handler[k]

\* What a handler knows stays true while others work.
LEMMA FactsKeep ==
  ASSUME Progress, NEW h \in Handlers, handler[h] \in HandlerRecord, HandlerFact(handler[h]),
         handler'[h] = handler[h]
  PROVE  HandlerFact(handler[h])'
<1> DEFINE t == handler[h].t
<1>1. t \in Payments
  BY DEF HandlerRecord
<1> QED
  BY <1>1 DEF Progress, HandlerFact, Known

\* A step of one handler, true to what it knows afterwards.
LEMMA HandlersKeep ==
  ASSUME Shapes, HandlersFit, Progress, NEW h \in Handlers, OthersStay(h), HandlerFact(handler[h])'
  PROVE  HandlersFit'
<1>1. ASSUME NEW k \in Handlers PROVE HandlerFact(handler[k])'
  <2>1. CASE k = h
    BY <2>1
  <2>2. CASE k # h
    BY <2>2, FactsKeep DEF Shapes, HandlersFit, OthersStay
  <2> QED
    BY <2>1, <2>2
<1> QED
  BY <1>1 DEF HandlersFit

\* The attempts and the cycles stay as they are, but for attempts that are dropped.
LEMMA RowsKeep ==
  ASSUME RowsFit,
         \A t \in Payments : Tries(t)' <=> Tries(t),
         \A t \in Payments : Tries(t) => (Renews(t)' <=> Renews(t)),
         \A c \in Cycles : cycle[c].status # "none" <=> cycle'[c].status # "none",
         \A t \in dropped' : t \in dropped \/ (Tries(t) /\ Renews(t))
  PROVE  RowsFit'
<1>0. \A c \in Cycles : cycle'[c].status # "none" => Tries(<<c, 1>>)'
  BY Pairs, BillingAssumption DEF RowsFit, Attempts
<1> SUFFICES ASSUME NEW t \in Payments
    PROVE  /\ Tries(t)' => cycle'[CycleOf(t)].status # "none"
           /\ Tries(t)' => \A a \in 1 .. AttemptOf(t) : Tries(<<CycleOf(t), a>>)'
           /\ Tries(t)' /\ ~Renews(t)' => AttemptOf(t) = 1
           /\ t \in dropped' => Tries(t)' /\ Renews(t)'
  BY <1>0 DEF RowsFit
<1>1. Tries(t)' => cycle'[CycleOf(t)].status # "none"
  BY Pairs DEF RowsFit
<1>2. Tries(t)' => \A a \in 1 .. AttemptOf(t) : Tries(<<CycleOf(t), a>>)'
  <2>1. \A a \in 1 .. AttemptOf(t) : <<CycleOf(t), a>> \in Payments
    BY Pairs, BillingAssumption DEF Attempts
  <2> QED
    BY <2>1 DEF RowsFit
<1>3. Tries(t)' /\ ~Renews(t)' => AttemptOf(t) = 1
  BY DEF RowsFit
<1>4. t \in dropped' => Tries(t)' /\ Renews(t)'
  BY DEF RowsFit
<1> QED
  BY <1>1, <1>2, <1>3, <1>4

\* Where a step leaves a handler.
LEMMA GoStep ==
  ASSUME Shapes, NEW h \in Handlers, NEW pc, NEW t, NEW seen, Go(h, pc, t, seen),
         [pc |-> pc, t |-> t, seen |-> seen] \in HandlerRecord
  PROVE  /\ handler' \in [Handlers -> HandlerRecord] /\ OthersStay(h)
         /\ handler'[h] = [pc |-> pc, t |-> t, seen |-> seen]
BY DEF Go, Shapes, OthersStay

\* A handler that ends knows nothing.
LEMMA FinishStep ==
  ASSUME Shapes, NEW h \in Handlers, Finish(h)
  PROVE  /\ handler' \in [Handlers -> HandlerRecord] /\ OthersStay(h)
         /\ HandlerFact(handler[h])'
<1>1. Idle \in HandlerRecord
  BY Pairs, BillingAssumption DEF Idle, HandlerRecord, Cycles, Attempts
<1>2. handler' \in [Handlers -> HandlerRecord] /\ OthersStay(h) /\ handler'[h] = Idle
  BY <1>1 DEF Finish, Shapes, OthersStay
<1> QED
  BY <1>2 DEF HandlerFact, Idle

-----------------------------------------------------------------------------
(* Steps that only read *)

\* A step that changes nothing but where one handler stands keeps the invariant.
LEMMA StandsKeep ==
  ASSUME BillingInv, UNCHANGED <<now, rows, provider, recent>>, faults' \in Nat, NEW h \in Handlers,
         handler' \in [Handlers -> HandlerRecord], OthersStay(h), HandlerFact(handler[h])'
  PROVE  BillingInv'
<1> USE DEF rows, records, provider
<1>1. Shapes'
  <2>1. \A k \in Handlers : handler'[k].t \in Payments
    BY DEF HandlerRecord
  <2> QED
    BY <2>1 DEF BillingInv, Shapes, TypeOK
<1>2. RowsInv'
  BY DEF BillingInv, RowsInv, RowsFit, UnboundRows, Tries, Renews
<1>3. PaymentsInv'
  BY DEF BillingInv, PaymentsInv, PaymentsFit, OneCollects, OpenIsUnsettled, Known, Tries
<1>4. HandlersFit'
  <2>1. Progress
    BY DEF Progress, Tries, Renews, Known
  <2> QED
    BY <2>1, HandlersKeep DEF BillingInv
<1>5. MoneyInv'
  BY DEF BillingInv, MoneyInv, DatesFit, RenewalsFit, FirstPeriods, PaidUpTo, GraceUpTo,
         Renews, Tries
<1> QED
  BY <1>1, <1>2, <1>3, <1>4, <1>5 DEF BillingInv

\* A handler may go on to what is true already.
LEMMA ReadsKeep ==
  ASSUME BillingInv, UNCHANGED <<now, rows, provider, recent>>, faults' \in Nat, NEW h \in Handlers,
         NEW pc, NEW t, NEW seen, Go(h, pc, t, seen),
         [pc |-> pc, t |-> t, seen |-> seen] \in HandlerRecord,
         HandlerFact([pc |-> pc, t |-> t, seen |-> seen])
  PROVE  BillingInv'
<1>1. handler' \in [Handlers -> HandlerRecord] /\ OthersStay(h) /\ handler'[h] = [pc |-> pc, t |-> t, seen |-> seen]
  BY GoStep DEF BillingInv
<1>2. HandlerFact(handler[h])'
  BY <1>1 DEF HandlerFact, Tries, Renews, Known, rows, provider
<1> QED
  BY <1>1, <1>2, StandsKeep

\* Nor does ending a handler change anything.
LEMMA FinishKeeps ==
  ASSUME BillingInv, UNCHANGED <<now, rows, provider, recent>>, faults' \in Nat, NEW h \in Handlers, Finish(h)
  PROVE  BillingInv'
BY FinishStep, StandsKeep DEF BillingInv

\* A checkout is admitted.
LEMMA StartCheckoutKeeps ==
  ASSUME BillingInv, NEW h \in Handlers, StartCheckout(h)
  PROVE  BillingInv'
<1>1. <<1, 1>> \in Payments
  BY Pairs, BillingAssumption DEF Cycles, Attempts
<1>2. [pc |-> "admitted", t |-> <<1, 1>>, seen |-> "none"] \in HandlerRecord
  BY <1>1 DEF HandlerRecord
<1>3. HandlerFact([pc |-> "admitted", t |-> <<1, 1>>, seen |-> "none"])
  BY DEF HandlerFact
<1> QED
  BY <1>2, <1>3, ReadsKeep DEF StartCheckout, BillingInv, Shapes, TypeOK

\* The open first period is offered again.
LEMMA OfferAgainKeeps ==
  ASSUME BillingInv, NEW h \in Handlers, ReserveInitial(h), OpenInitial # {}
  PROVE  BillingInv'
<1> DEFINE c == CHOOSE c \in OpenInitial : \A d \in OpenInitial : d <= c
           t == Latest(Used(c))
<1>1. Go(h, "reserved", t, "none") /\ UNCHANGED <<now, rows, provider, recent, faults>>
  BY DEF ReserveInitial
<1>2. c \in Cycles /\ cycle[c].operation = "initial" /\ cycle[c].status # "none"
  BY NewestIsOpen DEF OpenInitial
<1> HIDE DEF c
<1>3. Used(c) \in SUBSET Payments /\ <<c, 1>> \in Used(c)
  BY <1>2, UsedAttempts, Pairs, BillingAssumption DEF BillingInv, RowsInv, RowsFit, Attempts
<1>4. t \in Used(c)
  BY <1>3, LatestIsOne
<1> HIDE DEF t
<1>5. t \in Payments /\ Tries(t) /\ ~Renews(t)
  BY <1>2, <1>4, UsedAttempts DEF Renews
<1>6. [pc |-> "reserved", t |-> t, seen |-> "none"] \in HandlerRecord
  BY <1>5 DEF HandlerRecord
<1>7. HandlerFact([pc |-> "reserved", t |-> t, seen |-> "none"])
  BY <1>5 DEF HandlerFact
<1> QED
  BY <1>1, <1>6, <1>7, ReadsKeep DEF BillingInv, Shapes, TypeOK

\* What Mollie has for an attempt is what its list says.
LEMMA SeenNow ==
  ASSUME BillingInv, NEW t \in Payments, Known(t)
  PROVE  remote[t].status \in {"open", "paid", "failed", "cancelled"}
BY DEF BillingInv, Shapes, TypeOK, Known, Open, Refused

\* A checkout looks for its payment.
LEMMA LookUpInitialKeeps ==
  ASSUME BillingInv, NEW h \in Handlers, LookUpInitial(h)
  PROVE  BillingInv'
<1> DEFINE t == handler[h].t
           r(pc, seen) == [pc |-> pc, t |-> t, seen |-> seen]
<1>1. t \in Payments /\ Tries(t) /\ ~Renews(t)
  BY DEF LookUpInitial, At, BillingInv, HandlersFit, HandlerFact, Shapes, HandlerRecord
<1>2. UNCHANGED <<now, rows, provider, recent, faults>> /\ faults' \in Nat
  BY DEF LookUpInitial, BillingInv, Shapes, TypeOK
<1>3. CASE Known(t)
  <2>1. Go(h, "answered", t, remote[t].status)
    BY <1>3 DEF LookUpInitial
  <2>2. r("answered", remote[t].status) \in HandlerRecord
    BY <1>1, <1>3, SeenNow DEF HandlerRecord
  <2>3. HandlerFact(r("answered", remote[t].status))
    BY <1>1, <1>3 DEF HandlerFact, Known
  <2> QED
    BY <1>2, <2>1, <2>2, <2>3, ReadsKeep
<1>4. CASE ~Known(t)
  <2>1. Go(h, "missing", t, "none")
    BY <1>4 DEF LookUpInitial
  <2>2. r("missing", "none") \in HandlerRecord
    BY <1>1 DEF HandlerRecord
  <2>3. HandlerFact(r("missing", "none"))
    BY <1>1, <1>4 DEF HandlerFact
  <2> QED
    BY <1>2, <2>1, <2>2, <2>3, ReadsKeep
<1> QED
  BY <1>3, <1>4

\* Fetching the payment of an attempt that has one.
LEMMA FetchedKeeps ==
  ASSUME BillingInv, NEW h \in Handlers, NEW t \in Payments, Known(t),
         Go(h, "fetched", t, remote[t].status), UNCHANGED <<now, rows, provider, recent, faults>>
  PROVE  BillingInv'
<1>1. [pc |-> "fetched", t |-> t, seen |-> remote[t].status] \in HandlerRecord
  BY SeenNow DEF HandlerRecord
<1>2. HandlerFact([pc |-> "fetched", t |-> t, seen |-> remote[t].status])
  BY DEF HandlerFact, Known
<1> QED
  BY <1>1, <1>2, ReadsKeep DEF BillingInv, Shapes, TypeOK

\* The webhook, the synchronization and a charge fetch a payment.
LEMMA FetchKeeps ==
  ASSUME BillingInv, NEW h \in Handlers, Webhook(h) \/ SyncPayment(h) \/ FetchPayment(h)
  PROVE  BillingInv'
<1>1. CASE Webhook(h)
  <2>1. PICK t \in Payments : /\ remote[t].status \in Verdicts /\ Go(h, "fetched", t, remote[t].status)
                              /\ UNCHANGED <<now, rows, provider, recent, faults>>
    BY <1>1 DEF Webhook
  <2>2. Known(t)
    BY <2>1, BillingAssumption DEF Known
  <2> QED
    BY <2>1, <2>2, FetchedKeeps
<1>2. CASE SyncPayment(h)
  <2>1. PICK t \in Payments : /\ Known(t) /\ Go(h, "fetched", t, remote[t].status)
                              /\ UNCHANGED <<now, rows, provider, recent, faults>>
    BY <1>2 DEF SyncPayment
  <2> QED
    BY <2>1, FetchedKeeps
<1>3. CASE FetchPayment(h)
  <2>1. handler[h].t \in Payments /\ Known(handler[h].t)
    BY <1>3 DEF FetchPayment, At, BillingInv, HandlersFit, HandlerFact, Shapes, HandlerRecord
  <2> QED
    BY <1>3, <2>1, FetchedKeeps DEF FetchPayment
<1> QED
  BY <1>1, <1>2, <1>3

\* A renewal looks for its payment.
LEMMA LookUpRenewalKeeps ==
  ASSUME BillingInv, NEW h \in Handlers, LookUpRenewal(h)
  PROVE  BillingInv'
<1> DEFINE t == handler[h].t
           r(pc, seen) == [pc |-> pc, t |-> t, seen |-> seen]
<1>1. t \in Payments /\ Tries(t) /\ Renews(t)
  BY DEF LookUpRenewal, At, BillingInv, HandlersFit, HandlerFact, Shapes, HandlerRecord
<1>2. UNCHANGED <<now, rows, provider, recent, faults>> /\ faults' \in Nat
  BY DEF LookUpRenewal, BillingInv, Shapes, TypeOK
<1>3. CASE Finish(h)
  BY <1>2, <1>3, FinishKeeps
<1>4. CASE Known(t) /\ Go(h, "found", t, remote[t].status)
  <2>1. r("found", remote[t].status) \in HandlerRecord
    BY <1>1, <1>4, SeenNow DEF HandlerRecord
  <2>2. HandlerFact(r("found", remote[t].status))
    BY <1>1, <1>4 DEF HandlerFact, Known
  <2> QED
    BY <1>2, <1>4, <2>1, <2>2, ReadsKeep
<1>5. CASE ~Known(t) /\ Go(h, "unpaid", t, "none")
  <2>1. r("unpaid", "none") \in HandlerRecord
    BY <1>1 DEF HandlerRecord
  <2>2. HandlerFact(r("unpaid", "none"))
    BY <1>1, <1>5 DEF HandlerFact
  <2> QED
    BY <1>2, <1>5, <2>1, <2>2, ReadsKeep
<1> QED
  BY <1>3, <1>4, <1>5 DEF LookUpRenewal

\* The tax service does not answer.
LEMMA UntaxedKeeps ==
  ASSUME BillingInv, NEW h \in Handlers, TaxUnavailable(h)
  PROVE  BillingInv'
<1>1. <<1, 1>> \in Payments
  BY Pairs, BillingAssumption DEF Cycles, Attempts
<1>2. [pc |-> "untaxed", t |-> <<1, 1>>, seen |-> "none"] \in HandlerRecord
  BY <1>1 DEF HandlerRecord
<1>3. HandlerFact([pc |-> "untaxed", t |-> <<1, 1>>, seen |-> "none"])
  BY DEF HandlerFact
<1>4. faults' \in Nat
  BY DEF TaxUnavailable, BillingInv, Shapes, TypeOK
<1> QED
  BY <1>2, <1>3, <1>4, ReadsKeep DEF TaxUnavailable

\* A handler fails or dies.
LEMMA FailKeeps ==
  ASSUME BillingInv, NEW h \in Handlers, Fail(h)
  PROVE  BillingInv'
<1>1. faults' \in Nat
  BY DEF Fail, BillingInv, Shapes, TypeOK
<1> QED
  BY <1>1, FinishKeeps DEF Fail

-----------------------------------------------------------------------------
(* Reserving an attempt *)

\* The date the subscription is paid through, when it has one.
LEMMA ThroughIsPaid ==
  ASSUME BillingInv, Through # 0
  PROVE  sub.paidThrough # 0 /\ Through = sub.paidThrough /\ PaidUpTo(Through)
BY DEF BillingInv, MoneyInv, DatesFit, Through

\* Payments stay paid, and the ends of the periods they paid do not move back.
PaidStays ==
  \A t \in Payments : remote[t].status = "paid" =>
    /\ remote'[t].status = "paid"
    /\ cycle[CycleOf(t)].end <= cycle'[CycleOf(t)].end

\* What reaches a date goes on reaching it.
LEMMA CoverStays ==
  ASSUME BillingInv, PaidStays, cycle' \in CycleRows
  PROVE  /\ \A x \in Nat : PaidUpTo(x) => PaidUpTo(x)'
         /\ \A x \in Nat : GraceUpTo(x) => GraceUpTo(x)'
<1>1. \A t \in Payments : cycle[CycleOf(t)].end \in Nat /\ cycle'[CycleOf(t)].end \in Nat
  BY Pairs DEF BillingInv, Shapes, TypeOK, CycleRows
<1>2. \A x \in Nat : PaidUpTo(x) => PaidUpTo(x)'
  BY <1>1 DEF PaidStays, PaidUpTo
<1>3. \A x \in Nat : GraceUpTo(x) => GraceUpTo(x)'
  BY <1>1, BillingAssumption DEF PaidStays, GraceUpTo
<1> QED
  BY <1>2, <1>3

\* The rows and payments when an attempt is reserved for a period nothing collects.
LEMMA ReserveRows ==
  ASSUME BillingInv, NEW c \in Cycles, NEW a \in Attempts,
         ~Tries(<<c, a>>), \A b \in Attempts : b < a => Tries(<<c, b>>),
         tx' = [tx EXCEPT ![<<c, a>>] = [@ EXCEPT !.status = "reserved"]],
         NEW op \in {"initial", "renewal"}, NEW start \in Nat, NEW end \in Nat,
         cycle' = [cycle EXCEPT ![c] =
                     [operation |-> op, status |-> "prepared", start |-> start, end |-> end]],
         cycle[c].status # "none" => op = cycle[c].operation,
         op = "initial" => a = 1,
         \A u \in Payments : CycleOf(u) = c =>
           tx[u].status # "reserved" /\ (remote[u].status = "open" => u \in dropped),
         UNCHANGED <<provider, recent, dropped>>
  PROVE  /\ tx' \in TxRows
         /\ cycle' \in CycleRows
         /\ \A t \in Payments : tx'[t].bound <=> tx[t].bound
         /\ RowsInv' /\ PaymentsInv' /\ Progress
<1> DEFINE n == <<c, a>>
<1>0. n \in Payments /\ CycleOf(n) = c /\ AttemptOf(n) = a
  BY Pairs
<1>t. tx \in TxRows
  BY DEF BillingInv, Shapes, TypeOK, TxRows
<1>c. cycle \in CycleRows
  BY DEF BillingInv, Shapes, TypeOK, CycleRows
<1>1. \A t \in Payments : t # n => tx'[t] = tx[t]
  BY <1>t DEF TxRows
<1>2. tx'[n].status = "reserved" /\ tx'[n].bound = tx[n].bound /\ tx'[n].synced = tx[n].synced
  BY <1>0, <1>t DEF TxRows
<1>3. ~Known(n) /\ ~tx[n].bound /\ n \notin dropped /\ posted[n] = 0
  BY <1>0 DEF BillingInv, PaymentsInv, PaymentsFit, RowsInv, RowsFit, Shapes, TypeOK, Known
<1>4. \A t \in Payments : Tries(t)' <=> Tries(t) \/ t = n
  BY <1>1, <1>2, <1>0 DEF Tries
<1>5. /\ \A d \in Cycles : d # c => cycle'[d] = cycle[d]
      /\ cycle'[c].status = "prepared" /\ cycle'[c].operation = op
  BY <1>c DEF CycleRows
<1>6. \A t \in Payments : Tries(t) => (Renews(t)' <=> Renews(t))
  BY <1>5, Pairs DEF Renews, BillingInv, RowsInv, RowsFit
<1>7. tx' \in TxRows
  BY <1>t, <1>0 DEF Unsettled, TxRows
<1>8. cycle' \in CycleRows
  BY <1>c DEF CycleRows
<1>9. \A t \in Payments : tx'[t].bound <=> tx[t].bound
  BY <1>1, <1>2
<1>10. RowsInv'
  <2>1. RowsFit'
    <3>1. ASSUME NEW d \in Cycles, cycle'[d].status # "none" PROVE Tries(<<d, 1>>)'
      <4>1. CASE d # c
        BY <3>1, <4>1, <1>4, <1>5, Pairs, BillingAssumption DEF BillingInv, RowsInv, RowsFit, Attempts
      <4>2. CASE d = c
        <5>1. a = 1 \/ Tries(<<c, 1>>)
          BY BillingAssumption DEF Attempts
        <5> QED
          BY <4>2, <5>1, <1>4, Pairs, BillingAssumption DEF Attempts
      <4> QED
        BY <4>1, <4>2
    <3>2. ASSUME NEW t \in Payments, Tries(t)'
          PROVE  /\ cycle'[CycleOf(t)].status # "none"
                 /\ \A b \in 1 .. AttemptOf(t) : Tries(<<CycleOf(t), b>>)'
                 /\ ~Renews(t)' => AttemptOf(t) = 1
      <4>1. CASE t = n
        <5>1. \A b \in 1 .. a : b \in Attempts /\ (b = a \/ b < a)
          BY BillingAssumption DEF Attempts
        <5> QED
          BY <4>1, <5>1, <1>0, <1>4, <1>5, Pairs DEF Renews
      <4>2. CASE Tries(t)
        <5>1. \A b \in 1 .. AttemptOf(t) : <<CycleOf(t), b>> \in Payments
          BY Pairs, BillingAssumption DEF Attempts
        <5> QED
          BY <4>2, <5>1, <1>4, <1>5, <1>6, Pairs DEF BillingInv, RowsInv, RowsFit
      <4> QED
        BY <3>2, <4>1, <4>2, <1>4
    <3>3. ASSUME NEW t \in Payments, t \in dropped' PROVE Tries(t)' /\ Renews(t)'
      BY <3>3, <1>4, <1>6 DEF BillingInv, RowsInv, RowsFit
    <3> QED
      BY <3>1, <3>2, <3>3 DEF RowsFit
  <2>2. UnboundRows'
    BY <1>1, <1>2, <1>3 DEF BillingInv, RowsInv, UnboundRows
  <2> QED
    BY <2>1, <2>2 DEF RowsInv
<1>11. PaymentsInv'
  <2>1. PaymentsFit'
    BY <1>4 DEF BillingInv, PaymentsInv, PaymentsFit, Known, provider
  <2>2. OneCollects'
    <3> SUFFICES ASSUME NEW t \in Payments, NEW u \in Payments, tx'[t].status = "reserved", SamePeriod(t, u)
        PROVE  /\ tx'[u].status # "reserved"
               /\ remote'[u].status = "open" => u \in dropped'
      BY DEF OneCollects, SamePeriod
    <3>1. CASE t = n
      BY <3>1, <1>0, <1>1, <1>2 DEF SamePeriod, provider
    <3>2. CASE t # n
      BY <3>2, <1>0, <1>1 DEF SamePeriod, provider, BillingInv, PaymentsInv, OneCollects
    <3> QED
      BY <3>1, <3>2
  <2>3. OpenIsUnsettled'
    BY <1>1, <1>2 DEF BillingInv, PaymentsInv, OpenIsUnsettled, provider, Unsettled
  <2> QED
    BY <2>1, <2>2, <2>3 DEF PaymentsInv
<1>12. Progress
  BY <1>4, <1>6 DEF Progress, Known, provider
<1> QED
  BY <1>7, <1>8, <1>9, <1>10, <1>11, <1>12

\* Dates and renewals that fit go on to fit.
LEMMA DatesStay ==
  ASSUME BillingInv, PaidStays, sub' \in Subscriptions, DatesFit(sub'),
         cycle' \in CycleRows
  PROVE  DatesFit(sub)'
<1>1. sub'.paidThrough \in Nat /\ sub'.expires \in Nat /\ sub'.graceUntil \in Nat
  BY DEF Subscriptions
<1> QED
  BY <1>1, CoverStays DEF DatesFit

\* A first period is reserved, or the open one offered again.
LEMMA ReserveInitialKeeps ==
  ASSUME BillingInv, NEW h \in Handlers, ReserveInitial(h)
  PROVE  BillingInv'
<1>1. CASE OpenInitial # {}
  BY <1>1, OfferAgainKeeps
<1>2. CASE OpenInitial = {}
  <2> DEFINE c == NextCycle
  <2>1. /\ Unused # {}
        /\ cycle' = [cycle EXCEPT ![c] =
             [operation |-> "initial", status |-> "prepared", start |-> now, end |-> now + Year]]
        /\ tx' = [tx EXCEPT ![<<c, 1>>] = [@ EXCEPT !.status = "reserved"]]
        /\ sub' = [sub EXCEPT !.status = "pending", !.autoRenew = FALSE, !.cancelled = FALSE, !.expires = 0]
        /\ Go(h, "reserved", <<c, 1>>, "none")
        /\ UNCHANGED <<now, records, provider, recent, faults>>
    BY <1>2 DEF ReserveInitial
  <2>2. c \in Cycles /\ cycle[c].status = "none"
    BY <2>1, NextCycleIsUnused DEF BillingInv, Unused
  <2> HIDE DEF c
  <2>3. \A u \in Payments : CycleOf(u) = c => ~Tries(u) /\ ~Known(u)
    BY <2>2 DEF BillingInv, RowsInv, RowsFit, PaymentsInv, PaymentsFit
  <2>4. now \in Nat /\ now + Year \in Nat /\ now # 0 /\ sub \in Subscriptions /\ faults' \in Nat
    BY <2>1, BillingAssumption DEF BillingInv, Shapes, TypeOK, Subscriptions
  <2>5. 1 \in Attempts /\ <<c, 1>> \in Payments /\ CycleOf(<<c, 1>>) = c /\ \A b \in Attempts : ~(b < 1)
    BY <2>2, Pairs, BillingAssumption DEF Attempts
  <2>6. UNCHANGED <<provider, recent, dropped>>
    BY <2>1 DEF records
  <2>7. \A u \in Payments : CycleOf(u) = c =>
          tx[u].status # "reserved" /\ (remote[u].status = "open" => u \in dropped)
    BY <2>3 DEF Tries, Known
  <2>8. /\ tx' \in TxRows
        /\ cycle' \in CycleRows
        /\ \A t \in Payments : tx'[t].bound <=> tx[t].bound
        /\ RowsInv' /\ PaymentsInv' /\ Progress
    BY <2>1, <2>2, <2>3, <2>4, <2>5, <2>6, <2>7, ReserveRows
  <2>9. handler' \in [Handlers -> HandlerRecord] /\ OthersStay(h)
        /\ handler'[h] = [pc |-> "reserved", t |-> <<c, 1>>, seen |-> "none"]
    <3>1. [pc |-> "reserved", t |-> <<c, 1>>, seen |-> "none"] \in HandlerRecord
      BY <2>5 DEF HandlerRecord
    <3> QED
      BY <3>1, <2>1, GoStep DEF BillingInv
  <2>10. cycle'[c].operation = "initial" /\ cycle'[c].end = now + Year
         /\ \A d \in Cycles : d # c => cycle'[d] = cycle[d]
    BY <2>1, <2>2 DEF BillingInv, Shapes, TypeOK
  <2>11. HandlersFit'
    <3>1. HandlerFact(handler[h])'
      <4>1. tx'[<<c, 1>>].status # "none" /\ cycle'[CycleOf(<<c, 1>>)].operation # "renewal"
        BY <2>1, <2>5, <2>10 DEF BillingInv, Shapes, TypeOK
      <4> QED
        BY <4>1, <2>9 DEF HandlerFact, Tries, Renews
    <3> QED
      BY <3>1, <2>8, <2>9, HandlersKeep DEF BillingInv
  <2>12. sub' \in Subscriptions /\ DatesFit(sub') /\ sub'.paidThrough = sub.paidThrough
    BY <2>1, <2>4 DEF Subscriptions, DatesFit, BillingInv, MoneyInv
  <2>13. PaidStays
    BY <2>1, <2>3, <2>10, Pairs DEF PaidStays, Known, provider, BillingInv, Shapes, TypeOK
  <2>14. MoneyInv'
    <3>1. DatesFit(sub)'
      BY <2>8, <2>12, <2>13, DatesStay
    <3>2. RenewalsFit'
      <4> SUFFICES ASSUME NEW d \in Cycles, cycle'[d].status # "none", cycle'[d].operation = "renewal"
          PROVE  /\ sub'.paidThrough # 0 /\ cycle'[d].start # 0 /\ PaidUpTo(cycle[d].start)'
                 /\ cycle'[d].end = cycle'[d].start + Year
        BY DEF RenewalsFit
      <4>1. d # c /\ cycle'[d] = cycle[d] /\ cycle[d].start \in Nat
        BY <2>10 DEF BillingInv, Shapes, TypeOK
      <4> QED
        BY <4>1, <2>8, <2>12, <2>13, CoverStays DEF BillingInv, MoneyInv, RenewalsFit
    <3>3. FirstPeriods'
      <4> SUFFICES ASSUME NEW t \in Payments
          PROVE  /\ remote'[t].paidAt <= now'
                 /\ ~Renews(t)' /\ Tries(t)' => cycle'[CycleOf(t)].end <= now' + Year
                 /\ ~Renews(t)' /\ remote'[t].status = "paid" =>
                      cycle'[CycleOf(t)].end <= remote'[t].paidAt + Year
        BY DEF FirstPeriods
      <4>1. now' = now /\ remote' = remote /\ remote[t].paidAt <= now
        BY <2>1 DEF provider, BillingInv, MoneyInv, FirstPeriods
      <4>2. CASE CycleOf(t) = c
        BY <4>1, <4>2, <2>3, <2>4, <2>10 DEF Known
      <4>3. CASE CycleOf(t) # c
        <5>1. cycle'[CycleOf(t)] = cycle[CycleOf(t)] /\ (Tries(t)' => Tries(t))
          BY <4>3, <2>1, <2>5, <2>10, Pairs DEF Tries, BillingInv, Shapes, TypeOK
        <5> QED
          BY <4>1, <5>1 DEF BillingInv, MoneyInv, FirstPeriods, Renews
      <4> QED
        BY <4>2, <4>3
    <3> QED
      BY <3>1, <3>2, <3>3 DEF MoneyInv
  <2>15. Shapes'
    <3>1. \A k \in Handlers : handler'[k].t \in Payments
      BY <2>9 DEF HandlerRecord
    <3> QED
      BY <3>1, <2>1, <2>4, <2>8, <2>9, <2>12 DEF BillingInv, Shapes, TypeOK, Subscriptions, TxRows, CycleRows,
         records, provider
  <2> QED
    BY <2>8, <2>11, <2>14, <2>15 DEF BillingInv
<1> QED
  BY <1>1, <1>2

\* Renewals that fit go on to fit, and so does one that starts at a paid date.
LEMMA RenewalsStay ==
  ASSUME BillingInv, PaidStays, cycle' \in CycleRows, sub.paidThrough # 0 => sub'.paidThrough # 0,
         \A d \in Cycles : cycle'[d].status # "none" /\ cycle'[d].operation = "renewal" =>
           \/ /\ cycle[d].status # "none" /\ cycle[d].operation = "renewal"
              /\ cycle'[d].start = cycle[d].start /\ cycle'[d].end = cycle[d].end
           \/ /\ sub.paidThrough # 0 /\ cycle'[d].start # 0 /\ PaidUpTo(cycle'[d].start)
              /\ cycle'[d].end = cycle'[d].start + Year
  PROVE  RenewalsFit'
<1> SUFFICES ASSUME NEW d \in Cycles, cycle'[d].status # "none", cycle'[d].operation = "renewal"
    PROVE  /\ sub'.paidThrough # 0 /\ cycle'[d].start # 0 /\ PaidUpTo(cycle[d].start)'
           /\ cycle'[d].end = cycle'[d].start + Year
  BY DEF RenewalsFit
<1>1. cycle'[d].start \in Nat
  BY DEF CycleRows
<1> QED
  BY <1>1, CoverStays DEF BillingInv, MoneyInv, RenewalsFit

\* The money is accounted for when the dates of cycles and payments stay.
LEMMA MoneyKeeps ==
  ASSUME BillingInv, now' = now, sub' \in Subscriptions, DatesFit(sub'),
         sub.paidThrough # 0 => sub'.paidThrough # 0, cycle' \in CycleRows,
         \A d \in Cycles : /\ cycle'[d].operation = cycle[d].operation /\ cycle'[d].start = cycle[d].start
                           /\ cycle'[d].end = cycle[d].end
                           /\ cycle[d].status # "none" <=> cycle'[d].status # "none",
         \A t \in Payments : Tries(t)' <=> Tries(t),
         \A t \in Payments : /\ remote'[t].status = "paid" <=> remote[t].status = "paid"
                             /\ remote'[t].paidAt = remote[t].paidAt
  PROVE  MoneyInv'
<1>1. PaidStays
  BY Pairs DEF PaidStays, CycleRows
<1>2. DatesFit(sub)'
  BY <1>1, DatesStay
<1>3. RenewalsFit'
  BY <1>1, RenewalsStay
<1>4. FirstPeriods'
  BY Pairs DEF BillingInv, MoneyInv, FirstPeriods, Renews
<1> QED
  BY <1>2, <1>3, <1>4 DEF MoneyInv

\* Grace after a paid date fits.
LEMMA GraceFits ==
  ASSUME BillingInv, NEW x \in Nat, x # 0, PaidUpTo(x), sub.paidThrough # 0
  PROVE  InGrace(sub, x) \in Subscriptions /\ DatesFit(InGrace(sub, x))
         /\ InGrace(sub, x).paidThrough = sub.paidThrough
<1> DEFINE g == GraceExpiry(sub, x)
<1>1. sub \in Subscriptions /\ DatesFit(sub)
  BY DEF BillingInv, Shapes, TypeOK, Subscriptions, MoneyInv
<1>2. g \in Nat /\ g # 0
  BY <1>1, BillingAssumption DEF GraceExpiry, Subscriptions
<1>3. GraceUpTo(g)
  <2>1. CASE sub.graceUntil # 0
    BY <2>1, <1>1 DEF GraceExpiry, DatesFit
  <2>2. CASE sub.graceUntil = 0
    <3>1. PICK t \in Payments : remote[t].status = "paid" /\ x <= cycle[CycleOf(t)].end
      BY DEF PaidUpTo
    <3>2. cycle[CycleOf(t)].end \in Nat
      BY Pairs DEF BillingInv, Shapes, TypeOK
    <3>3. x + Grace <= cycle[CycleOf(t)].end + Grace
      BY <3>1, <3>2, BillingAssumption
    <3> QED
      BY <2>2, <3>1, <3>3 DEF GraceExpiry, GraceUpTo
  <2> QED
    BY <2>1, <2>2
<1> HIDE DEF g
<1>4. InGrace(sub, x) = [sub EXCEPT !.status = IF g > now THEN "grace_period" ELSE "expired",
                                    !.expires = g, !.graceUntil = g]
  BY DEF InGrace, g
<1> QED
  BY <1>1, <1>2, <1>3, <1>4 DEF Subscriptions, DatesFit

\* A step of the subscription's row alone.
LEMMA SubKeeps ==
  ASSUME BillingInv, UNCHANGED <<now, cycle, tx, records, provider, recent, faults>>,
         sub' \in Subscriptions, DatesFit(sub'), sub.paidThrough # 0 => sub'.paidThrough # 0,
         handler' = handler \/ \E h \in Handlers : Finish(h)
  PROVE  BillingInv'
<1> USE DEF records, provider
<1>1. handler' \in [Handlers -> HandlerRecord]
  BY FinishStep DEF BillingInv, Shapes
<1>2. Shapes'
  <2>1. \A k \in Handlers : handler'[k].t \in Payments
    BY <1>1 DEF HandlerRecord
  <2> QED
    BY <1>1, <2>1 DEF BillingInv, Shapes, TypeOK, Subscriptions
<1>3. RowsInv'
  BY DEF BillingInv, RowsInv, RowsFit, UnboundRows, Tries, Renews
<1>4. PaymentsInv'
  BY DEF BillingInv, PaymentsInv, PaymentsFit, OneCollects, OpenIsUnsettled, Known, Tries
<1>5. HandlersFit'
  <2>1. Progress
    BY DEF Progress, Tries, Renews, Known
  <2>2. CASE handler' = handler
    BY <2>1, <2>2, FactsKeep DEF BillingInv, HandlersFit, Shapes
  <2>3. CASE \E h \in Handlers : Finish(h)
    BY <2>1, <2>3, FinishStep, HandlersKeep DEF BillingInv
  <2> QED
    BY <2>2, <2>3
<1>6. MoneyInv'
  <2>1. cycle' \in CycleRows
    BY DEF BillingInv, Shapes, TypeOK, CycleRows
  <2>2. \A t \in Payments : Tries(t)' <=> Tries(t)
    BY DEF Tries
  <2> QED
    BY <2>1, <2>2, MoneyKeeps
<1> QED
  BY <1>2, <1>3, <1>4, <1>5, <1>6 DEF BillingInv

\* Grace because the tax could not be determined.
LEMMA ValidationGraceKeeps ==
  ASSUME BillingInv, NEW h \in Handlers, ValidationGrace(h)
  PROVE  BillingInv'
<1>1. CASE Overdue
  <2>1. Through # 0 /\ sub' = InGrace(sub, Through)
    BY <1>1 DEF Overdue, ValidationGrace
  <2>2. Through \in Nat
    BY DEF Through, BillingInv, Shapes, TypeOK
  <2> QED
    BY <2>1, <2>2, ThroughIsPaid, GraceFits, SubKeeps DEF ValidationGrace
<1>2. CASE ~Overdue
  <2>1. sub' = sub /\ sub \in Subscriptions /\ DatesFit(sub)
    BY <1>2 DEF ValidationGrace, BillingInv, Shapes, TypeOK, Subscriptions, MoneyInv
  <2> QED
    BY <2>1, SubKeeps DEF ValidationGrace
<1> QED
  BY <1>1, <1>2

\* The customer turns the renewal on again.
LEMMA EnableKeeps ==
  ASSUME BillingInv, Enable
  PROVE  BillingInv'
<1> DEFINE s == [sub EXCEPT !.autoRenew = TRUE, !.cancelled = FALSE, !.status = "active", !.graceUntil = 0]
<1>1. sub \in Subscriptions /\ DatesFit(sub) /\ now \in Nat /\ sub.expires # 0 /\ sub' = s
  BY ShapesAre DEF BillingInv, MoneyInv, Enable, Subscriptions
<1>2. s \in Subscriptions
  BY <1>1 DEF Subscriptions
<1>3. /\ s.autoRenew = TRUE /\ s.cancelled = FALSE /\ s.status = "active" /\ s.graceUntil = 0
      /\ s.expires = sub.expires /\ s.paidThrough = sub.paidThrough
  BY <1>1 DEF Subscriptions
<1> HIDE DEF s
<1>4. DatesFit(s)
  BY <1>1, <1>3 DEF DatesFit
<1> QED
  BY <1>1, <1>2, <1>3, <1>4, SubKeeps DEF Enable

\* The attempts of a period that has no open one.
LEMMA NothingOpen ==
  ASSUME BillingInv, NEW c \in Cycles, {t \in Used(c) : tx[t].status \in Unsettled} = {}
  PROVE  \A u \in Payments : CycleOf(u) = c =>
           tx[u].status # "reserved" /\ (remote[u].status = "open" => u \in dropped)
<1> SUFFICES ASSUME NEW u \in Payments, CycleOf(u) = c
    PROVE  tx[u].status # "reserved" /\ (remote[u].status = "open" => u \in dropped)
  OBVIOUS
<1>1. tx[u].status \notin Unsettled
  BY UsedAttempts DEF Tries, Unsettled
<1> QED
  BY <1>1 DEF Unsettled, BillingInv, PaymentsInv, OpenIsUnsettled

\* A cycle whose renewal may be attempted: one of the period, or one not used yet.
LEMMA ReserveAttemptKeeps ==
  ASSUME BillingInv, NEW h \in Handlers, NEW c \in Cycles, RenewalDue, ReserveAttempt(h, c),
         c \in RenewalCycles \/ cycle[c].status = "none",
         UNCHANGED <<now, provider, recent, faults>>
  PROVE  BillingInv'
<1> DEFINE open == {t \in Used(c) : tx[t].status \in Unsettled}
           next == <<c, Cardinality(Tried(c)) + 1>>
<1>0. /\ Through # 0 /\ Through \in Nat /\ sub.paidThrough # 0 /\ PaidUpTo(Through)
  BY ThroughIsPaid DEF RenewalDue, Overdue, Through, BillingInv, Shapes, TypeOK
<1>1. CASE open # {} /\ Go(h, "due", Latest(open), "none") /\ UNCHANGED rows
  <2>1. open \in SUBSET Payments /\ \A t \in open : CycleOf(t) = c /\ Tries(t)
    BY UsedAttempts
  <2>2. Latest(open) \in open
    BY <1>1, <2>1, LatestIsOne
  <2>3. cycle[c].status # "none"
    BY <2>1, <2>2 DEF BillingInv, RowsInv, RowsFit
  <2>4. cycle[c].operation = "renewal"
    BY <2>3 DEF RenewalCycles
  <2> DEFINE t == Latest(open)
  <2>5. t \in Payments /\ Tries(t) /\ Renews(t)
    BY <2>1, <2>2, <2>4 DEF Renews
  <2>6. Go(h, "due", t, "none")
    BY <1>1
  <2> HIDE DEF t
  <2>7. [pc |-> "due", t |-> t, seen |-> "none"] \in HandlerRecord
    BY <2>5 DEF HandlerRecord
  <2>8. HandlerFact([pc |-> "due", t |-> t, seen |-> "none"])
    BY <2>5 DEF HandlerFact
  <2> QED
    BY <1>1, <2>6, <2>7, <2>8, ReadsKeep DEF BillingInv, Shapes, TypeOK
<1>2. CASE open = {} /\ next \notin Payments /\ sub' = InGrace(sub, Through)
           /\ UNCHANGED <<cycle, tx, records, handler>>
  BY <1>0, <1>2, GraceFits, SubKeeps
<1>3. ASSUME open = {}, next \in Payments,
             tx' = [tx EXCEPT ![next] = [@ EXCEPT !.status = "reserved"]],
             cycle' = [cycle EXCEPT ![c] = [operation |-> "renewal", status |-> "prepared",
                                            start |-> Through, end |-> Through + Year]],
             Go(h, "due", next, "none"), UNCHANGED <<sub, records>>
      PROVE  BillingInv'
  <2> DEFINE a == Cardinality(Tried(c)) + 1
  <2>1. a \in Attempts /\ ~Tries(<<c, a>>) /\ \A b \in Attempts : b < a => Tries(<<c, b>>)
    <3>1. a \in Attempts
      BY <1>3, Pairs DEF Payments
    <3> QED
      BY <3>1, NextAttempt, BillingAssumption DEF BillingInv, RowsInv, Attempts
  <2> HIDE DEF a
  <2>2. /\ tx' = [tx EXCEPT ![<<c, a>>] = [@ EXCEPT !.status = "reserved"]]
        /\ Go(h, "due", <<c, a>>, "none") /\ <<c, a>> \in Payments
    BY <1>3 DEF a
  <2>3. Through + Year \in Nat /\ UNCHANGED <<provider, recent, dropped>>
        /\ (cycle[c].status # "none" => "renewal" = cycle[c].operation)
    BY <1>0, <1>3, BillingAssumption DEF records, RenewalCycles
  <2>4. \A u \in Payments : CycleOf(u) = c =>
          tx[u].status # "reserved" /\ (remote[u].status = "open" => u \in dropped)
    BY <1>3, NothingOpen
  <2>5. /\ tx' \in TxRows /\ cycle' \in CycleRows
        /\ \A t \in Payments : tx'[t].bound <=> tx[t].bound
        /\ RowsInv' /\ PaymentsInv' /\ Progress
    BY <1>0, <1>3, <2>1, <2>2, <2>3, <2>4, ReserveRows
  <2>6. handler' \in [Handlers -> HandlerRecord] /\ OthersStay(h)
        /\ handler'[h] = [pc |-> "due", t |-> <<c, a>>, seen |-> "none"]
    <3>1. [pc |-> "due", t |-> <<c, a>>, seen |-> "none"] \in HandlerRecord
      BY <2>2 DEF HandlerRecord
    <3> QED
      BY <3>1, <2>2, GoStep DEF BillingInv
  <2>7. /\ cycle'[c] = [operation |-> "renewal", status |-> "prepared", start |-> Through,
                        end |-> Through + Year]
        /\ \A d \in Cycles : d # c => cycle'[d] = cycle[d]
    BY <1>3 DEF BillingInv, Shapes, TypeOK
  <2>8. HandlersFit'
    <3>1. HandlerFact(handler[h])'
      <4>1. tx'[<<c, a>>].status # "none" /\ cycle'[CycleOf(<<c, a>>)].operation = "renewal"
        BY <2>1, <2>2, <2>7, Pairs DEF BillingInv, Shapes, TypeOK
      <4> QED
        BY <4>1, <2>6 DEF HandlerFact, Tries, Renews
    <3> QED
      BY <3>1, <2>5, <2>6, HandlersKeep DEF BillingInv
  <2>9. cycle[c].status # "none" =>
          cycle[c].operation = "renewal" /\ cycle[c].start = Through /\ cycle[c].end = Through + Year
    BY DEF RenewalCycles, BillingInv, MoneyInv, RenewalsFit
  <2>10. \A u \in Payments : CycleOf(u) = c /\ remote[u].status = "paid" => cycle[c].status # "none"
    BY DEF BillingInv, PaymentsInv, PaymentsFit, RowsInv, RowsFit, Known
  <2>11. PaidStays
    <3> SUFFICES ASSUME NEW u \in Payments, remote[u].status = "paid"
        PROVE  remote'[u].status = "paid" /\ cycle[CycleOf(u)].end <= cycle'[CycleOf(u)].end
      BY DEF PaidStays
    <3>1. CASE CycleOf(u) = c
      BY <3>1, <1>0, <2>3, <2>7, <2>9, <2>10 DEF provider
    <3>2. CASE CycleOf(u) # c
      BY <3>2, <2>3, <2>5, <2>7, Pairs DEF provider, CycleRows
    <3> QED
      BY <3>1, <3>2
  <2>12. MoneyInv'
    <3>1. DatesFit(sub)'
      <4>1. sub' \in Subscriptions /\ DatesFit(sub')
        BY <1>3 DEF BillingInv, Shapes, TypeOK, Subscriptions, MoneyInv
      <4> QED
        BY <4>1, <2>5, <2>11, DatesStay
    <3>2. RenewalsFit'
      BY <1>0, <1>3, <2>5, <2>7, <2>11, RenewalsStay
    <3>3. FirstPeriods'
      <4> SUFFICES ASSUME NEW t \in Payments
          PROVE  /\ remote'[t].paidAt <= now'
                 /\ ~Renews(t)' /\ Tries(t)' => cycle'[CycleOf(t)].end <= now' + Year
                 /\ ~Renews(t)' /\ remote'[t].status = "paid" =>
                      cycle'[CycleOf(t)].end <= remote'[t].paidAt + Year
        BY DEF FirstPeriods
      <4>1. now' = now /\ remote' = remote /\ remote[t].paidAt <= now
        BY <2>3 DEF provider, BillingInv, MoneyInv, FirstPeriods
      <4>2. CASE CycleOf(t) = c
        BY <4>1, <4>2, <2>7 DEF Renews
      <4>3. CASE CycleOf(t) # c
        <5>1. cycle'[CycleOf(t)] = cycle[CycleOf(t)] /\ (Tries(t)' => Tries(t))
          BY <4>3, <2>1, <2>2, <2>7, Pairs DEF Tries, BillingInv, Shapes, TypeOK
        <5> QED
          BY <4>1, <5>1 DEF BillingInv, MoneyInv, FirstPeriods, Renews
      <4> QED
        BY <4>2, <4>3
    <3> QED
      BY <3>1, <3>2, <3>3 DEF MoneyInv
  <2>13. Shapes'
    <3>1. \A t \in Payments : tx'[t].bound => Known(t)'
      BY <2>3, <2>5, ShapesAre DEF Known, provider
    <3> QED
      BY <3>1, <1>3, <2>3, <2>5, <2>6, ShapesAre, ShapesKeep DEF records, provider
  <2> QED
    BY <2>5, <2>8, <2>12, <2>13 DEF BillingInv
<1> QED
  BY <1>1, <1>2, <1>3 DEF ReserveAttempt

\* A renewal is reserved, taken up again or given grace.
LEMMA ReserveRenewalKeeps ==
  ASSUME BillingInv, NEW h \in Handlers, ReserveRenewal(h)
  PROVE  BillingInv'
<1>1. CASE \E c \in RenewalCycles : cycle[c].status # "paid" /\ ReserveAttempt(h, c)
  <2>1. PICK c \in RenewalCycles : ReserveAttempt(h, c)
    BY <1>1
  <2>2. c \in Cycles
    BY DEF RenewalCycles
  <2> QED
    BY <2>1, <2>2, ReserveAttemptKeeps DEF ReserveRenewal
<1>2. CASE Unused # {} /\ ReserveAttempt(h, NextCycle)
  <2>1. NextCycle \in Cycles /\ cycle[NextCycle].status = "none"
    BY <1>2, NextCycleIsUnused DEF BillingInv, Unused
  <2> QED
    BY <1>2, <2>1, ReserveAttemptKeeps DEF ReserveRenewal
<1> QED
  BY <1>1, <1>2 DEF ReserveRenewal

-----------------------------------------------------------------------------
(* Recording what Mollie said, and charging *)

\* The cycles keep their kinds and dates.
DatesSame ==
  /\ cycle' \in CycleRows
  /\ \A d \in Cycles : /\ cycle'[d].operation = cycle[d].operation /\ cycle'[d].start = cycle[d].start
                       /\ cycle'[d].end = cycle[d].end
                       /\ cycle[d].status # "none" <=> cycle'[d].status # "none"

\* A cycle's status may change alone.
LEMMA StatusOnly ==
  ASSUME BillingInv, NEW c \in Cycles, cycle[c].status # "none",
         NEW status \in {"payment_pending", "paid", cycle[c].status} \cup Refused,
         cycle' = [cycle EXCEPT ![c].status = status]
  PROVE  DatesSame
<1>1. cycle \in CycleRows
  BY ShapesAre
<1>2. status \in {"prepared", "payment_pending", "paid"} \cup Refused
  BY <1>1 DEF CycleRows
<1>3. cycle' \in CycleRows
  BY <1>1, <1>2 DEF CycleRows
<1> QED
  BY <1>1, <1>2, <1>3 DEF DatesSame, CycleRows, Refused

\* Writing a status Mollie reported over the row of its payment.
LEMMA BindRows ==
  ASSUME BillingInv, NEW t \in Payments, Known(t), NEW seen \in {"open", remote[t].status},
         tx' = [tx EXCEPT ![t] = [status |-> seen, bound |-> TRUE, synced |-> now]],
         \A d \in Cycles : cycle[d].status # "none" =>
           cycle'[d].status # "none" /\ cycle'[d].operation = cycle[d].operation,
         \A d \in Cycles : cycle'[d].status # "none" => cycle[d].status # "none",
         UNCHANGED <<provider, recent, dropped>>
  PROVE  /\ tx' \in TxRows /\ \A u \in Payments : tx'[u].bound => Known(u)'
         /\ RowsInv' /\ PaymentsInv' /\ Progress /\ \A u \in Payments : Tries(u)' <=> Tries(u)
<1>1. seen \in {"open", "paid", "failed", "cancelled"}
  BY SeenNow
<1>2. tx \in TxRows /\ now \in Nat
  BY ShapesAre
<1>3. tx' \in TxRows
  BY <1>1, <1>2 DEF TxRows, Unsettled, Refused
<1>4. /\ tx'[t].status = seen /\ tx'[t].bound
      /\ \A u \in Payments : u # t => tx'[u] = tx[u]
  BY <1>2 DEF TxRows
<1>5. Tries(t)
  BY DEF BillingInv, PaymentsInv, PaymentsFit
<1>6. \A u \in Payments : Tries(u)' <=> Tries(u)
  BY <1>1, <1>4, <1>5 DEF Tries
<1>7. \A u \in Payments : Tries(u) => (Renews(u)' <=> Renews(u))
  BY Pairs DEF Renews, BillingInv, RowsInv, RowsFit
<1>8. RowsInv'
  <2>1. RowsFit'
    <3>1. \A u \in dropped' : u \in dropped
      OBVIOUS
    <3> QED
      BY <1>6, <1>7, <3>1, RowsKeep DEF BillingInv, RowsInv
  <2>2. UnboundRows'
    BY <1>1, <1>4 DEF BillingInv, RowsInv, UnboundRows
  <2> QED
    BY <2>1, <2>2 DEF RowsInv
<1>9. PaymentsInv'
  <2>1. PaymentsFit'
    BY <1>6 DEF BillingInv, PaymentsInv, PaymentsFit, Known, provider
  <2>2. OneCollects'
    BY <1>1, <1>4 DEF BillingInv, PaymentsInv, OneCollects, SamePeriod, provider
  <2>3. OpenIsUnsettled'
    BY <1>1, <1>4 DEF BillingInv, PaymentsInv, OpenIsUnsettled, provider, Unsettled
  <2> QED
    BY <2>1, <2>2, <2>3 DEF PaymentsInv
<1>10. \A u \in Payments : tx'[u].bound => Known(u)'
  BY <1>4, ShapesAre DEF Known, provider
<1>11. Progress
  BY <1>6, <1>7 DEF Progress, Known, provider
<1> QED
  BY <1>3, <1>6, <1>8, <1>9, <1>10, <1>11

\* Where a handler goes that has bound a payment.
LEMMA ChargedStep ==
  ASSUME BillingInv, NEW h \in Handlers, NEW t \in Payments, remote'[t].status # "none",
         Go(h, "charged", t, "none") \/ Finish(h)
  PROVE  handler' \in [Handlers -> HandlerRecord] /\ OthersStay(h) /\ HandlerFact(handler[h])'
<1>1. CASE Go(h, "charged", t, "none")
  <2>1. [pc |-> "charged", t |-> t, seen |-> "none"] \in HandlerRecord
    BY DEF HandlerRecord
  <2>2. handler' \in [Handlers -> HandlerRecord] /\ OthersStay(h)
        /\ handler'[h] = [pc |-> "charged", t |-> t, seen |-> "none"]
    BY <1>1, <2>1, GoStep DEF BillingInv
  <2> QED
    BY <2>2 DEF HandlerFact, Known
<1>2. CASE Finish(h)
  BY <1>2, FinishStep DEF BillingInv
<1> QED
  BY <1>1, <1>2

\* Binding a payment keeps the invariant.
LEMMA BindKeeps ==
  ASSUME BillingInv, NEW h \in Handlers, NEW t \in Payments, Known(t),
         NEW seen \in {"open", remote[t].status},
         tx' = [tx EXCEPT ![t] = [status |-> seen, bound |-> TRUE, synced |-> now]],
         DatesSame, Go(h, "charged", t, "none") \/ Finish(h),
         UNCHANGED <<now, sub, records, provider, recent, faults>>
  PROVE  BillingInv'
<1>1. /\ tx' \in TxRows /\ \A u \in Payments : tx'[u].bound => Known(u)'
      /\ RowsInv' /\ PaymentsInv' /\ Progress /\ \A u \in Payments : Tries(u)' <=> Tries(u)
  BY BindRows DEF DatesSame, records
<1>2. handler' \in [Handlers -> HandlerRecord] /\ OthersStay(h) /\ HandlerFact(handler[h])'
  <2>1. remote'[t].status # "none"
    BY DEF Known, provider
  <2> QED
    BY <2>1, ChargedStep
<1>3. HandlersFit'
  BY <1>1, <1>2, HandlersKeep DEF BillingInv
<1>4. Shapes'
  BY <1>1, <1>2, ShapesAre, ShapesKeep DEF DatesSame, records, provider
<1>5. MoneyInv'
  <2>1. sub' \in Subscriptions /\ DatesFit(sub')
    BY ShapesAre DEF BillingInv, MoneyInv
  <2> QED
    BY <1>1, <2>1, MoneyKeeps DEF DatesSame, provider
<1> QED
  BY <1>1, <1>3, <1>4, <1>5 DEF BillingInv

\* Checkouts and renewals bind the payment they found.
LEMMA BindStepKeeps ==
  ASSUME BillingInv, NEW h \in Handlers, BindInitial(h) \/ BindRenewal(h)
  PROVE  BillingInv'
<1> DEFINE t == handler[h].t
           seen == handler[h].seen
           status == IF seen \in Open THEN "payment_pending" ELSE cycle[CycleOf(t)].status
<1>1. t \in Payments /\ Known(t) /\ seen \in {"open", remote[t].status}
  BY DEF BindInitial, BindRenewal, At, BillingInv, HandlersFit, HandlerFact, Shapes, HandlerRecord
<1>2. /\ tx' = [tx EXCEPT ![t] = [status |-> seen, bound |-> TRUE, synced |-> now]]
      /\ cycle' = [cycle EXCEPT ![CycleOf(t)].status = status]
      /\ Go(h, "charged", t, "none") \/ Finish(h)
      /\ UNCHANGED <<now, sub, records, provider, recent, faults>>
  BY DEF BindInitial, BindRenewal
<1>3. CycleOf(t) \in Cycles /\ cycle[CycleOf(t)].status # "none"
  BY <1>1, Pairs DEF BillingInv, PaymentsInv, PaymentsFit, RowsInv, RowsFit
<1> HIDE DEF t, seen
<1>4. DatesSame
  BY <1>2, <1>3, StatusOnly
<1> QED
  BY <1>1, <1>2, <1>4, BindKeeps

\* A payment made for an attempt that waits for one.
LEMMA PostRows ==
  ASSUME BillingInv, NEW t \in Payments, Post(t), t \notin recent, tx[t].status = "reserved", ~Known(t),
         \/ tx' = tx
         \/ tx' = [tx EXCEPT ![t] = [status |-> remote'[t].status, bound |-> TRUE, synced |-> now]],
         DatesSame, UNCHANGED dropped
  PROVE  /\ tx' \in TxRows /\ remote' \in RemoteRows /\ posted' \in [Payments -> Nat]
         /\ recent' \subseteq Payments /\ Known(t)'
         /\ \A u \in Payments : tx'[u].bound => Known(u)'
         /\ RowsInv' /\ PaymentsInv' /\ Progress /\ \A u \in Payments : Tries(u)' <=> Tries(u)
         /\ \A u \in Payments : /\ remote'[u].status = "paid" <=> remote[u].status = "paid"
                                /\ remote'[u].paidAt = remote[u].paidAt
<1>1. tx \in TxRows /\ remote \in RemoteRows /\ posted \in [Payments -> Nat] /\ now \in Nat
      /\ recent \subseteq Payments
  BY ShapesAre
<1>2. /\ remote' = [remote EXCEPT ![t] = [@ EXCEPT !.status = "open"]]
      /\ posted' = [posted EXCEPT ![t] = @ + 1]
      /\ recent' = recent \cup {t}
  BY DEF Post
<1>3. /\ remote' \in RemoteRows /\ posted' \in [Payments -> Nat] /\ recent' \subseteq Payments
      /\ \A u \in Payments : u # t => remote'[u] = remote[u] /\ posted'[u] = posted[u]
      /\ remote'[t].status = "open" /\ remote'[t].paidAt = remote[t].paidAt /\ posted'[t] = posted[t] + 1
  BY <1>1, <1>2 DEF RemoteRows, Open
<1>4. posted[t] = 0 /\ t \notin dropped
  BY DEF BillingInv, PaymentsInv, PaymentsFit, RowsInv, UnboundRows
<1>5. /\ tx' \in TxRows
      /\ \A u \in Payments : u # t => tx'[u] = tx[u]
      /\ tx'[t] = tx[t] \/ (tx'[t].status = "open" /\ tx'[t].bound)
  <2>1. CASE tx' = tx
    BY <2>1, <1>1
  <2>2. CASE tx' = [tx EXCEPT ![t] = [status |-> "open", bound |-> TRUE, synced |-> now]]
    BY <2>2, <1>1 DEF TxRows, Unsettled
  <2> QED
    BY <2>1, <2>2, <1>3
<1>6. \A u \in Payments : Tries(u)' <=> Tries(u)
  BY <1>5 DEF Tries
<1>7. \A u \in Payments : Tries(u) => (Renews(u)' <=> Renews(u))
  BY Pairs DEF Renews, DatesSame
<1>8. RowsInv'
  <2>1. RowsFit'
    <3>1. \A u \in dropped' : u \in dropped
      OBVIOUS
    <3> QED
      BY <1>6, <1>7, <3>1, RowsKeep DEF BillingInv, RowsInv, DatesSame
  <2>2. UnboundRows'
    BY <1>5 DEF BillingInv, RowsInv, UnboundRows
  <2> QED
    BY <2>1, <2>2 DEF RowsInv
<1>9. \A u \in Payments : Known(u)' <=> Known(u) \/ u = t
  BY <1>3 DEF Known
<1>10. PaymentsInv'
  <2>1. PaymentsFit'
    <3> SUFFICES ASSUME NEW u \in Payments
        PROVE  /\ Known(u)' => Tries(u)'
               /\ posted'[u] = IF Known(u)' THEN 1 ELSE 0
               /\ u \in recent' => Known(u)'
      BY DEF PaymentsFit
    <3>1. CASE u = t
      BY <3>1, <1>3, <1>4, <1>6, <1>9 DEF Tries
    <3>2. CASE u # t
      BY <3>2, <1>2, <1>3, <1>6, <1>9 DEF BillingInv, PaymentsInv, PaymentsFit
    <3> QED
      BY <3>1, <3>2
  <2>2. OneCollects'
    <3> SUFFICES ASSUME NEW u \in Payments, NEW v \in Payments, tx'[u].status = "reserved", SamePeriod(u, v)
        PROVE  /\ tx'[v].status # "reserved"
               /\ remote'[v].status = "open" => v \in dropped'
      BY DEF OneCollects, SamePeriod
    <3>1. tx[u].status = "reserved" /\ (tx'[v].status = "reserved" => tx[v].status = "reserved")
      BY <1>5
    <3>2. tx[v].status # "reserved" /\ v # t
      BY <3>1 DEF BillingInv, PaymentsInv, OneCollects
    <3> QED
      BY <3>1, <3>2, <1>3 DEF BillingInv, PaymentsInv, OneCollects
  <2>3. OpenIsUnsettled'
    BY <1>3, <1>5 DEF BillingInv, PaymentsInv, OpenIsUnsettled, Unsettled
  <2> QED
    BY <2>1, <2>2, <2>3 DEF PaymentsInv
<1>11. \A u \in Payments : tx'[u].bound => Known(u)'
  BY <1>5, <1>9, ShapesAre
<1>12. Progress
  BY <1>2, <1>3, <1>6, <1>7, <1>9 DEF Progress, Known
<1>13. \A u \in Payments : /\ remote'[u].status = "paid" <=> remote[u].status = "paid"
                           /\ remote'[u].paidAt = remote[u].paidAt
  BY <1>3 DEF Known
<1> QED
  BY <1>3, <1>5, <1>6, <1>8, <1>9, <1>10, <1>11, <1>12, <1>13

\* Charging an attempt that waits keeps the invariant.
LEMMA PostKeeps ==
  ASSUME BillingInv, NEW h \in Handlers, NEW t \in Payments, Post(t), t \notin recent,
         tx[t].status = "reserved", ~Known(t),
         \/ tx' = tx
         \/ tx' = [tx EXCEPT ![t] = [status |-> remote'[t].status, bound |-> TRUE, synced |-> now]],
         DatesSame, UNCHANGED <<now, sub, records>>, faults' \in Nat,
         handler' \in [Handlers -> HandlerRecord], OthersStay(h), HandlerFact(handler[h])'
  PROVE  BillingInv'
<1>1. /\ tx' \in TxRows /\ remote' \in RemoteRows /\ posted' \in [Payments -> Nat]
      /\ recent' \subseteq Payments /\ Known(t)'
      /\ \A u \in Payments : tx'[u].bound => Known(u)'
      /\ RowsInv' /\ PaymentsInv' /\ Progress /\ \A u \in Payments : Tries(u)' <=> Tries(u)
      /\ \A u \in Payments : /\ remote'[u].status = "paid" <=> remote[u].status = "paid"
                             /\ remote'[u].paidAt = remote[u].paidAt
  BY PostRows DEF records
<1>2. HandlersFit'
  BY <1>1, HandlersKeep DEF BillingInv
<1>3. Shapes'
  BY <1>1, ShapesAre, ShapesKeep DEF DatesSame, records
<1>4. MoneyInv'
  <2>1. sub' \in Subscriptions /\ DatesFit(sub')
    BY ShapesAre DEF BillingInv, MoneyInv
  <2> QED
    BY <1>1, <2>1, MoneyKeeps DEF DatesSame
<1> QED
  BY <1>1, <1>2, <1>3, <1>4 DEF BillingInv

\* An attempt Mollie was not asked for yet waits for its payment, unless it was dropped.
LEMMA WaitsForPayment ==
  ASSUME BillingInv, NEW t \in Payments, Tries(t), ~tx[t].bound, tx[t].status # "cancelled" \/ ~Renews(t)
  PROVE  tx[t].status = "reserved"
BY DEF BillingInv, RowsInv, RowsFit, UnboundRows, Tries

\* Cycles that do not change at all.
LEMMA CyclesSame ==
  ASSUME BillingInv, cycle' = cycle
  PROVE  DatesSame
BY ShapesAre DEF DatesSame

\* A checkout posts its payment, and may lose the answer.
LEMMA PostInitialKeeps ==
  ASSUME BillingInv, NEW h \in Handlers, PostInitial(h)
  PROVE  BillingInv'
<1> DEFINE t == handler[h].t
<1>1. t \in Payments /\ Tries(t) /\ ~Renews(t) /\ (Known(t) => t \in recent)
  BY DEF PostInitial, At, BillingInv, HandlersFit, HandlerFact, Shapes, HandlerRecord
<1>2. /\ Post(t) /\ UNCHANGED <<now, rows>> /\ faults' \in Nat
      /\ Go(h, "answered", t, remote'[t].status) \/ Finish(h)
  BY ShapesAre DEF PostInitial
<1> HIDE DEF t
<1>3. CASE t \in recent
  <2>1. UNCHANGED <<now, rows, provider, recent>> /\ Known(t)
    BY <1>1, <1>2, <1>3 DEF Post, provider, BillingInv, PaymentsInv, PaymentsFit
  <2>2. CASE Go(h, "answered", t, remote[t].status)
    <3>1. [pc |-> "answered", t |-> t, seen |-> remote[t].status] \in HandlerRecord
      BY <1>1, <2>1, SeenNow DEF HandlerRecord
    <3>2. HandlerFact([pc |-> "answered", t |-> t, seen |-> remote[t].status])
      BY <1>1, <2>1 DEF HandlerFact, Known
    <3> QED
      BY <1>2, <2>1, <2>2, <3>1, <3>2, ReadsKeep
  <2>3. CASE Finish(h)
    BY <1>2, <2>1, <2>3, FinishKeeps
  <2>4. remote' = remote
    BY <2>1 DEF provider
  <2> QED
    BY <1>2, <2>2, <2>3, <2>4
<1>4. CASE t \notin recent
  <2>1. ~Known(t) /\ ~tx[t].bound
    BY <1>1, <1>4, ShapesAre
  <2>2. tx[t].status = "reserved"
    BY <1>1, <2>1, WaitsForPayment
  <2>3. tx' = tx /\ UNCHANGED <<now, sub, records>> /\ DatesSame
    BY <1>2, CyclesSame DEF rows
  <2>4. remote'[t].status = "open"
    BY <1>1, <1>2, <1>4, <2>1, ShapesAre DEF Post, RemoteRows
  <2>5. handler' \in [Handlers -> HandlerRecord] /\ OthersStay(h) /\ HandlerFact(handler[h])'
    <3>1. CASE Go(h, "answered", t, "open")
      <4>1. [pc |-> "answered", t |-> t, seen |-> "open"] \in HandlerRecord
        BY <1>1 DEF HandlerRecord
      <4>2. handler' \in [Handlers -> HandlerRecord] /\ OthersStay(h)
            /\ handler'[h] = [pc |-> "answered", t |-> t, seen |-> "open"]
        BY <3>1, <4>1, GoStep DEF BillingInv
      <4>3. tx'[t].status # "none" /\ cycle'[CycleOf(t)].operation # "renewal"
        BY <1>1, <1>2 DEF Tries, Renews, rows
      <4> QED
        BY <2>4, <4>2, <4>3 DEF HandlerFact, Known, Tries, Renews
    <3>2. CASE Finish(h)
      BY <3>2, FinishStep DEF BillingInv
    <3> QED
      BY <1>2, <2>4, <3>1, <3>2
  <2> QED
    BY <1>1, <1>2, <1>4, <2>1, <2>2, <2>3, <2>5, PostKeeps
<1> QED
  BY <1>3, <1>4

\* A renewal is charged under the row's lock, and may lose the answer.
LEMMA PostRenewalKeeps ==
  ASSUME BillingInv, NEW h \in Handlers, At(h, "unpaid"), PostRenewal(h, handler[h].t), UNCHANGED <<now, sub, booked>>
  PROVE  BillingInv'
<1> DEFINE t == handler[h].t
           Bound == [tx EXCEPT ![t] = [status |-> remote'[t].status, bound |-> TRUE, synced |-> now]]
<1>1. t \in Payments /\ Tries(t) /\ Renews(t) /\ (Known(t) => t \in recent)
  BY DEF At, BillingInv, HandlersFit, HandlerFact, Shapes, HandlerRecord
<1>2. /\ tx[t].status # "cancelled" /\ UNCHANGED <<now, sub, records>> /\ faults' \in Nat
      /\ \/ /\ tx[t].bound /\ Go(h, "charged", t, "none")
            /\ UNCHANGED <<tx, cycle, remote, posted, recent, faults>>
         \/ /\ ~tx[t].bound /\ Post(t)
            /\ \/ /\ tx' = Bound /\ cycle' = [cycle EXCEPT ![CycleOf(t)].status = "payment_pending"]
                  /\ Go(h, "charged", t, "none") /\ UNCHANGED faults
               \/ Finish(h) /\ UNCHANGED <<tx, cycle>>
  BY ShapesAre DEF PostRenewal, Unwanted, records
<1>3. CycleOf(t) \in Cycles /\ cycle[CycleOf(t)].status # "none"
  BY <1>1, Pairs DEF BillingInv, RowsInv, RowsFit
<1> HIDE DEF t
<1>4. ASSUME tx[t].bound, Go(h, "charged", t, "none"), UNCHANGED <<tx, cycle, remote, posted, recent, faults>>
      PROVE  BillingInv'
  <2>1. [pc |-> "charged", t |-> t, seen |-> "none"] \in HandlerRecord
    BY <1>1 DEF HandlerRecord
  <2>2. HandlerFact([pc |-> "charged", t |-> t, seen |-> "none"])
    BY <1>1, <1>4, ShapesAre DEF HandlerFact
  <2> QED
    BY <1>2, <1>4, <2>1, <2>2, ReadsKeep DEF rows, provider
<1>5. ASSUME t \in recent, Post(t),
             \/ /\ tx' = Bound /\ cycle' = [cycle EXCEPT ![CycleOf(t)].status = "payment_pending"]
                /\ Go(h, "charged", t, "none") /\ UNCHANGED faults
             \/ Finish(h) /\ UNCHANGED <<tx, cycle>>
      PROVE  BillingInv'
  <2>1. UNCHANGED <<provider, recent>> /\ remote' = remote /\ Known(t)
    BY <1>1, <1>5 DEF Post, provider, BillingInv, PaymentsInv, PaymentsFit
  <2>2. CASE Finish(h) /\ UNCHANGED <<tx, cycle>>
    BY <1>2, <2>1, <2>2, FinishKeeps DEF rows
  <2>3. CASE /\ tx' = Bound /\ cycle' = [cycle EXCEPT ![CycleOf(t)].status = "payment_pending"]
             /\ Go(h, "charged", t, "none") /\ UNCHANGED faults
    <3>1. DatesSame
      BY <1>3, <2>3, StatusOnly
    <3>2. tx' = [tx EXCEPT ![t] = [status |-> remote[t].status, bound |-> TRUE, synced |-> now]]
      BY <2>1, <2>3
    <3> QED
      BY <1>1, <1>2, <2>1, <2>3, <3>1, <3>2, BindKeeps
  <2> QED
    BY <1>5, <2>2, <2>3
<1>6. ASSUME t \notin recent, Post(t), ~tx[t].bound,
             \/ /\ tx' = Bound /\ cycle' = [cycle EXCEPT ![CycleOf(t)].status = "payment_pending"]
                /\ Go(h, "charged", t, "none") /\ UNCHANGED faults
             \/ Finish(h) /\ UNCHANGED <<tx, cycle>>
      PROVE  BillingInv'
  <2>1. ~Known(t)
    BY <1>1, <1>6
  <2>2. tx[t].status = "reserved"
    BY <1>1, <1>2, <1>6, WaitsForPayment
  <2>3. remote'[t].status = "open"
    BY <1>1, <1>6, <2>1, ShapesAre DEF Post, RemoteRows
  <2>4. handler' \in [Handlers -> HandlerRecord] /\ OthersStay(h) /\ HandlerFact(handler[h])'
    BY <1>1, <1>6, <2>3, ChargedStep
  <2>5. (tx' = tx \/ tx' = Bound) /\ DatesSame
    BY <1>3, <1>6, CyclesSame, StatusOnly
  <2> QED
    BY <1>1, <1>2, <1>6, <2>1, <2>2, <2>4, <2>5, PostKeeps
<1> QED
  BY <1>2, <1>4, <1>5, <1>6

-----------------------------------------------------------------------------
(* Dropping renewals, and cancelling *)

\* The rows when attempts without a known payment are dropped.
LEMMA DropRows ==
  ASSUME BillingInv, NEW D \in SUBSET Payments,
         \A u \in D : Tries(u) /\ Renews(u) /\ ~tx[u].bound,
         tx' \in TxRows, dropped' = dropped \cup D,
         \A u \in D : tx'[u].status = "cancelled" /\ (tx'[u].bound <=> tx[u].bound),
         \A u \in Payments : u \notin D => tx'[u] = tx[u],
         DatesSame, UNCHANGED <<provider, recent>>
  PROVE  /\ \A u \in Payments : tx'[u].bound => Known(u)'
         /\ RowsInv' /\ PaymentsInv' /\ Progress /\ \A u \in Payments : Tries(u)' <=> Tries(u)
<1>1. \A u \in Payments : Tries(u)' <=> Tries(u)
  BY DEF Tries
<1>2. \A u \in Payments : Tries(u) => (Renews(u)' <=> Renews(u))
  BY Pairs DEF Renews, DatesSame
<1>3. RowsInv'
  <2>1. RowsFit'
    <3>1. \A u \in dropped' : u \in dropped \/ (Tries(u) /\ Renews(u))
      OBVIOUS
    <3> QED
      BY <1>1, <1>2, <3>1, RowsKeep DEF BillingInv, RowsInv, DatesSame
  <2>2. UnboundRows'
    BY DEF BillingInv, RowsInv, UnboundRows
  <2> QED
    BY <2>1, <2>2 DEF RowsInv
<1>4. PaymentsInv'
  <2>1. PaymentsFit'
    BY <1>1 DEF BillingInv, PaymentsInv, PaymentsFit, Known, provider
  <2>2. OneCollects'
    BY DEF BillingInv, PaymentsInv, OneCollects, SamePeriod, provider
  <2>3. OpenIsUnsettled'
    BY DEF BillingInv, PaymentsInv, OpenIsUnsettled, provider
  <2> QED
    BY <2>1, <2>2, <2>3 DEF PaymentsInv
<1>5. \A u \in Payments : tx'[u].bound => Known(u)'
  BY ShapesAre DEF Known, provider
<1>6. Progress
  BY <1>1, <1>2 DEF Progress, Known, provider
<1> QED
  BY <1>1, <1>3, <1>4, <1>5, <1>6

\* A renewal nobody wants any more is dropped, or one before its time left alone.
LEMMA DropRenewalKeeps ==
  ASSUME BillingInv, NEW h \in Handlers, At(h, "unpaid"), DropRenewal(h, handler[h].t), UNCHANGED <<now, sub, booked>>
  PROVE  BillingInv'
<1> DEFINE t == handler[h].t
<1>1. t \in Payments /\ Tries(t) /\ Renews(t)
  BY DEF At, BillingInv, HandlersFit, HandlerFact, Shapes, HandlerRecord
<1>2. Finish(h) /\ UNCHANGED <<remote, posted, recent, faults>>
  BY DEF DropRenewal
<1>3. CASE UNCHANGED <<tx, cycle, dropped>>
  BY <1>2, <1>3, ShapesAre, FinishKeeps DEF rows, records, provider
<1>4. ASSUME ~tx[t].bound, tx' = [tx EXCEPT ![t].status = "cancelled"],
             cycle' = [cycle EXCEPT ![CycleOf(t)].status = "cancelled"], dropped' = dropped \cup {t}
      PROVE  BillingInv'
  <2> HIDE DEF t
  <2>1. CycleOf(t) \in Cycles /\ cycle[CycleOf(t)].status # "none"
    BY <1>1, Pairs DEF BillingInv, RowsInv, RowsFit
  <2>2. DatesSame
    BY <1>4, <2>1, StatusOnly DEF Refused
  <2>3. /\ tx' \in TxRows /\ tx'[t].status = "cancelled" /\ (tx'[t].bound <=> tx[t].bound)
        /\ \A u \in Payments : u # t => tx'[u] = tx[u]
    BY <1>1, <1>4, ShapesAre DEF TxRows, Refused
  <2>4. /\ \A u \in Payments : tx'[u].bound => Known(u)'
        /\ RowsInv' /\ PaymentsInv' /\ Progress /\ \A u \in Payments : Tries(u)' <=> Tries(u)
    <3> DEFINE D == {t}
    <3>1. /\ D \in SUBSET Payments /\ \A u \in D : Tries(u) /\ Renews(u) /\ ~tx[u].bound
          /\ dropped' = dropped \cup D
          /\ \A u \in D : tx'[u].status = "cancelled" /\ (tx'[u].bound <=> tx[u].bound)
          /\ \A u \in Payments : u \notin D => tx'[u] = tx[u]
      BY <1>1, <1>4, <2>3
    <3> HIDE DEF D
    <3> QED
      BY <1>2, <2>2, <2>3, <3>1, DropRows DEF provider
  <2>5. handler' \in [Handlers -> HandlerRecord] /\ OthersStay(h) /\ HandlerFact(handler[h])'
    BY <1>2, FinishStep DEF BillingInv
  <2>6. HandlersFit'
    BY <2>4, <2>5, HandlersKeep DEF BillingInv
  <2>7. dropped' \subseteq Payments
    BY <1>1, <1>4, ShapesAre
  <2>8. Shapes'
    BY <1>2, <2>2, <2>3, <2>4, <2>5, <2>7, ShapesAre, ShapesKeep DEF DatesSame
  <2>9. MoneyInv'
    <3>1. sub' \in Subscriptions /\ DatesFit(sub')
      BY ShapesAre DEF BillingInv, MoneyInv
    <3> QED
      BY <1>2, <2>2, <2>4, <3>1, MoneyKeeps DEF DatesSame
  <2> QED
    BY <2>4, <2>6, <2>8, <2>9 DEF BillingInv
<1> QED
  BY <1>3, <1>4 DEF DropRenewal

\* The last look at a renewal ends in either.
LEMMA ChargeRenewalKeeps ==
  ASSUME BillingInv, NEW h \in Handlers, ChargeRenewal(h)
  PROVE  BillingInv'
BY PostRenewalKeeps, DropRenewalKeeps DEF ChargeRenewal

\* The customer cancels.
LEMMA CancelKeeps ==
  ASSUME BillingInv, Cancel
  PROVE  BillingInv'
<1> DEFINE D == {t \in Payments : Dropped(t)}
           s == [sub EXCEPT !.autoRenew = FALSE, !.cancelled = TRUE, !.expires = Through, !.graceUntil = 0,
                            !.status = IF Through > now THEN "cancelled" ELSE "expired"]
<1>1. /\ sub' = s /\ dropped' = dropped \cup D
      /\ tx' = [t \in Payments |-> IF t \in D THEN [tx[t] EXCEPT !.status = "cancelled"] ELSE tx[t]]
      /\ cycle' = [c \in Cycles |-> IF \E t \in D : CycleOf(t) = c
                                    THEN [cycle[c] EXCEPT !.status = "cancelled"] ELSE cycle[c]]
      /\ UNCHANGED <<now, booked, provider, recent, handler, faults>>
  BY DEF Cancel
<1>2. \A t \in D : /\ t \in Payments /\ Tries(t) /\ Renews(t) /\ ~tx[t].bound
                   /\ cycle[CycleOf(t)].status # "none"
  BY Pairs, UsedAttempts DEF Dropped, Renews
<1> HIDE DEF D
<1>3. cycle \in CycleRows /\ tx \in TxRows /\ sub \in Subscriptions
  BY ShapesAre
<1>4. DatesSame
  BY <1>1, <1>2, <1>3 DEF DatesSame, CycleRows, Refused
<1>5. /\ tx' \in TxRows
      /\ \A u \in D : tx'[u].status = "cancelled" /\ (tx'[u].bound <=> tx[u].bound)
      /\ \A u \in Payments : u \notin D => tx'[u] = tx[u]
  BY <1>1, <1>2, <1>3 DEF TxRows, Refused
<1>6. /\ \A u \in Payments : tx'[u].bound => Known(u)'
      /\ RowsInv' /\ PaymentsInv' /\ Progress /\ \A u \in Payments : Tries(u)' <=> Tries(u)
  BY <1>1, <1>2, <1>4, <1>5, DropRows
<1>7. sub' \in Subscriptions /\ DatesFit(sub') /\ sub'.paidThrough = sub.paidThrough
  <2>1. Through \in Nat
    BY <1>3 DEF Through, Subscriptions
  <2>2. Through # 0 => sub.paidThrough # 0 /\ GraceUpTo(Through)
    <3>1. DatesFit(sub)
      BY DEF BillingInv, MoneyInv
    <3>2. \A x \in Nat : PaidUpTo(x) => GraceUpTo(x)
      <4>1. \A c \in Cycles : cycle[c].end \in Nat
        BY <1>3 DEF CycleRows
      <4> QED
        BY <4>1, Pairs, BillingAssumption DEF PaidUpTo, GraceUpTo
    <3> QED
      BY <2>1, <3>1, <3>2, ThroughIsPaid
  <2>3. s \in Subscriptions /\ s.paidThrough = sub.paidThrough /\ s.expires = Through /\ s.graceUntil = 0
        /\ s.status \in {"cancelled", "expired"} /\ ~s.autoRenew
    BY <1>3, <2>1 DEF Subscriptions
  <2> HIDE DEF s
  <2>4. DatesFit(s)
    BY <2>2, <2>3 DEF DatesFit, BillingInv, MoneyInv
  <2> QED
    BY <1>1, <2>3, <2>4
<1>8. HandlersFit'
  BY <1>1, <1>6, FactsKeep, ShapesAre DEF BillingInv, HandlersFit
<1>9. dropped' \subseteq Payments
  BY <1>1, <1>2, ShapesAre
<1>10. Shapes'
  BY <1>1, <1>4, <1>5, <1>6, <1>7, <1>9, ShapesAre, ShapesKeep DEF DatesSame, provider
<1>11. MoneyInv'
  BY <1>1, <1>4, <1>6, <1>7, MoneyKeeps DEF DatesSame, provider
<1> QED
  BY <1>6, <1>8, <1>10, <1>11 DEF BillingInv

-----------------------------------------------------------------------------
(* Applying a payment *)

\* The end of the period a payment pays.
PaidEnd(t) ==
  LET c == CycleOf(t) IN IF cycle[c].operation = "initial" THEN remote[t].paidAt + Year ELSE cycle[c].end

\* A paid payment dates its period, and the subscription with it.
LEMMA PaidMoney ==
  ASSUME BillingInv, NEW t \in Payments, remote[t].status = "paid",
         cycle' = [cycle EXCEPT ![CycleOf(t)] = [@ EXCEPT !.status = "paid", !.start = PaidEnd(t) - Year,
                                                          !.end = PaidEnd(t)]],
         sub' = PaidUntil(sub, PaidEnd(t)), UNCHANGED <<now, provider>>,
         \A u \in Payments : Tries(u)' <=> Tries(u)
  PROVE  cycle' \in CycleRows /\ sub' \in Subscriptions /\ MoneyInv'
<1> DEFINE c == CycleOf(t)
           end == PaidEnd(t)
<1>1. /\ cycle \in CycleRows /\ sub \in Subscriptions /\ remote \in RemoteRows /\ c \in Cycles /\ now \in Nat
      /\ Year \in Nat \ {0} /\ Tries(t)
  BY ShapesAre, Pairs, BillingAssumption DEF BillingInv, PaymentsInv, PaymentsFit, Known
<1>2. cycle[c].status # "none" /\ remote[t].paidAt \in Nat /\ remote[t].paidAt <= now
  BY <1>1 DEF RemoteRows, BillingInv, RowsInv, RowsFit, MoneyInv, FirstPeriods
<1>3. CASE Renews(t)
  <2>1. end = cycle[c].end /\ end = cycle[c].start + Year /\ cycle[c].start \in Nat
        /\ cycle[c].operation = "renewal"
    BY <1>1, <1>2, <1>3 DEF PaidEnd, Renews, BillingInv, MoneyInv, RenewalsFit, CycleRows
  <2> QED
    <3>1. end \in Nat /\ end # 0 /\ end - Year \in Nat /\ end - Year = cycle[c].start /\ cycle[c].end <= end
      BY <1>1, <2>1
    <3> HIDE DEF end
    <3>2. /\ cycle' \in CycleRows /\ cycle'[c].start = cycle[c].start /\ cycle'[c].end = end
          /\ cycle'[c].operation = cycle[c].operation
          /\ \A d \in Cycles : d # c => cycle'[d] = cycle[d]
      BY <1>1, <3>1 DEF CycleRows, end
    <3>3. /\ sub' \in Subscriptions /\ sub'.paidThrough = end /\ sub'.expires = end /\ sub'.graceUntil = 0
          /\ sub'.cancelled => ~sub'.autoRenew
      BY <1>1, <3>1 DEF PaidUntil, Subscriptions, end
    <3>4. PaidStays
      BY <1>1, <3>1, <3>2, Pairs DEF PaidStays, provider, CycleRows
    <3>5. DatesFit(sub)'
      <4>1. t \in Payments /\ remote'[t].status = "paid" /\ cycle'[CycleOf(t)].end = end /\ end <= end + Grace
        BY <3>1, <3>2, BillingAssumption DEF provider
      <4>2. PaidUpTo(sub.paidThrough)' /\ GraceUpTo(sub.expires)'
        BY <3>1, <3>3, <4>1 DEF PaidUpTo, GraceUpTo
      <4> QED
        BY <3>1, <3>3, <4>2 DEF DatesFit
    <3>6. RenewalsFit'
      BY <1>2, <2>1, <3>1, <3>2, <3>3, <3>4, RenewalsStay
    <3>7. FirstPeriods'
      <4>1. \A d \in Cycles : cycle'[d].end = cycle[d].end /\ cycle'[d].operation = cycle[d].operation
        BY <2>1, <3>2
      <4> QED
        BY <4>1, Pairs DEF BillingInv, MoneyInv, FirstPeriods, Renews, provider
    <3> QED
      BY <3>2, <3>3, <3>5, <3>6, <3>7 DEF MoneyInv
<1>4. CASE ~Renews(t)
  <2>1. end = remote[t].paidAt + Year /\ cycle[c].operation = "initial"
    BY <1>1, <1>4 DEF PaidEnd, Renews, CycleRows
  <2>2. cycle[c].end <= end
    BY <1>4, <2>1 DEF BillingInv, MoneyInv, FirstPeriods
  <2>3. end \in Nat /\ end # 0 /\ end - Year \in Nat /\ end <= now + Year
    BY <1>1, <1>2, <2>1
  <2>4. \A u \in Payments : CycleOf(u) = c /\ Tries(u) => u = t
    BY <1>1, <2>1, Pairs DEF BillingInv, RowsInv, RowsFit, Renews
  <2> HIDE DEF end
  <2>5. /\ cycle' \in CycleRows /\ cycle'[c].end = end
        /\ cycle'[c].operation = "initial"
        /\ \A d \in Cycles : d # c => cycle'[d] = cycle[d]
    BY <1>1, <2>1, <2>3 DEF CycleRows, end
  <2>6. /\ sub' \in Subscriptions /\ sub'.paidThrough = end /\ sub'.expires = end /\ sub'.graceUntil = 0
        /\ sub'.cancelled => ~sub'.autoRenew
    BY <1>1, <2>3 DEF PaidUntil, Subscriptions, end
  <2>7. PaidStays
    BY <1>1, <2>2, <2>5, Pairs DEF PaidStays, provider, CycleRows
  <2>8. DatesFit(sub)'
    <3>1. t \in Payments /\ remote'[t].status = "paid" /\ cycle'[CycleOf(t)].end = end /\ end <= end + Grace
      BY <2>3, <2>5, BillingAssumption DEF provider
    <3>2. PaidUpTo(sub.paidThrough)' /\ GraceUpTo(sub.expires)'
      BY <2>3, <2>6, <3>1 DEF PaidUpTo, GraceUpTo
    <3> QED
      BY <2>3, <2>6, <3>2 DEF DatesFit
  <2>9. RenewalsFit'
    BY <2>3, <2>5, <2>6, <2>7, RenewalsStay
  <2>10. FirstPeriods'
    <3> SUFFICES ASSUME NEW u \in Payments
        PROVE  /\ remote'[u].paidAt <= now'
               /\ ~Renews(u)' /\ Tries(u)' => cycle'[CycleOf(u)].end <= now' + Year
               /\ ~Renews(u)' /\ remote'[u].status = "paid" =>
                    cycle'[CycleOf(u)].end <= remote'[u].paidAt + Year
      BY DEF FirstPeriods
    <3>1. now' = now /\ remote' = remote /\ (remote[u].status = "paid" => Tries(u))
      BY DEF provider, BillingInv, PaymentsInv, PaymentsFit, Known
    <3>2. CASE CycleOf(u) = c
      BY <3>1, <3>2, <1>1, <2>1, <2>3, <2>4, <2>5 DEF BillingInv, MoneyInv, FirstPeriods
    <3>3. CASE CycleOf(u) # c
      BY <3>1, <3>3, <2>5, Pairs DEF BillingInv, MoneyInv, FirstPeriods, Renews
    <3> QED
      BY <3>2, <3>3
  <2> QED
    BY <2>5, <2>6, <2>8, <2>9, <2>10 DEF MoneyInv
<1> QED
  BY <1>3, <1>4

\* What a handler that has fetched a payment is about to write.
LEMMA FetchedFact ==
  ASSUME BillingInv, NEW h \in Handlers, At(h, "fetched")
  PROVE  /\ handler[h].t \in Payments /\ Known(handler[h].t)
         /\ handler[h].seen \in {"open", remote[handler[h].t].status}
         /\ CycleOf(handler[h].t) \in Cycles /\ cycle[CycleOf(handler[h].t)].status # "none"
<1>1. /\ handler[h].t \in Payments /\ Known(handler[h].t)
      /\ handler[h].seen \in {"open", remote[handler[h].t].status}
  BY DEF At, BillingInv, HandlersFit, HandlerFact, Shapes, HandlerRecord
<1> QED
  BY <1>1, Pairs DEF BillingInv, PaymentsInv, PaymentsFit, RowsInv, RowsFit

\* A paid payment is applied.
LEMMA ApplyPaidKeeps ==
  ASSUME BillingInv, NEW h \in Handlers, ApplyPayment(h), handler[h].seen = "paid"
  PROVE  BillingInv'
<1> DEFINE t == handler[h].t
           c == CycleOf(t)
<1>1. /\ t \in Payments /\ Known(t) /\ remote[t].status = "paid" /\ "paid" \in {"open", remote[t].status}
      /\ c \in Cycles /\ cycle[c].status # "none"
  BY FetchedFact DEF ApplyPayment
<1>2. /\ tx' = [tx EXCEPT ![t] = [status |-> "paid", bound |-> TRUE, synced |-> now]]
      /\ cycle' = [cycle EXCEPT ![c] = [@ EXCEPT !.status = "paid", !.start = PaidEnd(t) - Year,
                                                 !.end = PaidEnd(t)]]
      /\ sub' = PaidUntil(sub, PaidEnd(t)) /\ booked' = booked \cup {c}
      /\ Finish(h) /\ UNCHANGED <<now, dropped, provider, recent, faults>>
  BY DEF ApplyPayment, ApplyPaid, PaidEnd
<1> HIDE DEF t
<1>3. /\ \A d \in Cycles : cycle[d].status # "none" =>
           cycle'[d].status # "none" /\ cycle'[d].operation = cycle[d].operation
      /\ \A d \in Cycles : cycle'[d].status # "none" => cycle[d].status # "none"
  BY <1>1, <1>2, ShapesAre DEF CycleRows
<1>4. /\ tx' \in TxRows /\ \A u \in Payments : tx'[u].bound => Known(u)'
      /\ RowsInv' /\ PaymentsInv' /\ Progress /\ \A u \in Payments : Tries(u)' <=> Tries(u)
  BY <1>1, <1>2, <1>3, BindRows
<1>5. cycle' \in CycleRows /\ sub' \in Subscriptions /\ MoneyInv'
  BY <1>1, <1>2, <1>4, PaidMoney
<1>6. handler' \in [Handlers -> HandlerRecord] /\ HandlersFit'
  BY <1>2, <1>4, FinishStep, HandlersKeep DEF BillingInv
<1>7. Shapes'
  BY <1>1, <1>2, <1>4, <1>5, <1>6, ShapesAre, ShapesKeep DEF provider
<1> QED
  BY <1>4, <1>5, <1>6, <1>7 DEF BillingInv

\* An open or refused payment is applied.
LEMMA ApplyUnpaidKeeps ==
  ASSUME BillingInv, NEW h \in Handlers, ApplyPayment(h), handler[h].seen # "paid"
  PROVE  BillingInv'
<1> DEFINE t == handler[h].t
           seen == handler[h].seen
           c == CycleOf(t)
           status == IF seen \in Refused THEN seen ELSE "payment_pending"
<1>1. /\ t \in Payments /\ Known(t) /\ seen \in {"open", remote[t].status}
      /\ c \in Cycles /\ cycle[c].status # "none"
  BY FetchedFact DEF ApplyPayment
<1>2. /\ tx' = [tx EXCEPT ![t] = [status |-> seen, bound |-> TRUE, synced |-> now]]
      /\ cycle' = [cycle EXCEPT ![c].status = status]
      /\ sub' = IF cycle[c].operation = "renewal" /\ (seen \in Refused \/ cycle[c].start <= now)
                THEN InGrace(sub, cycle[c].start)
                ELSE [sub EXCEPT !.status = "pending"]
      /\ Finish(h) /\ UNCHANGED <<now, records, provider, recent, faults>>
  BY DEF ApplyPayment, ApplyUnpaid, records
<1> HIDE DEF t, seen
<1>3. DatesSame
  BY <1>1, <1>2, StatusOnly
<1>4. /\ tx' \in TxRows /\ \A u \in Payments : tx'[u].bound => Known(u)'
      /\ RowsInv' /\ PaymentsInv' /\ Progress /\ \A u \in Payments : Tries(u)' <=> Tries(u)
  BY <1>1, <1>2, <1>3, BindRows DEF DatesSame, records
<1>5. sub' \in Subscriptions /\ DatesFit(sub') /\ sub'.paidThrough = sub.paidThrough
  <2>1. CASE cycle[c].operation = "renewal" /\ sub' = InGrace(sub, cycle[c].start)
    <3>1. /\ sub.paidThrough # 0 /\ cycle[c].start # 0 /\ PaidUpTo(cycle[c].start) /\ cycle[c].start \in Nat
      BY <1>1, <2>1, ShapesAre DEF BillingInv, MoneyInv, RenewalsFit, CycleRows
    <3> QED
      BY <2>1, <3>1, GraceFits
  <2>2. CASE sub' = [sub EXCEPT !.status = "pending"]
    <3>1. sub \in Subscriptions /\ DatesFit(sub)
      BY ShapesAre DEF BillingInv, MoneyInv
    <3> QED
      BY <2>2, <3>1 DEF Subscriptions, DatesFit
  <2> QED
    BY <1>2, <2>1, <2>2
<1>6. MoneyInv'
  BY <1>2, <1>3, <1>4, <1>5, MoneyKeeps DEF DatesSame, provider
<1>7. handler' \in [Handlers -> HandlerRecord] /\ HandlersFit'
  BY <1>2, <1>4, FinishStep, HandlersKeep DEF BillingInv
<1>8. Shapes'
  BY <1>2, <1>3, <1>4, <1>5, <1>7, ShapesAre, ShapesKeep DEF DatesSame, provider, records
<1> QED
  BY <1>4, <1>6, <1>7, <1>8 DEF BillingInv

-----------------------------------------------------------------------------
(* Around the handlers *)

\* Mollie settles a payment.
LEMMA SettleRemoteKeeps ==
  ASSUME BillingInv, SettleRemote
  PROVE  BillingInv'
<1>1. PICK t \in Payments, verdict \in Verdicts :
        /\ remote[t].status = "open"
        /\ remote' = [remote EXCEPT ![t] = [status |-> verdict,
                                            paidAt |-> IF verdict = "paid" THEN now ELSE 0]]
        /\ UNCHANGED <<now, rows, posted, recent, handler, faults>>
  BY DEF SettleRemote, Open
<1>2. remote \in RemoteRows /\ now \in Nat /\ verdict \in {"paid", "failed", "cancelled"} /\ Year \in Nat
  BY ShapesAre, BillingAssumption
<1>3. UNCHANGED <<sub, cycle, tx, booked, dropped>>
  BY <1>1 DEF rows, records
<1>4. /\ remote' \in RemoteRows /\ remote'[t].status = verdict
      /\ remote'[t].paidAt = IF verdict = "paid" THEN now ELSE 0
      /\ \A u \in Payments : u # t => remote'[u] = remote[u]
  BY <1>1, <1>2 DEF RemoteRows, Refused
<1>5. \A u \in Payments : /\ Known(u)' <=> Known(u)
                          /\ remote'[u].status = "open" => remote[u].status = "open"
                          /\ remote[u].status # "open" => remote'[u] = remote[u]
  BY <1>1, <1>2, <1>4 DEF Known
<1>6. Shapes'
  BY <1>1, <1>3, <1>4, <1>5, ShapesAre, ShapesKeep
<1>7. RowsInv'
  BY <1>3 DEF BillingInv, RowsInv, RowsFit, UnboundRows, Tries, Renews
<1>8. PaymentsInv'
  <2>1. PaymentsFit'
    BY <1>1, <1>3, <1>5 DEF BillingInv, PaymentsInv, PaymentsFit, Tries
  <2>2. OneCollects' /\ OpenIsUnsettled'
    BY <1>3, <1>5 DEF BillingInv, PaymentsInv, OneCollects, OpenIsUnsettled
  <2> QED
    BY <2>1, <2>2 DEF PaymentsInv
<1>9. HandlersFit'
  <2>1. Progress
    BY <1>1, <1>3, <1>5 DEF Progress, Tries, Renews
  <2> QED
    BY <1>1, <2>1, FactsKeep, ShapesAre DEF BillingInv, HandlersFit
<1>10. MoneyInv'
  <2>1. cycle \in CycleRows /\ cycle' \in CycleRows /\ sub \in Subscriptions
    BY <1>3, ShapesAre
  <2>2. PaidStays
    BY <1>3, <1>5, <2>1, Pairs DEF PaidStays, CycleRows
  <2>3. DatesFit(sub)' /\ RenewalsFit'
    BY <1>3, <2>1, <2>2, DatesStay, RenewalsStay DEF BillingInv, MoneyInv
  <2>4. FirstPeriods'
    <3> SUFFICES ASSUME NEW u \in Payments
        PROVE  /\ remote'[u].paidAt <= now'
               /\ ~Renews(u)' /\ Tries(u)' => cycle'[CycleOf(u)].end <= now' + Year
               /\ ~Renews(u)' /\ remote'[u].status = "paid" =>
                    cycle'[CycleOf(u)].end <= remote'[u].paidAt + Year
      BY DEF FirstPeriods
    <3>1. /\ now' = now /\ cycle' = cycle /\ (Tries(u)' <=> Tries(u)) /\ (Renews(u)' <=> Renews(u))
          /\ remote[u].paidAt <= now
          /\ ~Renews(u) /\ Tries(u) => cycle[CycleOf(u)].end <= now + Year
          /\ ~Renews(u) /\ remote[u].status = "paid" => cycle[CycleOf(u)].end <= remote[u].paidAt + Year
      BY <1>1, <1>3 DEF BillingInv, MoneyInv, FirstPeriods, Tries, Renews
    <3>2. CASE u = t
      <4>1. Tries(t)
        BY <1>1 DEF BillingInv, PaymentsInv, PaymentsFit, Known
      <4> QED
        BY <3>1, <3>2, <4>1, <1>2, <1>4
    <3>3. CASE u # t
      BY <3>1, <3>3, <1>4
    <3> QED
      BY <3>2, <3>3
  <2> QED
    BY <2>3, <2>4 DEF MoneyInv
<1> QED
  BY <1>6, <1>7, <1>8, <1>9, <1>10 DEF BillingInv

\* Time passes between the handlers.
LEMMA TickKeeps ==
  ASSUME BillingInv, Tick
  PROVE  BillingInv'
<1>1. /\ now' = now + 1 /\ recent' = {} /\ \A h \in Handlers : handler[h].pc = "idle"
      /\ UNCHANGED <<sub, cycle, tx, booked, dropped, remote, posted, handler, faults>>
  BY DEF Tick, At, rows, records, provider
<1>2. Shapes'
  BY <1>1, ShapesAre, ShapesKeep DEF Known
<1>3. RowsInv'
  BY <1>1 DEF BillingInv, RowsInv, RowsFit, UnboundRows, Tries, Renews
<1>4. PaymentsInv'
  BY <1>1 DEF BillingInv, PaymentsInv, PaymentsFit, OneCollects, OpenIsUnsettled, Known, Tries
<1>5. HandlersFit'
  BY <1>1 DEF HandlersFit, HandlerFact
<1>6. MoneyInv'
  <2>1. DatesFit(sub)' /\ RenewalsFit'
    BY <1>1 DEF BillingInv, MoneyInv, DatesFit, RenewalsFit, PaidUpTo, GraceUpTo
  <2>2. FirstPeriods'
    <3> SUFFICES ASSUME NEW u \in Payments
        PROVE  /\ remote'[u].paidAt <= now'
               /\ ~Renews(u)' /\ Tries(u)' => cycle'[CycleOf(u)].end <= now' + Year
               /\ ~Renews(u)' /\ remote'[u].status = "paid" =>
                    cycle'[CycleOf(u)].end <= remote'[u].paidAt + Year
      BY DEF FirstPeriods
    <3>1. now \in Nat /\ Year \in Nat /\ remote[u].paidAt \in Nat /\ cycle[CycleOf(u)].end \in Nat
      BY ShapesAre, Pairs, BillingAssumption DEF RemoteRows, CycleRows
    <3> QED
      BY <1>1, <3>1 DEF BillingInv, MoneyInv, FirstPeriods, Tries, Renews
  <2> QED
    BY <2>1, <2>2 DEF MoneyInv
<1> QED
  BY <1>2, <1>3, <1>4, <1>5, <1>6 DEF BillingInv

-----------------------------------------------------------------------------
(* The invariant *)

\* The invariant holds at first.
LEMMA InitInv ==
  ASSUME Init
  PROVE  BillingInv
<1>1. Idle \in HandlerRecord
  BY Pairs, BillingAssumption DEF Idle, HandlerRecord, Cycles, Attempts
<1>2. /\ \A t \in Payments : /\ tx[t].status = "none" /\ ~tx[t].bound /\ tx[t].synced = 0
                             /\ remote[t].status = "none" /\ remote[t].paidAt = 0 /\ posted[t] = 0
      /\ \A c \in Cycles : cycle[c].status = "none"
      /\ \A h \in Handlers : handler[h] = Idle
  BY DEF Init
<1>3. Shapes
  BY <1>1, <1>2 DEF Init, Shapes, TypeOK, HandlerRecord, Open, Unsettled, Refused
<1>4. RowsInv
  BY <1>2 DEF Init, RowsInv, RowsFit, UnboundRows, Tries
<1>5. PaymentsInv
  BY <1>2 DEF Init, PaymentsInv, PaymentsFit, OneCollects, OpenIsUnsettled, Known
<1>6. HandlersFit
  BY <1>2 DEF HandlersFit, HandlerFact, Idle
<1>7. MoneyInv
  BY <1>2, BillingAssumption DEF Init, MoneyInv, DatesFit, RenewalsFit, FirstPeriods, Tries
<1> QED
  BY <1>3, <1>4, <1>5, <1>6, <1>7 DEF BillingInv

\* Every step keeps it.
LEMMA NextInv ==
  ASSUME BillingInv, [Next]_vars
  PROVE  BillingInv'
<1>1. CASE \E h \in Handlers : Checkout(h)
  BY <1>1, StartCheckoutKeeps, ReserveInitialKeeps, LookUpInitialKeeps, PostInitialKeeps, BindStepKeeps
     DEF Checkout
<1>2. CASE \E h \in Handlers : Renewal(h)
  BY <1>2, ReserveRenewalKeeps, LookUpRenewalKeeps, ChargeRenewalKeeps, BindStepKeeps DEF Renewal
<1>3. CASE \E h \in Handlers : Booking(h)
  BY <1>3, FetchKeeps, ApplyPaidKeeps, ApplyUnpaidKeeps DEF Booking
<1>4. CASE \E h \in Handlers : TaxUnavailable(h) \/ ValidationGrace(h) \/ Fail(h)
  BY <1>4, UntaxedKeeps, ValidationGraceKeeps, FailKeeps
<1>5. CASE Cancel
  BY <1>5, CancelKeeps
<1>6. CASE Enable
  BY <1>6, EnableKeeps
<1>7. CASE SettleRemote
  BY <1>7, SettleRemoteKeeps
<1>8. CASE Tick
  BY <1>8, TickKeeps
<1>9. CASE UNCHANGED vars
  <2>1. UNCHANGED <<now, sub, cycle, tx, remote, posted, recent, booked, dropped, handler, faults>>
    BY <1>9 DEF vars
  <2> QED
    BY SMTT(30), <2>1, FactsKeep, ShapesAre DEF BillingInv, Shapes, TypeOK, HandlersFit, HandlerFact, RowsInv, RowsFit,
       UnboundRows, Tries, Renews, PaymentsInv, PaymentsFit, OneCollects, OpenIsUnsettled, Known,
       MoneyInv, DatesFit, RenewalsFit, FirstPeriods, PaidUpTo, GraceUpTo
<1> QED
  BY <1>1, <1>2, <1>3, <1>4, <1>5, <1>6, <1>7, <1>8, <1>9 DEF Next

\* The rows, Mollie's payments, what the handlers know and the paid dates fit together.
THEOREM BillingInvariant == Spec => []BillingInv
<1>1. Init => BillingInv
  BY InitInv
<1>2. BillingInv /\ [Next]_vars => BillingInv'
  BY NextInv
<1> QED
  BY <1>1, <1>2, PTL DEF Spec

\* The rows keep their shapes, and a bound transaction has a payment at Mollie.
THEOREM BillingTypeCorrect == Spec => []TypeOK
<1>1. BillingInv => TypeOK
  BY DEF BillingInv, Shapes
<1> QED
  BY <1>1, BillingInvariant, PTL

\* Pro is never free (services/billing.py, subscription_is_entitled): every date the row
\* grants Pro until goes back to a period Mollie reports as paid, or to the grace after it.
THEOREM EntitledIsPaidFor == Spec => []EntitledIsCovered
<1>1. BillingInv => EntitledIsCovered
  <2> SUFFICES ASSUME BillingInv, Entitled
      PROVE  \E t \in Payments : remote[t].status = "paid" /\ now < cycle[CycleOf(t)].end + Grace
    BY DEF EntitledIsCovered
  <2>1. sub.expires # 0 /\ now < sub.expires /\ sub.expires \in Nat /\ now \in Nat
    BY ShapesAre DEF Entitled, BillingInv, MoneyInv, DatesFit, Subscriptions
  <2>2. PICK t \in Payments : remote[t].status = "paid" /\ sub.expires <= cycle[CycleOf(t)].end + Grace
    BY <2>1 DEF BillingInv, MoneyInv, DatesFit, GraceUpTo
  <2>3. cycle[CycleOf(t)].end + Grace \in Nat
    BY ShapesAre, Pairs, BillingAssumption DEF CycleRows
  <2> QED
    BY <2>1, <2>2, <2>3
<1> QED
  BY <1>1, BillingInvariant, PTL

-----------------------------------------------------------------------------
(* What a step may do *)

\* The subscription's row when a payment is applied after a cancellation.
LEMMA CancellationStays ==
  ASSUME BillingInv, sub.cancelled, [Next]_vars, sub'.autoRenew
  PROVE  tx' = tx
<1>1. ~sub.autoRenew /\ sub \in Subscriptions
  BY ShapesAre DEF BillingInv, MoneyInv, DatesFit
<1>2. CASE \E h \in Handlers : Checkout(h)
  BY <1>1, <1>2 DEF Checkout, StartCheckout, ReserveInitial, LookUpInitial, PostInitial, BindInitial, rows,
     Subscriptions
<1>3. CASE \E h \in Handlers : Renewal(h)
  BY <1>1, <1>3 DEF Renewal, ReserveRenewal, RenewalDue, Overdue, LookUpRenewal, ChargeRenewal, BindRenewal,
     rows
<1>4. CASE \E h \in Handlers : Booking(h)
  <2>1. CASE \E h \in Handlers : ApplyPayment(h)
    <3>1. PICK h \in Handlers : ApplyPayment(h)
      BY <2>1
    <3> DEFINE c == CycleOf(handler[h].t)
    <3>2. \/ \E end : sub' = PaidUntil(sub, end)
          \/ sub' = InGrace(sub, cycle[c].start)
          \/ sub' = [sub EXCEPT !.status = "pending"]
      BY <3>1 DEF ApplyPayment, ApplyPaid, ApplyUnpaid
    <3>3. ~sub'.autoRenew
      BY <1>1, <3>2 DEF PaidUntil, InGrace, Subscriptions
    <3> QED
      BY <3>3
  <2>2. CASE \E h \in Handlers : Webhook(h) \/ SyncPayment(h) \/ FetchPayment(h)
    BY <2>2 DEF Webhook, SyncPayment, FetchPayment, rows
  <2> QED
    BY <1>4, <2>1, <2>2 DEF Booking
<1>5. CASE \E h \in Handlers : TaxUnavailable(h) \/ ValidationGrace(h) \/ Fail(h)
  BY <1>5 DEF TaxUnavailable, ValidationGrace, Fail, rows
<1>6. CASE Cancel
  BY <1>1, <1>6 DEF Cancel, Subscriptions
<1>7. CASE Enable \/ SettleRemote \/ Tick \/ UNCHANGED vars
  BY <1>7 DEF Enable, SettleRemote, Tick, vars, rows
<1> QED
  BY <1>2, <1>3, <1>4, <1>5, <1>6, <1>7 DEF Next

\* A cancellation survives every payment applied after it (_preserve_cancelled_state):
\* only the customer turns the renewal on again.
THEOREM CancellationIsKept == Spec => CancellationSticks
<1>1. BillingInv /\ [Next]_vars => [sub.cancelled /\ sub'.autoRenew => tx' = tx]_vars
  BY CancellationStays
<1> QED
  BY <1>1, BillingInvariant, PTL DEF Spec, CancellationSticks

\* Which steps change what was posted.
LEMMA PostsAre ==
  ASSUME BillingInv, [Next]_vars, posted' # posted
  PROVE  \E h \in Handlers :
           /\ handler[h].t \in Payments /\ Post(handler[h].t) /\ handler[h].t \notin recent
           /\ tx[handler[h].t].status = "reserved" /\ ~Known(handler[h].t)
           /\ Renews(handler[h].t) => sub.autoRenew
           /\ UNCHANGED dropped
<1>1. PICK h \in Handlers : PostInitial(h) \/ (At(h, "unpaid") /\ PostRenewal(h, handler[h].t))
  <2>1. CASE \E h \in Handlers : Checkout(h)
    BY <2>1 DEF Checkout, StartCheckout, ReserveInitial, LookUpInitial, BindInitial, provider
  <2>2. CASE \E h \in Handlers : Renewal(h)
    BY <2>2 DEF Renewal, ReserveRenewal, LookUpRenewal, ChargeRenewal, DropRenewal, BindRenewal, provider
  <2>3. CASE \E h \in Handlers : Booking(h)
    BY <2>3 DEF Booking, Webhook, SyncPayment, FetchPayment, ApplyPayment, provider
  <2>4. CASE \E h \in Handlers : TaxUnavailable(h) \/ ValidationGrace(h) \/ Fail(h)
    BY <2>4 DEF TaxUnavailable, ValidationGrace, Fail, provider
  <2>5. CASE Cancel \/ Enable \/ SettleRemote \/ Tick \/ UNCHANGED vars
    BY <2>5 DEF Cancel, Enable, SettleRemote, Tick, vars, provider
  <2> QED
    BY <2>1, <2>2, <2>3, <2>4, <2>5 DEF Next
<1> DEFINE t == handler[h].t
<1>2. t \in Payments /\ Tries(t) /\ (Known(t) => t \in recent)
  BY <1>1 DEF PostInitial, At, BillingInv, HandlersFit, HandlerFact, Shapes, HandlerRecord
<1>3. CASE PostInitial(h)
  <2>1. ~Renews(t)
    BY <1>3 DEF PostInitial, At, BillingInv, HandlersFit, HandlerFact
  <2>2. Post(t) /\ t \notin recent
    BY <1>3 DEF PostInitial, Post
  <2>3. tx[t].status = "reserved"
    BY <1>2, <2>1, <2>2, ShapesAre, WaitsForPayment
  <2> QED
    BY <1>2, <1>3, <2>1, <2>2, <2>3 DEF PostInitial, rows, records
<1>4. CASE At(h, "unpaid") /\ PostRenewal(h, t)
  <2>1. Post(t) /\ t \notin recent /\ ~tx[t].bound /\ sub.autoRenew /\ tx[t].status # "cancelled"
        /\ UNCHANGED dropped
    BY <1>4 DEF PostRenewal, Post, Unwanted
  <2>2. tx[t].status = "reserved"
    BY <1>2, <2>1, WaitsForPayment
  <2> QED
    BY <1>2, <2>1, <2>2
<1> QED
  BY <1>1, <1>3, <1>4

\* The last look under the row's lock (mollie_billing_runtime.py): no renewal is charged
\* that the customer does not want when it is charged.
THEOREM RenewalsAreWanted == Spec => ChargesAreWanted
<1>1. ASSUME BillingInv, [Next]_vars, NEW t \in Payments, posted'[t] # posted[t], Renews(t)
      PROVE  sub.autoRenew
  <2>1. PICK h \in Handlers : /\ handler[h].t \in Payments /\ Post(handler[h].t) /\ handler[h].t \notin recent
                              /\ Renews(handler[h].t) => sub.autoRenew
    BY <1>1, PostsAre
  <2>2. t = handler[h].t
    BY <1>1, <2>1, ShapesAre DEF Post
  <2> QED
    BY <1>1, <2>1, <2>2
<1>2. BillingInv /\ [Next]_vars =>
        [\A t \in Payments : posted'[t] # posted[t] /\ cycle[CycleOf(t)].operation = "renewal" =>
           sub.autoRenew]_vars
  BY <1>1 DEF Renews
<1> QED
  BY <1>2, BillingInvariant, PTL DEF Spec, ChargesAreWanted

-----------------------------------------------------------------------------
(* The payments follow the ledger *)

\* A cycle is collected while a payment for it can be paid that no cancellation dropped.
LEMMA AccountIs ==
  ASSUME NEW c \in Cycles
  PROVE  /\ AccountOf(c) \in {"due", "collecting"}
         /\ AccountOf(c) = "collecting" <=>
              \E t \in Payments : CycleOf(t) = c /\ remote[t].status = "open" /\ t \notin dropped
BY ZenonT(40), Pairs DEF AccountOf, Open

\* A step that posts nothing opens nothing.
LEMMA NothingOpens ==
  ASSUME BillingInv, [Next]_vars, posted' = posted
  PROVE  \A t \in Payments :
           /\ remote'[t].status = "open" => remote[t].status = "open"
           /\ t \in dropped => t \in dropped'
<1> SUFFICES ASSUME NEW t \in Payments
    PROVE  /\ remote'[t].status = "open" => remote[t].status = "open"
           /\ t \in dropped => t \in dropped'
  OBVIOUS
<1>1. \A u \in Payments : posted[u] \in Nat /\ Verdicts \subseteq {"paid", "failed", "cancelled"}
  BY ShapesAre, BillingAssumption
<1>2. ASSUME NEW u \in Payments, Post(u) PROVE UNCHANGED remote
  BY <1>1, <1>2, ShapesAre DEF Post
<1>3. CASE \E h \in Handlers : Checkout(h)
  BY <1>2, <1>3, ShapesAre DEF Checkout, StartCheckout, ReserveInitial, LookUpInitial, PostInitial, BindInitial,
     provider, rows, records, HandlerRecord
<1>4. CASE \E h \in Handlers : Renewal(h)
  BY <1>2, <1>4, ShapesAre DEF Renewal, ReserveRenewal, ReserveAttempt, LookUpRenewal, ChargeRenewal,
     DropRenewal, PostRenewal, BindRenewal, provider, rows, records, HandlerRecord
<1>5. CASE \E h \in Handlers : Booking(h)
  BY <1>5 DEF Booking, Webhook, SyncPayment, FetchPayment, ApplyPayment, provider, rows, records
<1>6. CASE \E h \in Handlers : TaxUnavailable(h) \/ ValidationGrace(h) \/ Fail(h)
  BY <1>6 DEF TaxUnavailable, ValidationGrace, Fail, provider, rows, records
<1>7. CASE SettleRemote
  BY <1>1, <1>7, ShapesAre DEF SettleRemote, rows, records, RemoteRows
<1>8. CASE Cancel \/ Enable \/ Tick \/ UNCHANGED vars
  BY <1>8 DEF Cancel, Enable, Tick, vars, provider, rows, records
<1> QED
  BY <1>3, <1>4, <1>5, <1>6, <1>7, <1>8 DEF Next

\* The collection of one cycle begins with the payment that is posted.
LEMMA ChargeIsCharge ==
  ASSUME BillingInv, [Next]_vars, posted' # posted
  PROVE  \E c \in Cycles, a \in Attempts : Ledger!Charge(c, a)
<1>1. PICK h \in Handlers :
        /\ handler[h].t \in Payments /\ Post(handler[h].t) /\ handler[h].t \notin recent
        /\ tx[handler[h].t].status = "reserved" /\ ~Known(handler[h].t)
        /\ UNCHANGED dropped
  BY PostsAre
<1>2. PICK c \in Cycles, a \in Attempts : handler[h].t = <<c, a>>
  BY <1>1, Pairs
<1> DEFINE t == <<c, a>>
           account == [d \in Cycles |-> AccountOf(d)]
           charges == [d \in Cycles |-> [b \in Attempts |-> posted[<<d, b>>]]]
<1>3. t \in Payments /\ CycleOf(t) = c /\ posted[t] = 0 /\ t \notin dropped
  BY <1>1, <1>2, Pairs DEF BillingInv, PaymentsInv, PaymentsFit, RowsInv, UnboundRows
<1>4. AccountOf(c) = "due"
  <2>1. ASSUME NEW u \in Payments, CycleOf(u) = c, remote[u].status = "open" PROVE u \in dropped
    <3>1. u # t
      BY <1>1, <1>2, <2>1 DEF Known
    <3> QED
      BY <1>1, <1>2, <1>3, <2>1, <3>1 DEF BillingInv, PaymentsInv, OneCollects, SamePeriod
  <2> QED
    BY <2>1, AccountIs
<1>5. /\ remote'[t].status = "open" /\ posted'[t] = 1
      /\ \A u \in Payments : u # t => remote'[u] = remote[u] /\ posted'[u] = posted[u]
  BY <1>1, <1>2, <1>3, ShapesAre DEF Post, RemoteRows
<1>6. AccountOf(c)' = "collecting"
  BY <1>1, <1>3, <1>5 DEF AccountOf, Open
<1>7. \A d \in Cycles : d # c => AccountOf(d)' = AccountOf(d)
  BY <1>1, <1>5, Pairs DEF AccountOf
<1>8. account' = [account EXCEPT ![c] = "collecting"]
  BY <1>6, <1>7
<1>9. charges' = [charges EXCEPT ![c][a] = 1]
  <2>1. [b \in Attempts |-> posted'[<<c, b>>]] = [[b \in Attempts |-> posted[<<c, b>>]] EXCEPT ![a] = 1]
    BY <1>5, Pairs
  <2>2. \A d \in Cycles : d # c => [b \in Attempts |-> posted'[<<d, b>>]] = [b \in Attempts |-> posted[<<d, b>>]]
    BY <1>5, Pairs
  <2>3. charges' = [d \in Cycles |-> [b \in Attempts |-> posted'[<<d, b>>]]]
    OBVIOUS
  <2>4. charges'[c] = [charges[c] EXCEPT ![a] = 1] /\ \A d \in Cycles : d # c => charges'[d] = charges[d]
    BY <2>1, <2>2, <2>3
  <2>5. charges = [d \in Cycles |-> charges[d]] /\ charges' = [d \in Cycles |-> charges'[d]]
    OBVIOUS
  <2> HIDE DEF charges
  <2> QED
    BY <2>4, <2>5
<1>10. account[c] = "due" /\ charges[c][a] = 0
  BY <1>3, <1>4
<1> QED
  BY <1>8, <1>9, <1>10 DEF Ledger!Charge

\* Any other step settles the periods that are not collected any more.
LEMMA OtherIsSettle ==
  ASSUME BillingInv, [Next]_vars, posted' = posted
  PROVE  \E S \in SUBSET Cycles : Ledger!Settle(S)
<1> DEFINE S == {c \in Cycles : AccountOf(c)' = "due"}
<1>1. ASSUME NEW c \in Cycles PROVE AccountOf(c)' = IF c \in S THEN "due" ELSE AccountOf(c)
  <2>1. \A t \in Payments : remote'[t].status = "open" /\ t \notin dropped' =>
          remote[t].status = "open" /\ t \notin dropped
    BY NothingOpens
  <2>2. AccountOf(c)' = "collecting" => AccountOf(c) = "collecting"
    BY <2>1, Pairs DEF AccountOf, Open
  <2>3. AccountOf(c)' = "collecting" \/ AccountOf(c)' = "due"
    BY DEF AccountOf
  <2> QED
    BY <2>2, <2>3
<1> HIDE DEF S
<1>2. [c \in Cycles |-> AccountOf(c)]' =
        [c \in Cycles |-> IF c \in S THEN "due" ELSE [d \in Cycles |-> AccountOf(d)][c]]
  BY <1>1
<1>3. Ledger!Settle(S)
  BY <1>2 DEF Ledger!Settle
<1> QED
  BY <1>3 DEF S

\* Billing implements RenewalLedger: two handlers, lost answers and retries never charge a
\* period while an earlier charge may still succeed, nor any attempt twice.
THEOREM BillingFollowsLedger == Spec => ChargesFollowLedger
<1>1. Init => Ledger!Init
  <2> SUFFICES ASSUME Init PROVE Ledger!Init
    OBVIOUS
  <2>1. \A c \in Cycles, a \in Attempts : remote[<<c, a>>].status = "none" /\ posted[<<c, a>>] = 0
    BY Pairs DEF Init
  <2>2. \A c \in Cycles : AccountOf(c) = "due"
    BY <2>1 DEF AccountOf, Open
  <2>3. \A c \in Cycles : [a \in Attempts |-> posted[<<c, a>>]] = [a \in Attempts |-> 0]
    BY <2>1
  <2> QED
    BY <2>2, <2>3 DEF Ledger!Init
<1>2. BillingInv /\ [Next]_vars => [Ledger!Next]_Ledger!ledger
  <2> SUFFICES ASSUME BillingInv, [Next]_vars PROVE Ledger!Next
    OBVIOUS
  <2>1. CASE posted' = posted
    BY <2>1, OtherIsSettle DEF Ledger!Next
  <2>2. CASE posted' # posted
    BY <2>2, ChargeIsCharge DEF Ledger!Next
  <2> QED
    BY <2>1, <2>2
<1> QED
  BY <1>1, <1>2, BillingInvariant, PTL DEF Spec, ChargesFollowLedger, Ledger!Spec
=============================================================================
