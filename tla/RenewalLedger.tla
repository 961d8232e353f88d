---------------------------- MODULE RenewalLedger ----------------------------
(***************************************************************************)
(* What paying for Pro promises, seen from the customer's bank account: a    *)
(* billing period is charged once per try, and never while an earlier charge  *)
(* may still succeed.                                                        *)
(***************************************************************************)
EXTENDS Integers

CONSTANTS Periods, \* billing periods, bought or renewed
          Tries    \* attempts to collect one period

VARIABLES account, \* where the collection of each period stands
          charges  \* payments the provider was asked for, per period and attempt

ledger == <<account, charges>>

Init ==
  /\ account = [c \in Periods |-> "due"]
  /\ charges = [c \in Periods |-> [a \in Tries |-> 0]]

Charge(c, a) ==
  /\ account[c] = "due" /\ charges[c][a] = 0
  /\ account' = [account EXCEPT ![c] = "collecting"]
  /\ charges' = [charges EXCEPT ![c][a] = 1]

\* Charges succeed or are refused, or a cancellation gives them up.
Settle(S) ==
  /\ account' = [c \in Periods |-> IF c \in S THEN "due" ELSE account[c]]
  /\ UNCHANGED charges

Next ==
  \/ \E c \in Periods, a \in Tries : Charge(c, a)
  \/ \E S \in SUBSET Periods : Settle(S)

Spec == Init /\ [][Next]_ledger
=============================================================================
