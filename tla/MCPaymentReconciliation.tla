---------------------- MODULE MCPaymentReconciliation ----------------------
(* Two scenes of PaymentReconciliation: a participant with two attempts and two *)
(* concurrent webhook requests, or two participants, one of them with an       *)
(* attempt, and two bank transactions that name the same one.                 *)
EXTENDS PaymentReconciliation

CONSTANTS p1, p2, a1, a2, t1, t2, h1, h2

MCOwnerOf  == [a \in Attempts |-> p1]
MCRefersTo == [t \in Transactions |-> p1]

VARIABLE scene

MCInit == Init /\ scene \in {"online", "bank"}

MCNext ==
  /\ Next /\ UNCHANGED scene
  /\ scene = "online" => p2 \notin paid' /\ UNCHANGED <<statement, tx, bank>>
  /\ scene = "bank" => checkout'[p1] # a2 /\ handler'[h2].pc = "idle" /\ faults' <= 1

MCSpec == MCInit /\ [][MCNext]_<<scene, vars>> /\ Fairness
=============================================================================
