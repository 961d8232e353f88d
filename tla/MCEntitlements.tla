---------------------------- MODULE MCEntitlements ----------------------------
(* Three scenes of Entitlements that together show what two purchases, two     *)
(* requests, three periods and the two other providers can do to each other.  *)
EXTENDS Entitlements

CONSTANTS p1, p2, r1, r2

VARIABLE scene

MCInit ==
  /\ EInit
  /\ scene \in {"purchases", "requests", "periods"}
  /\ scene # "periods" => time = MaxTime

\* Two purchases, two requests that overlap, or everybody in several periods.
MCNext ==
  /\ ENext /\ UNCHANGED scene
  /\ scene # "requests" => request'[r2].pc = "idle"
  /\ scene # "purchases" => market'[p2].state = "none"
  /\ scene = "purchases" => mollie'.status = "none"

MCSpec == MCInit /\ [][MCNext]_<<scene, evars>> /\ EFairness
=============================================================================
