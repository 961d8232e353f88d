------------------------ MODULE MCCollectionLifecycle ------------------------
(* A collection as one of its participants sees it, and the list of            *)
(* participants it is made from; a behaviour shows one of the two.             *)
EXTENDS CollectionLifecycle, ParticipantList

CONSTANTS anna, email1, email2, phone1, phone2

VARIABLE scene

\* One rule entered twice, and two that fall on one day for some due dates.
MCRequested == << [type |-> "on_due", days |-> 9],
                  [type |-> "after_send", days |-> 2],
                  [type |-> "on_due", days |-> 0] >>

MCInit == scene \in {"collection", "list"} /\ LInit /\ PInit

MCNext ==
  \/ scene = "collection" /\ LNext /\ UNCHANGED <<scene, pvars>>
  \/ scene = "list" /\ PNext /\ UNCHANGED <<scene, lvars>>

MCSpec == MCInit /\ [][MCNext]_<<scene, lvars, pvars>> /\ LFairness
=============================================================================
