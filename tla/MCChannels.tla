------------------------------ MODULE MCChannels ------------------------------
(* The sides of an organization's channels in one run: the way to Infobip,     *)
(* replies by email to the organization's mailbox and to the platform's,       *)
(* and replies by phone.  They share no row and no reply comes both ways, so a   *)
(* behaviour shows one side.                                               *)
EXTENDS InfobipRouting, InboxSync, TLC

CONSTANTS s1, s2, c1, c2, r1, r2, r3, j1, j2, imap1, imap2, graph1, graph2

VARIABLE side

MCInit == side \in {"route", "email", "platform", "phone"} /\ RInit /\ IInit

MCNext ==
  \/ side = "route" /\ RNext /\ UNCHANGED <<side, ivars>>
  \/ side = "email" /\ (OwnNext \/ RoundNext) /\ UNCHANGED <<side, rvars, phonevars>>
  \/ side = "platform" /\ (PlatformNext \/ RoundNext) /\ UNCHANGED <<side, rvars, phonevars>>
  \/ side = "phone" /\ PhoneNext /\ UNCHANGED <<side, rvars, mailvars>>

MCSpec == MCInit /\ [][MCNext]_<<side, rvars, ivars>>

MCSymmetry ==
  {p @@ q @@ x @@ y @@ z : p \in Permutations(Replies), q \in Permutations(Jobs),
                           x \in Permutations(ImapBoxes), y \in Permutations(GraphBoxes),
                           z \in Permutations(Calls)}
=============================================================================
