---------------------------- MODULE ParticipantList ----------------------------
(***************************************************************************)
(* One list of participants (api/routes/participant_lists.py, services/        *)
(* plans.py), the import of a file into it (api/routes/imports.py) and what is  *)
(* known about its participants' WhatsApp (services/channel_strategy.py), which *)
(* reports and replies change meanwhile (api/routes/webhooks.py).              *)
(*                                                                         *)
(* Every change of the list holds the row of the list, so each is one step; a   *)
(* report holds only the row of what is known, and comes at any time.          *)
(***************************************************************************)
EXTENDS Integers, Sequences, FiniteSets, FiniteSetsExt

CONSTANTS Names, Emails, Phones, None,
          Limit,      \* participants of a list on the free plan (10)
          ImportSize, \* bound on the rows of an import
          MaxPeople,  \* bound on participants ever added
          MaxEdits    \* bound on changes of the list, of what is known and of the plan

ASSUME ListAssumption ==
  /\ None \notin Names \cup Emails \cup Phones /\ Emails \cap Phones = {}
  /\ Limit \in Nat /\ ImportSize \in Nat /\ MaxPeople \in Nat /\ MaxEdits \in Nat

VARIABLES person,   \* the participants of the list, by the order in which they were added
          added,    \* participants added so far
          pro,      \* the organization has Pro
          used,     \* participants a collection refers to
          known,    \* what is known about each one's WhatsApp; of which number, and whether
                    \* that was not his number any more (both not in the code)
          messages, \* WhatsApp messages sent: to whom, at which number
          byHand,   \* contacts two participants shared when the treasurer saved one
          edits

pvars == <<person, added, pro, used, known, messages, byHand, edits>>

Ids == 1 .. MaxPeople
Absent == [name |-> None, email |-> None, phone |-> None]
Values == [name : Names, email : Emails \cup {None}, phone : Phones \cup {None}]
NothingKnown == [availability |-> "none", about |-> None, late |-> FALSE]

PInit ==
  /\ person = [i \in Ids |-> Absent] /\ added = 0
  /\ pro = FALSE /\ used = {}
  /\ known = [i \in Ids |-> NothingKnown]
  /\ messages = {} /\ byHand = {} /\ edits = 0

People(p) == {i \in Ids : p[i] # Absent}
Holders(p, contact) == {i \in People(p) : contact \in {p[i].email, p[i].phone}}
Shared(p) == {c \in Emails \cup Phones : Cardinality(Holders(p, c)) > 1}

\* participant_capacity_available
Capacity(count) == pro \/ count < Limit

\* (Mutant) A number that is taken away leaves what was known of it.
KeepWithoutNumber(k, old, new) ==
  IF old.phone = new.phone \/ new.phone = None \/ k.availability = "none" THEN k
  ELSE [NothingKnown EXCEPT !.availability = "unknown"]

\* reset_channel_knowledge, called when the number changes, for a row there is.
Knowledge(k, old, new) ==
  IF old.phone = new.phone \/ k.availability = "none" THEN k
  ELSE [NothingKnown EXCEPT !.availability = "unknown"]

Edit == edits < MaxEdits /\ edits' = edits + 1

-----------------------------------------------------------------------------
(* The treasurer *)

\* _duplicate_participant: the same name, email and phone.
Duplicate(v, others) == \E i \in others : person[i] = v

Add(v) ==
  /\ Edit /\ added < MaxPeople /\ added' = added + 1
  /\ Capacity(Cardinality(People(person)))
  /\ ~Duplicate(v, People(person))
  /\ person' = [person EXCEPT ![added'] = v]
  /\ byHand' = byHand \cup Shared(person')
  /\ UNCHANGED <<pro, used, known, messages>>

Update(i, v) ==
  /\ Edit /\ person[i] \notin {Absent, v} /\ ~Duplicate(v, People(person) \ {i})
  /\ person' = [person EXCEPT ![i] = v]
  /\ known' = [known EXCEPT ![i] = Knowledge(@, person[i], v)]
  /\ byHand' = byHand \cup Shared(person')
  /\ UNCHANGED <<added, pro, used, messages>>

\* update_participant_channel: the treasurer knows the number he sees.
SetAvailability(i, availability) ==
  /\ Edit /\ person[i] # Absent
  /\ known' = [known EXCEPT ![i] = [availability |-> availability, about |-> person[i].phone, late |-> FALSE]]
  /\ UNCHANGED <<person, added, pro, used, messages, byHand>>

\* Participants of a collection stay.
DeleteParticipant(i) ==
  /\ Edit /\ person[i] # Absent /\ i \notin used
  /\ person' = [person EXCEPT ![i] = Absent]
  /\ known' = [known EXCEPT ![i] = NothingKnown]
  /\ UNCHANGED <<added, pro, used, messages, byHand>>

CreateCollection ==
  /\ People(person) # {}
  /\ used' = used \cup People(person)
  /\ UNCHANGED <<person, added, pro, known, messages, byHand, edits>>

ChangePlan ==
  /\ Edit /\ pro' = ~pro
  /\ UNCHANGED <<person, added, used, known, messages, byHand>>

-----------------------------------------------------------------------------
(* The import *)

\* What an import has done so far: the list, and whom it takes an email or a number for.
\* Of two participants with one contact the later one has it.
Started ==
  [person |-> person, known |-> known, added |-> added, refused |-> FALSE,
   holder |-> [c \in Emails \cup Phones \cup {None} |->
                 IF c = None \/ Holders(person, c) = {} THEN 0 ELSE Max(Holders(person, c))]]

Merged(old, row) ==
  [name |-> row.name, email |-> IF row.email = None THEN old.email ELSE row.email,
   phone |-> IF row.phone = None THEN old.phone ELSE row.phone]

\* (Mutant) Only new participants are remembered.
RememberNew(holder, row, i) ==
  [c \in DOMAIN holder |-> IF c # None /\ c \in {row.email, row.phone} /\ i > added THEN i ELSE holder[c]]

\* Whoever has held a contact during the import is still found under it.
Remember(holder, row, i) ==
  [c \in DOMAIN holder |-> IF c # None /\ c \in {row.email, row.phone} THEN i ELSE holder[c]]

Refuse(done) == [done EXCEPT !.refused = TRUE]

\* One row: its email and its number may not lead to two participants; one that is found is
\* changed, and counts as new otherwise.
ImportRow(done, row) ==
  LET e == done.holder[row.email]
      p == done.holder[row.phone]
      found == IF e # 0 THEN e ELSE p
      new == done.added + 1
      i == IF found # 0 THEN found ELSE new
      v == IF found # 0 THEN Merged(done.person[found], row) ELSE row IN
  IF \/ done.refused
     \/ e # 0 /\ p # 0 /\ e # p
     \/ found = 0 /\ (new > MaxPeople \/ ~Capacity(Cardinality(People(done.person))))
  THEN Refuse(done)
  ELSE [person |-> [done.person EXCEPT ![i] = v], added |-> IF found = 0 THEN new ELSE done.added,
        known |-> [done.known EXCEPT ![i] = Knowledge(@, done.person[i], v)],
        refused |-> FALSE, holder |-> Remember(done.holder, row, i)]

\* What the first n rows of an import do.
Imported(rows) ==
  LET done[n \in 0 .. Len(rows)] == IF n = 0 THEN Started ELSE ImportRow(done[n - 1], rows[n])
  IN  done

\* commit_import: all of it or, after a row that is refused, nothing.
Import(rows) ==
  LET done == Imported(rows)[Len(rows)] IN
  /\ Edit /\ ~done.refused
  /\ person' = done.person /\ known' = done.known /\ added' = done.added
  /\ UNCHANGED <<pro, used, messages, byHand>>

-----------------------------------------------------------------------------
(* The provider *)

\* A message of a collection is written to the number of the moment.
Send(i) ==
  /\ i \in used /\ person[i].phone # None /\ known[i].availability # "unavailable"
  /\ messages' = messages \cup {[to |-> i, phone |-> person[i].phone]}
  /\ UNCHANGED <<person, added, pro, used, known, byHand, edits>>

\* _update_delivery and _store_incoming: what is reported of a message is taken for its
\* participant, whatever his number is by now.
Report(m, availability) ==
  /\ known' = [known EXCEPT ![m.to] = [availability |-> availability, about |-> m.phone,
                                       late |-> m.phone # person[m.to].phone]]
  /\ UNCHANGED <<person, added, pro, used, messages, byHand, edits>>

PNext ==
  \/ \E v \in Values : Add(v) \/ \E i \in Ids : Update(i, v)
  \/ \E i \in Ids : DeleteParticipant(i) \/ Send(i)
  \/ \E i \in Ids, a \in {"unknown", "available", "unavailable"} : SetAvailability(i, a)
  \/ CreateCollection \/ ChangePlan
  \/ \E size \in 0 .. ImportSize : \E rows \in [1 .. size -> Values] : Import(rows)
  \/ \E m \in messages, a \in {"available", "unavailable"} : Report(m, a)

PSpec == PInit /\ [][PNext]_pvars

-----------------------------------------------------------------------------
(* Properties *)

\* Shapes; a participant of a collection is there, and knowledge belongs to a participant.
PTypeOK ==
  /\ person \in [Ids -> Values \cup {Absent}] /\ added \in 0 .. MaxPeople
  /\ used \subseteq People(person) /\ byHand \subseteq Emails \cup Phones
  /\ \A i \in Ids : known[i] # NothingKnown => person[i] # Absent
  /\ \A m \in messages : m.to \in used

\* An import never gives one email or number to two participants, whatever the order of
\* its rows and however they change whom they meet; only the treasurer does.
ImportsShareNoContact == Shared(person) \subseteq byHand

\* What is known about a participant's WhatsApp is about the number he has, through every
\* change by hand or import; only a report that comes after the change speaks of the old
\* number.
KnowledgeFollowsNumber ==
  \A i \in Ids : known[i].availability \in {"available", "unavailable"} /\ ~known[i].late =>
                   known[i].about = person[i].phone

\* The same of every report ("Known divergences" in the README).
ReportsAreOfTheNumber == \A i \in Ids : ~known[i].late
=============================================================================
