-------------------------- MODULE MCMessageDelivery --------------------------
(* Small instances of MessageDelivery: one participant, a message and its      *)
(* successor (fallback or reminder), two slots.                                *)
EXTENDS MessageDelivery, TLC

CONSTANTS m1, m2, s1, s2, w1, w2, o1

MCOrgOf    == [j \in Jobs |-> o1]
MCKeyOf    == [j \in Jobs |-> NoKey]
MCPriority == [j \in Jobs |-> 100]
MCWorkerOf == [s \in Slots |-> IF s = s1 THEN w1 ELSE w2]

WhatsAppThenSms == <<"whatsapp", "sms">>
SmsOnly == <<"sms">>

\* The two messages are alike.
MCSymmetry == Permutations({m1, m2})
=============================================================================
