\* An initial message and its successor, WhatsApp then SMS: fallbacks and reminders.
CONSTANTS
  m1 = m1  m2 = m2
  s1 = s1  s2 = s2
  w1 = w1  w2 = w2
  o1 = o1
  Jobs = {m1, m2}
  Slots = {s1}
  Workers = {w1}
  Orgs = {o1}
  NoOrg = NoOrg  NoKey = NoKey  NoJob = NoJob
  OrgOf <- MCOrgOf
  KeyOf <- MCKeyOf
  Priority <- MCPriority
  WorkerOf <- MCWorkerOf
  CollectionJobs = {m1, m2}
  MaxAttempts = 1
  OrgCap = 2
  MaxFaults = 1
  Kinds = {"initial", "reminder"}
  Routes <- WhatsAppThenSms
SPECIFICATION DSpec
CHECK_DEADLOCK FALSE
 
PROPERTY Spec
SYMMETRY MCSymmetry
