\* One SMS, two slots, two attempts, a fault: retries, recovery and reports.
CONSTANTS
  m1 = m1  m2 = m2
  s1 = s1  s2 = s2
  w1 = w1  w2 = w2
  o1 = o1
  Jobs = {m1}
  Slots = {s1, s2}
  Workers = {w1, w2}
  Orgs = {o1}
  NoOrg = NoOrg  NoKey = NoKey  NoJob = NoJob
  OrgOf <- MCOrgOf
  KeyOf <- MCKeyOf
  Priority <- MCPriority
  WorkerOf <- MCWorkerOf
  CollectionJobs = {m1}
  MaxAttempts = 2
  OrgCap = 2
  MaxFaults = 1
  Kinds = {"initial"}
  Routes <- SmsOnly
SPECIFICATION DFairSpec
CHECK_DEADLOCK FALSE
INVARIANT PhoneRepeatsOnlyAfterRequeue
PROPERTIES EvidenceKeptOnceRecorded  EveryMessageSettles 
