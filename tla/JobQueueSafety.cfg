\* Two slots in two processes, two attempts: room for an overtaken slot to
\* report after the last attempt; a share of one slot for three jobs.
CONSTANTS
  j1 = j1  j2 = j2  j3 = j3  j4 = j4
  s1 = s1  s2 = s2
  w1 = w1  w2 = w2
  o1 = o1  k1 = k1
  Jobs = {j1, j2, j3, j4}
  Slots = {s1, s2}
  Workers = {w1, w2}
  Orgs = {o1}
  NoOrg = NoOrg  NoKey = NoKey  NoJob = NoJob
  OrgOf <- MCOrgOf
  KeyOf <- MCKeyOf
  Priority <- MCPriority
  WorkerOf <- MCWorkerOf
  CollectionJobs = {j3}
  MaxAttempts = 2
  OrgCap = 1
  MaxFaults = 1
SPECIFICATION MCSpec
CHECK_DEADLOCK FALSE
INVARIANTS AttemptHeldOnce AttemptsBounded OrgShareBounded
PROPERTY DoneIsFinal
SYMMETRY MCSymmetry
