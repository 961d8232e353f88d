CONSTANTS
  h1 = h1  h2 = h2
  Handlers = {h1, h2}
  MaxCycles = 2
  MaxAttempts = 2
  Year = 1
  Grace = 1
  RetryAfter = 1
  MaxTime = 3
  MaxFaults = 1
  Verdicts = {"paid", "failed"}
SPECIFICATION Spec
CHECK_DEADLOCK FALSE
INVARIANT EntitledIsCovered
PROPERTIES ChargesFollowLedger ChargesAreWanted CancellationSticks
SYMMETRY MCSymmetry
