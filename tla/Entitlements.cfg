CONSTANTS
  p1 = p1  p2 = p2  r1 = r1  r2 = r2
  Purchases = {p1, p2}
  NoPurchase = NoPurchase
  Requests = {r1, r2}
  MaxTime = 2
  MaxUpsets = 1
SPECIFICATION MCSpec
CHECK_DEADLOCK FALSE
INVARIANTS OneProviderGrants AcknowledgedIsGranted
PROPERTY PurchaseGrantsPro
