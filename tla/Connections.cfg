CONSTANTS
  h1 = h1  h2 = h2
  Handlers = {h1, h2}
  Providers = {"ponto", "mollie"}
  MaxGrants = 2
  MaxFaults = 1
SPECIFICATION Spec
CHECK_DEADLOCK FALSE
INVARIANT StoredTokenIsCurrent
PROPERTY ConnectionRecovers
