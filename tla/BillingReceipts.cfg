CONSTANTS
  i1 = i1  i2 = i2  h1 = h1  h2 = h2
  Invoices = {i1, i2}
  Handlers = {h1, h2}
  MaxFaults = 2
SPECIFICATION Spec
CHECK_DEADLOCK FALSE
INVARIANT OneReceiptPerPayment
PROPERTY ReceiptSettles
