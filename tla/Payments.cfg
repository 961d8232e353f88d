CONSTANTS
  p1 = p1  p2 = p2  a1 = a1  a2 = a2  t1 = t1  t2 = t2
  h1 = h1  h2 = h2
  People = {p1, p2}
  Attempts = {a1, a2}
  Transactions = {t1, t2}
  Handlers = {h1, h2}
  OwnerOf <- MCOwnerOf
  RefersTo <- MCRefersTo
  Nothing = Nothing
  MaxFaults = 2
SPECIFICATION MCSpec
CHECK_DEADLOCK FALSE
INVARIANTS BookedOnce OneOpenCheckout PaidIffRecorded OneBankPaymentEach
PROPERTIES PaidOnlineIsBooked ReportedPaymentsStay
