SPECIFICATION MCSpec
CONSTANTS
  Deposit = {q1}
  Payment = {d1}
  Refund = {f1, f2}
  Requests = {r1}
  Crashes = FALSE
  Parties <- TwoParties
  Totals = {3}
  Methods = {"EQUAL"}
  Amounts = {1, 2}
  MaxParties = 1
  MaxTotal = 1
  MaxWeight = 1
  MaxPayment = 1
  MaxPayments = 1
INVARIANTS
  RefundWithinPayment
CHECK_DEADLOCK FALSE
