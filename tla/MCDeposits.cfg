SPECIFICATION MCSpec
CONSTANTS
  Deposit = {q1}
  Payment = {d1, d2, d3}
  Refund = {f1}
  Requests = {r1, r2}
  Crashes = TRUE
  Parties <- TwoParties
  Totals = {0, 3}
  Methods = {"EQUAL"}
  Amounts = {1, 2}
  MaxParties = 3
  MaxTotal = 7
  MaxWeight = 3
  MaxPayment = 3
  MaxPayments = 2
INVARIANTS
  FairShares
  PaymentsAreLedgered
  BooksAgree
PROPERTIES
  CoveredIsPaid
CHECK_DEADLOCK FALSE
