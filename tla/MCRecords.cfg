SPECIFICATION Spec
CONSTANTS
  Requests = {r1, r2}
  Cases = {c1, c2}
  Overrides <- PolicyChanges
  MaxAge = 3
  MaxHolds = 2
  MaxSwept = 2
  People = {claimant, respondent, arbitrator, registrar}
  claimant = claimant
  respondent = respondent
  arbitrator = arbitrator
  Staff = {registrar}
  MaxMessages = 1
  MaxDocuments = 2
  MaxOrders = 2
  Base <- BaseSeed
  MaxCrashes = 2
SYMMETRY Symmetry
INVARIANTS
  PolicyApproved
  NumberedInOrder
  MendedByTopUp
  SeededOnce
PROPERTIES
  HeldCaseKept
  NoExParte
CHECK_DEADLOCK FALSE
