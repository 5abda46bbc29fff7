SPECIFICATION Spec
CONSTANTS
  Requests = {r1, r2}
  Parties = {p1, p2}
  MaxChecks = 2
  MaxAwards = 1
  Rooms = {"MAIN", "TRIBUNAL"}
  Participants = {w1}
  Cases = {c1, c2}
  Totals = {0, 2}
  MaxInvoices = 2
  MaxPayments = 2
  Factors = {f1, f2}
  Users = {u1, u2}
  MaxRows = 2
SYMMETRY Symmetry
INVARIANTS
  IssuedAsSigned
  InvoiceCurrent
  CorrectionReplaces
PROPERTIES
  StageFollowsHistory
  
  CancelledForGood
  DecisionStands
  GroundedWhenTaken
CHECK_DEADLOCK FALSE
