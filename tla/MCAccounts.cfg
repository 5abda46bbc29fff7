SPECIFICATION Spec
CONSTANTS
  Requests = {r1}
  Users = {u1, u2}
  root = u1
  Linked = {u2}
  MaxFailures = 1
  MaxSessions = 2
  MaxTokens = 2
  MaxPasswords = 1
  MaxRotations = 1
  Calls = {q1, q2}
  MaxRefreshes = 4
  MaxSignIns = 2
INVARIANTS
  SessionsCurrent
  LinksWorkOnce
PROPERTIES
  LastSuperAdminStays
  ResetRevivesNobody
  
CHECK_DEADLOCK FALSE
