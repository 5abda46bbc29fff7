CONSTANTS
  Arbitrators = {a1, a2, a3}
  Invitations = {i1, i2, i3}
  Challenges = {c1}
  Requests = {r1}
  Roles <- AllRoles
  RuleWindow = TRUE
  Crashes = FALSE
SPECIFICATION Spec
CONSTRAINT Bounds
SYMMETRY Symmetry
PROPERTIES ConstitutedCompletely OutcomesStand
