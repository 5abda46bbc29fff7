CONSTANTS
  Arbitrators = {a1}
  Invitations = {i1, i2}
  Challenges = {c1}
  Requests = {r1, r2}
  Roles <- PanelRoles
  RuleWindow = FALSE
  Crashes = TRUE
SPECIFICATION Spec
SYMMETRY Symmetry
INVARIANTS AccessIffSeated SeatNeedsDisclosure
PROPERTIES DeliberationsGuarded
