CONSTANTS
  Arbitrators = {a1}
  Invitations = {i1}
  Challenges = {c1}
  Requests = {r1, r2}
  Roles <- SoleRoles
  RuleWindow = TRUE
  Crashes = FALSE
SPECIFICATION Spec
PROPERTIES ConstitutedCompletely
