SPECIFICATION MCSpec
CONSTANTS
  Versions = {v1, v2, v3}
  Published = v1
  Chapters = {c1, c2}
  Rules = {u1}
  Cases = {k1}
  ChapterVerdicts = {"APPROVED", "CHANGE_REQUESTED", "BLOCKER"}
  RuleVerdicts = {"OK"}
  MaxEdits = 1
  MaxAcceptances = 2
  Requests = {r1, r2}
  Crashes = TRUE
SYMMETRY Symmetry
INVARIANTS
  ReviewHolds
  OneInForce
  PinnedIsNoDraft
PROPERTIES
  LawKept
CHECK_DEADLOCK FALSE
