SPECIFICATION MCSpec
CONSTANTS
  Versions = {v1, v2}
  Published = v1
  Chapters = {c1}
  Rules = {u1}
  Cases = {k1}
  ChapterVerdicts = {"APPROVED", "BLOCKER"}
  RuleVerdicts = {"OK"}
  MaxEdits = 1
  MaxAcceptances = 2
  Requests = {r1}
  Crashes = FALSE
PROPERTIES
  ActivatedAsSigned
CHECK_DEADLOCK FALSE
