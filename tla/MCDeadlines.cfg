SPECIFICATION Spec
CONSTANTS
  Requests = {r1, r2}
  Definitions <- TwoDefinitions
  Actions <- FilingActions
  DueDates = {2}
  MaxDeadlines = 2
  MaxEvents = 1
  MaxDay = 3
  MaxChanges = 2
CONSTRAINT OneAtATime
SYMMETRY Symmetry
INVARIANTS
  
  DueAsComputed
  RemindersMatchDue
  EscalatedOnce
  ExecutedOnce
CHECK_DEADLOCK FALSE
