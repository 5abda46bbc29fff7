SPECIFICATION Spec
CONSTANTS
  Requests = {r1, r2}
  Recipients = {p1, p2}
  Members = {m1}
  MaxFailures = 1
CONSTRAINT FewMails
SYMMETRY Symmetry
INVARIANTS
  
  PermanentNotRetried
PROPERTIES
  ServiceIsProven
CHECK_DEADLOCK FALSE
