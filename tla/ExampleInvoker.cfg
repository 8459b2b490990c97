SPECIFICATION Spec
CONSTANTS
  Messages = {m1, m2, m3}
  MaxEvents = 3
INVARIANT AuditRowLands
CHECK_DEADLOCK FALSE
