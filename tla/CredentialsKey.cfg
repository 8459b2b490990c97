SPECIFICATION Spec
CONSTANTS
  Procs = {p1}
  EndsAt = {"mint", "me", "client", "subscribe", "unsubscribe"}
  MaxCommands = 2
CHECK_DEADLOCK FALSE
INVARIANTS KeyNeverLost
