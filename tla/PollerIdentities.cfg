SPECIFICATION Spec
CONSTANTS
  Peers = {alice}
  Display <- Distinct
  MaxSize = 2
  Limit = 2
  MaxMessages = 1
  MaxCrashes = 0
INVARIANT OncePerMessage
