SPECIFICATION FairSpec
CONSTANTS
  Peers = {alice}
  Display <- Distinct
  MaxSize = 1
  Limit = 2
  MaxMessages = 2
  MaxCrashes = 0
PROPERTY DroppedIsRetried
