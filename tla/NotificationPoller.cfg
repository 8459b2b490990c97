SPECIFICATION FairSpec
CONSTANTS
  Peers = {alice, bob}
  Display <- Distinct
  MaxSize = 2
  Limit = 1
  MaxMessages = 2
  MaxCrashes = 1
INVARIANTS TypeOK OncePerIdentity TailedIsSettled PeerOrder
PROPERTY UnreadReachesAgent
