SPECIFICATION FairSpec
CONSTANTS
  Producers = {poller, hook}
  Keys = {k1, k2, k3, k4}
  MaxSize = 2
  Window = 3
  MaxOffers = 5
  NoKey = NoKey
INVARIANTS TypeOK WindowInSync OneCopyPerEviction NoPhantomRecord
PROPERTIES ForgettingIsEarned EveryCopyDelivered ImplementsChannel
