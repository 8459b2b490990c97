SPECIFICATION FairSpec
CONSTANTS
  Daemons = {d1, d2}
  Workers = {"invoker", "poller", "server"}
  MaxQueue = 1
  MaxHandlers = 1
INVARIANTS TypeOK LockCoversWork QueueServiced
PROPERTY ShutdownEnds
