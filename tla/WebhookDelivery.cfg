SPECIFICATION DeliverySpec
CONSTANTS
  Threshold = 2
  MaxDisables = 1
  Events = {dm1, dm2}
  MaxSize = 1
  MaxThreads = 2
INVARIANTS DeliveryTypeOK RecoveriesEarned DispatchedOnce AckedIsSettled
CHECK_DEADLOCK FALSE
PROPERTIES DeliversAsChannel EnabledAgain FlowResumes AcceptedIsServed
