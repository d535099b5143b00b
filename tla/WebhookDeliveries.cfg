SPECIFICATION FairEventSpec
CONSTANTS
  Free = free
  Completed = completed
  MaxDeliveries = 4
  Faults = {"fail", "late", "redis", "crash", "slow", "duplicate", "network"}
CHECK_DEADLOCK FALSE
INVARIANTS ExclusiveLease OnceUnlessInterrupted AcknowledgedIsProcessed
PROPERTIES EventuallyProcessed
