SPECIFICATION FairSpec
CONSTANTS
  e1 = e1
  n1 = n1
  n2 = n2
  w1 = w1
  w2 = w2
  Event = {e1}
  Entry = {n1, n2}
  Worker = {w1, w2}
  NoWorker = NoWorker
  NoEntry = NoEntry
  maxRetries = 2
  OthersTo = {"AUTH_EXPIRED", "REFUND_INITIATED"}
  MaxDisturbances = 1
  eventOf <- Redelivered
  Effects <- AnyKind
INVARIANTS TypeOK HandledOnce NothingIsOrphaned BookedIsCaptured
PROPERTIES ImplementsDeduplication EntrySettles
CHECK_DEADLOCK FALSE
