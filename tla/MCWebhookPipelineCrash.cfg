SPECIFICATION Spec
CONSTANTS
  e1 = e1
  n1 = n1
  n2 = n2
  w1 = w1
  w2 = w2
  Event = {e1}
  Entry = {n1, n2}
  Worker = {w1}
  NoWorker = NoWorker
  NoEntry = NoEntry
  maxRetries = 3
  OthersTo = {"AUTH_EXPIRED"}
  MaxDisturbances = 1
  eventOf <- Redelivered
  Effects <- Captured
INVARIANTS NothingIsLost
CHECK_DEADLOCK FALSE
