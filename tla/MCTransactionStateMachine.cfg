SPECIFICATION FairSpec
CONSTANTS
  c1 = c1
  c2 = c2
  c3 = c3
  t1 = t1
  Txn = {t1}
  NoCaller = NoCaller
  NoTxn = NoTxn
  Caller = {c1, c2}
  MaxTransitions = 7
INVARIANTS TypeOK ReadStaysCurrent LogIsAPath RowFollowsLog
PROPERTIES ImplementsLifecycle NoWayBack EveryCallReturns
CHECK_DEADLOCK FALSE
