\* One terminal, one kill, one preview.
SPECIFICATION Spec
CONSTANTS
  r1 = r1
  r2 = r2
  o1 = o1
  o2 = o2
  n1 = n1
  n2 = n2
  t1 = t1
  None = None
  Torn = Torn
  Records = {r1, r2}
  Oracles = {o1, o2}
  Notes = {n1, n2}
  Terminals = {t1}
  MaxRevisions = 2
  MaxDecisions = 3
  MaxPreviews = 1
  MaxCrashes = 1
CHECK_DEADLOCK FALSE
INVARIANT TypeOK
INVARIANT ChainConnected
INVARIANT LineageIsPrefix
INVARIANT RevisionsIncrease
PROPERTY HistoryAppends
