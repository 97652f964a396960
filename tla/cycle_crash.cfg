\* One terminal; overlapping batches, one re-review, one kill,
\* one rebuild of the pool.
SPECIFICATION Spec
CONSTANTS
  k1 = k1
  k2 = k2
  t1 = t1
  Cases = {1, 2}
  LastBatch = 3
  RetryBatches = {3}
  Contexts = {k1}
  None = None
  Terminals = {t1}
  Sources = {1, 2, 3}
  About <- MCAbout
  Text <- MCText
  Prepared <- Growing
  Limit = 2
  NewOutcomes = {"accept", "retryable"}
  RetryOutcomes = {"accept", "retryable", "terminal"}
  OldBatches = {1}
  MaxCrashes = 1
  MaxRebuilds = 1
INVARIANT TypeOK
INVARIANT NoCaseLost
INVARIANT InRetryIsOwned
INVARIANT ResolvedIsGold
PROPERTY ProvenanceKept
