\* One terminal; a case goes through up to three re-reviews.
SPECIFICATION Spec
CONSTANTS
  k1 = k1
  k2 = k2
  t1 = t1
  Cases = {1}
  LastBatch = 4
  RetryBatches = {2, 3, 4}
  Contexts = {k1, k2}
  None = None
  Terminals = {t1}
  Sources = {1}
  About <- MCAbout
  Text <- MCText
  Prepared <- Growing
  Limit = 1
  NewOutcomes = {"accept", "retryable", "terminal", "legacy", "bare"}
  RetryOutcomes = {"accept", "retryable", "terminal", "legacy", "bare"}
  OldBatches = {}
  MaxCrashes = 0
  MaxRebuilds = 0
INVARIANT OneOpenRetry
INVARIANT AttemptsDistinct
PROPERTY FreshContext
