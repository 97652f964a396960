\* Two terminals at once, starting from no corpus; one call may fail.
SPECIFICATION FairSpec
CONSTANTS
  c1 = c1
  c2 = c2
  c3 = c3
  en = en
  de = de
  u1 = u1
  u2 = u2
  u3 = u3
  Commands = {c1, c2}
  Languages = {en, de}
  Updates = {u1, u2, u3}
  LanguageOf <- ThreeLanguageOf
  Base <- TwoIntegrations
  None = None
  Seed = {}
  NoDir = NoDir
  MaxActive = 2
  MaxErrors = 1
  MaxCrashes = 0
  InGap = FALSE
  FreshStart = TRUE
INVARIANT NeverVanishes
PROPERTY CorpusReturns
CHECK_DEADLOCK FALSE
