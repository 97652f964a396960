\* One command at a time, additions and a correction; a call may fail once
\* and two processes be killed.  No addition is started on a corpus that a
\* kill made go missing.
SPECIFICATION Spec
CONSTANTS
  c1 = c1
  c2 = c2
  c3 = c3
  en = en
  de = de
  u1 = u1
  u2 = u2
  u3 = u3
  Commands = {c1}
  Languages = {en, de}
  Updates = {u1, u2, u3}
  LanguageOf <- ThreeLanguageOf
  Base <- TwoIntegrations
  None = None
  Seed = {}
  NoDir = NoDir
  MaxActive = 1
  MaxErrors = 1
  MaxCrashes = 2
  InGap = FALSE
  FreshStart = FALSE
INVARIANT TypeOK
INVARIANT Recoverable
PROPERTY ImplementsAtomicCorpus
CHECK_DEADLOCK FALSE
