\* One worker for each role; the maintainer's command is killed once.
SPECIFICATION FairSpec
CONSTANTS
  a1 = a1
  b1 = b1
  b2 = b2
  d1 = d1
  d2 = d2
  LastCase = 4
  Language <- LanguageOf
  Size <- SizeOf
  Snapshots <- Candidates
  BatchSize = 3
  ReviewMax = 2
  DecisionMax = 2
  MaxBytes = 4
  Routing = TRUE
  Workers = {a1, b1, d1}
  Role <- RoleOf
  Identity <- IdentityOf
  Defaulting = {a1}
  Texts = {"x"}
  Verdicts = {"accept", "unresolved", "broken"}
  None = None
  Torn = Torn
  MaxCrashes = 1
  MaxCorrections = 1
INVARIANT TypeOK
INVARIANT ListedIsWritten
INVARIANT CompleteIsIntegrated
PROPERTY Completes
CHECK_DEADLOCK FALSE
