\* One worker for each role and one correction.
SPECIFICATION Spec
CONSTANTS
  a1 = a1
  b1 = b1
  b2 = b2
  d1 = d1
  d2 = d2
  LastCase = 3
  Language <- LanguageOf
  Size <- SizeOf
  Snapshots <- Candidates
  BatchSize = 2
  ReviewMax = 2
  DecisionMax = 2
  MaxBytes = 4
  Routing = TRUE
  Workers = {a1, b1, d1}
  Role <- RoleOf
  Identity <- IdentityOf
  Defaulting = {}
  Texts = {"x"}
  Verdicts = {"accept"}
  None = None
  Torn = Torn
  MaxCrashes = 0
  MaxCorrections = 1
PROPERTY CorrectionsStay
CHECK_DEADLOCK FALSE
