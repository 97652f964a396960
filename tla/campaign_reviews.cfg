\* Two identities compete for slot B, one of them the other slot's; two
\* adjudicators answer the same packets, which are routed by language and hold
\* one of the two decisions the second batch has; results may go to the wrong batch.
SPECIFICATION Spec
CONSTANTS
  a1 = a1
  b1 = b1
  b2 = b2
  d1 = d1
  d2 = d2
  LastCase = 4
  Language <- LanguageOf
  Size <- SizeOf
  Snapshots <- AllCandidates
  BatchSize = 2
  ReviewMax = 2
  DecisionMax = 1
  MaxBytes = 4
  Routing = TRUE
  Workers = {a1, b1, b2, d1, d2}
  Role <- RoleOf
  Identity <- IdentityOf
  Defaulting = {a1, d1}
  Texts = {"x"}
  Verdicts = {"accept", "broken"}
  None = None
  Torn = Torn
  MaxCrashes = 0
  MaxCorrections = 0
INVARIANT Independent
PROPERTY PacketsFit
PROPERTY AnswersKept
CHECK_DEADLOCK FALSE
