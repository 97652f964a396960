\* Two sources, three records, two builds into one directory, one kill.
SPECIFICATION Spec
CONSTANTS
  p = p
  q = q
  Sources = {p, q}
  Entries <- StartEntries
  Outcomes = {"embedded_public", "external_ref_only", "exclude_public"}
  Records = {1, 2, 3}
  Observations <- ObservedIn
  AllowLists <- Lists
  None = None
  Torn = Torn
  MaxChanges = 3
  MaxBuilds = 2
  MaxCrashes = 1
CHECK_DEADLOCK FALSE
INVARIANT TypeOK
INVARIANT VerifiedIsOneBuild
INVARIANT ReferencesAreAuthorized
INVARIANT TextIsAuthorized
INVARIANT OmittedIsExcluded
INVARIANT PreflightPredicts
