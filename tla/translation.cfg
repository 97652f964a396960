\* Two records, two translators and two adjudicators; answers go into two files of
\* a slot, and no merge overwrites what it has not read.
SPECIFICATION Spec
CONSTANTS
  c1 = c1
  c2 = c2
  Cases <- Ordered
  Curated = {c1, c2}
  Flagged = {}
  Translators = {t, u}
  Adjudicators = {j, k}
  Drafts = {x, y}
  NoTransfer = no
  None = None
  PacketCases = 1
  Complete = complete
  Names = {complete, partial}
  DecisionNames = {decisions}
  Overwrites = FALSE
SYMMETRY Symmetry
CHECK_DEADLOCK FALSE
INVARIANT Independent
INVARIANT CandidatesWereSeen
INVARIANT OneAdjudicator
