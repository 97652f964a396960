\* Two seeds and two ratios; a split may be killed in any of its files; the text
\* of one record may be respelled, and rows may come back unsigned.
SPECIFICATION Spec
CONSTANTS
    Reviewers = {a, b}
    Nobody = Nobody
    None = None
    Candidates <- MCCandidates
    Restricted = {9}
    Families = {"f", "g"}
    Ids = {1, 2}
    Spellings = {"plain", "other"}
    Edited = {1}
    Seeds = {1, 2}
    Ratios = {"usual", "test only"}
    HashSplit <- MCHashSplit
    Canonical <- MCCanonical
SYMMETRY Symmetry
PROPERTY SplitsStand
INVARIANT AppliedAsAnnotated
INVARIANT SplitCanBeRepeated
