\* Three runs of the release workflow, one of them run again, over two commits.
SPECIFICATION Spec
CONSTANTS
  Runs = {r1, r2, r3}
  Inputs <- Dispatched
  None = None
  MaxCommit = 1
  MaxReruns = 1
SYMMETRY Alike
CHECK_DEADLOCK FALSE
INVARIANT SuccessIsPublished
PROPERTY PlansAreFresh
PROPERTY FirstAttemptsAscend
