SPECIFICATION Spec
CONSTANTS
  Proc = {p1, p2}
  N = 1
  Plans <- SinglePlans
  MaxRuns = 2
  Limits <- Overlap
  EditTo = {}
INVARIANTS
  OneOpenRun
PROPERTIES
  LedgerSpec
SYMMETRY Symmetry
