SPECIFICATION FairSpec
CONSTANTS
  Proc = {"p1"}
  N = 2
  Plans <- CreationPlans
  MaxRuns = 1
  Limits <- CrashAndError
  EditTo = {}
PROPERTIES
  OpenRunsClose
