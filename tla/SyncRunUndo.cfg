SPECIFICATION FairSpec
CONSTANTS
  Proc = {"p1"}
  N = 2
  Plans <- UndoPlans
  MaxRuns = 1
  Limits <- CrashesOrErrors
  EditTo = {}
INVARIANTS
  FailedRunIsUndone
  NothingHalfDone
PROPERTIES
  OnlyStrandedRunsStayOpen
