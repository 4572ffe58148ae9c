SPECIFICATION Spec
CONSTANTS
  Proc = {"p1"}
  N = 2
  Plans <- AllPlans
  MaxRuns = 1
  Limits <- FaultsOrEdits
  EditTo = {"local", "mixed", "new"}
CONSTRAINT EditsBesideAppend
INVARIANTS
  TypeOK
  MutationsAreRecoverable
  JournalStaysValid
  ConvergedMeansConverged
PROPERTIES
  LocalAdditionsSurvive
