SPECIFICATION Spec
CONSTANTS
  Slot <- MCSlot
  Source = "source"
  Local = "local"
  Above <- MCAbove
  Value <- MCValue
  None = None
  Resource = {"r1", "r2"}
  Target = {"t1", "t2"}
  Families <- AllFamilies
  Claimable = {"a", "b"}
  MaxPublish <- MCMaxPublish
  MaxEdit = 2
INVARIANTS
  ConvergedIsFixpoint
  OwnedIsRecorded
  RefusalsArePlanned
PROPERTIES
  LocalEditsSurvive
