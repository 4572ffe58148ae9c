CONSTANTS
  NoValue = NoValue
  Denied = Denied
  NoProcess = NoProcess
  Undecodable = Undecodable
  Word <- MCWord
  PathOf <- MCPathOf
  UrlOf <- MCUrlOf
  File <- MCFile
  MaxDepth = 3
  MaxFiles = 4
  Path <- MCPath
  Roots <- MCRoots
  Inherited <- MCInherited
  Plans <- MCPlans
  Disks <- MCDisks
  Contents <- MCContents
  MaxEdits = 1
SPECIFICATION MCSpec
INVARIANTS LaunchedIsBounded OutputBudget AppliedMeansVerified
  OperationIsReviewed AuthorizedIsLaunchable
PROPERTIES RequirementsAreReviewed CancelStopsLaunches ResolutionEnds
