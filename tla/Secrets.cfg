SPECIFICATION Sharing
CONSTANTS
  Source = Source
  Follower = Follower
  Names = {"n1", "n2"}
  Held <- MCHeld
  Typed <- MCTyped
  References <- MCReferences
  MaxSecrets = 2
  Platform = "linux"
  MaxEdits = 2
  MaxTrouble = 1
INVARIANTS ActiveResolve NothingLeaks NonTransitive
PROPERTIES EventuallyMirrors RefusedIsCleared
