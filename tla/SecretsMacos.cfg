SPECIFICATION Sharing
CONSTANTS
  Source = Source
  Follower = Follower
  Names = {"n1", "n2"}
  Held <- MCHeld
  Typed <- MCTyped
  References <- MCReferences
  MaxSecrets = 2
  Platform = "macos"
  MaxEdits = 1
  MaxTrouble = 0
PROPERTIES EventuallyMirrors
