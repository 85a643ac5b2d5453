SPECIFICATION ReadersSpec
CONSTANTS
  Files <- AnyFile
  Drivers <- AllDrivers
  IdSpace = 32
  KeyBytes = 2
  LimitLists <- Readings
  Tools = {"qif", "ngram", "call", "recv", "ref", "all", "main"}
  MaxDepth = 2
  MaxExecuted = 3
  MaxWritten = 6
  MaxLines = 6
  MaxHeaders = 2
  MaxBody = 4
INVARIANTS
  LoadedInOrder
  IdsFollowPositions
  AllInstructionsOnce
  KeysInOrder
  FirstCallTraced
  FirstCallLoaded
PROPERTY
  LoadEnds
