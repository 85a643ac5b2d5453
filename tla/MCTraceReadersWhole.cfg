SPECIFICATION ReadersSpec
CONSTANTS
  Files <- PlainFile
  Drivers <- LoopDetector
  IdSpace = 32
  KeyBytes = 2
  LimitLists <- Unlimited
  Tools = {}
  MaxDepth = 0
  MaxExecuted = 0
  MaxWritten = 0
  MaxLines = 3
  MaxHeaders = 0
  MaxBody = 0
INVARIANTS
  WholeTraceLoaded
