SPECIFICATION PathLeakSpec
CONSTANTS
  a = a
  b = b
  key = key
  other = other
  Inputs = {key, other}
  KeyInput = key
  FlagStates <- ComparisonFlags
  Jumps <- OtherJumps
  AddressOf <- TwoAddresses
  Others <- OtherConstraints
  MaxRecorded = 3
  Addresses = {a, b}
  SampleNums = {0, 1, 2}
  Tenths = 2
  RoundSize = 2
  MinSatisfied = 3
  MaxRounds = 2
INVARIANTS
  SamePath
  CountsSameRuns
  ResultsFollowGroups
PROPERTY
  Finishes
