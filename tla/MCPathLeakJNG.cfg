SPECIFICATION PathLeakSpec
CONSTANTS
  a = a
  b = b
  key = key
  other = other
  Inputs = {key, other}
  KeyInput = key
  FlagStates <- SignedFlags
  Jumps = {"JNG"}
  AddressOf <- JNGAddress
  Others = {}
  MaxRecorded = 3
  Addresses = {a, b}
  SampleNums = {2}
  Tenths = 2
  RoundSize = 2
  MinSatisfied = 3
  MaxRounds = 2
INVARIANTS
  SamePath
