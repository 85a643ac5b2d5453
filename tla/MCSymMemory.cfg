SPECIFICATION EnginesSpec
CONSTANTS
  Words = 2
  DynSpace = 8
  Values = {0, 1}
  Contents <- Alternating
  Programs <- MCPrograms
  StaticSpace = 12
  StaticPrograms <- MCStaticPrograms
INVARIANTS
  NaturalReadsHeal
  KeyNotInvented
  DynExact
  StaticExact
  BlocksExact
PROPERTY
  Exact
