\* Up to four targets, two references and three processes; one file may vanish
\* and one worker may be killed.
SPECIFICATION FairSpec
CONSTANTS
  Settings <- MCSettings
  Finds <- MCFinds
  MaxRefSize = 10
  SizeThreshold = 2
  MaxProcesses = 3
  LongFormula = 8
  MaxClock = 1
  Faults = {"vanish", "kill"}
INVARIANTS
  ComparedOnce
  ReportExact
PROPERTY
  Finishes
