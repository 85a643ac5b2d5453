\* Every trace of 13 instructions over two and of 9 over three; loops of 2 to 6 instructions.
SPECIFICATION Spec
CONSTANTS
  Opcodes <- MCOpcodes
  Operands <- MCOperands
  Traces <- MCTraces
  LongTrace = 13
  ShortTrace = 9
  MinLoop = 2
  MaxHistory = 6
  Spare <- MCSpare
  Surroundings <- MCSurroundings
INVARIANTS
  ConfirmedRepeat
  FirstLoopFound
PROPERTY
  ReportSpec
