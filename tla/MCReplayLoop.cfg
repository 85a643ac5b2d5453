SPECIFICATION Spec
CONSTANTS
  eax = eax
  ecx = ecx
  Regs = {eax, ecx}
  Acc = eax
  Modulus = 2
  LineSize = 1
  MaxInsts = 5
  Programs <- AllPrograms
INVARIANTS
  RegistersFollow
  RecordedHold
  NoFalseLeak
PROPERTIES
  LeaksExact
