SPECIFICATION WideSpec
CONSTANTS
  key = key
  other = other
  eax = eax
  edx = edx
  ecx = ecx
  esi = esi
  edi = edi
  Inputs = {key, other}
  KeyInput = key
  Regs = {eax, edx, ecx, esi, edi}
  KeyReg = eax
  ByteBits = 3
  Acc = eax
  Ext = edx
  Cnt = ecx
  Src = esi
  MaxInsts = 3
  Jumps <- AllJumps
  Programs <- MCPrograms
INVARIANTS
  LanesExact
  FullWidthExact
  FlagsTrusted
PROPERTY
  JumpsRefine
