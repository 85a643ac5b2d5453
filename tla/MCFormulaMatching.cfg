SPECIFICATION Spec
CONSTANTS
  Width = 4
  Sizes = {4, 8, 12}
  Traces <- MCTraces
  MinLength = 3
  MaxLength = 24
  MinInputs = 2
  MaxPermuted = 3
INVARIANTS
  SameFunctionFound
  MappingsExact
  FastEvalAgrees
  SameSubformulaMapped
PROPERTIES
  Terminates
