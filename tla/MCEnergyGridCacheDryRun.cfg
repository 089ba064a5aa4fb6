SPECIFICATION Spec
CONSTANTS
  Processes = {p1, p2}
  Inputs <- MCInputs
  KeyOf <- MCKeyOf
  ValueChunks = 2
  Settings <- MCSettings
INVARIANTS
  DryRunIsRight
