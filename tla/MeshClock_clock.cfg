CONSTANTS
  n1 = n1
  n2 = n2
  Node = {n1, n2}
  Base <- ThreeApart
  Word = 2
  Near = 2
  Slew = 2
  LargeStep = 2
  Lag <- AnyLag
  MaxGain = 1
  MaxTears = 2
  MaxResets = 1
SPECIFICATION Spec
INVARIANTS
  TypeOK
  NeverAhead
