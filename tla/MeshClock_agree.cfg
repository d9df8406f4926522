CONSTANTS
  n1 = n1
  n2 = n2
  Node = {n1, n2}
  Base <- FourApart
  Word = 3
  Near = 2
  Slew = 2
  LargeStep = 3
  Lag = {0}
  MaxGain = 0
  MaxTears = 1
  MaxResets = 1
SPECIFICATION FairSpec
PROPERTY
  NodesAgree
