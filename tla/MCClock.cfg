SPECIFICATION Spec
CONSTANTS
  Width = 16
  Mask = 8
  Second = 3
  Extra = 2
  Times = {0, 2}
  MaxTime = 22
  MaxReads = 4
  MaxStarts = 2
INVARIANTS
  NeverAhead
  LosesATick
PROPERTIES
  NeverGoesBack
