SPECIFICATION Spec
CONSTANTS
  a1 = a1
  a2 = a2
  b1 = b1
  b2 = b2
  Keys <- MCKeys
  Patient = FALSE
  QueueSize = 2
  Melody <- MCMelody
INVARIANTS
  KeyIsWhole
