SPECIFICATION Spec
CONSTANTS
  Addrs = {a1, a2}
  None = None
  Zero = Zero
  SegLimit = 2
  WebLimit = 3
INVARIANTS
  EnteredIsLoaded
CHECK_DEADLOCK FALSE
