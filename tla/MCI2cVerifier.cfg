SPECIFICATION Spec
CONSTANTS
  Mode = {"STANDARD_MODE", "FAST_MODE", "FAST_MODE_PLUS"}
  Addr = {7, 15, 16, 80, 120, 127, 160}
  MaxErrors = 2
INVARIANT NominalClockPasses
