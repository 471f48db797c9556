SPECIFICATION Spec
CONSTANTS
  WINDOW_SIZE = 2
  BITS = 3
  MAX_RETRIES = 1
  MaxSend <- MCMaxSend
INVARIANT AckedWasReceived
