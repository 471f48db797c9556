SPECIFICATION SharedSpec
CONSTANTS
  Thread = {t1, t2}
  None = None
  refill_rate = 1
  max_tokens = 2
  Requests = 1
  MaxTime = 3
  MaxCalls = 5
INVARIANT NoLockCycle
