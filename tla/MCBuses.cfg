SPECIFICATION BusesSpec
CONSTANTS
  Cap <- MCCap
  MaxDrops = 3
  Master = {"a", "b"}
  a_retries = 2
  a_Bits = 1
  a_Bytes = 1
  MaxSize = 2
  MaxTests = 3
  Bits = 8
  MaxCalls = 4
  Value = {1, 2}
  MaxLen = 3
  Limit = 2
  t_retries = 1
  t_MaxBytes = 5
  t_Len = 2
  max_size = 5
  flush_threshold = 4
  chunk_size = 2
  MaxBytes = 7
  MaxJobs = 3
  Periodic = {1, 3}
  Button = 2
  period = 2
  deadline = 2
  MaxAge = 2
  MaxQueued = 2
INVARIANTS NoLostKick EachDropReportedOnce RingConsistent
           LeftOpenIsReported BetweenTests HeardAsMeant
           WriteTakesEffect AnswersMatch BatchFaithful Coherent
PROPERTIES OldestLeaves MastersShare SchedulerSound
CHECK_DEADLOCK FALSE
