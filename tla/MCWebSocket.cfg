SPECIFICATION WebSocketSpec
CONSTANTS
  C = 4
  Msg = {m1, m2, m3}
  NoMsg = NoMsg
  MaxMsg = 4
  r_max_size = 3
  initial = 1
  max = 4
  max_retries = 4
  Iterations = 4
  max_reconnect_attempts = 2
  Messages = 3
  MaxConnections = 3
  capacity = 3
  max_pool_size = 2
  initial_count = 1
  b_MaxFrames = 3
  b_MaxBytes = 6
  MaxHeld = 3
  Length = {0, 1, 3, 126}
  CloseCode = {1000, 1005}
  v_MaxFrames = 4
  Thread = {"t1", "t2", "t3"}
  initial_size = 1
  max_size = 2
  block_size = 3
  MaxBlocks = 3
  Sizes = {1, 2}
  Client = {"c1", "c2"}
  BUFFER_SIZE = 1
  SendSpace = 1
  l_MaxBytes <- MCMaxBytes
  PING_INTERVAL = 6
  PONG_TIMEOUT = 2
  client_interval = 4
  client_limit = 8
  Delay = 1
  Lag = 1
  Session = {"s1", "s2"}
  MaxMsgs <- MCMaxMsgs
INVARIANTS ExclusiveSlot RecoveryInv MigrationInv BuffersFaithful MessagesWellFormed PoolSafe
           HeartbeatSound AnswersBelong
PROPERTIES RefinesFifo MainProgress MainNotBlocked EveryByteEchoed Departs
CHECK_DEADLOCK FALSE
