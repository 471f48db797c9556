SPECIFICATION NetworkSpec
CONSTANTS
  WINDOW_SIZE = 2
  BITS = 3
  MAX_RETRIES = 1
  MaxSend <- MCMaxSend
  g_Client = {"c1", "c2"}
  Address = {"a1", "a2"}
  Topic = {"t1", "t2"}
  IdMod = 4
  Host = {1, 2}
  timeout = 2
  MaxDelay = 1
  Changing = {1}
  MaxChanges = 1
  MaxPackets = 2
  t_MaxData = 4
  Times = {1, 4}
  l_MaxData = 2
INVARIANTS DeliveryInv RightTopic StaleIsBounded NothingLost
PROPERTIES WindowSound TcpSound
CHECK_DEADLOCK FALSE
