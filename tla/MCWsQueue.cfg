SPECIFICATION LiveSpec
CONSTANTS
  Producer = {p1, p2}
  Node = {n1, n2, n3, n4, n5}
  Null = Null
  MaxSend = 2
  CountMod = 8
INVARIANT QueueInv
PROPERTY AllArrive
