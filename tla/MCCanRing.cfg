SPECIFICATION LiveSpec
CONSTANTS
  N = 3
  Msg = {m1, m2, m3}
  NoMsg = NoMsg
INVARIANTS NoSlotRace PeekIsNext
PROPERTY RefinesFairFifo
