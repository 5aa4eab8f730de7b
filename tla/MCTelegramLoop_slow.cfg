CONSTANTS
  m1 = m1
  m2 = m2
  r1 = r1
  n1 = n1
  c1 = c1
  c2 = c2
  c3 = c3
  NoConv = NoConv
  NoTask = NoTask
  Msgs = {m1, n1, r1}
  Keys <- MCKeys
  KeyOf <- MCKeyOf
  Resets = {r1}
  ConvIds = {c1, c2}
  MaxFaults = 1
  MaxRestarts = 0
  MaxDeletes = 0
SPECIFICATION SlowSpec
PROPERTIES
  OtherChatsUnblocked
  BusyClears
CHECK_DEADLOCK FALSE
