CONSTANTS
  m1 = m1
  m2 = m2
  r1 = r1
  n1 = n1
  c1 = c1
  c2 = c2
  c3 = c3
  NoConv = NoConv
  NoTask = NoTask
  Msgs = {m1, m2, n1}
  Keys <- MCKeys
  KeyOf <- MCKeyOf
  Resets = {}
  ConvIds = {c1, c2, c3}
  MaxFaults = 1
  MaxRestarts = 1
  MaxDeletes = 1
SYMMETRY MCSymmetry
SPECIFICATION Spec
INVARIANTS
  BusyHasOwner
  LostTurnsOverlap
  OneConversationPerChat
  ChatsIsolated
CHECK_DEADLOCK FALSE
