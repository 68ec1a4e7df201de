SPECIFICATION FairSpec
CONSTANTS
  m1 = m1
  s1 = s1
  None = None
  Masters = {m1}
  Slaves = {s1}
  Id <- MCIds
  Chans = {c1, c2}
INVARIANTS
  TypeOK
  ListsAgree
  OneTakesDown
  HeldWhileDown
PROPERTIES
  EventsHandled
CHECK_DEADLOCK FALSE
