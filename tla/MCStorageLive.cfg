SPECIFICATION LiveSpec
CONSTANTS
  u1 = u1
  u2 = u2
  a = a
  s1 = s1
  o1 = o1
  o2 = o2
  Tabs = {p1}
  Editors = {}
  Admins = {}
  Slots = {s1}
  Certificate = cert
  Objects = {o1, o2}
  SlotOf <- MCSlotOf
  Historical = {}
  MaxVersion = 3
  None = None
CHECK_DEADLOCK FALSE
PROPERTIES
  IsPurged
  NothingIsLeft
