SPECIFICATION Spec
CONSTANTS
  s1 = s1
  o1 = o1
  Tabs = {t1, t2}
  Editors = {t1, t2}
  Admins = {}
  Slots = {s1}
  Certificate = cert
  Objects = {o1}
  SlotOf <- MCSlotOf
  Historical = {}
  MaxVersion = 3
  None = None
CHECK_DEADLOCK FALSE
PROPERTIES
  StaleSavesLoseNothing
