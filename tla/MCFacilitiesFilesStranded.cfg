SPECIFICATION DiligentSpec
CONSTANTS
  u1 = u1
  u2 = u2
  u3 = u3
  t1 = t1
  a = a
  b = b
  q = q
  Uploads = {t1}
  Slots = {q}
  Templates = {q}
  Required = {}
  SlotOf <- MCSlotOf
  Size <- MCSize
  Quota = 3
  MaxTries = 1
  Tripwire = 1
  MaxListed = 0
  Faults = {}
  None = None
CHECK_DEADLOCK FALSE
PROPERTIES
  NoStrandedTemplate
