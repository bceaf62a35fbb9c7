SPECIFICATION ScenarioSpec
CONSTANTS
  s1 = s1
  h1 = h1
  o1 = o1
  o2 = o2
  o3 = o3
  c1 = c1
  c2 = c2
  p1 = p1
  p2 = p2
  p3 = p3
  a1 = a1
  a2 = a2
  Tabs = {p1, p2, p3}
  Editors = {p3}
  Admins = {a1, a2}
  Slots = {s1}
  Certificate = cert
  Objects = {h1, o1, o2, o3, c1, c2}
  SlotOf <- MCSlotOf
  Historical = {h1}
  MaxVersion = 5
  None = None
SYMMETRY Symmetry
CHECK_DEADLOCK FALSE
INVARIANTS
  NeededIsThere
PROPERTIES
  DecisionIsInformed
  KeepsPromise
