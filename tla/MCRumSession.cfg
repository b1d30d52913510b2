SPECIFICATION Spec
CONSTANTS
  t1 = t1
  t2 = t2
  i1 = i1
  i2 = i2
  i3 = i3
  i4 = i4
  Tabs = {t1, t2}
  Ids = {i1, i2, i3, i4}
  NoId = NoId
  MaxAge = 4
  Inactivity = 2
  Period = 2
  MaxDelay = 1
  Punctual = TRUE
  MaxClockSteps = 1
SYMMETRY Symmetry
INVARIANTS TypeOK SessionAgeBound StaleIdBound
PROPERTIES ExpiryNeedsInactivity
