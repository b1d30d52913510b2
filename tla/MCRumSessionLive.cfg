SPECIFICATION FairSpec
CONSTANTS
  t1 = t1
  t2 = t2
  i1 = i1
  i2 = i2
  i3 = i3
  i4 = i4
  Tabs = {t1, t2}
  Ids = {i1, i2, i3, i4}
  NoId = NoId
  MaxAge = 2
  Inactivity = 1
  Period = 1
  MaxDelay = 0
  Punctual = FALSE
  MaxClockSteps = 0
PROPERTIES ExpiredSessionAbandoned
