SPECIFICATION Spec
CONSTANTS
  e1 = e1
  e2 = e2
  e3 = e3
  r1 = r1
  NoError = NoError
  Errors = {e1, e2}
  Rejections = {}
  Configs <- Default
PROPERTIES NoPrematureShutdown
CHECK_DEADLOCK FALSE
