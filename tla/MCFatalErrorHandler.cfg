SPECIFICATION FairSpec
CONSTANTS
  e1 = e1
  e2 = e2
  e3 = e3
  r1 = r1
  NoError = NoError
  Errors = {e1, e2, e3}
  Rejections = {r1}
  Configs <- Every
INVARIANTS TypeOK FatalErrorOnce ApplicationDecides SoleReportExported
PROPERTIES FatalErrorsExit
CHECK_DEADLOCK FALSE
