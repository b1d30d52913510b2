SPECIFICATION Spec
CONSTANTS
  a = a
  b = b
  l = l
  m = m
  Spans = {a, b}
  Root = Root
  None = None
  Listeners = {l}
  MaxDepth = 2
  MaxCalls = 5
SYMMETRY Symmetry
INVARIANTS RegistrationResumed
CHECK_DEADLOCK FALSE
