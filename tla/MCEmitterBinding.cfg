SPECIFICATION Spec
CONSTANTS
  l1 = l1
  l2 = l2
  l3 = l3
  w1 = w1
  w2 = w2
  w3 = w3
  w4 = w4
  w5 = w5
  w6 = w6
  NoWrapper = NoWrapper
  All = All
  Listeners = {l1, l2, l3}
  Wrappers = {w1, w2, w3, w4}
  AddsOnce = TRUE
  HandlersApart = TRUE
  MaxInstalled = 3
SYMMETRY Symmetry
INVARIANTS TypeOK
 
