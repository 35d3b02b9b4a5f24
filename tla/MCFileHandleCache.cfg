CONSTANTS
  c1 = c1
  c2 = c2
  h1 = h1
  h2 = h2
  h3 = h3
  o1 = o1
  o2 = o2
  o3 = o3
  Clients = {c1, c2}
  Handles = {h1, h2, h3}
  Objects = {o1, o2, o3}
  Keys = {10, 11, 20}
  MaxEntries = 2
  Timeout = 1
  Null = Null
  NoKey = NoKey
  OverlapKeys = {10}
SPECIFICATION Spec
SYMMETRY HandleSymmetry
INVARIANTS  CachesConsistent CounterExact CallbackAssertions
