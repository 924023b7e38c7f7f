SPECIFICATION Spec
CONSTANTS
  m1 = m1
  m2 = m2
  main = main
  Requests <- MCRequests
  Clients = {c1, c2, c3}
  Commits = {m1, m2}
  Branches = {main}
  Newest = m2
  Pinned = {m1, m2}
  Elsewhere = {}
  Size <- MCSize
  Disk = 5
  Reserve = 1
  StoreLimit = 3
  MaxModel = 2
INVARIANTS
  ReuseIsOfCompleteModels
CHECK_DEADLOCK FALSE
