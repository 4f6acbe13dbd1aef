SPECIFICATION MCSpec
CONSTANTS
  u1 = u1
  u2 = u2
  u3 = u3
  c1 = c1
  c2 = c2
  k1 = k1
  k2 = k2
  g1 = g1
  g2 = g2
  None = None
  Ids <- McIds
  Values <- McValues
  MaxCalls <- McMaxCalls
  MaxStatements = 2
  LastOpen = 1
INVARIANT TypeOK
PROPERTY SavedAsBuilt
PROPERTY NilOnlyIfMoved
CHECK_DEADLOCK FALSE
