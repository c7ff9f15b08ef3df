SPECIFICATION FairQueriesSpec
CONSTANTS
  c1 = c1
  c2 = c2
  k1 = k1
  k2 = k2
  theDb = theDb
  table = table
  column = column
  v1 = v1
  v2 = v2
  Clients = {c1, c2}
  Nobody = Nobody
  Conns = {k1, k2}
  NoConn = NoConn
  Databases = {theDb}
  Quota = 1
  Attempts = 2
  Queries <- WithEmptyFilter
  NoQuery = NoQuery
  NoFilter = NoFilter
  ColumnsOf <- Columns
  MaxId = 3
INVARIANTS
  Exclusive
  QuotaKept
  OwnStatement
  FailsForAReason
PROPERTIES
  EveryUseEnds
