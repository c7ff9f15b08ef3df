CONSTANTS
  w1 = w1
  w2 = w2
  w3 = w3
  p1 = p1
  p2 = p2
  p3 = p3
  t1 = t1
  t2 = t2
  t3 = t3
  WarehouseIds = {w1, w2, w3}
  Warehouses = {w1, w2}
  Products = {p1, p2, p3}
  Counts <- EdgeCounts
  MaxCount = 5
  NoRow = NoRow
  NoWarehouse = NoWarehouse
  Requests <- EdgeRequests
  Tasks = {t1, t2}
  InitialProducts = {p1, p2}
  InitialStocks <- EdgeStocks
  MayFail = TRUE
SPECIFICATION FairSpec
INVARIANTS BookedIsBacked NewItemsNeverClash
PROPERTIES RequestsAreAtomic DriftOnlyByOverdraw EveryTaskAnswered
