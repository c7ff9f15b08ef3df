SPECIFICATION Spec
CONSTANTS
  t1 = t1
  t2 = t2
  w1 = w1
  w2 = w2
  p1 = p1
  n1 = n1
  x1 = x1
  i1 = i1
  i2 = i2
  Tasks = {t1, t2}
  NoTask = NoTask
  Requests <- ReportRequests
  Warehouses = {w1}
  Operations <- BoundaryOperations
  Names = {n1}
  Tweaks = {x1}
  Untweaked = Untweaked
  NoPath = NoPath
  Attempts = 2
  Unit = 3
SYMMETRY Symmetry
INVARIANTS
  RowsNameOwnFiles
  AnsweredIsWritten
  UnwrittenForAReason
  PeriodAsPrinted
CHECK_DEADLOCK FALSE
