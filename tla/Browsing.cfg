SPECIFICATION Spec
CONSTANTS
  Null = Null
  Missing = Missing
  Traced = TRUE
  Half = 4
  Product = 1
  Warehouse = 1
  Batch = 2
  PageSize = 1
  Tables <- TwoWarehouses
  Bookings <- BringAndTake
  MaxNumber = 5
  MaxFlight = 2
  MaxSent = 4
INVARIANTS
  RepeatedForAReason
  EndIsTheEnd
  ShownPageIsCurrent
  PagesWithinSizeAreFound
  TasksAgree
CHECK_DEADLOCK FALSE
