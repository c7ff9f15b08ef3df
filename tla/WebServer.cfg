SPECIFICATION ServerSpec
CONSTANTS
  tls = tls
  plain = plain
  l1 = l1
  l2 = l2
  Sessions = {tls, plain}
  Secured = {tls}
  MaxRequests = 3
  Loops = {l1, l2}
INVARIANTS
  OneAtATime
  HeadOfItsRequest
PROPERTIES
  ImplementsExchange
  EveryRequestEnds
  EveryClientIsTaken
CHECK_DEADLOCK FALSE
