SPECIFICATION StartFairSpec
CONSTANTS
  k1 = k1
  k2 = k2
  k3 = k3
  k4 = k4
  Boot = Boot
  c1 = c1
  c2 = c2
  Clients = {Boot, c1, c2}
  Nobody = Nobody
  Conns = {k1, k2, k3, k4}
  NoConn = NoConn
  Own = Own
  Master = Master
  Databases = {Own, Master}
  Quota = 2
  DefaultCount = 2
  Counts = {0, 1, 3}
  NotGiven = NotGiven
  Attempts = 2
INVARIANTS
  NoStrayConnection
  QuotaAsConfigured
  ServesValid
  OnlyConfiguredRemade
PROPERTIES
  StartupEnds
CHECK_DEADLOCK FALSE
