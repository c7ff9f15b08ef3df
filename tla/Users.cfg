SPECIFICATION Spec
CONSTANTS
  Tasks = {t1, t2}
  Credentials <- SomeCredentials
  Empty = ""
  Null = Null
  Super = "super"
  SuperSecret = "s1"
  Lifetime = 0
  MaxClock = 1
  MaxDrawn <- FewNumbers
  MaxTokens = 2
  MaxRemakes = 1
SYMMETRY Places
INVARIANTS
  CreatorIsWhoAsked
  AnswersAgree
  CreatedUsersCanLogIn
CHECK_DEADLOCK FALSE
