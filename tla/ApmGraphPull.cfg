CONSTANTS
  Graph = {g1}
  FeId = "fe"
  BeId = "fe"
  Pull = TRUE
  Ctl = {c1, c2}
  None = None
  StopBound = 1
SPECIFICATION FairSpec
INVARIANTS
  CountIsUsers
  UsersHaveLiveGraph
  BooksBalance
PROPERTIES
  ImplementsSharedGraph
  CallsEnd
