CONSTANTS
  Graph = {g1, g2}
  FeId = "fe"
  BeId = "be"
  Pull = FALSE
  Ctl = {}
  None = None
  StopBound = 2
SPECIFICATION Spec
INVARIANT BooksBalance
