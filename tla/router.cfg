SPECIFICATION Spec
CONSTANTS
  s1 = s1
  s2 = s2
  root = root
  sub = sub
  Storages = {s1, s2}
  Routers = {root, sub}
  Root = root
  Acquirers = {q1, q2}
  Nodes = {n1, n2}
  None = None
  NameOf <- MCNameOf
  Parts <- MCParts
  Begins <- MCBegins
  Rank <- MCRank
  Keys <- MCKeys
  MaxKeys = 2
SYMMETRY Symmetric
INVARIANTS ListedIsReached ReachedIsListed ServedHasAcquirer
PROPERTY WalkMissesNothing
