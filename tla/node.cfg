SPECIFICATION MCSpec
CONSTANTS
  asio = asio
  qt = qt
  asyncio = asyncio
  s1 = s1
  s2 = s2
  h1 = h1
  h2 = h2
  h3 = h3
  Nodes = {asio, qt, asyncio}
  Handles = {h1, h2, h3}
  Slots = {s1, s2}
  NodeAddrs <- MCAddrs
  Subjects <- MCSubjects
  Loopback = {qt}
  Asio = {asio}
  Asyncio = {asyncio}
  MaxAir = 2
  MaxCopies = 1
  MaxMoves = 1
SYMMETRY SlotsAndHandles
INVARIANTS EveryResponseAnswers HandlesOwnTheirSubscription
PROPERTIES ImplementsTransfers
CHECK_DEADLOCK FALSE
