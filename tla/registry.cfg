CONSTANTS
  Names = {a, b}
  Values = {x, y}
  NoValue = NoValue
  Garbage = Garbage
  NoName = NoName
  Formats = {"binary", "json", "settings"}
  ReadAhead = 1
  EarlyAutosave = {}
  MaxSets = 3
  MaxStops = 2
  Udp = {u}
  NoNode = NoNode
  MaxScopes = 3
SYMMETRY Symmetric
SPECIFICATION Spec
INVARIANTS WritesReachTheFile ListAndAccessAgree OnlyCreatedNames ServedNodeIsAlive
PROPERTIES IndexesAreStable LoadRestores ImplementsDurableMap
