CONSTANTS
  Names = {a, b}
  Values = {x, y}
  NoValue = NoValue
  Garbage = Garbage
  NoName = NoName
  Formats = {"binary"}
  ReadAhead = 1
  EarlyAutosave = {"binary"}
  MaxSets = 3
  MaxStops = 2
  Udp = {u}
  NoNode = NoNode
  MaxScopes = 2
SYMMETRY Symmetric
SPECIFICATION Spec
PROPERTY LoadRestores
