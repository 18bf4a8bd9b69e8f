CONSTANTS
  Names = {a, b}
  Values = {x, y}
  Mutable = {a}
  Unread = Unread
  SendsFail = TRUE
  MaxTimeouts = 1
  MaxEdits = 2
SPECIFICATION Spec
CHECK_DEADLOCK FALSE
INVARIANTS RowsFollowList RowsAreCurrent OneAccessUnderWay
PROPERTY TableSettles
