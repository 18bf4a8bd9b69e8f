SPECIFICATION Spec
CONSTANTS
  shared = shared
  mapped = mapped
  Callers <- MCCallers
  Mapped <- MCMapped
  LateCallbacks = TRUE
  MaxTid = 1
  MaxRestarts = 0
INVARIANT EitherAnswerOrError
CHECK_DEADLOCK FALSE
