SPECIFICATION Spec
CONSTANTS
  shared = shared
  mapped = mapped
  Callers <- MCCallers
  Mapped <- MCMapped
  LateCallbacks = TRUE
  MaxTid = 2
  MaxRestarts = 0
PROPERTIES AnswerMatchesCall CallsSettle ImplementsPromise
CHECK_DEADLOCK FALSE
