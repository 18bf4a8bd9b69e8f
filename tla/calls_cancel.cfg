SPECIFICATION Spec
CONSTANTS
  shared = shared
  mapped = mapped
  Callers <- MCCallers
  Mapped <- MCMapped
  LateCallbacks = FALSE
  MaxTid = 1
  MaxRestarts = 1
INVARIANTS TypeOK AtMostOneOutcome
PROPERTIES AnswerMatchesCall CallsSettle ImplementsPromise
CHECK_DEADLOCK FALSE
