SPECIFICATION Spec
CONSTANTS
  MaxQueue = 3
  Cycle = 5
INVARIANTS NothingOvertakes
PROPERTIES HeartbeatsReturn SubscriptionsSettle
