SPECIFICATION SlaFairSpec
CONSTANTS
  Timers = {t1, t2}
  Jobs = {e1}
  MaxAttempts = 2
  MaxStalls = 1
INVARIANTS BreachIsReal SentIsDelivered
PROPERTIES NeglectedIsMarked EscalationsSettle
CHECK_DEADLOCK FALSE
