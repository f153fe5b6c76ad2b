CONSTANTS
  Sessions = {s1, s2}
  Callers = {c}
  CallerOf <- OneCaller
  Budgets <- TightBudgets
  Streaming = {s1}
SPECIFICATION Spec
INVARIANTS
  SubscriptionBudgets
  EverySessionIsFound
PROPERTIES
  ScopeOutlivesWork
  ShutdownEnds
CHECK_DEADLOCK FALSE
