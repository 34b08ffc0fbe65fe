SPECIFICATION Spec
CONSTANTS
  w1 = w1
  w2 = w2
  NoWorker = NoWorker
  Jobs <- MCJobs
  Orders <- MCOrders
  OrderOf <- MCOrderOf
  WorkerIds = {w1, w2}
  MaxAttempts = 2
  BatchSize = 2
  Caps = {1, 2}
  Budgets = {1}
  MaxTokens = 1
INVARIANTS
  TypeOK
  LeaseMatchesState
  RetryBudget
  AnsweredIsBilled
  OrderStateIsTrue
  SpendIsBounded
PROPERTIES
  ClaimsWithinEntitlements
  OrderMoves
