SPECIFICATION RunnerSpec
CONSTANTS
  w1 = w1
  w2 = w2
  NoWorker = NoWorker
  Jobs <- MCJobs
  Orders <- MCOrders
  OrderOf <- MCOrderOf
  WorkerIds = {w1}
  Workers = {w1}
  WorkerId <- OwnId
  MaxAttempts = 2
  BatchSize = 2
  Caps = {2}
  Budgets = {1}
  MaxTokens = 1
  MaxCrashes = 0
  MaxRequeues = 0
PROPERTIES
  CancelledIsNotClaimed
