CONSTANTS
  Clients = {k1, k2}
  Cashiers = {c1, c2, c3}
  c3 = c3
  None = None
  CASHIER_BLOCK_REVIEW_THRESHOLD = 2
  ASSIGNMENT_BATCH_SIZE = 2
  MaxPeriod = 1
  BACKOFF_BASE = 1
  BACKOFF_MAX = 2
  BACKOFF_EXPONENT = 1
SYMMETRY UserSymmetry
SPECIFICATION PartsSpec
CONSTRAINT TeamBounds
INVARIANTS RelationshipsSafe ClientNotLost ListedWhenUsable
PROPERTIES LeastLoaded FreshCashier
