CONSTANTS
  Clients = {k1}
  Cashiers = {c1, c2}
  None = None
  CASHIER_BLOCK_REVIEW_THRESHOLD = 2
  ASSIGNMENT_BATCH_SIZE = 1
  MaxPeriod = 1
  BACKOFF_BASE = 1
  BACKOFF_MAX = 1
  BACKOFF_EXPONENT = 0
SPECIFICATION Spec
INVARIANT ActiveClientServed
