SPECIFICATION CallsSpec
CONSTANTS
  Callers = {c1, c2}
  Requests <- MCRequests
  Posts <- MCPosts
  Edge = "edge"
  MAX_CONCURRENT_MCP = 1
  QUOTA_LIMIT = 4
  QUOTA_WINDOW = 2
  FLOOD_LIMIT = 2
  FLOOD_WINDOW = 2
  MAX_KEYS = 2
  RAW_MAX_URLS = 3
  SUMMARY_MAX_URLS = 2
  MAX_PER_HOST = 2
  CONCURRENCY = 2
  MAX_COST = 4
  SEED_COST = 3
  Budgets <- MCBudgets
  MaxTime = 3
INVARIANTS
  AdmissionExact
  ReceiptTruthful
  AuditedAndAnswered
  FloodBounded
PROPERTIES
  QuotaBounded
CHECK_DEADLOCK FALSE
SYMMETRY Symmetry
