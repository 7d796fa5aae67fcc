SPECIFICATION Spec
CONSTANTS
  Window = 2
  Backfill = 2
  MaxPolls = 2
  MaxEvents = 2
  MaxRows = 2
  MaxTokens = 2
  MaxDrops = 1
  MaxTicks = 1
INVARIANTS OneStream StatusBacked RowsBacked
PROPERTIES ListSettles StreamRestored
CHECK_DEADLOCK FALSE
