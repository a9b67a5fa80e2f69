CONSTANTS
  MaxIndex = 6
  CacheKeys = {k1}
  c1 = c1 c2 = c2 srv = srv
SPECIFICATION EditingSpec
INVARIANTS LogSound UndoSound Convergent TextRestored  ChatAgrees CleanupSafe
PROPERTIES HistoryKept
CHECK_DEADLOCK FALSE
