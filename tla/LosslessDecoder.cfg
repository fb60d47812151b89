CONSTANTS
  Configs <- MCConfigs
  Lengths = {3, 10}
  SYNC_EVERY_N_ROWS = 2
  NUM_ARGB_CACHE_ROWS = 4
SPECIFICATION Spec
INVARIANTS
  RowsOnce
  CacheIsCurrent
  ValidStreamDecodes
  AlphaRowsAreRight
