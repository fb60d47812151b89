SPECIFICATION Spec
CONSTANTS
  ByteBits = 8
  Loaded = 2
  WordSize = 3
  BModesProba <- MCModesProba
  CoeffsProba0 <- MCCoeffsProba0
  CoeffsUpdateProba <- MCCoeffsUpdateProba
  Ids <- MCIds
  Schedules <- MCSchedules
  Frames <- MCFrames
  MAX_ALLOWED_CODE_LENGTH = 15
  TreeDepthLimit = 15
  LENGTHS_TABLE_BITS = 7
  NUM_LITERAL_CODES = 2
  TableSizes <- MCTableSizes
  Histograms <- MCHistograms
  Groups <- MCGroups
INVARIANTS
  ReadsBack
  PrefixIsTrusted
  CodeIsReadBack
  TablesAreRight
  PixelsAreRead
