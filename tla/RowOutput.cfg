SPECIFICATION Spec
CONSTANTS
  Configs <- MCConfigs
  MaxBand = 8
  MaxHeight = 7
  MaxScaledHeight = 8
INVARIANT RowsAboveLastYAreRight
PROPERTY AllRowsComeOut
