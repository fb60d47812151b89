CONSTANT Configs <- MCConfigs
SPECIFICATION Spec
INVARIANTS
  PutRowsAreFinal
  BandsInOrder
  BuffersDisjoint
PROPERTIES
  ImplementsFrameOutput
  UsesJobWorker
