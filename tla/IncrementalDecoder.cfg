CONSTANTS
  Files <- MCFiles
  ChunkSize = 3
  MbSize = 2
  MaxMbSize = 4
  MaxAppend = 2
SPECIFICATION SafeSpec
INVARIANTS
  PointersTrackFile
  ModesParsedOnce
  WorkerIdleBetweenCalls
  ValidFileIsDecoded
PROPERTIES
  ImplementsFrameOutput
