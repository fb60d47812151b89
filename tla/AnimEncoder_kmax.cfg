\* The options of gif2webp, which fulfil what mux.h asks of them; no call fails.
CONSTANTS
  Options <- GifOptions
  MaxDuration = 3
  MaxSince = 7
  MaxFailures = 0
SPECIFICATION SafeSpec
INVARIANT
  KeyFramesWithinKmax
