SPECIFICATION Spec
CONSTANTS
  CHUNK_HEADER_SIZE = 2
  RIFF_HEADER_SIZE = 3
  VP8X_CHUNK_SIZE = 2
  ANIM_CHUNK_SIZE = 2
  ANMF_CHUNK_SIZE = 4
  Bitstreams <- MCBitstreams
  Chunks <- MCChunks
  Tags = {"ICCP", "UNK1", "ANIM", "VP8X"}
  Widths = {0, 2, 4}
  Offsets = {0, 3}
  MaxImages = 2
  Files <- MCFiles
INVARIANTS
  FramesAreSound
  WhatWasGivenRemains
  AssembledIsRead
  AssembledIsRecreated
  FeaturesRemain
  ParsersAgree
