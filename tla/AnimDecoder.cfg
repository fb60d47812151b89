CONSTANTS
  Width = 3
  Height = 2
  Frames <- MCFrames
  frame_count = 3
  Pixels <- MCPixels
  Transparent <- NoTint
  Over <- LayerOver
SPECIFICATION Spec
PROPERTIES
  ImplementsCompositor
