----------------------------- MODULE MCRowOutput -----------------------------
EXTENDS RowOutput

CONSTANTS MaxHeight, MaxScaledHeight

Config(kind, use_scaling, has_alpha, rows, scaled_rows) ==
  [kind |-> kind, use_scaling |-> use_scaling, has_alpha |-> has_alpha,
   height |-> rows, scaled_height |-> scaled_rows]

\* Fancy upsampling is turned off when the output is rescaled.
MCConfigs ==
  { Config(kind, FALSE, has_alpha, rows, 0) :
      kind \in { "YUV", "sampled", "fancy", "lossless_RGB", "lossless_YUV" },
      has_alpha \in BOOLEAN, rows \in 1 .. MaxHeight }
  \cup
  { Config(kind, TRUE, has_alpha, rows, scaled_rows) :
      kind \in { "YUV", "sampled", "lossless_RGB", "lossless_YUV" },
      has_alpha \in BOOLEAN, rows \in 1 .. MaxHeight, scaled_rows \in 1 .. MaxScaledHeight }
=============================================================================
