-------------------------- MODULE MCLosslessDecoder --------------------------
(* Images and alpha planes for TLC to decode with LosslessDecoder. *)
EXTENDS LosslessDecoder

C(kind, inc, height, top, bottom, filter, levels, cache, transforms) ==
  [kind |-> kind, inc |-> inc, width |-> 2, height |-> height, top |-> top,
   bottom |-> bottom, filter |-> filter, levels |-> levels, cache |-> cache,
   transforms |-> transforms]

\* Rows 0 .. 8 are two batches and one row more; the crop window begins and ends
\* on and beside the border of a batch.
Windows == { <<0, 9>>, <<3, 8>>, <<4, 5>>, <<6, 9>> }

Images ==
  { C("image", i, 9, w[1], w[2], "none", FALSE, c, << "predictor", "green" >>) :
      i \in BOOLEAN, w \in Windows, c \in BOOLEAN }

Planes(kinds, filters) ==
  { C(k, FALSE, 6, w[1], w[2], f, l, FALSE, << "indexing" >>) :
      k \in kinds, f \in filters, l \in BOOLEAN, w \in { <<0, 6>>, <<2, 5>>, <<4, 6>> } }

\* A header that no decoder accepts.
Invalid == { C("image", i, 9, 0, 9, "none", FALSE, FALSE, << "green", "green" >>) :
               i \in BOOLEAN }

\* All alpha planes but those of HorizontalCrop.
MCConfigs ==
  Images \cup Invalid
         \cup Planes({"alpha32", "alphaRaw"}, Filters)
         \cup Planes({"alpha8"}, Filters \ {"horizontal"})
         \cup { c \in Planes({"alpha8"}, {"horizontal"}) : c.top = 0 }

\* A palette and a horizontal filter, cropped at the top.
HorizontalCrop == { c \in Planes({"alpha8"}, {"horizontal"}) : c.top > 0 }
=============================================================================
