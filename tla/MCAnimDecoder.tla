---------------------------- MODULE MCAnimDecoder ----------------------------
(* Frames and pixels for TLC to run AnimDecoder with. *)
EXTENDS AnimDecoder, Sequences, SequencesExt

\* A pixel is what is seen of it: the tints one above the other, down to the
\* first opaque one ("o").
MCPixels == UNION { [1 .. n -> {"o", "s"}] : n \in 0 .. 3 }
NoTint   == << >>

LayerOver(p, q) ==
  LET r == p \o q
  IN  IF p # << >> /\ Last(p) = "o" THEN p
      ELSE SubSeq(r, 1, IF Len(r) < 3 THEN Len(r) ELSE 3)

\* x, y, width, height on a canvas of 3 x 2: all of it, the two columns on the
\* left, the middle one, the end of the lower row.
Rects == { <<0, 0, 3, 2>>, <<0, 0, 2, 2>>, <<1, 0, 1, 2>>, <<1, 1, 2, 1>> }

Points(r) == (r[1] .. r[1] + r[3] - 1) \X (r[2] .. r[2] + r[4] - 1)

\* Opaque, or a chequered pattern of translucent and transparent pixels.
Solid(r)     == [p \in Points(r) |-> << "o" >>]
Chequered(r) == [p \in Points(r) |-> IF (p[1] + p[2]) % 2 = 0 THEN << "s" >> ELSE << >>]

F(r, opaque, blend, dispose) ==
  [x |-> r[1], y |-> r[2], width |-> r[3], height |-> r[4],
   has_alpha |-> ~ opaque, blend |-> blend, dispose |-> dispose,
   duration |-> 1, pix |-> IF opaque THEN Solid(r) ELSE Chequered(r)]

MCFrames == { F(r, o, b, d) : r \in Rects, o \in BOOLEAN,
                              b \in {"BLEND", "NO_BLEND"}, d \in {"NONE", "BACKGROUND"} }
=============================================================================
