---------------------------- MODULE MCRowPipeline ----------------------------
(* Frames for TLC to decode with RowPipeline. *)
EXTENDS RowPipeline

Windows(tops, bottoms) == { w \in tops \X bottoms : w[1] < w[2] }

Frames(mts, height, windows, alphas) ==
  { [mt |-> m, plane |-> p, filter |-> f, height |-> height,
     top |-> w[1], bottom |-> w[2], alpha |-> a] :
      m \in mts, p \in {"Y", "UV"}, f \in 0 .. 2, w \in windows, a \in alphas }

\* Inline: crop windows whose edges fall before, on and after every boundary
\* that the filters' reach and delay make, in a picture of 3 macroblock rows,
\* the last one partial.
Inline ==
  Frames({0}, 43,
         Windows({0, 2, 6, 8, 10, 14, 16, 18, 24, 30, 32, 40},
                 {1, 7, 8, 9, 13, 14, 15, 16, 17, 18, 23, 24, 25, 29, 30, 31,
                  32, 33, 39, 40, 41, 42, 43}),
         BOOLEAN)

\* Threaded: five macroblock rows, so that each slot of the cache is reused.
Threads2 ==
  Frames({2}, 73, {<<0, 73>>, <<2, 56>>, <<16, 57>>, <<18, 33>>}, BOOLEAN)

MCConfigs == Inline \cup Threads2
=============================================================================
