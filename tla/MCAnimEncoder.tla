---------------------------- MODULE MCAnimEncoder ----------------------------
(* Options for TLC to run AnimEncoder with. *)
EXTENDS AnimEncoder

O(kmin, kmax) == [kmin |-> kmin, kmax |-> kmax]

\* Key frames disabled (2 slots), all frames key frames (2), intervals with
\* 2, 3 and 3 slots, the last one with kmin raised by SanitizeEncoderOptions.
MCOptions == { O(9, 0), O(0, 1), O(7, 2), O(0, 2), O(0, 5) }

\* What gif2webp asks for if it compresses lossily.
GifOptions == { O(3, 5) }
=============================================================================
