------------------------ MODULE MCIncrementalDecoder ------------------------
(* Files for TLC to feed to IncrementalDecoder. *)
EXTENDS IncrementalDecoder

Lossy(mts, kinds, counts, bads) ==
  { [lossless |-> FALSE, mt |-> m, alpha |-> a, payload |-> 3, rows |-> 3,
     width |-> 2, parts |-> n, bad |-> b] :
      m \in mts, a \in kinds, n \in counts, b \in bads }

Lossless ==
  [lossless |-> TRUE, mt |-> FALSE, alpha |-> "none", payload |-> 3,
   rows |-> 1, width |-> 1, parts |-> 1, bad |-> FALSE]

\* Every kind of file, with more rows than partitions so that one is read twice,
\* and with fewer so that the last one, which is waited for, holds no row.
MCFiles ==
  Lossy(BOOLEAN, {"none", "raw", "lossless"}, {1, 2, 4}, {FALSE})
    \union Lossy(BOOLEAN, {"none"}, {1, 2}, {TRUE})
    \union {Lossless}
=============================================================================
