------------------------------- MODULE Rescaler -------------------------------
(***************************************************************************)
(* WebPRescaler in the vertical direction (src/utils/rescaler_utils.c,      *)
(* ExportRow of src/dsp/rescaler.c): source rows are imported one by one    *)
(* and rows of the output are exported as soon as they can be.              *)
(*                                                                         *)
(* A row is what it is made of: pairs of a source row and its weight, in    *)
(* units of 1 / y_sub, without rounding.                                    *)
(***************************************************************************)
EXTENDS Integers, Sequences, FiniteSets, SequencesExt

Positive(n)   == IF n > 0 THEN n ELSE 0
Smaller(a, b) == IF a < b THEN a ELSE b
Larger(a, b)  == IF a < b THEN b ELSE a
Distance(a, b) == Larger(a, b) - Smaller(a, b)

YSub(src_height, dst_height) ==
  IF src_height < dst_height THEN dst_height - 1 ELSE dst_height

WebPRescalerInit(src_height, dst_height) ==
  LET y_expand == src_height < dst_height
      y_add    == IF y_expand THEN src_height - 1 ELSE src_height
      y_sub    == YSub(src_height, dst_height)
  IN  [src_height |-> src_height, dst_height |-> dst_height, y_expand |-> y_expand,
       y_add |-> y_add, y_sub |-> y_sub, y_accum |-> IF y_expand THEN y_sub ELSE y_add,
       src_y |-> 0, dst_y |-> 0, irow |-> << >>, frow |-> << >>]

OutputDone(r)       == r.dst_y >= r.dst_height
HasPendingOutput(r) == ~ OutputDone(r) /\ r.y_accum <= 0

\* Source rows from the given one on are imported until a row can be exported, at
\* most num_lines of them.
WebPRescalerImport(r, num_lines, row) ==
  LET n == Cardinality({ i \in 0 .. num_lines - 1 : OutputDone(r) \/ r.y_accum > i * r.y_sub })
      new(i) == << <<row + i - 1, r.y_sub>> >>
  IN  IF n = 0 THEN r
      ELSE [r EXCEPT !.frow = new(n),
                     !.irow = IF ~ r.y_expand THEN @ \o [i \in 1 .. n |-> new(i)[1]]
                              ELSE IF n = 1 THEN r.frow ELSE new(n - 1),
                     !.src_y = @ + n, !.y_accum = @ - n * r.y_sub]

NonZero(row) == SelectSeq(row, LAMBDA p : p[2] # 0)

\* The row taken n / d times.
Times(row, n, d) == [i \in DOMAIN row |-> <<row[i][1], (row[i][2] * n) \div d>>]

\* The k-th of the rows that can be exported.  An expanded row is between the last
\* two source rows; a shrunk one ends within the last source row.
ExportedRow(r, k) ==
  LET y_accum == r.y_accum + (k - 1) * r.y_add
      whole   == Times(r.frow, r.y_sub + y_accum, r.y_sub)
  IN  IF r.y_expand THEN NonZero(Times(r.irow, - y_accum, r.y_sub) \o whole)
      ELSE NonZero(Front(r.irow) \o whole)

\* How many rows can be exported, if at most max are asked for.
Exportable(r, max) ==
  Cardinality({ k \in 0 .. max - 1 :
                  r.dst_y + k < r.dst_height /\ r.y_accum + k * r.y_add <= 0 })

\* n rows are exported.  The rest of the last source row begins the next shrunk row.
ExportRows(r, n) ==
  IF n = 0 THEN r
  ELSE [r EXCEPT !.irow = IF r.y_expand THEN @ ELSE NonZero(Times(r.frow, - r.y_accum, r.y_sub)),
                 !.y_accum = @ + n * r.y_add, !.dst_y = @ + n]

\* Division of C, towards 0.
Quotient(a, b) == IF a >= 0 THEN a \div b ELSE - ((- a) \div b)

\* Variant: rounded down.
WebPRescaleNeededLines_Floor(r, max_num_lines) ==
  Smaller(Quotient(r.y_accum, r.y_sub), max_num_lines)

WebPRescaleNeededLines(r, max_num_lines) ==
  LET num_lines == Quotient(r.y_accum + r.y_sub - 1, r.y_sub)
  IN  Smaller(num_lines, max_num_lines)

-----------------------------------------------------------------------------
(* What it is for.                                                          *)

\* The k-th of dst_height rows made of src_height rows.  Expanded: the first and
\* last rows are those of the source, the others interpolated between the nearest
\* two.  Shrunk: the average of what the row covers.
ScaledRow(src_height, dst_height, k) ==
  LET weight(s) ==
        IF src_height < dst_height
        THEN Positive(dst_height - 1
                        - Distance(k * (src_height - 1), s * (dst_height - 1)))
        ELSE Positive(Smaller((k + 1) * src_height, (s + 1) * dst_height)
                        - Larger(k * src_height, s * dst_height))
  IN  NonZero([i \in 1 .. src_height |-> <<i - 1, weight(i - 1)>>])
=============================================================================
