------------------------------ MODULE RowOutput ------------------------------
(***************************************************************************)
(* From decoded rows to the rows of the user's buffer: put() of the lossy   *)
(* decoder (CustomPut of src/dec/io_dec.c, with every emit function) and    *)
(* the Emit functions that ProcessRows of the lossless decoder calls        *)
(* (src/dec/vp8l_dec.c).  Rows come in bands.  What is emitted is counted   *)
(* in last_y (last_out_row_), and WebPIDecGetRGB tells the user that rows   *)
(* above it are there.                                                      *)
(*                                                                         *)
(* Rows are those of the crop window.  The content of a row is the source   *)
(* row it comes from, the two it is upsampled from, or the weights of all   *)
(* if it is rescaled.  u and v are treated alike.  Colour spaces are        *)
(* premultiplied if they can be, and premultiplied output is never found to *)
(* be opaque.  The horizontal direction, the conversion of colours and      *)
(* RGBA4444 are left out.                                                   *)
(***************************************************************************)
EXTENDS Rescaler, FiniteSets

CONSTANTS
  Configs,   \* [kind, use_scaling, has_alpha, height, scaled_height]
  MaxBand    \* bound: rows of a band

VARIABLES
  config,
  mb_y, mb_h,                     \* the band: its first row, its number of rows
  pc,                             \* put (between bands), emit, alpha
  scaler_y, scaler_u, scaler_a,   \* of the lossless decoder: scaler_y
  j, uv_j,                        \* rows that the loop of an emit function has done
  tmp,                            \* tmp_y, tmp_u of the fancy upsampler
  num_lines_out, last_y,
  out,                            \* the rows of the buffer
  out_uv                          \* chroma planes of YUV output

vars == <<config, mb_y, mb_h, pc, scaler_y, scaler_u, scaler_a, j, uv_j, tmp,
          num_lines_out, last_y, out, out_uv>>

Half(n)   == (n + 1) \div 2
height    == config.height
uv_height == Half(height)
IsYUV     == config.kind \in {"YUV", "lossless_YUV"}
Lossless  == config.kind \in {"lossless_RGB", "lossless_YUV"}
fancy     == config.kind = "fancy"
Scaled(kinds) == config.use_scaling /\ config.kind \in kinds
Plain(kinds)  == ~ config.use_scaling /\ config.kind \in kinds

out_height == IF config.use_scaling THEN config.scaled_height ELSE height

Nothing  == << >>
Opaque   == << -1 >>
EmptyRow == [luma |-> Nothing, chroma |-> Nothing, alpha |-> Nothing, multiplied |-> 0]

Init ==
  /\ config \in Configs
  /\ mb_y = 0 /\ mb_h = 0 /\ pc = "put" /\ j = 0 /\ uv_j = 0 /\ tmp = Nothing
  /\ num_lines_out = 0 /\ last_y = 0
  /\ scaler_y = WebPRescalerInit(height, out_height)
  /\ scaler_u = WebPRescalerInit(uv_height, IF IsYUV THEN Half(out_height) ELSE out_height)
  /\ scaler_a = scaler_y
  /\ out = [r \in 0 .. out_height - 1 |-> EmptyRow]
  /\ out_uv = [r \in 0 .. Half(out_height) - 1 |-> Nothing]

Band == mb_y .. mb_y + mb_h - 1

\* The next band.  In the lossy decoder all but the last are even.
NextBand ==
  /\ pc = "put" /\ mb_y + mb_h < height
  /\ \E n \in 1 .. Smaller(MaxBand, height - mb_y - mb_h) :
       /\ Lossless \/ n % 2 = 0 \/ mb_y + mb_h + n = height
       /\ mb_h' = n
  /\ mb_y' = mb_y + mb_h
  /\ pc' = "emit" /\ j' = 0 /\ uv_j' = 0 /\ num_lines_out' = 0
  /\ UNCHANGED <<config, scaler_y, scaler_u, scaler_a, tmp, last_y, out, out_uv>>

-----------------------------------------------------------------------------
(* Without rescaling.                                                       *)

\* Writing colours makes the row opaque.
Colours(luma, chroma) ==
  [luma |-> luma, chroma |-> chroma, alpha |-> Opaque, multiplied |-> 0]

Emitted(n) == num_lines_out' = n /\ pc' = "alpha"

EmitYUV ==
  /\ pc = "emit" /\ Plain({"YUV"})
  /\ out' = [r \in DOMAIN out |-> IF r \in Band THEN [out[r] EXCEPT !.luma = << r >>] ELSE out[r]]
  /\ out_uv' = [r \in DOMAIN out_uv |->
                  IF r \in mb_y \div 2 .. mb_y \div 2 + Half(mb_h) - 1 THEN << r >> ELSE out_uv[r]]
  /\ Emitted(mb_h)
  /\ UNCHANGED <<config, mb_y, mb_h, scaler_y, scaler_u, scaler_a, j, uv_j, tmp, last_y>>

EmitSampledRGB ==
  /\ pc = "emit" /\ Plain({"sampled"})
  /\ out' = [r \in DOMAIN out |-> IF r \in Band THEN Colours(<< r >>, << r \div 2 >>) ELSE out[r]]
  /\ Emitted(mb_h)
  /\ UNCHANGED <<config, mb_y, mb_h, scaler_y, scaler_u, scaler_a, j, uv_j, tmp, last_y,
                 out_uv>>

\* A row of the fancy upsampler mixes the nearest row of chroma with the next
\* nearest, 3 to 1.
Fancy(luma, near, far) == Colours(<< luma >>, << near, far >>)

\* The band is written by pairs that begin with an odd row; the top row of the
\* picture is alone, and so is the bottom row of an even one.
EmitFancyRGB ==
  LET y_end == mb_y + mb_h
      last  == y_end = height
      first ==   \* the row above is left over from the previous band
        IF mb_y = 0 THEN [out EXCEPT ![0] = Fancy(0, 0, 0)]
        ELSE [out EXCEPT ![mb_y - 1] = Fancy(tmp.y, tmp.u, mb_y \div 2),
                         ![mb_y] = Fancy(mb_y, mb_y \div 2, tmp.u)]
      pairs == { y \in Band : (y - mb_y) % 2 = 0 /\ y + 2 < y_end }
      inner ==
        [r \in DOMAIN out |->
           IF r - 1 \in pairs THEN Fancy(r, (r - 1) \div 2, (r + 1) \div 2)
           ELSE IF r - 2 \in pairs THEN Fancy(r, r \div 2, r \div 2 - 1)
           ELSE first[r]]
      cur_u == (mb_y + 2 * Cardinality(pairs)) \div 2
  IN  /\ pc = "emit" /\ Plain({"fancy"})
      /\ out' = IF last /\ y_end % 2 = 0
                THEN [inner EXCEPT ![y_end - 1] = Fancy(y_end - 1, cur_u, cur_u)] ELSE inner
      /\ tmp' = IF last THEN tmp ELSE [y |-> y_end - 1, u |-> cur_u]
      /\ Emitted(mb_h + (IF mb_y = 0 THEN 0 ELSE 1) - (IF last THEN 0 ELSE 1))
      /\ UNCHANGED <<config, mb_y, mb_h, scaler_y, scaler_u, scaler_a, j, uv_j, last_y, out_uv>>

\* The end of CustomPut.
PutDone == pc' = "put" /\ last_y' = last_y + num_lines_out

EmitAlphaYUV ==
  /\ pc = "alpha" /\ Plain({"YUV"})
  /\ out' = [r \in DOMAIN out |->
               IF r \in Band
               THEN [out[r] EXCEPT !.alpha = IF config.has_alpha THEN << r >> ELSE Opaque]
               ELSE out[r]]
  /\ PutDone
  /\ UNCHANGED <<config, mb_y, mb_h, scaler_y, scaler_u, scaler_a, j, uv_j, tmp,
                 num_lines_out, out_uv>>

\* Variant: alpha is not delayed like the colours.
GetAlphaSourceRow_InTime == [start_y |-> mb_y, num_rows |-> mb_h]

\* The rows whose alpha is due, now that their colours are there.
GetAlphaSourceRow ==
  LET start_y == IF mb_y = 0 THEN 0 ELSE mb_y - 1
  IN  IF ~ fancy THEN [start_y |-> mb_y, num_rows |-> mb_h]
      ELSE [start_y |-> start_y,
            num_rows |-> IF mb_y + mb_h = height THEN height - start_y
                         ELSE IF mb_y = 0 THEN mb_h - 1 ELSE mb_h]

EmitAlphaRGB ==
  LET s   == GetAlphaSourceRow
      due == IF config.has_alpha THEN s.start_y .. s.start_y + s.num_rows - 1 ELSE {}
  IN  /\ pc = "alpha" /\ Plain({"sampled", "fancy"})
      /\ out' = [r \in DOMAIN out |->
                   IF r \in due THEN [out[r] EXCEPT !.alpha = << r >>, !.multiplied = @ + 1]
                   ELSE out[r]]
      /\ PutDone
      /\ UNCHANGED <<config, mb_y, mb_h, scaler_y, scaler_u, scaler_a, j, uv_j, tmp,
                     num_lines_out, out_uv>>

-----------------------------------------------------------------------------
(* With rescaling.                                                          *)

\* rows written one after the other, the first at "from".
Written(plane, from, rows) ==
  [r \in DOMAIN plane |->
     IF r - from + 1 \in DOMAIN rows THEN rows[r - from + 1] ELSE plane[r]]

\* All rows that a rescaler exports after an import.
Exported(r)  == [k \in 1 .. Exportable(r, r.dst_height) |-> ExportedRow(r, k)]
Flushed(r) == ExportRows(r, Exportable(r, r.dst_height))

\* EmitRescaledYUV, one turn of the loop of Rescale for luma, which is multiplied by
\* alpha before.
RescaleLuma ==
  LET y == WebPRescalerImport(scaler_y, mb_h - j, mb_y + j)
      rows == Exported(y)
      multiplied == IF config.has_alpha THEN 1 ELSE 0
  IN  /\ pc = "emit" /\ Scaled({"YUV"}) /\ j < mb_h
      /\ scaler_y' = Flushed(y)
      /\ out' = Written(out, y.dst_y,
                        [k \in DOMAIN rows |->
                           [EmptyRow EXCEPT !.luma = rows[k], !.multiplied = multiplied]])
      /\ j' = j + (y.src_y - scaler_y.src_y)
      /\ num_lines_out' = num_lines_out + Len(rows)
      /\ UNCHANGED <<config, mb_y, mb_h, pc, scaler_u, scaler_a, uv_j, tmp, last_y, out_uv>>

\* The same for chroma, when luma is done.
RescaleChroma ==
  LET u == WebPRescalerImport(scaler_u, Half(mb_h) - uv_j, mb_y \div 2 + uv_j)
  IN  /\ pc = "emit" /\ Scaled({"YUV"}) /\ j = mb_h
      /\ scaler_u' = Flushed(u)
      /\ out_uv' = Written(out_uv, u.dst_y, Exported(u))
      /\ uv_j' = uv_j + (u.src_y - scaler_u.src_y)
      /\ IF uv_j' < Half(mb_h) THEN UNCHANGED <<pc, j>> ELSE pc' = "alpha" /\ j' = 0
      /\ UNCHANGED <<config, mb_y, mb_h, scaler_y, scaler_a, tmp, num_lines_out, last_y, out>>

\* EmitRescaledAlphaYUV: the same for alpha.  In the end luma is divided by it.
RescaleAlpha ==
  LET a == WebPRescalerImport(scaler_a, mb_h - j, mb_y + j)
      rows == Exported(a)
      divided == IF j' = mb_h THEN last_y .. last_y + num_lines_out - 1 ELSE {}
      k(r) == r - a.dst_y + 1
  IN  /\ pc = "alpha" /\ Scaled({"YUV"}) /\ config.has_alpha
      /\ scaler_a' = Flushed(a)
      /\ j' = j + (a.src_y - scaler_a.src_y)
      /\ out' = [r \in DOMAIN out |->
                   [out[r] EXCEPT !.alpha = IF k(r) \in DOMAIN rows THEN rows[k(r)] ELSE @,
                                  !.multiplied = IF r \in divided THEN @ - 1 ELSE @]]
      /\ IF j' < mb_h THEN UNCHANGED <<pc, last_y>> ELSE PutDone
      /\ UNCHANGED <<config, mb_y, mb_h, scaler_y, scaler_u, uv_j, tmp, num_lines_out, out_uv>>

NoRescaledAlpha ==
  /\ pc = "alpha" /\ Scaled({"YUV"}) /\ ~ config.has_alpha
  /\ out' = [r \in DOMAIN out |->
               IF r \in last_y .. last_y + num_lines_out - 1
               THEN [out[r] EXCEPT !.alpha = Opaque] ELSE out[r]]
  /\ PutDone
  /\ UNCHANGED <<config, mb_y, mb_h, scaler_y, scaler_u, scaler_a, j, uv_j, tmp,
                 num_lines_out, out_uv>>

\* ExportRGB: the rows of which both luma and chroma can be exported.
ExportableRGB(y, u) == Smaller(Exportable(y, out_height), Exportable(u, out_height))

\* One turn of the loop of EmitRescaledRGB.
EmitRescaledRGB ==
  LET y == WebPRescalerImport(scaler_y, mb_h - j, mb_y + j)
      u == IF WebPRescaleNeededLines(scaler_u, Half(mb_h) - uv_j) # 0
           THEN WebPRescalerImport(scaler_u, Half(mb_h) - uv_j, mb_y \div 2 + uv_j)
           ELSE scaler_u
      n == ExportableRGB(y, u)
      lines_in == j + (y.src_y - scaler_y.src_y)
  IN  /\ pc = "emit" /\ Scaled({"sampled"})
      /\ scaler_y' = ExportRows(y, n) /\ scaler_u' = ExportRows(u, n)
      /\ IF lines_in < mb_h THEN pc' = "emit" /\ j' = lines_in ELSE pc' = "alpha" /\ j' = 0
      /\ uv_j' = uv_j + (u.src_y - scaler_u.src_y)
      /\ out' = Written(out, last_y + num_lines_out,
                        [k \in 1 .. n |-> Colours(ExportedRow(y, k), ExportedRow(u, k))])
      /\ num_lines_out' = num_lines_out + n
      /\ UNCHANGED <<config, mb_y, mb_h, scaler_a, tmp, last_y, out_uv>>

\* One turn of the loop of EmitRescaledAlphaRGB.  Alpha may have to catch up with
\* rows of earlier bands, which are still there.
EmitRescaledAlphaRGB ==
  LET a == WebPRescalerImport(scaler_a, mb_h + mb_y - scaler_a.src_y, scaler_a.src_y)
      n == Exportable(a, num_lines_out - j)
      k(r) == r - last_y - j + 1
  IN  /\ pc = "alpha" /\ Scaled({"sampled"}) /\ config.has_alpha /\ j < num_lines_out
      /\ scaler_a' = ExportRows(a, n)
      /\ out' = [r \in DOMAIN out |->
                   IF k(r) \in 1 .. n
                   THEN [out[r] EXCEPT !.alpha = ExportedRow(a, k(r)), !.multiplied = @ + 1]
                   ELSE out[r]]
      /\ j' = j + n
      /\ UNCHANGED <<config, mb_y, mb_h, pc, scaler_y, scaler_u, uv_j, tmp, num_lines_out,
                     last_y, out_uv>>

RescaledAlphaDone ==
  /\ pc = "alpha" /\ Scaled({"sampled"}) /\ (config.has_alpha => j = num_lines_out)
  /\ PutDone
  /\ UNCHANGED <<config, mb_y, mb_h, scaler_y, scaler_u, scaler_a, j, uv_j, tmp,
                 num_lines_out, out, out_uv>>

-----------------------------------------------------------------------------
(* The lossless decoder.                                                    *)

\* ConvertToYUVA: an even row gives the chroma of its pair, the odd one is averaged
\* with it.
Chroma(from, rows) ==
  LET in(r) == r - from + 1 \in DOMAIN rows
      even(c) == IF in(2 * c) THEN << rows[2 * c - from + 1] >> ELSE out_uv[c]
  IN  [c \in DOMAIN out_uv |->
         IF in(2 * c + 1) THEN Append(even(c), rows[2 * c + 2 - from]) ELSE even(c)]

\* ARGB rows are written to the buffer from row "from" on.
WriteARGB(from, rows, multiplied) ==
  IF config.kind = "lossless_YUV"
  THEN /\ out' = Written(out, from,
                         [k \in DOMAIN rows |->
                            [EmptyRow EXCEPT !.luma = rows[k], !.alpha = rows[k],
                                             !.multiplied = multiplied]])
       /\ out_uv' = Chroma(from, rows)
  ELSE /\ out' = Written(out, from,
                         [k \in DOMAIN rows |->
                            [luma |-> rows[k], chroma |-> rows[k], alpha |-> rows[k],
                             multiplied |-> multiplied]])
       /\ UNCHANGED out_uv

\* EmitRows, EmitRowsYUVA.
EmitRows ==
  /\ pc = "emit" /\ Plain({"lossless_RGB", "lossless_YUV"})
  /\ WriteARGB(last_y, [k \in 1 .. mb_h |-> << mb_y + k - 1 >>], 0)
  /\ num_lines_out' = mb_h
  /\ pc' = "put" /\ last_y' = last_y + mb_h
  /\ UNCHANGED <<config, mb_y, mb_h, scaler_y, scaler_u, scaler_a, j, uv_j, tmp>>

\* One turn of the loops of EmitRescaledRowsRGBA and EmitRescaledRowsYUVA.  The rows
\* that are needed are multiplied by alpha and the exported rows divided by it: what
\* is imported should be what was needed.
EmitRescaledRows ==
  LET needed == WebPRescaleNeededLines(scaler_y, mb_h - j)
      y == WebPRescalerImport(scaler_y, mb_h - j, mb_y + j)
      lines_imported == y.src_y - scaler_y.src_y
  IN  /\ pc = "emit" /\ Scaled({"lossless_RGB", "lossless_YUV"})
      /\ scaler_y' = Flushed(y)
      /\ WriteARGB(last_y + num_lines_out, Exported(y), lines_imported - needed)
      /\ j' = j + lines_imported
      /\ num_lines_out' = num_lines_out + Len(Exported(y))
      /\ IF j' < mb_h THEN UNCHANGED <<pc, last_y>>
         ELSE pc' = "put" /\ last_y' = last_y + num_lines_out'
      /\ UNCHANGED <<config, mb_y, mb_h, scaler_u, scaler_a, uv_j, tmp>>

-----------------------------------------------------------------------------
Terminated == pc = "put" /\ mb_y + mb_h = height /\ UNCHANGED vars

Emit ==
  \/ EmitYUV \/ EmitSampledRGB \/ EmitFancyRGB \/ EmitAlphaYUV \/ EmitAlphaRGB
  \/ RescaleLuma \/ RescaleChroma \/ RescaleAlpha \/ NoRescaledAlpha
  \/ EmitRescaledRGB \/ EmitRescaledAlphaRGB \/ RescaledAlphaDone
  \/ EmitRows \/ EmitRescaledRows

Next == NextBand \/ Emit \/ Terminated

\* The decoder goes on to the last band, and loops turn as long as they do something.
Spec == Init /\ [][Next]_vars /\ WF_vars(NextBand \/ Emit)

-----------------------------------------------------------------------------
\* Row k of n made of m.
Right(m, n, k) == IF config.use_scaling THEN ScaledRow(m, n, k) ELSE << k >>

\* The rows of chroma nearest to a row; at the edges, the same twice.
NearestTwo(r) ==
  LET near == r \div 2
      far  == IF r % 2 = 0 THEN near - 1 ELSE near + 1
  IN  << near, IF far \in 0 .. uv_height - 1 THEN far ELSE near >>

RightChroma(r) ==
  CASE IsYUV -> Nothing
    [] fancy -> NearestTwo(r)
    [] config.kind = "lossless_RGB" -> Right(height, out_height, r)
    [] OTHER -> IF config.use_scaling THEN ScaledRow(uv_height, out_height, r)
                ELSE << r \div 2 >>

RightRow(r) ==
  [luma |-> Right(height, out_height, r), chroma |-> RightChroma(r),
   alpha |-> IF config.has_alpha \/ Lossless THEN Right(height, out_height, r) ELSE Opaque,
   multiplied |-> IF config.has_alpha /\ ~ IsYUV /\ ~ Lossless THEN 1 ELSE 0]

RightPlane(c) ==
  IF config.kind = "YUV" THEN Right(uv_height, Half(out_height), c)
  ELSE [k \in 1 .. Smaller(2, out_height - 2 * c) |-> Right(height, out_height, 2 * c + k - 1)]

\* Rows above last_y, which the user may be shown while others are being decoded, are
\* complete however the rows before them were cut into bands: luma, chroma and alpha
\* come from the right source rows with the right weights, although the upsampler is
\* a row late, chroma has half the rows and alpha is exported by a rescaler of its
\* own; colours have been multiplied by alpha once and not twice.  At the end the
\* chroma planes are right, too.
RowsAboveLastYAreRight ==
  pc = "put" =>
    /\ last_y <= out_height
    /\ \A r \in 0 .. last_y - 1 : out[r] = RightRow(r)
    /\ IsYUV /\ mb_y + mb_h = height =>
         \A c \in DOMAIN out_uv : out_uv[c] = RightPlane(c)

\* No loop of an emit function waits for rows that do not come (EmitRescaledRGB, where
\* luma may be ready and chroma not; EmitRescaledAlphaRGB, which turns until alpha
\* has as many rows as the colours), and no row is left in a rescaler after the last
\* band (VP8IoTeardownHook does not ask).
AllRowsComeOut == <>(pc = "put" /\ mb_y + mb_h = height /\ last_y = out_height)
=============================================================================
