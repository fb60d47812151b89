--------------------------- MODULE LosslessDecoder ---------------------------
(***************************************************************************)
(* Decoding of lossless image data (src/dec/vp8l_dec.c: DecodeImageData,    *)
(* DecodeAlphaData, SaveState and RestoreState, the three functions that    *)
(* process rows, VP8LDecodeHeader, VP8LDecodeImage) and of alpha planes     *)
(* (src/dec/alpha_dec.c).                                                   *)
(*                                                                         *)
(* The bit stream is a sequence of symbols; all that matters of one is how  *)
(* many pixels it gives and whether it looks into the colour cache.  A      *)
(* symbol is chosen when it is first read; "replay" holds those read since  *)
(* the last check-point, which will be read again after a suspension.  A    *)
(* pixel is its position.  The colour cache is the set of pixels inserted.  *)
(***************************************************************************)
EXTENDS Integers, Sequences, FiniteSets, Functions, SequencesExt

CONSTANTS
  Configs,                \* what is decoded, see IsConfig
  Lengths,                \* lengths of backward references
  SYNC_EVERY_N_ROWS,      \* rows between check-points (8)
  NUM_ARGB_CACHE_ROWS     \* rows transformed at a time (16)

Kinds   == {"image", "alpha32", "alpha8", "alphaRaw"}
Filters == {"none", "horizontal", "vertical", "gradient"}

\* kind: an image, or an alpha plane decoded with 32 or 8 bits per pixel, or not
\* compressed; inc: decoded by a WebPIDecoder, piece by piece (images only);
\* levels: alpha with quantized levels that the user wants dithered.
IsConfig(c) ==
  /\ c.kind \in Kinds /\ c.inc \in BOOLEAN /\ (c.inc => c.kind = "image")
  /\ c.width \in Nat \ {0} /\ c.height \in Nat \ {0}
  /\ c.top \in 0 .. c.bottom - 1 /\ c.bottom \in 1 .. c.height
  /\ c.filter \in Filters /\ c.levels \in BOOLEAN /\ (c.levels => c.kind # "image")
  /\ c.cache \in BOOLEAN /\ (c.cache => c.kind # "alpha8")   \* Is8bOptimizable
  /\ c.transforms \in Seq({"predictor", "color", "green", "indexing"})

ASSUME LosslessAssumption ==
  /\ \A c \in Configs : IsConfig(c)
  /\ Lengths \subseteq Nat \ {0}
  /\ SYNC_EVERY_N_ROWS \in Nat \ {0}
  /\ NUM_ARGB_CACHE_ROWS \in Nat \ {0}
  /\ SYNC_EVERY_N_ROWS <= NUM_ARGB_CACHE_ROWS

VARIABLES
  cfg,        \* what is decoded; never changes
  pc,         \* header, idle (between calls), loop, done, error
  whole,      \* the data that is there is all there will be
  seen,       \* dec->transforms_seen_
  dec,        \* the decoder's positions, see Start
  replay,     \* symbols read since the last check-point ...
  rd,         \* ... and how many of them have been read in this attempt
  lines,      \* image: the source row in each output line
  right,      \* alpha: rows of alpha_plane_ that hold the values of the image
  bad         \* history: a symbol was invalid, or missing for good

vars == <<cfg, pc, whole, seen, dec, replay, rd, lines, right, bad>>

W      == cfg.width
end    == W * cfg.height
Never  == end + 1
Image  == cfg.kind = "image"
Row(p) == p \div W
MaxOf(a, b) == IF a > b THEN a ELSE b
MinOf(a, b) == IF a < b THEN a ELSE b

\* Positions of the decoder: src, the next pixel (dec->last_pixel_ between
\* calls); lastRow = dec->last_row_; target, the row to decode to; sync =
\* next_sync_row; cached = last_cached; in = the colour cache; saved, savedIn =
\* saved_last_pixel_, saved_color_cache_; prev = prev_line_ (-1: NULL); asked,
\* alpha rows the user has got, and want, those it asked for now; decoded =
\* is_alpha_decoded_.  History: batch, the most rows transformed at a time; ahead,
\* a row was processed before its pixels; stale, a look-up met a colour cache that
\* is not that of the pixels before it.
Start == [src |-> 0, lastRow |-> 0, target |-> 0, sync |-> Never,
          cached |-> 0, in |-> {}, saved |-> 0, savedIn |-> {}, prev |-> -1,
          asked |-> 0, want |-> 0, decoded |-> FALSE,
          batch |-> 0, ahead |-> FALSE, stale |-> FALSE]

Init ==
  /\ cfg \in Configs
  /\ pc = IF cfg.kind = "alphaRaw" THEN "idle" ELSE "header"
  /\ whole = ~ cfg.inc /\ seen = {} /\ dec = Start
  /\ replay = << >> /\ rd = 0
  /\ lines = << >> /\ right = {} /\ bad = FALSE

-----------------------------------------------------------------------------
(* Headers.                                                                 *)

\* Variant: the flags of the transforms survive.
ClearedSeen_Kept(s) == s

\* VP8LClear after a header that could not be read.
ClearedSeen(s) == {}

\* ReadTransform refuses a transform that is there twice.
Repeated(k) == \E i \in 1 .. k : \/ cfg.transforms[i] \in seen
                                 \/ \E j \in 1 .. i - 1 :
                                      cfg.transforms[j] = cfg.transforms[i]

\* VP8LDecodeHeader (VP8LDecodeAlphaHeader) with data for the whole header.
Header ==
  /\ pc = "header" /\ ~ Repeated(Len(cfg.transforms))
  /\ seen' = ToSet(cfg.transforms)
  /\ pc' = "idle"
  /\ UNCHANGED <<cfg, whole, dec, replay, rd, lines, right, bad>>

\* A header that cannot be read: DecodeVP8LHeader waits for more data and starts
\* again if any is to come, and gives up, as the other callers do, if not.
HeaderGivenUp(k) ==
  /\ seen' = ClearedSeen(seen \cup { cfg.transforms[i] : i \in 1 .. k })
  /\ pc' = IF whole THEN "error" ELSE "header"
  /\ UNCHANGED <<cfg, whole, dec, replay, rd, lines, right>>

HeaderFails ==
  /\ pc = "header" /\ Repeated(Len(cfg.transforms))
  /\ HeaderGivenUp(0)
  /\ bad' = ~ IsInjective(cfg.transforms)

\* The data ends after k transforms.
HeaderShort ==
  /\ pc = "header"
  /\ \E k \in 0 .. Len(cfg.transforms) : HeaderGivenUp(k)
  /\ bad' = whole

\* The user appends the last piece of the file.
AppendLast ==
  /\ ~ whole /\ pc \in {"header", "idle"}
  /\ whole' = TRUE
  /\ UNCHANGED <<cfg, pc, seen, dec, replay, rd, lines, right, bad>>

-----------------------------------------------------------------------------
(* Rows that are decoded are transformed and given on.                      *)

\* Unfiltering row r against prev_line_ is right if that is the row above.
Unfiltered(r, prev, ok) ==
  cfg.filter = "none" \/ (prev = r - 1 /\ (r = 0 \/ r - 1 \in ok))

\* AlphaApplyFilter over the rows a .. b - 1, each unfiltered against the one
\* before: all are as right as the first.
RightAfter(a, b, prev, ok) ==
  IF Unfiltered(a, prev, ok) THEN ok \cup a .. b - 1 ELSE ok \ (a .. b - 1)

\* The first row that ExtractPalettedAlphaRows processes.
\* Variant: no row above the crop window is unfiltered.
FirstPaletted_AtCrop(from) == MaxOf(from, cfg.top)

FirstPaletted(from) ==
  IF cfg.filter \in {"none", "horizontal"} THEN MaxOf(from, cfg.top) ELSE from

\* The rows of the crop window among a .. b - 1, as SetCropWindow finds them.
Window(a, b) ==
  LET first == MaxOf(a, cfg.top)
      last  == MinOf(b, cfg.bottom)
  IN  [i \in 1 .. MaxOf(last - first, 0) |-> first + i - 1]

\* ProcessRows, ExtractAlphaRows or ExtractPalettedAlphaRows up to row; x is
\* the record of what they change.
Process(x, row) ==
  LET d     == x.dec
      n     == row - d.lastRow
      first == IF cfg.kind = "alpha8" THEN FirstPaletted(d.lastRow) ELSE d.lastRow
  IN  IF n <= 0
      THEN [x EXCEPT !.dec.lastRow = row]
      ELSE IF Image
      THEN [x EXCEPT !.lines = @ \o Window(d.lastRow, row),
                     !.dec.batch = MaxOf(@, n),
                     !.dec.ahead = @ \/ row * W > d.src,
                     !.dec.lastRow = row]
      ELSE [x EXCEPT !.right = RightAfter(first, row, d.prev, @),
                     !.dec.prev = IF first < row /\ cfg.filter # "none"
                                  THEN row - 1 ELSE @,
                     !.dec.ahead = @ \/ row * W > d.src,
                     !.dec.lastRow = row]

\* Where a row begins, the rows before it are processed if they complete a batch.
RowBegins(x, row) ==
  IF row <= x.dec.target /\ row % NUM_ARGB_CACHE_ROWS = 0 THEN Process(x, row) ELSE x

\* The loop over the rows that begin between two positions.
RowsBegin(x, from, to) ==
  LET at[row \in Row(from) .. Row(to)] ==
        IF row = Row(from) THEN x ELSE RowBegins(at[row - 1], row)
  IN  at[Row(to)]

Positions(x) == dec' = x.dec /\ lines' = x.lines /\ right' = x.right

-----------------------------------------------------------------------------
(* DecodeImageData and DecodeAlphaData.                                     *)

OneBy(kind) == [kind |-> kind, n |-> 1]

\* The symbols a valid stream can have next.  "trivial" takes no bits: its
\* Huffman codes have a single symbol each.
Symbols ==
  { OneBy("literal"), OneBy("trivial") }
    \cup (IF cfg.cache THEN { OneBy("cache") } ELSE {})
    \cup { [kind |-> "copy", n |-> n] : n \in { m \in Lengths : dec.src > 0 /\ dec.src + m <= end } }

\* A call for the rows before last, from where the previous one has stopped;
\* dec->incremental_ is set anew by each.
Enter(d, last) ==
  [d EXCEPT !.target = last, !.cached = d.src,
            !.sync = IF whole THEN Never ELSE Row(d.src)]

\* Variant: the colour cache is not part of the check-point.
SaveState_NoCache(d) == [d EXCEPT !.saved = d.src, !.sync = Row(d.src) + SYNC_EVERY_N_ROWS]

\* Variant: one check-point per call.
SaveState_Once(d) == [d EXCEPT !.saved = d.src, !.savedIn = d.in, !.sync = Never]

\* SaveState, and when the next one is due.
SaveState(d) == [d EXCEPT !.saved = d.src, !.savedIn = d.in,
                          !.sync = Row(d.src) + SYNC_EVERY_N_ROWS]

RestoreState(d) == [d EXCEPT !.src = d.saved, !.in = d.savedIn]

\* The top of the loop: a check-point if one is due.
AtSync   == Row(dec.src) >= dec.sync
Synced   == IF AtSync THEN SaveState(dec) ELSE dec
InLoop   == pc = "loop" /\ dec.src < dec.target * W

\* Insert the pixels from last_cached on into the colour cache.
Insert(d) ==
  IF cfg.cache THEN [d EXCEPT !.in = @ \cup d.cached .. d.src - 1, !.cached = d.src]
               ELSE d

\* A look-up, with the cache brought up to date.
LookUp(d) ==
  LET e == Insert(d) IN [e EXCEPT !.stale = @ \/ e.in # 0 .. e.src - 1]

\* The effect of one symbol: pixels, then complete batches of rows, then the
\* colour cache, at the end of a row or of a copy.
Decoded(d, s) ==
  LET e == [(IF s.kind = "cache" THEN LookUp(d) ELSE d) EXCEPT !.src = @ + s.n]
      x == RowsBegin([dec |-> e, lines |-> lines, right |-> right], d.src, e.src)
  IN  IF s.kind = "copy" \/ Row(d.src) # Row(e.src)
      THEN [x EXCEPT !.dec = Insert(@)] ELSE x

\* A symbol that has not been read before.
ReadNew ==
  /\ InLoop /\ rd = Len(replay)
  /\ \E s \in Symbols :
       /\ Positions(Decoded(Synced, s))
       /\ IF whole THEN UNCHANGED <<replay, rd>>
          ELSE IF AtSync THEN replay' = << s >> /\ rd' = 1
          ELSE replay' = Append(replay, s) /\ rd' = rd + 1
  /\ UNCHANGED <<cfg, pc, whole, seen, bad>>

\* A symbol read before the last suspension, and given up then.
ReadAgain ==
  /\ InLoop /\ rd < Len(replay)
  /\ Positions(Decoded(Synced, replay[rd + 1]))
  /\ IF AtSync THEN replay' = SubSeq(replay, rd + 1, Len(replay)) /\ rd' = 1
     ELSE rd' = rd + 1 /\ UNCHANGED replay
  /\ UNCHANGED <<cfg, pc, whole, seen, bad>>

\* VP8LIsEndOfStream: the next symbol is not all there.  What has been decoded
\* since the check-point is forgotten; the rows processed are not.
Suspend ==
  /\ InLoop /\ ~ whole /\ rd = Len(replay)
  /\ dec' = RestoreState(Synced)
  /\ replay' = (IF AtSync THEN << >> ELSE replay) /\ rd' = 0
  /\ pc' = "idle"
  /\ UNCHANGED <<cfg, whole, seen, lines, right, bad>>

\* The data ends too early and nothing more will come, or a copy reaches
\* outside of the image.
Truncated ==
  /\ InLoop /\ rd = Len(replay)
  /\ pc' = "error" /\ bad' = TRUE
  /\ UNCHANGED <<cfg, whole, seen, dec, replay, rd, lines, right>>

\* DecodeAlphaData looks for the end of the data after a symbol: what it made of
\* missing bits passes if it is the last symbol of the plane.
TruncatedLast ==
  /\ InLoop /\ cfg.kind = "alpha8"
  /\ \E s \in Symbols : dec.src + s.n = end /\ Positions(Decoded(Synced, s))
  /\ bad' = TRUE
  /\ UNCHANGED <<cfg, pc, whole, seen, replay, rd>>

\* All pixels wanted are there: the rows of the last batch.
LastRows ==
  Process([dec |-> dec, lines |-> lines, right |-> right],
          MinOf(Row(dec.src), dec.target))

-----------------------------------------------------------------------------
(* The callers.                                                             *)

\* VP8LDecodeImage.
DecodeImage ==
  /\ pc = "idle" /\ Image
  /\ dec' = Enter(dec, cfg.bottom) /\ pc' = "loop"
  /\ UNCHANGED <<cfg, whole, seen, replay, rd, lines, right, bad>>

ImageDone ==
  /\ pc = "loop" /\ ~ InLoop /\ Image
  /\ Positions(LastRows) /\ pc' = "done"
  /\ UNCHANGED <<cfg, whole, seen, replay, rd, bad>>

\* VP8DecompressAlphaRows hands out the rows that are wanted; the plane is
\* complete once the last one is decoded.
Given(d, upTo) ==
  [d EXCEPT !.asked = @ + d.want, !.want = 0,
            !.decoded = @ \/ upTo >= cfg.bottom]

\* With levels to dither, the first call decodes everything.
RowsToDecode(n) ==
  IF cfg.levels /\ dec.asked = 0 THEN cfg.bottom ELSE dec.asked + n

\* The row pipeline asks for n more alpha rows.
AlphaRows ==
  /\ pc = "idle" /\ ~ Image
  /\ \E n \in 1 .. cfg.bottom - dec.asked :
       LET last == RowsToDecode(n)
           d    == [dec EXCEPT !.want = n]
       IN  IF dec.decoded
           THEN dec' = Given(d, 0) /\ UNCHANGED <<pc, right>>
           ELSE IF cfg.kind = "alphaRaw"
           THEN /\ right' = RightAfter(dec.asked, last, dec.prev, right)
                /\ dec' = Given([d EXCEPT !.prev = last - 1], last)
                /\ UNCHANGED pc
           ELSE IF dec.lastRow >= last
           THEN dec' = Given(d, last) /\ UNCHANGED <<pc, right>>
           ELSE dec' = Enter(d, last) /\ pc' = "loop" /\ UNCHANGED right
  /\ UNCHANGED <<cfg, whole, seen, replay, rd, lines, bad>>

AlphaDone ==
  /\ pc = "loop" /\ ~ InLoop /\ ~ Image
  /\ LET x == LastRows IN Positions([x EXCEPT !.dec = Given(@, dec.target)])
  /\ pc' = "idle"
  /\ UNCHANGED <<cfg, whole, seen, replay, rd, bad>>

Terminated ==
  /\ pc \in {"done", "error"} \/ (~ Image /\ pc = "idle" /\ dec.asked = cfg.bottom)
  /\ UNCHANGED vars

Next ==
  \/ Header \/ HeaderFails \/ HeaderShort \/ AppendLast
  \/ DecodeImage \/ ImageDone \/ AlphaRows \/ AlphaDone
  \/ ReadNew \/ ReadAgain \/ Suspend \/ Truncated \/ TruncatedLast
  \/ Terminated

Spec == Init /\ [][Next]_vars

-----------------------------------------------------------------------------
(* Properties.                                                              *)

\* However often the data runs out: the output has the rows of the crop window,
\* each once and in its line, no row is processed before all its pixels are
\* decoded, and no batch is larger than argb_cache_ (assert in ProcessRows).
RowsOnce ==
  /\ \A i \in 1 .. Len(lines) : lines[i] = cfg.top + i - 1
  /\ pc = "done" => Len(lines) = cfg.bottom - cfg.top
  /\ ~ dec.ahead
  /\ Image => dec.batch <= NUM_ARGB_CACHE_ROWS

\* A symbol that looks into the colour cache finds what the encoder had there:
\* all the pixels before it and none after it, also when it is decoded again.
CacheIsCurrent == ~ dec.stale

\* A file that is all right is never refused, whatever the pieces it comes in.
ValidStreamDecodes == pc = "error" => bad

\* The alpha rows given to the user have the values of the whole plane:
\* unfiltered against the row above, and all decoded before levels are dithered.
AlphaRowsAreRight ==
  /\ \A r \in cfg.top .. dec.asked - 1 : r \in right \/ Image
  /\ cfg.levels /\ dec.asked > 0 => dec.decoded
=============================================================================
