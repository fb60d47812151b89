--------------------------------- MODULE Mux ---------------------------------
(***************************************************************************)
(* WebPMux (src/mux/muxedit.c, muxinternal.c, muxread.c): images and other  *)
(* chunks are set and deleted in any order, WebPMuxAssemble makes a file of *)
(* them and WebPMuxCreate gets them back from a file.                       *)
(*                                                                         *)
(* Left out: limits of sizes, durations and loop counts, who owns the       *)
(* memory, failing allocations, the flags a user gives in a VP8X chunk of   *)
(* his own, and the getters.                                                *)
(***************************************************************************)
EXTENDS Riff, FiniteSets

VARIABLE mux

\* A chunk that may be missing is a list of at most one.
Missing == << >>

\* Lists of chunks that are not part of an image, by tag or "unknown".
ListNames    == {"VP8X", "ICCP", "ANIM", "EXIF", "XMP", "unknown"}
ListOf(tag)  == IF tag \in ListNames THEN tag ELSE "unknown"
EmptyMux     == [images |-> << >>, list |-> [n \in ListNames |-> << >>], width |-> 0]

\* GetImageData and MuxImageFinalize on a bitstream: an image and perhaps its
\* ALPH chunk.
NewImage(b) ==
  [header |-> Missing, alpha |-> IF b.img.tag = "VP8L" THEN Missing ELSE b.alpha,
   img |-> b.img, unknown |-> << >>]

WidthOf(i)    == i.img.v.width
HasAlpha(i)   == i.img.v.has_alpha \/ i.alpha # Missing
XOf(i)        == IF i.header = Missing THEN 0 ELSE i.header[1].v.x
Animated(m)   == m.images # << >> /\ m.images[1].header # Missing
MuxHasAlpha(m) == \E i \in 1 .. Len(m.images) : HasAlpha(m.images[i])
NumFrames(m)  == Cardinality({ i \in 1 .. Len(m.images) : m.images[i].header # Missing })

-----------------------------------------------------------------------------
(* Editing.  A call that only fails changes nothing and is left out.        *)

\* WebPMuxSetImage; a bitstream that is no image only removes the old ones.
SetImage(b) == mux' = [mux EXCEPT !.images = << NewImage(b) >>]
SetBadImage == mux' = [mux EXCEPT !.images = << >>]

\* Offsets are snapped to even ones.
Snapped(x) == x - (x % 2)

PushFrame(b, x) ==
  /\ mux.images = << >> \/ Animated(mux)
  /\ LET i == NewImage(b)
     IN  mux' = [mux EXCEPT !.images = Append(@,
           [i EXCEPT !.header = << ANMF(ANMF_CHUNK_SIZE, Snapped(x), WidthOf(i)) >>])]

\* nth = 0 is the last one.
DeleteFrame(nth) ==
  LET n == IF nth = 0 THEN Len(mux.images) ELSE nth
  IN  /\ n \in 1 .. Len(mux.images)
      /\ mux' = [mux EXCEPT !.images = RemoveAt(@, n)]

WithoutTag(l, tag) ==
  FoldLeft(LAMBDA left, c : IF c.tag = tag THEN left ELSE Append(left, c), << >>, l)

\* WebPMuxSetChunk replaces a chunk of the same tag, but a list that has others
\* is not extended (ChunkSetHead): the old chunk is gone, the new one not there.
SetChunk(c) ==
  LET left == WithoutTag(mux.list[ListOf(c.tag)], c.tag)
  IN  mux' = [mux EXCEPT !.list[ListOf(c.tag)] = IF left = << >> THEN << c >> ELSE left]

DeleteChunk(tag) ==
  mux' = [mux EXCEPT !.list[ListOf(tag)] = WithoutTag(@, tag)]

SetAnimationParams(loop_count) == mux' = [mux EXCEPT !.list["ANIM"] = << ANIM(loop_count) >>]

\* 0: as large as the images.
SetCanvasSize(width) == mux' = [mux EXCEPT !.list["VP8X"] = << >>, !.width = width]

-----------------------------------------------------------------------------
(* WebPMuxAssemble.                                                         *)

\* A single frame that covers the canvas becomes an image, and an image needs no
\* animation parameters.
MuxCleanup(m) ==
  LET plain == NumFrames(m) = 1 /\ m.width \in {0, WidthOf(m.images[1])}
      m1 == IF plain THEN [m EXCEPT !.images[1].header = Missing] ELSE m
  IN  IF NumFrames(m1) = 0 THEN [m1 EXCEPT !.list["ANIM"] = << >>] ELSE m1

\* How far the images reach.
Extent(m) == Max({ XOf(m.images[i]) + WidthOf(m.images[i]) : i \in 1 .. Len(m.images) })

\* The offset of a single frame does not count.
GetAdjustedCanvasSize(m) ==
  IF Len(m.images) > 1 THEN Extent(m) ELSE WidthOf(m.images[1])

Features(m) ==
  { t \in Metadata : m.list[t] # << >> }
    \cup (IF Animated(m) THEN {"ANIMATION"} ELSE {})
    \cup (IF \E i \in 1 .. Len(m.images) : m.images[i].alpha # Missing
          THEN {"ALPHA"} ELSE {})

\* CreateVP8XChunk, when the images fit the canvas.
WithVP8X(m) ==
  LET flags == Features(m) \cup (IF MuxHasAlpha(m) THEN {"ALPHA"} ELSE {})
      width == IF m.width # 0 THEN m.width ELSE GetAdjustedCanvasSize(m)
  IN  [m EXCEPT !.list["VP8X"] =
         IF Features(m) = {} /\ m.list["unknown"] = << >> THEN << >>
         ELSE << VP8X(flags, width) >>]

\* Variant: the header chunk covers its own fields only.
Emitted_HeaderOnly(i) == i.header \o i.alpha \o << i.img >> \o i.unknown

\* MuxImageEmit: the header chunk of a frame covers all of it.
Emitted(i) ==
  LET parts == i.header \o i.alpha \o << i.img >> \o i.unknown
  IN  IF i.header = Missing THEN parts
      ELSE [parts EXCEPT ![1].size = ListSize(parts) - CHUNK_HEADER_SIZE]

FileOf(m) ==
  LET cs == m.list["VP8X"] \o m.list["ICCP"] \o m.list["ANIM"]
              \o FoldLeft(LAMBDA s, i : s \o Emitted(i), << >>, m.images)
              \o m.list["EXIF"] \o m.list["XMP"] \o m.list["unknown"]
  IN  [chunks |-> cs, riff_end |-> RIFF_HEADER_SIZE + ListSize(cs)]

\* WebPMuxGetFeatures.
MuxFlags(m) ==
  IF m.list["VP8X"] # << >> THEN m.list["VP8X"][1].v.flags
  ELSE IF m.images # << >> /\ HasAlpha(m.images[1]) THEN {"ALPHA"} ELSE {}

MuxValidate(m) ==
  LET flags == MuxFlags(m)
  IN  /\ m.images # << >>
      /\ \A t \in Metadata :
           Len(m.list[t]) <= 1 /\ (t \in flags <=> Len(m.list[t]) > 0)
      /\ Len(m.list["ANIM"]) <= 1 /\ Len(m.list["VP8X"]) <= 1
      /\ IF "ANIMATION" \in flags
         THEN m.list["ANIM"] # << >> /\ NumFrames(m) > 0
         ELSE /\ m.list["ANIM"] = << >> /\ NumFrames(m) = 0
              /\ Len(m.images) = 1
              /\ m.width > 0 => WidthOf(m.images[1]) = m.width
      /\ m.list["VP8X"] = << >> => Len(m.images) = 1
      /\ MuxHasAlpha(m) =>
           IF m.list["VP8X"] # << >> THEN "ALPHA" \in flags
           ELSE \A i \in 1 .. Len(m.images) : m.images[i].alpha = Missing

NoFile == [chunks |-> << >>, riff_end |-> 0]

\* What the mux object is after the call, and the file, if there is one.
Assembled(m) ==
  LET m1 == MuxCleanup(m)
      m2 == WithVP8X([m1 EXCEPT !.list["VP8X"] = << >>])
  IN  IF m1.images = << >> THEN [mux |-> m1, file |-> NoFile]
      ELSE IF m1.width # 0 /\ GetAdjustedCanvasSize(m1) > m1.width
      THEN [mux |-> [m1 EXCEPT !.list["VP8X"] = << >>], file |-> NoFile]
      ELSE [mux |-> m2, file |-> IF MuxValidate(m2) THEN FileOf(m2) ELSE NoFile]

-----------------------------------------------------------------------------
(* WebPMuxCreate.                                                           *)

NoImage == [header |-> Missing, alpha |-> Missing, img |-> Missing, unknown |-> << >>]

\* The loop over the chunks: at, the position; anmf, where the ANMF chunk ends that
\* this is in (0: none); wpi, the image being read, img still being a list; partial,
\* its is_partial_; failed, the call returns NULL.
Started == [mux |-> EmptyMux, wpi |-> NoImage, partial |-> FALSE,
            at |-> RIFF_HEADER_SIZE, anmf |-> 0, failed |-> FALSE]

Pushed(s) ==
  [s EXCEPT !.mux.images = Append(@, [s.wpi EXCEPT !.img = @[1]]),
            !.wpi = NoImage, !.partial = FALSE]

\* Variant: the canvas of the file is not taken over.
CanvasAfter_Kept(width, c) == width

CanvasAfter(width, c) == IF c.tag = "VP8X" THEN c.v.width ELSE width

\* MuxImageFinalize.
Finalized(s, c) ==
  [s EXCEPT !.wpi.img = << c >>, !.wpi.alpha = IF c.tag = "VP8L" THEN Missing ELSE @,
            !.partial = FALSE, !.failed = s.failed \/ c.v.need > c.size]

InFrame(s, c) ==
  IF c.tag = "ALPH"
  THEN [s EXCEPT !.wpi.alpha = << c >>, !.partial = TRUE,
                 !.failed = s.failed \/ s.wpi.alpha # Missing]
  ELSE IF c.tag \in ImageTags
  THEN IF s.wpi.img # Missing THEN [s EXCEPT !.failed = TRUE] ELSE Finalized(s, c)
  ELSE IF c.tag = "ANMF" \/ ListOf(c.tag) # "unknown" THEN [s EXCEPT !.failed = TRUE]
  ELSE [s EXCEPT !.wpi.unknown = Append(@, c), !.failed = s.failed \/ s.partial]

AtTop(s, c) ==
  CASE c.tag = "ALPH" ->
         [s EXCEPT !.wpi.alpha = << c >>, !.partial = TRUE,
                   !.failed = s.failed \/ s.wpi.alpha # Missing]
    [] c.tag \in ImageTags ->
         LET f == Finalized(s, c) IN IF f.failed THEN f ELSE Pushed(f)
    [] c.tag = "ANMF" ->
         [s EXCEPT !.wpi.header = << [c EXCEPT !.size = ANMF_CHUNK_SIZE] >>,
                   !.partial = TRUE, !.failed = s.failed \/ s.partial \/ c.size < ANMF_CHUNK_SIZE,
                   !.anmf = s.at + CHUNK_HEADER_SIZE + Padded(c.size)]
    [] OTHER ->
         [s EXCEPT !.mux.list[ListOf(c.tag)] = Append(@, c),
                   !.mux.width = CanvasAfter(@, c),
                   !.failed = \/ s.failed \/ s.partial
                              \/ c.tag = "VP8X" /\ c.size < VP8X_CHUNK_SIZE]

\* The end of an ANMF chunk.
LeftFrame(s) ==
  IF s.anmf = 0 \/ s.at < s.anmf THEN s
  ELSE IF s.partial \/ s.at > s.anmf THEN [s EXCEPT !.failed = TRUE]
  ELSE [Pushed(s) EXCEPT !.anmf = 0]

ReadChunk(s, c) ==
  IF s.failed THEN s
  ELSE LET r == IF s.anmf = 0 THEN AtTop(s, c) ELSE InFrame(s, c)
       IN  IF r.failed THEN r ELSE LeftFrame([r EXCEPT !.at = @ + DiskSize(c)])

\* The mux object of a file that is one RIFF chunk and nothing else, or NULL.
NULL == [EmptyMux EXCEPT !.width = -1]

MuxCreate(f) ==
  LET s == FoldLeft(ReadChunk, Started, f.chunks)
  IN  IF \/ s.failed \/ s.partial \/ s.anmf # 0
         \/ f.chunks[1].tag \notin ImageTags \cup {"VP8X"}
         \/ ~ MuxValidate(s.mux)
      THEN NULL ELSE s.mux
=============================================================================
