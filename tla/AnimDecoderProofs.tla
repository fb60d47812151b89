-------------------------- MODULE AnimDecoderProofs --------------------------
(***************************************************************************)
(* For every canvas size, every set of frames and whatever blending         *)
(* computes: WebPAnimDecoder shows what Compositor shows.                   *)
(*                                                                         *)
(* The invariant says what the two shortcuts rely on: the canvas kept is    *)
(* the one the user got, with the previous frame disposed of, and around a  *)
(* previous key frame there is nothing.                                     *)
(***************************************************************************)
EXTENDS AnimDecoder, TLAPS

Disposed(c, f) == Promise!Disposed(c, f)
Rendered(c, f) == Promise!Rendered(c, f)

USE DEF Canvas, Rect, Empty, NoFrame, Disposed, Rendered

PrevKept ==
  next_frame # 1 => prev_frame_disposed = Disposed(buf, prev_iter)

NothingAround ==
  next_frame # 1 /\ prev_frame_was_keyframe =>
    \A p \in Canvas : p \notin Rect(prev_iter) => buf[p] = Transparent

Shapes ==
  /\ next_frame \in Nat \ {0}
  /\ next_frame # 1 => prev_iter \in Frames
  /\ buf \in [Canvas -> Pixels]

IInv == Shapes /\ PrevKept /\ NothingAround

LEMMA FramesAreFrames == ASSUME NEW f \in Frames PROVE Promise!IsFrame(f)
  BY FrameAssumption

LEMMA IntFrame ==
  ASSUME NEW f \in Frames
  PROVE  f.x \in Nat /\ f.y \in Nat /\ f.width \in Nat /\ f.height \in Nat
  BY FramesAreFrames DEF Promise!IsFrame

LEMMA InRect ==
  ASSUME NEW f \in Frames, NEW a, NEW b
  PROVE  <<a, b>> \in Rect(f) <=> /\ a \in f.x .. f.x + f.width - 1
                                 /\ b \in f.y .. f.y + f.height - 1
  BY DEF Promise!Rect

LEMMA RangesCover ==
  ASSUME NEW f \in Frames, NEW g \in Frames, NEW a \in Int, NEW b \in Int,
         <<a, b>> \in Rect(f), a \notin FindBlendRangeAtRow(f, g, b)
  PROVE  <<a, b>> \in Rect(g)
<1>1. a \in f.x .. f.x + f.width - 1 /\ b \in f.y .. f.y + f.height - 1
  BY InRect
<1>2. a \in g.x .. g.x + g.width - 1 /\ b \in g.y .. g.y + g.height - 1
  BY <1>1, IntFrame DEF FindBlendRangeAtRow
<1> QED  BY <1>2, InRect

\* A frame that is as large as the canvas covers it.
LEMMA FullCovers ==
  ASSUME NEW f \in Frames, IsFullFrame(f), NEW p \in Canvas
  PROVE  p \in Rect(f)
<1>1. PICK a \in 0 .. Width - 1, b \in 0 .. Height - 1 : p = <<a, b>>
  BY DEF Promise!Canvas
<1>2. /\ f.x + f.width <= Width /\ f.y + f.height <= Height
      /\ f.width = Width /\ f.height = Height
  BY FramesAreFrames DEF Promise!IsFrame, IsFullFrame
<1>3. a \in f.x .. f.x + f.width - 1 /\ b \in f.y .. f.y + f.height - 1
  BY <1>1, <1>2, IntFrame, FrameAssumption
<1> QED  BY <1>1, <1>3, InRect

\* Its rectangle has as many rows as the frame is high.
LEMMA AllRowsDecoded ==
  ASSUME NEW f \in Frames, NEW c, NEW p \in Canvas
  PROVE  DecodedRows(c, f, f.height)[p] = IF p \in Rect(f) THEN f.pix[p] ELSE c[p]
<1>1. PICK a \in 0 .. Width - 1, b \in 0 .. Height - 1 : p = <<a, b>>
  BY DEF Promise!Canvas
<1>2. p \in Rect(f) => p[2] < f.y + f.height
  <2>1. p \in Rect(f) => b \in f.y .. f.y + f.height - 1
    BY <1>1, InRect
  <2> QED  BY <2>1, <1>1, IntFrame, FrameAssumption
<1> QED  BY <1>2 DEF DecodedRows

LEMMA PixelOfFrame ==
  ASSUME NEW f \in Frames, NEW p \in Rect(f)
  PROVE  /\ f.pix[p] \in Pixels
         /\ ~ f.has_alpha => \A q \in Pixels : Over(f.pix[p], q) = f.pix[p]
<1>1. /\ f.pix \in [Promise!Rect(f) -> Pixels]
      /\ ~ f.has_alpha => \A r \in Promise!Rect(f), q \in Pixels :
                              Over(f.pix[r], q) = f.pix[r]
  BY FramesAreFrames DEF Promise!IsFrame
<1>2. p \in Promise!Rect(f)
  OBVIOUS
<1> QED  BY <1>1, <1>2

Ground == Promise!Ground

LEMMA GroundPixels ==
  ASSUME IInv PROVE Ground \in [Canvas -> Pixels]
BY PixelAssumption DEF IInv, Shapes, Ground, Promise!Ground, Promise!Disposed, Promise!Empty

\* What the shortcut leaves out: under a key frame there is nothing, or nothing
\* that can be seen.
LEMMA UnderKeyFrame ==
  ASSUME IInv, NEW f \in Frames, IsKeyFrame(f), NEW p \in Canvas
  PROVE  \/ Ground[p] = Transparent
         \/ p \in Rect(f) /\ (~ f.has_alpha \/ f.blend = "NO_BLEND")
<1>1. CASE next_frame = 1
  BY <1>1 DEF Ground, Promise!Ground, Promise!Empty
<1>2. CASE (~ f.has_alpha \/ f.blend = "NO_BLEND") /\ IsFullFrame(f)
  BY <1>2, FullCovers
<1>3. CASE /\ next_frame # 1 /\ prev_iter.dispose = "BACKGROUND"
           /\ IsFullFrame(prev_iter) \/ prev_frame_was_keyframe
  <2>1. prev_iter \in Frames
    BY <1>3 DEF IInv, Shapes
  <2>2. Ground[p] = IF p \in Rect(prev_iter) THEN Transparent ELSE buf[p]
    BY <1>3 DEF Ground, Promise!Ground, Promise!Disposed
  <2>3. p \notin Rect(prev_iter) => buf[p] = Transparent
    <3>1. CASE IsFullFrame(prev_iter)
      BY <2>1, <3>1, FullCovers
    <3>2. CASE prev_frame_was_keyframe
      BY <1>3, <3>2 DEF IInv, NothingAround
    <3> QED  BY <1>3, <3>1, <3>2
  <2> QED  BY <2>2, <2>3
<1> QED  BY <1>1, <1>2, <1>3 DEF IsKeyFrame

LEMMA KeyFrameShown ==
  ASSUME IInv, NEW f \in Frames, IsKeyFrame(f)
  PROVE  NewCanvas(f) = Rendered(Ground, f)
<1> SUFFICES ASSUME NEW p \in Canvas
             PROVE  NewCanvas(f)[p] = Rendered(Ground, f)[p]
  BY DEF NewCanvas, Promise!Rendered
<1>1. NewCanvas(f)[p] = IF p \in Rect(f) THEN f.pix[p] ELSE Transparent
  BY AllRowsDecoded DEF NewCanvas, BlendedAt, Initialized, Promise!Empty
<1>2. Ground[p] \in Pixels
  BY GroundPixels
<1>3. Rendered(Ground, f)[p] =
        IF p \notin Rect(f) THEN Ground[p]
        ELSE IF f.blend = "BLEND" THEN Over(f.pix[p], Ground[p]) ELSE f.pix[p]
  BY DEF Promise!Rendered
<1>4. CASE p \notin Rect(f)
  BY <1>1, <1>3, <1>4, UnderKeyFrame
<1>5. CASE p \in Rect(f)
  <2>1. f.blend = "BLEND" => Over(f.pix[p], Ground[p]) = f.pix[p]
    BY <1>2, <1>5, UnderKeyFrame, PixelOfFrame, PixelAssumption
  <2> QED  BY <1>1, <1>3, <1>5, <2>1
<1> QED  BY <1>4, <1>5

\* Of any other frame, the rows are blended but where the previous frame has just
\* been cleared.
LEMMA OtherFrameShown ==
  ASSUME IInv, NEW f \in Frames, ~ IsKeyFrame(f)
  PROVE  NewCanvas(f) = Rendered(Ground, f)
<1> SUFFICES ASSUME NEW p \in Canvas
             PROVE  NewCanvas(f)[p] = Rendered(Ground, f)[p]
  BY DEF NewCanvas, Promise!Rendered
<1>1. next_frame # 1 /\ next_frame > 1 /\ prev_iter \in Frames
  BY DEF IsKeyFrame, IInv, Shapes
<1>2. prev_frame_disposed = Ground
  BY <1>1 DEF IInv, PrevKept, Ground, Promise!Ground
<1>3. NewCanvas(f)[p] =
        IF p \notin Rect(f) THEN Ground[p]
        ELSE IF BlendedAt(f, p) THEN Over(f.pix[p], Ground[p]) ELSE f.pix[p]
  BY <1>2, AllRowsDecoded DEF NewCanvas, BlendedAt, Initialized
<1>4. ASSUME p \in Rect(f), f.blend = "BLEND", ~ BlendedAt(f, p)
      PROVE  Over(f.pix[p], Ground[p]) = f.pix[p]
  <2>1. PICK a \in 0 .. Width - 1, b \in 0 .. Height - 1 : p = <<a, b>>
    BY DEF Promise!Canvas
  <2>2. prev_iter.dispose = "BACKGROUND" /\ a \notin FindBlendRangeAtRow(f, prev_iter, b)
    BY <1>1, <1>4, <2>1 DEF BlendedAt
  <2>3. p \in Rect(prev_iter)
    BY <1>1, <1>4, <2>1, <2>2, RangesCover, FrameAssumption
  <2>4. Ground[p] = Transparent
    BY <1>1, <2>2, <2>3 DEF Ground, Promise!Ground, Promise!Disposed
  <2> QED  BY <1>4, <2>4, PixelOfFrame, PixelAssumption
<1>5. Rendered(Ground, f)[p] =
        IF p \notin Rect(f) THEN Ground[p]
        ELSE IF f.blend = "BLEND" THEN Over(f.pix[p], Ground[p]) ELSE f.pix[p]
  BY DEF Promise!Rendered
<1> QED  BY <1>3, <1>4, <1>5 DEF BlendedAt

LEMMA FrameShown ==
  ASSUME IInv, NEW f \in Frames
  PROVE  NewCanvas(f) = Rendered(Ground, f)
BY KeyFrameShown, OtherFrameShown

LEMMA RenderedPixels ==
  ASSUME IInv, NEW f \in Frames
  PROVE  Rendered(Ground, f) \in [Canvas -> Pixels]
<1> SUFFICES ASSUME NEW p \in Canvas
             PROVE  Rendered(Ground, f)[p] \in Pixels
  BY DEF Promise!Rendered
<1> QED  BY GroundPixels, PixelOfFrame, PixelAssumption DEF Promise!Rendered

-----------------------------------------------------------------------------
LEMMA InitInv == Init => IInv
BY PixelAssumption
   DEF Init, IInv, Shapes, PrevKept, NothingAround, Promise!Empty

LEMMA NextInv == IInv /\ [Next]_vars => IInv'
<1> SUFFICES ASSUME IInv, [Next]_vars PROVE IInv'
  OBVIOUS
<1>1. CASE Reset
  BY <1>1 DEF Reset, IInv, Shapes, PrevKept, NothingAround
<1>2. ASSUME NEW f \in Frames, GetNext(f) PROVE IInv'
  <2> USE <1>2 DEF GetNext
  <2>1. buf' = Rendered(Ground, f) /\ prev_iter' = f
    BY FrameShown
  <2>2. Shapes'
    BY <2>1, RenderedPixels DEF IInv, Shapes
  <2>3. PrevKept'
    BY <2>1 DEF PrevKept, DisposedOf, Promise!Disposed
  <2>4. NothingAround'
    <3> SUFFICES ASSUME IsKeyFrame(f), NEW p \in Canvas, p \notin Rect(f)
                 PROVE  buf'[p] = Transparent
      BY <2>1 DEF NothingAround
    <3>1. Ground[p] = Transparent
      BY UnderKeyFrame
    <3> QED  BY <2>1, <3>1 DEF Promise!Rendered
  <2> QED  BY <2>2, <2>3, <2>4 DEF IInv
<1>3. ASSUME NEW f \in Frames, GetNextFails(f) PROVE IInv'
  BY <1>3 DEF GetNextFails, IInv, Shapes, PrevKept, NothingAround, Promise!Disposed
<1>4. CASE UNCHANGED vars
  BY <1>4 DEF vars, IInv, Shapes, PrevKept, NothingAround, Promise!Disposed
<1> QED  BY <1>1, <1>2, <1>3, <1>4 DEF Next

LEMMA InitShows == Init => Promise!Init
BY DEF Init, Promise!Init

\* A failing call is a step that Compositor does not see.
LEMMA NextShows == IInv /\ [Next]_vars => [Promise!Next]_Promise!cvars
<1> SUFFICES ASSUME IInv, [Next]_vars PROVE [Promise!Next]_Promise!cvars
  OBVIOUS
<1>1. CASE Reset
  BY <1>1 DEF Reset, Promise!Next, Promise!Restart
<1>2. ASSUME NEW f \in Frames, GetNext(f) PROVE Promise!Next
  <2>1. Promise!Show(f)
    BY <1>2, FrameShown DEF GetNext, HasMoreFrames, Promise!Show, Ground
  <2> QED  BY <2>1 DEF Promise!Next
<1>3. ASSUME NEW f \in Frames, GetNextFails(f) PROVE UNCHANGED Promise!cvars
  BY <1>3 DEF GetNextFails, Promise!cvars
<1>4. CASE UNCHANGED vars
  BY <1>4 DEF vars, Promise!cvars
<1> QED  BY <1>1, <1>2, <1>3, <1>4 DEF Next

LEMMA Invariant == Spec => []IInv
<1>1. IInv /\ [Next]_vars => IInv'
  BY NextInv
<1> QED  BY InitInv, <1>1, PTL DEF Spec

\* At any time a decoder that has shown a frame keeps the canvas the user got,
\* with the rectangle of that frame cleared if it disposes to the background: the
\* next frame can be drawn on it whatever has failed since.
THEOREM KeepsDisposedCanvas == Spec => []PrevKept
<1>1. IInv => PrevKept
  BY DEF IInv
<1> QED  BY Invariant, <1>1, PTL

\* What WebPAnimDecoderGetNext gives is what Compositor shows: key frames, partial
\* blending, failing calls and resets cannot be told from a decoder that redraws
\* everything (ImplementsCompositor).
THEOREM ShowsCanvas == Spec => ImplementsCompositor
<1>1. IInv /\ [Next]_vars => [Promise!Next]_Promise!cvars
  BY NextShows
<1> QED  BY InitShows, Invariant, <1>1, PTL DEF Spec, ImplementsCompositor, Promise!Spec
=============================================================================
