----------------------------- MODULE AnimDecoder -----------------------------
(***************************************************************************)
(* WebPAnimDecoder (src/demux/anim_decode.c).  To save work it keeps the    *)
(* previous canvas with the previous frame already disposed of, does not    *)
(* look at it when the next frame is found to be a "key frame", and blends  *)
(* only the parts of a row that can have something below.                   *)
(*                                                                         *)
(* Any frame may come next: the decoder remembers nothing of the file but   *)
(* the previous frame.  What blending computes is left open (Over); that    *)
(* nothing changes over a transparent pixel holds up to the rounding of     *)
(* BlendPixelNonPremult.                                                    *)
(***************************************************************************)
EXTENDS Integers

CONSTANTS Width, Height, Frames, frame_count, Pixels, Transparent, Over(_, _)

VARIABLES
  buf,                      \* history: what the last successful call gave
  curr_frame,               \* current canvas (not disposed)
  prev_frame_disposed,      \* previous canvas (properly disposed)
  prev_frame_timestamp,     \* which that call gave, too
  prev_iter,                \* the previous frame
  prev_frame_was_keyframe,
  next_frame                \* from 1

vars == <<buf, curr_frame, prev_frame_disposed, prev_frame_timestamp, prev_iter,
          prev_frame_was_keyframe, next_frame>>

Promise == INSTANCE Compositor WITH timestamp <- prev_frame_timestamp,
                                    prev <- prev_iter
Canvas    == Promise!Canvas
Rect(f)   == Promise!Rect(f)
Empty     == Promise!Empty
NoFrame   == Promise!NoFrame

ASSUME FrameAssumption ==
  /\ Width \in Nat \ {0} /\ Height \in Nat \ {0} /\ frame_count \in Nat
  /\ \A f \in Frames : Promise!IsFrame(f)
ASSUME PixelAssumption ==
  /\ Transparent \in Pixels
  /\ \A p, q \in Pixels : Over(p, q) \in Pixels
  /\ \A p \in Pixels : Over(p, Transparent) = p

Init ==
  /\ buf = Empty
  /\ curr_frame = Empty /\ prev_frame_disposed = Empty
  /\ prev_frame_timestamp = 0
  /\ prev_iter = NoFrame
  /\ prev_frame_was_keyframe = FALSE
  /\ next_frame = 1

-----------------------------------------------------------------------------
IsFullFrame(f) == f.width = Width /\ f.height = Height

\* Variant: a frame that disposes to the background is taken to have been alone
\* on the canvas.
IsKeyFrame_AnyDisposed(f) ==
  \/ next_frame = 1
  \/ (~ f.has_alpha \/ f.blend = "NO_BLEND") /\ IsFullFrame(f)
  \/ prev_iter.dispose = "BACKGROUND"

\* The frame does not depend on those before it.
IsKeyFrame(f) ==
  \/ next_frame = 1
  \/ (~ f.has_alpha \/ f.blend = "NO_BLEND") /\ IsFullFrame(f)
  \/ /\ prev_iter.dispose = "BACKGROUND"
     /\ IsFullFrame(prev_iter) \/ prev_frame_was_keyframe

\* The columns of row y that belong to src but not to dst: one or two ranges.
FindBlendRangeAtRow(src, dst, y) ==
  LET src_max_x == src.x + src.width
      dst_max_x == dst.x + dst.width
      dst_max_y == dst.y + dst.height
  IN  IF \/ y < dst.y \/ y >= dst_max_y
         \/ src.x >= dst_max_x \/ src_max_x <= dst.x
      THEN src.x .. src_max_x - 1
      ELSE (IF src.x < dst.x THEN src.x .. dst.x - 1 ELSE {})
             \cup (IF src_max_x > dst_max_x THEN dst_max_x .. src_max_x - 1 ELSE {})

\* The canvas a frame is decoded into.
Initialized(f) == IF IsKeyFrame(f) THEN Empty ELSE prev_frame_disposed

\* WebPDecode has written the first rows of the frame's rectangle.
DecodedRows(canvas, f, rows) ==
  [p \in Canvas |-> IF p \in Rect(f) /\ p[2] < f.y + rows THEN f.pix[p]
                    ELSE canvas[p]]

\* Where transparent pixels of f are blended with those of the previous canvas.
BlendedAt(f, p) ==
  /\ next_frame > 1 /\ f.blend = "BLEND" /\ ~ IsKeyFrame(f)
  /\ p \in Rect(f)
  /\ prev_iter.dispose = "BACKGROUND" =>
       p[1] \in FindBlendRangeAtRow(f, prev_iter, p[2])

NewCanvas(f) ==
  LET decoded == DecodedRows(Initialized(f), f, f.height)
  IN  [p \in Canvas |-> IF BlendedAt(f, p)
                        THEN Over(decoded[p], prev_frame_disposed[p])
                        ELSE decoded[p]]

\* ZeroFillFrameRect, if the frame disposes to the background.
DisposedOf(canvas, f) ==
  [p \in Canvas |-> IF f.dispose = "BACKGROUND" /\ p \in Rect(f) THEN Transparent
                    ELSE canvas[p]]

-----------------------------------------------------------------------------
HasMoreFrames == next_frame <= frame_count

\* WebPAnimDecoderGetNext.
GetNext(f) ==
  /\ HasMoreFrames
  /\ curr_frame' = NewCanvas(f)
  /\ prev_frame_disposed' = DisposedOf(curr_frame', f)
  /\ prev_frame_timestamp' = prev_frame_timestamp + f.duration
  /\ prev_iter' = f
  /\ prev_frame_was_keyframe' = IsKeyFrame(f)
  /\ next_frame' = next_frame + 1
  /\ buf' = curr_frame'

\* WebPDecode fails, some rows being there already.
GetNextFails(f) ==
  /\ HasMoreFrames
  /\ \E rows \in 0 .. f.height :
       curr_frame' = DecodedRows(Initialized(f), f, rows)
  /\ UNCHANGED <<buf, prev_frame_disposed, prev_frame_timestamp, prev_iter,
                 prev_frame_was_keyframe, next_frame>>

\* WebPAnimDecoderReset: the canvases keep what they have.
Reset ==
  /\ prev_frame_timestamp' = 0
  /\ prev_iter' = NoFrame
  /\ prev_frame_was_keyframe' = FALSE
  /\ next_frame' = 1
  /\ UNCHANGED <<buf, curr_frame, prev_frame_disposed>>

Next == Reset \/ \E f \in Frames : GetNext(f) \/ GetNextFails(f)

Spec == Init /\ [][Next]_vars

-----------------------------------------------------------------------------
(* Properties.                                                              *)

\* Key frames, partial blending, failing calls, retries and resets make no
\* difference: every canvas the user gets is the one of Compositor.
ImplementsCompositor == Promise!Spec
=============================================================================
