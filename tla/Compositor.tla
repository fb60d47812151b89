------------------------------ MODULE Compositor ------------------------------
(***************************************************************************)
(* What a user of WebPAnimDecoder is promised (src/webp/demux.h and the     *)
(* dispose and blend methods of src/webp/mux_types.h): each call gives the  *)
(* whole canvas after one more frame.  The canvas is transparent before the *)
(* first frame; before any other, the rectangle of the previous frame is    *)
(* cleared if that frame says so; then the frame replaces its rectangle or  *)
(* is blended over it.  There are no key frames here.                       *)
(***************************************************************************)
EXTENDS Integers

CONSTANTS
  Width, Height,      \* of the canvas
  Frames,             \* the frames an animation can have, see IsFrame
  frame_count,        \* of the animation
  Pixels,             \* values of a pixel ...
  Transparent,        \* ... of them, the fully transparent one
  Over(_, _)          \* the first pixel blended over the second

Canvas  == (0 .. Width - 1) \X (0 .. Height - 1)
Rect(f) == (f.x .. f.x + f.width - 1) \X (f.y .. f.y + f.height - 1)
Empty   == [p \in Canvas |-> Transparent]

\* What the decoder needs of a frame; pix has its pixels at their place on the
\* canvas.  A frame is within the canvas (IsValidExtendedFormat of the demuxer).
IsFrame(f) ==
  /\ f = [x |-> f.x, y |-> f.y, width |-> f.width, height |-> f.height,
          has_alpha |-> f.has_alpha, blend |-> f.blend, dispose |-> f.dispose,
          duration |-> f.duration, pix |-> f.pix]
  /\ f.x \in Nat /\ f.y \in Nat /\ f.width \in Nat \ {0} /\ f.height \in Nat \ {0}
  /\ f.x + f.width <= Width /\ f.y + f.height <= Height
  /\ f.has_alpha \in BOOLEAN
  /\ f.blend \in {"BLEND", "NO_BLEND"}
  /\ f.dispose \in {"NONE", "BACKGROUND"}
  /\ f.duration \in Nat
  /\ f.pix \in [Rect(f) -> Pixels]
  /\ ~ f.has_alpha => \A p \in Rect(f), q \in Pixels : Over(f.pix[p], q) = f.pix[p]

\* The iterator before any frame: all zero.
NoFrame == [x |-> 0, y |-> 0, width |-> 0, height |-> 0, has_alpha |-> FALSE,
            blend |-> "BLEND", dispose |-> "NONE", duration |-> 0, pix |-> << >>]

VARIABLES
  buf,           \* the canvas last given to the user
  timestamp,     \* and its time
  prev,          \* the frame shown last in this pass over the animation
  next_frame     \* the number of the next one

cvars == <<buf, timestamp, prev, next_frame>>

Disposed(canvas, f) ==
  [p \in Canvas |-> IF f.dispose = "BACKGROUND" /\ p \in Rect(f) THEN Transparent
                    ELSE canvas[p]]

Rendered(canvas, f) ==
  [p \in Canvas |-> IF p \notin Rect(f) THEN canvas[p]
                    ELSE IF f.blend = "BLEND" THEN Over(f.pix[p], canvas[p])
                    ELSE f.pix[p]]

\* What frame next_frame is drawn on.
Ground == IF next_frame = 1 THEN Empty ELSE Disposed(buf, prev)

Init == buf = Empty /\ timestamp = 0 /\ prev = NoFrame /\ next_frame = 1

Show(f) ==
  /\ next_frame <= frame_count
  /\ buf' = Rendered(Ground, f)
  /\ timestamp' = timestamp + f.duration
  /\ prev' = f /\ next_frame' = next_frame + 1

\* The next frame is the first one again.
Restart ==
  /\ timestamp' = 0 /\ prev' = NoFrame /\ next_frame' = 1
  /\ UNCHANGED buf

Next == Restart \/ \E f \in Frames : Show(f)

Spec == Init /\ [][Next]_cvars
=============================================================================
