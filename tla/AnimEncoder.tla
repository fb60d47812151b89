----------------------------- MODULE AnimEncoder -----------------------------
(***************************************************************************)
(* WebPAnimEncoder (src/mux/anim_encode.c): the user adds frames with their *)
(* timestamps, and the encoder decides which to merge, which to encode as   *)
(* key frames, and when frames are certain enough to go to the muxer.       *)
(* Undecided frames wait, encoded both ways, in a small array.              *)
(*                                                                         *)
(* Pixels are abstracted to whether a frame differs from the previous one:  *)
(* canvases alternate between 0 and 1.  Sizes of encoded frames are         *)
(* abstracted to the choices that depend on them: key frame picked or not,  *)
(* previous frame disposed to background or not.  Every call is atomic; it  *)
(* is built from operators that map the encoder's fields to their new value.*)
(***************************************************************************)
EXTENDS Integers, Sequences, SequencesExt

CONSTANTS
  Options,             \* the user's options: records of kmin and kmax
  MaxDuration,         \* MAX_DURATION
  MaxSince,            \* bound: count_since_key_frame_
  MaxFailures          \* bound: failing calls in a behaviour

ASSUME OptionsAssumption == Options \subseteq [kmin : Int, kmax : Int]
ASSUME BoundsAssumption ==
  /\ MaxDuration \in Nat \ (0 .. 1)
  /\ MaxSince \in Nat /\ MaxFailures \in Nat

VARIABLES
  options,             \* enc->options_, sanitized; never changes
  enc,                 \* the encoder's fields, see Init
  mux,                 \* history: what has been pushed to the muxer, see Init
  due,                 \* history: the canvases to be shown, one per unit of
                       \* time, of the frames accepted but not yet pushed
  failures             \* history: number of calls that have failed

vars == <<options, enc, mux, due, failures>>

INT_MAX == 2147483647
MAX_CACHED_FRAMES == 30
KEYFRAME_NONE == -1

-----------------------------------------------------------------------------
(* Options.                                                                 *)

NoKeyframes == [kmin |-> INT_MAX - 1, kmax |-> INT_MAX]    \* DisableKeyframes

\* The last two adjustments of SanitizeEncoderOptions.
LimitCache(o) ==
  IF o.kmax - o.kmin > MAX_CACHED_FRAMES
    THEN [o EXCEPT !.kmin = o.kmax - MAX_CACHED_FRAMES] ELSE o
RaiseKmin(o) ==
  LET limit == o.kmax \div 2 + 1 IN
  IF o.kmin >= o.kmax THEN [o EXCEPT !.kmin = o.kmax - 1]
  ELSE IF o.kmin < limit /\ limit < o.kmax THEN [o EXCEPT !.kmin = limit]
  ELSE o

SanitizeEncoderOptions(o) ==
  IF o.kmax = 1 THEN [kmin |-> 0, kmax |-> 0]
  ELSE LimitCache(RaiseKmin(IF o.kmax <= 0 THEN NoKeyframes ELSE o))

\* enc->size_: one slot more than the frames that can be undecided.
size == IF options.kmax - options.kmin + 1 < 2 THEN 2
        ELSE options.kmax - options.kmin + 1

-----------------------------------------------------------------------------
(* A cached frame: its canvas, its two encodings (duration and disposal),    *)
(* which of them is chosen, and the disposal of the frame before it that its *)
(* sub-frame encoding assumes, with the rectangle that clears.               *)

NewInfo == [duration |-> 0, dispose |-> "NONE"]
NewFrame(c, dispose, rect) ==
  [canvas |-> c, isKey |-> FALSE, sub |-> NewInfo, key |-> NewInfo,
   assumes |-> dispose, rect |-> rect, filler |-> FALSE]

Chosen(f)     == IF f.isKey THEN f.key ELSE f.sub
ChosenRect(f) == IF f.isKey THEN "key" ELSE "sub"
NoFrame       == [NewFrame(0, "NONE", "sub") EXCEPT !.filler = TRUE]

\* What a decoder shows of some frames, unit of time by unit of time.
Shown(frames) ==
  FlattenSeq([i \in 1 .. Len(frames) |->
                [t \in 1 .. Chosen(frames[i]).duration |-> frames[i].canvas]])

Init ==
  /\ options \in { SanitizeEncoderOptions(o) : o \in Options }
  /\ enc = [cached    |-> << >>,      \* encoded_frames_ from start_, count_ of them
            start     |-> 0,
            flush     |-> 0,          \* flush_count_
            keyframe  |-> KEYFRAME_NONE,
            known     |-> FALSE,      \* best_delta_ is not DELTA_INFINITY
            since     |-> 0,          \* count_since_key_frame_
            undecided |-> FALSE,      \* prev_candidate_undecided_
            first     |-> TRUE,       \* is_first_frame_
            gotNull   |-> FALSE,      \* got_null_frame_
            rect      |-> "other",    \* prev_rect_: of which encoding of the
                                      \* last cached frame
            canvas    |-> 0,          \* prev_canvas_
            inFrames  |-> 0,          \* in_frame_count_, 2 and more alike
            pushed    |-> << >>,      \* the frames the current call has pushed
            overrun   |-> FALSE,      \* GetFrame's assertion has failed
            phase     |-> "adding"]   \* "assembling" and then "closed" once
                                      \* Assemble has been called, has succeeded
  /\ mux = [last      |-> NoFrame,      \* the frame pushed last
            gap       |-> 0,            \* frames pushed since the last key frame
            split     |-> FALSE,        \* there is a filler among them
            distances |-> {},           \* between two key frames without filler
                                        \* in between, seen in the last call
            late      |-> FALSE]        \* what was pushed is not what was due
  /\ due = << >>
  /\ failures = 0

\* The assertion of GetFrame(enc, position).
OutOfArray(e, position) == e.start + position >= size
Overrun(e) == [e EXCEPT !.overrun = TRUE]

-----------------------------------------------------------------------------
(* IncreasePreviousDuration.                                                *)

\* Variant: the key-frame encoding is forgotten.
LongerSubOnly(f, d) == [f EXCEPT !.sub.duration = f.sub.duration + d]

Longer(f, d) == [f EXCEPT !.sub.duration = f.sub.duration + d,
                          !.key.duration = f.sub.duration + d]

\* The previous frame would be too long: a transparent 1x1 frame goes on.
AddFiller(e, d) ==
  LET filler == [NewFrame(e.canvas, "NONE", "sub")
                   EXCEPT !.filler = TRUE, !.sub.duration = d]
  IN  [e EXCEPT !.cached = Append(e.cached, filler),
                !.since = e.since + 1,
                !.flush = Len(e.cached),
                !.undecided = FALSE,
                !.rect = "sub"]

TooLong(e, d) == Last(e.cached).sub.duration + d >= MaxDuration

IncreasePreviousDuration(e, d) ==
  LET n == Len(e.cached) IN
  IF OutOfArray(e, n - 1) THEN Overrun(e)
  ELSE IF ~ TooLong(e, d) THEN [e EXCEPT !.cached[n] = Longer(e.cached[n], d)]
  ELSE IF OutOfArray(e, n) THEN Overrun(e)
  ELSE AddFiller(e, d)

-----------------------------------------------------------------------------
(* FlushFrames.                                                             *)

\* "if (enc->keyframe_ != KEYFRAME_NONE) --enc->keyframe_", k times.
KeyframeAfter(e, k) ==
  IF e.keyframe - k < KEYFRAME_NONE THEN KEYFRAME_NONE ELSE e.keyframe - k

\* k frames have been pushed.
PushFrames(e, k) ==
  [e EXCEPT !.pushed = e.pushed \o SubSeq(e.cached, 1, k),
            !.cached = SubSeq(e.cached, k + 1, Len(e.cached)),
            !.start = e.start + k,
            !.flush = e.flush - k,
            !.keyframe = KeyframeAfter(e, k)]

\* All of them, and the only frame left goes back to slot 0.
FlushFrames(e) ==
  LET p == PushFrames(e, e.flush) IN
  IF Len(p.cached) = 1 THEN [p EXCEPT !.start = 0] ELSE p

-----------------------------------------------------------------------------
(* SetFrame and CacheFrame.                                                 *)

\* Variant: disposal to background is tried although it is not known which
\* rectangle would be cleared.
dispose_bg_always(e) == TRUE

\* Of a sub-frame; for key frames the disposal before them does not matter.
dispose_bg_possible(e) == ~ e.undecided

SetPreviousDisposeMethod(e, dispose) ==
  LET n == Len(e.cached) IN
  IF e.undecided
    THEN [e EXCEPT !.cached[n].sub.dispose = dispose,
                   !.cached[n].key.dispose = dispose]
  ELSE IF e.cached[n].isKey THEN [e EXCEPT !.cached[n].key.dispose = dispose]
  ELSE [e EXCEPT !.cached[n].sub.dispose = dispose]

\* SetFrame has encoded canvas c as a sub-frame.
CacheSubFrame(e, c, dispose) ==
  LET p == SetPreviousDisposeMethod(e, dispose) IN
  [p EXCEPT !.cached = Append(p.cached, NewFrame(c, dispose, e.rect)),
            !.since = e.since + 1,
            !.rect = "sub"]

\* The frame just cached, position n - 1, becomes the key-frame candidate.
PickKeyFrame(e) ==
  LET n == Len(e.cached)
      DeselectOld == IF e.keyframe = KEYFRAME_NONE THEN e.cached
                     ELSE [e.cached EXCEPT ![e.keyframe + 1].isKey = FALSE]
  IN  [e EXCEPT !.cached = [DeselectOld EXCEPT ![n].isKey = TRUE],
                !.undecided = TRUE,
                !.keyframe = n - 1,
                !.known = TRUE,
                !.flush = n - 1,
                !.rect = "key"]

\* Variant: the count goes on.
CloseInterval_NoReset(e) ==
  IF e.since < options.kmax THEN e
  ELSE [e EXCEPT !.flush = Len(e.cached) - 1,
                 !.keyframe = KEYFRAME_NONE,
                 !.known = FALSE]

\* count_since_key_frame_ has reached kmax: whatever is cached is final.
CloseInterval(e) ==
  IF e.since < options.kmax THEN e
  ELSE [e EXCEPT !.flush = Len(e.cached) - 1,
                 !.since = 0,
                 !.keyframe = KEYFRAME_NONE,
                 !.known = FALSE]

CacheFirstFrame(e, c) ==
  [e EXCEPT !.cached = << [NewFrame(c, "NONE", "sub") EXCEPT !.isKey = TRUE] >>,
            !.flush = 0, !.since = 0, !.undecided = FALSE, !.rect = "key"]

\* Before kmin only as a sub-frame; then both ways, and the key frame is picked
\* if its penalty is the best so far.
CacheNextFrame(e, c, dispose, picked) ==
  LET s == [CacheSubFrame(e, c, dispose) EXCEPT !.undecided = FALSE] IN
  IF s.since <= options.kmin THEN [s EXCEPT !.flush = Len(e.cached)]
  ELSE CloseInterval(IF picked \/ ~ e.known THEN PickKeyFrame(s) ELSE s)

Counted(e) == [e EXCEPT !.inFrames = IF e.inFrames = 0 THEN 1 ELSE 2]

\* A canvas that does not differ from the previous one is skipped.
CacheFrame(e, c, dispose, picked) ==
  IF e.overrun \/ OutOfArray(e, Len(e.cached)) THEN Overrun(e)
  ELSE IF e.first THEN [Counted(CacheFirstFrame(e, c)) EXCEPT !.first = FALSE,
                                                             !.canvas = c]
  ELSE IF c = e.canvas THEN Counted(e)
  ELSE [Counted(CacheNextFrame(e, c, dispose, picked)) EXCEPT !.canvas = c]

-----------------------------------------------------------------------------
(* WebPAnimEncoderAdd.                                                      *)

\* The muxer gets a frame.
MuxFrame(m, f) ==
  [m EXCEPT !.last = f,
            !.gap = IF f.isKey THEN 0 ELSE m.gap + 1,
            !.split = IF f.isKey THEN FALSE ELSE m.split \/ f.filler,
            !.distances = IF f.isKey /\ m.last # NoFrame /\ ~ m.split
                          THEN m.distances \union {m.gap + 1}
                          ELSE m.distances]

\* Bookkeeping at the end of a call, where shown is the time it has asked for.
Finish(e, shown) ==
  LET wanted == due \o shown
      out    == Shown(e.pushed)
      late   == mux.late \/ ~ IsPrefix(out, wanted)
  IN  /\ enc' = [e EXCEPT !.pushed = << >>]
      /\ mux' = [FoldLeft(MuxFrame, [mux EXCEPT !.distances = {}], e.pushed)
                   EXCEPT !.late = late]
      /\ due' = IF late THEN << >>
                ELSE SubSeq(wanted, Len(out) + 1, Len(wanted))
      /\ UNCHANGED options

\* The call without a frame is the last one, and nothing is added after Assemble
\* has been called.
Adding == enc.phase = "adding" /\ ~ enc.gotNull /\ ~ enc.overrun
Open   == enc.phase # "closed" /\ ~ enc.overrun

\* The first call has no previous frame whose duration it would give.
Durations == IF enc.first THEN {0} ELSE 0 .. MaxDuration - 1
Unchanging(d) == [t \in 1 .. d |-> enc.canvas]

\* The encoder when a call has increased the duration of the previous frame...
Increased(d) == IF enc.first THEN enc ELSE IncreasePreviousDuration(enc, d)

\* Variant: no room is made for the frame a filler precedes.
NeverFull(e) == FALSE

\* ... and made room if the array is full.
IsFull(e) == ~ e.first /\ Len(e.cached) = size
Ready(d) ==
  LET e == Increased(d) IN
  IF IsFull(e) /\ ~ e.overrun THEN FlushFrames(e) ELSE e

\* How the encoder may compress canvas c.
Disposals(e) == IF ~ e.first /\ dispose_bg_possible(e)
                THEN {"NONE", "BACKGROUND"} ELSE {"NONE"}
Outcomes(e, c) ==
  IF e.overrun \/ e.first \/ c = e.canvas THEN { <<"NONE", TRUE>> }
  ELSE Disposals(e) \X (IF e.known THEN BOOLEAN ELSE {TRUE})

\* What CacheFrame may leave.
Cached(d, c) ==
  LET e == Ready(d) IN
  { CacheFrame(e, c, x[1], x[2]) : x \in Outcomes(e, c) }

Add(c, d) ==
  /\ Adding /\ enc.since < MaxSince
  /\ \E e \in Cached(d, c) :
       Finish(IF e.overrun THEN e ELSE FlushFrames(e), Unchanging(d))
  /\ UNCHANGED failures

\* The last call, without a frame.
AddNull(d) ==
  /\ Adding /\ enc.since < MaxSince
  /\ Finish([Ready(d) EXCEPT !.gotNull = TRUE], Unchanging(d))
  /\ UNCHANGED failures

-----------------------------------------------------------------------------
(* Calls that fail.  The time they have asked for has not been accepted.     *)

MayFail == enc.since < MaxSince /\ failures < MaxFailures
Fails(e) ==
  /\ failures' = failures + 1
  /\ ~ e.overrun
  /\ Finish(e, << >>)

\* The filler cannot be allocated.
AddFillerFails(d) ==
  /\ Adding /\ MayFail /\ ~ enc.first
  /\ TooLong(enc, d) /\ ~ OutOfArray(enc, Len(enc.cached))
  /\ Fails(enc)

\* Wrong dimensions, wrong configuration or a failing sub-frame encoding; of
\* the first frame, the failing key-frame encoding.
AddFrameFails(d) == Adding /\ MayFail /\ Fails(Ready(d))

\* The key-frame encoding fails after the sub-frame encoding has succeeded and
\* set prev_rect_ and the disposal of the previous frame.
AddKeyFrameFails(d) ==
  LET e == Ready(d) IN
  /\ Adding /\ MayFail /\ ~ enc.first /\ ~ e.overrun
  /\ e.since + 1 > options.kmin
  /\ \E dispose \in Disposals(e) :
       Fails([SetPreviousDisposeMethod(e, dispose) EXCEPT !.rect = "other"])

\* WebPMuxPushFrame fails when k frames have been pushed: in the flush that
\* makes room, or in the one that follows CacheFrame.
AddPushFails(c, d) ==
  Adding /\ MayFail /\ \E k \in 0 .. size :
    \/ LET e == Increased(d) IN
         ~ e.overrun /\ IsFull(e) /\ k < e.flush /\ Fails(PushFrames(e, k))
    \/ \E e \in Cached(d, c) :
         ~ e.overrun /\ k < e.flush /\ Fails(PushFrames(e, k))

-----------------------------------------------------------------------------
(* WebPAnimEncoderAssemble.                                                 *)

\* Without a last call, the last frame is shown for the average of the others.
NeedsAverage == ~ enc.gotNull /\ enc.inFrames > 1 /\ Len(enc.cached) > 0

Averages == IF NeedsAverage THEN 0 .. MaxDuration - 1 ELSE {0}

BeforeLastFlush(d) ==
  LET e == IF NeedsAverage THEN IncreasePreviousDuration(enc, d) ELSE enc IN
  [e EXCEPT !.flush = Len(e.cached)]

\* May be called again if it has failed.
Assemble ==
  /\ Open /\ enc.inFrames > 0
  /\ \E d \in Averages :
       LET e == BeforeLastFlush(d) IN
       Finish(IF e.overrun THEN e
              ELSE [FlushFrames(e) EXCEPT !.phase = "closed"], Unchanging(d))
  /\ UNCHANGED failures

\* A push fails, or what follows the last one.
AssembleFails ==
  /\ Open /\ MayFail /\ enc.inFrames > 0
  /\ \E d \in Averages :
       LET e == BeforeLastFlush(d) IN
       \E k \in 0 .. Len(e.cached) :
         ~ e.overrun /\ Fails([PushFrames(e, k) EXCEPT !.phase = "assembling"])

\* Nothing is done after the file has been assembled; without frames,
\* WebPAnimEncoderAssemble refuses to.
Terminated ==
  /\ ~ Open \/ (enc.gotNull /\ enc.inFrames = 0)
  /\ UNCHANGED vars

Next ==
  \/ \E d \in Durations, c \in 0 .. 1 : Add(c, d)
  \/ \E d \in Durations : AddNull(d)
  \/ \E d \in Durations : AddFillerFails(d)
  \/ \E d \in Durations : AddFrameFails(d)
  \/ \E d \in Durations : AddKeyFrameFails(d)
  \/ \E d \in Durations, c \in 0 .. 1 : AddPushFails(c, d)
  \/ Assemble
  \/ AssembleFails
  \/ Terminated

SafeSpec == Init /\ [][Next]_vars

-----------------------------------------------------------------------------
(* Properties.                                                              *)

NoFailure == failures = 0

\* As long as no call fails, the frames that wait fit in the array, also when long
\* durations add frames nobody counted on: the assertion of GetFrame holds.  After a
\* failed push it may not (README).
SlotsSuffice == NoFailure => ~ enc.overrun

\* As long as no call fails, what goes to the muxer, followed by what is cached,
\* shows each canvas exactly as long as the timestamps say: merging, splitting of
\* long frames and the choice of the encoding neither lose nor add time, and no frame
\* gets a duration that has no room in the container.
TimelineKept ==
  NoFailure =>
    /\ ~ mux.late /\ Shown(enc.cached) = due
    /\ \A f \in ToSet(enc.cached) : f.sub.duration < MaxDuration

\* As long as no call fails, a sub-frame is the difference from what the frame
\* before leaves on the canvas: that frame has the disposal, and clears the
\* rectangle, that were assumed when the sub-frame was encoded, whichever
\* encodings are chosen since.
Fits(prev, f) ==
  /\ Chosen(prev).dispose = f.assumes
  /\ f.assumes = "BACKGROUND" => ChosenRect(prev) = f.rect
DisposalAsAssumed ==
  NoFailure =>
    LET frames == IF mux.last = NoFrame THEN enc.cached
                  ELSE << mux.last >> \o enc.cached
    IN  \A i \in 1 .. Len(frames) - 1 : Fits(frames[i], frames[i + 1])

\* keyframe_ always designates a cached frame that is chosen as key frame, however
\* frames are flushed or dropped (assert in CacheFrame).  If no long frame was split
\* in between, two consecutive key frames of the output are at least kmin frames
\* apart, and next to each other if all frames are to be key frames ("kmax == 1" of
\* mux.h, which SanitizeEncoderOptions makes 0).  All this whether calls fail or not.
KeyFrameSpacing ==
  /\ enc.keyframe # KEYFRAME_NONE =>
       enc.keyframe < Len(enc.cached) /\ enc.cached[enc.keyframe + 1].isKey
  /\ \A n \in mux.distances :
       /\ n >= options.kmin
       /\ options.kmax = 0 => n = 1

\* What mux.h says of kmax, "maximum distance between consecutive key frames in the
\* output", here even if no long frame was split in between.  It does not hold: when
\* count_since_key_frame_ has reached kmax it starts again from there, although the
\* key frame that was picked came some frames earlier.
KeyFramesWithinKmax ==
  options.kmax > 0 => \A n \in mux.distances : n <= options.kmax
=============================================================================
