--------------------------- MODULE LosslessEncoder ---------------------------
(***************************************************************************)
(* VP8LEncodeImage (src/enc/vp8l_enc.c): every transform configuration of   *)
(* the cruncher is tried on a copy of the pixels, the smallest stream is    *)
(* kept.  With threads, the second half of the configurations is tried by a *)
(* worker that has its own encoder, bit writer, statistics and a view of    *)
(* the picture, because error_code and the progress hook are not shared     *)
(* between threads.  The buffer argb_ is used again from one configuration  *)
(* to the next; argb_content_ says what it may still hold.                  *)
(***************************************************************************)
EXTENDS Naturals, Sequences

CONSTANT MaxSize       \* sizes a configuration may compress to: 1 .. MaxSize

VARIABLES
  config,              \* what the call is given and EncoderAnalyze finds
  lpc,                 \* where the calling thread is
  error,               \* picture->error_code
  sideError,           \* picture_side.error_code
  jobs,                \* the two StreamEncodeContexts and their encoders
  worker,              \* worker_side: "none", "running", "ended"
  held,                \* what is allocated
  smallest,            \* history: the smallest size any configuration had
  result               \* what WebPEncode returned

vars == <<config, lpc, error, sideError, jobs, worker, held, smallest, result>>

Threads == {"main", "side"}

EntropyIx == {"kDirect", "kSpatial", "kSubGreen", "kSpatialSubGreen",
              "kPalette", "kPaletteAndSpatial"}

UsePalette(e) == e \in {"kPalette", "kPaletteAndSpatial"}
UseSubtractGreen(e) == e \in {"kSubGreen", "kSpatialSubGreen"}
UsePredict(e) == e \in {"kSpatial", "kSpatialSubGreen", "kPaletteAndSpatial"}

\* The configurations EncoderAnalyze may choose: the guessed one, a palette with
\* and without prediction, or all, with two palette orders if there is a palette.
AllEntropyIx == <<"kDirect", "kSpatial", "kSubGreen", "kSpatialSubGreen">>
CrunchConfigs ==
  {<<e>> : e \in EntropyIx \ {"kPaletteAndSpatial"}}
    \cup {<<"kPalette", "kPaletteAndSpatial">>,
          AllEntropyIx,
          AllEntropyIx \o <<"kPalette", "kPalette",
                            "kPaletteAndSpatial", "kPaletteAndSpatial">>}

\* use_cross_color_ needs red or blue somewhere, and some effort.
UseCrossColor(e) == config.crossColor /\ UsePredict(e) /\ ~ UsePalette(e)
UseNearLossless(e) == config.nearLossless /\ ~ UsePalette(e) /\ ~ UsePredict(e)

-----------------------------------------------------------------------------
(* Bit writers *)

\* prefix: the bytes written before the image are in the buffer.
EmptyWriter == [prefix |-> FALSE, stream |-> << >>]
StartedWriter == [prefix |-> TRUE, stream |-> << >>]

VP8LBitWriterReset(bw) == [bw EXCEPT !.stream = << >>]

\* ~(size_t)0, larger than all sizes
NoSize == MaxSize + 1
NumBytes(bw) == IF bw.stream = << >> THEN NoSize ELSE bw.stream[1].size

-----------------------------------------------------------------------------
(* One configuration *)

\* The pixels in argb_: where they were copied from, transforms applied to them.
Pixels(from, transforms) == [from |-> from, transforms |-> transforms]
Garbage == Pixels("none", {})

NewJob(todo) ==
  [todo |-> todo, at |-> "ready", argb |-> Garbage, argb_content |-> "kEncoderNone",
   mem |-> 0, bw |-> StartedWriter, best |-> EmptyWriter, stats |-> "none"]

\* Prediction needs room for two more rows and for its modes.
MemSize(e) == IF UsePredict(e) THEN 2 ELSE 1

AllocateTransformBuffer(j, e) ==
  IF MemSize(e) > j.mem
  THEN [j EXCEPT !.mem = MemSize(e), !.argb = Garbage,
                 !.argb_content = "kEncoderNone"]
  ELSE j

\* What happens to argb_ unless its content is said to be there already.
Fill(j, from, content) ==
  IF j.argb_content = content THEN j
  ELSE [j EXCEPT !.argb = Pixels(from, {}), !.argb_content = content]

\* Variant: what argb_ holds is not forgotten when near-lossless is not used.
ApplyNearLossless_Kept(j, e) ==
  IF UseNearLossless(e)
  THEN Fill(AllocateTransformBuffer(j, e), "near", "kEncoderNearLossless")
  ELSE j

ApplyNearLossless(j, e) ==
  IF UseNearLossless(e)
  THEN Fill(AllocateTransformBuffer(j, e), "near", "kEncoderNearLossless")
  ELSE [j EXCEPT !.argb_content = "kEncoderNone"]

MapImageFromPalette(j, e) ==
  IF UsePalette(e)
  THEN [AllocateTransformBuffer(j, e) EXCEPT
          !.argb = Pixels("palette", {}), !.argb_content = "kEncoderPalette"]
  ELSE j

MakeInputImageCopy(j, e) ==
  IF j.argb_content \notin {"kEncoderNearLossless", "kEncoderPalette"}
  THEN Fill(AllocateTransformBuffer(j, e), "picture", "kEncoderARGB")
  ELSE j

Transforms(e) ==
  {t \in {"subtractGreen", "predict", "crossColor"} :
    \/ t = "subtractGreen" /\ UseSubtractGreen(e)
    \/ t = "predict" /\ UsePredict(e)
    \/ t = "crossColor" /\ UseCrossColor(e)}

ApplyTransforms(j, e) ==
  [j EXCEPT !.argb.transforms = @ \cup Transforms(e)]

Transformed(j, e) ==
  ApplyTransforms(
    MakeInputImageCopy(MapImageFromPalette(ApplyNearLossless(j, e), e), e), e)

\* A stream of this size is written and kept if it is smaller than the best.
\* With one configuration only, the writer is not used again.
Encoded(j, e, size, several) ==
  LET bw == [j.bw EXCEPT !.stream = <<[of |-> e, argb |-> j.argb, size |-> size]>>]
      better == size < NumBytes(j.best)
      left == IF better THEN j.best ELSE bw
  IN [j EXCEPT !.best = IF better THEN bw ELSE @,
               !.bw = IF several THEN VP8LBitWriterReset(left) ELSE left,
               !.stats = IF better THEN e ELSE @]

TryConfig(j, e, size, several) ==
  [Encoded(Transformed(j, e), e, size, several) EXCEPT !.todo = Tail(@)]

-----------------------------------------------------------------------------
(* EncodeStreamHook, run by the caller and by the worker *)

Configs(t) ==
  LET all == config.configs
      side == IF config.threads THEN Len(all) \div 2 ELSE 0
  IN IF t = "main" THEN SubSeq(all, 1, Len(all) - side)
     ELSE SubSeq(all, Len(all) - side + 1, Len(all))

HasSide == Configs("side") # << >>

\* The oldest error takes precedence.
SetError(code, e) == IF code = "OK" THEN e ELSE code

\* Each thread reports to its own picture; only the caller's has a progress hook.
Reports(t) ==
  \/ /\ t = "main"
     /\ \E e \in {"OUT_OF_MEMORY", "USER_ABORT"} : error' = SetError(error, e)
     /\ UNCHANGED sideError
  \/ /\ t = "side"
     /\ sideError' = SetError(sideError, "OUT_OF_MEMORY")
     /\ UNCHANGED error

Runs(t) == IF t = "main" THEN lpc = "execute" ELSE worker = "running"

\* bw_best is a copy of the writer if the writer is needed again.
HookStarts(t) ==
  /\ Runs(t) /\ jobs[t].at = "ready"
  /\ jobs' = [jobs EXCEPT ![t].at = "trying",
                          ![t].best = IF Len(Configs(t)) > 1 THEN StartedWriter
                                                             ELSE EmptyWriter]
  /\ UNCHANGED <<config, lpc, error, sideError, worker, held, smallest, result>>

HookTries(t, size) ==
  /\ Runs(t) /\ jobs[t].at = "trying" /\ jobs[t].todo # << >>
  /\ jobs' = [jobs EXCEPT ![t] = TryConfig(@, Head(@.todo), size, Len(Configs(t)) > 1)]
  /\ smallest' = IF size < smallest THEN size ELSE smallest
  /\ UNCHANGED <<config, lpc, error, sideError, worker, held, result>>

HookFinishes(t) ==
  /\ Runs(t) /\ jobs[t].at = "trying" /\ jobs[t].todo = << >>
  /\ jobs' = [jobs EXCEPT ![t].at = "over", ![t].bw = jobs[t].best,
                          ![t].best = EmptyWriter]
  /\ UNCHANGED <<config, lpc, error, sideError, worker, held, smallest, result>>

\* Anything may fail for want of memory, and the user may abort.
HookStops(t) ==
  /\ Runs(t) /\ jobs[t].at \in {"ready", "trying"}
  /\ jobs[t].at = "trying" => jobs[t].todo # << >>
  /\ Reports(t)
  /\ jobs' = [jobs EXCEPT ![t].at = "over", ![t].best = EmptyWriter]
  /\ UNCHANGED <<config, lpc, worker, held, smallest, result>>

Hook(t) ==
  \/ HookStarts(t) \/ HookFinishes(t) \/ HookStops(t)
  \/ \E size \in 1 .. MaxSize : HookTries(t, size)

\* The hook's result, which Execute and the worker keep as had_error.
HookOk(t) == (IF t = "main" THEN error ELSE sideError) = "OK"

-----------------------------------------------------------------------------
(* VP8LEncodeStream and VP8LEncodeImage *)

Init ==
  /\ config = [configs |-> << >>, threads |-> FALSE, nearLossless |-> FALSE,
               crossColor |-> FALSE]
  /\ lpc = "idle" /\ error = "OK" /\ sideError = "OK"
  /\ jobs = [t \in Threads |-> NewJob(<< >>)]
  /\ worker = "none" /\ held = {} /\ smallest = NoSize /\ result = "none"

Fails(e, next) ==
  /\ error' = SetError(error, e)
  /\ lpc' = next

\* The user's WebPConfig; quality and method show in what EncoderAnalyze chooses.
VP8LEncodeImage ==
  /\ lpc = "idle"
  /\ \E threads, near \in BOOLEAN :
       config' = [config EXCEPT !.threads = threads, !.nearLossless = near]
  /\ lpc' = "image"
  /\ UNCHANGED <<error, sideError, jobs, worker, held, smallest, result>>

\* The bit writer, progress 1, the header, progress 2.
WriteHeader ==
  /\ lpc = "image"
  /\ \/ /\ held' = {"bw"} /\ lpc' = "stream" /\ UNCHANGED error
     \/ /\ \E e \in {"OUT_OF_MEMORY", "USER_ABORT"} : Fails(e, "end")
        /\ held' = {"bw"}
     \/ /\ Fails("OUT_OF_MEMORY", "end") /\ UNCHANGED held
  /\ UNCHANGED <<config, sideError, jobs, worker, smallest, result>>

\* EncoderAnalyze chooses the configurations, which are split; then the encoder,
\* the writer and the view of the side thread and its worker are made.
Owned == {"enc_main", "bw_side"} \cup (IF HasSide THEN {"enc_side"} ELSE {})

SetUp ==
  /\ lpc = "stream"
  /\ \E all \in CrunchConfigs, crossColor \in BOOLEAN :
       config' = [config EXCEPT !.configs = all, !.crossColor = crossColor]
  /\ jobs' = [t \in Threads |-> NewJob(Configs(t)')]
  /\ held' = held \cup Owned'
  /\ lpc' = "execute"
  /\ worker' = IF HasSide' THEN "running" ELSE "none"
  /\ UNCHANGED <<error, sideError, smallest, result>>

\* Whichever of these fails, what came before it is freed.
SetUpFails ==
  /\ lpc = "stream"
  /\ \E some \in SUBSET {"enc_main", "bw_side", "enc_side"} : held' = held \cup some
  /\ Fails("OUT_OF_MEMORY", "free")
  /\ UNCHANGED <<config, sideError, jobs, worker, smallest, result>>

\* Sync and End of the caller's own worker, then of the other one.
SyncJobs ==
  /\ lpc = "execute" /\ jobs["main"].at = "over"
  /\ worker = "running" => jobs["side"].at = "over"
  /\ lpc' = "choose"
  /\ worker' = IF HasSide THEN "ended" ELSE worker
  /\ UNCHANGED <<config, error, sideError, jobs, held, smallest, result>>

\* The side stream is taken if it is smaller, with its statistics.
ChooseStream ==
  /\ lpc = "choose"
  /\ lpc' = "free"
  /\ IF HasSide /\ ~ (HookOk("main") /\ HookOk("side"))
     THEN /\ error' = SetError(error, sideError)
          /\ UNCHANGED jobs
     ELSE /\ IF HasSide /\ NumBytes(jobs["side"].bw) < NumBytes(jobs["main"].bw)
             THEN jobs' = [jobs EXCEPT !["main"].bw = jobs["side"].bw,
                                       !["main"].stats = jobs["side"].stats,
                                       !["side"].bw = jobs["main"].bw]
             ELSE UNCHANGED jobs
          /\ UNCHANGED error
  /\ UNCHANGED <<config, sideError, worker, held, smallest, result>>

FreeStream ==
  /\ lpc = "free"
  /\ held' = held \ {"enc_main", "bw_side", "enc_side"}
  /\ lpc' = IF error = "OK" THEN "write" ELSE "end"
  /\ UNCHANGED <<config, error, sideError, jobs, worker, smallest, result>>

\* Progress 99, WriteImage, progress 100.
WriteImage ==
  /\ lpc = "write"
  /\ \/ lpc' = "end" /\ UNCHANGED error
     \/ \E e \in {"OUT_OF_MEMORY", "BAD_WRITE", "USER_ABORT"} : Fails(e, "end")
  /\ UNCHANGED <<config, sideError, jobs, worker, held, smallest, result>>

Return ==
  /\ lpc = "end"
  /\ held' = held \ {"bw"}
  /\ result' = IF error = "OK" THEN "ok" ELSE "failed"
  /\ lpc' = "returned"
  /\ UNCHANGED <<config, error, sideError, jobs, worker, smallest>>

Main ==
  \/ VP8LEncodeImage \/ WriteHeader \/ SetUp \/ SetUpFails \/ Hook("main") \/ SyncJobs \/ ChooseStream
  \/ FreeStream \/ WriteImage \/ Return

Next == Main \/ Hook("side")

-----------------------------------------------------------------------------
(* Properties *)

Usable(stream) ==
  LET e == stream.of IN
  stream.argb = Pixels(IF UsePalette(e) THEN "palette"
                       ELSE IF UseNearLossless(e) THEN "near" ELSE "picture",
                       Transforms(e))

\* A successful encoding returns the smallest of all streams tried by either
\* thread, behind the header it was started with, encoded from the pixels of its
\* configuration and described by the statistics.
StreamIsBest ==
  lpc \in {"write", "end", "returned"} /\ error = "OK" =>
    LET bw == jobs["main"].bw IN
    /\ bw.prefix
    /\ bw.stream # << >>
    /\ Usable(bw.stream[1])
    /\ bw.stream[1].size = smallest
    /\ bw.stream[1].of = jobs["main"].stats

\* The side thread runs only while its encoder, its writer and the picture they
\* read are there; nothing stays allocated when the call is over.
JobsAreOver ==
  /\ worker = "running" => Owned \subseteq held /\ lpc = "execute"
  /\ result # "none" => held = {} /\ worker # "running"

\* A call that fails has a reason (the assertion on picture_side.error_code), and
\* one that has a reason fails.
ReasonIsGiven ==
  /\ lpc \in {"free", "write"} /\ sideError # "OK" => error # "OK"
  /\ lpc = "returned" => (result = "ok" <=> error = "OK")
=============================================================================
