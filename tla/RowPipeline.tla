----------------------------- MODULE RowPipeline -----------------------------
(***************************************************************************)
(* Lossy decoding of one frame (src/dec/vp8_dec.c VP8Decode, ParseFrame;    *)
(* src/dec/frame_dec.c VP8ProcessRow, FinishRow and what surrounds them).   *)
(* The main thread parses macroblock rows; FinishRow reconstructs, filters  *)
(* and emits them, inline (mt_method_ 0) or as a job of a WebPWorker        *)
(* (mt_method_ 2, JobWorker.tla).  Pixels live in a cache of num_caches_    *)
(* slots of one macroblock row; the bottom rows of a macroblock row are     *)
(* final only once the next one is filtered, so they are emitted late.      *)
(*                                                                         *)
(* A pixel row is abstracted to <<r, stage>>: row number r of the plane and *)
(* how many of the loop filter's passes over it were done (0: none,         *)
(* 1: those of its own macroblock row, 2: those of the next one too).       *)
(***************************************************************************)
EXTENDS Integers, Sequences, FiniteSets

CONSTANTS
  Configs              \* the frames and options to decode, see IsConfig

\* A frame: threading method, plane observed ("Y" or "UV"), filter type, rows
\* of the picture, crop window, presence of alpha.
IsConfig(c) ==
  /\ c.mt \in {0, 2} /\ c.plane \in {"Y", "UV"} /\ c.filter \in 0 .. 2
  /\ c.height \in Nat \ {0} /\ c.alpha \in BOOLEAN
  /\ c.top \in Nat /\ c.top % 2 = 0        \* WebPIoInitFromOptions snaps it
  /\ c.bottom \in c.top + 1 .. c.height

ASSUME ConfigsAssumption == \A c \in Configs : IsConfig(c)

VARIABLES
  cfg,                 \* the frame; never changes
  mpc,                 \* where the main thread is in VP8Decode
  ok,                  \* VP8Decode's ok
  status, code,        \* dec->status_; the error VP8SetError is about to store
  mb_y,                \* dec->mb_y_
  cacheId,             \* dec->cache_id_
  ctx,                 \* dec->thread_ctx_: id, mb_y, filter_row, mb, f
  decMb, decF,         \* which buffer dec->mb_data_ / dec->f_info_ points to
  mbData, fInfo,       \* the row each buffer was parsed from (-1: not whole)
  cache,               \* dec->cache_y_ (or _u_): position -> pixel row
  job,                 \* where FinishRow is; "idle": it is not running
  io,                  \* the band given to put: mb_y, mb_h, pixel rows
  jobOk, hadError,     \* FinishRow's result; worker->had_error
  wcode,               \* the error FinishRow's VP8SetError is about to store
  alphaRow,            \* first alpha row not asked for yet
  up, launched, done,  \* the worker, as in JobWorker
  phase, rows, result  \* callbacks made, rows put, and what VP8Decode returned

mainVars == <<mpc, ok, code, mb_y, cacheId, decMb, decF, mbData, fInfo>>
jobVars  == <<cache, job, io, jobOk, wcode, alphaRow>>
worker   == <<hadError, up, launched, done>>
output   == <<phase, rows, result>>
vars == <<cfg, status, ctx, mainVars, jobVars, worker, output>>

MbRows == UNION { 0 .. (c.height + 15) \div 16 - 1 : c \in Configs }

MinOf(a, b) == IF a < b THEN a ELSE b
MaxOf(a, b) == IF a > b THEN a ELSE b

-----------------------------------------------------------------------------
(* The geometry of a frame.                                                 *)

Threaded   == cfg.mt > 0
mb_h       == (cfg.height + 15) \div 16
ExtraRows  == <<0, 2, 8>>[cfg.filter + 1]              \* kFilterExtraRows
num_caches == IF ~ Threaded THEN 1 ELSE IF cfg.filter > 0 THEN 3 ELSE 2

\* The macroblock rows to filter and to decode, given the crop window.
tl_mb_y == IF cfg.filter = 2 THEN 0
           ELSE MaxOf(0, (cfg.top - ExtraRows) \div 16)
br_mb_y == MinOf(mb_h, (cfg.bottom + 15 + ExtraRows) \div 16)

\* In rows of the observed plane: a macroblock row, the delay, rows read and
\* rows changed by the filter above a macroblock edge.  The simple filter
\* leaves chroma alone.
Luma      == cfg.plane = "Y"
Block     == IF Luma THEN 16 ELSE 8
Delay     == IF Luma THEN ExtraRows ELSE ExtraRows \div 2
Reads     == CASE cfg.filter = 2 -> 4 [] cfg.filter = 1 /\ Luma -> 2 [] OTHER -> 0
Changes   == CASE cfg.filter = 2 -> 3 [] cfg.filter = 1 /\ Luma -> 1 [] OTHER -> 0
PlaneRow(y)  == IF Luma THEN y ELSE y \div 2
PlaneRows(n) == IF Luma THEN n ELSE (n + 1) \div 2
Base(id)  == id * Block

Junk == <<-1, 0>>
Positions == -Delay .. num_caches * Block - 1

\* The content a pixel row must have when the user gets it.
Final(r) ==
  <<r, IF Reads = 0 THEN 0
       ELSE IF r % Block >= Block - Changes /\ (r \div Block) + 1 < mb_h
            THEN 2 ELSE 1>>

Init ==
  /\ cfg \in Configs
  /\ mpc = "setup" /\ ok = TRUE /\ status = "OK" /\ code = "OK"
  /\ mb_y = 0 /\ cacheId = 0
  /\ decMb = 0 /\ decF = 0
  /\ mbData = [b \in 0 .. 1 |-> -1] /\ fInfo = [b \in 0 .. 1 |-> -1]
  /\ ctx = [id |-> 0, mb_y |-> 0, filter_row |-> FALSE, mb |-> 0, f |-> 0]
  /\ cache = [p \in Positions |-> Junk]
  /\ job = "idle" /\ jobOk = TRUE /\ hadError = FALSE /\ wcode = "OK"
  /\ io = [mb_y |-> 0, mb_h |-> 0, cells |-> << >>]
  /\ alphaRow = 0
  /\ up = FALSE /\ launched = << >> /\ done = << >>
  /\ phase = "new" /\ rows = 0 /\ result = "none"

-----------------------------------------------------------------------------
(* The main thread: VP8EnterCritical and VP8InitFrame.                      *)

SetupFails ==
  /\ mpc = "setup"
  /\ ok' = FALSE /\ status' = "USER_ABORT" /\ mpc' = "clear"
  /\ UNCHANGED <<cfg, code, mb_y, cacheId, decMb, decF, mbData, fInfo, ctx,
                 jobVars, worker, output>>

Setup ==
  /\ mpc = "setup"
  /\ phase' = "open" /\ mpc' = "init"
  /\ UNCHANGED <<cfg, status, ok, code, mb_y, cacheId, decMb, decF, mbData,
                 fInfo, ctx, jobVars, worker, rows, result>>

\* The worker cannot be reset, or AllocateMemory fails.
InitFails ==
  /\ mpc = "init"
  /\ ok' = FALSE /\ status' = "OUT_OF_MEMORY" /\ mpc' = "exit"
  /\ IF Threaded THEN up' \in BOOLEAN ELSE up' = up
  /\ UNCHANGED <<cfg, code, mb_y, cacheId, decMb, decF, mbData, fInfo, ctx,
                 jobVars, hadError, launched, done, output>>

\* InitThreadContext and AllocateMemory: with threads there are two buffers
\* of macroblock data and of filter strengths, the second one for the job.
InitFrame ==
  /\ mpc = "init"
  /\ IF Threaded THEN up' = TRUE ELSE up' = up
  /\ LET second == IF Threaded THEN 1 ELSE 0 IN
       ctx' = [id |-> ctx.id, mb_y |-> ctx.mb_y, filter_row |-> ctx.filter_row,
               mb |-> second, f |-> second]
  /\ mpc' = "parse"
  /\ UNCHANGED <<cfg, status, ok, code, mb_y, cacheId, decMb, decF, mbData,
                 fInfo, jobVars, hadError, launched, done, output>>

-----------------------------------------------------------------------------
(* The main thread: ParseFrame and VP8ProcessRow.                           *)

\* Writes of VP8ParseIntraModeRow and VP8DecodeMB start.
ParseBegin ==
  /\ mpc = "parse" /\ mb_y < br_mb_y
  /\ mbData' = [mbData EXCEPT ![decMb] = -1]
  /\ fInfo' = IF cfg.filter > 0 THEN [fInfo EXCEPT ![decF] = -1] ELSE fInfo
  /\ mpc' = "parsing"
  /\ UNCHANGED <<cfg, status, ok, code, mb_y, cacheId, decMb, decF, ctx,
                 jobVars, worker, output>>

ParseEnd ==
  /\ mpc = "parsing"
  /\ mbData' = [mbData EXCEPT ![decMb] = mb_y]
  /\ fInfo' = IF cfg.filter > 0 THEN [fInfo EXCEPT ![decF] = mb_y] ELSE fInfo
  /\ mpc' = "process"
  /\ UNCHANGED <<cfg, status, ok, code, mb_y, cacheId, decMb, decF, ctx,
                 jobVars, worker, output>>

\* VP8SetError(e) by the main thread: the test of status_, and the store that
\* follows it, are two steps (FinishRow may report an error in between).
MainError(e) ==
  /\ ok' = FALSE
  /\ code' = e
  /\ mpc' = IF status = "OK" THEN "set_error" ELSE "exit"

ParseFails ==
  /\ mpc = "parsing"
  /\ MainError("NOT_ENOUGH_DATA")
  /\ UNCHANGED <<cfg, status, mb_y, cacheId, decMb, decF, mbData, fInfo, ctx,
                 jobVars, worker, output>>

StoreError ==
  /\ mpc = "set_error"
  /\ status' = code
  /\ mpc' = "exit"
  /\ UNCHANGED <<cfg, ok, code, mb_y, cacheId, decMb, decF, mbData, fInfo,
                 ctx, jobVars, worker, output>>

FilterThisRow == cfg.filter > 0 /\ mb_y >= tl_mb_y /\ mb_y <= br_mb_y

\* mt_method_ 0: run FinishRow here.
ProcessRowInline ==
  /\ mpc = "process" /\ ~ Threaded
  /\ ctx' = [id |-> ctx.id, mb_y |-> mb_y, filter_row |-> FilterThisRow,
             mb |-> ctx.mb, f |-> ctx.f]
  /\ job' = "reconstruct" /\ jobOk' = TRUE
  /\ mpc' = "inline"
  /\ UNCHANGED <<cfg, status, ok, code, mb_y, cacheId, decMb, decF, mbData,
                 fInfo, cache, io, wcode, alphaRow, worker, output>>

InlineReturns ==
  /\ mpc = "inline" /\ job = "end"
  /\ job' = "idle"
  /\ IF jobOk
       THEN mb_y' = mb_y + 1 /\ mpc' = "parse" /\ UNCHANGED <<ok, code>>
       ELSE MainError("USER_ABORT") /\ UNCHANGED mb_y
  /\ UNCHANGED <<cfg, status, cacheId, decMb, decF, mbData, fInfo, ctx,
                 cache, io, jobOk, wcode, alphaRow, worker, output>>

\* Variant: Sync is not called.
NotSynced == TRUE

\* Sync returns once the worker is idle.
Synced == launched = done

\* Variant: the macroblock data is not swapped.
MbNotSwapped == decMb

\* What dec->mb_data_ points to after the swap.
MbAfterSwap == ctx.mb

SlotAfter == IF cacheId + 1 = num_caches THEN 0 ELSE cacheId + 1

\* mt_method_ 2: sync, hand the parsed row over by swapping buffers, launch.
ProcessRowLaunch ==
  /\ mpc = "process" /\ Threaded /\ Synced /\ ~ hadError
  /\ ctx' = [id |-> cacheId, mb_y |-> mb_y, filter_row |-> FilterThisRow,
             mb |-> decMb, f |-> IF FilterThisRow THEN decF ELSE ctx.f]
  /\ decMb' = MbAfterSwap
  /\ decF' = IF FilterThisRow THEN ctx.f ELSE decF
  /\ launched' = Append(launched, mb_y)
  /\ job' = "reconstruct" /\ jobOk' = TRUE
  /\ cacheId' = SlotAfter
  /\ mb_y' = mb_y + 1 /\ mpc' = "parse"
  /\ UNCHANGED <<cfg, status, ok, code, mbData, fInfo, cache, io, wcode,
                 alphaRow, hadError, up, done, output>>

ProcessRowAborts ==
  /\ mpc = "process" /\ Threaded /\ Synced /\ hadError
  /\ MainError("USER_ABORT")
  /\ UNCHANGED <<cfg, status, mb_y, cacheId, decMb, decF, mbData, fInfo, ctx,
                 jobVars, worker, output>>

\* The end of ParseFrame: a failure seen by this Sync sets no status.
ParseFrameEnds ==
  /\ mpc = "parse" /\ mb_y = br_mb_y
  /\ Threaded => Synced
  /\ ok' = (Threaded => ~ hadError)
  /\ mpc' = "exit"
  /\ UNCHANGED <<cfg, status, code, mb_y, cacheId, decMb, decF, mbData,
                 fInfo, ctx, jobVars, worker, output>>

\* VP8ExitCritical starts with a Sync of its own.
ExitWhenIdle == Threaded => Synced

\* VP8ExitCritical: sync, then teardown.
ExitCritical ==
  /\ mpc = "exit"
  /\ ExitWhenIdle
  /\ ok' = (ok /\ (Threaded => ~ hadError))
  /\ phase' = "closed"
  /\ mpc' = "clear"
  /\ UNCHANGED <<cfg, status, code, mb_y, cacheId, decMb, decF, mbData,
                 fInfo, ctx, jobVars, worker, rows, result>>

\* VP8Decode returns; on failure VP8Clear first ends the worker.
Return ==
  /\ mpc = "clear"
  /\ up' = (up /\ ok)
  /\ result' = IF ok THEN "ok" ELSE "failed"
  /\ mpc' = "done"
  /\ UNCHANGED <<cfg, status, ok, code, mb_y, cacheId, decMb, decF, mbData,
                 fInfo, ctx, jobVars, hadError, launched, done, phase, rows>>

-----------------------------------------------------------------------------
(* FinishRow, run by main or by the worker thread.                          *)

\* The steps of a job leave the main thread alone.
JobUnchanged == UNCHANGED <<cfg, ctx, mainVars, worker, phase, result>>

is_first_row == ctx.mb_y = 0
is_last_row  == ctx.mb_y >= br_mb_y - 1

\* ReconstructRow overwrites the slot with the row that was parsed.
Reconstruct ==
  /\ job = "reconstruct"
  /\ cache' = [p \in Positions |->
       IF p - Base(ctx.id) \notin 0 .. Block - 1 THEN cache[p]
       ELSE IF mbData[ctx.mb] # ctx.mb_y THEN Junk
       ELSE <<ctx.mb_y * Block + p - Base(ctx.id), 0>>]
  /\ job' = IF ctx.filter_row THEN "filter" ELSE "emit"
  /\ UNCHANGED <<status, io, jobOk, wcode, alphaRow, rows>> /\ JobUnchanged

\* The Reads rows above the slot are those of the macroblock row above, which
\* has been filtered itself.
AboveReady ==
  \/ is_first_row
  \/ \A k \in 1 .. Reads :
       cache[Base(ctx.id) - k] = <<ctx.mb_y * Block - k, 1>>

\* FilterRow: finishes the Changes rows above the slot, then filters the slot.
\* Filtering against wrong rows above spoils what the edge filter changes; the
\* complex filter carries that on through the whole macroblock row.
Filter ==
  /\ job = "filter"
  /\ cache' = [p \in Positions |->
       LET k == p - Base(ctx.id) IN
       IF Reads = 0 \/ k \notin -Changes .. Block - 1 \/ (k < 0 /\ is_first_row)
         THEN cache[p]
       ELSE IF \/ fInfo[ctx.f] # ctx.mb_y
               \/ ~ AboveReady /\ (k < Changes \/ cfg.filter = 2)
         THEN Junk
       ELSE <<cache[p][1], cache[p][2] + 1>>]
  /\ job' = "emit"
  /\ UNCHANGED <<status, io, jobOk, wcode, alphaRow, rows>> /\ JobUnchanged

\* Variants: no delay at the start, delay kept at the end of the last row.
y_start_NoDelay == ctx.mb_y * 16
y_end_Delayed == MinOf((ctx.mb_y + 1) * 16 - ExtraRows, cfg.bottom)

\* The band to emit, in luma rows of the picture, before cropping at the top.
y_start == ctx.mb_y * 16 - (IF is_first_row THEN 0 ELSE ExtraRows)
y_end   == MinOf((ctx.mb_y + 1) * 16 - (IF is_last_row THEN 0 ELSE ExtraRows),
                 cfg.bottom)
put_start == MaxOf(y_start, cfg.top)

\* Pointer arithmetic on io->y, io->u, io->v, then the fields put() reads.
PrepareBand ==
  LET first == Base(ctx.id) - (IF is_first_row THEN 0 ELSE Delay)
                 + PlaneRow(put_start - y_start)
      n     == y_end - put_start
  IN  io' = [mb_y |-> put_start - cfg.top, mb_h |-> n,
             cells |-> [i \in 1 .. PlaneRows(n) |-> cache[first + i - 1]]]

\* VP8DecompressAlphaRows(y_start, y_end - y_start), then the call of put().
Emit ==
  /\ job = "emit"
  /\ IF put_start < y_end THEN PrepareBand /\ job' = "put"
                          ELSE UNCHANGED io /\ job' = "rotate"
  /\ alphaRow' = IF cfg.alpha /\ y_start < y_end THEN y_end ELSE alphaRow
  /\ UNCHANGED <<status, cache, jobOk, wcode, rows>> /\ JobUnchanged

\* A corrupted alpha plane: FinishRow returns at once, through VP8SetError.
AlphaFails ==
  /\ job = "emit" /\ cfg.alpha /\ y_start < y_end
  /\ jobOk' = FALSE /\ wcode' = "BITSTREAM_ERROR"
  /\ job' = IF status = "OK" THEN "set_error" ELSE "end"
  /\ UNCHANGED <<status, cache, io, alphaRow, rows>> /\ JobUnchanged

JobStoresError ==
  /\ job = "set_error"
  /\ status' = wcode
  /\ job' = "end"
  /\ UNCHANGED <<cache, io, jobOk, wcode, alphaRow, rows>> /\ JobUnchanged

\* put() returns; the rows are rotated even if it asked to abort.
Put ==
  /\ job = "put"
  /\ jobOk' \in BOOLEAN
  /\ rows' = IF jobOk' THEN rows + io.mb_h ELSE rows
  /\ job' = "rotate"
  /\ UNCHANGED <<status, cache, io, wcode, alphaRow>> /\ JobUnchanged

\* Variant: off by one.
NeverLastSlot == ctx.id = num_caches

LastSlot == ctx.id + 1 = num_caches

\* From the last slot the bottom rows are copied above the first one.
Rotate ==
  /\ job = "rotate"
  /\ cache' = IF LastSlot /\ ~ is_last_row
                THEN [p \in Positions |->
                        IF p < 0 THEN cache[Base(ctx.id) + Block + p]
                        ELSE cache[p]]
                ELSE cache
  /\ job' = "end"
  /\ UNCHANGED <<status, io, jobOk, wcode, alphaRow, rows>> /\ JobUnchanged

\* The worker records the result of the hook and is idle again.
JobDone ==
  /\ job = "end" /\ Threaded
  /\ hadError' = (hadError \/ ~ jobOk)
  /\ done' = launched
  /\ job' = "idle"
  /\ UNCHANGED <<cfg, status, ctx, mainVars, cache, io, jobOk, wcode,
                 alphaRow, up, launched, output>>

-----------------------------------------------------------------------------
MainSteps == \/ SetupFails \/ Setup \/ InitFails \/ InitFrame
             \/ ParseBegin \/ ParseEnd \/ ParseFails \/ StoreError
             \/ ProcessRowInline \/ InlineReturns
             \/ ProcessRowLaunch \/ ProcessRowAborts
             \/ ParseFrameEnds \/ ExitCritical \/ Return
JobSteps  == \/ Reconstruct \/ Filter \/ Emit \/ AlphaFails \/ JobStoresError
             \/ Put \/ Rotate \/ JobDone

\* VP8Decode has returned and the decoder is not used again.
Terminated == mpc = "done" /\ UNCHANGED vars

Next == MainSteps \/ JobSteps \/ Terminated

SafeSpec == Init /\ [][Next]_vars

\* Both threads run, every callback returns.
Spec == SafeSpec /\ WF_vars(MainSteps) /\ WF_vars(JobSteps)

-----------------------------------------------------------------------------
(* Properties.                                                              *)

\* Whatever the crop window, filter and threading, put() gets only pixel rows
\* that are the right rows of the picture, with every pass of the loop filter
\* done (the delay of FinishRow, the rotation of the cache, tl_mb_y_/br_mb_y_).
PutRowsAreFinal ==
  job = "put" =>
    \A i \in DOMAIN io.cells :
      io.cells[i] = Final(PlaneRow(cfg.top + io.mb_y) + i - 1)

\* put() gets the rows of the crop window top to bottom, no gap, no overlap, and the
\* alpha plane is decoded in consecutive pieces (ALPHDecode "assumes that rows up to
\* (row - 1) have already been decoded").
BandsInOrder ==
  /\ job = "put" => io.mb_y = rows /\ io.mb_h > 0
  /\ job = "emit" /\ cfg.alpha /\ y_start < y_end => y_start = alphaRow

\* While a job runs, the parser writes to other buffers than the job reads.
BuffersDisjoint ==
  Threaded /\ job # "idle" =>
    /\ decMb # ctx.mb
    /\ ctx.filter_row => decF # ctx.f

\* Once teardown was called no job of this frame runs in the worker, so none
\* can still call put() or use what teardown released.
QuietAfterTeardown == phase = "closed" => job = "idle" /\ launched = done

\* The callbacks follow the protocol of vp8_dec.h, and VP8Decode returns.
Protocol == INSTANCE FrameOutput WITH total <- cfg.bottom - cfg.top
ImplementsFrameOutput == Protocol!Spec

\* The worker is used as JobWorker allows: started once, one job at a time,
\* never stopped while busy.
WorkerUse == INSTANCE JobWorker WITH Jobs <- MbRows
UsesJobWorker == WorkerUse!SafeSpec
=============================================================================
