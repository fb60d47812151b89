# TLA+ models of libwebp's core protocols

A verification project for the code in `src/`: libwebp (the `PendoWebP` pod is
this library plus packaging). It holds TLA+ modules, the TLC configurations
that model-check them on small instances, and theorems whose proofs TLAPS
checks. Paths are those of the repository, without the leading `src/`;
`PROJECT.json` maps every definition to its file and lines, lists the runs, the
hazards and the findings.

1. [The system](#1-the-system)
2. [Plan](#2-plan)
3. [Modules and how they correspond to the code](#3-modules-and-how-they-correspond-to-the-code)
4. [Runs, bounds and what they show](#4-runs-bounds-and-what-they-show)
5. [Fairness](#5-fairness)
6. [Proofs](#6-proofs)
7. [Findings](#7-findings)
8. [What is left out](#8-what-is-left-out)

## 1. The system

libwebp is a library: an application calls it, and the library calls back
(`setup`, `put`, `teardown`, progress hooks, writers). It has no global state
but the tables of `dsp/`. The parts where order matters are these.

| Component | State it keeps | Operations | Talks to |
|---|---|---|---|
| Worker thread, `src/utils/thread_utils.c` | `status_`, `had_error`, `data1/2`, mutex, condition | Init, Reset, Sync, Launch, Execute, End; `ThreadLoop` | every threaded part, by shared memory |
| Lossy frame decoding, `src/dec/vp8_dec.c`, `frame_dec.c` | parser position, two buffers of macroblock data and filter strengths, cache of rows, `thread_ctx_`, `status_` | `VP8Decode`: enter, init frame, parse rows, `VP8ProcessRow`, `FinishRow`, exit, clear | worker; user's `VP8Io`; alpha |
| Alpha plane, `src/dec/alpha_dec.c` | `alph_dec_`, rows decoded, `is_alpha_decoded_` | `VP8DecompressAlphaRows` | row pipeline, lossless decoder |
| Incremental decoder, `src/dec/idec_dec.c` | decoding state, memory buffer, pointers of all readers, saved contexts | `WebPIAppend`, `WebPIUpdate`, `WebPIDelete`, getters | application; the decoders above |
| Entry points, headers, `src/dec/webp_dec.c` | none between calls | `WebPDecode*`, `ParseHeaders` | all of the decoder |
| Boolean coder, `src/utils/bit_writer_utils.c`, `bit_reader*_utils.*` | range, value, delayed bytes; range, value, position, `eof_` | put a bit, finish; load, get a bit | lossy encoder; lossy and incremental decoder |
| Lossy syntax, `src/enc/syntax_enc.c`, `tree_enc.c`, `token_enc.c`, `frame_enc.c`; `src/dec/vp8_dec.c`, `tree_dec.c`, `quant_dec.c` | probabilities, contexts of coefficients and of intra modes on both sides | write and parse the frame header, modes, coefficients | boolean coder; row pipeline |
| Lossless decoder, `src/dec/vp8l_dec.c` | bit reader, colour cache, saved copies of both, last rows emitted | header, `DecodeImageData`, row conversion | incremental decoder, alpha |
| Prefix codes, `src/utils/huffman*_utils.c`, parts of `vp8l_enc.c` and `vp8l_dec.c` | code lengths, two-level tables, packed tables | make lengths, store, read, build tables, read a pixel | lossless encoder and decoder |
| Output of rows, `src/dec/io_dec.c`, `src/utils/rescaler_utils.c` | rows kept by the upsampler, two or four rescalers, `last_y` | `CustomSetup/Put/Teardown`, the emit functions | row pipeline, lossless decoder |
| Demuxer, `src/demux/demux.c` | frame list, parse state | parse, iterate | application |
| Animation decoder, `src/demux/anim_decode.c` | two canvases, previous iterator | `GetNext`, `Reset` | demuxer, decoder |
| Animation encoder, `src/mux/anim_encode.c` | array of undecided frames, key-frame candidate, previous canvas and rectangle, timestamps | `WebPAnimEncoderAdd`, `Assemble` | encoder, muxer |
| Muxer, `src/mux/mux*.c` | chunk lists, canvas size | set, push, delete, assemble, create | application; files that the demuxer reads |
| Lossy encoder, `src/enc/webp_enc.c`, `frame_enc.c`, `analysis_enc.c`, `alpha_enc.c` | segments, statistics, token buffer, bit writers, error code | `WebPEncode`: analysis, passes, alpha, writing | workers (half of the analysis, alpha); progress hook |
| Lossless encoder, `src/enc/vp8l_enc.c` | pixels transformed in place, bit writers, best stream so far | `VP8LEncodeImage`, `VP8LEncodeStream` | a worker for half of the configurations |
| `dsp/`, SharpYUV, imageio, tools | tables, none | kernels, conversion, I/O | - |

What is hard, and what makes each part correct:

* **Worker.** Two threads, one mutex, *one* condition variable for both
  directions, and signals sent after the unlock. Correct: a job runs exactly
  once with the arguments it was launched with; after a Sync nothing runs;
  nobody sleeps for ever; `impl_` outlives its users; errors are not forgotten.
* **Row pipeline.** Parser and row job run at the same time on swapped buffers;
  the loop filter delays the last rows of each macroblock row, and delay, crop
  window, cache slots and picture edges meet in index arithmetic. Correct: `put`
  gets the final pixels of the crop window's rows, in order, once; teardown is
  called once, when all is quiet; failures have a status.
* **Incremental decoder.** Any cut of the file into pieces, memory that moves
  under saved pointers, macroblocks tried again. Correct: every pointer used
  again points to the same unit of the file; nothing is parsed twice; a valid
  file is decoded, however it is fed.
* **Lossless decoder.** Data that ends at any symbol sends the decoder back to
  its last check-point, while rows already converted stay converted and the
  colour cache and the alpha filter depend on what came before. Correct: rows
  are given once, whatever was read twice; the cache holds what it would hold
  without an interruption; alpha rows come from the right predecessors.
* **Output of rows.** Upsampler, rescaler and alpha each keep rows back, each by
  a rule of its own, and the cut into bands is arbitrary. Correct: a row below
  `last_y` is finished in all planes; no row is forgotten.
* **Animation decoder.** Work on the previous canvas is skipped when it cannot
  be seen. Correct: the user sees what a decoder without this shortcut shows.
* **Animation encoder.** Decisions are taken late and revoked, over an array
  whose size is computed from the options. Correct: no slot outside the array;
  the timeline is that of the timestamps; every sub-frame finds the canvas it
  was computed against; key frames are at least `kmin`
  frames apart and, as `mux.h` says but the code does not ensure, at most `kmax`.
* **Demuxer and muxer.** A prefix of a file is parsed again and again; what is
  edited, cleaned up and assembled must be readable by the other side. Correct:
  frames given are sound and never taken back; a file that was assembled is
  accepted and holds what the user put in.
* **Headers.** The decoder has a parser of the container of its own, used on
  files, on beginnings of files and on frames that the demuxer hands out.
  Correct: it finds the image and the alpha data the others find; what it said
  of a beginning stays true.
* **Boolean coder.** Bytes 0xff are delayed for a carry that may come; the
  reader looks ahead of the bits it has returned. Correct: bits are read back;
  those read before `eof_` do not depend on bytes that are missing.
* **Lossy syntax.** What a bit means depends on contexts that encoder and decoder
  keep separately, and macroblocks without coefficients are left out of the
  stream by rules of their own. Correct: headers, modes and levels are read back,
  whatever is skipped around them; a segment that rounding makes too rare to
  be coded is not coded as another one.
* **Prefix codes.** The encoder bends its histograms for shorter tokens, limits the
  depth of trees and has four ways to store a code; the decoder finds the size of
  its tables in one pass, fills them in another and reads pixels in three ways.
  Correct: exactly the complete codes are accepted; no table is overrun; every
  symbol that occurs has a code; what is stored is read back, pixel by pixel.
* **Encoder.** Three side threads, passes that start again, aborts and failing
  allocations anywhere. Correct: every call returns, every thread is synced and
  everything released on every way out; a stream written is that of one pass,
  or the smallest of all that were tried.

## 2. Plan

Ordered by how much of the library rests on the part. "Uses" names the abstract
specification a module refines or the modules it is composed with.

| | Module | Status | Uses | Properties |
|---|---|---|---|---|
| 1 | `JobWorker` | done | - | abstract: jobs one at a time, each exactly once |
| 2 | `Worker` | done, safety proved | refines `JobWorker` | exactly once, lost wake-ups, lifetime |
| 3 | `FrameOutput` | done | - | abstract: setup, bands in order, teardown, result |
| 4 | `RowPipeline` | done, safety proved | refines `FrameOutput` and `JobWorker` | final rows, order, disjoint buffers |
| 5 | `IncrementalDecoder` | done, proved | refines `FrameOutput` | pointers, no parsing twice, progress |
| 6 | `AnimEncoder` | done, proved | - | slots, timeline, disposal, key frames |
| 7 | `Compositor`, `AnimDecoder` | done, proved | the second refines the first | same canvases, with shortcuts, failures and Reset |
| 8 | `LosslessDecoder` | done, proved | - | check-points, colour cache, rows once, alpha rows |
| 9 | `Rescaler`, `RowOutput` | done | - | rows counted are right, all rows come out |
| 10 | `Riff`, `Demux`, `Mux`, `Headers`, `Container` | done, proved but for `AssembledIsRead` and `ParsersAgree` (`ContainerInvariants`, `ContainerProofs`) | `Container` composes the others | sound frames, what is assembled is read, three parsers agree |
| 11 | `LossyEncoder`, `LosslessEncoder`, `Encoder` | done, safety proved | `Encoder` composes the others | clean ends, one pass, smallest stream |
| 12 | `BoolCoder`, `LossySyntax`, `LossyStream` | done | `LossyStream` composes the others; `Streams` has it and `PrefixCodes` side by side | bits, headers, modes and levels are read back; what is read of a prefix is final |
| 13 | `HuffmanTable`, `HuffmanCode`, `PrefixCodes` | done | `PrefixCodes` composes the others | tables are filled, pixels read; codes stored and read back |

What would come next: proofs about `RowOutput`, where the rows kept by each plane
must be bounded by `last_y`; and about `Container`, that what is assembled is read
(`AssembledIsRead`), for which the demuxer must be followed over the chunks an object
gives, as the header parser is for `FeaturesRemain`.

## 3. Modules and how they correspond to the code

**`Worker`** (`thread_utils.c`, pthread build). Both program counters are
explicit. One action is what happens between two points where the other thread
can get in: `MainLock`, `MainWait`, `MainAssign`, `MainSignal` are the pieces of
`ChangeState`; `Thread*` and `Execute*` those of `ThreadLoop`; `Reset*`,
`Create*` those of `Reset` with each failing primitive; `Join`, `Destroy` those
of `End`. `status`, `impl`, `hadError` and `data` are the fields; `owner` and
`waiters` are the mutex and the condition. The hook runs with the mutex held, as
in the code. `hadError |= ...` is a read and a write around the hook, because
`Reset` clears the field without the mutex. The owner behaves as the header
demands: it changes `data1/2` only after a Sync. It calls from one thread only.

**`JobWorker`** says what the header promises; `Worker` maps `up` to
`status_ # NOT_OK` and `done` to the jobs whose hook has returned.

**`RowPipeline`** (`VP8Decode`, `ParseFrame`, `VP8ProcessRow`, `FinishRow` and
what they call, up to the row bound `br_mb_y_`). `mpc` is the main thread, `job` the place in `FinishRow`, which
runs inline (`mt_method_ = 0`) or as a job (`mt_method_ = 2`; the value 1 is
never chosen by `VP8GetThreadMethod`). A pixel row is its number and the number
of filter passes done over it, so "the right row, fully filtered" can be said
without pixels; one plane (Y or a chroma one) is observed per behaviour. The
cache is a function from row positions, negative ones being the rows delayed
above slot 0. The geometry (`tl_mb_y`, `br_mb_y`, `y_start`, `y_end`) is
computed as in the code. `VP8SetError` is two steps, a test and a store.

**`FrameOutput`** is the contract of `VP8Io` in `vp8_dec.h`, refined by the two
decoders.

**`IncrementalDecoder`** (`idec_dec.c`). Bytes are positions in the file.
Every pointer is a memory ("cur", "old", "part0") and an index, so that a
pointer left behind by a reallocation, or shifted by a wrong offset, is visible.
`Feed` is the first half of `WebPIAppend`/`WebPIUpdate` up to and including
`DoRemap`; the steps of `IDecode` follow one by one until the call returns. The
row job is one step that may come at any later time, so that what the parser
does meanwhile is interleaved with it. `MaxMbAssumption` says that one
macroblock and the two units by which `start_` lags behind its first token fit
in `MAX_MB_SIZE`; without it a valid file would be rejected, and 4096 bytes are
far above what a macroblock can take. Each token partition has at least one unit,
also one without rows: `VP8BitWriterFinish` pads what it flushes, and a decoder
that waits for the last partition to begin would wait for ever otherwise. `bad` files have a macroblock whose
tokens do not end.

**`AnimEncoder`** (`anim_encode.c`). A call is one action, made of operators
that map the record `enc` (one field per field of `WebPAnimEncoder`, plus
`cached`, the frames from `start_` on) to its next value:
`IncreasePreviousDuration`, `FlushFrames`, `CacheFrame` are the functions of
those names. What depends on encoded sizes (which frame is picked as key frame,
disposal of the previous frame) is chosen freely; `best_delta_` matters only in
that an infinite one is always beaten. Failing calls are actions of their own,
one per step that can fail, and leave what the code leaves. `mux` and `due` are
history: what went to the muxer and what the timestamps asked for.

**`Compositor`** is the contract of `WebPAnimDecoder` in `demux.h`: dispose of
the previous frame, then blend or replace. It has no notion of a key frame.

**`AnimDecoder`** (`anim_decode.c`). `GetNext` is `WebPAnimDecoderGetNext` with
its two canvases, `IsKeyFrame` and the blending of rows in up to two ranges
(`FindBlendRangeAtRow`); it may fail before or after the canvas was changed.
`Reset` is the call. The frame that comes next is any of `Frames`, since the
decoder remembers nothing of a file but `prev_iter`. `Over` is a parameter: the
refinement holds for any blending that leaves what is below a transparent pixel.

**`LosslessDecoder`** (`vp8l_dec.c`, `alpha_dec.c`). A symbol of the stream is
its length in pixels and whether it looks into the colour cache; it is chosen
when it is first read and kept in `replay` as long as it may be read again. One
step is one symbol of `DecodeImageData` or `DecodeAlphaData` with what follows
it there: rows processed, check-point saved, cache filled. `SaveState` and
`RestoreState` are the functions of those names. The user gives more data or
none; alpha rows are asked for in pieces. Alpha planes are raw, or compressed
with 32 or 8 bits per pixel, and unfiltered against the rows the code uses.
`AlphaRowsAreRight` compares with unfiltering the whole plane. `LosslessAssumption` has
check-points no further apart than batches are high (8 and 16 in the code, where nothing
says that the two have to do with each other): see section 6.

**`Rescaler`, `RowOutput`** (`rescaler_utils.c`, `io_dec.c`, and the emit
functions of `vp8l_dec.c`). A rescaled row is the source rows it is made of and
their weights, exactly what `y_accum`, `fy_scale` and the import of rows make of
them. `NextBand` is the decoder's next call of `put`, of any height; the emit
functions run as in the code, luma, then chroma, then alpha. Each row of the
output remembers what it was made of.

**`Riff`** is the grammar of chunks: which kinds there are, and which files
(`File`). **`Demux`** (`demux.c`) parses the bytes
there are from the beginning at each call, one chunk per step, and validates. Each
function of the parser is an operator on what the call may read (`MemBuffer`) and where
the call is (`At`: next step, status, demuxer, frame being read); the actions
`Master`, `Chunk`, `StoreFrame` and `Stored` apply them to the variables, and
`Finish` gives the user what `Given` makes of the end;
`kept` records whether a call contradicted an earlier one. **`Mux`**
(`muxedit.c`, `muxinternal.c`, `muxread.c`) has the object's chunk lists and the
editing calls, `WebPMuxAssemble` with clean-up, flags, canvas and validation,
and `WebPMuxCreate`. **`Container`** composes them: an object is edited and
assembled, the file is received bit by bit, and editing goes on with the object
or with one created from the file. Files from elsewhere, well-formed or not, are
received too. Width stands for height. **`Headers`** is the parser of the
decoder (`webp_dec.c`): `ParseHeadersInternal`, written as a function of a list
of chunks and the number of units that are there, with its callers
`GetFeatures` and `WebPParseHeaders`, and the part of a file that the demuxer's
`GetFramePayload` gives to it. `Container` asks it about every file and every
beginning of a file that the demuxer gets.

**`BoolCoder`** (`bit_writer_utils.c`, `bit_reader_utils.c`,
`bit_reader_inl_utils.h`) has operators on `VP8BitWriter` and `VP8BitReader`,
records with the fields of the structs. The tables `kNorm` and `kNewRange` are
given by what they contain. `VP8GetSigned` shifts by 1 always, as its comment
says, which is right for every range but the initial 254: it is not used for the
first bit, and the code never does. **`LossySyntax`** (`syntax_enc.c`,
`tree_enc.c`, `token_enc.c`, `frame_enc.c` and `vp8_dec.c`, `tree_dec.c`,
`quant_dec.c`) is what each side makes of these bits: the header of a frame, the
segment map, intra modes with their contexts, and the residuals of a macroblock
with theirs. The values of the probability tables are a parameter: both sides
read the same ones. **`LossyStream`** is the state machine. In one scenario a
message is written bit by bit by either function of the writer, finished, and
read by any of the three functions of the reader from its first `end` bytes. In
the other a whole frame is written macroblock by macroblock into partition 0 and
the token partitions, then parsed from them, each partition whole or cut. A
frame's bits are read by `VP8GetBit`; the other two readers are covered by the
first scenario, which shows that all three return the same bits.

**`HuffmanTable`** (`huffman_utils.c`) has tables as functions from places to
entries, made by the two passes of `BuildHuffmanTable`, with `ReadSymbol` of the
decoder and the bits of the encoder. **`HuffmanCode`** (`huffman_encode_utils.c`,
`vp8l_enc.c`, `vp8l_dec.c`) goes from a histogram to a tree of limited depth, to
code lengths, to the tokens that store them and back. **`PrefixCodes`** composes
the two. A code is made of a histogram and stored as bits in the first step;
then `ReadHuffmanCode` reads them, one token per step. Or a group of five tables
is built as `ReadHuffmanCodes` does, and one pixel is read from any next bits as
`DecodeImageData` does: by a packed table, as a literal whose other channels
are trivial, or symbol by symbol.

**`Streams`** puts the two side by side for the run: an image is lossy or lossless
(`DecodeInto`), and the other machine is idle.

**`LossyEncoder`, `LosslessEncoder`, `Encoder`** (`webp_enc.c`, `frame_enc.c`,
`analysis_enc.c`, `alpha_enc.c`, `vp8l_enc.c`). `Encoder` is `WebPEncode`: it
allocates, calls one of the two and reports. In `LossyEncoder` a row of
macroblocks is the unit: analysis on two threads, alpha started before and
joined after the passes, passes repeated while the search or the size of
partition 0 asks for it, statistics reset between them, progress after each
row, and the exits. In `LosslessEncoder` each configuration gets a size; the
two streams share what the code shares, and the side's result is merged after
the Sync. Steps of the side threads are interleaved with the caller's.

## 4. Runs, bounds and what they show

| Run | Question | Bounds, and why they are enough |
|---|---|---|
| `Worker` | all worker properties, liveness, refinement of `JobWorker` | 2 jobs, 2 launches: a launch on an idle worker, one that must wait for a running job, Reset and End with a job in flight. The theorems lift the bounds for safety. |
| `RowPipeline` | rows, order, alpha pieces, status, buffers, teardown, both refinements | without threads a picture of 43 rows (three macroblock rows, the last partial), crop edges on both sides of every multiple of 16 and of every filter delay (2, 8); with a worker 73 rows: five macroblock rows, so that each of three slots is used again. All filters, both planes, failures of parser, alpha and put anywhere |
| `IncrementalDecoder` | pointers, modes, valid files, contract | 3 rows of 2 macroblocks, valid files with 1, 2 or 4 partitions (with 2, one is used twice; with 4, one is used by no row), pieces of 0 to 2 units, chunks of 3 units so that the buffer grows and slides several times; raw, lossless and no alpha; threads or not |
| `LosslessDecoder` | rows once, colour cache, valid streams, alpha rows | width 2, images of 9 rows with batches of 4 and check-points every 2: two batches and one row more; crop windows that begin and end on and beside a batch; references shorter than a row and longer than a batch. Alpha planes of 6 rows in pieces of any height |
| `RowOutput` | rows below `last_y`, all rows come out | heights up to 7 scaled to 1 .. 8, every cut into bands: ratios below, at and above 1, several rows out of one and one out of several; all emit functions, with and without alpha. Safety was also checked once for heights to 11, scaled to 13 |
| `AnimDecoder` | refinement of `Compositor` | 3 x 2 pixels, 3 frames: a key frame in the middle, partial overlap with ranges left and right of it. The theorem lifts the bounds |
| `AnimEncoder` | slots, timeline, disposal, spacing of key frames | durations up to 3 units, one failing call at any step; up to 7 frames since the last key frame: more than one interval of `kmax` 5. Options with 2 and 3 slots: disabled, all key frames, `kmin` too large, zero and raised |
| `Container` | sound frames, nothing taken back, assembled files are read and created again | 2 images or frames, canvases and offsets on both sides of the frame sizes, sizes even and odd; foreign files of up to 3 chunks, of 5 behind the header of a still image with alpha, of 6 in an animation, with a RIFF chunk that ends early or late |
| `Streams` | lossy: bits, headers, modes and levels are read back; what is read of a prefix is final. Lossless: tables are filled, symbols and pixels read; every symbol has a code, codes are read back | Lossy. Bits: all messages of 9 bits at even odds, at the odds 0, 1 and 255, and of 11 bits at odds for which a carry goes through a delayed byte into the one before (with fewer bits there is none); a reader that loads 2 bytes while a word of 3 is left, then single bytes. Frames: neighbours of every kind (left, above, 4x4 and 16x16, skipped or not), levels of every category, all modes in corner contexts, segments with and without a map, one macroblock of another segment among 520, so that the probability of its segment rounds to 255, header fields of every sign and presence; cuts at every byte of the token partitions. Lossless. All lengths of four symbols, and those lengths of six whose code is complete, or one place of the deepest level short of it or beyond it, where 5 is allowed and the root table has 2 bits: second-level tables of every size, codes over-full, open, empty or too long. Groups with four kinds of codes per channel, a sum of lengths on both sides of `HUFFMAN_PACKED_BITS` 6, a green code with symbols behind the literals; all next 7 bits. Histograms joined of up to three pieces, with the constants of the format: runs of zeroes and of counts for each token and longer than one, Fibonacci counts whose tree is first deeper than 15, codes of one and two symbols from 256 on |
| `Encoder` | clean ends, streams of one pass, smallest stream, every call returns | 4 macroblock rows (the split of the analysis gives each thread some), 3 passes, 2 header bits to give up, sizes 1 .. 3: sizes that are equal, smaller and larger |
| `LosslessDecoder_crop` | a disagreement, section 7 | the smallest instance that shows it |
| `AnimEncoder_kmax` | a disagreement, section 7 | `kmin` 3 and `kmax` 5, as `gif2webp` has them for lossy compression; no failing call, up to 7 frames since the last key frame |

Bounds in guards: `MaxLaunch`, `MaxAppend`, `MaxSince`, `MaxDuration`,
`MaxFailures`, `MaxBand`, `MaxImages`, `MaxPass`, `MaxSize`; all others bound the
set of initial states. `MAX_DURATION` is `2^24` in the code and small here, so
that frames overflow it; `SYNC_EVERY_N_ROWS` and `NUM_ARGB_CACHE_ROWS` keep
their proportion. Deadlock is checked in all passing runs; the modules state
where the system may stop (`Terminated`, `Deleted`).

Every property of a passing run has a mutant in `PROJECT.json`: a variant of one
mapped operator, defined next to it under "Variant", with which TLC finds the
property violated.

## 5. Fairness

* `Worker`: weak fairness of each thread's own steps (a thread that can go on
  does, and hooks return), strong fairness of taking the mutex (a mutex that is
  released again and again is not refused to one thread for ever, which pthread
  schedulers provide in practice; with weak fairness only, a thread could starve
  in the re-acquisition of `pthread_cond_wait`). No fairness for the owner's
  calls, nor for spurious wake-ups: `CallsReturn` must not need them.
* `RowPipeline`: weak fairness of both threads: the parser runs on finite data,
  callbacks return.
* `RowOutput`: weak fairness of one action, the next band or the next emitted
  row: the decoder reaches the end of the picture. `AllRowsComeOut` says that
  the rows kept back come out, not that the decoder goes on.
* `Encoder`: weak fairness of the caller and of each of the three side threads:
  a thread that runs is scheduled, and its job, a loop over finite data, ends.
  `EncodeReturns` needs no fairness of aborts or failures.
* `FrameOutput` and `JobWorker`: the fairness that their implementations provide.
* `IncrementalDecoder`, `LosslessDecoder`, `AnimDecoder`, `AnimEncoder`,
  `Container` and `Streams`: safety only. What the next call does is the user's
  choice;
  `ValidFileIsDecoded` and `ValidStreamDecodes` state progress as invariants.

## 6. Proofs

`WorkerProofs`, for every set of jobs and any bound on the launches:

| Theorem | Property |
|---|---|
| `TypeCorrect` | `TypeOK` |
| `ExactlyOnce` | `RunExactlyOnce` |
| `SyncWaits` | `SyncedIsIdle` |
| `WakeupsArrive` | `NoLostWakeup` |
| `ImplOutlivesUse` | `NoUseAfterFree` |
| `ErrorsSurvive` | `NoErrorLost` |
| `Refinement` | `SafeSpec => Abstract!SafeSpec`: the worker implements `JobWorker` |

The inductive invariant `Inv` has, besides those properties,

* `MutexInv`: the mutex is owned exactly where the code is between lock and
  unlock, so that at most one thread tests or changes `status_`;
* `Lifetime`: six phases of the thread (down, create, starts, runs, ends,
  destroyed), each fixing `status`, `impl` and where both program counters can
  be. The properties say nothing about, for instance, a `status_` of NOT_OK while
  the thread still sends its last signal; without the phases `Join` and
  `Destroy` could not be shown to leave nobody behind;
* `HookInv`: while the hook runs, `status_` is WORK, the arguments are those of
  the last launch and failures recorded earlier have been seen.

`InitInv` and `NextInv` show it inductive, one step per action; each theorem
follows from it, `NoUseAfterFree` from `Lifetime`. `NextRefines` shows that
`Created`, `MainAssign` (for Launch and End) and `ExecuteEnd` are the abstract
steps and all others stutter.

`RowPipelineProofs`, for frames of every height, window and filter
(`ConfigsAssumption`):

| Theorem | Property |
|---|---|
| `JobHasItsBuffers` | `BuffersDisjoint` |
| `NoJobAfterTeardown` | `QuietAfterTeardown` |
| `WorkerUsedRight` | `UsesJobWorker` |
| `BandsAreConsecutive` | `BandsInOrder` |
| `RowsGivenAreFinal` | `PutRowsAreFinal` |

`IInv` has the types, `JobPlace` (with threads a job is under way exactly when
`launched` and `done` differ; without, only within the caller's call), `Phases`
(where the caller is when the worker is up, when all is quiet, when output is
closed) and `Swapped`: from the first launch on, the buffers the parser fills
are the other ones than those of `thread_ctx_`. `BuffersDisjoint` only speaks
of moments in which both are used; `Swapped` must hold before, too. `BInv` adds
where each job begins (`YStart`), how far the rows before it went (`Through`)
and what `put` and the alpha decoder have reached (`Reached`), so that the next
band can be shown to begin where the last one ended.

`CInv` adds what the rows of the cache are. `Slots` ties the slot of the parser to
that of the job, `Parsed` the buffers to the row they were filled from, and `Cached`
says at each step of `FinishRow` which rows lie above the slot and in it, and how many
filter passes each of them has had: the delayed rows have all but the last one
until the row below is filtered, and the step `rotate` leaves them above the slot
that comes next. Only rows from `WantedFrom` on are meant, since the filter begins at
`tl_mb_y` and leaves the row at its upper edge without the passes that come from
above. `PutRowsAreFinal` speaks of one moment, the call of `put`; that these rows were
carried from slot to slot is in `Cached`.

`IncrementalDecoderProofs`, for every file, chunk size, macroblock size and
every way of feeding (`FilesAssumption`, `SizesAssumption`):

| Theorem | Property |
|---|---|
| `PointersOnFile` | `PointersTrackFile` |
| `IntraModesOnce` | `ModesParsedOnce` |
| `NoJobBetweenCalls` | `WorkerIdleBetweenCalls` |
| `ValidFileSucceeds` | `ValidFileIsDecoded` |
| `KeepsProtocol` | `ImplementsFrameOutput`: setup, rows, teardown, also when decoding fails or the decoder is deleted |

`IInv` is `Control` (where caller and row job can be), `Window` (`start_` and
`end_` count from `org`, the part of the file that was dropped), `BeforeFrame`
(while headers are read, `start_` is at the payload and nothing else points into
the buffer), `InWindow` and `PointersTrackFile`. The last one alone is not
inductive: a buffer that slides to `start_` keeps a pointer right only if the
pointer is not before `start_`, and that is what `InWindow` says. `OInv` adds
the rows counted, the two exits of the critical section and what the phase of
the output is in each decoding state; from it every step is a step of
`FrameOutput` or stutters. `VInv` adds that every partition has been read up to
what its rows above and the macroblocks of the current row take of it
(`UnitsRead`, so that a reader never stands beyond what the file has), and that
only the file or a refused allocation makes a call fail (`Fine`). The proof showed a
state the model had and the code has not, a last partition of no units.

`AnimDecoderProofs`, for every canvas size, every set of frames and every
blending in which a transparent pixel changes nothing (`FrameAssumption`,
`PixelAssumption`):

| Theorem | Property |
|---|---|
| `ShowsCanvas` | `ImplementsCompositor` |
| `KeepsDisposedCanvas` | the canvas kept is the one shown, with the last frame disposed of |

Its `IInv` says, besides shapes, that the canvas kept is the one the user got,
with the previous frame disposed of (`PrevKept`), and that around a previous key
frame there is nothing (`NothingAround`): the reason why a frame that covers a
disposed key frame may start from an empty canvas.

`AnimEncoderProofs`, for all options (`OptionsAssumption`: `kmin` and `kmax` are
integers), any frames and durations, any choice of encodings and any failing calls:

| Theorem | Property |
|---|---|
| `KeyFramesAreSpaced` | `KeyFrameSpacing`, whether calls fail or not |
| `SlotsAlwaysSuffice` | `SlotsSuffice` |
| `TimelineIsKept` | `TimelineKept` |
| `SubFramesFit` | `DisposalAsAssumed` |

Four invariants, each resting on the first:

* `KeyFrames`: the types (`Base`), and from the first frame on an account of the current
  interval (`Interval`): how far back the last key frame of the output is, counting the
  cached frames that are not fillers, and where the candidate can be. The
  distances in `mux` are history; the invariant says how long the interval that
  is still open may become. The theorem is about `kmin`, the case in which all
  frames are to be key frames, and the candidate. The invariant also has a bound
  from above, `2 * kmax - kmin - 1`, which the count needs to be bounded at all; it is the
  code's own and larger than `kmax` (`AnimEncoder_kmax`, section 7).
* `Slots`: between calls all frames that can go are gone, and those left are
  at most `count_since_key_frame_ - kmin` once a candidate is possible, one before
  (`Fit`). The assertion in `GetFrame` is about the middle of a call; what is left at
  its end is the room the next call has, fillers included.
* `Times`: what was asked for is what the cached frames show, and none lasts longer
  than the container can say. Within a call (`Timed`) the frames pushed are counted too.
* `Matches`: neighbours fit each other, the last frame and the candidate clear
  nothing yet, and `prev_rect_` is the rectangle of the last frame as chosen, which is
  not the candidate once the call has decided. `DisposalAsAssumed` is about frames side by
  side and not about what may still change: a candidate that is given up falls back on
  its other encoding, with another rectangle, after its successor was encoded. That
  does no harm only because neither encoding is disposed of.

A call is made of operators, so each of them has a lemma saying what it keeps of
the four. Pushing and showing are folds over sequences. `Induction`, the principle of
induction for a set given by its members, follows from the pigeonhole principle
of `FiniteSetTheorems`; with it the recursive functions behind the folds are shown to exist
(`FoldExists`, `FlattenExists`), and the folds unfold by equations.

`EncoderProofs`, for pictures of any number of rows, any number of passes and any
sizes of streams (`BoundsAssumption`):

| Theorem | Property |
|---|---|
| `TypesAreKept` | the types of both branches, error codes and results |
| `BothEndCleanly` | `EndsCleanly` |
| `SmallestIsReturned` | `StreamIsBest` |
| `OnePassIsWritten` | `StreamIsOfOnePass` |

`IInv` has an invariant per branch. The lossy one says which rows each analysis job
has seen (`AnalysisInv`), what is allocated at each label (`MemoryInv`), which causes an
error code may have (`ReasonInv`: the two ignored aborts are the only ones that let
encoding go on), and that rows, tokens and statistics of the pass going on agree
(`LoopInv`). The lossless one says what each job has tried, what its writers hold, and
that the smaller of their sizes is the smallest (`ThreadsInv`), with the memory held
(`HeldInv`). `StreamIsBest` only speaks of the end; the pixels are transformed in place, so
the proof needs that no two configurations that may start from near-lossless
pixels follow each other (`Alternating`): otherwise the second would take
transformed pixels for fresh ones.

`LosslessDecoderProofs`, for images and alpha planes of any size, crop window, filter and
set of transforms, any lengths of references, and any two numbers of rows for batches and
check-points that `LosslessAssumption` allows:

| Theorem | Property |
|---|---|
| `RowsAreGivenOnce` | `RowsOnce` |
| `CacheStaysCurrent` | `CacheIsCurrent` |
| `ValidStreamsDecode` | `ValidStreamDecodes` |
| `AlphaRowsAreDecoded` | `AlphaRowsAreRight`, but for an indexed alpha plane with a horizontal filter that is cropped at the top (`CroppedPalette`): there the code is wrong, finding 1 of section 7 |

The invariant `LInv` is one conjunction for the four actors:

* `Images`: the output has the rows of the window above `last_row_` (`Lined`), and there are
  positions of all symbols that are kept, from the check-point to the furthest one ever
  read (`Reaches`). `last_row_` is the last end of a batch before the furthest position, and
  between the position now and the furthest one no other batch ends. Both are needed: a
  suspension goes back to the check-point but leaves `last_row_` and the output, so that
  the symbols in `replay` meet the end of the batch again, and `ProcessRows` does nothing
  only if `last_row_` is exactly that row. Were there two such rows on the way, it
  would set `last_row_` back and give the second batch again. That there are not follows from
  `SYNC_EVERY_N_ROWS <= NUM_ARGB_CACHE_ROWS`, which the proof attempt brought out: without it
  the property is false, and no assertion in the code says so.
* `ColourCache`: between calls the cache has the pixels before the position. In a call it
  has those before `last_cached`, which may lag behind within a row, but not where a
  check-point is due: rows end there, and every row end inserts. So what `SaveState` copies is
  complete.
* `Planes`: rows an alpha plane has given are decoded; those above `last_row_` are right
  and, if there is a filter, `prev_line_` is the last of them (`Clean`). A filter needs all
  rows from the first on, not only those of the window: `Clean` without that is not inductive.

`ValidStreamDecodes` has a small invariant of its own: until the header is read no transform
counts as seen. The loop over the rows a symbol completes is a recursive function;
`LoopExists` and `LoopInSteps` unfold it, again by the pigeonhole principle.

`ContainerProofs`, for files of any chunks, assembled from any object or from elsewhere,
cut anywhere (`SizeAssumption`: the sizes of headers are positive numbers, and those of a
chunk and of an ANMF chunk, 8 and 16, are even, as the padding of chunks supposes;
`ContainerAssumption`: what objects are made of are chunks, an image's header is all there
and it has at most one alpha chunk, as `MuxImageFinalize` demands; and `WebPMuxSetChunk` is
not given chunks that images are made of, which it refuses with `IsWPI`):

| Theorem | Property |
|---|---|
| `FramesAreSoundAlways` | `FramesAreSound` |
| `WhatWasGivenAlwaysRemains` | `WhatWasGivenRemains` |
| `FeaturesAlwaysRemain` | `FeaturesRemain` |
| `AssembledAlwaysIsRecreated` | `AssembledIsRecreated` |

The invariants and what they are made of are defined in `ContainerInvariants`, the
proofs are in `ContainerProofs`.

`FramesAreSound` speaks of what a call gives; the invariant, `ContainerInv`, of a call half
way, and of the mux object, too:

* `ParserInv` says for each step of the parser where it stands and what it has.
  `start_` is where a chunk starts or the file ends (`Boundary`); the frames stored so
  far are sound and lie before it (`Sound`); the frame that `StoreFrame` is reading has its
  number, is placed between its beginning and `start_`, and, in an animation, behind the
  header of the ANMF chunk that has its offset (`Reading`); what may still fail is left
  to validation at the end (`Final`). `IsValidExtendedFormat` compares only the order of
  alpha and image, the numbering and the bounds of the canvas. That data lie in order, inside
  the file and inside their ANMF chunk is nowhere tested: it follows from the
  way the parser goes, except for one test (`Overrun`), without which the
  property is false.
* Validation does not compare a frame without a width, of which only the alpha data
  have arrived, with the canvas; `Sound` says that such a frame has no offset either.
* Files of the object's own are `File`s, because the object is typed
  (`MuxObject`): every edit, `WebPMuxAssemble` and `WebPMuxCreate` keep its
  types (`EditIsTyped`, `AssembledIsTyped`, `MuxCreateIsTyped`). In particular a VP8X chunk
  has a positive width, because a canvas of no width is replaced by what the images
  need, and there is at least one (`CanvasHasWidth`).

Where chunks lie is a fold over their sizes. `FoldExists` and `FoldInSteps` show, by
`Induction`, that the four folds of the model unfold, and `ChunksFollow` and `ChunkIsAt`
that each chunk starts where the one before ended and is the one found there. The proof
brought out an ambiguity of the model, now removed: in the loop of `WebPMuxCreateInternal` a
tag of an image is of no known list either, and two guards of one CASE held.

`WhatWasGivenRemains` relates two calls, over different amounts of a file, and each
parses from the beginning. The proof follows both:

* `Step` is the parser's step as a function of what is in memory, and `Leads` says that
  steps lead from one state to another. `StepIsSame`: a step that does not end for
  want of data is the same when there is more. So two calls go side by side
  (`Abreast`) until the one with less stops (`Diverged`), and from then on the one with
  more is ahead of it (`Ahead`).
* `View` is what would be seen if the parser stopped where it is: with the frame it is
  reading, if `StoreFrame` would keep that. A step only adds to the view in the
  sense of `Grows`: canvas, features, chunks and complete frames stay as they are. This needs
  `PathInv`: in an animation a frame is only read when its ANMF chunk is there as a whole,
  and alpha comes before the image. Where an ALPH chunk follows an image, the
  code gives a complete frame and then takes its alpha away, hence the
  condition `AlphaAfterImage` of the property.
* A call that stops gives what it has only if validation passes. Nothing that validation
  refuses is ever repaired (`Doomed`, which `EndsWell` excludes for the call on the
  whole file), so what it would refuse now it would refuse in the end: `DivergedIsGiven`
  compares what the call has with the end of the call on the whole file.
* The state's invariant, `RemainInv`, says that what the user has is the `Result` of the
  size before, that a call going on is on its path (`Leads`), and that for a file which
  is accepted in the end (`IsFine`) all that was given is `kept`.

`FeaturesRemain` speaks of the files that `WebPMuxAssemble` writes, and is false of others.
Part of the invariant `RecreateInv`, see below, is that such a file is that of an object
which passed `MuxValidate` (`Written`); `OwnFileIsWritten` that it then is one of three kinds (`OwnFile`):

* an image alone, with nothing before it (`SingleFile`): the header of the image says all, so
  the answer is fixed when its `need` bytes are there;
* an animation (`AnimationFile`): the VP8X chunk is first and says all;
* an image behind a VP8X chunk (`StillFile`): the answer is fixed with the VP8X chunk,
  before the image has arrived, and must be the same when it has.

In the last lies the work. The width that WebPGetFeatures takes from the canvas
before is that of the image, because `MuxValidate` refuses another (`StillHasImage`); and
the alpha flag is what alpha data or a lossless image will say, for which every
chunk between the two has to be followed: `StandsAt` says what stands before the image, in
the order of `WebPMuxAssemble`, and `StopsAtImage` that the loop of `ParseOptionalChunks` stops
there and nowhere else, and sees alpha data only if the canvas has the flag. `Says` is the
answer as a function of the number of bytes, with one threshold for each kind; `SaysTheSame`
compares two of them. That the last byte of the file is beyond every threshold needs that
an image's header lies inside its chunk.

That is the reason why the objects had to be typed more closely (`WholeImage`, `Lists`),
and to do so the proof found two places where `Mux` was not the code's:
`MuxImageFinalize` compares what the header needs with the size of the data, not with the
padded one; and a read that fails is left at once (`goto Err`), while the model went on and
put away a frame that had no image. Neither showed in a run. Both are corrected.

`AssembledIsRecreated` is a round trip, `WebPMuxAssemble`, `WebPMuxCreate`,
`WebPMuxAssemble`, for objects of any number of images and chunks:

* `Takes` says that the loop of `WebPMuxCreateInternal`, idle with some object, is
  idle again with another after some chunks, wherever it stands; it composes
  (`TakesBoth`). `TakesList` takes a list of chunks, `TakesImages` any
  number of images. `StillIsBody` and `FrameIsBody` follow the loop over one
  image, as `InImage` says where it is: in no frame or in one that ends at a known
  place, and with which parts of the image. The loop closes a frame where its position
  reaches the end of the ANMF chunk. That the chunks of a frame end just there needs
  `BodySizeIsEven`: `MuxImageEmit` adds padded sizes, and the reader pads the sum once more,
  which changes nothing only because sizes on disk are even.
* An image must be `Regular`: no unknown chunks, at most one header and one ALPH chunk, the
  header of the size of its own fields. Every call keeps that (`EditKeepsRegular`,
  `AssembledIsRegular`, `CreatedIsRegular`); the header's size, which covers the whole
  frame in the file, is set back when it is read.
* The object that is read is not the one that was written: it has the width of the canvas of
  the file where the other may have had none (`Recreated`). The second file is the same
  only if the clean-up does not take that width for a reason to turn a
  single frame into an image. So the invariant, `RecreateInv`, says that the
  file is one of an object that has been cleaned up (`Kept`): if it has a
  single frame, then a canvas was set, and it is not the frame's width. Without that the
  property does not follow from `Written`.

In the model a frame is reset when a call begins, as the frame of `StoreFrame`'s caller is a
variable of that call; `Result` can thus be said without the calls before.

The only assumptions are those named above, on constants; TLC evaluates each of
them in the module's run.

Model-checked only: liveness and the fairness part of refinements (`CallsReturn`,
`ImplementsJobWorker` and `RowPipeline.ImplementsFrameOutput` with their fairness,
`AllRowsComeOut`, `EncodeReturns`), which with ENABLED are out of the prover's
reach; and the properties of `RowOutput`, `LossyStream` and `PrefixCodes` and the
others of `Container`. What `LossySyntax` computes is written with RECURSIVE
operators, about which the prover can say nothing; `PrefixCodes`, `Mux` and `Headers`
compute a whole table, code or file in a step, so that `TablesAreRight`, `AssembledIsRead`
and `ParsersAgree` are about what a
function returns for every input rather than about steps. `RowOutput` is the next in the
plan.

Proved for every value of the constants and therefore not repeated as properties
of a run: `TypeOK`, `RunExactlyOnce`, `SyncedIsIdle` and `NoErrorLost` of `Worker`
and `QuietAfterTeardown` of `RowPipeline`.

## 7. Findings

1. **Alpha with a horizontal filter, cropped** (`LosslessDecoder_crop`).
   `ExtractPalettedAlphaRows` skips the rows above the crop window unless the
   filter is vertical or gradient; the horizontal filter also predicts the first
   pixel of a row from the row above, so that all values of the window are
   wrong. The library, given such a picture with a window below the first row,
   returns other alpha values than without a window.

2. **Key frames further apart than `kmax`** (`AnimEncoder_kmax`). `mux.h:429-430` calls
   `kmin` and `kmax` the "minimum and maximum distance between consecutive key frames
   in the output", and so does the manual of `gif2webp`. At the end of an interval,
   when `count_since_key_frame_` has reached `kmax`, the code counts from there again
   (`anim_encode.c:1261`) and not from the key frame it has picked, which came up to
   `kmax - kmin - 1` frames earlier; the next one may be `kmax` frames after that end.
   With `kmin` 3 and `kmax` 5 the run finds two key frames 6 frames apart.

Other observations, not stated as runs.

Decoders:
* `VP8SetError` tests and stores without a lock from two threads, so that the
  oldest error (`vp8_dec.c:89`) need not win.
* With threads, a failure of the last row jobs is seen only by the final Sync
  (`vp8_dec.c:665`), which sets no status.
* `ParseIntraMode` leaves `block->skip_` unassigned when `use_skip_proba_` is 0;
  `VP8DecodeMB` does not look at it then.
* The first `WebPIAppend`, if empty, reaches `assert(mem->buf_ != NULL)`
  (`idec_dec.c:197`).
* `FinishDecoding` sets `STATE_DONE` before the flip of the output, which may
  still fail; an error of the alpha plane is reported as `USER_ABORT` by the
  threaded incremental decoder; a corrupted macroblock at the very end of a file
  with several partitions keeps it suspended (`idec_dec.c:473`).
* The comment above `VP8InitFrame`'s cache (`frame_dec.c:615-637`) describes a
  concurrency of filtering and output that the code no longer has.
* `Reset` clears `had_error` without the mutex (the model has it, `NoErrorLost`
  survives it); `thread_utils.h:45` calls `had_error` the return value of the
  last hook, while `Execute` accumulates.
* Blending over a transparent pixel is the identity only up to the rounding of
  `BlendPixelNonPremult`.

Animation encoder:
* A call that failed after the duration was added adds it again when it is
  retried (`anim_encode.c:1356`, `mux.h:485`).
* A push that fails while the array is full leaves it full: the room that the test
  `count_ == size_` was to make is not made, and the next call goes past the end.
  `SlotsSuffice` shows that the test is enough as long as no call has failed; it says
  nothing of what comes after a failure.
* After a failing key-frame encoding `prev_rect_` is that of a dropped frame.

Demuxer and muxer:
* `ParseVP8XChunks` overwrites PARSE_ERROR when less than a chunk header is left
  (`demux.c:530`); an ALPH chunk behind the image of a file without the ALPHA
  flag clears `has_alpha` (`demux.c:419`); `AddFrame` tests a list tail that is
  always empty; a partial single image in an extended file has `num_frames` 1
  and `frame_num` 0.
* `WebPMuxAssemble` does not compare the offset of a single frame with the canvas
  that was set, and the demuxer refuses the file.
* `WebPMuxCreateInternal` compares a `riff_size` that already includes the RIFF
  header (`muxread.c:222-228`), so that bytes behind the file make it fail.
* Setting a second unknown chunk with `WebPMuxSetChunk` fails with NOT_FOUND and
  the first is lost. Assembling one full-canvas frame drops its ANMF header, so
  that a later `WebPMuxPushFrame` fails.
* `MuxValidate` accepts an animation one image of which is in no frame; unknown
  chunks of a lone frame are written to a file without VP8X. For these two
  reasons the model edits objects built by calls only.
* The demuxer drops an ALPH chunk when the ALPHA flag is not set, the decoder uses
  it (`ParsersAgree` is about flagged files); a simple file whose RIFF chunk is
  longer than the file is complete for the demuxer and short of data for
  `WebPDecode` (`webp_dec.c:74`). A frame with an ALPH chunk behind its image is the exception of
  `FramesAreDecodable`.

Encoder:
* An abort asked for by the progress hook within `StatLoop` (`frame_enc.c:756`) or
  after `ResetAllMBInfo` (`analysis_enc.c:364`) is ignored: `WebPEncode` returns 1
  with `error_code` USER_ABORT and writes the whole file, although `encode.h:261`
  says that the hook can return false to request an abort. The library does the
  same as the model.
* `VP8RecordCoeffTokens` (`token_enc.c:168`, `:174`) counts `s + 9` where it codes
  with `base_id + 10`: the probabilities of categories 5 and 6 are estimated from
  the wrong counts, which costs bits only.
* `WebPEncodingSetError` tests and stores without a lock while the alpha thread
  runs (`webp_enc.c:310`); after a failure `StoreStats` reads
  `stats->coded_size` while the alpha job may write it; progress is not
  monotone over passes.

## 8. What is left out

* Quantization, mode decision, histograms, backward references, filters,
  transforms and colour conversion, and of the lossy syntax the values of the
  probability tables, the meaning of quantizers and levels, and the non-zero codes
  kept for reconstruction: pure arithmetic or heuristics, without an order of calls. They enter the models as
  free choices (a size, a failure, a number of symbols). The SIMD variants in
  `dsp/` and the generated wrappers in `swig/` are much of the source's lines and
  have no state; that is why the map covers a small share of them.
* Picture utilities, SharpYUV: arithmetic, sequential.
* Dithering of lossy rows, the horizontal direction of the rescaler, the
  RGBA4444 emit functions: they do not change which rows are moved when.
* The Windows emulation of condition variables, `WebPSetWorkerInterface`.
* `OptimizeSingleFrame` of the animation encoder; the flip and copy at the end of
  incremental decoding; the memory segments of prefix tables; getters and iterators; limits on sizes and failing
  allocations of muxer, demuxer and lossless decoder.
* Image readers and writers, command-line tools, bindings, fuzzers, build files.
