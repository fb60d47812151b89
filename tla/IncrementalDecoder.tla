------------------------- MODULE IncrementalDecoder -------------------------
(***************************************************************************)
(* WebPIDecoder (src/dec/idec_dec.c): the user feeds a file in pieces, with *)
(* WebPIAppend (the decoder owns a growing, sliding buffer) or WebPIUpdate  *)
(* (the user owns a buffer that may move), and the decoder goes as far as   *)
(* the data allows.  Readers keep pointers into the buffer from one call to *)
(* the next, and row jobs run in a worker (JobWorker.tla) meanwhile.        *)
(*                                                                         *)
(* Bytes are abstracted to positions of the file: sizes are in units, and   *)
(* the buffer holds the units org, org+1, ... of the file.  A pointer says  *)
(* which memory it points into and at which index: "cur" is mem->buf_,      *)
(* "old" a buffer mem->buf_ pointed to before, "part0" the copy of          *)
(* partition #0.                                                            *)
(***************************************************************************)
EXTENDS Integers, FiniteSets

CONSTANTS
  Files,               \* the files to decode, see IsFile
  ChunkSize,           \* CHUNK_SIZE: allocations are multiples of it
  MbSize,              \* units a macroblock takes of its partition
  MaxMbSize,           \* MAX_MB_SIZE
  MaxAppend            \* bound: units in one call of WebPIAppend

\* A file: compression, alpha chunk, threads (all chosen before decoding),
\* units before the VP8/VP8L payload, macroblock rows and columns, partitions,
\* and whether the tokens of its first macroblock are corrupted.
IsFile(f) ==
  /\ f.lossless \in BOOLEAN /\ f.mt \in BOOLEAN /\ f.bad \in BOOLEAN
  /\ f.alpha \in {"none", "raw", "lossless"}
  /\ f.payload \in Nat \ (0 .. 2)
  /\ f.rows \in Nat \ {0} /\ f.width \in Nat \ {0}
  /\ f.parts \in {1, 2, 4, 8}

ASSUME FilesAssumption == \A f \in Files : IsFile(f)
ASSUME SizesAssumption ==
  /\ ChunkSize \in Nat \ {0} /\ MaxAppend \in Nat \ {0}
  /\ MbSize \in Nat \ {0} /\ MaxMbSize \in Nat

\* When the first macroblock is decoded start_ is still before the token data,
\* by the frame header and what VP8GetHeaders read of partition #0: two units.
ASSUME MaxMbAssumption == MbSize + 2 <= MaxMbSize

VARIABLES
  file,                \* the file; never changes
  pc, ret,             \* where the caller is; status the last call returned
  state,               \* idec->state_
  mode, start, end,    \* mem_.mode_, start_, end_
  cap, org, fed,       \* mem_.buf_size_; history: file position of buf_[0] and
                       \* of the first unit not fed yet
  io,                  \* io_.data and data_size
  alpha, alphaBr,      \* dec->alpha_data_; the reader of its lossless stream
  alphaDone,           \* dec->is_alpha_decoded_
  br, parts,           \* dec->br_ and dec->parts_ (i: buf_, e: buf_end_)
  mb_y, mb_x,          \* the macroblock to decode next
  last_mb_y,           \* idec->last_mb_y_
  modes, readTo,       \* history: rows of intra modes parsed; file position
                       \* each partition has really been decoded up to
  job, hadError,       \* the row FinishRow works on (-1: idle); its errors
  phase, rows,         \* callbacks made, macroblock rows emitted
  injected             \* history: the file or the system failed the decoder

api    == <<pc, ret>>
mem    == <<mode, start, end, cap, org, fed>>
alphas == <<alpha, alphaBr, alphaDone>>
tokens == <<parts, readTo, mb_x>>
intra  == <<br, last_mb_y, modes>>
worker == <<job, hadError, rows>>
vars == <<file, api, state, mem, io, alphas, tokens, intra, mb_y, worker,
          phase, injected>>

-----------------------------------------------------------------------------
(* The file, in units: payload units with the alpha data from unit 1 on; for *)
(* a lossy file the frame header, partition #0 (one unit of header and one   *)
(* per row), the sizes of the other partitions but the last, the partitions, *)
(* each ending with a unit of padding, also when it codes no row at all.     *)

AlphaAt     == 1
last_part   == file.parts - 1                 \* num_parts_minus_one_
PartOf(y)   == y % file.parts                 \* mb_y_ & num_parts_minus_one_
Partitions  == 0 .. last_part
Part0Size   == 2 + file.rows                  \* part0_size_
PartsAt     == file.payload + Part0Size + last_part
PartAt(p)   == PartsAt + p + file.width * MbSize
                 * Cardinality({ y \in 0 .. file.rows - 1 : PartOf(y) < p })
Total       == IF file.lossless THEN file.payload + 3 ELSE PartAt(file.parts)

Ptr(i)      == [at |-> "cur", i |-> i]
NoPtr       == [at |-> "none", i |-> 0]
Reader(i,e) == [at |-> "cur", i |-> i, e |-> e]
NoReader    == [at |-> "none", i |-> 0, e |-> 0]

MemDataSize == end - start
Idle        == job = -1                       \* what Sync waits for

\* is_lossless_ and alpha_data_ are known once the headers are parsed.
NeedCompressedAlpha ==
  /\ state # "WEBP_HEADER" /\ ~ file.lossless
  /\ alpha # NoPtr /\ ~ alphaDone

Init ==
  /\ file \in Files
  /\ pc = "idle" /\ ret = "SUSPENDED" /\ state = "WEBP_HEADER"
  /\ mode = "NONE" /\ start = 0 /\ end = 0 /\ cap = 0 /\ org = 0 /\ fed = 0
  /\ io = [at |-> "none", i |-> 0, size |-> 0]
  /\ alpha = NoPtr /\ alphaBr = NoPtr /\ alphaDone = FALSE
  /\ br = NoPtr /\ parts = [p \in Partitions |-> NoReader]
  /\ mb_y = 0 /\ mb_x = 0 /\ last_mb_y = -1
  /\ modes = 0 /\ readTo = [p \in Partitions |-> 0]
  /\ job = -1 /\ hadError = FALSE
  /\ phase = "new" /\ rows = 0 /\ injected = FALSE

-----------------------------------------------------------------------------
(* WebPIAppend, WebPIUpdate.                                                *)

\* A pointer when mem->buf_ moves, and after DoRemap has shifted it.
Stale(q)    == IF q.at = "cur" THEN [at |-> "old", i |-> q.i] ELSE q
Shift(q, d) == IF q.at = "cur" THEN Ptr(q.i + d) ELSE q

\* Variant: only the last partition is remapped.
RemapLastPart(p, moved, d) ==
  LET r == parts[p] IN
  IF r.at # "cur" THEN r
  ELSE IF p = last_part THEN Reader(r.i + d, end')
  ELSE IF moved THEN [r EXCEPT !.at = "old"] ELSE r

\* VP8RemapBitReader on one partition.  The last one, the only one that can be
\* incomplete, is extended.
RemapPart(p, moved, d) ==
  LET r == parts[p] IN
  IF r.at # "cur" THEN r
  ELSE Reader(r.i + d, IF p = last_part THEN end' ELSE r.e + d)

\* The readers of a lossy file.  Partition #0 is a copy unless the mode is MAP.
RemapTokens(moved, d) ==
  /\ br' = IF mode' = "MAP" THEN Shift(br, d)
           ELSE IF moved THEN Stale(br) ELSE br
  /\ parts' = [p \in Partitions |-> RemapPart(p, moved, d)]

\* The alpha data and its reader, if they are still needed.
RemapAlpha(moved, d) ==
  IF NeedCompressedAlpha
  THEN /\ alpha' = Shift(alpha, d)
       /\ alphaBr' = IF alphaBr = NoPtr THEN NoPtr ELSE Ptr(alpha'.i + 1)
  ELSE /\ alpha' = IF moved THEN Stale(alpha) ELSE alpha
       /\ alphaBr' = IF moved THEN Stale(alphaBr) ELSE alphaBr

\* DoRemap: d is the shift of indices, moved tells whether buf_ is new memory.
\* Before the headers are parsed there is no decoder to remap.
DoRemap(moved, d) ==
  /\ io' = [at |-> "cur", i |-> start', size |-> end' - start']
  /\ \/ /\ state = "WEBP_HEADER"
        /\ UNCHANGED <<br, parts, alpha, alphaBr>>
     \/ /\ state # "WEBP_HEADER" /\ file.lossless
        /\ br' = Ptr(start') /\ UNCHANGED <<parts, alpha, alphaBr>>
     \/ /\ state # "WEBP_HEADER" /\ ~ file.lossless
        /\ RemapTokens(moved, d) /\ RemapAlpha(moved, d)

\* IDecCheckStatus lets the call through, and the mode is right.
MayFeed(m) ==
  /\ pc = "idle" /\ state \notin {"DONE", "ERROR"}
  /\ mode \in {"NONE", m}

\* The index of old_base: what a new buffer starts with.
OldBase == IF NeedCompressedAlpha THEN alpha.i ELSE start

\* extra_size: allocations are multiples of CHUNK_SIZE.
RoundUp(n) == ((n + ChunkSize - 1) \div ChunkSize) * ChunkSize

\* There is room for n more units in the buffer.
AppendInPlace(n) ==
  /\ MayFeed("APPEND") /\ fed + n <= Total
  /\ end + n <= cap
  /\ mode' = "APPEND"
  /\ end' = end + n /\ fed' = fed + n
  /\ UNCHANGED <<start, cap, org>>
  /\ DoRemap(FALSE, 0)
  /\ pc' = "decode"
  /\ UNCHANGED <<file, ret, state, alphaDone, readTo, mb_x, last_mb_y, modes,
                 mb_y, worker, phase, injected>>

\* A new buffer is allocated, and slid to what is still needed.
AppendRealloc(n) ==
  /\ MayFeed("APPEND") /\ fed + n <= Total
  /\ end + n > cap
  /\ mode' = "APPEND"
  /\ start' = start - OldBase
  /\ end' = (end - OldBase) + n
  /\ cap' = RoundUp(end')
  /\ org' = org + OldBase
  /\ fed' = fed + n
  /\ DoRemap(TRUE, start' - start)
  /\ pc' = "decode"
  /\ UNCHANGED <<file, ret, state, alphaDone, readTo, mb_x, last_mb_y, modes,
                 mb_y, worker, phase, injected>>

\* The allocation fails: nothing but the mode is changed, so that the same
\* data can be appended again.
AppendNoMemory(n) ==
  /\ MayFeed("APPEND") /\ fed + n <= Total
  /\ end + n > cap
  /\ mode' = "APPEND" /\ ret' = "OUT_OF_MEMORY"
  /\ UNCHANGED <<file, pc, state, start, end, cap, org, fed, io, alphas,
                 tokens, intra, mb_y, worker, phase, injected>>

\* The user's buffer holds the first n units, at a new address or not.
Update(n, moved) ==
  /\ MayFeed("MAP") /\ n <= Total
  /\ mode' = "MAP"
  /\ IF n < cap
       THEN /\ ret' = "INVALID_PARAM"
            /\ UNCHANGED <<pc, start, end, cap, fed, io, alpha, alphaBr, br,
                           parts>>
       ELSE /\ end' = n /\ cap' = n /\ fed' = n
            /\ UNCHANGED <<start, ret>>
            /\ DoRemap(moved, 0)
            /\ pc' = "decode"
  /\ UNCHANGED <<file, org, state, alphaDone, readTo, mb_x, last_mb_y, modes,
                 mb_y, worker, phase, injected>>

Feed ==
  \/ \E n \in 0 .. MaxAppend :
       AppendInPlace(n) \/ AppendRealloc(n) \/ AppendNoMemory(n)
  \/ \E n \in 1 .. Total, moved \in BOOLEAN : Update(n, moved)

-----------------------------------------------------------------------------
(* IDecode: one step per thing the decoder does.                            *)

Return(status) == pc' = "idle" /\ ret' = status

\* IDecError(e).  A frame that is being decoded is left by VP8ExitCritical.
Fail(e) ==
  IF state = "VP8_DATA"
  THEN pc' = "exit" /\ ret' = e /\ UNCHANGED state
  ELSE state' = "ERROR" /\ Return(e)

Decoding(s) == pc = "decode" /\ state = s

\* Not enough data for the headers, frame header, partition #0 or lossless
\* image header.
Suspended ==
  /\ pc = "decode"
  /\ \/ state = "WEBP_HEADER" /\ MemDataSize < file.payload
     \/ state = "VP8_HEADER" /\ MemDataSize < 1
     \/ /\ state = "VP8_PARTS0"
        /\ MemDataSize < PartAt(last_part) + 1 - file.payload
     \/ /\ state \in {"VP8L_HEADER", "VP8L_DATA"}
        /\ MemDataSize < Total - file.payload
  /\ Return("SUSPENDED")
  /\ UNCHANGED <<file, state, mem, io, alphas, tokens, intra, mb_y, worker,
                 phase, injected>>

\* A corrupted file, found by any of the functions IDecode calls, or memory
\* that cannot be allocated; setup() failing is one of these.
HeaderFails ==
  /\ pc = "decode"
  /\ state \in {"WEBP_HEADER", "VP8_HEADER", "VP8_PARTS0", "VP8L_HEADER",
                "VP8L_DATA"}
  /\ Fail("BITSTREAM_ERROR")
  /\ injected' = TRUE
  /\ UNCHANGED <<file, mem, io, alphas, tokens, intra, mb_y, worker, phase>>

\* VP8New or VP8LNew fails: the state stays, the next call tries again.
NewDecoderFails ==
  /\ Decoding("WEBP_HEADER") /\ MemDataSize >= file.payload
  /\ Return("OUT_OF_MEMORY")
  /\ UNCHANGED <<file, state, mem, io, alphas, tokens, intra, mb_y, worker,
                 phase, injected>>

DecodeWebPHeaders ==
  /\ Decoding("WEBP_HEADER") /\ MemDataSize >= file.payload
  /\ state' = IF file.lossless THEN "VP8L_HEADER" ELSE "VP8_HEADER"
  /\ alpha' = IF file.lossless \/ file.alpha = "none" THEN NoPtr
              ELSE Ptr(start + AlphaAt)
  /\ start' = start + file.payload
  /\ io' = [at |-> "cur", i |-> start', size |-> end - start']
  /\ UNCHANGED <<file, api, mode, end, cap, org, fed, alphaBr, alphaDone,
                 tokens, intra, mb_y, worker, phase, injected>>

DecodeVP8FrameHeader ==
  /\ Decoding("VP8_HEADER") /\ MemDataSize >= 1
  /\ io' = [at |-> "cur", i |-> start, size |-> MemDataSize]
  /\ state' = "VP8_PARTS0"
  /\ UNCHANGED <<file, api, mem, alphas, tokens, intra, mb_y, worker, phase,
                 injected>>

\* VP8GetHeaders with ParsePartitions, CopyParts0Data, VP8EnterCritical.
DecodePartition0 ==
  /\ Decoding("VP8_PARTS0")
  /\ MemDataSize >= PartAt(last_part) + 1 - file.payload
  /\ LET At(q) == start + q - file.payload IN
       parts' = [p \in Partitions |->
                   Reader(At(PartAt(p)),
                          IF p = last_part THEN end ELSE At(PartAt(p + 1)))]
  /\ br' = IF mode = "APPEND" THEN [at |-> "part0", i |-> 0] ELSE Ptr(start + 2)
  /\ start' = start + Part0Size - 2
  /\ readTo' = [p \in Partitions |-> PartAt(p)]
  /\ state' = "VP8_DATA" /\ phase' = "open"
  /\ UNCHANGED <<file, api, mode, end, cap, org, fed, io, alphas, mb_x,
                 last_mb_y, modes, mb_y, worker, injected>>

\* VP8InitFrame fails after setup(): teardown has to be called.  So it is when
\* the intra modes of a row are corrupted.
FrameFails ==
  /\ Decoding("VP8_DATA") /\ mb_y < file.rows /\ last_mb_y # mb_y
  /\ Fail("BITSTREAM_ERROR")
  /\ injected' = TRUE
  /\ UNCHANGED <<file, mem, io, alphas, tokens, intra, mb_y, worker, phase>>

-----------------------------------------------------------------------------
(* DecodeRemaining.                                                         *)

\* Variant: the intra modes of a row are parsed whenever the row is resumed.
ModesWhenResumed == mb_x = 0 \/ last_mb_y # mb_y

\* idec->last_mb_y_ remembers that the row was begun by an earlier call.
ModesMissing == last_mb_y # mb_y

ParseIntraModes ==
  /\ Decoding("VP8_DATA") /\ mb_y < file.rows /\ ModesMissing
  /\ br' = [at |-> br.at, i |-> br.i + 1]
  /\ modes' = modes + 1
  /\ last_mb_y' = mb_y
  /\ UNCHANGED <<file, api, state, mem, io, alphas, tokens, mb_y, worker,
                 phase, injected>>

InRow == Decoding("VP8_DATA") /\ mb_y < file.rows /\ last_mb_y = mb_y
Corrupted == file.bad /\ mb_y = 0 /\ mb_x = 0    \* its tokens never end
Enough == LET r == parts[PartOf(mb_y)] IN
          r.i + MbSize <= r.e /\ ~ Corrupted

\* VP8DecodeMB succeeds; with a single partition what it read is released.
DecodeMB ==
  /\ InRow /\ mb_x < file.width /\ Enough
  /\ LET p == PartOf(mb_y) IN
       /\ parts' = [parts EXCEPT ![p] = Reader(@.i + MbSize, @.e)]
       /\ readTo' = [readTo EXCEPT ![p] = @ + MbSize]
       /\ start' = IF last_part = 0 THEN parts'[p].i ELSE start
  /\ mb_x' = mb_x + 1
  /\ UNCHANGED <<file, api, state, mode, end, cap, org, fed, io, alphas,
                 intra, mb_y, worker, phase, injected>>

\* Variant: the data of the other partitions is taken for the macroblock's.
TooMuchDataAnyPartition == MemDataSize > MaxMbSize

\* A macroblock that still fails with so much data is corrupted.
TooMuchData == last_part = 0 /\ MemDataSize > MaxMbSize

StarvedError ==
  /\ InRow /\ mb_x < file.width /\ ~ Enough
  /\ TooMuchData
  /\ Fail("BITSTREAM_ERROR")
  /\ UNCHANGED <<file, mem, io, alphas, tokens, intra, mb_y, worker, phase,
                 injected>>

\* Variant: a suspended call returns while the worker is busy.
SuspendAtOnce == TRUE

\* The worker is synced before a suspended call returns.
SuspendWhenIdle == file.mt => Idle

\* VP8DecodeMB reached the end of its partition: RestoreContext undoes what it
\* read, and the call is suspended, unless the worker reports an error.
Starved ==
  /\ InRow /\ mb_x < file.width /\ ~ Enough
  /\ ~ TooMuchData
  /\ SuspendWhenIdle
  /\ IF hadError THEN Fail("BITSTREAM_ERROR")
                 ELSE Return("SUSPENDED") /\ UNCHANGED state
  /\ UNCHANGED <<file, mem, io, alphas, tokens, intra, mb_y, worker, phase,
                 injected>>

\* FinishRow emits row y.  Its first alpha rows open the alpha stream; the
\* last ones, or the first ones if alpha is dithered, complete the plane.
EmitRow(y) ==
  /\ rows' = rows + 1
  /\ UNCHANGED alpha
  /\ IF ~ NeedCompressedAlpha THEN UNCHANGED <<alphaBr, alphaDone>>
     ELSE \E all \in (IF y = file.rows - 1 THEN {TRUE} ELSE BOOLEAN) :
            /\ alphaDone' = all
            /\ alphaBr' = IF all \/ file.alpha = "raw" THEN NoPtr
                          ELSE Ptr(alpha.i + 1)

RowParsed == InRow /\ mb_x = file.width

\* VP8ProcessRow with a worker: sync, then launch FinishRow.
LaunchRow ==
  /\ RowParsed /\ file.mt /\ Idle /\ ~ hadError
  /\ job' = mb_y
  /\ mb_y' = mb_y + 1 /\ mb_x' = 0
  /\ UNCHANGED <<file, api, state, mem, io, alphas, parts, readTo, intra,
                 hadError, rows, phase, injected>>

\* VP8ProcessRow without: FinishRow is run here.
ProcessRowInline ==
  /\ RowParsed /\ ~ file.mt
  /\ EmitRow(mb_y)
  /\ mb_y' = mb_y + 1 /\ mb_x' = 0
  /\ UNCHANGED <<file, api, state, mem, io, parts, readTo, intra, job,
                 hadError, phase, injected>>

\* put() asks to stop, or the alpha data is corrupted.
ProcessRowFails ==
  /\ RowParsed
  /\ file.mt => Idle /\ hadError
  /\ Fail("USER_ABORT")
  /\ injected' = TRUE
  /\ UNCHANGED <<file, mem, io, alphas, tokens, intra, mb_y, worker, phase>>

\* The end of DecodeRemaining.
FrameDecoded ==
  /\ Decoding("VP8_DATA") /\ mb_y = file.rows
  /\ pc' = "exit" /\ ret' = "OK"
  /\ UNCHANGED <<file, state, mem, io, alphas, tokens, intra, mb_y, worker,
                 phase, injected>>

\* Variant: teardown() is not called.
TeardownForgotten == phase' = phase

Teardown == phase' = "closed"

\* VP8ExitCritical: Sync, then teardown().
ExitCritical ==
  /\ pc = "exit" /\ Idle
  /\ Teardown
  /\ pc' = "exited"
  /\ UNCHANGED <<file, ret, state, mem, io, alphas, tokens, intra, mb_y,
                 worker, injected>>

\* Back in IDecError, or in DecodeRemaining and then FinishDecoding.
Exited ==
  /\ pc = "exited"
  /\ IF ret # "OK" THEN state' = "ERROR" /\ Return(ret)
     ELSE IF hadError THEN state' = "ERROR" /\ Return("USER_ABORT")
     ELSE state' = "DONE" /\ Return("OK")
  /\ UNCHANGED <<file, mem, io, alphas, tokens, intra, mb_y, worker, phase,
                 injected>>

\* The worker runs FinishRow on the row it was given.
JobEnds ==
  /\ ~ Idle
  /\ job' = -1
  /\ \/ EmitRow(job) /\ UNCHANGED <<hadError, injected>>
     \/ hadError' = TRUE /\ injected' = TRUE /\ UNCHANGED <<rows, alphas>>
  /\ UNCHANGED <<file, api, state, mem, io, tokens, intra, mb_y, phase>>

-----------------------------------------------------------------------------
(* Lossless files: VP8LDecodeHeader and VP8LDecodeImage read from br.        *)

DecodeVP8LHeader ==
  /\ Decoding("VP8L_HEADER")
  /\ MemDataSize >= 1
  /\ br' = Ptr(io.i)
  /\ state' = "VP8L_DATA"
  /\ UNCHANGED <<file, api, mem, io, alphas, tokens, last_mb_y, modes, mb_y,
                 worker, phase, injected>>

DecodeVP8LData ==
  /\ Decoding("VP8L_DATA") /\ MemDataSize = Total - file.payload
  /\ state' = "DONE" /\ Return("OK")
  /\ UNCHANGED <<file, mem, io, alphas, tokens, intra, mb_y, worker, phase,
                 injected>>

\* WebPIDelete, between two calls.
Delete ==
  /\ pc = "idle"
  /\ IF state = "VP8_DATA" THEN Idle /\ phase' = "closed" ELSE phase' = phase
  /\ pc' = "deleted"
  /\ UNCHANGED <<file, ret, state, mem, io, alphas, tokens, intra, mb_y,
                 worker, injected>>

Deleted == pc = "deleted" /\ UNCHANGED vars

DecodeSteps ==
  \/ Suspended \/ HeaderFails \/ NewDecoderFails
  \/ DecodeWebPHeaders \/ DecodeVP8FrameHeader \/ DecodePartition0
  \/ FrameFails \/ ParseIntraModes \/ DecodeMB \/ StarvedError \/ Starved
  \/ LaunchRow \/ ProcessRowInline \/ ProcessRowFails \/ FrameDecoded
  \/ ExitCritical \/ Exited
  \/ DecodeVP8LHeader \/ DecodeVP8LData

Next == Feed \/ DecodeSteps \/ JobEnds \/ Delete \/ Deleted

SafeSpec == Init /\ [][Next]_vars

-----------------------------------------------------------------------------
(* Properties.                                                              *)

\* Every variable holds a value of its type, and the window start_ .. end_
\* lies in the buffer.
TypeOK ==
  /\ file \in Files
  /\ pc \in {"idle", "decode", "exit", "exited", "deleted"}
  /\ state \in {"WEBP_HEADER", "VP8_HEADER", "VP8_PARTS0", "VP8_DATA",
                "VP8L_HEADER", "VP8L_DATA", "DONE", "ERROR"}
  /\ mode \in {"NONE", "APPEND", "MAP"}
  /\ start \in 0 .. end /\ end <= cap /\ org \in Nat /\ fed \in 0 .. Total
  /\ mb_y \in 0 .. file.rows /\ mb_x \in 0 .. file.width
  /\ last_mb_y \in -1 .. file.rows - 1
  /\ job \in -1 .. file.rows - 1 /\ rows \in 0 .. file.rows

\* Whichever way the file is cut into pieces and the buffer grows, slides or
\* moves, every pointer that is used again points into the present buffer, at
\* the unit of the file it should (DoRemap, AppendToMemBuffer's old_base,
\* SaveContext and RestoreContext).
PointersTrackFile ==
  /\ state \in {"VP8_HEADER", "VP8_PARTS0", "VP8L_HEADER"} =>
       io.at = "cur" /\ org + io.i = file.payload /\ io.i + io.size = end
  /\ NeedCompressedAlpha =>
       /\ alpha.at = "cur" /\ alpha.i >= 0 /\ org + alpha.i = AlphaAt
       /\ alphaBr # NoPtr => alphaBr.at = "cur" /\ org + alphaBr.i = AlphaAt + 1
  /\ state = "VP8_DATA" =>
       /\ IF mode = "APPEND" THEN br = [at |-> "part0", i |-> modes]
          ELSE br.at = "cur" /\ org + br.i = file.payload + 2 + modes
       /\ \A p \in Partitions :
            /\ parts[p].at = "cur" /\ parts[p].i >= 0
            /\ org + parts[p].i = readTo[p]
            /\ org + parts[p].e = IF p = last_part THEN fed ELSE PartAt(p + 1)
  /\ state = "VP8L_DATA" => br.at = "cur" /\ org + br.i = file.payload

\* A row's intra modes are parsed once, even if the row is left and resumed.
ModesParsedOnce == modes = last_mb_y + 1 /\ last_mb_y \in {mb_y - 1, mb_y}

\* The worker never runs between two calls, when the user may move or free the
\* data it reads and the next call rewrites the pointers it uses.
WorkerIdleBetweenCalls == pc \in {"idle", "deleted"} => Idle

\* A valid file, however it is fed, never makes the decoder fail, and once all
\* of it was fed the decoder does not ask for more.
ValidFileIsDecoded ==
  ~ injected /\ ~ file.bad =>
    /\ state # "ERROR"
    /\ ~ (pc = "idle" /\ fed = Total /\ ret = "SUSPENDED")

\* setup(), put() and teardown() are called as vp8_dec.h promises.
Protocol == INSTANCE FrameOutput WITH
  total <- file.rows,
  result <- IF file.lossless THEN "none"
            ELSE IF state = "DONE" THEN "ok"
            ELSE IF state = "ERROR" THEN "failed" ELSE "none"
ImplementsFrameOutput == Protocol!SafeSpec
=============================================================================
