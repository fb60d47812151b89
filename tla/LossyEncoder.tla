----------------------------- MODULE LossyEncoder -----------------------------
(***************************************************************************)
(* The lossy branch of WebPEncode (src/enc/webp_enc.c): analysis of the     *)
(* picture, half of it by a worker; compression of the alpha plane by       *)
(* another worker, or inline; one or several passes over the macroblocks    *)
(* (frame_enc.c); writing; and the release of everything on every way out.  *)
(* A row of macroblocks is the unit of work, and may report progress: the   *)
(* user's hook may then ask for an abort.                                   *)
(***************************************************************************)
EXTENDS Naturals

CONSTANTS
  MaxRows,             \* macroblock rows of a picture: 1 .. MaxRows
  MaxPass,             \* config->pass: 1 .. MaxPass
  MaxHeaderBits        \* max_i4_header_bits_ at first: 0 .. MaxHeaderBits

VARIABLES
  cfg,                 \* what MapConfigToTools makes of the WebPConfig
  pc,                  \* where the calling thread is in WebPEncode
  error,               \* pic->error_code
  refused,             \* history: where the progress hook has returned 0
  analysis,            \* the two SegmentJobs
  alpha,               \* alpha_worker_ and what CompressAlphaJob made
  loop,                \* the passes over the macroblocks
  allocated,           \* "enc", "parts" (the bit writers)
  result               \* what WebPEncode returned

vars == <<cfg, pc, error, refused, analysis, alpha, loop, allocated, result>>

-----------------------------------------------------------------------------
(* Errors and progress *)

\* The oldest error takes precedence; but a test of error_code that races with
\* the other thread may still see VP8_ENC_OK.
SetErrors(code, e, racing) ==
  IF code = "OK" THEN {e} ELSE IF racing THEN {code, e} ELSE {code}

\* The alpha worker has stored an error the caller has not synchronised with.
AlphaRaces == alpha.reported /\ ~ alpha.synced /\ refused = {}

WebPEncodingSetError(e) == error' \in SetErrors(error, e, AlphaRaces)

\* The hook accepts, or is not called because the percentage is the same.
ProgressOk == UNCHANGED <<error, refused>>

\* It asks for an abort, in the function named.
ProgressAborts(in) ==
  /\ WebPEncodingSetError("USER_ABORT")
  /\ refused' = refused \cup {in}

Goto(label) == pc' = label
FailsWith(e) == WebPEncodingSetError(e) /\ UNCHANGED refused /\ Goto("failed")

-----------------------------------------------------------------------------
(* Analysis *)

\* Both jobs count down the rows they were given; none may be left for the second.
SplitRow == (9 * cfg.rows + 15) \div 16
DoMt == cfg.threads /\ SplitRow >= 2
MainRows == IF DoMt THEN SplitRow ELSE cfg.rows
SideRows == cfg.rows - MainRows

NoAnalysis == [row |-> 0, sideRow |-> 0, side |-> "none",
               seen |-> [y \in 0 .. MaxRows |-> 0], total |-> 0]

MBAnalyze(a, y) == [a EXCEPT !.seen[y] = @ + 1]

Init ==
  /\ cfg = [threads |-> FALSE, segments |-> FALSE, hasAlpha |-> FALSE,
            tokens |-> FALSE, search |-> FALSE, rows |-> 1, pass |-> 1]
  /\ pc = "idle" /\ error = "OK" /\ refused = {}
  /\ analysis = NoAnalysis
  /\ alpha = [worker |-> "none", ok |-> TRUE, data |-> FALSE, reported |-> FALSE,
              clean |-> TRUE, synced |-> TRUE]
  /\ loop = [left |-> 0, bits |-> 0, converged |-> FALSE, last |-> FALSE, row |-> 0,
             tokens |-> 0, stats |-> 0, side |-> 0, probas |-> "default"]
  /\ allocated = {} /\ result = "none"

\* Tokens are recorded unless the method is a fast one or memory is to be saved.
InitVP8Encoder ==
  /\ pc = "idle"
  /\ cfg' \in [threads : BOOLEAN, segments : BOOLEAN, hasAlpha : BOOLEAN,
               tokens : BOOLEAN, search : BOOLEAN, rows : 1 .. MaxRows,
               pass : 1 .. MaxPass]
  /\ \E bits \in 0 .. MaxHeaderBits : loop' = [loop EXCEPT !.bits = bits]
  /\ allocated' = {"enc"}
  /\ Goto("analyze")
  /\ UNCHANGED <<error, refused, analysis, alpha, result>>

InitFails ==
  /\ pc = "idle"
  /\ WebPEncodingSetError("OUT_OF_MEMORY")
  /\ result' = "failed"
  /\ Goto("returned")
  /\ UNCHANGED <<cfg, refused, analysis, alpha, loop, allocated>>

\* One default segment: nobody looks at the result of the progress report.
ResetAllMBInfo ==
  /\ pc = "analyze" /\ ~ cfg.segments
  /\ ProgressOk \/ ProgressAborts("ResetAllMBInfo")
  /\ Goto("startAlpha")
  /\ UNCHANGED <<cfg, analysis, alpha, loop, allocated, result>>

StartAnalysis ==
  /\ pc = "analyze" /\ cfg.segments
  /\ \/ /\ analysis' = [analysis EXCEPT !.side = IF DoMt THEN "running" ELSE "none",
                                        !.sideRow = MainRows]
        /\ Goto("analyzing")
        /\ UNCHANGED <<error, refused>>
     \/ /\ DoMt
        /\ FailsWith("OUT_OF_MEMORY")
        /\ UNCHANGED analysis
  /\ UNCHANGED <<cfg, alpha, loop, allocated, result>>

\* The caller's job, the only one that reports progress.
AnalyzeRow ==
  /\ pc = "analyzing" /\ analysis.row < MainRows
  /\ \/ /\ ProgressOk
        /\ analysis' = [MBAnalyze(analysis, analysis.row) EXCEPT !.row = @ + 1]
        /\ Goto("analyzing")
     \/ /\ ProgressAborts("DoSegmentsJob")
        /\ analysis' = [MBAnalyze(analysis, analysis.row) EXCEPT !.row = @ + 1]
        /\ Goto("abandoned")
  /\ UNCHANGED <<cfg, alpha, loop, allocated, result>>

SideIsDone == analysis.sideRow >= MainRows + SideRows

SideAnalyzeRow ==
  /\ analysis.side = "running" /\ ~ SideIsDone
  /\ analysis' = [MBAnalyze(analysis, analysis.sideRow) EXCEPT !.sideRow = @ + 1]
  /\ UNCHANGED <<cfg, pc, error, refused, alpha, loop, allocated, result>>

SideJobEnds ==
  /\ analysis.side = "running" /\ SideIsDone
  /\ analysis' = [analysis EXCEPT !.side = "over"]
  /\ UNCHANGED <<cfg, pc, error, refused, alpha, loop, allocated, result>>

\* Sync and End of both; the histograms are merged and the segments assigned.
EndAnalysis ==
  /\ \/ pc = "analyzing" /\ analysis.row = MainRows
     \/ pc = "abandoned"
  /\ analysis.side # "running"
  /\ IF pc = "analyzing"
     THEN /\ analysis' = [analysis EXCEPT
                            !.total = analysis.row + analysis.sideRow - MainRows]
          /\ Goto("startAlpha")
          /\ UNCHANGED <<error, refused>>
     ELSE FailsWith("OUT_OF_MEMORY") /\ UNCHANGED analysis
  /\ UNCHANGED <<cfg, alpha, loop, allocated, result>>

-----------------------------------------------------------------------------
(* The alpha plane *)

AlphaDone == [alpha EXCEPT !.worker = IF @ = "running" THEN "ready" ELSE @,
                           !.data = TRUE]
AlphaFailed == [alpha EXCEPT !.worker = IF @ = "running" THEN "ready" ELSE @,
                             !.ok = FALSE, !.reported = TRUE]

VP8EncStartAlpha ==
  /\ pc = "startAlpha"
  /\ \/ /\ ~ cfg.hasAlpha
        /\ Goto("preLoop") /\ UNCHANGED <<error, refused, alpha>>
     \/ /\ cfg.hasAlpha /\ cfg.threads
        /\ alpha' = [alpha EXCEPT !.worker = "running", !.synced = FALSE,
                                  !.clean = (error = "OK")]
        /\ Goto("preLoop") /\ UNCHANGED <<error, refused>>
     \/ /\ cfg.hasAlpha /\ ~ cfg.threads
        /\ alpha' = AlphaDone
        /\ Goto("preLoop") /\ UNCHANGED <<error, refused>>
     \/ /\ cfg.hasAlpha
        /\ FailsWith("OUT_OF_MEMORY")
        /\ UNCHANGED alpha
  /\ UNCHANGED <<cfg, analysis, loop, allocated, result>>

CompressAlphaJob ==
  /\ alpha.worker = "running"
  /\ \/ alpha' = AlphaDone /\ UNCHANGED error
     \/ /\ alpha' = AlphaFailed
        /\ error' \in SetErrors(error, "OUT_OF_MEMORY", alpha.clean)
  /\ UNCHANGED <<cfg, pc, refused, analysis, loop, allocated, result>>

\* Variant: a failing call does not wait for the worker.
AlphaSynced_OnSuccess == pc = "failed" \/ alpha.worker # "running"

AlphaSynced == alpha.worker # "running"

\* Sync, then a progress report.
VP8EncFinishAlpha ==
  /\ pc = "finishAlpha" /\ AlphaSynced
  /\ alpha' = [alpha EXCEPT !.synced = TRUE]
  /\ \/ alpha.ok /\ ProgressOk /\ Goto("write")
     \/ alpha.ok /\ ProgressAborts("VP8EncFinishAlpha") /\ Goto("failed")
     \/ ~ alpha.ok /\ ProgressOk /\ Goto("failed")
  /\ UNCHANGED <<cfg, analysis, loop, allocated, result>>

-----------------------------------------------------------------------------
(* The passes *)

PreLoopInitialize ==
  /\ pc = "preLoop"
  /\ \/ /\ allocated' = allocated \cup {"parts"}
        /\ loop' = [loop EXCEPT !.left = cfg.pass]
        /\ Goto(IF cfg.tokens THEN "pass" ELSE "stat")
        /\ UNCHANGED <<error, refused>>
     \/ /\ FailsWith("OUT_OF_MEMORY")
        /\ UNCHANGED <<allocated, loop>>
  /\ UNCHANGED <<cfg, analysis, alpha, result>>

\* is_last_pass, of a pass that leaves this many to do
IsLastPass(l, left) == l.converged \/ left = 0 \/ l.bits = 0

\* Variant: the bits for modes are not halved.
HeaderTooLarge_SameBits(l) == [l EXCEPT !.left = @ + 1]

\* The modes alone do not fit in partition 0: the pass is done again with half
\* the bits for modes.
HeaderTooLarge(l) == [l EXCEPT !.left = @ + 1, !.bits = @ \div 2]

\* ComputeNextQ, when a size or a PSNR is searched, may find that it has converged.
NextQ(l) == {[l EXCEPT !.converged = c] : c \in IF cfg.search THEN BOOLEAN ELSE {FALSE}}

\* One pass of StatLoop.  VP8EncLoop does not look at its result.
StatPass ==
  LET l == [loop EXCEPT !.left = @ - 1]
      last == IsLastPass(l, l.left)
  IN /\ pc = "stat"
     /\ \/ /\ l.bits > 0
           /\ loop' = HeaderTooLarge(l)
           /\ Goto("stat") /\ ProgressOk
        \/ /\ ~ last
           /\ loop' \in {n \in NextQ(l) : ~ n.converged}
           /\ Goto("stat") /\ ProgressOk
        \/ /\ loop' \in {[n EXCEPT !.probas = "final"] :
                           n \in IF last THEN {l} ELSE {m \in NextQ(l) : m.converged}}
           /\ Goto("code") /\ (ProgressOk \/ ProgressAborts("StatLoop"))
        \/ /\ loop' = l
           /\ Goto("code") /\ ProgressAborts("StatLoop")
     /\ UNCHANGED <<cfg, analysis, alpha, allocated, result>>

\* One row of VP8EncLoop: residuals, side information, progress.
CodeRow ==
  /\ pc = "code"
  /\ \/ /\ loop.row < cfg.rows
        /\ loop' = [loop EXCEPT !.row = @ + 1, !.side = @ + 1]
        /\ \/ ProgressOk /\ Goto("code")
           \/ ProgressAborts("VP8EncLoop") /\ Goto("loopFailed")
     \/ /\ loop.row < cfg.rows
        /\ ProgressOk /\ Goto("loopFailed") /\ UNCHANGED loop
     \/ /\ loop.row = cfg.rows
        /\ ProgressOk /\ Goto("postLoop") /\ UNCHANGED loop
  /\ UNCHANGED <<cfg, analysis, alpha, allocated, result>>

\* A pass of VP8EncTokenLoop starts with an empty buffer; only the last one
\* collects side information.
StartPass ==
  /\ pc = "pass"
  /\ LET l == [loop EXCEPT !.left = @ - 1, !.row = 0, !.tokens = 0,
                           !.last = IsLastPass(loop, loop.left - 1)]
     IN loop' = [l EXCEPT !.stats = IF l.last THEN 0 ELSE @]
  /\ Goto("record")
  /\ UNCHANGED <<cfg, error, refused, analysis, alpha, allocated, result>>

RecordRow ==
  /\ pc = "record" /\ loop.row < cfg.rows
  /\ \/ /\ loop' = [loop EXCEPT !.row = @ + 1, !.tokens = @ + 1, !.stats = @ + 1,
                                !.side = IF loop.last THEN @ + 1 ELSE @]
        /\ \/ ProgressOk /\ Goto("record")
           \/ loop.last /\ ProgressAborts("VP8EncTokenLoop") /\ Goto("loopFailed")
     \/ /\ WebPEncodingSetError("OUT_OF_MEMORY")
        /\ Goto("loopFailed") /\ UNCHANGED <<refused, loop>>
  /\ UNCHANGED <<cfg, analysis, alpha, allocated, result>>

\* Variant: the side information of a pass that starts again is kept.
ResetSideInfo_Kept(l) == l

ResetSideInfo(l) == [l EXCEPT !.side = 0]

EndPass ==
  /\ pc = "record" /\ loop.row = cfg.rows
  /\ \/ /\ loop.bits > 0
        /\ loop' = HeaderTooLarge(IF loop.last THEN ResetSideInfo(loop) ELSE loop)
        /\ Goto("pass")
     \/ loop.last /\ Goto("emit") /\ UNCHANGED loop
     \/ ~ loop.last /\ loop' \in NextQ(loop) /\ Goto("pass")
  /\ UNCHANGED <<cfg, error, refused, analysis, alpha, allocated, result>>

EmitTokens ==
  /\ pc = "emit"
  /\ loop' = [loop EXCEPT !.probas = "final"]
  /\ \/ ProgressOk /\ Goto("postLoop")
     \/ ProgressAborts("VP8EncTokenLoop") /\ Goto("loopFailed")
  /\ UNCHANGED <<cfg, analysis, alpha, allocated, result>>

\* The partitions are finished, unless one of them could not grow.
PostLoopFinalize ==
  /\ pc \in {"postLoop", "loopFailed"}
  /\ \/ /\ pc = "postLoop"
        /\ Goto("finishAlpha") /\ UNCHANGED <<error, refused, allocated>>
     \/ /\ FailsWith("OUT_OF_MEMORY")
        /\ allocated' = allocated \ {"parts"}
  /\ UNCHANGED <<cfg, analysis, alpha, loop, result>>

-----------------------------------------------------------------------------
(* The end *)

WriteErrors == {"OUT_OF_MEMORY", "PARTITION0_OVERFLOW", "PARTITION_OVERFLOW",
                "FILE_TOO_BIG", "BAD_WRITE"}

VP8EncWrite ==
  /\ pc = "write"
  /\ \/ ProgressOk /\ Goto("done") /\ allocated' = allocated \ {"parts"}
     \/ /\ \/ ProgressAborts("VP8EncWrite") /\ Goto("failed")
           \/ \E e \in WriteErrors : FailsWith(e)
        /\ UNCHANGED allocated
  /\ UNCHANGED <<cfg, analysis, alpha, loop, result>>

\* The bit writers that are left, then DeleteVP8Encoder, which waits for the alpha
\* worker whatever has happened.
DeleteVP8Encoder ==
  /\ pc \in {"done", "failed"} /\ AlphaSynced
  /\ allocated' = allocated \ (IF pc = "failed" THEN {"enc", "parts"} ELSE {"enc"})
  /\ alpha' = [alpha EXCEPT !.worker = IF @ = "running" THEN @ ELSE "none", !.data = FALSE]
  /\ result' = IF pc = "done" /\ alpha.ok THEN "ok" ELSE "failed"
  /\ Goto("returned")
  /\ UNCHANGED <<cfg, error, refused, analysis, loop>>

Main ==
  \/ InitVP8Encoder \/ InitFails
  \/ ResetAllMBInfo \/ StartAnalysis \/ AnalyzeRow \/ EndAnalysis
  \/ VP8EncStartAlpha \/ PreLoopInitialize \/ StatPass \/ CodeRow
  \/ StartPass \/ RecordRow \/ EndPass \/ EmitTokens \/ PostLoopFinalize
  \/ VP8EncFinishAlpha \/ VP8EncWrite \/ DeleteVP8Encoder

SideAnalysis == SideAnalyzeRow \/ SideJobEnds

Next == Main \/ SideAnalysis \/ CompressAlphaJob

-----------------------------------------------------------------------------
(* Properties *)

\* No job runs on memory that is gone, be it the encoder or the SegmentJob on the
\* stack of VP8EncAnalyze; nothing stays allocated when the call is over.
JobsAreOver ==
  /\ analysis.side = "running" => "enc" \in allocated /\ pc \in {"analyzing", "abandoned"}
  /\ alpha.worker = "running" => "enc" \in allocated
  /\ result # "none" => allocated = {} /\ ~ alpha.data

\* A call that fails has a reason; one that succeeds has none, unless the hook asked
\* for the abort in one of the two places whose result is not looked at.
ReasonIsGiven ==
  pc = "returned" =>
    /\ result = "failed" => error # "OK"
    /\ result = "ok" /\ error # "OK" =>
         refused # {} /\ refused \subseteq {"StatLoop", "ResetAllMBInfo"}

\* What is written was analysed and coded once: every row once by one of the two
\* jobs, every row once in the last pass, however often a pass was started again,
\* with probabilities drawn from the tokens of that pass.
StreamIsOfOnePass ==
  pc = "write" =>
    /\ cfg.segments =>
         /\ \A y \in 0 .. MaxRows : analysis.seen[y] = IF y < cfg.rows THEN 1 ELSE 0
         /\ analysis.total = cfg.rows
    /\ loop.side = cfg.rows
    /\ cfg.tokens =>
         loop.tokens = cfg.rows /\ loop.stats = cfg.rows /\ loop.probas = "final"
=============================================================================
