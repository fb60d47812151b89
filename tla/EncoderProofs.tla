---------------------------- MODULE EncoderProofs ----------------------------
(***************************************************************************)
(* Proofs about Encoder: how both branches of WebPEncode end, and what the  *)
(* streams they write were made of, for pictures of any number of rows, any *)
(* number of passes and any sizes of streams.                               *)
(***************************************************************************)
EXTENDS Encoder, Integers, Sequences, SequenceTheorems, TLAPS

-----------------------------------------------------------------------------
(* The inductive invariant of the lossy branch *)

Errors == {"OK", "INVALID_CONFIGURATION", "BAD_DIMENSION", "OUT_OF_MEMORY",
           "USER_ABORT"} \cup Lossy!WriteErrors

\* The labels before the analysis, between it and the macroblocks, and after.
AtStart == {"idle", "analyze"}
InAnalysis == {"analyzing", "abandoned"}
BeforeLoop == {"startAlpha", "preLoop"}
InLoop == {"stat", "code", "pass", "record", "emit"}
AfterLoop == {"postLoop", "finishAlpha", "write", "done"}
Failing == {"loopFailed", "failed"}
Labels == AtStart \cup InAnalysis \cup BeforeLoop \cup InLoop \cup AfterLoop
            \cup Failing \cup {"returned"}

Parameters == [threads : BOOLEAN, segments : BOOLEAN, hasAlpha : BOOLEAN,
               tokens : BOOLEAN, search : BOOLEAN, rows : 1 .. MaxRows,
               pass : 1 .. MaxPass]
Analyses == [row : Nat, sideRow : Nat, side : {"none", "running", "over"},
             seen : [0 .. MaxRows -> Nat], total : Int]
AlphaStates == [worker : {"none", "running", "ready"}, ok : BOOLEAN, data : BOOLEAN,
                reported : BOOLEAN, clean : BOOLEAN, synced : BOOLEAN]
Loops == [left : Int, bits : Nat, converged : BOOLEAN, last : BOOLEAN, row : Nat,
          tokens : Nat, stats : Nat, side : Nat, probas : {"default", "final"}]

LossyTypes ==
  /\ cfg \in Parameters /\ pc \in Labels
  /\ analysis \in Analyses /\ alpha \in AlphaStates /\ loop \in Loops

\* Each row given to a job is seen once when the job is past it; a job that does
\* not run has no row left.
Seen(y) ==
  IF y < analysis.row \/ (Lossy!MainRows <= y /\ y < analysis.sideRow) THEN 1 ELSE 0

AnalysisInv ==
  /\ pc \in AtStart => analysis = Lossy!NoAnalysis
  /\ analysis.side = "running" => pc \in InAnalysis
  /\ pc \in InAnalysis =>
       /\ cfg.segments
       /\ analysis.row <= Lossy!MainRows
       /\ Lossy!MainRows <= analysis.sideRow /\ analysis.sideRow <= cfg.rows
       /\ analysis.side # "running" => analysis.sideRow = cfg.rows
       /\ \A y \in 0 .. MaxRows : analysis.seen[y] = Seen(y)
  /\ pc \in BeforeLoop \cup InLoop \cup AfterLoop /\ cfg.segments =>
       /\ \A y \in 0 .. MaxRows : analysis.seen[y] = IF y < cfg.rows THEN 1 ELSE 0
       /\ analysis.total = cfg.rows

\* What is allocated, told from the program counter alone.
MemoryInv ==
  /\ allocated \subseteq {"enc", "parts"}
  /\ "enc" \in allocated <=> pc \notin {"idle", "returned"}
  /\ pc \in {"idle", "returned"} =>
       allocated = {} /\ alpha.worker # "running" /\ ~ alpha.data
  /\ pc = "done" => "parts" \notin allocated

\* An error_code other than OK has one of three causes: the alpha job, an abort
\* that is ignored, or a failure that takes the caller to one of the failing labels.
\* An alpha job that has failed is noticed before anything is written.
ReasonInv ==
  /\ ~ alpha.ok => error # "OK"
  /\ pc \in {"abandoned", "failed"} => error # "OK"
  /\ pc \in {"write", "done"} => alpha.ok /\ alpha.worker # "running"
  /\ pc \notin {"abandoned", "returned"} \cup Failing =>
       /\ refused \subseteq {"StatLoop", "ResetAllMBInfo"}
       /\ error # "OK" => refused # {} \/ ~ alpha.ok

\* The rows, tokens and statistics of the pass that is going on are those of the rows
\* it has coded; side information is there only for the last pass.
LoopInv ==
  /\ pc \in AtStart \cup InAnalysis \cup BeforeLoop \cup {"stat"} =>
       loop.row = 0 /\ loop.side = 0
  /\ pc \in {"pass", "record", "emit"} => cfg.tokens
  /\ pc \in {"stat", "code"} => ~ cfg.tokens
  /\ pc = "code" => loop.side = loop.row /\ loop.row <= cfg.rows
  /\ pc = "pass" => loop.side = 0
  /\ pc = "record" =>
       /\ loop.row <= cfg.rows
       /\ loop.tokens = loop.row
       /\ loop.last => loop.side = loop.row /\ loop.stats = loop.row
       /\ ~ loop.last => loop.side = 0
  /\ pc \in {"emit", "postLoop", "finishAlpha", "write"} =>
       /\ loop.side = cfg.rows
       /\ cfg.tokens => loop.tokens = cfg.rows /\ loop.stats = cfg.rows
  /\ pc \in {"postLoop", "finishAlpha", "write"} /\ cfg.tokens =>
       loop.probas = "final"

LossyInv ==
  /\ LossyTypes /\ AnalysisInv /\ MemoryInv /\ ReasonInv /\ LoopInv
  /\ Lossy!ReasonIsGiven

-----------------------------------------------------------------------------
(* The inductive invariant of the lossless branch *)

Configurations == Seq(Lossless!EntropyIx)

Transformations == SUBSET {"subtractGreen", "predict", "crossColor"}
PixelSets == [from : {"none", "picture", "near", "palette"},
              transforms : Transformations]
Streams == [of : Lossless!EntropyIx, argb : PixelSets, size : 1 .. MaxSize]
Writers == [prefix : BOOLEAN, stream : {<< >>} \cup {<<s>> : s \in Streams}]
Jobs == [todo : Configurations, at : {"ready", "trying", "over"},
         argb : PixelSets,
         argb_content : {"kEncoderNone", "kEncoderARGB", "kEncoderNearLossless",
                         "kEncoderPalette"},
         mem : Nat, bw : Writers, best : Writers,
         stats : {"none"} \cup Lossless!EntropyIx]

LosslessLabels == {"idle", "image", "stream", "execute", "choose", "free", "write",
                   "end", "returned"}

LosslessTypes ==
  /\ config \in [configs : Configurations, threads : BOOLEAN,
                 nearLossless : BOOLEAN, crossColor : BOOLEAN]
  /\ lpc \in LosslessLabels
  /\ sideError \in Errors
  /\ jobs \in [Lossless!Threads -> Jobs]
  /\ worker \in {"none", "running", "ended"}
  /\ smallest \in 1 .. MaxSize + 1

\* Configurations that may use near-lossless pixels never follow each other, so
\* that transformed pixels are never taken for fresh ones.
MayBeNear == {"kDirect", "kSubGreen"}
Alternating(s) ==
  \A i \in 1 .. Len(s) : i + 1 <= Len(s) => s[i] \notin MayBeNear \/ s[i + 1] \notin MayBeNear

\* The pixels each configuration is to encode
PixelsOf ==
  [e \in Lossless!EntropyIx |->
     Lossless!Pixels(IF Lossless!UsePalette(e) THEN "palette"
                     ELSE IF Lossless!UseNearLossless(e) THEN "near" ELSE "picture",
                     Lossless!Transforms(e))]

\* A writer with a stream of the right pixels, described by these statistics
Good(bw, stats, pixels) ==
  /\ bw.prefix /\ bw.stream # << >>
  /\ bw.stream[1].argb = pixels[bw.stream[1].of]
  /\ bw.stream[1].of = stats

\* A job given these configurations: the writers it still needs were started with
\* the header, it has a best stream as soon as it has tried one, and stops only
\* for an error of its own thread.
JobInv(j, all, ok, pixels) ==
  /\ Alternating(j.todo)
  /\ j.argb_content = "kEncoderNearLossless" /\ j.todo # << >> =>
       j.todo[1] \notin MayBeNear
  /\ j.at = "ready" => j = Lossless!NewJob(all) /\ ok
  /\ j.at = "trying" =>
       /\ ok
       /\ Len(j.todo) <= Len(all)
       /\ Len(all) > 1 => j.bw.prefix /\ j.best.prefix
       /\ Len(all) <= 1 /\ j.todo # << >> => j.bw.prefix /\ j.best.stream = << >>
       /\ IF j.best.stream = << >> THEN j.todo # << >>
                                   ELSE Good(j.best, j.stats, pixels)
  /\ j.at = "over" /\ ok => Good(j.bw, j.stats, pixels)

\* The size of the best stream a job has so far
Tried(j) == Lossless!NumBytes(IF j.at = "over" THEN j.bw ELSE j.best)

SmallestOf(a, b) == IF a < b THEN a ELSE b

MainConfigs == Lossless!Configs("main")
SideConfigs == Lossless!Configs("side")

ThreadsInv ==
  /\ lpc \in {"execute", "choose"} =>
       /\ MainConfigs \in Configurations /\ SideConfigs \in Configurations
       /\ MainConfigs # << >>
       /\ JobInv(jobs["main"], MainConfigs, error = "OK", PixelsOf)
       /\ JobInv(jobs["side"], SideConfigs, sideError = "OK", PixelsOf)
       /\ SideConfigs = << >> => jobs["side"].at = "ready"
       /\ error = "OK" /\ sideError = "OK" =>
            smallest = SmallestOf(Tried(jobs["main"]), Tried(jobs["side"]))
  /\ lpc = "execute" => (worker = "running" <=> SideConfigs # << >>)
  /\ worker = "running" => lpc = "execute"
  /\ lpc = "choose" =>
       /\ jobs["main"].at = "over"
       /\ SideConfigs # << >> => jobs["side"].at = "over"
  /\ lpc \in {"free", "write", "end", "returned"} /\ error = "OK" =>
       /\ Good(jobs["main"].bw, jobs["main"].stats, PixelsOf)
       /\ jobs["main"].bw.stream[1].size = smallest

HeldInv ==
  /\ lpc \in {"idle", "image", "returned"} => held = {}
  /\ lpc = "stream" => held = {"bw"}
  /\ lpc \in {"execute", "choose"} => held = {"bw"} \cup Lossless!Owned
  /\ lpc = "free" => held \subseteq {"bw", "enc_main", "bw_side", "enc_side"}
  /\ lpc \in {"write", "end"} => held \subseteq {"bw"}

ErrorInv ==
  /\ lpc \in {"idle", "image", "stream", "write"} => error = "OK"
  /\ lpc \in {"idle", "image", "stream"} =>
       sideError = "OK" /\ smallest = MaxSize + 1
  /\ Lossless!ReasonIsGiven

LosslessInv == LosslessTypes /\ ThreadsInv /\ HeldInv /\ ErrorInv

-----------------------------------------------------------------------------
(* Both *)

\* One branch runs, the other is as it was at first.
IInv ==
  /\ branch \in {"none", "lossy", "lossless"}
  /\ error \in Errors /\ result \in {"none", "ok", "failed"}
  /\ branch # "lossy" => pc = "idle" /\ LossyTypes /\ analysis = Lossy!NoAnalysis
                           /\ allocated = {} /\ ~ alpha.data /\ alpha.ok
                           /\ alpha.worker # "running" /\ refused = {}
                           /\ loop.row = 0 /\ loop.side = 0
  /\ branch # "lossless" => lpc = "idle" /\ LosslessTypes /\ held = {}
                              /\ worker = "none" /\ sideError = "OK"
                              /\ smallest = MaxSize + 1
  /\ branch = "none" /\ result = "none" => error = "OK"
  /\ branch = "lossy" => LossyInv /\ (result # "none" <=> pc = "returned")
  /\ branch = "lossless" => LosslessInv /\ (result # "none" <=> lpc = "returned")

-----------------------------------------------------------------------------
(* The lossy branch *)

\* A step of the lossy branch is a step of one of its operations.
LossyNext == Lossy!Next

\* SetErrors gives an error other than VP8_ENC_OK if it is given one.
LEMMA ErrorIsKept ==
  ASSUME NEW code, NEW e, e # "OK", NEW racing
  PROVE  /\ \A new \in Lossy!SetErrors(code, e, racing) : new # "OK"
         /\ code \in Errors /\ e \in Errors =>
              Lossy!SetErrors(code, e, racing) \subseteq Errors
BY DEF Lossy!SetErrors

\* The first job gets some rows of the picture, and at most all.
LEMMA RowsAreSplit ==
  ASSUME LossyTypes
  PROVE  /\ Lossy!MainRows \in 1 .. cfg.rows
         /\ Lossy!MainRows + Lossy!SideRows = cfg.rows
         /\ ~ Lossy!DoMt => Lossy!MainRows = cfg.rows
<1>1. cfg.rows \in Nat \ {0}
  BY BoundsAssumption DEF LossyTypes, Parameters
<1>2. Lossy!SplitRow \in 1 .. cfg.rows
  BY <1>1 DEF Lossy!SplitRow
<1> QED
  BY <1>1, <1>2 DEF Lossy!MainRows, Lossy!SideRows, Lossy!DoMt

\* The numbers the operations put into the records are numbers of the right type.
LEMMA NumbersAreTyped ==
  ASSUME LossyTypes
  PROVE  /\ loop.row + 1 \in Nat /\ loop.tokens + 1 \in Nat /\ loop.stats + 1 \in Nat
         /\ loop.side + 1 \in Nat /\ loop.left - 1 \in Int /\ loop.left + 1 \in Int
         /\ loop.left - 1 + 1 \in Int /\ loop.bits \div 2 \in Nat
         /\ analysis.row + 1 \in Nat /\ analysis.sideRow + 1 \in Nat
         /\ analysis.row \in Nat /\ analysis.sideRow \in Nat
         /\ cfg.rows \in Nat \ {0} /\ cfg.pass \in Int /\ cfg.rows <= MaxRows
         /\ Lossy!MainRows \in Nat
<1>1. loop \in Loops /\ analysis \in Analyses /\ cfg \in Parameters
  BY DEF LossyTypes
<1>2. loop.row \in Nat /\ loop.tokens \in Nat /\ loop.stats \in Nat /\ loop.side \in Nat
        /\ loop.left \in Int /\ loop.bits \in Nat
  BY <1>1 DEF Loops
<1>3. analysis.row \in Nat /\ analysis.sideRow \in Nat
  BY <1>1 DEF Analyses
<1>4. cfg.rows \in 1 .. MaxRows /\ cfg.pass \in 1 .. MaxPass
  BY <1>1 DEF Parameters
<1>5. Lossy!MainRows \in 1 .. cfg.rows
  BY RowsAreSplit
<1> HIDE DEF LossyTypes
<1>6. loop.bits \div 2 \in Nat
  BY <1>2
<1> QED
  BY <1>2, <1>3, <1>4, <1>5, <1>6, BoundsAssumption

\* Analysing a row counts it and changes nothing else.
LEMMA RowIsSeen ==
  ASSUME NEW a \in Analyses, NEW y \in 0 .. MaxRows
  PROVE  /\ Lossy!MBAnalyze(a, y) \in Analyses
         /\ Lossy!MBAnalyze(a, y) = [a EXCEPT !.seen = [a.seen EXCEPT ![y] = a.seen[y] + 1]]
<1>1. a.seen \in [0 .. MaxRows -> Nat]
  BY DEF Analyses
<1>2. a.seen[y] + 1 \in Nat
  <2>1. a.seen[y] \in Nat
    BY <1>1
  <2> QED
    BY <2>1
<1>3. [a.seen EXCEPT ![y] = a.seen[y] + 1] \in [0 .. MaxRows -> Nat]
  BY <1>1, <1>2
<1> QED
  BY <1>3 DEF Analyses, Lossy!MBAnalyze

LEMMA AnalysisTypes ==
  ASSUME LossyTypes, AnalysisInv, LossyNext
  PROVE  analysis' \in Analyses
<1>0. analysis \in Analyses
  BY DEF LossyTypes
<1>1. CASE UNCHANGED analysis
  BY <1>0, <1>1
<1>2. CASE Lossy!StartAnalysis
  BY <1>0, <1>2, NumbersAreTyped DEF Lossy!StartAnalysis, Analyses
<1>3. CASE Lossy!AnalyzeRow
  <2>1. analysis.row \in 0 .. MaxRows
    BY <1>3, NumbersAreTyped, RowsAreSplit, BoundsAssumption DEF Lossy!AnalyzeRow
  <2>2. Lossy!MBAnalyze(analysis, analysis.row) \in Analyses
    BY <1>0, <2>1, RowIsSeen
  <2>3. analysis' = [Lossy!MBAnalyze(analysis, analysis.row) EXCEPT !.row = @ + 1]
    BY <1>3 DEF Lossy!AnalyzeRow
  <2>4. Lossy!MBAnalyze(analysis, analysis.row).row + 1 \in Nat
    BY <2>2 DEF Analyses
  <2> QED
    BY <2>2, <2>3, <2>4 DEF Analyses
<1>4. CASE Lossy!SideAnalyzeRow
  <2>1. analysis.sideRow \in 0 .. MaxRows
    BY <1>4, NumbersAreTyped, RowsAreSplit, BoundsAssumption DEF Lossy!SideAnalyzeRow, Lossy!SideIsDone
  <2>2. Lossy!MBAnalyze(analysis, analysis.sideRow) \in Analyses
    BY <1>0, <2>1, RowIsSeen
  <2>3. analysis' = [Lossy!MBAnalyze(analysis, analysis.sideRow) EXCEPT !.sideRow = @ + 1]
    BY <1>4 DEF Lossy!SideAnalyzeRow
  <2>4. Lossy!MBAnalyze(analysis, analysis.sideRow).sideRow + 1 \in Nat
    BY <2>2 DEF Analyses
  <2> QED
    BY <2>2, <2>3, <2>4 DEF Analyses
<1>5. CASE Lossy!SideJobEnds
  BY <1>0, <1>5 DEF Lossy!SideJobEnds, Analyses
<1>6. CASE Lossy!EndAnalysis
  <2>1. analysis.row + analysis.sideRow - Lossy!MainRows \in Int
    BY NumbersAreTyped
  <2> QED
    BY <1>0, <1>6, <2>1 DEF Lossy!EndAnalysis, Analyses
<1> QED
  BY <1>1, <1>2, <1>3, <1>4, <1>5, <1>6
  DEF LossyNext, Lossy!Next, Lossy!Main, Lossy!SideAnalysis, Lossy!InitVP8Encoder, Lossy!InitFails,
      Lossy!ResetAllMBInfo, Lossy!VP8EncStartAlpha, Lossy!PreLoopInitialize, Lossy!StatPass,
      Lossy!CodeRow, Lossy!StartPass, Lossy!RecordRow, Lossy!EndPass, Lossy!EmitTokens,
      Lossy!PostLoopFinalize, Lossy!VP8EncFinishAlpha, Lossy!VP8EncWrite, Lossy!DeleteVP8Encoder,
      Lossy!CompressAlphaJob

LEMMA LoopTypes ==
  ASSUME LossyTypes, LossyNext
  PROVE  loop' \in Loops
<1>0. loop \in Loops
  BY DEF LossyTypes
<1>1. CASE UNCHANGED loop
  BY <1>0, <1>1
<1>2. CASE Lossy!InitVP8Encoder
  BY <1>0, <1>2, BoundsAssumption DEF Lossy!InitVP8Encoder, Loops
<1>3. CASE Lossy!PreLoopInitialize
  BY <1>0, <1>3, NumbersAreTyped DEF Lossy!PreLoopInitialize, Loops
<1>4. CASE Lossy!StatPass
  <2> DEFINE l == [loop EXCEPT !.left = @ - 1]
  <2>1. l \in Loops
    BY <1>0, NumbersAreTyped DEF Loops
  <2>2. \A c \in BOOLEAN : [l EXCEPT !.converged = c] \in Loops
    BY <2>1 DEF Loops
  <2>3. Lossy!NextQ(l) \subseteq Loops
    BY <2>2 DEF Lossy!NextQ
  <2>4. \A n \in Loops : [n EXCEPT !.probas = "final"] \in Loops
    BY DEF Loops
  <2>5. Lossy!HeaderTooLarge(l) \in Loops
    <3>1. l.left + 1 \in Int /\ l.bits \div 2 \in Nat
      BY <2>1 DEF Loops
    <3> QED
      BY <2>1, <3>1 DEF Loops, Lossy!HeaderTooLarge
  <2> HIDE DEF l
  <2>6. loop' = l \/ loop' = Lossy!HeaderTooLarge(l) \/ loop' \in Lossy!NextQ(l)
         \/ \E n \in {l} \cup Lossy!NextQ(l) : loop' = [n EXCEPT !.probas = "final"]
    BY <1>4 DEF Lossy!StatPass, l
  <2> QED
    BY <2>1, <2>3, <2>4, <2>5, <2>6
<1>5. CASE Lossy!CodeRow
  BY <1>0, <1>5, NumbersAreTyped DEF Lossy!CodeRow, Loops
<1>6. CASE Lossy!StartPass
  <2> DEFINE l == [loop EXCEPT !.left = @ - 1, !.row = 0, !.tokens = 0,
                               !.last = Lossy!IsLastPass(loop, loop.left - 1)]
  <2>1. l \in Loops
    BY <1>0, NumbersAreTyped DEF Loops, Lossy!IsLastPass
  <2>2. loop' = [l EXCEPT !.stats = IF l.last THEN 0 ELSE @]
    BY <1>6 DEF Lossy!StartPass
  <2> HIDE DEF l
  <2> QED
    BY <2>1, <2>2 DEF Loops
<1>7. CASE Lossy!RecordRow
  BY <1>0, <1>7, NumbersAreTyped DEF Lossy!RecordRow, Loops
<1>8. CASE Lossy!EndPass
  <2>1. \A l \in Loops : [l EXCEPT !.side = 0] \in Loops
    BY DEF Loops
  <2>2. \A l \in Loops, c \in BOOLEAN : [l EXCEPT !.converged = c] \in Loops
    BY DEF Loops
  <2>3. \A l \in Loops : Lossy!HeaderTooLarge(l) \in Loops
    <3> SUFFICES ASSUME NEW l \in Loops PROVE Lossy!HeaderTooLarge(l) \in Loops
      OBVIOUS
    <3>1. l.left + 1 \in Int /\ l.bits \div 2 \in Nat
      BY DEF Loops
    <3> QED
      BY <3>1 DEF Loops, Lossy!HeaderTooLarge
  <2> QED
    BY <1>0, <1>8, <2>1, <2>2, <2>3 DEF Lossy!EndPass, Lossy!NextQ, Lossy!ResetSideInfo
<1>9. CASE Lossy!EmitTokens
  BY <1>0, <1>9 DEF Lossy!EmitTokens, Loops
<1> QED
  BY <1>1, <1>2, <1>3, <1>4, <1>5, <1>6, <1>7, <1>8, <1>9
  DEF LossyNext, Lossy!Next, Lossy!Main, Lossy!SideAnalysis, Lossy!InitFails,
      Lossy!ResetAllMBInfo, Lossy!StartAnalysis, Lossy!AnalyzeRow, Lossy!EndAnalysis,
      Lossy!SideAnalyzeRow, Lossy!SideJobEnds, Lossy!VP8EncStartAlpha,
      Lossy!PostLoopFinalize, Lossy!VP8EncFinishAlpha, Lossy!VP8EncWrite, Lossy!DeleteVP8Encoder,
      Lossy!CompressAlphaJob

\* cfg, pc and alpha keep their types.
LEMMA LossyTypesNext ==
  ASSUME LossyTypes, AnalysisInv, LossyNext
  PROVE  LossyTypes'
<1>1. analysis' \in Analyses /\ loop' \in Loops
  BY AnalysisTypes, LoopTypes
<1>2. cfg' \in Parameters
  BY DEF LossyTypes, LossyNext, Lossy!Next, Lossy!Main, Lossy!SideAnalysis, Lossy!InitVP8Encoder,
      Lossy!InitFails, Lossy!ResetAllMBInfo, Lossy!StartAnalysis, Lossy!AnalyzeRow,
      Lossy!EndAnalysis, Lossy!SideAnalyzeRow, Lossy!SideJobEnds, Lossy!VP8EncStartAlpha,
      Lossy!PreLoopInitialize, Lossy!StatPass, Lossy!CodeRow, Lossy!StartPass, Lossy!RecordRow,
      Lossy!EndPass, Lossy!EmitTokens, Lossy!PostLoopFinalize, Lossy!VP8EncFinishAlpha,
      Lossy!VP8EncWrite, Lossy!DeleteVP8Encoder, Lossy!CompressAlphaJob, Parameters
<1>3. alpha' \in AlphaStates
  <2>1. alpha \in AlphaStates
    BY DEF LossyTypes
  <2>2. CASE UNCHANGED alpha
    BY <2>1, <2>2
  <2>3. CASE Lossy!VP8EncStartAlpha
    BY <2>1, <2>3 DEF Lossy!VP8EncStartAlpha, Lossy!AlphaDone, AlphaStates
  <2>4. CASE Lossy!CompressAlphaJob
    BY <2>1, <2>4 DEF Lossy!CompressAlphaJob, Lossy!AlphaDone, Lossy!AlphaFailed, AlphaStates
  <2>5. CASE Lossy!VP8EncFinishAlpha
    BY <2>1, <2>5 DEF Lossy!VP8EncFinishAlpha, AlphaStates
  <2>6. CASE Lossy!DeleteVP8Encoder
    BY <2>1, <2>6 DEF Lossy!DeleteVP8Encoder, AlphaStates
  <2> QED
    BY <2>2, <2>3, <2>4, <2>5, <2>6
    DEF LossyNext, Lossy!Next, Lossy!Main, Lossy!SideAnalysis, Lossy!InitVP8Encoder,
      Lossy!InitFails, Lossy!ResetAllMBInfo, Lossy!StartAnalysis, Lossy!AnalyzeRow,
      Lossy!EndAnalysis, Lossy!SideAnalyzeRow, Lossy!SideJobEnds,
      Lossy!PreLoopInitialize, Lossy!StatPass, Lossy!CodeRow, Lossy!StartPass, Lossy!RecordRow,
      Lossy!EndPass, Lossy!EmitTokens, Lossy!PostLoopFinalize, Lossy!VP8EncWrite
<1>4. pc' \in Labels
  BY DEF LossyTypes, LossyNext, Lossy!Next, Lossy!Main, Lossy!SideAnalysis, Lossy!InitVP8Encoder,
      Lossy!InitFails, Lossy!ResetAllMBInfo, Lossy!StartAnalysis, Lossy!AnalyzeRow,
      Lossy!EndAnalysis, Lossy!SideAnalyzeRow, Lossy!SideJobEnds, Lossy!VP8EncStartAlpha,
      Lossy!PreLoopInitialize, Lossy!StatPass, Lossy!CodeRow, Lossy!StartPass, Lossy!RecordRow,
      Lossy!EndPass, Lossy!EmitTokens, Lossy!PostLoopFinalize, Lossy!VP8EncFinishAlpha,
      Lossy!VP8EncWrite, Lossy!DeleteVP8Encoder, Lossy!CompressAlphaJob, Lossy!Goto, Lossy!FailsWith,
      Labels, AtStart, InAnalysis, BeforeLoop, InLoop, AfterLoop, Failing
<1> QED
  BY <1>1, <1>2, <1>3, <1>4 DEF LossyTypes

\* What is allocated.
LEMMA MemoryNext ==
  ASSUME LossyTypes, AnalysisInv, MemoryInv, ReasonInv, LossyNext
  PROVE  MemoryInv'
<1>0. alpha \in AlphaStates
  BY DEF LossyTypes
<1> USE DEF MemoryInv, Lossy!Goto, Lossy!FailsWith
<1>1. CASE Lossy!InitVP8Encoder \/ Lossy!InitFails
  BY <1>1 DEF Lossy!InitVP8Encoder, Lossy!InitFails
<1>2. CASE UNCHANGED <<allocated, alpha>> /\ pc \notin {"idle", "returned"}
             /\ pc' \notin {"idle", "returned", "done"}
  BY <1>2
<1>3. CASE UNCHANGED <<allocated, alpha, pc>>
  BY <1>3
<1>4. CASE Lossy!VP8EncStartAlpha
  BY <1>0, <1>4 DEF Lossy!VP8EncStartAlpha
<1>5. CASE Lossy!CompressAlphaJob
  BY <1>0, <1>5 DEF Lossy!CompressAlphaJob, Lossy!AlphaDone, Lossy!AlphaFailed, AlphaStates
<1>6. CASE Lossy!VP8EncFinishAlpha
  BY <1>0, <1>6 DEF Lossy!VP8EncFinishAlpha, AlphaStates
<1>7. CASE Lossy!PreLoopInitialize
  BY <1>7 DEF Lossy!PreLoopInitialize
<1>8. CASE Lossy!PostLoopFinalize
  BY <1>8 DEF Lossy!PostLoopFinalize
<1>9. CASE Lossy!VP8EncWrite
  BY <1>9 DEF Lossy!VP8EncWrite
<1>10. CASE Lossy!DeleteVP8Encoder
  BY <1>0, <1>10 DEF Lossy!DeleteVP8Encoder, Lossy!AlphaSynced, AlphaStates
<1> QED
  BY <1>1, <1>2, <1>3, <1>4, <1>5, <1>6, <1>7, <1>8, <1>9, <1>10
  DEF LossyNext, Lossy!Next, Lossy!Main, Lossy!SideAnalysis, Lossy!ResetAllMBInfo,
      Lossy!StartAnalysis, Lossy!AnalyzeRow, Lossy!EndAnalysis, Lossy!SideAnalyzeRow,
      Lossy!SideJobEnds, Lossy!StatPass, Lossy!CodeRow, Lossy!StartPass, Lossy!RecordRow,
      Lossy!EndPass, Lossy!EmitTokens

\* The analysis.
LEMMA AnalysisNext ==
  ASSUME LossyTypes, AnalysisInv, LossyNext
  PROVE  AnalysisInv'
<1>0. analysis \in Analyses /\ cfg.rows \in Nat
  BY NumbersAreTyped DEF LossyTypes
<1> USE DEF AnalysisInv, Lossy!Goto, Lossy!FailsWith, AtStart, InAnalysis, BeforeLoop, InLoop,
            AfterLoop, Failing
<1>1. CASE Lossy!InitVP8Encoder
  BY <1>1 DEF Lossy!InitVP8Encoder, Lossy!NoAnalysis
<1>2. CASE Lossy!InitFails \/ Lossy!ResetAllMBInfo
  BY <1>2 DEF Lossy!InitFails, Lossy!ResetAllMBInfo, Lossy!NoAnalysis
<1>3. CASE Lossy!StartAnalysis
  <2>1. analysis = Lossy!NoAnalysis /\ UNCHANGED cfg /\ cfg.segments
    BY <1>3 DEF Lossy!StartAnalysis
  <2>2. CASE pc' = "failed" /\ UNCHANGED analysis
    BY <2>1, <2>2 DEF Lossy!NoAnalysis
  <2>3. CASE /\ analysis' = [analysis EXCEPT !.side = IF Lossy!DoMt THEN "running" ELSE "none",
                                          !.sideRow = Lossy!MainRows]
             /\ pc' = "analyzing"
    <3>1. /\ analysis'.row = 0 /\ analysis'.sideRow = Lossy!MainRows
          /\ analysis'.seen = [y \in 0 .. MaxRows |-> 0]
          /\ analysis'.side = IF Lossy!DoMt THEN "running" ELSE "none"
      BY <2>1, <2>3 DEF Lossy!NoAnalysis
    <3>2. Lossy!MainRows' = Lossy!MainRows /\ cfg' = cfg
      BY <2>1 DEF Lossy!MainRows, Lossy!DoMt, Lossy!SplitRow
    <3>3. \A y \in 0 .. MaxRows : analysis'.seen[y] = Seen(y)'
      BY <3>1, <3>2, RowsAreSplit, BoundsAssumption DEF Seen
    <3> QED
      BY <2>1, <2>3, <3>1, <3>2, <3>3, RowsAreSplit
  <2> QED
    BY <1>3, <2>2, <2>3 DEF Lossy!StartAnalysis
<1>4. ASSUME NEW y \in 0 .. MaxRows,
             pc \in InAnalysis, pc' \in InAnalysis, UNCHANGED cfg,
             analysis'.seen = [analysis.seen EXCEPT ![y] = analysis.seen[y] + 1],
             analysis'.side = analysis.side,
             \/ /\ analysis'.row = analysis.row + 1 /\ analysis'.sideRow = analysis.sideRow
                /\ y = analysis.row /\ y < Lossy!MainRows
             \/ /\ analysis'.row = analysis.row /\ analysis'.sideRow = analysis.sideRow + 1
                /\ y = analysis.sideRow /\ y < cfg.rows /\ analysis.side = "running"
      PROVE  AnalysisInv'
  <2>1. Lossy!MainRows' = Lossy!MainRows /\ Lossy!MainRows \in Nat
    BY <1>4, NumbersAreTyped DEF Lossy!MainRows, Lossy!DoMt, Lossy!SplitRow
  <2>2. analysis.row \in Nat /\ analysis.sideRow \in Nat /\ analysis.seen \in [0 .. MaxRows -> Nat]
    BY <1>0 DEF Analyses
  <2>3. \A z \in 0 .. MaxRows : analysis.seen[z] = Seen(z)
    BY <1>4
  <2>4. ASSUME NEW z \in 0 .. MaxRows PROVE analysis'.seen[z] = Seen(z)'
    <3>1. CASE z = y
      <4>1. analysis'.seen[z] = Seen(y) + 1
        BY <1>4, <2>2, <2>3, <3>1
      <4>2. Seen(y) = 0 /\ Seen(y)' = 1
        <5>1. CASE y = analysis.row /\ y < Lossy!MainRows /\ analysis'.row = analysis.row + 1
          BY <2>1, <2>2, <5>1 DEF Seen
        <5>2. CASE y = analysis.sideRow /\ analysis'.row = analysis.row
                    /\ analysis'.sideRow = analysis.sideRow + 1
          <6>1. analysis.row <= y /\ Lossy!MainRows <= y
            BY <1>4, <2>1, <2>2, <5>2
          <6> QED
            BY <2>1, <2>2, <5>2, <6>1 DEF Seen
        <5> QED
          BY <1>4, <5>1, <5>2
      <4> QED
        BY <3>1, <4>1, <4>2
    <3>2. CASE z # y
      BY <1>4, <2>1, <2>2, <2>3, <3>2 DEF Seen
    <3> QED
      BY <3>1, <3>2
  <2> QED
    BY <1>0, <1>4, <2>1, <2>2, <2>4
<1>5. CASE Lossy!AnalyzeRow
  <2>1. analysis.row \in 0 .. MaxRows /\ analysis.row < Lossy!MainRows
    BY <1>5, NumbersAreTyped, RowsAreSplit, BoundsAssumption DEF Lossy!AnalyzeRow
  <2>2. /\ analysis'.seen = [analysis.seen EXCEPT ![analysis.row] = analysis.seen[analysis.row] + 1]
        /\ analysis'.side = analysis.side /\ analysis'.sideRow = analysis.sideRow
        /\ analysis'.row = analysis.row + 1
    <3>1. Lossy!MBAnalyze(analysis, analysis.row)
            = [analysis EXCEPT !.seen = [analysis.seen EXCEPT ![analysis.row]
                                           = analysis.seen[analysis.row] + 1]]
      BY <1>0, <2>1, RowIsSeen
    <3>2. analysis' = [Lossy!MBAnalyze(analysis, analysis.row) EXCEPT !.row = @ + 1]
      BY <1>5 DEF Lossy!AnalyzeRow
    <3> QED
      BY <1>0, <3>1, <3>2 DEF Analyses
  <2>3. pc \in InAnalysis /\ pc' \in InAnalysis /\ UNCHANGED cfg
    BY <1>5 DEF Lossy!AnalyzeRow
  <2> HIDE DEF AnalysisInv
  <2> QED
    BY <1>4, <2>1, <2>2, <2>3
<1>6. CASE Lossy!SideAnalyzeRow
  <2>1. analysis.sideRow \in 0 .. MaxRows /\ analysis.sideRow < cfg.rows /\ analysis.side = "running"
    BY <1>6, NumbersAreTyped, RowsAreSplit, BoundsAssumption
    DEF Lossy!SideAnalyzeRow, Lossy!SideIsDone
  <2>2. /\ analysis'.seen = [analysis.seen EXCEPT ![analysis.sideRow] = analysis.seen[analysis.sideRow] + 1]
        /\ analysis'.side = analysis.side /\ analysis'.row = analysis.row
        /\ analysis'.sideRow = analysis.sideRow + 1
    <3>1. Lossy!MBAnalyze(analysis, analysis.sideRow)
            = [analysis EXCEPT !.seen = [analysis.seen EXCEPT ![analysis.sideRow]
                                           = analysis.seen[analysis.sideRow] + 1]]
      BY <1>0, <2>1, RowIsSeen
    <3>2. analysis' = [Lossy!MBAnalyze(analysis, analysis.sideRow) EXCEPT !.sideRow = @ + 1]
      BY <1>6 DEF Lossy!SideAnalyzeRow
    <3> QED
      BY <1>0, <3>1, <3>2 DEF Analyses
  <2>3. pc \in InAnalysis /\ pc' \in InAnalysis /\ UNCHANGED cfg
    BY <1>6 DEF Lossy!SideAnalyzeRow
  <2> HIDE DEF AnalysisInv
  <2> QED
    BY <1>4, <2>1, <2>2, <2>3
<1>7. CASE Lossy!SideJobEnds
  <2>1. pc \in InAnalysis /\ UNCHANGED <<pc, cfg>> /\ analysis.sideRow = cfg.rows
    BY <1>7, NumbersAreTyped, RowsAreSplit DEF Lossy!SideJobEnds, Lossy!SideIsDone
  <2>2. /\ analysis'.row = analysis.row /\ analysis'.sideRow = analysis.sideRow
        /\ analysis'.seen = analysis.seen /\ analysis'.side = "over"
    BY <1>0, <1>7 DEF Lossy!SideJobEnds, Analyses
  <2>3. Lossy!MainRows' = Lossy!MainRows
    BY <2>1 DEF Lossy!MainRows, Lossy!DoMt, Lossy!SplitRow
  <2> QED
    BY <2>1, <2>2, <2>3 DEF Seen
<1>8. CASE Lossy!EndAnalysis
  <2>1. CASE pc' = "failed" /\ UNCHANGED <<cfg, analysis>> /\ analysis.side # "running"
    BY <2>1
  <2>2. CASE /\ pc = "analyzing" /\ analysis.row = Lossy!MainRows /\ UNCHANGED cfg
             /\ analysis' = [analysis EXCEPT !.total = analysis.row + analysis.sideRow - Lossy!MainRows]
             /\ pc' = "startAlpha" /\ analysis.side # "running"
    <3>1. /\ analysis'.seen = analysis.seen /\ analysis'.side = analysis.side
          /\ analysis'.total = analysis.row + analysis.sideRow - Lossy!MainRows
      BY <1>0, <2>2 DEF Analyses
    <3>2. analysis.sideRow = cfg.rows /\ \A y \in 0 .. MaxRows : analysis.seen[y] = Seen(y)
      BY <2>2
    <3>3. \A y \in 0 .. MaxRows : analysis.seen[y] = IF y < cfg.rows THEN 1 ELSE 0
      BY <2>2, <3>2, NumbersAreTyped, RowsAreSplit, BoundsAssumption DEF Seen
    <3>4. analysis'.total = cfg.rows
      BY <2>2, <3>1, <3>2, NumbersAreTyped
    <3> QED
      BY <2>2, <3>1, <3>3, <3>4
  <2> QED
    BY <1>8, <2>1, <2>2 DEF Lossy!EndAnalysis
<1>9. CASE UNCHANGED <<cfg, pc, analysis>>
  BY <1>9 DEF Seen, Lossy!MainRows, Lossy!DoMt, Lossy!SplitRow
<1>10. CASE /\ UNCHANGED <<cfg, analysis>>
            /\ pc \in BeforeLoop \cup InLoop \cup AfterLoop \cup Failing
            /\ pc' \notin AtStart \cup InAnalysis
            /\ pc \in Failing => pc' \in Failing \cup {"returned"}
  BY <1>10 DEF LossyTypes, Labels
<1> QED
  BY <1>1, <1>2, <1>3, <1>5, <1>6, <1>7, <1>8, <1>9, <1>10
  DEF LossyNext, Lossy!Next, Lossy!Main, Lossy!SideAnalysis,
      Lossy!VP8EncStartAlpha, Lossy!PreLoopInitialize, Lossy!StatPass,
      Lossy!CodeRow, Lossy!StartPass, Lossy!RecordRow, Lossy!EndPass, Lossy!EmitTokens,
      Lossy!PostLoopFinalize, Lossy!VP8EncFinishAlpha, Lossy!VP8EncWrite, Lossy!DeleteVP8Encoder,
      Lossy!CompressAlphaJob

\* Why error_code is what it is.
LEMMA ReasonNext ==
  ASSUME LossyTypes, AnalysisInv, MemoryInv, ReasonInv, Lossy!ReasonIsGiven, LossyNext
  PROVE  ReasonInv' /\ Lossy!ReasonIsGiven'
<1>0. alpha \in AlphaStates /\ pc \in Labels
  BY DEF LossyTypes
<1>e. ASSUME NEW e, e # "OK", Lossy!WebPEncodingSetError(e) PROVE error' # "OK"
  BY <1>e, ErrorIsKept DEF Lossy!WebPEncodingSetError
<1>f. ASSUME NEW e, e # "OK", Lossy!FailsWith(e)
      PROVE  error' # "OK" /\ pc' = "failed" /\ UNCHANGED refused
  BY <1>e, <1>f DEF Lossy!FailsWith, Lossy!Goto
<1>p. ASSUME NEW in, Lossy!ProgressAborts(in)
      PROVE  error' # "OK" /\ refused' = refused \cup {in}
  BY <1>e, <1>p DEF Lossy!ProgressAborts
<1>k. error # "OK" => error' # "OK"
  BY <1>e, ErrorIsKept
  DEF LossyNext, Lossy!Next, Lossy!Main, Lossy!SideAnalysis, Lossy!InitVP8Encoder,
      Lossy!InitFails, Lossy!ResetAllMBInfo, Lossy!StartAnalysis, Lossy!AnalyzeRow,
      Lossy!EndAnalysis, Lossy!SideAnalyzeRow, Lossy!SideJobEnds, Lossy!VP8EncStartAlpha,
      Lossy!PreLoopInitialize, Lossy!StatPass, Lossy!CodeRow, Lossy!StartPass, Lossy!RecordRow,
      Lossy!EndPass, Lossy!EmitTokens, Lossy!PostLoopFinalize, Lossy!VP8EncFinishAlpha,
      Lossy!VP8EncWrite, Lossy!DeleteVP8Encoder, Lossy!CompressAlphaJob, Lossy!Goto, Lossy!FailsWith,
      Lossy!ProgressOk, Lossy!ProgressAborts, Lossy!WriteErrors
<1> USE DEF ReasonInv, Lossy!ReasonIsGiven, Failing
\* The caller goes on, the hook accepts; or a failure is noticed.
<1>1. CASE /\ UNCHANGED <<error, refused, alpha, result>>
           /\ pc \notin {"abandoned", "returned"} \cup Failing
           /\ pc' \notin {"abandoned", "returned", "failed", "write", "done"}
  BY <1>1
<1>2. CASE /\ error' # "OK" /\ UNCHANGED alpha
           /\ pc' \in {"abandoned"} \cup Failing
  BY <1>2
<1>3. CASE /\ \E in \in {"StatLoop", "ResetAllMBInfo"} : refused' = refused \cup {in}
           /\ error' # "OK" /\ UNCHANGED <<alpha, result>>
           /\ pc \notin {"abandoned", "returned"} \cup Failing
           /\ pc' \notin {"abandoned", "returned", "failed", "write", "done"}
  BY <1>3
<1>4. CASE Lossy!InitVP8Encoder \/ Lossy!SideAnalyzeRow \/ Lossy!SideJobEnds
  BY <1>4 DEF Lossy!InitVP8Encoder, Lossy!SideAnalyzeRow, Lossy!SideJobEnds, Lossy!Goto
<1>5. CASE Lossy!InitFails
  BY <1>5, <1>e DEF Lossy!InitFails, Lossy!Goto
<1>6. CASE Lossy!ResetAllMBInfo
  BY <1>1, <1>3, <1>6, <1>p DEF Lossy!ResetAllMBInfo, Lossy!Goto, Lossy!ProgressOk
<1>7. CASE Lossy!StartAnalysis
  BY <1>1, <1>2, <1>7, <1>f DEF Lossy!StartAnalysis, Lossy!Goto
<1>8. CASE Lossy!AnalyzeRow
  BY <1>1, <1>2, <1>8, <1>p DEF Lossy!AnalyzeRow, Lossy!Goto, Lossy!ProgressOk
<1>9. CASE Lossy!EndAnalysis
  BY <1>1, <1>2, <1>9, <1>f DEF Lossy!EndAnalysis, Lossy!Goto
<1>10. CASE Lossy!VP8EncStartAlpha
  <2>1. CASE UNCHANGED alpha
    BY <1>1, <1>2, <1>10, <1>f, <2>1 DEF Lossy!VP8EncStartAlpha, Lossy!Goto, Lossy!AlphaDone
  <2>2. CASE /\ alpha'.ok = alpha.ok /\ pc = "startAlpha" /\ pc' = "preLoop"
             /\ UNCHANGED <<error, refused, result>>
    BY <2>2
  <2>3. UNCHANGED alpha \/ (alpha'.ok = alpha.ok /\ pc = "startAlpha" /\ pc' = "preLoop"
             /\ UNCHANGED <<error, refused, result>>)
    BY <1>0, <1>10 DEF Lossy!VP8EncStartAlpha, Lossy!Goto, Lossy!AlphaDone, AlphaStates
  <2> QED
    BY <2>1, <2>2, <2>3
<1>11. CASE Lossy!CompressAlphaJob
  <2>1. /\ UNCHANGED <<pc, refused, result>>
        /\ pc \notin {"write", "done", "returned"}
    BY <1>11 DEF Lossy!CompressAlphaJob, MemoryInv
  <2>2. CASE alpha'.ok = alpha.ok /\ UNCHANGED error
    BY <2>1, <2>2
  <2>3. CASE ~ alpha'.ok /\ error' # "OK"
    BY <1>k, <2>1, <2>3
  <2>4. Lossy!AlphaDone.ok = alpha.ok /\ Lossy!AlphaFailed.ok = FALSE
    BY <1>0 DEF Lossy!AlphaDone, Lossy!AlphaFailed, AlphaStates
  <2>5. \/ alpha' = Lossy!AlphaDone /\ UNCHANGED error
        \/ alpha' = Lossy!AlphaFailed /\ error' # "OK"
    BY <1>11, ErrorIsKept DEF Lossy!CompressAlphaJob
  <2> QED
    BY <2>2, <2>3, <2>4, <2>5
<1>12. CASE Lossy!VP8EncFinishAlpha
  <2>1. /\ alpha'.ok = alpha.ok /\ alpha'.worker = alpha.worker /\ alpha.worker # "running"
        /\ pc = "finishAlpha" /\ UNCHANGED result
    BY <1>0, <1>12 DEF Lossy!VP8EncFinishAlpha, Lossy!AlphaSynced, AlphaStates
  <2>2. CASE alpha.ok /\ Lossy!ProgressOk /\ Lossy!Goto("write")
    BY <2>1, <2>2 DEF Lossy!Goto, Lossy!ProgressOk
  <2>3. CASE ~ alpha.ok /\ Lossy!ProgressOk /\ Lossy!Goto("failed")
    BY <2>1, <2>3 DEF Lossy!Goto, Lossy!ProgressOk
  <2>4. CASE pc' = "failed" /\ error' # "OK"
    BY <2>1, <2>4
  <2>5. CASE alpha.ok /\ Lossy!ProgressAborts("VP8EncFinishAlpha") /\ Lossy!Goto("failed")
    BY <1>p, <2>4, <2>5 DEF Lossy!Goto
  <2> QED
    BY <1>12, <2>2, <2>5, <2>3 DEF Lossy!VP8EncFinishAlpha
<1>13. CASE Lossy!PreLoopInitialize
  BY <1>1, <1>2, <1>13, <1>f DEF Lossy!PreLoopInitialize, Lossy!Goto
<1>14. CASE Lossy!StatPass
  BY <1>1, <1>3, <1>14, <1>p DEF Lossy!StatPass, Lossy!Goto, Lossy!ProgressOk
<1>15. CASE Lossy!CodeRow
  <2>1. CASE /\ UNCHANGED <<error, refused, alpha, result>>
             /\ pc = "code" /\ pc' \in {"code", "loopFailed", "postLoop"}
    BY <1>1, <2>1
  <2> QED
    BY <1>2, <1>15, <1>p, <2>1 DEF Lossy!CodeRow, Lossy!Goto, Lossy!ProgressOk
<1>16. CASE Lossy!StartPass \/ Lossy!EndPass
  BY <1>1, <1>16 DEF Lossy!StartPass, Lossy!EndPass, Lossy!Goto
<1>17. CASE Lossy!RecordRow
  BY <1>1, <1>2, <1>17, <1>e, <1>p DEF Lossy!RecordRow, Lossy!Goto, Lossy!ProgressOk
<1>18. CASE Lossy!EmitTokens
  BY <1>1, <1>2, <1>18, <1>p DEF Lossy!EmitTokens, Lossy!Goto, Lossy!ProgressOk
<1>19. CASE Lossy!PostLoopFinalize
  BY <1>1, <1>2, <1>19, <1>f DEF Lossy!PostLoopFinalize, Lossy!Goto
<1>20. CASE Lossy!VP8EncWrite
  <2>1. CASE UNCHANGED <<error, refused, alpha, result>> /\ pc = "write" /\ pc' = "done"
    BY <2>1
  <2> QED
    BY <1>2, <1>20, <1>f, <1>p, <2>1
    DEF Lossy!VP8EncWrite, Lossy!Goto, Lossy!ProgressOk, Lossy!WriteErrors
<1>21. CASE Lossy!DeleteVP8Encoder
  BY <1>0, <1>21 DEF Lossy!DeleteVP8Encoder, Lossy!Goto, AlphaStates
<1> QED
  BY <1>4, <1>5, <1>6, <1>7, <1>8, <1>9, <1>10, <1>11, <1>12, <1>13, <1>14, <1>15,
     <1>16, <1>17, <1>18, <1>19, <1>20, <1>21
  DEF LossyNext, Lossy!Next, Lossy!Main, Lossy!SideAnalysis

\* The passes.
LEMMA LoopNext ==
  ASSUME LossyTypes, LoopInv, LossyNext
  PROVE  LoopInv'
<1>0. loop \in Loops /\ cfg.rows \in Nat /\ loop.row \in Nat /\ loop.side \in Nat
      /\ loop.tokens \in Nat /\ loop.stats \in Nat /\ pc \in Labels
  BY NumbersAreTyped DEF LossyTypes, Loops
<1> USE DEF LoopInv, Lossy!Goto, Lossy!FailsWith, AtStart, InAnalysis, BeforeLoop
<1>1. CASE Lossy!InitVP8Encoder
  BY <1>0, <1>1 DEF Lossy!InitVP8Encoder, Loops
<1>2. CASE UNCHANGED <<cfg, loop, pc>>
  BY <1>2
<1>3. CASE /\ UNCHANGED <<cfg, loop>>
           /\ \/ pc' \in {"failed", "loopFailed", "returned", "done"}
              \/ /\ pc \in {"analyze", "analyzing", "startAlpha"}
                 /\ pc' \in InAnalysis \cup BeforeLoop
              \/ /\ pc \in {"postLoop", "finishAlpha"}
                 /\ pc' \in {"finishAlpha", "write"}
  BY <1>3
<1>4. CASE Lossy!PreLoopInitialize
  BY <1>0, <1>4 DEF Lossy!PreLoopInitialize, Loops
<1>5. CASE Lossy!StatPass
  <2>1. pc = "stat" /\ UNCHANGED cfg /\ pc' \in {"stat", "code"}
    BY <1>5 DEF Lossy!StatPass
  <2>2. loop'.row = loop.row /\ loop'.side = loop.side
    <3> DEFINE l == [loop EXCEPT !.left = @ - 1]
    <3>1. l \in Loops /\ l.row = loop.row /\ l.side = loop.side
      BY <1>0, NumbersAreTyped DEF Loops
    <3> HIDE DEF l
    <3>2. Lossy!HeaderTooLarge(l).row = l.row /\ Lossy!HeaderTooLarge(l).side = l.side
      BY <3>1 DEF Lossy!HeaderTooLarge, Loops
    <3>3. \A n \in Lossy!NextQ(l) : n \in Loops /\ n.row = l.row /\ n.side = l.side
      <4> SUFFICES ASSUME NEW c \in BOOLEAN
                   PROVE  LET n == [l EXCEPT !.converged = c] IN
                          n \in Loops /\ n.row = l.row /\ n.side = l.side
        BY DEF Lossy!NextQ
      <4> QED
        BY <3>1 DEF Loops
    <3>4. \A n \in Loops : LET m == [n EXCEPT !.probas = "final"] IN m.row = n.row /\ m.side = n.side
      BY DEF Loops
    <3>5. loop' = l \/ loop' = Lossy!HeaderTooLarge(l) \/ loop' \in Lossy!NextQ(l)
           \/ \E n \in {l} \cup Lossy!NextQ(l) : loop' = [n EXCEPT !.probas = "final"]
      BY <1>5 DEF Lossy!StatPass, l
    <3>6. CASE loop' = l \/ loop' = Lossy!HeaderTooLarge(l) \/ loop' \in Lossy!NextQ(l)
      BY <3>1, <3>2, <3>3, <3>6
    <3>7. CASE \E n \in {l} \cup Lossy!NextQ(l) : loop' = [n EXCEPT !.probas = "final"]
      <4>1. PICK n \in {l} \cup Lossy!NextQ(l) : loop' = [n EXCEPT !.probas = "final"]
        BY <3>7
      <4>2. n \in Loops /\ n.row = l.row /\ n.side = l.side
        BY <3>1, <3>3
      <4> QED
        BY <3>1, <3>4, <4>1, <4>2
    <3> QED
      BY <3>5, <3>6, <3>7
  <2> QED
    BY <1>0, <2>1, <2>2
<1>6. CASE Lossy!CodeRow
  <2>1. pc = "code" /\ UNCHANGED cfg /\ pc' \in {"code", "loopFailed", "postLoop"}
        /\ (pc' = "postLoop" => loop.row = cfg.rows /\ UNCHANGED loop)
    BY <1>6 DEF Lossy!CodeRow
  <2>2. \/ UNCHANGED loop
        \/ loop.row < cfg.rows /\ loop'.row = loop.row + 1 /\ loop'.side = loop.side + 1
    BY <1>0, <1>6 DEF Lossy!CodeRow, Loops
  <2> QED
    BY <1>0, <2>1, <2>2
<1>7. CASE Lossy!StartPass
  <2> DEFINE l == [loop EXCEPT !.left = @ - 1, !.row = 0, !.tokens = 0,
                               !.last = Lossy!IsLastPass(loop, loop.left - 1)]
  <2>1. l \in Loops /\ l.row = 0 /\ l.tokens = 0 /\ l.side = loop.side
    BY <1>0, NumbersAreTyped DEF Loops, Lossy!IsLastPass
  <2>2. loop' = [l EXCEPT !.stats = IF l.last THEN 0 ELSE @] /\ pc = "pass" /\ pc' = "record"
        /\ UNCHANGED cfg
    BY <1>7 DEF Lossy!StartPass
  <2> HIDE DEF l
  <2>3. loop'.row = 0 /\ loop'.tokens = 0 /\ loop'.side = loop.side
        /\ (loop'.last => loop'.stats = 0)
    BY <2>1, <2>2 DEF Loops
  <2> QED
    BY <1>0, <2>2, <2>3
<1>8. CASE Lossy!RecordRow
  <2>1. pc = "record" /\ UNCHANGED cfg /\ loop.row < cfg.rows
    BY <1>8 DEF Lossy!RecordRow
  <2>2. CASE UNCHANGED loop /\ pc' = "loopFailed"
    BY <2>2
  <2>3. CASE /\ loop' = [loop EXCEPT !.row = @ + 1, !.tokens = @ + 1, !.stats = @ + 1,
                                     !.side = IF loop.last THEN @ + 1 ELSE @]
             /\ pc' \in {"record", "loopFailed"}
    <3>1. /\ loop'.row = loop.row + 1 /\ loop'.tokens = loop.tokens + 1
          /\ loop'.stats = loop.stats + 1 /\ loop'.last = loop.last
          /\ loop'.side = IF loop.last THEN loop.side + 1 ELSE loop.side
      BY <1>0, <2>3 DEF Loops
    <3> QED
      BY <1>0, <2>1, <2>3, <3>1
  <2> QED
    BY <1>8, <2>2, <2>3 DEF Lossy!RecordRow
<1>9. CASE Lossy!EndPass
  <2>1. pc = "record" /\ UNCHANGED cfg /\ loop.row = cfg.rows
    BY <1>9 DEF Lossy!EndPass
  <2>2. CASE loop.last /\ pc' = "emit" /\ UNCHANGED loop
    BY <2>1, <2>2
  <2>3. CASE ~ loop.last /\ loop' \in Lossy!NextQ(loop) /\ pc' = "pass"
    <3>1. loop'.side = loop.side
      BY <1>0, <2>3 DEF Lossy!NextQ, Loops
    <3> QED
      BY <2>1, <2>3, <3>1
  <2>4. CASE /\ loop' = Lossy!HeaderTooLarge(IF loop.last THEN Lossy!ResetSideInfo(loop) ELSE loop)
             /\ pc' = "pass"
    <3>1. loop'.side = 0
      <4>1. CASE loop.last
        BY <1>0, <2>4, <4>1 DEF Lossy!HeaderTooLarge, Lossy!ResetSideInfo, Loops
      <4>2. CASE ~ loop.last
        BY <1>0, <2>1, <2>4, <4>2 DEF Lossy!HeaderTooLarge, Loops
      <4> QED
        BY <4>1, <4>2
    <3> QED
      BY <2>1, <2>4, <3>1
  <2> QED
    BY <1>9, <2>2, <2>3, <2>4 DEF Lossy!EndPass
<1>10. CASE Lossy!EmitTokens
  <2>1. /\ loop'.row = loop.row /\ loop'.side = loop.side /\ loop'.tokens = loop.tokens
        /\ loop'.stats = loop.stats /\ loop'.probas = "final"
    BY <1>0, <1>10 DEF Lossy!EmitTokens, Loops
  <2> QED
    BY <1>10, <2>1 DEF Lossy!EmitTokens
<1> QED
  BY <1>1, <1>2, <1>3, <1>4, <1>5, <1>6, <1>7, <1>8, <1>9, <1>10
  DEF LossyNext, Lossy!Next, Lossy!Main, Lossy!SideAnalysis, Lossy!InitFails,
      Lossy!ResetAllMBInfo, Lossy!StartAnalysis, Lossy!AnalyzeRow, Lossy!EndAnalysis,
      Lossy!SideAnalyzeRow, Lossy!SideJobEnds, Lossy!VP8EncStartAlpha,
      Lossy!PostLoopFinalize, Lossy!VP8EncFinishAlpha, Lossy!VP8EncWrite, Lossy!DeleteVP8Encoder,
      Lossy!CompressAlphaJob

LEMMA LossyInvNext == LossyInv /\ LossyNext => LossyInv'
BY LossyTypesNext, AnalysisNext, MemoryNext, ReasonNext, LoopNext DEF LossyInv

-----------------------------------------------------------------------------
(* The lossless branch *)

\* No choice of configurations has two in a row that may be near-lossless.
LEMMA CrunchConfigsAlternate ==
  ASSUME NEW all \in Lossless!CrunchConfigs
  PROVE  all \in Configurations /\ all # << >> /\ Alternating(all)
<1> DEFINE first == <<"kDirect", "kSpatial", "kSubGreen", "kSpatialSubGreen">>
           second == <<"kPalette", "kPalette", "kPaletteAndSpatial", "kPaletteAndSpatial">>
<1>1. CASE \E e \in Lossless!EntropyIx : all = <<e>>
  BY <1>1 DEF Configurations, Alternating
<1>2. CASE all = <<"kPalette", "kPaletteAndSpatial">>
  BY <1>2 DEF Configurations, Alternating, Lossless!EntropyIx, MayBeNear
<1>3. first \in Configurations /\ Len(first) = 4 /\ second \in Configurations /\ Len(second) = 4
  BY DEF Configurations, Lossless!EntropyIx
<1>4. CASE all = first
  BY <1>4 DEF Configurations, Alternating, Lossless!EntropyIx, MayBeNear
<1>5. CASE all = first \o second
  <2>1. /\ all \in Configurations /\ Len(all) = 8
        /\ \A i \in 1 .. 8 : all[i] = IF i <= 4 THEN first[i] ELSE second[i - 4]
    <3> HIDE DEF first, second
    <3>1. first \in Seq(Lossless!EntropyIx) /\ second \in Seq(Lossless!EntropyIx)
      BY <1>3 DEF Configurations
    <3>2. /\ first \o second \in Seq(Lossless!EntropyIx)
          /\ Len(first \o second) = Len(first) + Len(second)
          /\ \A i \in 1 .. Len(first) + Len(second) :
               (first \o second)[i] = IF i <= Len(first) THEN first[i] ELSE second[i - Len(first)]
      BY <3>1, ConcatProperties
    <3> QED
      BY <1>3, <1>5, <3>2 DEF Configurations
  <2>2. \A i \in 5 .. 8 : all[i] \notin MayBeNear
    <3>1. \A i \in 1 .. 4 : second[i] \notin MayBeNear
      BY DEF MayBeNear
    <3> HIDE DEF first, second
    <3> QED
      BY <2>1, <3>1
  <2>3. all[2] \notin MayBeNear /\ all[4] \notin MayBeNear
    BY <2>1 DEF MayBeNear
  <2>4. all # << >>
    BY <2>1
  <2> HIDE DEF first, second
  <2>5. Alternating(all)
    <3> SUFFICES ASSUME NEW i \in 1 .. 8, i + 1 <= 8
                 PROVE  all[i] \notin MayBeNear \/ all[i + 1] \notin MayBeNear
      BY <2>1 DEF Alternating
    <3> QED
      BY <2>2, <2>3
  <2> QED
    BY <2>1, <2>4, <2>5
<1> QED
  BY <1>1, <1>2, <1>4, <1>5 DEF Lossless!CrunchConfigs, Lossless!AllEntropyIx

\* Neither have the parts it is split into; the caller always has one to try.
SideLength(all, threads) == IF threads THEN Len(all) \div 2 ELSE 0
MainPart(all, threads) == SubSeq(all, 1, Len(all) - SideLength(all, threads))
SidePart(all, threads) == SubSeq(all, Len(all) - SideLength(all, threads) + 1, Len(all))

LEMMA ConfigsAreSplit ==
  ASSUME NEW all \in Lossless!CrunchConfigs, NEW threads \in BOOLEAN
  PROVE  /\ MainPart(all, threads) \in Configurations /\ SidePart(all, threads) \in Configurations
         /\ MainPart(all, threads) # << >>
         /\ Alternating(MainPart(all, threads)) /\ Alternating(SidePart(all, threads))
<1> DEFINE side == SideLength(all, threads)
           main == MainPart(all, threads)
           rest == SidePart(all, threads)
<1>1. all \in Seq(Lossless!EntropyIx) /\ Len(all) \in Nat \ {0} /\ Alternating(all)
  BY CrunchConfigsAlternate, EmptySeq DEF Configurations
<1>2. side \in 0 .. Len(all) - 1
  <2>1. \A n \in Nat \ {0} : n \div 2 \in 0 .. n - 1
    OBVIOUS
  <2>2. Len(all) \div 2 \in 0 .. Len(all) - 1
    BY <1>1, <2>1
  <2>3. side = 0 \/ side = Len(all) \div 2
    BY DEF SideLength
  <2> HIDE DEF side
  <2> QED
    BY <1>1, <2>2, <2>3
<1>3. /\ main = SubSeq(all, 1, Len(all) - side)
      /\ rest = SubSeq(all, Len(all) - side + 1, Len(all))
  BY DEF MainPart, SidePart
<1> HIDE DEF side, main, rest
<1>4. \A i \in 1 .. Len(all) : all[i] \in Lossless!EntropyIx
  BY <1>1, ElementOfSeq
<1>5. /\ main \in Seq(Lossless!EntropyIx) /\ Len(main) = Len(all) - side
      /\ \A i \in 1 .. Len(all) - side : main[i] = all[i]
  <2> DEFINE m == 1  n == Len(all) - side
  <2>1. m \in Int /\ n \in Int /\ m <= n /\ n <= Len(all) /\ \A i \in m .. n : all[i] \in Lossless!EntropyIx
    BY <1>1, <1>2, <1>4
  <2>2. /\ SubSeq(all, m, n) \in Seq(Lossless!EntropyIx) /\ Len(SubSeq(all, m, n)) = n - m + 1
        /\ \A i \in 1 .. n - m + 1 : SubSeq(all, m, n)[i] = all[m + i - 1]
    BY <2>1, SubSeqProperties
  <2> QED
    BY <1>1, <1>2, <1>3, <2>2
<1>6. /\ rest \in Seq(Lossless!EntropyIx) /\ Len(rest) = side
      /\ \A i \in 1 .. side : rest[i] = all[Len(all) - side + i]
  <2> DEFINE m == Len(all) - side + 1  n == Len(all)
  <2>1. m \in Int /\ n \in Int /\ n - m + 1 = side /\ (m <= n <=> side # 0)
        /\ \A i \in m .. n : all[i] \in Lossless!EntropyIx
    BY <1>1, <1>2, <1>4
  <2> HIDE DEF m, n
  <2>2. /\ SubSeq(all, m, n) \in Seq(Lossless!EntropyIx)
        /\ Len(SubSeq(all, m, n)) = IF m <= n THEN n - m + 1 ELSE 0
        /\ \A i \in 1 .. n - m + 1 : SubSeq(all, m, n)[i] = all[m + i - 1]
    BY <2>1, SubSeqProperties
  <2>3. rest = SubSeq(all, m, n) /\ m = Len(all) - side + 1
    BY <1>3 DEF m, n
  <2> QED
    BY <1>1, <1>2, <2>1, <2>2, <2>3
<1>7. main # << >>
  BY <1>1, <1>2, <1>5
<1>8. Alternating(main)
  BY <1>1, <1>2, <1>5 DEF Alternating
<1>9. Alternating(rest)
  <2> SUFFICES ASSUME NEW i \in 1 .. side, i + 1 <= side
               PROVE  rest[i] \notin MayBeNear \/ rest[i + 1] \notin MayBeNear
    BY <1>6 DEF Alternating
  <2>1. Len(all) - side + i \in 1 .. Len(all) /\ (Len(all) - side + i) + 1 <= Len(all)
    BY <1>1, <1>2
  <2>2. Len(all) - side + (i + 1) = (Len(all) - side + i) + 1
    BY <1>1, <1>2
  <2>3. rest[i] = all[Len(all) - side + i] /\ rest[i + 1] = all[(Len(all) - side + i) + 1]
    BY <1>2, <1>6, <2>2
  <2>4. \A k \in 1 .. Len(all) : k + 1 <= Len(all) =>
          all[k] \notin MayBeNear \/ all[k + 1] \notin MayBeNear
    BY <1>1 DEF Alternating
  <2> QED
    BY <2>1, <2>3, <2>4
<1> QED
  BY <1>5, <1>6, <1>7, <1>8, <1>9 DEF Configurations, main, rest

LEMMA ConfigsAreParts ==
  /\ MainConfigs = MainPart(config.configs, config.threads)
  /\ SideConfigs = SidePart(config.configs, config.threads)
  /\ MainConfigs' = MainPart(config'.configs, config'.threads)
  /\ SideConfigs' = SidePart(config'.configs, config'.threads)
BY DEF MainConfigs, SideConfigs, MainPart, SidePart, SideLength, Lossless!Configs

\* The transforms of a configuration are made of fresh pixels of the right kind,
\* provided the buffer does not still hold those of another near-lossless one.
SameWriters(n, j) ==
  n.todo = j.todo /\ n.at = j.at /\ n.bw = j.bw /\ n.best = j.best /\ n.stats = j.stats

LEMMA BufferIsAllocated ==
  ASSUME NEW j \in Jobs, NEW e \in Lossless!EntropyIx
  PROVE  LET n == Lossless!AllocateTransformBuffer(j, e) IN
           /\ n \in Jobs /\ SameWriters(n, j)
           /\ n.argb_content \in {j.argb_content, "kEncoderNone"}
<1>1. Lossless!MemSize(e) \in Nat
  BY DEF Lossless!MemSize
<1>2. Lossless!Garbage \in PixelSets
  BY DEF Lossless!Garbage, Lossless!Pixels, PixelSets, Transformations
<1> QED
  BY <1>1, <1>2 DEF Lossless!AllocateTransformBuffer, Jobs, SameWriters

LEMMA BufferIsFilled ==
  ASSUME NEW j \in Jobs, NEW from \in {"picture", "near"},
         NEW content \in {"kEncoderARGB", "kEncoderNearLossless"}, j.argb_content # content
  PROVE  LET n == Lossless!Fill(j, from, content) IN
           /\ n \in Jobs /\ SameWriters(n, j)
           /\ n.argb = Lossless!Pixels(from, {}) /\ n.argb_content = content
<1>1. Lossless!Pixels(from, {}) \in PixelSets
  BY DEF Lossless!Pixels, PixelSets, Transformations
<1> QED
  BY <1>1 DEF Lossless!Fill, Jobs, SameWriters

LEMMA PixelsAreRight ==
  ASSUME NEW j \in Jobs, NEW e \in Lossless!EntropyIx,
         j.argb_content = "kEncoderNearLossless" => e \notin MayBeNear
  PROVE  LET n == Lossless!Transformed(j, e) IN
           /\ n \in Jobs /\ SameWriters(n, j) /\ n.argb = PixelsOf[e]
           /\ n.argb_content = "kEncoderNearLossless" => e \in MayBeNear
<1> DEFINE near == Lossless!UseNearLossless(e)
           palette == Lossless!UsePalette(e)
           from == IF palette THEN "palette" ELSE IF near THEN "near" ELSE "picture"
           a == Lossless!ApplyNearLossless(j, e)
           b == Lossless!MapImageFromPalette(a, e)
           c == Lossless!MakeInputImageCopy(b, e)
           n == Lossless!ApplyTransforms(c, e)
<1>1. near => e \in MayBeNear /\ ~ palette
  BY DEF Lossless!UseNearLossless, Lossless!UsePalette, Lossless!UsePredict, Lossless!EntropyIx,
         MayBeNear
<1> HIDE DEF near, palette
<1>2. /\ a \in Jobs /\ SameWriters(a, j)
      /\ near => a.argb = Lossless!Pixels("near", {}) /\ a.argb_content = "kEncoderNearLossless"
      /\ ~ near => a.argb_content = "kEncoderNone"
  <2>1. CASE near
    <3> DEFINE m == Lossless!AllocateTransformBuffer(j, e)
    <3>1. /\ m \in Jobs /\ SameWriters(m, j)
          /\ m.argb_content \in {j.argb_content, "kEncoderNone"}
      BY BufferIsAllocated
    <3> HIDE DEF m
    <3>2. a = Lossless!Fill(m, "near", "kEncoderNearLossless")
      BY <2>1 DEF Lossless!ApplyNearLossless, near, m
    <3>3. m.argb_content # "kEncoderNearLossless"
      BY <1>1, <2>1, <3>1
    <3>4. /\ Lossless!Fill(m, "near", "kEncoderNearLossless") \in Jobs
          /\ SameWriters(Lossless!Fill(m, "near", "kEncoderNearLossless"), m)
          /\ Lossless!Fill(m, "near", "kEncoderNearLossless").argb = Lossless!Pixels("near", {})
          /\ Lossless!Fill(m, "near", "kEncoderNearLossless").argb_content = "kEncoderNearLossless"
      BY <3>1, <3>3, BufferIsFilled
    <3> QED
      BY <2>1, <3>1, <3>2, <3>4 DEF SameWriters
  <2>2. CASE ~ near
    <3>1. a = [j EXCEPT !.argb_content = "kEncoderNone"]
      BY <2>2 DEF Lossless!ApplyNearLossless, near
    <3> QED
      BY <2>2, <3>1 DEF Jobs, SameWriters
  <2> QED
    BY <2>1, <2>2
<1> HIDE DEF a
<1>3. /\ b \in Jobs /\ SameWriters(b, j)
      /\ palette => b.argb = Lossless!Pixels("palette", {}) /\ b.argb_content = "kEncoderPalette"
      /\ ~ palette => b = a
  <2>1. CASE palette
    <3> DEFINE m == Lossless!AllocateTransformBuffer(a, e)
    <3>1. m \in Jobs /\ SameWriters(m, a)
      BY <1>2, BufferIsAllocated
    <3> HIDE DEF m
    <3>2. b = [m EXCEPT !.argb = Lossless!Pixels("palette", {}), !.argb_content = "kEncoderPalette"]
      BY <2>1 DEF Lossless!MapImageFromPalette, palette, m
    <3>3. Lossless!Pixels("palette", {}) \in PixelSets
      BY DEF Lossless!Pixels, PixelSets, Transformations
    <3>4. b \in Jobs /\ SameWriters(b, m) /\ b.argb = Lossless!Pixels("palette", {})
            /\ b.argb_content = "kEncoderPalette"
      <4> HIDE DEF b
      <4> QED
        BY <3>1, <3>2, <3>3 DEF Jobs, SameWriters
    <3> QED
      BY <1>2, <2>1, <3>1, <3>4 DEF SameWriters
  <2>2. CASE ~ palette
    BY <1>2, <2>2 DEF Lossless!MapImageFromPalette, palette
  <2> QED
    BY <2>1, <2>2
<1> HIDE DEF b
<1>4. /\ c \in Jobs /\ SameWriters(c, j) /\ c.argb = Lossless!Pixels(from, {})
      /\ c.argb_content = "kEncoderNearLossless" => near
  <2>1. CASE near \/ palette
    <3>1. c = b
      BY <1>1, <1>2, <1>3, <2>1 DEF Lossless!MakeInputImageCopy
    <3> QED
      BY <1>1, <1>2, <1>3, <2>1, <3>1
  <2>2. CASE ~ near /\ ~ palette
    <3> DEFINE m == Lossless!AllocateTransformBuffer(b, e)
    <3>1. /\ m \in Jobs /\ SameWriters(m, b)
          /\ m.argb_content \in {b.argb_content, "kEncoderNone"}
      BY <1>3, BufferIsAllocated
    <3>2. b.argb_content = "kEncoderNone"
      BY <1>2, <1>3, <2>2
    <3> HIDE DEF m
    <3>3. c = Lossless!Fill(m, "picture", "kEncoderARGB")
      BY <3>2 DEF Lossless!MakeInputImageCopy, m
    <3>4. /\ Lossless!Fill(m, "picture", "kEncoderARGB") \in Jobs
          /\ SameWriters(Lossless!Fill(m, "picture", "kEncoderARGB"), m)
          /\ Lossless!Fill(m, "picture", "kEncoderARGB").argb = Lossless!Pixels("picture", {})
          /\ Lossless!Fill(m, "picture", "kEncoderARGB").argb_content = "kEncoderARGB"
      BY <3>1, <3>2, BufferIsFilled
    <3> QED
      BY <1>3, <2>2, <3>1, <3>3, <3>4 DEF SameWriters
  <2> QED
    BY <2>1, <2>2
<1> HIDE DEF c
<1>5. /\ n \in Jobs /\ SameWriters(n, c) /\ n.argb_content = c.argb_content
      /\ n.argb = Lossless!Pixels(from, Lossless!Transforms(e))
  <2>1. Lossless!Transforms(e) \in Transformations
    BY DEF Lossless!Transforms, Transformations
  <2>2. n = [c EXCEPT !.argb = [c.argb EXCEPT !.transforms = c.argb.transforms \cup Lossless!Transforms(e)]]
    BY <1>4 DEF Lossless!ApplyTransforms
  <2>3. [c.argb EXCEPT !.transforms = c.argb.transforms \cup Lossless!Transforms(e)]
          = Lossless!Pixels(from, Lossless!Transforms(e))
    BY <1>4 DEF Lossless!Pixels
  <2>4. Lossless!Pixels(from, Lossless!Transforms(e)) \in PixelSets
    BY <2>1 DEF Lossless!Pixels, PixelSets
  <2> HIDE DEF n
  <2> QED
    BY <1>4, <2>2, <2>3, <2>4 DEF Jobs, SameWriters
<1>6. PixelsOf[e] = Lossless!Pixels(from, Lossless!Transforms(e))
  BY DEF PixelsOf, near, palette
<1>7. Lossless!Transformed(j, e) = n
  BY DEF Lossless!Transformed, a, b, c
<1> QED
  BY <1>1, <1>4, <1>5, <1>6, <1>7 DEF SameWriters

\* Sizes; an empty writer counts as larger than all of them.
LEMMA SizesAreBounded ==
  ASSUME NEW w \in Writers
  PROVE  /\ Lossless!NumBytes(w) \in 1 .. MaxSize + 1
         /\ w.stream = << >> => Lossless!NumBytes(w) = MaxSize + 1
         /\ w.stream # << >> =>
              w.stream[1] \in Streams /\ Lossless!NumBytes(w) = w.stream[1].size
                /\ w.stream[1].size <= MaxSize
<1>1. MaxSize \in Nat \ {0}
  BY BoundsAssumption
<1>2. CASE w.stream = << >>
  BY <1>1, <1>2 DEF Lossless!NumBytes, Lossless!NoSize
<1>3. CASE w.stream # << >>
  <2>1. PICK s \in Streams : w.stream = <<s>>
    BY <1>3 DEF Writers
  <2>2. w.stream[1] = s /\ s.size \in 1 .. MaxSize
    BY <2>1 DEF Streams
  <2> QED
    BY <1>1, <1>3, <2>1, <2>2 DEF Lossless!NumBytes
<1> QED
  BY <1>2, <1>3

\* The writers a hook makes for itself.
LEMMA WritersAreTyped ==
  /\ Lossless!EmptyWriter \in Writers /\ Lossless!StartedWriter \in Writers
  /\ Lossless!EmptyWriter.stream = << >> /\ Lossless!StartedWriter.stream = << >>
  /\ Lossless!StartedWriter.prefix
BY DEF Lossless!EmptyWriter, Lossless!StartedWriter, Writers

\* What a hook does to its job keeps the invariant of the job.
LEMMA JobStarts ==
  ASSUME NEW j \in Jobs, NEW all \in Configurations, all # << >>, NEW pixels,
         JobInv(j, all, TRUE, pixels), j.at = "ready"
  PROVE  LET n == [j EXCEPT !.at = "trying",
                            !.best = IF Len(all) > 1 THEN Lossless!StartedWriter
                                                     ELSE Lossless!EmptyWriter]
         IN n \in Jobs /\ n.at = "trying" /\ JobInv(n, all, TRUE, pixels) /\ Tried(n) = Tried(j)
<1> DEFINE best == IF Len(all) > 1 THEN Lossless!StartedWriter ELSE Lossless!EmptyWriter
           n == [j EXCEPT !.at = "trying", !.best = best]
<1>1. best \in Writers /\ best.stream = << >> /\ (Len(all) > 1 => best.prefix)
  BY WritersAreTyped
<1> HIDE DEF best
<1>2. /\ n \in Jobs /\ n.at = "trying" /\ n.best = best /\ n.bw = j.bw /\ n.todo = j.todo
      /\ n.argb_content = j.argb_content
  BY <1>1 DEF Jobs
<1> HIDE DEF n
<1>3. j = Lossless!NewJob(all)
  BY DEF JobInv
<1>4. j.todo = all /\ j.bw.prefix /\ j.best.stream = << >> /\ j.best \in Writers
  BY <1>3, WritersAreTyped DEF Lossless!NewJob
<1>5. Len(all) \in Nat
  BY DEF Configurations
<1>6. JobInv(n, all, TRUE, pixels)
  BY <1>1, <1>2, <1>4, <1>5 DEF JobInv
<1>7. Tried(n) = Tried(j)
  BY <1>1, <1>2, <1>4, SizesAreBounded DEF Tried
<1> QED
  BY <1>2, <1>6, <1>7 DEF n, best

LEMMA JobTries ==
  ASSUME NEW j \in Jobs, NEW all \in Configurations, all # << >>,
         JobInv(j, all, TRUE, PixelsOf), j.at = "trying", j.todo # << >>,
         NEW size \in 1 .. MaxSize
  PROVE  LET n == Lossless!TryConfig(j, Head(j.todo), size, Len(all) > 1)
         IN /\ n \in Jobs /\ n.at = "trying" /\ JobInv(n, all, TRUE, PixelsOf)
            /\ Tried(n) = SmallestOf(size, Tried(j))
<1> DEFINE e == j.todo[1]
           t == Lossless!Transformed(j, e)
           several == Len(all) > 1
           s == [of |-> e, argb |-> t.argb, size |-> size]
           bw == [t.bw EXCEPT !.stream = <<s>>]
           better == size < Lossless!NumBytes(t.best)
           left == IF better THEN t.best ELSE bw
           d == Lossless!Encoded(t, e, size, several)
           n == [d EXCEPT !.todo = Tail(d.todo)]
<1>1. /\ j.todo \in Seq(Lossless!EntropyIx) /\ e \in Lossless!EntropyIx /\ Head(j.todo) = e
      /\ Len(j.todo) \in Nat \ {0} /\ Len(all) \in Nat \ {0}
      /\ Tail(j.todo) \in Seq(Lossless!EntropyIx) /\ Len(Tail(j.todo)) = Len(j.todo) - 1
      /\ \A i \in 1 .. Len(j.todo) - 1 : Tail(j.todo)[i] = j.todo[i + 1]
  <2>1. j.todo \in Seq(Lossless!EntropyIx) /\ all \in Seq(Lossless!EntropyIx)
    BY DEF Jobs, Configurations
  <2>2. Head(j.todo) \in Lossless!EntropyIx /\ Head(j.todo) = e
    BY <2>1, HeadTailProperties
  <2> QED
    BY <2>1, <2>2, HeadTailProperties, EmptySeq
<1>2. /\ t \in Jobs /\ SameWriters(t, j) /\ t.argb = PixelsOf[e]
      /\ t.argb_content = "kEncoderNearLossless" => e \in MayBeNear
  <2>1. j.argb_content = "kEncoderNearLossless" => e \notin MayBeNear
    BY DEF JobInv
  <2> QED
    BY <1>1, <2>1, PixelsAreRight
<1> HIDE DEF t
<1>3. s \in Streams /\ s.of = e /\ s.argb = PixelsOf[e] /\ s.size = size
  BY <1>1, <1>2 DEF Streams, Jobs
<1> HIDE DEF s
<1>4. j.bw \in Writers /\ j.best \in Writers /\ t.bw = j.bw /\ t.best = j.best
  BY <1>2 DEF SameWriters, Jobs
<1>5. /\ bw \in Writers /\ bw.prefix = j.bw.prefix /\ bw.stream = <<s>> /\ bw.stream[1] = s
      /\ bw.stream # << >>
  BY <1>3, <1>4 DEF Writers
<1> HIDE DEF bw
<1>6. left \in Writers
  BY <1>4, <1>5
<1>7. Lossless!VP8LBitWriterReset(left) \in Writers
        /\ Lossless!VP8LBitWriterReset(left).prefix = left.prefix
  BY <1>6 DEF Lossless!VP8LBitWriterReset, Writers
<1>8. d = [t EXCEPT !.best = IF better THEN bw ELSE t.best,
                    !.bw = IF several THEN Lossless!VP8LBitWriterReset(left) ELSE left,
                    !.stats = IF better THEN e ELSE t.stats]
  BY <1>2 DEF Lossless!Encoded, Jobs, bw, s
<1>9. /\ n \in Jobs /\ n.at = "trying" /\ n.todo = Tail(j.todo)
      /\ n.best = (IF better THEN bw ELSE j.best)
      /\ n.bw = (IF several THEN Lossless!VP8LBitWriterReset(left) ELSE left)
      /\ n.stats = (IF better THEN e ELSE j.stats)
      /\ n.argb_content = t.argb_content
  <2> DEFINE nb == IF better THEN bw ELSE t.best
             nw == IF several THEN Lossless!VP8LBitWriterReset(left) ELSE left
             ns == IF better THEN e ELSE t.stats
  <2>1. /\ nb \in Writers /\ nb = (IF better THEN bw ELSE j.best)
        /\ nw \in Writers /\ ns \in {"none"} \cup Lossless!EntropyIx
        /\ ns = (IF better THEN e ELSE j.stats)
    BY <1>1, <1>2, <1>4, <1>5, <1>6, <1>7 DEF Jobs, SameWriters
  <2> HIDE DEF better, left
  <2>2. d = [t EXCEPT !.best = nb, !.bw = nw, !.stats = ns]
    BY <1>8
  <2>3. n = [d EXCEPT !.todo = Tail(d.todo)]
    OBVIOUS
  <2> HIDE DEF nb, nw, ns, d, n
  <2>4. /\ d \in Jobs /\ d.best = nb /\ d.bw = nw /\ d.stats = ns /\ d.todo = t.todo
        /\ d.at = t.at /\ d.argb_content = t.argb_content
    BY <1>2, <2>1, <2>2 DEF Jobs
  <2>5. t.todo = j.todo /\ t.at = "trying"
    BY <1>2 DEF SameWriters
  <2>6. /\ n \in Jobs /\ n.best = nb /\ n.bw = nw /\ n.stats = ns /\ n.todo = Tail(j.todo)
        /\ n.at = "trying" /\ n.argb_content = t.argb_content
    BY <1>1, <2>3, <2>4, <2>5 DEF Jobs, Configurations
  <2> QED
    BY <2>1, <2>6 DEF nw
<1> HIDE DEF d, n
<1>10. Lossless!TryConfig(j, Head(j.todo), size, Len(all) > 1) = n
  BY <1>1 DEF Lossless!TryConfig, n, d, t
<1>11. Tried(n) = SmallestOf(size, Tried(j))
  <2>1. Lossless!NumBytes(bw) = size
    BY <1>3, <1>5, SizesAreBounded
  <2> QED
    BY <1>4, <1>9, <2>1 DEF Tried, SmallestOf
<1>12. j.best.stream = << >> => better
  BY <1>4, SizesAreBounded, BoundsAssumption
<1>13. Alternating(n.todo) /\ (n.argb_content = "kEncoderNearLossless" /\ n.todo # << >> =>
                                n.todo[1] \notin MayBeNear)
  <2>1. \A i \in 1 .. Len(j.todo) : i + 1 <= Len(j.todo) =>
          j.todo[i] \notin MayBeNear \/ j.todo[i + 1] \notin MayBeNear
    BY DEF JobInv, Alternating
  <2>2. \A i \in 1 .. Len(Tail(j.todo)) : i + 1 <= Len(Tail(j.todo)) =>
          Tail(j.todo)[i] \notin MayBeNear \/ Tail(j.todo)[i + 1] \notin MayBeNear
    <3> SUFFICES ASSUME NEW i \in 1 .. Len(Tail(j.todo)), i + 1 <= Len(Tail(j.todo))
                 PROVE  Tail(j.todo)[i] \notin MayBeNear \/ Tail(j.todo)[i + 1] \notin MayBeNear
      OBVIOUS
    <3>1. /\ i + 1 \in 1 .. Len(j.todo) /\ (i + 1) + 1 <= Len(j.todo)
          /\ Tail(j.todo)[i] = j.todo[i + 1] /\ Tail(j.todo)[i + 1] = j.todo[(i + 1) + 1]
      BY <1>1
    <3> QED
      BY <2>1, <3>1
  <2>3. ASSUME n.argb_content = "kEncoderNearLossless", n.todo # << >>
        PROVE  n.todo[1] \notin MayBeNear
    <3>1. e \in MayBeNear
      BY <1>2, <1>9, <2>3
    <3>2. Len(j.todo) - 1 \in Nat \ {0}
      BY <1>1, <1>9, <2>3, EmptySeq
    <3>3. 1 \in 1 .. Len(j.todo) - 1 /\ 1 \in 1 .. Len(j.todo) /\ 1 + 1 <= Len(j.todo)
      <4>1. \A l \in Nat : l - 1 \in Nat \ {0} => 1 \in 1 .. l - 1 /\ 1 \in 1 .. l /\ 1 + 1 <= l
        OBVIOUS
      <4> QED
        BY <1>1, <3>2, <4>1
    <3>4. n.todo[1] = j.todo[1 + 1]
      BY <1>1, <1>9, <3>3
    <3>5. j.todo[1] \notin MayBeNear \/ j.todo[1 + 1] \notin MayBeNear
      BY <2>1, <3>3
    <3> QED
      BY <3>1, <3>4, <3>5
  <2> QED
    BY <1>9, <2>2, <2>3 DEF Alternating
<1>14. Good(n.best, n.stats, PixelsOf)
  <2>1. CASE better
    <3>1. j.bw.prefix
      BY <1>1 DEF JobInv
    <3> QED
      BY <1>3, <1>5, <1>9, <2>1, <3>1 DEF Good
  <2>2. CASE ~ better
    BY <1>9, <1>12, <2>2 DEF Good, JobInv
  <2> QED
    BY <2>1, <2>2
<1>15. Len(all) > 1 => n.bw.prefix /\ n.best.prefix
  <2>1. Len(all) > 1 => j.bw.prefix /\ j.best.prefix
    BY DEF JobInv
  <2> QED
    BY <1>4, <1>5, <1>7, <1>9, <2>1
<1>16. Len(all) <= 1 => n.todo = << >>
  <2>1. Len(j.todo) <= Len(all)
    BY DEF JobInv
  <2> QED
    BY <1>1, <1>9, <2>1, EmptySeq
<1>17. JobInv(n, all, TRUE, PixelsOf)
  <2>1. Len(n.todo) <= Len(all)
    BY <1>1, <1>9 DEF JobInv
  <2>2. n.best.stream # << >>
    BY <1>14 DEF Good
  <2> QED
    BY <1>1, <1>9, <1>13, <1>14, <1>15, <1>16, <2>1, <2>2 DEF JobInv
<1> QED
  BY <1>9, <1>10, <1>11, <1>17

LEMMA JobFinishes ==
  ASSUME NEW j \in Jobs, NEW all, NEW pixels,
         JobInv(j, all, TRUE, pixels), j.at = "trying", j.todo = << >>
  PROVE  LET n == [j EXCEPT !.at = "over", !.bw = j.best, !.best = Lossless!EmptyWriter]
         IN n \in Jobs /\ n.at = "over" /\ JobInv(n, all, TRUE, pixels) /\ Tried(n) = Tried(j)
<1> DEFINE n == [j EXCEPT !.at = "over", !.bw = j.best, !.best = Lossless!EmptyWriter]
<1>1. /\ n \in Jobs /\ n.at = "over" /\ n.bw = j.best /\ n.todo = j.todo /\ n.stats = j.stats
      /\ n.argb_content = j.argb_content
  BY WritersAreTyped DEF Jobs
<1> HIDE DEF n
<1>2. JobInv(n, all, TRUE, pixels)
  BY <1>1 DEF JobInv
<1> QED
  BY <1>1, <1>2 DEF Tried, n

LEMMA JobStops ==
  ASSUME NEW j \in Jobs, NEW all, NEW ok \in BOOLEAN, NEW pixels, JobInv(j, all, ok, pixels)
  PROVE  LET n == [j EXCEPT !.at = "over", !.best = Lossless!EmptyWriter]
         IN n \in Jobs /\ n.at = "over" /\ JobInv(n, all, FALSE, pixels)
<1> DEFINE n == [j EXCEPT !.at = "over", !.best = Lossless!EmptyWriter]
<1>1. /\ n \in Jobs /\ n.at = "over" /\ n.todo = j.todo /\ n.argb_content = j.argb_content
  BY WritersAreTyped DEF Jobs
<1> HIDE DEF n
<1>2. JobInv(n, all, FALSE, pixels)
  BY <1>1 DEF JobInv
<1> QED
  BY <1>1, <1>2 DEF n

\* While the configurations stay, so does what is derived from them.
LEMMA ConfigIsKept ==
  ASSUME UNCHANGED config
  PROVE  /\ MainConfigs' = MainConfigs /\ SideConfigs' = SideConfigs /\ PixelsOf' = PixelsOf
         /\ Lossless!Owned' = Lossless!Owned
BY DEF MainConfigs, SideConfigs, PixelsOf, Lossless!Owned, Lossless!HasSide, Lossless!Configs,
       Lossless!Pixels, Lossless!UsePalette, Lossless!UseNearLossless, Lossless!UsePredict,
       Lossless!Transforms, Lossless!UseSubtractGreen, Lossless!UseCrossColor

LEMMA HookIsTyped ==
  ASSUME LosslessTypes
  PROVE  /\ jobs["main"] \in Jobs /\ jobs["side"] \in Jobs
         /\ DOMAIN jobs = {"main", "side"}
BY DEF LosslessTypes, Lossless!Threads

\* A step of a thread's hook, as a step of its job.
JobStep(j, n, all, size) ==
  \/ j.at = "ready" /\ size = MaxSize + 1
       /\ n = [j EXCEPT !.at = "trying",
                        !.best = IF Len(all) > 1 THEN Lossless!StartedWriter
                                                 ELSE Lossless!EmptyWriter]
  \/ j.at = "trying" /\ j.todo # << >> /\ size \in 1 .. MaxSize
       /\ n = Lossless!TryConfig(j, Head(j.todo), size, Len(all) > 1)
  \/ j.at = "trying" /\ j.todo = << >> /\ size = MaxSize + 1
       /\ n = [j EXCEPT !.at = "over", !.bw = j.best, !.best = Lossless!EmptyWriter]

JobFails(j, n) ==
  j.at \in {"ready", "trying"}
    /\ n = [j EXCEPT !.at = "over", !.best = Lossless!EmptyWriter]

LEMMA JobSteps ==
  ASSUME NEW j \in Jobs, NEW all \in Configurations, all # << >>,
         NEW ok \in BOOLEAN, JobInv(j, all, ok, PixelsOf),
         NEW n, NEW size, JobStep(j, n, all, size)
  PROVE  /\ n \in Jobs /\ JobInv(n, all, ok, PixelsOf) /\ ok = TRUE
         /\ size \in 1 .. MaxSize + 1 /\ Tried(j) \in 1 .. MaxSize + 1
         /\ Tried(n) = SmallestOf(size, Tried(j))
<1>1. ok = TRUE
  BY DEF JobInv, JobStep
<1>2. Tried(j) \in 1 .. MaxSize + 1 /\ MaxSize \in Nat
  <2>1. j.bw \in Writers /\ j.best \in Writers
    BY DEF Jobs
  <2> QED
    BY <2>1, SizesAreBounded, BoundsAssumption DEF Tried
<1>3. JobInv(j, all, TRUE, PixelsOf)
  BY <1>1
<1>4. SmallestOf(MaxSize + 1, Tried(j)) = Tried(j)
  BY <1>2 DEF SmallestOf
<1>5. CASE /\ j.at = "ready" /\ size = MaxSize + 1
           /\ n = [j EXCEPT !.at = "trying",
                            !.best = IF Len(all) > 1 THEN Lossless!StartedWriter
                                                     ELSE Lossless!EmptyWriter]
  <2>1. n \in Jobs /\ JobInv(n, all, TRUE, PixelsOf) /\ Tried(n) = Tried(j)
    BY <1>3, <1>5, JobStarts
  <2>2. JobInv(n, all, ok, PixelsOf)
    BY <1>1, <2>1
  <2>3. size \in 1 .. MaxSize + 1
    BY <1>2, <1>5
  <2> QED
    BY <1>1, <1>2, <1>4, <1>5, <2>1, <2>2, <2>3
<1>6. CASE /\ j.at = "trying" /\ j.todo # << >> /\ size \in 1 .. MaxSize
           /\ n = Lossless!TryConfig(j, Head(j.todo), size, Len(all) > 1)
  <2>1. n \in Jobs /\ JobInv(n, all, TRUE, PixelsOf) /\ Tried(n) = SmallestOf(size, Tried(j))
    BY <1>3, <1>6, JobTries
  <2>2. JobInv(n, all, ok, PixelsOf)
    BY <1>1, <2>1
  <2>3. size \in 1 .. MaxSize + 1
    BY <1>2, <1>6
  <2> QED
    BY <1>1, <1>2, <1>6, <2>1, <2>2, <2>3
<1>7. CASE /\ j.at = "trying" /\ j.todo = << >> /\ size = MaxSize + 1
           /\ n = [j EXCEPT !.at = "over", !.bw = j.best, !.best = Lossless!EmptyWriter]
  <2>1. n \in Jobs /\ JobInv(n, all, TRUE, PixelsOf) /\ Tried(n) = Tried(j)
    BY <1>3, <1>7, JobFinishes
  <2>2. JobInv(n, all, ok, PixelsOf)
    BY <1>1, <2>1
  <2>3. size \in 1 .. MaxSize + 1
    BY <1>2, <1>7
  <2> QED
    BY <1>1, <1>2, <1>4, <1>7, <2>1, <2>2, <2>3
<1> QED
  BY <1>5, <1>6, <1>7 DEF JobStep

\* Every step of a hook is such a step.
LEMMA HookSteps ==
  ASSUME LosslessTypes, NEW t \in {"main", "side"}, Lossless!Hook(t)
  PROVE  /\ UNCHANGED <<config, lpc, worker, held, result>>
         /\ Lossless!Runs(t)
         /\ \/ /\ UNCHANGED <<error, sideError>>
               /\ \E n, size : /\ JobStep(jobs[t], n, Lossless!Configs(t), size)
                               /\ jobs' = [jobs EXCEPT ![t] = n]
                               /\ smallest' = IF size < smallest THEN size ELSE smallest
            \/ /\ UNCHANGED smallest
               /\ Lossless!Reports(t)
               /\ \E n : JobFails(jobs[t], n) /\ jobs' = [jobs EXCEPT ![t] = n]
<1>0. jobs[t] \in Jobs /\ MaxSize \in Nat /\ smallest \in 1 .. MaxSize + 1
  BY BoundsAssumption, HookIsTyped DEF LosslessTypes
<1>1. CASE Lossless!HookStarts(t)
  <2> DEFINE n == [jobs[t] EXCEPT !.at = "trying",
                        !.best = IF Len(Lossless!Configs(t)) > 1 THEN Lossless!StartedWriter
                                                 ELSE Lossless!EmptyWriter]
  <2>1. JobStep(jobs[t], n, Lossless!Configs(t), MaxSize + 1)
    BY <1>1 DEF Lossless!HookStarts, JobStep
  <2>2. jobs' = [jobs EXCEPT ![t] = n]
    BY <1>1, HookIsTyped DEF Lossless!HookStarts, LosslessTypes, Lossless!Threads
  <2>3. smallest' = IF MaxSize + 1 < smallest THEN MaxSize + 1 ELSE smallest
    BY <1>0, <1>1 DEF Lossless!HookStarts
  <2> HIDE DEF n
  <2> QED
    BY <1>1, <2>1, <2>2, <2>3 DEF Lossless!HookStarts
<1>2. CASE Lossless!HookFinishes(t)
  <2> DEFINE n == [jobs[t] EXCEPT !.at = "over", !.bw = jobs[t].best, !.best = Lossless!EmptyWriter]
  <2>1. JobStep(jobs[t], n, Lossless!Configs(t), MaxSize + 1)
    BY <1>2 DEF Lossless!HookFinishes, JobStep
  <2>2. jobs' = [jobs EXCEPT ![t] = n]
    BY <1>2, HookIsTyped DEF Lossless!HookFinishes, LosslessTypes, Lossless!Threads
  <2>3. smallest' = IF MaxSize + 1 < smallest THEN MaxSize + 1 ELSE smallest
    BY <1>0, <1>2 DEF Lossless!HookFinishes
  <2> HIDE DEF n
  <2> QED
    BY <1>2, <2>1, <2>2, <2>3 DEF Lossless!HookFinishes
<1>3. CASE \E size \in 1 .. MaxSize : Lossless!HookTries(t, size)
  <2>1. PICK size \in 1 .. MaxSize : Lossless!HookTries(t, size)
    BY <1>3
  <2> DEFINE n == Lossless!TryConfig(jobs[t], Head(jobs[t].todo), size, Len(Lossless!Configs(t)) > 1)
  <2>2. JobStep(jobs[t], n, Lossless!Configs(t), size)
    BY <2>1 DEF Lossless!HookTries, JobStep
  <2>3. jobs' = [jobs EXCEPT ![t] = n]
    BY <2>1 DEF Lossless!HookTries
  <2> HIDE DEF n
  <2> QED
    BY <2>1, <2>2, <2>3 DEF Lossless!HookTries
<1>4. CASE Lossless!HookStops(t)
  <2> DEFINE n == [jobs[t] EXCEPT !.at = "over", !.best = Lossless!EmptyWriter]
  <2>1. JobFails(jobs[t], n)
    BY <1>4 DEF Lossless!HookStops, JobFails
  <2>2. jobs' = [jobs EXCEPT ![t] = n]
    BY <1>4, HookIsTyped DEF Lossless!HookStops, LosslessTypes, Lossless!Threads
  <2> HIDE DEF n
  <2> QED
    BY <1>4, <2>1, <2>2 DEF Lossless!HookStops
<1> QED
  BY <1>1, <1>2, <1>3, <1>4 DEF Lossless!Hook

LEMMA LosslessTypesNext ==
  ASSUME LosslessInv, error \in Errors, Lossless!Next
  PROVE  LosslessTypes' /\ error' \in Errors
<1>0. LosslessTypes
  BY DEF LosslessInv
<1>1. \A t \in {"main", "side"} : Lossless!Reports(t) => error' \in Errors /\ sideError' \in Errors
  BY <1>0 DEF LosslessTypes, Lossless!Reports, Lossless!SetError, Errors
<1>2. CASE \E t \in {"main", "side"} : Lossless!Hook(t)
  <2>1. PICK t \in {"main", "side"} : Lossless!Hook(t)
    BY <1>2
  <2> DEFINE all == Lossless!Configs(t)
             ok == IF t = "main" THEN error = "OK" ELSE sideError = "OK"
  <2>2. /\ jobs[t] \in Jobs /\ all \in Configurations /\ all # << >> /\ ok \in BOOLEAN
        /\ JobInv(jobs[t], all, ok, PixelsOf)
    <3>1. lpc = "execute" /\ (t = "side" => worker = "running")
      BY <1>0, <2>1, HookSteps DEF Lossless!Runs, LosslessInv, ThreadsInv
    <3> QED
      BY <1>0, <3>1, HookIsTyped DEF LosslessInv, ThreadsInv, MainConfigs, SideConfigs
  <2>3. ASSUME NEW n, JobFails(jobs[t], n) PROVE n \in Jobs
    BY <2>2, <2>3, JobStops DEF JobFails
  <2> HIDE DEF all, ok
  <2>4. ASSUME NEW n, NEW size, JobStep(jobs[t], n, all, size)
        PROVE  n \in Jobs /\ size \in 1 .. MaxSize + 1
    BY <2>2, <2>4, JobSteps
  <2>5. jobs' \in [Lossless!Threads -> Jobs] /\ smallest' \in 1 .. MaxSize + 1
          /\ error' \in Errors /\ sideError' \in Errors
    BY <1>0, <1>1, <2>1, <2>3, <2>4, HookSteps DEF LosslessTypes, Lossless!Threads, all
  <2> QED
    BY <1>0, <2>1, <2>5, HookSteps DEF LosslessTypes
<1>3. CASE Lossless!VP8LEncodeImage
  BY <1>0, <1>3 DEF Lossless!VP8LEncodeImage, LosslessTypes, LosslessLabels
<1>4. CASE Lossless!SetUp
  <2>1. /\ config' \in [configs : Configurations, threads : BOOLEAN,
                        nearLossless : BOOLEAN, crossColor : BOOLEAN]
        /\ config'.configs \in Lossless!CrunchConfigs
    <3>1. PICK all \in Lossless!CrunchConfigs, crossColor \in BOOLEAN :
            config' = [config EXCEPT !.configs = all, !.crossColor = crossColor]
      BY <1>4 DEF Lossless!SetUp
    <3> QED
      BY <1>0, <3>1, CrunchConfigsAlternate DEF LosslessTypes
  <2>2. MainConfigs' \in Configurations /\ SideConfigs' \in Configurations
    BY <2>1, ConfigsAreSplit, ConfigsAreParts
  <2>3. \A all \in Configurations : Lossless!NewJob(all) \in Jobs
    BY WritersAreTyped DEF Lossless!NewJob, Jobs, Lossless!Garbage, Lossless!Pixels, PixelSets,
                           Transformations
  <2>4. jobs' \in [Lossless!Threads -> Jobs]
    BY <1>4, <2>2, <2>3 DEF Lossless!SetUp, MainConfigs, SideConfigs, Lossless!Threads
  <2> QED
    BY <1>0, <1>4, <2>1, <2>4 DEF Lossless!SetUp, LosslessTypes, LosslessLabels
<1>5. CASE Lossless!ChooseStream
  <2>1. jobs' \in [Lossless!Threads -> Jobs]
    <3> DEFINE m == jobs["main"]
               s == jobs["side"]
               n == [m EXCEPT !.bw = s.bw, !.stats = s.stats]
               o == [s EXCEPT !.bw = m.bw]
    <3>1. m \in Jobs /\ s \in Jobs
      BY <1>0, HookIsTyped
    <3>2. n \in Jobs /\ o \in Jobs
      BY <3>1 DEF Jobs
    <3>3. jobs' = jobs \/ jobs' = [jobs EXCEPT !["main"] = n, !["side"] = o]
      BY <1>0, <1>5 DEF Lossless!ChooseStream, LosslessTypes, Lossless!Threads
    <3> HIDE DEF n, o
    <3> QED
      BY <1>0, <3>2, <3>3 DEF LosslessTypes, Lossless!Threads
  <2> QED
    BY <1>0, <1>5, <2>1
    DEF Lossless!ChooseStream, LosslessTypes, LosslessLabels, Lossless!SetError
<1>6. CASE Lossless!WriteHeader \/ Lossless!SetUpFails \/ Lossless!SyncJobs
             \/ Lossless!FreeStream \/ Lossless!WriteImage \/ Lossless!Return
  BY <1>0, <1>6
  DEF Lossless!WriteHeader, Lossless!SetUpFails, Lossless!SyncJobs, Lossless!FreeStream,
      Lossless!WriteImage, Lossless!Return, LosslessTypes, LosslessLabels, Lossless!Fails,
      Lossless!SetError, Errors, Lossy!WriteErrors
<1> QED
  BY <1>2, <1>3, <1>4, <1>5, <1>6 DEF Lossless!Next, Lossless!Main

LEMMA HeldNext ==
  ASSUME LosslessInv, Lossless!Next
  PROVE  HeldInv'
<1>0. LosslessTypes
  BY DEF LosslessInv
<1> USE DEF LosslessInv, HeldInv, ErrorInv
<1>1. CASE \E t \in {"main", "side"} : Lossless!Hook(t)
  <2>1. UNCHANGED <<config, lpc, held>>
    BY <1>0, <1>1, HookSteps
  <2> QED
    BY <2>1, ConfigIsKept
<1>2. CASE Lossless!VP8LEncodeImage \/ Lossless!WriteHeader
  BY <1>2 DEF Lossless!VP8LEncodeImage, Lossless!WriteHeader, Lossless!Fails
<1>3. CASE Lossless!SetUp
  BY <1>3 DEF Lossless!SetUp
<1>4. CASE Lossless!SetUpFails
  BY <1>4 DEF Lossless!SetUpFails, Lossless!Fails
<1>5. CASE Lossless!SyncJobs
  BY <1>5, ConfigIsKept DEF Lossless!SyncJobs
<1>6. CASE Lossless!ChooseStream
  BY <1>6 DEF Lossless!ChooseStream, Lossless!Owned
<1>7. CASE Lossless!FreeStream \/ Lossless!WriteImage \/ Lossless!Return
  BY <1>7 DEF Lossless!FreeStream, Lossless!WriteImage, Lossless!Return, Lossless!Fails
<1> QED
  BY <1>1, <1>2, <1>3, <1>4, <1>5, <1>6, <1>7 DEF Lossless!Next, Lossless!Main

LEMMA ErrorNext ==
  ASSUME LosslessInv, error \in Errors, Lossless!Next
  PROVE  ErrorInv'
<1>0. LosslessTypes
  BY DEF LosslessInv
<1> USE DEF LosslessInv, ErrorInv, Lossless!ReasonIsGiven
<1>1. CASE \E t \in {"main", "side"} : Lossless!Hook(t)
  BY <1>0, <1>1, HookSteps DEF Lossless!Runs, ThreadsInv
<1>2. CASE Lossless!VP8LEncodeImage \/ Lossless!WriteHeader \/ Lossless!SetUp
  BY <1>2 DEF Lossless!VP8LEncodeImage, Lossless!WriteHeader, Lossless!SetUp, Lossless!Fails
<1>3. CASE Lossless!SetUpFails
  BY <1>3 DEF Lossless!SetUpFails, Lossless!Fails, Lossless!SetError
<1>4. CASE Lossless!SyncJobs
  BY <1>4 DEF Lossless!SyncJobs
<1>5. CASE Lossless!ChooseStream
  <2>1. ~ Lossless!HasSide => sideError = "OK"
    BY <1>5 DEF Lossless!ChooseStream, ThreadsInv, JobInv, Lossless!HasSide, SideConfigs
  <2> QED
    BY <1>5, <2>1 DEF Lossless!ChooseStream, Lossless!HookOk, Lossless!SetError
<1>6. CASE Lossless!FreeStream
  BY <1>6 DEF Lossless!FreeStream
<1>7. CASE Lossless!WriteImage \/ Lossless!Return
  BY <1>7 DEF Lossless!WriteImage, Lossless!Return, Lossless!Fails
<1> QED
  BY <1>1, <1>2, <1>3, <1>4, <1>5, <1>6, <1>7 DEF Lossless!Next, Lossless!Main

LEMMA SmallestIsAssociative ==
  ASSUME NEW a \in Nat, NEW b \in Nat, NEW c \in Nat
  PROVE  /\ SmallestOf(SmallestOf(a, b), c) = SmallestOf(a, SmallestOf(b, c))
         /\ SmallestOf(b, SmallestOf(a, c)) = SmallestOf(a, SmallestOf(b, c))
BY DEF SmallestOf

LEMMA TriedIsBounded ==
  ASSUME NEW j \in Jobs
  PROVE  Tried(j) \in Nat /\ Tried(j) <= MaxSize + 1
<1>1. j.bw \in Writers /\ j.best \in Writers
  BY DEF Jobs
<1> QED
  BY <1>1, SizesAreBounded, BoundsAssumption DEF Tried

LEMMA ThreadsNextHook ==
  ASSUME LosslessInv, NEW t \in {"main", "side"}, Lossless!Hook(t)
  PROVE  ThreadsInv'
<1>0. LosslessTypes /\ ThreadsInv /\ jobs["main"] \in Jobs /\ jobs["side"] \in Jobs
      /\ DOMAIN jobs = {"main", "side"}
  BY HookIsTyped DEF LosslessInv
<1>1. /\ UNCHANGED <<config, lpc, worker>> /\ lpc = "execute"
      /\ t = "side" => worker = "running"
  BY <1>0, HookSteps DEF Lossless!Runs, ThreadsInv
<1>2. /\ MainConfigs' = MainConfigs /\ SideConfigs' = SideConfigs /\ PixelsOf' = PixelsOf
      /\ MainConfigs \in Configurations /\ SideConfigs \in Configurations
      /\ MainConfigs # << >>
  BY <1>0, <1>1, ConfigIsKept DEF ThreadsInv
<1>3. /\ JobInv(jobs["main"], MainConfigs, error = "OK", PixelsOf)
      /\ JobInv(jobs["side"], SideConfigs, sideError = "OK", PixelsOf)
  BY <1>0, <1>1 DEF ThreadsInv
<1>4. smallest \in Nat /\ MaxSize \in Nat
  BY <1>0, BoundsAssumption DEF LosslessTypes
<1>5. CASE t = "main"
  <2>1. jobs'["side"] = jobs["side"] /\ sideError' = sideError
    BY <1>0, <1>5, HookSteps DEF Lossless!Reports
  <2>2. CASE /\ UNCHANGED <<error, sideError>>
             /\ \E n, size : /\ JobStep(jobs["main"], n, MainConfigs, size)
                             /\ jobs' = [jobs EXCEPT !["main"] = n]
                             /\ smallest' = IF size < smallest THEN size ELSE smallest
    <3>1. PICK n, size : /\ JobStep(jobs["main"], n, MainConfigs, size)
                         /\ jobs' = [jobs EXCEPT !["main"] = n]
                         /\ smallest' = IF size < smallest THEN size ELSE smallest
      BY <2>2
    <3>2. /\ n \in Jobs /\ JobInv(n, MainConfigs, error = "OK", PixelsOf)
          /\ size \in Nat /\ Tried(n) = SmallestOf(size, Tried(jobs["main"]))
      <4>1. (error = "OK") = TRUE
        BY <1>3, <3>1 DEF JobInv, JobStep
      <4>2. JobInv(jobs["main"], MainConfigs, TRUE, PixelsOf)
        BY <1>3, <4>1
      <4>3. /\ n \in Jobs /\ JobInv(n, MainConfigs, TRUE, PixelsOf)
            /\ size \in 1 .. MaxSize + 1 /\ Tried(n) = SmallestOf(size, Tried(jobs["main"]))
        BY <1>0, <1>2, <3>1, <4>2, JobSteps
      <4>4. JobInv(n, MainConfigs, error = "OK", PixelsOf)
        BY <4>1, <4>3
      <4>5. size \in Nat
        BY <1>4, <4>3
      <4> QED
        BY <4>3, <4>4, <4>5
    <3>3. jobs'["main"] = n
      BY <1>0, <3>1
    <3>4. ASSUME error = "OK", sideError = "OK"
          PROVE  smallest' = SmallestOf(Tried(n), Tried(jobs["side"]))
      <4>1. smallest = SmallestOf(Tried(jobs["main"]), Tried(jobs["side"]))
        BY <1>0, <1>1, <3>4 DEF ThreadsInv
      <4>2. smallest' = SmallestOf(size, smallest)
        BY <3>1 DEF SmallestOf
      <4> QED
        BY <1>0, <3>2, <4>1, <4>2, TriedIsBounded, SmallestIsAssociative
    <3>5. (SideConfigs = << >> => jobs["side"].at = "ready")
            /\ (worker = "running" <=> SideConfigs # << >>)
      BY <1>0, <1>1 DEF ThreadsInv
    <3> QED
      BY <1>1, <1>2, <1>3, <2>1, <2>2, <3>2, <3>3, <3>4, <3>5 DEF ThreadsInv
  <2>3. CASE /\ UNCHANGED smallest /\ Lossless!Reports("main")
             /\ \E n : JobFails(jobs["main"], n) /\ jobs' = [jobs EXCEPT !["main"] = n]
    <3>1. PICK n : JobFails(jobs["main"], n) /\ jobs' = [jobs EXCEPT !["main"] = n]
      BY <2>3
    <3>2. JobInv(n, MainConfigs, FALSE, PixelsOf)
      BY <1>0, <1>3, <3>1, JobStops DEF JobFails
    <3>3. jobs'["main"] = n
      BY <1>0, <3>1
    <3>4. error' # "OK"
      BY <2>3 DEF Lossless!Reports, Lossless!SetError
    <3>5. JobInv(n, MainConfigs, error' = "OK", PixelsOf)
      <4>1. (error' = "OK") = FALSE
        BY <3>4
      <4> QED
        BY <3>2, <4>1
    <3>6. (SideConfigs = << >> => jobs["side"].at = "ready")
            /\ (worker = "running" <=> SideConfigs # << >>)
      BY <1>0, <1>1 DEF ThreadsInv
    <3> QED
      BY <1>1, <1>2, <1>3, <2>1, <3>3, <3>4, <3>5, <3>6 DEF ThreadsInv
  <2> QED
    BY <1>0, <1>5, <2>2, <2>3, HookSteps DEF MainConfigs
<1>6. CASE t = "side"
  <2>1. jobs'["main"] = jobs["main"] /\ error' = error /\ SideConfigs # << >>
    BY <1>0, <1>1, <1>6, HookSteps DEF Lossless!Reports, ThreadsInv
  <2>2. CASE /\ UNCHANGED <<error, sideError>>
             /\ \E n, size : /\ JobStep(jobs["side"], n, SideConfigs, size)
                             /\ jobs' = [jobs EXCEPT !["side"] = n]
                             /\ smallest' = IF size < smallest THEN size ELSE smallest
    <3>1. PICK n, size : /\ JobStep(jobs["side"], n, SideConfigs, size)
                         /\ jobs' = [jobs EXCEPT !["side"] = n]
                         /\ smallest' = IF size < smallest THEN size ELSE smallest
      BY <2>2
    <3>2. /\ n \in Jobs /\ JobInv(n, SideConfigs, sideError = "OK", PixelsOf)
          /\ size \in Nat /\ Tried(n) = SmallestOf(size, Tried(jobs["side"]))
      <4>1. (sideError = "OK") = TRUE
        BY <1>3, <3>1 DEF JobInv, JobStep
      <4>2. JobInv(jobs["side"], SideConfigs, TRUE, PixelsOf)
        BY <1>3, <4>1
      <4>3. /\ n \in Jobs /\ JobInv(n, SideConfigs, TRUE, PixelsOf)
            /\ size \in 1 .. MaxSize + 1 /\ Tried(n) = SmallestOf(size, Tried(jobs["side"]))
        BY <1>0, <1>2, <2>1, <3>1, <4>2, JobSteps
      <4>4. JobInv(n, SideConfigs, sideError = "OK", PixelsOf)
        BY <4>1, <4>3
      <4>5. size \in Nat
        BY <1>4, <4>3
      <4> QED
        BY <4>3, <4>4, <4>5
    <3>3. jobs'["side"] = n
      BY <1>0, <3>1
    <3>4. ASSUME error = "OK", sideError = "OK"
          PROVE  smallest' = SmallestOf(Tried(jobs["main"]), Tried(n))
      <4>1. smallest = SmallestOf(Tried(jobs["main"]), Tried(jobs["side"]))
        BY <1>0, <1>1, <3>4 DEF ThreadsInv
      <4>2. smallest' = SmallestOf(size, smallest)
        BY <3>1 DEF SmallestOf
      <4> QED
        BY <1>0, <3>2, <4>1, <4>2, TriedIsBounded, SmallestIsAssociative
    <3> QED
      BY <1>0, <1>1, <1>2, <1>3, <2>1, <2>2, <3>2, <3>3, <3>4 DEF ThreadsInv
  <2>3. CASE /\ UNCHANGED smallest /\ Lossless!Reports("side")
             /\ \E n : JobFails(jobs["side"], n) /\ jobs' = [jobs EXCEPT !["side"] = n]
    <3>1. PICK n : JobFails(jobs["side"], n) /\ jobs' = [jobs EXCEPT !["side"] = n]
      BY <2>3
    <3>2. JobInv(n, SideConfigs, FALSE, PixelsOf)
      BY <1>0, <1>3, <3>1, JobStops DEF JobFails
    <3>3. jobs'["side"] = n
      BY <1>0, <3>1
    <3>4. sideError' # "OK"
      BY <2>3 DEF Lossless!Reports, Lossless!SetError
    <3>5. JobInv(n, SideConfigs, sideError' = "OK", PixelsOf)
      <4>1. (sideError' = "OK") = FALSE
        BY <3>4
      <4> QED
        BY <3>2, <4>1
    <3> QED
      BY <1>0, <1>1, <1>2, <1>3, <2>1, <3>3, <3>4, <3>5 DEF ThreadsInv
  <2> QED
    BY <1>0, <1>6, <2>2, <2>3, HookSteps DEF SideConfigs
<1> QED
  BY <1>5, <1>6

LEMMA ThreadsNext ==
  ASSUME LosslessInv, Lossless!Next
  PROVE  ThreadsInv'
<1>0. LosslessTypes /\ ThreadsInv /\ ErrorInv
      /\ jobs["main"] \in Jobs /\ jobs["side"] \in Jobs /\ DOMAIN jobs = {"main", "side"}
      /\ smallest \in Nat /\ MaxSize \in Nat
  BY HookIsTyped, BoundsAssumption DEF LosslessInv, LosslessTypes
<1>1. CASE \E t \in {"main", "side"} : Lossless!Hook(t)
  BY <1>1, ThreadsNextHook
<1>2. CASE Lossless!VP8LEncodeImage
  BY <1>0, <1>2 DEF Lossless!VP8LEncodeImage, ThreadsInv
<1>3. CASE Lossless!WriteHeader
  BY <1>0, <1>3, ConfigIsKept DEF Lossless!WriteHeader, Lossless!Fails, Lossless!SetError, ThreadsInv
<1>4. CASE Lossless!SetUpFails
  BY <1>0, <1>4 DEF Lossless!SetUpFails, Lossless!Fails, Lossless!SetError, ThreadsInv
<1>5. CASE Lossless!SetUp
  <2>1. config'.configs \in Lossless!CrunchConfigs /\ config'.threads \in BOOLEAN
    <3>1. PICK all \in Lossless!CrunchConfigs, crossColor \in BOOLEAN :
            config' = [config EXCEPT !.configs = all, !.crossColor = crossColor]
      BY <1>5 DEF Lossless!SetUp
    <3> QED
      BY <1>0, <3>1 DEF LosslessTypes
  <2>2. /\ MainConfigs' \in Configurations /\ SideConfigs' \in Configurations
        /\ MainConfigs' # << >>
        /\ Alternating(MainConfigs') /\ Alternating(SideConfigs')
    BY <2>1, ConfigsAreSplit, ConfigsAreParts
  <2>3. /\ jobs'["main"] = Lossless!NewJob(MainConfigs')
        /\ jobs'["side"] = Lossless!NewJob(SideConfigs')
    BY <1>5 DEF Lossless!SetUp, MainConfigs, SideConfigs, Lossless!Threads
  <2>4. lpc' = "execute" /\ (worker' = "running" <=> SideConfigs' # << >>)
          /\ error' = "OK" /\ sideError' = "OK" /\ smallest' = MaxSize + 1
    BY <1>0, <1>5 DEF Lossless!SetUp, Lossless!HasSide, SideConfigs, ErrorInv
  <2>5. ASSUME NEW all \in Configurations, Alternating(all), NEW pixels
        PROVE  /\ JobInv(Lossless!NewJob(all), all, TRUE, pixels)
               /\ Tried(Lossless!NewJob(all)) = MaxSize + 1
               /\ Lossless!NewJob(all).at = "ready"
    <3>1. /\ Lossless!NewJob(all).at = "ready" /\ Lossless!NewJob(all).todo = all
          /\ Lossless!NewJob(all).argb_content = "kEncoderNone"
          /\ Lossless!NewJob(all).best = Lossless!EmptyWriter
      BY DEF Lossless!NewJob
    <3>2. Lossless!NumBytes(Lossless!EmptyWriter) = MaxSize + 1
      BY WritersAreTyped, SizesAreBounded
    <3>3. JobInv(Lossless!NewJob(all), all, TRUE, pixels)
      BY <2>5, <3>1 DEF JobInv
    <3> QED
      BY <3>1, <3>2, <3>3 DEF Tried
  <2>6. (error' = "OK") = TRUE /\ (sideError' = "OK") = TRUE
    BY <2>4
  <2>7. /\ JobInv(jobs'["main"], MainConfigs', error' = "OK", PixelsOf')
        /\ JobInv(jobs'["side"], SideConfigs', sideError' = "OK", PixelsOf')
        /\ Tried(jobs'["main"]) = MaxSize + 1 /\ Tried(jobs'["side"]) = MaxSize + 1
        /\ jobs'["side"].at = "ready"
    BY <2>2, <2>3, <2>5, <2>6
  <2>8. smallest' = SmallestOf(Tried(jobs'["main"]), Tried(jobs'["side"]))
    BY <2>4, <2>7 DEF SmallestOf
  <2> QED
    BY <2>2, <2>4, <2>7, <2>8 DEF ThreadsInv
<1>6. CASE Lossless!SyncJobs
  <2>1. MainConfigs' = MainConfigs /\ SideConfigs' = SideConfigs /\ PixelsOf' = PixelsOf
    BY <1>6, ConfigIsKept DEF Lossless!SyncJobs
  <2>2. worker' # "running"
    BY <1>0, <1>6 DEF Lossless!SyncJobs, Lossless!HasSide, SideConfigs, ThreadsInv
  <2> QED
    BY <1>0, <1>6, <2>1, <2>2 DEF Lossless!SyncJobs, ThreadsInv
<1>7. CASE Lossless!ChooseStream
  <2> DEFINE m == jobs["main"]
             s == jobs["side"]
  <2>1. MainConfigs' = MainConfigs /\ SideConfigs' = SideConfigs /\ PixelsOf' = PixelsOf
    BY <1>7, ConfigIsKept DEF Lossless!ChooseStream
  <2>2. /\ lpc = "choose" /\ lpc' = "free" /\ UNCHANGED <<worker, smallest>>
        /\ (Lossless!HasSide <=> SideConfigs # << >>)
    BY <1>7 DEF Lossless!ChooseStream, Lossless!HasSide, SideConfigs
  <2>3. /\ m.at = "over" /\ (SideConfigs # << >> => s.at = "over")
        /\ JobInv(m, MainConfigs, error = "OK", PixelsOf)
        /\ JobInv(s, SideConfigs, sideError = "OK", PixelsOf)
        /\ SideConfigs = << >> => s.at = "ready"
        /\ error = "OK" /\ sideError = "OK" => smallest = SmallestOf(Tried(m), Tried(s))
        /\ worker # "running"
    BY <1>0, <2>2 DEF ThreadsInv
  <2>4. m.bw \in Writers /\ s.bw \in Writers /\ s.best \in Writers
    BY <1>0 DEF Jobs
  <2>5. ASSUME error' = "OK"
        PROVE  /\ Good(jobs'["main"].bw, jobs'["main"].stats, PixelsOf)
               /\ jobs'["main"].bw.stream[1].size = smallest
    <3>1. error = "OK"
      BY <1>7, <2>5 DEF Lossless!ChooseStream, Lossless!SetError
    <3>2. Good(m.bw, m.stats, PixelsOf) /\ Tried(m) = m.bw.stream[1].size
            /\ Tried(m) = Lossless!NumBytes(m.bw) /\ Tried(m) \in Nat /\ Tried(m) <= MaxSize
      <4>1. Good(m.bw, m.stats, PixelsOf)
        BY <2>3, <3>1 DEF JobInv
      <4> QED
        BY <1>0, <2>3, <2>4, <4>1, SizesAreBounded, TriedIsBounded DEF Tried, Good
    <3>3. CASE SideConfigs = << >>
      <4>1. jobs' = jobs
        BY <1>7, <2>2, <3>3 DEF Lossless!ChooseStream
      <4>2. sideError = "OK" /\ Tried(s) = MaxSize + 1
        <5>1. s = Lossless!NewJob(SideConfigs) /\ sideError = "OK"
          BY <2>3, <3>3 DEF JobInv
        <5>2. s.best.stream = << >> /\ s.at = "ready"
          BY <5>1, WritersAreTyped DEF Lossless!NewJob
        <5> QED
          BY <2>4, <5>1, <5>2, SizesAreBounded DEF Tried
      <4>3. smallest = Tried(m)
        BY <1>0, <2>3, <3>1, <3>2, <4>2 DEF SmallestOf
      <4> QED
        BY <3>2, <4>1, <4>3
    <3>4. CASE SideConfigs # << >>
      <4>1. sideError = "OK"
        BY <1>7, <2>2, <2>5, <3>1, <3>4 DEF Lossless!ChooseStream, Lossless!SetError, Lossless!HookOk
      <4>2. Good(s.bw, s.stats, PixelsOf) /\ Tried(s) = s.bw.stream[1].size
              /\ Tried(s) = Lossless!NumBytes(s.bw) /\ Tried(s) \in Nat
        <5>1. Good(s.bw, s.stats, PixelsOf)
          BY <2>3, <3>4, <4>1 DEF JobInv
        <5> QED
          BY <1>0, <2>3, <2>4, <3>4, <5>1, SizesAreBounded, TriedIsBounded DEF Tried, Good
      <4>3. smallest = SmallestOf(Tried(m), Tried(s))
        BY <2>3, <3>1, <4>1
      <4>4. CASE Tried(s) < Tried(m)
        <5>1. jobs' = [jobs EXCEPT !["main"].bw = s.bw, !["main"].stats = s.stats,
                                   !["side"].bw = m.bw]
          BY <1>7, <2>2, <3>1, <3>2, <3>4, <4>1, <4>2, <4>4
          DEF Lossless!ChooseStream, Lossless!HookOk
        <5>2. jobs'["main"].bw = s.bw /\ jobs'["main"].stats = s.stats
          BY <1>0, <5>1 DEF Jobs
        <5>3. smallest = Tried(s)
          BY <3>2, <4>2, <4>3, <4>4 DEF SmallestOf
        <5> QED
          BY <4>2, <5>2, <5>3
      <4>5. CASE ~ (Tried(s) < Tried(m))
        <5>1. jobs' = jobs
          BY <1>7, <2>2, <3>1, <3>2, <3>4, <4>1, <4>2, <4>5
          DEF Lossless!ChooseStream, Lossless!HookOk
        <5>2. smallest = Tried(m)
          BY <3>2, <4>2, <4>3, <4>5 DEF SmallestOf
        <5> QED
          BY <3>2, <5>1, <5>2
      <4> QED
        BY <4>4, <4>5
    <3> QED
      BY <3>3, <3>4
  <2> QED
    BY <2>1, <2>2, <2>3, <2>5 DEF ThreadsInv
<1>8. CASE Lossless!FreeStream \/ Lossless!WriteImage \/ Lossless!Return
  <2>1. /\ PixelsOf' = PixelsOf /\ UNCHANGED <<jobs, worker, smallest>>
        /\ lpc \in {"free", "write", "end"} /\ lpc' \in {"write", "end", "returned"}
        /\ (error' = "OK" => error = "OK")
    BY <1>8, ConfigIsKept
    DEF Lossless!FreeStream, Lossless!WriteImage, Lossless!Return, Lossless!Fails, Lossless!SetError
  <2> QED
    BY <1>0, <2>1 DEF ThreadsInv
<1> QED
  BY <1>1, <1>2, <1>3, <1>4, <1>5, <1>6, <1>7, <1>8 DEF Lossless!Next, Lossless!Main

LEMMA LosslessInvNext == LosslessInv /\ error \in Errors /\ Lossless!Next => LosslessInv' /\ error' \in Errors
BY LosslessTypesNext, ThreadsNext, HeldNext, ErrorNext DEF LosslessInv

-----------------------------------------------------------------------------
(* Both *)

LEMMA InitInv == Init => IInv
<1> SUFFICES ASSUME Init PROVE IInv
  OBVIOUS
<1> USE BoundsAssumption DEF Init, Lossy!Init, Lossless!Init
<1>1. LossyTypes
  <2>1. cfg \in Parameters
    BY DEF Parameters
  <2>2. loop \in Loops /\ alpha \in AlphaStates
    BY DEF Loops, AlphaStates
  <2>3. analysis \in Analyses
    BY DEF Analyses, Lossy!NoAnalysis
  <2> QED
    BY <2>1, <2>2, <2>3 DEF LossyTypes, Labels, AtStart
<1>2. LosslessTypes
  <2>1. << >> \in Configurations
    BY DEF Configurations
  <2>2. Lossless!NewJob(<< >>) \in Jobs
    BY <2>1, WritersAreTyped
    DEF Lossless!NewJob, Jobs, Lossless!Garbage, Lossless!Pixels, PixelSets, Transformations
  <2> QED
    BY <2>1, <2>2
    DEF LosslessTypes, LosslessLabels, Errors, Lossless!Threads, Lossless!NoSize
<1> QED
  BY <1>1, <1>2 DEF IInv, Errors, Lossless!NoSize

LEMMA LossyErrors ==
  ASSUME error \in Errors, LossyNext
  PROVE  error' \in Errors
<1>1. \A e \in Errors : Lossy!WebPEncodingSetError(e) => error' \in Errors
  BY DEF Lossy!WebPEncodingSetError, Lossy!SetErrors
<1>2. \A e \in Errors, racing \in BOOLEAN : Lossy!SetErrors(error, e, racing) \subseteq Errors
  BY DEF Lossy!SetErrors
<1>3. {"OUT_OF_MEMORY", "USER_ABORT"} \cup Lossy!WriteErrors \subseteq Errors
  BY DEF Errors
<1>4. CASE Lossy!CompressAlphaJob
  BY <1>3, <1>4 DEF Lossy!CompressAlphaJob, Lossy!SetErrors
<1> QED
  BY <1>1, <1>3, <1>4
  DEF LossyNext, Lossy!Next, Lossy!Main, Lossy!SideAnalysis, Lossy!InitVP8Encoder,
      Lossy!InitFails, Lossy!ResetAllMBInfo, Lossy!StartAnalysis, Lossy!AnalyzeRow,
      Lossy!EndAnalysis, Lossy!SideAnalyzeRow, Lossy!SideJobEnds, Lossy!VP8EncStartAlpha,
      Lossy!PreLoopInitialize, Lossy!StatPass, Lossy!CodeRow, Lossy!StartPass, Lossy!RecordRow,
      Lossy!EndPass, Lossy!EmitTokens, Lossy!PostLoopFinalize, Lossy!VP8EncFinishAlpha,
      Lossy!VP8EncWrite, Lossy!DeleteVP8Encoder, Lossy!FailsWith,
      Lossy!ProgressOk, Lossy!ProgressAborts

\* The call returns when the program counter says so, and not before.
LEMMA LossyReturns ==
  ASSUME result \in {"none", "ok", "failed"}, result # "none" <=> pc = "returned", LossyNext
  PROVE  result' \in {"none", "ok", "failed"} /\ (result' # "none" <=> pc' = "returned")
BY DEF LossyNext, Lossy!Next, Lossy!Main, Lossy!SideAnalysis, Lossy!InitVP8Encoder,
      Lossy!InitFails, Lossy!ResetAllMBInfo, Lossy!StartAnalysis, Lossy!AnalyzeRow,
      Lossy!EndAnalysis, Lossy!SideAnalyzeRow, Lossy!SideJobEnds, Lossy!VP8EncStartAlpha,
      Lossy!PreLoopInitialize, Lossy!StatPass, Lossy!CodeRow, Lossy!StartPass, Lossy!RecordRow,
      Lossy!EndPass, Lossy!EmitTokens, Lossy!PostLoopFinalize, Lossy!VP8EncFinishAlpha,
      Lossy!VP8EncWrite, Lossy!DeleteVP8Encoder, Lossy!CompressAlphaJob, Lossy!Goto, Lossy!FailsWith

LEMMA LosslessReturns ==
  ASSUME LosslessTypes, result \in {"none", "ok", "failed"}, result # "none" <=> lpc = "returned",
         Lossless!Next
  PROVE  result' \in {"none", "ok", "failed"} /\ (result' # "none" <=> lpc' = "returned")
<1>1. CASE \E t \in {"main", "side"} : Lossless!Hook(t)
  BY <1>1, HookSteps
<1> QED
  BY <1>1
  DEF Lossless!Next, Lossless!Main, Lossless!VP8LEncodeImage, Lossless!WriteHeader,
      Lossless!SetUp, Lossless!SetUpFails, Lossless!SyncJobs, Lossless!ChooseStream,
      Lossless!FreeStream, Lossless!WriteImage, Lossless!Return, Lossless!Fails

\* Every step of either branch preserves the invariant.
LEMMA NextInv == IInv /\ [Next]_vars => IInv'
<1> SUFFICES ASSUME IInv, [Next]_vars PROVE IInv'
  OBVIOUS
<1>0. IInv
  OBVIOUS
<1>1. CASE WebPEncode
  <2>1. /\ branch = "none" /\ result = "none" /\ branch' \in {"lossy", "lossless"}
        /\ UNCHANGED <<error, result, lossyVars, losslessVars>>
    BY <1>1 DEF WebPEncode
  <2>2. UNCHANGED <<cfg, pc, refused, analysis, alpha, loop, allocated>>
          /\ UNCHANGED <<config, lpc, sideError, jobs, worker, held, smallest>>
    BY <2>1 DEF lossyVars, losslessVars
  <2>3. /\ error = "OK" /\ pc = "idle" /\ lpc = "idle" /\ LossyTypes /\ LosslessTypes
    BY <1>0, <2>1 DEF IInv
  <2>4. LossyTypes' /\ LosslessTypes'
    BY <2>2, <2>3 DEF LossyTypes, LosslessTypes
  <2>5. LossyInv'
    BY <1>0, <2>1, <2>2, <2>3, <2>4
    DEF IInv, LossyInv, AnalysisInv, Lossy!NoAnalysis, MemoryInv, ReasonInv, LoopInv, Lossy!ReasonIsGiven,
        AtStart, InAnalysis, BeforeLoop, InLoop, AfterLoop, Failing
  <2>6. LosslessInv'
    BY <1>0, <2>1, <2>2, <2>3, <2>4
    DEF IInv, LosslessInv, ThreadsInv, HeldInv, ErrorInv, Lossless!ReasonIsGiven
  <2> QED
    BY <1>0, <2>1, <2>2, <2>3, <2>4, <2>5, <2>6 DEF IInv, Lossy!NoAnalysis
<1>2. CASE WebPEncodeFails \/ UNCHANGED vars \/ Returned
  <2>1. UNCHANGED <<branch, lossyVars, losslessVars>>
    BY <1>2 DEF WebPEncodeFails, Returned, vars
  <2>2. UNCHANGED <<cfg, pc, refused, analysis, alpha, loop, allocated>>
          /\ UNCHANGED <<config, lpc, sideError, jobs, worker, held, smallest>>
    BY <2>1 DEF lossyVars, losslessVars
  <2>3. CASE UNCHANGED <<error, result>>
    <3>1. LossyTypes' <=> LossyTypes
      BY <2>2 DEF LossyTypes
    <3>2. LosslessTypes' <=> LosslessTypes
      BY <2>2, <2>3 DEF LosslessTypes
    <3>3. LossyInv' <=> LossyInv
      BY <2>2, <2>3, <3>1
      DEF LossyInv, AnalysisInv, MemoryInv, ReasonInv, LoopInv, Seen, Lossy!ReasonIsGiven,
          Lossy!NoAnalysis, Lossy!MainRows, Lossy!DoMt, Lossy!SplitRow
    <3>4. LosslessInv' <=> LosslessInv
      BY <2>2, <2>3, <3>2, ConfigIsKept
      DEF LosslessInv, ThreadsInv, HeldInv, ErrorInv, Lossless!ReasonIsGiven
    <3> QED
      BY <1>0, <2>1, <2>2, <2>3, <3>1, <3>2, <3>3, <3>4 DEF IInv, Lossy!NoAnalysis
  <2>4. CASE WebPEncodeFails
    <3>1. /\ branch = "none" /\ branch' = "none" /\ error' \in Errors /\ result' = "failed"
      BY <2>1, <2>4 DEF WebPEncodeFails, Errors
    <3> QED
      BY <1>0, <2>2, <3>1 DEF IInv, LossyTypes, LosslessTypes, Lossy!NoAnalysis
  <2> QED
    BY <1>2, <2>3, <2>4 DEF Returned, vars
<1>3. CASE branch = "lossy" /\ LossyNext /\ UNCHANGED <<branch, losslessVars>>
  <2>1. UNCHANGED <<config, lpc, sideError, jobs, worker, held, smallest>>
    BY <1>3 DEF losslessVars
  <2>2. LossyInv' /\ error' \in Errors /\ result' \in {"none", "ok", "failed"}
          /\ (result' # "none" <=> pc' = "returned")
    BY <1>0, <1>3, LossyInvNext, LossyErrors, LossyReturns DEF IInv
  <2> QED
    BY <1>0, <1>3, <2>1, <2>2 DEF IInv, LosslessTypes
<1>4. CASE branch = "lossless" /\ Lossless!Next /\ UNCHANGED <<branch, lossyVars>>
  <2>1. UNCHANGED <<cfg, pc, refused, analysis, alpha, loop, allocated>>
    BY <1>4 DEF lossyVars
  <2>2. LosslessInv' /\ error' \in Errors /\ result' \in {"none", "ok", "failed"}
          /\ (result' # "none" <=> lpc' = "returned")
    BY <1>0, <1>4, LosslessInvNext, LosslessReturns DEF IInv, LosslessInv
  <2> QED
    BY <1>0, <1>4, <2>1, <2>2 DEF IInv, LossyTypes, Lossy!NoAnalysis
<1> QED
  BY <1>1, <1>2, <1>3, <1>4
  DEF Next, Caller, AnalysisWorker, AlphaWorker, StreamWorker, LossyStep, LosslessStep,
      LossyNext, Lossy!Next, Lossless!Next

\* The invariant holds in every state.
THEOREM Invariant == Spec => []IInv
BY InitInv, NextInv, PTL DEF Spec

\* Type correctness of both branches, of the error code and of the result.
THEOREM TypesAreKept ==
  Spec => [](LossyTypes /\ LosslessTypes /\ error \in Errors /\ result \in {"none", "ok", "failed"})
<1>1. IInv => LossyTypes /\ LosslessTypes /\ error \in Errors /\ result \in {"none", "ok", "failed"}
  BY DEF IInv, LossyInv, LosslessInv
<1> QED
  BY <1>1, Invariant, PTL

\* Whatever fails in whichever thread: no job runs on memory that is gone, nothing
\* stays allocated, and a call fails exactly if there is a reason.
THEOREM BothEndCleanly == Spec => []EndsCleanly
<1>1. IInv => EndsCleanly
  <2> SUFFICES ASSUME IInv PROVE EndsCleanly
    OBVIOUS
  <2>2. Lossy!JobsAreOver
    <3>1. CASE branch = "lossy"
      BY <3>1 DEF IInv, LossyInv, AnalysisInv, MemoryInv, InAnalysis, Lossy!JobsAreOver
    <3>2. CASE branch # "lossy"
      BY <3>2 DEF IInv, Lossy!NoAnalysis, Lossy!JobsAreOver
    <3> QED
      BY <3>1, <3>2
  <2>3. Lossy!ReasonIsGiven
    BY DEF IInv, LossyInv, Lossy!ReasonIsGiven
  <2>4. Lossless!JobsAreOver
    BY DEF IInv, LosslessInv, ThreadsInv, HeldInv, Lossless!JobsAreOver
  <2>5. Lossless!ReasonIsGiven
    BY DEF IInv, LosslessInv, ErrorInv, Lossless!ReasonIsGiven
  <2> QED
    BY <2>2, <2>3, <2>4, <2>5 DEF EndsCleanly
<1> QED
  BY <1>1, Invariant, PTL

\* The lossless stream returned is the smallest any thread has tried, made of the
\* pixels of its configuration, behind its header and described by the statistics.
THEOREM SmallestIsReturned == Spec => []StreamIsBest
<1>1. IInv => StreamIsBest
  <2> SUFFICES ASSUME IInv, lpc \in {"write", "end", "returned"}, error = "OK"
               PROVE  LET bw == jobs["main"].bw IN
                        /\ bw.prefix /\ bw.stream # << >> /\ Lossless!Usable(bw.stream[1])
                        /\ bw.stream[1].size = smallest
                        /\ bw.stream[1].of = jobs["main"].stats
    BY DEF IInv, StreamIsBest, Lossless!StreamIsBest
  <2> DEFINE bw == jobs["main"].bw
  <2>1. /\ Good(bw, jobs["main"].stats, PixelsOf) /\ bw.stream[1].size = smallest
        /\ LosslessTypes
    BY DEF IInv, LosslessInv, ThreadsInv
  <2>2. bw.stream[1].of \in Lossless!EntropyIx
    <3>1. bw \in Writers
      BY <2>1, HookIsTyped DEF Jobs
    <3> QED
      BY <2>1, <3>1, SizesAreBounded DEF Good, Streams
  <2>3. Lossless!Usable(bw.stream[1])
    BY <2>1, <2>2 DEF Good, PixelsOf, Lossless!Usable
  <2> QED
    BY <2>1, <2>3 DEF Good
<1> QED
  BY <1>1, Invariant, PTL

\* What the lossy branch writes was analysed once and coded in one pass.
THEOREM OnePassIsWritten == Spec => []StreamIsOfOnePass
<1>1. IInv => StreamIsOfOnePass
  BY DEF IInv, LossyInv, AnalysisInv, LoopInv, AfterLoop, StreamIsOfOnePass,
         Lossy!StreamIsOfOnePass
<1> QED
  BY <1>1, Invariant, PTL
=============================================================================
