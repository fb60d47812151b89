-------------------------- MODULE RowPipelineProofs --------------------------
(***************************************************************************)
(* For frames of every size: the main thread and the row job never touch    *)
(* the same buffer, the job is over when teardown is called, the worker is  *)
(* used as JobWorker allows, and put() gets the rows of the crop window in  *)
(* order, each of them the right row with all of the loop filter done.      *)
(***************************************************************************)
EXTENDS RowPipeline, TLAPS

-----------------------------------------------------------------------------
(* Where main is, where the job is, and what the worker knows of it.        *)

Context == [id : Int, mb_y : Int, filter_row : BOOLEAN, mb : Int, f : Int]

Types ==
  /\ cfg \in Configs
  /\ mpc \in {"setup", "init", "parse", "parsing", "process", "inline", "set_error",
              "exit", "clear", "done"}
  /\ up \in BOOLEAN 
  /\ launched \in Seq(MbRows) /\ done \in Seq(MbRows)
  /\ mb_y \in Nat /\ cacheId \in Int /\ decMb \in Int /\ decF \in Int
  /\ ctx \in Context

\* A job runs inside main's call, or in the worker between launch and finish.
JobPlace ==
  /\ Threaded => (job = "idle" <=> launched = done) /\ mpc # "inline"
  /\ ~ Threaded => launched = done /\ up = FALSE /\ (job # "idle" => mpc = "inline")

\* The frame is set up before its first job and closed after its last.
Phases ==
  /\ mpc \in {"setup", "init", "clear", "done"} => job = "idle" /\ launched = done
  /\ phase = "closed" => mpc \in {"clear", "done"}
  /\ mpc \in {"setup", "init"} => ~ up /\ decMb = 0 /\ decF = 0
  /\ mpc \in {"parse", "parsing", "process"} /\ Threaded => up
  /\ mpc \in {"parsing", "process"} => mb_y \in MbRows

\* Main fills one buffer of each pair, the job has the other.
Swapped ==
  Threaded /\ (job # "idle" \/ mpc \in {"parse", "parsing", "process"}) =>
    decMb # ctx.mb /\ decF # ctx.f

IInv == Types /\ JobPlace /\ Phases /\ Swapped

LEMMA InitIInv == Init => IInv
<1> SUFFICES ASSUME Init PROVE IInv
  OBVIOUS
<1>1. << >> \in Seq(MbRows)
  OBVIOUS
<1>2. ctx \in Context
  BY DEF Init, Context
<1>3. Types
  <2>1. launched \in Seq(MbRows) /\ done \in Seq(MbRows)
    BY <1>1 DEF Init
  <2>2. /\ cfg \in Configs /\ mpc = "setup" /\ mb_y = 0 /\ cacheId = 0 /\ decMb = 0
        /\ decF = 0
    BY DEF Init
  <2>3. up \in BOOLEAN
    BY DEF Init
  <2> QED
    BY <1>2, <2>1, <2>2, <2>3 DEF Types
<1>4. JobPlace /\ Phases /\ Swapped
  BY DEF Init, JobPlace, Phases, Swapped
<1> QED
  BY <1>3, <1>4 DEF IInv

\* Rows below br_mb_y exist.
LEMMA RowsToDecode ==
  ASSUME cfg \in Configs, mb_y \in Nat, mb_y < br_mb_y
  PROVE  mb_y \in MbRows
<1>1. IsConfig(cfg)
  BY ConfigsAssumption
<1>2. ExtraRows \in Nat
  BY <1>1 DEF IsConfig, ExtraRows
<1>3. mb_h \in Int /\ (cfg.bottom + 15 + ExtraRows) \div 16 \in Int
  BY <1>1, <1>2 DEF IsConfig, mb_h
<1>4. mb_y \in 0 .. mb_h - 1
  BY <1>3 DEF br_mb_y, MinOf
<1> QED
  BY <1>4 DEF mb_h, MbRows

LEMMA NextMain == IInv /\ MainSteps => IInv'
<1> SUFFICES ASSUME IInv, MainSteps PROVE IInv'
  OBVIOUS
<1> USE DEF IInv, Types, JobPlace, Phases, Swapped, Threaded, Synced, MainError,
            jobVars, worker, output
<1>1. CASE SetupFails \/ Setup
  BY <1>1 DEF SetupFails, Setup
<1>2. CASE InitFails
  BY <1>2 DEF InitFails
<1>3. CASE InitFrame
  <2>1. ctx' \in Context /\ ctx'.mb = ctx'.f /\ (Threaded => ctx'.mb = 1)
    BY <1>3 DEF InitFrame, Context
  <2>2. up' \in BOOLEAN /\ (Threaded => up') /\ (~ Threaded => ~ up')
    BY <1>3 DEF InitFrame
  <2> QED
    BY <1>3, <2>1, <2>2 DEF InitFrame
<1>4. CASE ParseBegin
  BY <1>4, RowsToDecode DEF ParseBegin
<1>5. CASE ParseEnd
  BY <1>5 DEF ParseEnd
<1>6. CASE ParseFails \/ StoreError
  BY <1>6 DEF ParseFails, StoreError
<1>7. CASE ProcessRowInline
  BY <1>7 DEF ProcessRowInline, Context, FilterThisRow
<1>8. CASE InlineReturns
  BY <1>8 DEF InlineReturns
<1>9. CASE ProcessRowLaunch
  <2>1. /\ Threaded /\ job = "idle" /\ launched = done /\ up /\ mb_y \in MbRows
        /\ decMb # ctx.mb /\ decF # ctx.f
    BY <1>9 DEF ProcessRowLaunch
  <2>2. launched' \in Seq(MbRows) /\ launched' # done'
    BY <1>9, <2>1 DEF ProcessRowLaunch
  <2>3. ctx' \in Context /\ decMb' \in Int /\ decF' \in Int
    BY <1>9 DEF ProcessRowLaunch, Context, FilterThisRow, MbAfterSwap
  <2>4. cacheId' \in Int
    BY <1>9 DEF ProcessRowLaunch, SlotAfter
  <2>5. decMb' # ctx'.mb /\ decF' # ctx'.f
    BY <1>9, <2>1 DEF ProcessRowLaunch, MbAfterSwap
  <2> QED
    BY <1>9, <2>1, <2>2, <2>3, <2>4, <2>5 DEF ProcessRowLaunch
<1>10. CASE ProcessRowAborts
  BY <1>10 DEF ProcessRowAborts
<1>11. CASE ParseFrameEnds
  BY <1>11 DEF ParseFrameEnds
<1>12. CASE ExitCritical
  BY <1>12 DEF ExitCritical, ExitWhenIdle
<1>13. CASE Return
  BY <1>13 DEF Return
<1> QED
  BY <1>1, <1>2, <1>3, <1>4, <1>5, <1>6, <1>7, <1>8, <1>9, <1>10, <1>11, <1>12,
     <1>13 DEF MainSteps

LEMMA NextJob == IInv /\ JobSteps => IInv'
<1> SUFFICES ASSUME IInv, JobSteps PROVE IInv'
  OBVIOUS
<1> USE DEF IInv, Types, JobPlace, Phases, Swapped, Threaded, JobUnchanged,
            mainVars, worker, output
<1>1. CASE Reconstruct
  BY <1>1 DEF Reconstruct
<1>2. CASE Filter
  BY <1>2 DEF Filter
<1>3. CASE Emit
  BY <1>3 DEF Emit
<1>4. CASE AlphaFails \/ JobStoresError
  BY <1>4 DEF AlphaFails, JobStoresError
<1>5. CASE Put \/ Rotate
  BY <1>5 DEF Put, Rotate
<1>6. CASE JobDone
  BY <1>6 DEF JobDone
<1> QED
  BY <1>1, <1>2, <1>3, <1>4, <1>5, <1>6 DEF JobSteps

LEMMA NextIInv == IInv /\ [Next]_vars => IInv'
<1> SUFFICES ASSUME IInv, UNCHANGED vars PROVE IInv'
  BY NextMain, NextJob DEF Next, Terminated
<1> QED
  BY DEF vars, mainVars, jobVars, worker, output, IInv, Types, JobPlace, Phases,
         Swapped, Threaded

LEMMA Invariance == SafeSpec => []IInv
BY InitIInv, NextIInv, PTL DEF SafeSpec

-----------------------------------------------------------------------------
(* What follows.                                                            *)

\* While FinishRow works on a row, ParseFrame fills other buffers than the ones it
\* reads (the swaps of mb_data_ and f_info_ in VP8ProcessRow).
THEOREM JobHasItsBuffers == SafeSpec => []BuffersDisjoint
<1>1. IInv => BuffersDisjoint
  BY DEF IInv, Swapped, BuffersDisjoint
<1> QED
  BY <1>1, Invariance, PTL

\* No job of the frame runs once VP8ExitCritical has called teardown().
THEOREM NoJobAfterTeardown == SafeSpec => []QuietAfterTeardown
<1>1. IInv => QuietAfterTeardown
  BY DEF IInv, Phases, QuietAfterTeardown
<1> QED
  BY <1>1, Invariance, PTL

\* The decoder keeps to what WebPWorker asks of its owner: a job is launched only when
\* the worker is up and idle, and the worker is ended only when idle.
THEOREM WorkerUsedRight == SafeSpec => UsesJobWorker
<1>1. Init => WorkerUse!Init
  BY DEF Init, WorkerUse!Init
<1>2. IInv /\ [Next]_vars => [WorkerUse!Next]_WorkerUse!vars
  <2> SUFFICES ASSUME IInv, [Next]_vars PROVE [WorkerUse!Next]_WorkerUse!vars
    OBVIOUS
  <2> USE DEF WorkerUse!vars, WorkerUse!Next, WorkerUse!Start, WorkerUse!Launch,
              WorkerUse!Finish, WorkerUse!Stop, WorkerUse!Busy
  <2>1. CASE InitFails \/ InitFrame
    <3>1. ~ up /\ up \in BOOLEAN /\ UNCHANGED <<launched, done>>
      BY <2>1 DEF InitFails, InitFrame, IInv, Phases, Types
    <3>2. up' \in BOOLEAN
      BY <2>1, <3>1 DEF InitFails, InitFrame, Threaded
    <3> QED
      BY <3>1, <3>2
  <2>2. CASE ProcessRowLaunch
    BY <2>2 DEF ProcessRowLaunch, IInv, Phases, Synced
  <2>3. CASE Return
    BY <2>3 DEF Return, IInv, Phases, Types
  <2>4. CASE JobDone
    BY <2>4 DEF JobDone, IInv, JobPlace
  <2>5. CASE UNCHANGED worker
    BY <2>5 DEF worker
  <2> QED
    BY <2>1, <2>2, <2>3, <2>4, <2>5
    DEF Next, MainSteps, JobSteps, Terminated, vars, JobUnchanged, SetupFails, Setup,
        ParseBegin, ParseEnd, ParseFails, StoreError, ProcessRowInline,
        InlineReturns, ProcessRowAborts, ParseFrameEnds, ExitCritical, Reconstruct,
        Filter, Emit, AlphaFails, JobStoresError, Put, Rotate
<1> QED
  BY <1>1, <1>2, Invariance, PTL DEF SafeSpec, UsesJobWorker, WorkerUse!SafeSpec

-----------------------------------------------------------------------------
(* The bands of rows given to put() are consecutive.                        *)

\* The first luma row that is emitted with macroblock row y, and the rows of the
\* picture that are wanted and come before it.
YStart(y)  == IF y = 0 THEN 0 ELSE y * 16 - ExtraRows
Through(y) == MinOf(YStart(y), cfg.bottom)

\* n rows of the window, and all alpha rows, come before those of row y.
Reached(n, y) ==
  /\ n = MaxOf(0, Through(y) - cfg.top)
  /\ cfg.alpha => alphaRow = Through(y)

\* Each job starts where the one before it stopped, unless that one failed, and
\* then no job follows.
BInv ==
  /\ IInv
  /\ job # "idle" => ctx.mb_y \in Nat /\ ctx.mb_y + (IF Threaded THEN 1 ELSE 0) = mb_y
  /\ job \in {"reconstruct", "filter", "emit"} => Reached(rows, ctx.mb_y)
  /\ job = "put" =>
       /\ io.mb_y = rows /\ io.mb_h > 0
       /\ is_last_row \/ Reached(rows + io.mb_h, ctx.mb_y + 1)
  /\ job = "set_error" => ~ jobOk
  /\ mpc \in {"parsing", "process"} => mb_y < br_mb_y
  /\ job \in {"rotate", "end"} /\ jobOk =>
       is_last_row \/ Reached(rows, ctx.mb_y + 1)
  /\ /\ job = "idle" /\ ~ (Threaded /\ hadError)
     /\ mpc \in {"setup", "init", "parse", "parsing", "process"}
     => mb_y >= br_mb_y \/ Reached(rows, mb_y)

\* The band of row ctx.mb_y, and the one after it.
LEMMA Bands ==
  ASSUME cfg \in Configs, ctx.mb_y \in Nat, br_mb_y \in Int
  PROVE  /\ y_start \in Int /\ y_end \in Int /\ cfg.top \in Nat /\ cfg.bottom \in Nat
         /\ y_end <= cfg.bottom
         /\ y_start < y_end => Through(ctx.mb_y) = y_start
         /\ Through(ctx.mb_y) \in Int
         /\ ~ is_last_row =>
              /\ y_end = Through(ctx.mb_y + 1)
              /\ y_start < y_end \/ Through(ctx.mb_y + 1) = Through(ctx.mb_y)
              /\ Through(ctx.mb_y) <= Through(ctx.mb_y + 1)
<1>1. IsConfig(cfg)
  BY ConfigsAssumption
<1>2. ExtraRows \in {0, 2, 8}
  <2>1. cfg.filter \in {0, 1, 2}
    BY <1>1 DEF IsConfig
  <2>2. CASE cfg.filter = 0
    BY <2>2 DEF ExtraRows
  <2>3. CASE cfg.filter = 1
    BY <2>3 DEF ExtraRows
  <2>4. CASE cfg.filter = 2
    BY <2>4 DEF ExtraRows
  <2> QED
    BY <2>1, <2>2, <2>3, <2>4
<1>3. /\ cfg.top \in Nat /\ cfg.bottom \in Nat /\ cfg.bottom > 0
  BY <1>1 DEF IsConfig
<1>4. y_start = YStart(ctx.mb_y) /\ y_start \in Int
  BY <1>2 DEF y_start, YStart, is_first_row
<1>5. y_end \in Int /\ y_end <= cfg.bottom
  BY <1>2, <1>3 DEF y_end, MinOf
<1>6. ~ is_last_row => y_end = Through(ctx.mb_y + 1)
  BY <1>2, <1>3 DEF y_end, Through, YStart
<1>7. /\ YStart(ctx.mb_y + 1) \in Int /\ YStart(ctx.mb_y) \in Int
      /\ YStart(ctx.mb_y) < YStart(ctx.mb_y + 1)
  <2>1. ExtraRows \in Int /\ 0 <= ExtraRows /\ ExtraRows < 16
    BY <1>2
  <2>2. /\ ctx.mb_y + 1 # 0 /\ YStart(ctx.mb_y + 1) = ctx.mb_y * 16 + 16 - ExtraRows
        /\ ctx.mb_y * 16 \in Int
    BY <2>1 DEF YStart
  <2>3. CASE ctx.mb_y = 0
    BY <2>1, <2>2, <2>3 DEF YStart
  <2>4. CASE ctx.mb_y # 0
    BY <2>1, <2>2, <2>4 DEF YStart
  <2> QED
    BY <2>3, <2>4
<1> QED
  BY <1>3, <1>4, <1>5, <1>6, <1>7 DEF Through, MinOf

LEMMA RowsAreNumbers == IInv => br_mb_y \in Int
<1> SUFFICES ASSUME IInv PROVE br_mb_y \in Int
  OBVIOUS
<1>1. IsConfig(cfg)
  BY ConfigsAssumption DEF IInv, Types
<1>2. ExtraRows \in Nat
  BY <1>1 DEF IsConfig, ExtraRows
<1> QED
  BY <1>1, <1>2 DEF IsConfig, mb_h, br_mb_y, MinOf

LEMMA InitBInv == Init => BInv
<1> SUFFICES ASSUME Init PROVE BInv
  OBVIOUS
<1>1. IInv
  BY InitIInv
<1>2. IsConfig(cfg)
  BY ConfigsAssumption DEF Init
<1>3. Reached(rows, mb_y)
  BY <1>2 DEF Init, IsConfig, Reached, Through, YStart, MinOf, MaxOf
<1> QED
  BY <1>1, <1>3 DEF Init, BInv

\* Steps of main: what a job has reached stays, and the next one starts there.
LEMMA NextMainBInv == BInv /\ IInv' /\ MainSteps => BInv'
<1> SUFFICES ASSUME BInv, IInv', MainSteps PROVE BInv'
  OBVIOUS
<1>1. IInv /\ mb_y \in Nat /\ br_mb_y \in Int
  BY RowsAreNumbers DEF BInv, IInv, Types
<1>2. cfg' = cfg /\ br_mb_y' = br_mb_y /\ Threaded' = Threaded
      /\ \A n, y : alphaRow' = alphaRow => Reached(n, y)' = Reached(n, y)
  <2>1. cfg' = cfg
    BY DEF MainSteps, SetupFails, Setup, InitFails, InitFrame, ParseBegin, ParseEnd,
           ParseFails, StoreError, ProcessRowInline, InlineReturns,
           ProcessRowLaunch, ProcessRowAborts, ParseFrameEnds, ExitCritical, Return
  <2> QED
    BY <2>1 DEF br_mb_y, mb_h, ExtraRows, Threaded, Reached, Through, YStart
<1> USE DEF BInv, jobVars, worker, output, MainError
<1>3. CASE SetupFails \/ Setup \/ InitFails
  BY <1>1, <1>2, <1>3 DEF SetupFails, Setup, InitFails, IInv, Phases
<1>4. CASE InitFrame
  BY <1>1, <1>2, <1>4 DEF InitFrame, IInv, Phases
<1>5. CASE ParseBegin \/ ParseEnd \/ ParseFails
  BY <1>1, <1>2, <1>5 DEF ParseBegin, ParseEnd, ParseFails, is_last_row
<1>6. CASE StoreError \/ ProcessRowAborts \/ ParseFrameEnds \/ ExitCritical \/ Return
  BY <1>1, <1>2, <1>6
  DEF StoreError, ProcessRowAborts, ParseFrameEnds, ExitCritical, Return, is_last_row
<1>7. CASE ProcessRowInline
  <2>1. job = "idle" /\ ~ Threaded /\ mb_y < br_mb_y
    BY <1>7 DEF ProcessRowInline, IInv, JobPlace, Phases
  <2> QED
    BY <1>1, <1>2, <1>7, <2>1 DEF ProcessRowInline
<1>8. CASE InlineReturns
  <2>1. ~ Threaded /\ job = "end"
    BY <1>8 DEF InlineReturns, IInv, JobPlace
  <2> QED
    BY <1>1, <1>2, <1>8, <2>1 DEF InlineReturns, is_last_row
<1>9. CASE ProcessRowLaunch
  <2>1. job = "idle" /\ Threaded /\ ~ hadError /\ mb_y < br_mb_y
    BY <1>9 DEF ProcessRowLaunch, IInv, JobPlace, Phases, Synced
  <2> QED
    BY <1>1, <1>2, <1>9, <2>1 DEF ProcessRowLaunch
<1> QED
  BY <1>3, <1>4, <1>5, <1>6, <1>7, <1>8, <1>9 DEF MainSteps

\* Steps of the job.
LEMMA NextJobBInv == BInv /\ IInv' /\ JobSteps => BInv'
<1> SUFFICES ASSUME BInv, IInv', JobSteps PROVE BInv'
  OBVIOUS
<1>1. IInv /\ cfg \in Configs /\ mb_y \in Nat /\ br_mb_y \in Int
  BY RowsAreNumbers DEF BInv, IInv, Types
<1>2. /\ UNCHANGED <<cfg, ctx, mainVars>>
      /\ br_mb_y' = br_mb_y /\ Threaded' = Threaded /\ is_last_row' = is_last_row
      /\ \A n, y : alphaRow' = alphaRow => Reached(n, y)' = Reached(n, y)
  <2>1. UNCHANGED <<cfg, ctx, mainVars>>
    BY DEF JobSteps, Reconstruct, Filter, Emit, AlphaFails, JobStoresError, Put,
           Rotate, JobDone, JobUnchanged
  <2> QED
    BY <2>1
    DEF br_mb_y, mb_h, ExtraRows, Threaded, Reached, Through, YStart, is_last_row
<1> USE DEF BInv, JobUnchanged, mainVars, worker
<1>3. CASE Reconstruct \/ Filter
  BY <1>1, <1>2, <1>3 DEF Reconstruct, Filter
<1>4. CASE Emit
  <2>1. ctx.mb_y \in Nat /\ Reached(rows, ctx.mb_y)
    BY <1>4 DEF Emit
  <2>2. /\ y_start \in Int /\ y_end \in Int /\ cfg.top \in Nat /\ cfg.bottom \in Nat
        /\ y_end <= cfg.bottom
        /\ y_start < y_end => Through(ctx.mb_y) = y_start
        /\ Through(ctx.mb_y) \in Int
        /\ ~ is_last_row =>
             /\ y_end = Through(ctx.mb_y + 1)
             /\ y_start < y_end \/ Through(ctx.mb_y + 1) = Through(ctx.mb_y)
             /\ Through(ctx.mb_y) <= Through(ctx.mb_y + 1)
    BY <1>1, <2>1, Bands
  <2>3. UNCHANGED <<cfg, ctx, mainVars, rows, jobOk>>
    BY <1>2, <1>4 DEF Emit
  <2>4. Through(ctx.mb_y + 1)' = Through(ctx.mb_y + 1)
    BY <2>3 DEF Through, YStart, ExtraRows
  <2>5. cfg.alpha /\ ~ is_last_row => alphaRow' = Through(ctx.mb_y + 1)
    BY <1>4, <2>1, <2>2 DEF Emit, Reached
  <2>6. CASE put_start < y_end
    <3>1. job' = "put" /\ io'.mb_y = put_start - cfg.top /\ io'.mb_h = y_end - put_start
      BY <1>4, <2>6 DEF Emit, PrepareBand
    <3>2. put_start \in Int /\ y_start <= put_start /\ cfg.top <= put_start
          /\ put_start \in {y_start, cfg.top}
      BY <2>2 DEF put_start, MaxOf
    <3>3. rows = put_start - cfg.top
      BY <2>1, <2>2, <2>6, <3>2 DEF Reached, MaxOf
    <3>4. ~ is_last_row => Reached(rows + io.mb_h, ctx.mb_y + 1)'
      BY <2>2, <2>3, <2>4, <2>5, <2>6, <3>1, <3>2, <3>3 DEF Reached, MaxOf
    <3> QED
      BY <1>1, <1>2, <1>4, <2>1, <2>2, <2>3, <2>6, <3>1, <3>2, <3>3, <3>4
      DEF Emit
  <2>7. CASE ~ (put_start < y_end)
    <3>1. job' = "rotate"
      BY <1>4, <2>7 DEF Emit
    <3>2. put_start \in Int /\ put_start \in {y_start, cfg.top}
          /\ (y_end <= y_start \/ y_end <= cfg.top)
      BY <2>2, <2>7 DEF put_start, MaxOf
    <3>3. ~ is_last_row => Reached(rows, ctx.mb_y + 1)'
      BY <2>1, <2>2, <2>3, <2>4, <2>5, <3>2 DEF Reached, MaxOf
    <3> QED
      BY <1>1, <1>2, <1>4, <2>1, <2>3, <3>1, <3>3 DEF Emit
  <2> QED
    BY <2>6, <2>7
<1>5. CASE AlphaFails \/ JobStoresError
  BY <1>1, <1>2, <1>5 DEF AlphaFails, JobStoresError
<1>6. CASE Put
  <2>1. /\ job = "put" /\ job' = "rotate" /\ alphaRow' = alphaRow
        /\ jobOk' => rows' = rows + io.mb_h
    BY <1>6 DEF Put
  <2>2. jobOk' => is_last_row \/ Reached(rows, ctx.mb_y + 1)'
    BY <1>2, <2>1 DEF Reached
  <2> QED
    BY <1>1, <1>2, <2>1, <2>2
<1>7. CASE Rotate
  BY <1>1, <1>2, <1>7 DEF Rotate
<1>8. CASE JobDone
  <2>1. job = "end" /\ job' = "idle" /\ Threaded /\ UNCHANGED <<alphaRow, rows, jobOk>>
        /\ (~ hadError' => jobOk)
    BY <1>8 DEF JobDone, output
  <2> QED
    BY <1>1, <1>2, <2>1 DEF is_last_row
<1> QED
  BY <1>3, <1>4, <1>5, <1>6, <1>7, <1>8 DEF JobSteps

LEMMA NextBInv == BInv /\ [Next]_vars => BInv'
<1> SUFFICES ASSUME BInv, UNCHANGED vars, IInv' PROVE BInv'
  BY NextIInv, NextMainBInv, NextJobBInv DEF BInv, Next, Terminated
<1> QED
  BY DEF vars, mainVars, jobVars, worker, output, BInv, br_mb_y, mb_h, ExtraRows,
         Threaded, Reached, Through, YStart, is_last_row

\* For frames and crop windows of every size, put() gets the rows of the window from
\* top to bottom, without gap or overlap, and the alpha rows are decoded in order.
THEOREM BandsAreConsecutive == SafeSpec => []BandsInOrder
<1>1. BInv => BandsInOrder
  <2> SUFFICES ASSUME BInv PROVE BandsInOrder
    OBVIOUS
  <2>1. IInv /\ cfg \in Configs /\ br_mb_y \in Int
    BY RowsAreNumbers DEF BInv, IInv, Types
  <2>2. ASSUME job = "emit", cfg.alpha, y_start < y_end
        PROVE  y_start = alphaRow
    BY <2>1, <2>2, Bands DEF BInv, Reached
  <2> QED
    BY <2>2 DEF BInv, BandsInOrder
<1>2. SafeSpec => []BInv
  BY InitBInv, NextBInv, PTL DEF SafeSpec
<1> QED
  BY <1>1, <1>2, PTL

-----------------------------------------------------------------------------
(* What the rows of the cache hold.                                         *)

\* The n cells of cache c from position p on hold the rows r, r + 1, ... of the plane
\* with `stage' passes of the filter done, apart from rows before `from'.
Held(c, p, r, n, stage, from) ==
  \A i \in 0 .. n - 1 : r + i >= from => c[p + i] = <<r + i, stage>>

\* The passes of a row once its own macroblock row is filtered.
OwnPass == IF Reads = 0 THEN 0 ELSE 1

\* Above tl_mb_y nothing is filtered, and its first row is filtered against what is
\* there: the rows up to that one are wrong, and not wanted.
WantedFrom == IF Reads = 0 \/ tl_mb_y = 0 THEN 0 ELSE tl_mb_y * Block + 1

AboveNext ==
  mb_y > 0 =>
    Held(cache, Base(cacheId) - Delay, mb_y * Block - Delay, Delay, OwnPass, WantedFrom)

AboveSlot ==
  ctx.mb_y > 0 =>
    Held(cache, Base(ctx.id) - Delay, ctx.mb_y * Block - Delay, Delay, OwnPass,
         WantedFrom)

AboveSlotDone ==
  ctx.mb_y > 0 =>
    /\ Held(cache, Base(ctx.id) - Delay, ctx.mb_y * Block - Delay, Delay - Changes,
            OwnPass, WantedFrom)
    /\ Held(cache, Base(ctx.id) - Changes, ctx.mb_y * Block - Changes, Changes, 2,
            WantedFrom)

InSlot == Held(cache, Base(ctx.id), ctx.mb_y * Block, Block, 0, 0)

InSlotDone == Held(cache, Base(ctx.id), ctx.mb_y * Block, Block, OwnPass, WantedFrom)

\* Where the slot after this one is, and the first row that goes there.
BaseAfter == IF LastSlot THEN 0 ELSE Base(ctx.id) + Block
RowAfter  == (ctx.mb_y + 1) * Block

AboveSlotAfter ==
  Held(cache, BaseAfter - Delay, RowAfter - Delay, Delay, OwnPass, WantedFrom)

\* The slot of the job, and the one of the row after it.
Slots ==
  /\ cacheId \in 0 .. num_caches - 1 /\ ctx.id \in 0 .. num_caches - 1
  /\ job # "idle" /\ Threaded => cacheId = IF LastSlot THEN 0 ELSE ctx.id + 1

\* The buffers given to the job were filled from its row.
Parsed ==
  /\ mbData \in [0 .. 1 -> Int] /\ fInfo \in [0 .. 1 -> Int]
  /\ decMb \in 0 .. 1 /\ decF \in 0 .. 1 /\ ctx.mb \in 0 .. 1 /\ ctx.f \in 0 .. 1
  /\ ~ Threaded => decMb = ctx.mb /\ decF = ctx.f
  /\ mpc = "process" => mbData[decMb] = mb_y /\ (cfg.filter > 0 => fInfo[decF] = mb_y)
  /\ job # "idle" =>
       /\ ctx.mb_y < br_mb_y
       /\ mbData[ctx.mb] = ctx.mb_y
       /\ ctx.filter_row <=> cfg.filter > 0 /\ ctx.mb_y >= tl_mb_y
       /\ ctx.filter_row => fInfo[ctx.f] = ctx.mb_y
       /\ job = "filter" => ctx.filter_row

Cached ==
  /\ DOMAIN cache = Positions
  /\ job \in {"reconstruct", "filter"} => AboveSlot
  /\ job = "filter" => InSlot
  /\ job = "emit" => AboveSlotDone
  /\ job \in {"emit", "put", "rotate"} => InSlotDone
  /\ job = "end" /\ jobOk /\ ~ is_last_row => AboveSlotAfter
  /\ /\ job = "idle" /\ ~ (Threaded /\ hadError)
     /\ mpc \in {"setup", "init", "parse", "parsing", "process"}
     => mb_y >= br_mb_y \/ AboveNext

CInv == BInv /\ Slots /\ Parsed /\ Cached

\* The numbers of a frame.
LEMMA Geometry ==
  ASSUME cfg \in Configs
  PROVE  /\ Block \in {8, 16} /\ Delay \in 0 .. 8 /\ Reads \in 0 .. 4
         /\ Changes \in 0 .. 3
         /\ Changes <= Reads /\ Reads <= Delay /\ (Reads = 0 => Changes = 0)
         /\ num_caches \in 1 .. 3 /\ (~ Threaded => num_caches = 1)
         /\ tl_mb_y \in Nat
         /\ Reads # 0 => cfg.filter > 0
         /\ cfg.filter = 2 => tl_mb_y = 0
         /\ Reads # 0 /\ cfg.filter # 2 => Changes = 1
         /\ ExtraRows \in {0, 2, 8}
<1>1. IsConfig(cfg)
  BY ConfigsAssumption
<1>2. cfg.filter \in {0, 1, 2} /\ cfg.top \in Nat /\ cfg.plane \in {"Y", "UV"}
      /\ cfg.mt \in {0, 2}
  BY <1>1 DEF IsConfig
<1>3. \A n \in Int : MaxOf(0, n) \in Nat
  BY DEF MaxOf
<1>4. num_caches \in 1 .. 3 /\ (~ Threaded => num_caches = 1)
  BY <1>2 DEF num_caches
<1>5. CASE cfg.filter = 0
  <2>1. ExtraRows = 0
    BY <1>5 DEF ExtraRows
  <2> QED
    BY <1>2, <1>3, <1>4, <1>5, <2>1 DEF Block, Delay, Reads, Changes, tl_mb_y, Luma
<1>6. CASE cfg.filter = 1
  <2>1. ExtraRows = 2
    BY <1>6 DEF ExtraRows
  <2> QED
    BY <1>2, <1>3, <1>4, <1>6, <2>1 DEF Block, Delay, Reads, Changes, tl_mb_y, Luma
<1>7. CASE cfg.filter = 2
  <2>1. ExtraRows = 8
    BY <1>7 DEF ExtraRows
  <2> QED
    BY <1>2, <1>3, <1>4, <1>7, <2>1 DEF Block, Delay, Reads, Changes, tl_mb_y, Luma
<1> QED
  BY <1>2, <1>5, <1>6, <1>7

\* The slots of the cache and the rows that go there follow one another.
LEMMA Products ==
  ASSUME NEW b \in {8, 16}, NEW y \in Nat, NEW z \in Nat
  PROVE  /\ y * b \in Nat /\ (y + 1) * b = y * b + b
         /\ y < z => y * b + b <= z * b
         /\ y > 0 => y * b >= b
<1>1. CASE b = 8
  BY <1>1
<1>2. CASE b = 16
  BY <1>2
<1> QED
  BY <1>1, <1>2

\* The cells of a slot, and of the rows above it, are in the cache.
LEMMA SlotIsInCache ==
  ASSUME cfg \in Configs, ctx.id \in 0 .. num_caches - 1
  PROVE  /\ Base(ctx.id) \in Nat
         /\ \A k \in Int : -Delay <= k /\ k < Block => Base(ctx.id) + k \in Positions
<1>1. Block \in {8, 16} /\ Delay \in 0 .. 8 /\ num_caches \in 1 .. 3
  BY Geometry
<1>2. ctx.id \in Nat /\ num_caches \in Nat /\ ctx.id < num_caches
  BY <1>1
<1>3. Base(ctx.id) \in Nat /\ Base(ctx.id) + Block <= num_caches * Block
      /\ num_caches * Block \in Nat
  BY <1>1, <1>2, Products DEF Base
<1> QED
  BY <1>1, <1>3 DEF Positions

\* Nothing but the frame determines its geometry.
LEMMA SameFrame ==
  ASSUME cfg' = cfg
  PROVE  /\ Block' = Block /\ Delay' = Delay /\ Reads' = Reads /\ Changes' = Changes
         /\ num_caches' = num_caches /\ Threaded' = Threaded /\ tl_mb_y' = tl_mb_y
         /\ br_mb_y' = br_mb_y /\ Positions' = Positions
         /\ OwnPass' = OwnPass /\ WantedFrom' = WantedFrom
<1>1. ExtraRows' = ExtraRows /\ Luma' = Luma /\ mb_h' = mb_h /\ Threaded' = Threaded
  BY DEF ExtraRows, Luma, mb_h, Threaded
<1>2. Block' = Block /\ Delay' = Delay /\ Reads' = Reads /\ Changes' = Changes
      /\ num_caches' = num_caches /\ tl_mb_y' = tl_mb_y /\ br_mb_y' = br_mb_y
  BY <1>1 DEF Block, Delay, Reads, Changes, num_caches, tl_mb_y, br_mb_y
<1> QED
  BY <1>1, <1>2 DEF Positions, OwnPass, WantedFrom

LEMMA InitCInv == Init => CInv
<1> SUFFICES ASSUME Init PROVE CInv
  OBVIOUS
<1>1. BInv
  BY InitBInv
<1>2. cfg \in Configs /\ num_caches \in 1 .. 3
  BY Geometry DEF Init
<1>3. Slots
  BY <1>2 DEF Init, Slots
<1>4. Parsed
  BY DEF Init, Parsed
<1>5. Cached
  BY DEF Init, Cached, AboveNext
<1> QED
  BY <1>1, <1>3, <1>4, <1>5 DEF CInv

\* Steps of main that leave the cache and the buffers alone.
LEMMA NextMainCInvElse ==
  /\ CInv /\ BInv'
  /\ SetupFails \/ Setup \/ InitFails \/ InitFrame \/ ParseFails \/ StoreError
       \/ ProcessRowAborts \/ ParseFrameEnds \/ ExitCritical \/ Return
  => CInv'
<1> SUFFICES ASSUME CInv, BInv',
                    SetupFails \/ Setup \/ InitFails \/ InitFrame \/ ParseFails
                      \/ StoreError \/ ProcessRowAborts \/ ParseFrameEnds
                      \/ ExitCritical \/ Return
             PROVE  CInv'
  OBVIOUS
<1>1. /\ UNCHANGED <<cfg, cacheId, job, mb_y, decMb, decF, mbData, fInfo, cache, jobOk,
                     hadError>>
      /\ mpc' # "process"
      /\ mpc' \in {"setup", "init", "parse", "parsing", "process"} =>
           mpc \in {"setup", "init", "parse", "parsing", "process"}
  BY DEF SetupFails, Setup, InitFails, InitFrame, ParseFails, StoreError,
         ProcessRowAborts, ParseFrameEnds, ExitCritical, Return, MainError, jobVars,
         worker
<1>2. \/ ctx' = ctx
      \/ /\ InitFrame /\ job = "idle"
         /\ ctx' = [id |-> ctx.id, mb_y |-> ctx.mb_y, filter_row |-> ctx.filter_row,
                    mb |-> IF Threaded THEN 1 ELSE 0, f |-> IF Threaded THEN 1 ELSE 0]
         /\ decMb = 0 /\ decF = 0
  BY DEF SetupFails, Setup, InitFails, InitFrame, ParseFails, StoreError,
         ProcessRowAborts, ParseFrameEnds, ExitCritical, Return, CInv, BInv, IInv, Phases
<1>3. ctx'.id = ctx.id /\ ctx'.mb \in 0 .. 1 /\ ctx'.f \in 0 .. 1
      /\ (job # "idle" => ctx' = ctx)
      /\ (~ Threaded => decMb' = ctx'.mb /\ decF' = ctx'.f)
  BY <1>1, <1>2 DEF CInv, Parsed
<1>4. Slots'
  BY <1>1, <1>3, SameFrame DEF CInv, Slots, LastSlot
<1>5. Parsed'
  BY <1>1, <1>3, SameFrame DEF CInv, Parsed
<1>6. AboveNext' = AboveNext
  BY <1>1, SameFrame DEF AboveNext, Base
<1>7. job # "idle" =>
        /\ AboveSlot' = AboveSlot /\ AboveSlotDone' = AboveSlotDone
        /\ InSlot' = InSlot /\ InSlotDone' = InSlotDone
        /\ AboveSlotAfter' = AboveSlotAfter /\ is_last_row' = is_last_row
  <2> SUFFICES ASSUME ctx' = ctx
               PROVE  /\ AboveSlot' = AboveSlot /\ AboveSlotDone' = AboveSlotDone
                      /\ InSlot' = InSlot /\ InSlotDone' = InSlotDone
                      /\ AboveSlotAfter' = AboveSlotAfter
                      /\ is_last_row' = is_last_row
    BY <1>3
  <2> QED
    BY <1>1, SameFrame
    DEF AboveSlot, AboveSlotDone, InSlot, InSlotDone, AboveSlotAfter, BaseAfter,
        RowAfter, LastSlot, is_last_row, Base
<1>8. Cached'
  BY <1>1, <1>6, <1>7, SameFrame DEF CInv, Cached
<1> QED
  BY <1>4, <1>5, <1>8 DEF CInv

\* ParseFrame fills the buffers the job does not have.
LEMMA NextMainCInvParse == CInv /\ BInv' /\ (ParseBegin \/ ParseEnd) => CInv'
<1> SUFFICES ASSUME CInv, BInv', ParseBegin \/ ParseEnd PROVE CInv'
  OBVIOUS
<1>1. /\ UNCHANGED <<cfg, cacheId, job, ctx, mb_y, decMb, decF, cache, jobOk, hadError>>
      /\ {mpc, mpc'} \subseteq {"parse", "parsing", "process"}
  BY DEF ParseBegin, ParseEnd, jobVars, worker
<1>2. PICK n \in Int :
        /\ mbData' = [mbData EXCEPT ![decMb] = n]
        /\ fInfo' = IF cfg.filter > 0 THEN [fInfo EXCEPT ![decF] = n] ELSE fInfo
        /\ mpc' = "process" => n = mb_y
  <2>1. mb_y \in Int
    BY DEF CInv, BInv, IInv, Types
  <2> QED
    BY <2>1 DEF ParseBegin, ParseEnd
<1>3. job # "idle" => decMb # ctx.mb /\ decF # ctx.f
  <2>1. job # "idle" => Threaded
    BY <1>1 DEF CInv, BInv, IInv, JobPlace
  <2> QED
    BY <2>1 DEF CInv, BInv, IInv, Swapped
<1>4. Slots'
  BY <1>1, SameFrame DEF CInv, Slots, LastSlot
<1>5. Parsed'
  BY <1>1, <1>2, <1>3, SameFrame DEF CInv, Parsed
<1>6. Cached'
  BY <1>1, SameFrame
  DEF CInv, Cached, AboveNext, AboveSlot, AboveSlotDone, InSlot, InSlotDone,
      AboveSlotAfter, BaseAfter, RowAfter, LastSlot, is_last_row, Base
<1> QED
  BY <1>4, <1>5, <1>6 DEF CInv

\* The start of a job: the rows above its slot are those the last job left.
LEMMA NextMainCInvStart ==
  CInv /\ BInv' /\ (ProcessRowInline \/ ProcessRowLaunch) => CInv'
<1> SUFFICES ASSUME CInv, BInv', ProcessRowInline \/ ProcessRowLaunch PROVE CInv'
  OBVIOUS
<1>1. /\ UNCHANGED <<cfg, mbData, fInfo, cache>> /\ mpc = "process"
      /\ job = "idle" /\ job' = "reconstruct" /\ mb_y < br_mb_y
      /\ ~ (Threaded /\ hadError) /\ mpc' # "process"
      /\ ctx'.mb_y = mb_y
      /\ ctx'.filter_row = FilterThisRow
  BY DEF ProcessRowInline, ProcessRowLaunch, CInv, BInv, IInv, JobPlace, Synced
<1>2. cfg \in Configs /\ num_caches \in 1 .. 3 /\ (~ Threaded => num_caches = 1)
      /\ mb_y \in Nat /\ br_mb_y \in Int /\ tl_mb_y \in Nat
  BY Geometry, RowsAreNumbers DEF CInv, BInv, IInv, Types
<1>3. /\ ctx'.id = cacheId
      /\ cacheId' \in 0 .. num_caches - 1
      /\ Threaded => cacheId' = IF cacheId + 1 = num_caches THEN 0 ELSE cacheId + 1
  <2>1. cacheId \in 0 .. num_caches - 1 /\ ctx.id \in 0 .. num_caches - 1
    BY DEF CInv, Slots
  <2>2. CASE ProcessRowInline
    BY <1>2, <2>1, <2>2 DEF ProcessRowInline
  <2>3. CASE ProcessRowLaunch
    BY <1>2, <2>1, <2>3 DEF ProcessRowLaunch, SlotAfter
  <2> QED
    BY <2>2, <2>3
<1>4. Slots'
  BY <1>1, <1>3, SameFrame DEF CInv, Slots, LastSlot
<1>5. Parsed'
  <2>1. FilterThisRow <=> cfg.filter > 0 /\ mb_y >= tl_mb_y
    BY <1>1, <1>2 DEF FilterThisRow
  <2>2. /\ ctx'.mb = decMb /\ mbData[decMb] = mb_y
        /\ FilterThisRow => ctx'.f = decF /\ fInfo[decF] = mb_y
        /\ decMb' \in 0 .. 1 /\ decF' \in 0 .. 1 /\ ctx'.mb \in 0 .. 1 /\ ctx'.f \in 0 .. 1
        /\ ~ Threaded => decMb' = ctx'.mb /\ decF' = ctx'.f
    <3>1. CASE ProcessRowInline
      BY <1>1, <2>1, <3>1 DEF ProcessRowInline, CInv, Parsed
    <3>2. CASE ProcessRowLaunch
      BY <1>1, <2>1, <3>2 DEF ProcessRowLaunch, MbAfterSwap, CInv, Parsed
    <3> QED
      BY <3>1, <3>2
  <2> QED
    BY <1>1, <2>1, <2>2, SameFrame DEF CInv, Parsed
<1>6. Cached'
  <2>1. AboveNext
    BY <1>1, <1>2 DEF CInv, Cached
  <2>2. AboveSlot'
    BY <1>1, <1>3, <2>1, SameFrame DEF AboveNext, AboveSlot, Base
  <2> QED
    BY <1>1, <2>2, SameFrame DEF CInv, Cached
<1> QED
  BY <1>4, <1>5, <1>6 DEF CInv

\* The end of a job, inline or in the worker.
LEMMA NextCInvEnd == CInv /\ BInv' /\ (InlineReturns \/ JobDone) => CInv'
<1> SUFFICES ASSUME CInv, BInv', InlineReturns \/ JobDone PROVE CInv'
  OBVIOUS
<1>1. /\ UNCHANGED <<cfg, ctx, cacheId, decMb, decF, mbData, fInfo, cache>>
      /\ job = "end" /\ job' = "idle"
      /\ mpc' = "process" => Threaded /\ UNCHANGED <<mpc, mb_y>>
  BY DEF InlineReturns, JobDone, CInv, BInv, IInv, JobPlace, MainError, mainVars
<1>2. cfg \in Configs /\ num_caches \in 1 .. 3 /\ (~ Threaded => num_caches = 1)
      /\ mb_y \in Nat /\ br_mb_y \in Int /\ ctx.mb_y \in Nat
  BY <1>1, Geometry, RowsAreNumbers DEF CInv, BInv, IInv, Types
<1>3. Slots'
  BY <1>1, SameFrame DEF CInv, Slots
<1>4. Parsed'
  BY <1>1, SameFrame DEF CInv, Parsed
<1>5. ASSUME ~ (Threaded /\ hadError'),
             mpc' \in {"setup", "init", "parse", "parsing", "process"}
      PROVE  jobOk /\ mb_y' = ctx.mb_y + 1
  <2>1. CASE InlineReturns
    BY <1>2, <1>5, <2>1 DEF InlineReturns, MainError, CInv, BInv, IInv, JobPlace
  <2>2. CASE JobDone
    BY <1>2, <1>5, <2>2 DEF JobDone, mainVars, CInv, BInv
  <2> QED
    BY <2>1, <2>2
<1>6. ASSUME jobOk, mb_y' = ctx.mb_y + 1, mb_y' < br_mb_y
      PROVE  AboveNext'
  <2>1. AboveSlotAfter
    BY <1>1, <1>2, <1>6 DEF CInv, Cached, is_last_row
  <2>2. cacheId = IF LastSlot THEN 0 ELSE ctx.id + 1
    BY <1>1, <1>2 DEF CInv, Slots, LastSlot
  <2>3. Base(cacheId) = IF LastSlot THEN 0 ELSE Base(ctx.id) + Block
    <3>1. ctx.id \in Nat /\ Block \in {8, 16}
      BY <1>2, Geometry DEF CInv, Slots
    <3> QED
      BY <2>2, <3>1, Products DEF Base
  <2>4. Base(cacheId)' = Base(cacheId)
    BY <1>1, SameFrame DEF Base
  <2> QED
    BY <1>1, <1>6, <2>1, <2>3, <2>4, SameFrame
    DEF AboveNext, AboveSlotAfter, BaseAfter, RowAfter
<1>7. Cached'
  <2>1. mb_y' \in Int
    BY DEF BInv, IInv, Types
  <2>2. ~ (Threaded /\ hadError)' /\ mpc' \in {"setup", "init", "parse", "parsing", "process"}
        => mb_y' >= br_mb_y' \/ AboveNext'
    BY <1>1, <1>2, <1>5, <1>6, <2>1, SameFrame
  <2> QED
    BY <1>1, <2>2, SameFrame DEF CInv, Cached
<1> QED
  BY <1>3, <1>4, <1>7 DEF CInv

\* Where the job is in the cache, with the numbers its steps need.
Place ==
  /\ cfg \in Configs /\ ctx.mb_y \in Nat
  /\ Base(ctx.id) \in Nat /\ ctx.mb_y * Block \in Nat /\ tl_mb_y \in Nat
  /\ WantedFrom \in Nat
  /\ \A k \in Int : -Delay <= k /\ k < Block => Base(ctx.id) + k \in Positions
  /\ ctx.mb_y > 0 => ctx.mb_y * Block >= Block
  /\ Reads # 0 /\ ctx.mb_y < tl_mb_y => WantedFrom > ctx.mb_y * Block + Block
  /\ Reads # 0 /\ ctx.mb_y = tl_mb_y /\ tl_mb_y > 0 =>
       WantedFrom = ctx.mb_y * Block + 1
  /\ ctx.mb_y > tl_mb_y =>
       ctx.mb_y * Block >= Block /\ WantedFrom <= ctx.mb_y * Block - Block + 1
  /\ tl_mb_y = 0 => WantedFrom = 0

LEMMA JobPlaced == CInv /\ job # "idle" => Place
<1> SUFFICES ASSUME CInv, job # "idle" PROVE Place
  OBVIOUS
<1>1. cfg \in Configs /\ ctx.mb_y \in Nat /\ ctx.id \in 0 .. num_caches - 1
  BY DEF CInv, BInv, IInv, Types, Slots
<1>2. Block \in {8, 16} /\ tl_mb_y \in Nat
  BY <1>1, Geometry
<1>3. /\ Base(ctx.id) \in Nat
      /\ \A k \in Int : -Delay <= k /\ k < Block => Base(ctx.id) + k \in Positions
  BY <1>1, SlotIsInCache
<1>4. /\ ctx.mb_y * Block \in Nat /\ (ctx.mb_y > 0 => ctx.mb_y * Block >= Block)
      /\ tl_mb_y * Block \in Nat
      /\ ctx.mb_y < tl_mb_y => ctx.mb_y * Block + Block <= tl_mb_y * Block
      /\ ctx.mb_y > tl_mb_y => tl_mb_y * Block + Block <= ctx.mb_y * Block
  BY <1>1, <1>2, Products
<1>5. WantedFrom \in {0, tl_mb_y * Block + 1}
      /\ (Reads # 0 /\ tl_mb_y > 0 => WantedFrom = tl_mb_y * Block + 1)
      /\ (tl_mb_y = 0 => WantedFrom = 0)
  BY <1>2 DEF WantedFrom
<1> QED
  BY <1>1, <1>2, <1>3, <1>4, <1>5 DEF Place

\* ReconstructRow fills the slot, and only that.
LEMMA NextReconstruct == CInv /\ BInv' /\ Reconstruct => CInv'
<1> SUFFICES ASSUME CInv, BInv', Reconstruct PROVE CInv'
  OBVIOUS
<1>1. /\ UNCHANGED <<cfg, ctx, mainVars, worker, jobOk>>
      /\ job = "reconstruct" /\ job' = IF ctx.filter_row THEN "filter" ELSE "emit"
  BY DEF Reconstruct, JobUnchanged
<1>2. Place /\ Block \in {8, 16} /\ Delay \in 0 .. 8 /\ Reads \in 0 .. 4
      /\ Changes \in 0 .. 3 /\ Changes <= Delay /\ (Reads = 0 => Changes = 0)
      /\ (Reads # 0 => cfg.filter > 0)
  BY <1>1, JobPlaced, Geometry DEF Place
<1>3. mbData[ctx.mb] = ctx.mb_y /\ AboveSlot
      /\ (ctx.filter_row <=> cfg.filter > 0 /\ ctx.mb_y >= tl_mb_y)
  BY <1>1 DEF CInv, Parsed, Cached
<1>4. Slots' /\ Parsed'
  BY <1>1, SameFrame DEF CInv, Slots, Parsed, LastSlot, mainVars
<1>5. DOMAIN cache' = Positions
  BY DEF Reconstruct
<1> DEFINE b == Base(ctx.id)
           y == ctx.mb_y * Block
<1>6. /\ \A i \in 0 .. Block - 1 : cache'[b + i] = <<y + i, 0>>
      /\ \A k \in Int : -Delay <= k /\ k < 0 => cache'[b + k] = cache[b + k]
  <2>1. b \in Nat /\ y \in Nat
        /\ \A k \in Int : -Delay <= k /\ k < Block => b + k \in Positions
    BY <1>2 DEF Place
  <2>2. cache' = [p \in Positions |->
                    IF p - b \notin 0 .. Block - 1 THEN cache[p] ELSE <<y + p - b, 0>>]
    BY <1>3 DEF Reconstruct
  <2> HIDE DEF b, y
  <2> QED
    BY <1>2, <2>1, <2>2
<1>7. b' = b /\ y' = y /\ b \in Nat /\ y \in Nat
  BY <1>1, <1>2, SameFrame DEF Base, Place
<1>8. InSlot'
  <2>1. Held(cache', b, y, Block, 0, 0)
    BY <1>6 DEF Held
  <2> QED
    BY <1>7, <2>1, SameFrame, <1>1 DEF InSlot
<1>9. AboveSlot'
  <2>1. Held(cache, b - Delay, y - Delay, Delay, OwnPass, WantedFrom)
        => Held(cache', b - Delay, y - Delay, Delay, OwnPass, WantedFrom)
    <3>1. \A i \in 0 .. Delay - 1 : b - Delay + i = b + (i - Delay)
                                    /\ i - Delay \in Int /\ i - Delay < 0
                                    /\ -Delay <= i - Delay
      BY <1>2, <1>7
    <3>2. \A i \in 0 .. Delay - 1 : cache'[b - Delay + i] = cache[b - Delay + i]
      BY <1>6, <3>1
    <3> QED
      BY <3>2 DEF Held
  <2> QED
    BY <1>1, <1>3, <1>7, <2>1, SameFrame DEF AboveSlot
<1>10. CASE ctx.filter_row
  <2>1. job' = "filter" /\ cfg' = cfg
    BY <1>1, <1>10
  <2> QED
    BY <1>4, <1>5, <1>8, <1>9, <2>1, SameFrame DEF CInv, Cached
<1>11. CASE ~ ctx.filter_row
  <2>1. Reads = 0 \/ WantedFrom > y + Block
    <3>1. Reads # 0 => ctx.mb_y < tl_mb_y
      BY <1>2, <1>3, <1>11 DEF Place
    <3> QED
      BY <1>2, <3>1 DEF Place
  <2>2. InSlotDone'
    <3>1. Held(cache', b, y, Block, OwnPass, WantedFrom)
      BY <1>2, <1>6, <1>7, <2>1 DEF Held, OwnPass, Place
    <3> QED
      BY <1>1, <1>7, <3>1, SameFrame DEF InSlotDone
  <2>3. AboveSlotDone'
    <3>1. CASE Reads = 0
      <4>1. Changes = 0 /\ Delay - Changes = Delay
        BY <1>2, <3>1
      <4>2. Held(cache', b - Changes, y - Changes, Changes, 2, WantedFrom)
        BY <4>1 DEF Held
      <4> QED
        BY <1>1, <1>7, <1>9, <4>1, <4>2, SameFrame DEF AboveSlotDone, AboveSlot
    <3>2. CASE Reads # 0
      <4>1. /\ Held(cache', b - Delay, y - Delay, Delay - Changes, OwnPass, WantedFrom)
            /\ Held(cache', b - Changes, y - Changes, Changes, 2, WantedFrom)
        BY <1>2, <1>7, <2>1, <3>2 DEF Held, Place
      <4> QED
        BY <1>1, <1>7, <4>1, SameFrame DEF AboveSlotDone
    <3> QED
      BY <3>1, <3>2
  <2>4. job' = "emit" /\ cfg' = cfg
    BY <1>1, <1>11
  <2> QED
    BY <1>4, <1>5, <2>2, <2>3, <2>4, SameFrame DEF CInv, Cached
<1> QED
  BY <1>10, <1>11

\* FilterRow does its own pass on the slot and the last one on the rows above it.
LEMMA NextFilter == CInv /\ BInv' /\ Filter => CInv'
<1> SUFFICES ASSUME CInv, BInv', Filter PROVE CInv'
  OBVIOUS
<1>1. /\ UNCHANGED <<cfg, ctx, mainVars, worker, jobOk>>
      /\ job = "filter" /\ job' = "emit"
  BY DEF Filter, JobUnchanged
<1>2. Place /\ Block \in {8, 16} /\ Delay \in 0 .. 8 /\ Reads \in 0 .. 4
      /\ Changes \in 0 .. 3 /\ Changes <= Reads /\ Reads <= Delay
      /\ (Reads = 0 => Changes = 0)
      /\ (cfg.filter = 2 => tl_mb_y = 0) /\ (Reads # 0 /\ cfg.filter # 2 => Changes = 1)
  BY <1>1, JobPlaced, Geometry DEF Place
<1>3. AboveSlot /\ InSlot
  BY <1>1 DEF CInv, Cached
<1>4. Slots' /\ Parsed'
  BY <1>1, SameFrame DEF CInv, Slots, Parsed, LastSlot, mainVars
<1>5. DOMAIN cache' = Positions
  BY DEF Filter
<1> DEFINE b == Base(ctx.id)
           y == ctx.mb_y * Block
<1>6. /\ b' = b /\ y' = y /\ b \in Nat /\ y \in Nat /\ WantedFrom \in Nat
      /\ \A k \in Int : -Delay <= k /\ k < Block => b + k \in Positions
  BY <1>1, <1>2, SameFrame DEF Base, Place
<1>7. CASE Reads = 0
  <2>1. DOMAIN cache = Positions
    BY DEF CInv, Cached
  <2>2. \A p \in Positions : cache'[p] = cache[p]
    BY <1>7 DEF Filter
  <2>3. /\ \A i \in 0 .. Block - 1 : cache'[b + i] = cache[b + i]
        /\ \A i \in 0 .. Delay - 1 : cache'[b - Delay + i] = cache[b - Delay + i]
    <3>1. \A i \in 0 .. Delay - 1 : b - Delay + i = b + (i - Delay) /\ i - Delay \in Int
                                    /\ i - Delay < Block /\ -Delay <= i - Delay
      BY <1>2, <1>6
    <3> QED
      BY <1>2, <1>6, <2>2, <3>1
  <2>4. Held(cache', b, y, Block, OwnPass, WantedFrom)
    BY <1>2, <1>3, <1>6, <1>7, <2>3 DEF Held, OwnPass, InSlot
  <2>5. Changes = 0 /\ Delay - Changes = Delay
    BY <1>2, <1>7
  <2>6. ctx.mb_y > 0 => Held(cache', b - Delay, y - Delay, Delay, OwnPass, WantedFrom)
    BY <1>3, <2>3 DEF AboveSlot, Held
  <2>7. Held(cache', b - Changes, y - Changes, Changes, 2, WantedFrom)
    BY <2>5 DEF Held
  <2>8. InSlotDone'
    BY <1>1, <1>6, <2>4, SameFrame DEF InSlotDone
  <2>9. AboveSlotDone'
    BY <1>1, <1>6, <2>5, <2>6, <2>7, SameFrame DEF AboveSlotDone
  <2> QED
    BY <1>1, <1>4, <1>5, <2>8, <2>9, SameFrame DEF CInv, Cached
<1>8. CASE Reads # 0
  <2>1. fInfo[ctx.f] = ctx.mb_y /\ ctx.mb_y >= tl_mb_y
    BY <1>1 DEF CInv, Parsed
  <2>2. OwnPass = 1
    BY <1>8 DEF OwnPass
  <2>3. AboveReady \/ (ctx.mb_y = tl_mb_y /\ tl_mb_y > 0 /\ cfg.filter # 2)
    <3>1. CASE ctx.mb_y = 0
      BY <3>1 DEF AboveReady, is_first_row
    <3>2. CASE ctx.mb_y > tl_mb_y
      <4>1. WantedFrom <= y - Block + 1 /\ ctx.mb_y > 0
        BY <1>2, <3>2 DEF Place
      <4>2. Held(cache, b - Delay, y - Delay, Delay, 1, WantedFrom)
        BY <1>3, <2>2, <4>1 DEF AboveSlot
      <4>3. \A k \in 1 .. Reads : Delay - k \in 0 .. Delay - 1
              /\ y - Delay + (Delay - k) = y - k /\ b - Delay + (Delay - k) = b - k
              /\ y - k >= WantedFrom
        BY <1>2, <1>6, <4>1
      <4>4. \A k \in 1 .. Reads : cache[b - k] = <<y - k, 1>>
        BY <4>2, <4>3 DEF Held
      <4> QED
        BY <4>4 DEF AboveReady
    <3>3. CASE ctx.mb_y = tl_mb_y /\ tl_mb_y > 0
      BY <1>2, <3>3
    <3> QED
      BY <1>2, <2>1, <3>1, <3>2, <3>3 DEF Place
  <2>4. ~ AboveReady => WantedFrom = y + 1
    BY <1>2, <1>8, <2>3 DEF Place
  <2> DEFINE Spoilt(k) == ~ AboveReady /\ (k < Changes \/ cfg.filter = 2)
  <2>5. \A k \in Int : -Delay <= k /\ k < Block =>
          cache'[b + k] =
            IF k \notin -Changes .. Block - 1 \/ (k < 0 /\ is_first_row) THEN cache[b + k]
            ELSE IF Spoilt(k) THEN Junk
            ELSE <<cache[b + k][1], cache[b + k][2] + 1>>
    <3> SUFFICES ASSUME NEW k \in Int, -Delay <= k /\ k < Block
                 PROVE  cache'[b + k] =
                   IF k \notin -Changes .. Block - 1 \/ (k < 0 /\ is_first_row)
                     THEN cache[b + k]
                   ELSE IF Spoilt(k) THEN Junk
                   ELSE <<cache[b + k][1], cache[b + k][2] + 1>>
      OBVIOUS
    <3>1. b + k \in Positions /\ (b + k) - b = k
      BY <1>6
    <3>2. cache'[b + k] =
            LET q == (b + k) - b IN
            IF Reads = 0 \/ q \notin -Changes .. Block - 1 \/ (q < 0 /\ is_first_row)
              THEN cache[b + k]
            ELSE IF \/ fInfo[ctx.f] # ctx.mb_y
                    \/ ~ AboveReady /\ (q < Changes \/ cfg.filter = 2)
              THEN Junk
            ELSE <<cache[b + k][1], cache[b + k][2] + 1>>
      BY <3>1 DEF Filter
    <3> QED
      BY <1>8, <2>1, <3>1, <3>2
  <2>6. \A i \in 0 .. Block - 1 : cache[b + i] = <<y + i, 0>>
    BY <1>2, <1>3, <1>6 DEF InSlot, Held
  <2>7. ASSUME NEW i \in 0 .. Block - 1, y + i >= WantedFrom
        PROVE  cache'[b + i] = <<y + i, 1>>
    <3>1. ~ Spoilt(i)
      <4>1. ~ AboveReady => i >= Changes /\ cfg.filter # 2
        BY <1>2, <1>6, <1>8, <2>3, <2>4, <2>7
      <4> QED
        BY <1>2, <4>1
    <3>2. i \in Int /\ -Delay <= i /\ i < Block /\ i \in -Changes .. Block - 1 /\ ~ (i < 0)
      BY <1>2
    <3>3. cache'[b + i] = <<cache[b + i][1], cache[b + i][2] + 1>>
      <4> HIDE DEF Spoilt
      <4> QED
        BY <2>5, <3>1, <3>2
    <3> QED
      BY <2>6, <3>3
  <2>8. InSlotDone'
    <3>1. Held(cache', b, y, Block, OwnPass, WantedFrom)
      BY <2>2, <2>7 DEF Held
    <3> QED
      BY <1>1, <1>6, <3>1, SameFrame DEF InSlotDone
  <2>9. ASSUME ctx.mb_y > 0
        PROVE  /\ Held(cache', b - Delay, y - Delay, Delay - Changes, OwnPass, WantedFrom)
               /\ Held(cache', b - Changes, y - Changes, Changes, 2, WantedFrom)
    <3>1. Held(cache, b - Delay, y - Delay, Delay, 1, WantedFrom)
      BY <1>3, <2>2, <2>9 DEF AboveSlot
    <3>2. \A k \in Int : -Delay <= k /\ k < 0 /\ y + k >= WantedFrom =>
            cache[b + k] = <<y + k, 1>>
      <4>1. \A k \in Int : -Delay <= k /\ k < 0 =>
              /\ k + Delay \in 0 .. Delay - 1
              /\ b - Delay + (k + Delay) = b + k /\ y - Delay + (k + Delay) = y + k
        BY <1>2, <1>6
      <4> QED
        BY <3>1, <4>1 DEF Held
    <3>3. ASSUME NEW k \in Int, -Delay <= k, k < 0, y + k >= WantedFrom
          PROVE  cache'[b + k] = <<y + k, IF k >= -Changes THEN 2 ELSE 1>>
      <4>1. AboveReady
        BY <1>6, <2>4, <3>3
      <4>2. ~ Spoilt(k) /\ ~ is_first_row
        BY <2>9, <4>1 DEF is_first_row
      <4>3. cache[b + k] = <<y + k, 1>>
        BY <3>2, <3>3
      <4>4. k < Block /\ (k \in -Changes .. Block - 1 <=> k >= -Changes)
        BY <1>2, <3>3
      <4>5. cache'[b + k] = IF k >= -Changes THEN <<cache[b + k][1], cache[b + k][2] + 1>>
                            ELSE cache[b + k]
        <5> HIDE DEF Spoilt
        <5> QED
          BY <2>5, <3>3, <4>2, <4>4
      <4> QED
        BY <4>3, <4>5
    <3>4. ASSUME NEW i \in 0 .. Delay - Changes - 1, y - Delay + i >= WantedFrom
          PROVE  cache'[b - Delay + i] = <<y - Delay + i, 1>>
      <4>1. /\ i - Delay \in Int /\ -Delay <= i - Delay /\ i - Delay < 0
            /\ ~ (i - Delay >= -Changes)
            /\ b - Delay + i = b + (i - Delay) /\ y - Delay + i = y + (i - Delay)
        BY <1>2, <1>6
      <4> QED
        BY <3>3, <3>4, <4>1
    <3>5. ASSUME NEW i \in 0 .. Changes - 1, y - Changes + i >= WantedFrom
          PROVE  cache'[b - Changes + i] = <<y - Changes + i, 2>>
      <4>1. /\ i - Changes \in Int /\ -Delay <= i - Changes /\ i - Changes < 0
            /\ i - Changes >= -Changes
            /\ b - Changes + i = b + (i - Changes) /\ y - Changes + i = y + (i - Changes)
        BY <1>2, <1>6
      <4> QED
        BY <3>3, <3>5, <4>1
    <3> QED
      BY <2>2, <3>4, <3>5 DEF Held
  <2>10. AboveSlotDone'
    BY <1>1, <1>6, <2>9, SameFrame DEF AboveSlotDone
  <2> QED
    BY <1>1, <1>4, <1>5, <2>8, <2>10, SameFrame DEF CInv, Cached
<1> QED
  BY <1>7, <1>8

\* The steps of the job that leave the cache alone.
LEMMA NextCInvSame ==
  CInv /\ BInv' /\ (Emit \/ AlphaFails \/ JobStoresError \/ Put) => CInv'
<1> SUFFICES ASSUME CInv, BInv', Emit \/ AlphaFails \/ JobStoresError \/ Put PROVE CInv'
  OBVIOUS
<1>1. /\ UNCHANGED <<cfg, ctx, mainVars, worker, cache>>
      /\ \/ job = "emit" /\ job' \in {"put", "rotate"}
         \/ job = "put" /\ job' = "rotate"
         \/ job \in {"emit", "set_error"} /\ job' \in {"set_error", "end"} /\ ~ jobOk'
  BY DEF Emit, AlphaFails, JobStoresError, Put, JobUnchanged, CInv, BInv
<1>2. Slots' /\ Parsed'
  BY <1>1, SameFrame DEF CInv, Slots, Parsed, LastSlot, mainVars
<1>3. InSlotDone' = InSlotDone
  BY <1>1, SameFrame DEF InSlotDone, Base
<1>4. Cached'
  BY <1>1, <1>3, SameFrame DEF CInv, Cached
<1> QED
  BY <1>2, <1>4 DEF CInv

\* The rows the next job needs are above its slot: in the slot before it, or copied
\* there when the slots start over.
LEMMA NextRotate == CInv /\ BInv' /\ Rotate => CInv'
<1> SUFFICES ASSUME CInv, BInv', Rotate PROVE CInv'
  OBVIOUS
<1>1. /\ UNCHANGED <<cfg, ctx, mainVars, worker>> /\ job = "rotate" /\ job' = "end"
  BY DEF Rotate, JobUnchanged
<1>2. Place /\ Block \in {8, 16} /\ Delay \in 0 .. 8 /\ InSlotDone /\ num_caches \in 1 .. 3
  BY <1>1, JobPlaced, Geometry DEF Place, CInv, Cached
<1>3. Slots' /\ Parsed'
  BY <1>1, SameFrame DEF CInv, Slots, Parsed, LastSlot, mainVars
<1>4. DOMAIN cache' = Positions
  BY DEF Rotate, CInv, Cached
<1> DEFINE b == Base(ctx.id)
           y == ctx.mb_y * Block
<1>5. /\ b' = b /\ y' = y /\ b \in Nat /\ y \in Nat /\ RowAfter = y + Block
      /\ LastSlot' = LastSlot
  BY <1>1, <1>2, SameFrame, Products DEF Base, Place, LastSlot, RowAfter
<1>6. ASSUME ~ is_last_row
      PROVE  \A i \in 0 .. Delay - 1 :
               cache'[BaseAfter - Delay + i] = cache[b + (Block - Delay + i)]
  <2>1. CASE LastSlot
    <3>1. cache' = [p \in Positions |-> IF p < 0 THEN cache[b + Block + p] ELSE cache[p]]
      BY <1>6, <2>1 DEF Rotate
    <3>2. \A i \in 0 .. Delay - 1 : /\ i - Delay \in Positions /\ i - Delay < 0
                                    /\ 0 - Delay + i = i - Delay
                                    /\ b + Block + (i - Delay) = b + (Block - Delay + i)
      BY <1>2, <1>5, Products DEF Positions
    <3>3. \A i \in 0 .. Delay - 1 : cache'[i - Delay] = cache[b + Block + (i - Delay)]
      <4> HIDE DEF b
      <4> QED
        BY <3>1, <3>2
    <3> QED
      BY <2>1, <3>2, <3>3 DEF BaseAfter
  <2>2. CASE ~ LastSlot
    <3>1. \A i \in 0 .. Delay - 1 : BaseAfter - Delay + i = b + (Block - Delay + i)
      BY <1>2, <1>5, <2>2 DEF BaseAfter
    <3>2. cache' = cache
      BY <2>2 DEF Rotate
    <3> QED
      BY <3>1, <3>2
  <2> QED
    BY <2>1, <2>2
<1>7. ASSUME ~ is_last_row
      PROVE  AboveSlotAfter'
  <2>1. Held(cache', BaseAfter - Delay, RowAfter - Delay, Delay, OwnPass, WantedFrom)
    <3> SUFFICES ASSUME NEW i \in 0 .. Delay - 1, RowAfter - Delay + i >= WantedFrom
                 PROVE  cache'[BaseAfter - Delay + i] = <<RowAfter - Delay + i, OwnPass>>
      BY DEF Held
    <3>1. /\ Block - Delay + i \in 0 .. Block - 1
          /\ y + (Block - Delay + i) = RowAfter - Delay + i
      BY <1>2, <1>5
    <3>2. cache[b + (Block - Delay + i)] = <<y + (Block - Delay + i), OwnPass>>
      BY <1>2, <3>1 DEF InSlotDone, Held
    <3> QED
      BY <1>6, <1>7, <3>1, <3>2
  <2> QED
    <3>1. BaseAfter' = BaseAfter /\ RowAfter' = RowAfter
      BY <1>1, <1>5, SameFrame DEF BaseAfter, RowAfter
    <3>2. Delay' = Delay /\ OwnPass' = OwnPass /\ WantedFrom' = WantedFrom
      BY <1>1, <1>5, SameFrame
    <3> QED
      BY <2>1, <3>1, <3>2 DEF AboveSlotAfter
<1>8. Cached'
  <2>1. is_last_row' = is_last_row
    BY <1>1, SameFrame DEF is_last_row
  <2> QED
    BY <1>1, <1>4, <1>7, <2>1, SameFrame DEF Cached
<1> QED
  BY <1>3, <1>8 DEF CInv

LEMMA NextCInv == CInv /\ [Next]_vars => CInv'
<1> SUFFICES ASSUME CInv, [Next]_vars PROVE CInv'
  OBVIOUS
<1>1. BInv'
  BY NextBInv DEF CInv
<1>2. CASE MainSteps
  BY <1>1, <1>2, NextMainCInvElse, NextMainCInvParse, NextMainCInvStart, NextCInvEnd
  DEF MainSteps
<1>3. CASE JobSteps
  BY <1>1, <1>3, NextReconstruct, NextFilter, NextCInvSame, NextRotate, NextCInvEnd
  DEF JobSteps
<1>4. CASE UNCHANGED vars
  <2>1. UNCHANGED <<cfg, ctx, mainVars, jobVars, worker>>
    BY <1>4 DEF vars
  <2>2. Slots' /\ Parsed'
    BY <2>1, SameFrame DEF CInv, Slots, Parsed, LastSlot, mainVars, jobVars
  <2>3. Cached'
    BY <2>1, SameFrame
    DEF CInv, Cached, AboveNext, AboveSlot, AboveSlotDone, InSlot, InSlotDone,
        AboveSlotAfter, BaseAfter, RowAfter, LastSlot, is_last_row, Base, mainVars,
        jobVars, worker
  <2> QED
    BY <1>1, <2>2, <2>3 DEF CInv
<1> QED
  BY <1>2, <1>3, <1>4 DEF Next, Terminated

-----------------------------------------------------------------------------
(* The rows given to put().                                                 *)

\* A band of FinishRow, counted from the first row of its macroblock row in the plane:
\* where it starts and ends, and that it stops before the rows the next macroblock row
\* will change.
LEMMA BandInCache ==
  ASSUME CInv, job = "emit", put_start < y_end
  PROVE  LET start == PlaneRow(put_start) - ctx.mb_y * Block
             n     == PlaneRows(y_end - put_start)
         IN  /\ start \in Int /\ n \in Nat
             /\ (IF is_first_row THEN 0 ELSE Delay) = PlaneRow(put_start - y_start) - start
             /\ start >= (IF is_first_row THEN 0 ELSE - Delay)
             /\ start + n <= Block
             /\ ctx.mb_y + 1 < mb_h => start + n <= Block - Delay
             /\ PlaneRow(put_start) >= WantedFrom
<1>1. IsConfig(cfg) /\ cfg \in Configs /\ ctx.mb_y \in Nat /\ ctx.mb_y < br_mb_y
      /\ br_mb_y \in Int
  BY ConfigsAssumption, RowsAreNumbers DEF CInv, BInv, IInv, Types, Parsed
<1>2. /\ cfg.filter \in {0, 1, 2} /\ cfg.top \in Nat /\ cfg.top % 2 = 0
      /\ cfg.bottom \in Nat /\ cfg.height \in Nat /\ cfg.plane \in {"Y", "UV"}
  BY <1>1 DEF IsConfig
<1>3. /\ ExtraRows \in {0, 2, 8}
      /\ cfg.filter = 0 => ExtraRows = 0
      /\ cfg.filter = 1 => ExtraRows = 2
      /\ cfg.filter = 2 => ExtraRows = 8
  <2>1. cfg.filter = 0 => ExtraRows = 0
    BY DEF ExtraRows
  <2>2. cfg.filter = 1 => ExtraRows = 2
    BY DEF ExtraRows
  <2>3. cfg.filter = 2 => ExtraRows = 8
    BY DEF ExtraRows
  <2> QED
    BY <1>2, <2>1, <2>2, <2>3
<1>4. /\ y_start = ctx.mb_y * 16 - (IF is_first_row THEN 0 ELSE ExtraRows)
      /\ y_start \in Nat /\ y_end \in Int /\ y_end <= ctx.mb_y * 16 + 16
  BY <1>1, <1>2, <1>3 DEF y_start, y_end, MinOf, is_first_row
<1>5. put_start \in Nat /\ put_start >= y_start /\ put_start >= cfg.top
      /\ put_start \in {y_start, cfg.top}
  BY <1>2, <1>4 DEF put_start, MaxOf
<1>6. ASSUME ctx.mb_y + 1 < mb_h
      PROVE  y_end <= ctx.mb_y * 16 + 16 - ExtraRows
  <2>1. CASE ~ is_last_row
    BY <1>1, <1>2, <1>3, <2>1 DEF y_end, MinOf
  <2>2. CASE is_last_row
    <3>1. br_mb_y = ctx.mb_y + 1
      BY <1>1, <2>2 DEF is_last_row
    <3>2. mb_h \in Int /\ (cfg.bottom + 15 + ExtraRows) \div 16 \in Int
      BY <1>2, <1>3 DEF mb_h
    <3>3. br_mb_y = (cfg.bottom + 15 + ExtraRows) \div 16
      BY <1>6, <3>1, <3>2 DEF br_mb_y, MinOf
    <3>4. \A m \in Nat : 16 * (m \div 16) >= m - 15
      OBVIOUS
    <3>5. 16 * br_mb_y >= cfg.bottom + 15 + ExtraRows - 15
      BY <1>2, <1>3, <3>3, <3>4
    <3>6. y_end <= cfg.bottom
      BY <1>1, <1>2, <1>3 DEF y_end, MinOf
    <3> QED
      BY <1>1, <1>2, <1>3, <1>4, <3>1, <3>5, <3>6
  <2> QED
    BY <2>1, <2>2
<1>7. PlaneRow(put_start) >= WantedFrom
  <2>1. CASE Reads = 0 \/ tl_mb_y = 0
    <3>1. PlaneRow(put_start) \in Nat
      BY <1>5 DEF PlaneRow
    <3> QED
      BY <2>1, <3>1 DEF WantedFrom
  <2>2. CASE ~ (Reads = 0 \/ tl_mb_y = 0)
    <3>1. cfg.filter = 1 /\ Luma
      BY <1>2, <2>2 DEF Reads, tl_mb_y
    <3>2. \A m \in Int : 16 * (m \div 16) <= m
      OBVIOUS
    <3>3. tl_mb_y = MaxOf(0, (cfg.top - 2) \div 16)
      BY <1>3, <3>1 DEF tl_mb_y
    <3>4. cfg.top - 2 \in Int /\ (cfg.top - 2) \div 16 \in Int
      BY <1>2
    <3>5. tl_mb_y = (cfg.top - 2) \div 16
      BY <2>2, <3>3, <3>4 DEF MaxOf
    <3>6. tl_mb_y * 16 <= cfg.top - 2
      BY <3>2, <3>4, <3>5
    <3>7. WantedFrom = tl_mb_y * 16 + 1
      BY <2>2, <3>1 DEF WantedFrom, Block
    <3>8. PlaneRow(put_start) = put_start
      BY <3>1 DEF PlaneRow
    <3> QED
      BY <1>2, <1>5, <3>4, <3>5, <3>6, <3>7, <3>8
  <2> QED
    BY <2>1, <2>2
<1>8. CASE Luma
  <2>1. /\ Block = 16 /\ Delay = ExtraRows /\ PlaneRow(put_start) = put_start
        /\ PlaneRow(put_start - y_start) = put_start - y_start
        /\ PlaneRows(y_end - put_start) = y_end - put_start
    BY <1>8 DEF Block, Delay, PlaneRow, PlaneRows
  <2>2. ctx.mb_y * 16 \in Nat /\ Delay \in Nat /\ y_end - put_start \in Nat
        /\ (is_first_row => ctx.mb_y * 16 = 0)
    BY <1>1, <1>3, <1>4, <1>5, <2>1 DEF is_first_row
  <2>3. /\ put_start - ctx.mb_y * 16 \in Int
        /\ (IF is_first_row THEN 0 ELSE Delay)
             = put_start - y_start - (put_start - ctx.mb_y * 16)
        /\ put_start - ctx.mb_y * 16 >= (IF is_first_row THEN 0 ELSE - Delay)
        /\ (put_start - ctx.mb_y * 16) + (y_end - put_start) <= 16
    BY <1>4, <1>5, <2>1, <2>2
  <2>4. ctx.mb_y + 1 < mb_h =>
          (put_start - ctx.mb_y * 16) + (y_end - put_start) <= 16 - Delay
    BY <1>4, <1>5, <1>6, <2>1, <2>2
  <2> QED
    BY <1>7, <2>1, <2>2, <2>3, <2>4
<1>9. CASE ~ Luma
  <2>1. /\ Block = 8 /\ Delay = ExtraRows \div 2 /\ PlaneRow(put_start) = put_start \div 2
        /\ PlaneRow(put_start - y_start) = (put_start - y_start) \div 2
        /\ PlaneRows(y_end - put_start) = (y_end - put_start + 1) \div 2
    BY <1>9 DEF Block, Delay, PlaneRow, PlaneRows
  <2>2. PICK e \in 0 .. 4 : ExtraRows = 2 * e
    BY <1>3
  <2>3. Delay = e
    BY <2>1, <2>2
  <2> DEFINE t == 8 * ctx.mb_y - (IF is_first_row THEN 0 ELSE e)
  <2>4. t \in Nat /\ y_start = 2 * t
    <3>1. ~ is_first_row => ctx.mb_y >= 1
      BY <1>1 DEF is_first_row
    <3>2. CASE is_first_row
      BY <1>1, <1>4, <3>2 DEF is_first_row
    <3>3. CASE ~ is_first_row
      BY <1>1, <1>4, <2>2, <3>1, <3>3
    <3> QED
      BY <3>2, <3>3
  <2> HIDE DEF t
  <2>5. PICK s \in Nat : put_start = 2 * s
    <3>1. \A m \in Nat : m % 2 = 0 => m = 2 * (m \div 2) /\ m \div 2 \in Nat
      OBVIOUS
    <3>2. cfg.top = 2 * (cfg.top \div 2) /\ cfg.top \div 2 \in Nat
      BY <1>2, <3>1
    <3> QED
      BY <1>5, <2>4, <3>2
  <2>6. put_start \div 2 = s /\ (put_start - y_start) \div 2 = s - t
    BY <2>4, <2>5
  <2>7. (y_end - put_start + 1) \div 2 = (y_end + 1) \div 2 - s
        /\ (y_end - put_start + 1) \div 2 \in Nat
    BY <1>4, <2>5
  <2>8. (y_end + 1) \div 2 <= 8 * ctx.mb_y + 8
    BY <1>1, <1>4
  <2>9. ctx.mb_y + 1 < mb_h => (y_end + 1) \div 2 <= 8 * ctx.mb_y + 8 - e
    BY <1>1, <1>4, <1>6, <2>2
  <2>10. s >= t
    BY <1>5, <2>4, <2>5
  <2>11. (IF is_first_row THEN 0 ELSE Delay) = 8 * ctx.mb_y - t /\ Delay \in Nat
    BY <1>1, <2>3 DEF t
  <2>12. (y_end + 1) \div 2 \in Int
    BY <1>4
  <2> QED
    BY <1>1, <1>7, <2>1, <2>3, <2>4, <2>6, <2>7, <2>8, <2>9, <2>10, <2>11, <2>12
<1> QED
  BY <1>8, <1>9

\* The place of a row in its macroblock row.
LEMMA RowInBlock ==
  ASSUME NEW b \in {8, 16}, NEW y \in Nat, NEW k \in Int, -b <= k, k < b, k >= 0 \/ y > 0
  PROVE  /\ (y * b + k) % b = IF k >= 0 THEN k ELSE b + k
         /\ (y * b + k) \div b = IF k >= 0 THEN y ELSE y - 1
<1>1. CASE b = 8
  BY <1>1
<1>2. CASE b = 16
  BY <1>2
<1> QED
  BY <1>1, <1>2

\* PrepareBand gives put() rows that are right, and finished.
LEMMA NextPutRows == CInv /\ PutRowsAreFinal /\ [Next]_vars => PutRowsAreFinal'
<1> SUFFICES ASSUME CInv, PutRowsAreFinal, [Next]_vars PROVE PutRowsAreFinal'
  OBVIOUS
<1>1. CASE Emit /\ put_start < y_end
  <2>1. job = "emit" /\ UNCHANGED <<cfg, ctx>> /\ PrepareBand
    BY <1>1 DEF Emit, JobUnchanged
  <2> DEFINE b == Base(ctx.id)
             y == ctx.mb_y * Block
             start == PlaneRow(put_start) - y
             n == PlaneRows(y_end - put_start)
             back == IF is_first_row THEN 0 ELSE Delay
  <2>2. /\ Place /\ Block \in {8, 16} /\ Delay \in 0 .. 8 /\ Changes \in 0 .. 3
        /\ Changes <= Delay /\ (Reads = 0 => Changes = 0) /\ Reads \in 0 .. 4
    BY <2>1, JobPlaced, Geometry DEF Place
  <2>3. /\ b \in Nat /\ y \in Nat /\ WantedFrom \in Nat /\ ctx.mb_y \in Nat
        /\ ctx.mb_y < mb_h
    <3>1. ctx.mb_y < br_mb_y /\ br_mb_y \in Int /\ IsConfig(cfg)
      BY <2>1, RowsAreNumbers, ConfigsAssumption DEF CInv, BInv, IInv, Types, Parsed
    <3>2. cfg.height \in Nat /\ cfg.bottom \in Nat /\ mb_h \in Int
      BY <3>1 DEF IsConfig, mb_h
    <3>3. ExtraRows \in Nat
      BY <2>2, Geometry DEF Place
    <3>4. (cfg.bottom + 15 + ExtraRows) \div 16 \in Int
      BY <3>2, <3>3
    <3> QED
      BY <2>2, <3>1, <3>2, <3>4 DEF Place, br_mb_y, MinOf
  <2>4. /\ start \in Int /\ n \in Nat
        /\ back = PlaneRow(put_start - y_start) - start
        /\ start >= (IF is_first_row THEN 0 ELSE - Delay)
        /\ start + n <= Block
        /\ ctx.mb_y + 1 < mb_h => start + n <= Block - Delay
        /\ PlaneRow(put_start) >= WantedFrom
    BY <1>1, <2>1, BandInCache
  <2>5. y + start = PlaneRow(put_start) /\ b - back + PlaneRow(put_start - y_start) = b + start
    <3>1. PlaneRow(put_start) \in Int /\ PlaneRow(put_start - y_start) \in Int /\ back \in Int
      <4>1. put_start \in Int /\ y_start \in Int
        BY <2>1, RowsAreNumbers, Bands DEF put_start, MaxOf, CInv, BInv, IInv, Types
      <4> QED
        BY <2>2, <4>1 DEF PlaneRow
    <3> QED
      BY <2>3, <2>4, <3>1
  <2>6. /\ io'.mb_y = put_start - cfg.top
        /\ io'.cells = [i \in 1 .. n |-> cache[b + start + i - 1]]
    BY <2>1, <2>5 DEF PrepareBand
  <2>7. AboveSlotDone /\ InSlotDone
    BY <2>1 DEF CInv, Cached
  <2>8. ASSUME NEW k \in Int, start <= k, k < start + n
        PROVE  cache[b + k] = Final(y + k)
    <3>1. y + k >= WantedFrom /\ k < Block /\ -Block <= k /\ -Delay <= k
          /\ (ctx.mb_y + 1 < mb_h => k < Block - Delay)
      <4>1. y + k >= y + start
        BY <2>3, <2>4, <2>8
      <4> QED
        BY <2>2, <2>3, <2>4, <2>5, <2>8, <4>1
    <3>2. k >= 0 \/ ctx.mb_y > 0
      BY <2>3, <2>4, <2>8 DEF is_first_row
    <3>3. /\ (y + k) % Block = IF k >= 0 THEN k ELSE Block + k
          /\ (y + k) \div Block = IF k >= 0 THEN ctx.mb_y ELSE ctx.mb_y - 1
      <4>1. /\ Block \in {8, 16} /\ ctx.mb_y \in Nat /\ -Block <= k /\ k < Block
            /\ y = ctx.mb_y * Block
        BY <2>2, <2>3, <3>1
      <4>2. /\ (ctx.mb_y * Block + k) % Block = IF k >= 0 THEN k ELSE Block + k
            /\ (ctx.mb_y * Block + k) \div Block
                 = IF k >= 0 THEN ctx.mb_y ELSE ctx.mb_y - 1
        BY <2>8, <3>2, <4>1, RowInBlock
      <4> QED
        BY <4>1, <4>2
    <3>4. CASE k >= 0
      <4>1. cache[b + k] = <<y + k, OwnPass>>
        BY <2>2, <2>7, <3>1, <3>4 DEF InSlotDone, Held
      <4>2. Final(y + k) = <<y + k, OwnPass>>
        <5>1. Reads # 0 => ~ (k >= Block - Changes /\ ctx.mb_y + 1 < mb_h)
          BY <2>2, <3>1
        <5> QED
          BY <3>3, <3>4, <5>1 DEF Final, OwnPass
      <4> QED
        BY <4>1, <4>2
    <3>5. CASE k < 0 /\ k >= - Changes
      <4>1. cache[b + k] = <<y + k, 2>>
        <5>1. Held(cache, b - Changes, y - Changes, Changes, 2, WantedFrom)
          BY <2>7, <3>2, <3>5 DEF AboveSlotDone
        <5>2. /\ k + Changes \in 0 .. Changes - 1 /\ b - Changes + (k + Changes) = b + k
              /\ y - Changes + (k + Changes) = y + k
          BY <2>2, <2>3, <3>5
        <5> QED
          BY <3>1, <5>1, <5>2 DEF Held
      <4>2. Reads # 0 /\ Block + k >= Block - Changes /\ (ctx.mb_y - 1) + 1 < mb_h
        BY <2>2, <2>3, <3>5
      <4>3. Final(y + k) = <<y + k, 2>>
        BY <3>3, <3>5, <4>2 DEF Final
      <4> QED
        BY <4>1, <4>3
    <3>6. CASE k < - Changes
      <4>1. cache[b + k] = <<y + k, OwnPass>>
        <5>1. Held(cache, b - Delay, y - Delay, Delay - Changes, OwnPass, WantedFrom)
          BY <2>2, <2>7, <3>2, <3>6 DEF AboveSlotDone
        <5>2. /\ k + Delay \in 0 .. (Delay - Changes) - 1 /\ b - Delay + (k + Delay) = b + k
              /\ y - Delay + (k + Delay) = y + k
          BY <2>2, <2>3, <3>1, <3>6
        <5> QED
          BY <3>1, <5>1, <5>2 DEF Held
      <4>2. ~ (k >= 0) /\ ~ (Block + k >= Block - Changes)
        BY <2>2, <3>6
      <4>3. Final(y + k) = <<y + k, OwnPass>>
        BY <3>3, <4>2 DEF Final, OwnPass
      <4> QED
        BY <4>1, <4>3
    <3> QED
      BY <2>2, <3>4, <3>5, <3>6
  <2>9. /\ PlaneRow(cfg.top + io.mb_y)' = PlaneRow(put_start)
        /\ \A r : Final(r)' = Final(r)
    <3>1. cfg.top + (put_start - cfg.top) = put_start
      <4>1. put_start \in Int /\ cfg.top \in Int
        BY <2>1, RowsAreNumbers, Bands DEF put_start, MaxOf, CInv, BInv, IInv, Types
      <4> QED
        BY <4>1
    <3>2. mb_h' = mb_h /\ Luma' = Luma
      BY <2>1 DEF mb_h, Luma
    <3> QED
      BY <2>1, <2>6, <3>1, <3>2, SameFrame DEF Final, PlaneRow
  <2>10. ASSUME NEW i \in 1 .. n
         PROVE  io'.cells[i] = Final(PlaneRow(put_start) + i - 1)
    <3>1. /\ start + i - 1 \in Int /\ start <= start + i - 1 /\ start + i - 1 < start + n
          /\ b + (start + i - 1) = b + start + i - 1
          /\ y + (start + i - 1) = PlaneRow(put_start) + i - 1
      BY <2>3, <2>4, <2>5
    <3> HIDE DEF b, y, start, n
    <3> QED
      BY <2>6, <2>8, <3>1
  <2>11. DOMAIN io'.cells = 1 .. n
    BY <2>6
  <2> HIDE DEF n
  <2> QED
    BY <2>9, <2>10, <2>11 DEF PutRowsAreFinal
<1>2. CASE job' # "put"
  BY <1>2 DEF PutRowsAreFinal
<1>3. CASE ~ (Emit /\ put_start < y_end) /\ job' = "put"
  <2>1. UNCHANGED <<cfg, job, io>>
    BY <1>3
    DEF Next, MainSteps, JobSteps, Terminated, vars, jobVars, SetupFails, Setup,
        InitFails, InitFrame, ParseBegin, ParseEnd, ParseFails, StoreError,
        ProcessRowInline, InlineReturns, ProcessRowLaunch, ProcessRowAborts,
        ParseFrameEnds, ExitCritical, Return, Reconstruct, Filter, Emit, AlphaFails,
        JobStoresError, Put, Rotate, JobDone
  <2>2. PlaneRow(cfg.top + io.mb_y)' = PlaneRow(cfg.top + io.mb_y)
        /\ \A r : Final(r)' = Final(r)
    <3>1. mb_h' = mb_h /\ Luma' = Luma
      BY <2>1 DEF mb_h, Luma
    <3> QED
      BY <2>1, <3>1, SameFrame DEF Final, PlaneRow
  <2> QED
    BY <2>1, <2>2 DEF PutRowsAreFinal
<1> QED
  BY <1>1, <1>2, <1>3

\* For frames, crop windows and filters of every kind, with or without threads: every
\* pixel row put() gets is the row of the picture it stands for, with all the passes
\* of the loop filter done (the delay of FinishRow, the rotation of the cache between
\* its slots, tl_mb_y_ and br_mb_y_).
THEOREM RowsGivenAreFinal == SafeSpec => []PutRowsAreFinal
<1>1. Init => CInv /\ PutRowsAreFinal
  BY InitCInv DEF Init, PutRowsAreFinal
<1>2. CInv /\ PutRowsAreFinal /\ [Next]_vars => CInv' /\ PutRowsAreFinal'
  BY NextCInv, NextPutRows
<1> QED
  BY <1>1, <1>2, PTL DEF SafeSpec

=============================================================================
