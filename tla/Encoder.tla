------------------------------- MODULE Encoder -------------------------------
(***************************************************************************)
(* WebPEncode (src/enc/webp_enc.c): the picture is converted if need be,    *)
(* then the lossy or the lossless encoder runs.  Both report through        *)
(* pic->error_code and the returned value.                                  *)
(***************************************************************************)
EXTENDS Naturals

CONSTANTS MaxRows, MaxPass, MaxHeaderBits, MaxSize

ASSUME BoundsAssumption ==
  /\ MaxRows \in Nat \ {0} /\ MaxPass \in Nat \ {0}
  /\ MaxHeaderBits \in Nat /\ MaxSize \in Nat \ {0}

VARIABLES
  branch,              \* "none", "lossy", "lossless"
  error, result,       \* pic->error_code, what WebPEncode returned
  cfg, pc, refused, analysis, alpha, loop, allocated,            \* LossyEncoder
  config, lpc, sideError, jobs, worker, held, smallest           \* LosslessEncoder

lossyVars == <<cfg, pc, refused, analysis, alpha, loop, allocated>>
losslessVars == <<config, lpc, sideError, jobs, worker, held, smallest>>
vars == <<branch, error, result, lossyVars, losslessVars>>

Lossy == INSTANCE LossyEncoder
Lossless == INSTANCE LosslessEncoder

Init == branch = "none" /\ Lossy!Init /\ Lossless!Init

\* Parameters are valid and the samples there, or could be converted.
WebPEncode ==
  /\ branch = "none" /\ result = "none"
  /\ branch' \in {"lossy", "lossless"}
  /\ UNCHANGED <<error, result, lossyVars, losslessVars>>

WebPEncodeFails ==
  /\ branch = "none" /\ result = "none"
  /\ error' \in {"INVALID_CONFIGURATION", "BAD_DIMENSION", "OUT_OF_MEMORY"}
  /\ result' = "failed"
  /\ UNCHANGED <<branch, lossyVars, losslessVars>>

LossyStep(step) == branch = "lossy" /\ step /\ UNCHANGED <<branch, losslessVars>>
LosslessStep(step) == branch = "lossless" /\ step /\ UNCHANGED <<branch, lossyVars>>

Returned == result # "none" /\ UNCHANGED vars

Caller ==
  \/ WebPEncode \/ WebPEncodeFails
  \/ LossyStep(Lossy!Main)
  \/ LosslessStep(Lossless!Main)

AnalysisWorker == LossyStep(Lossy!SideAnalysis)
AlphaWorker == LossyStep(Lossy!CompressAlphaJob)
StreamWorker == LosslessStep(Lossless!Hook("side"))

Next == Caller \/ AnalysisWorker \/ AlphaWorker \/ StreamWorker \/ Returned

\* The caller goes on, and so do the jobs of the workers.
Spec ==
  /\ Init /\ [][Next]_vars
  /\ WF_vars(Caller)
  /\ WF_vars(AnalysisWorker) /\ WF_vars(AlphaWorker) /\ WF_vars(StreamWorker)

-----------------------------------------------------------------------------
(* Properties *)

\* Whatever fails, in whichever thread: jobs run only while the memory they use is
\* there, nothing stays allocated (webp_enc.c: DeleteVP8Encoder "must always be
\* called, even if !ok"), and WebPEncode fails exactly if error_code says why
\* (encode.h: "In case of error, picture->error_code is updated accordingly"),
\* apart from two aborts that are ignored.
EndsCleanly ==
  /\ Lossy!JobsAreOver /\ Lossy!ReasonIsGiven
  /\ Lossless!JobsAreOver /\ Lossless!ReasonIsGiven

\* Of all configurations tried by both threads, the smallest stream is returned,
\* encoded from the pixels it should be encoded from.
StreamIsBest == Lossless!StreamIsBest

\* Every macroblock row is analysed once and coded once, in the last pass.
StreamIsOfOnePass == Lossy!StreamIsOfOnePass

\* WebPEncode returns: passes that start again come to an end, nobody waits for a
\* worker that was not launched.
EncodeReturns == <>(result # "none")
=============================================================================
