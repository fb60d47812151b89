----------------------------- MODULE LossyStream -----------------------------
(***************************************************************************)
(* From the encoder's bits and macroblocks to the decoder's: bits written   *)
(* by VP8BitWriter and read by VP8BitReader, and whole frames, coded by     *)
(* VP8EncLoop or VP8EncTokenLoop and GeneratePartition0 and parsed by       *)
(* VP8GetHeaders and ParseFrame (or the incremental decoder, which calls    *)
(* the same functions), from all of the bytes or from those that have       *)
(* arrived.  Partition 0 always has: the decoder waits for it.              *)
(*                                                                         *)
(* Which modes and levels a macroblock has is up to the encoder's search:   *)
(* here any.  A bit of a frame is read by VP8GetBit; that the other readers *)
(* agree with it is what the streams of bits show.                          *)
(***************************************************************************)
EXTENDS LossySyntax, FiniteSets

CONSTANTS
  Schedules,    \* sequences of probabilities, which both sides know
  Frames        \* a sequence of frames, see FrameAssumption

ASSUME FrameAssumption ==
  /\ \A s \in Schedules : s \in Seq(0 .. Byte - 1) /\ s # << >>
  /\ \A i \in 1 .. Len(Frames) :
       LET f == Frames[i]
       IN  /\ f.mb_w \in Nat \ {0} /\ f.mbs # << >> /\ Len(f.mbs) % f.mb_w = 0
           /\ f.num_segments \in 1 .. 4 /\ f.cut \in BOOLEAN
           /\ f.h.base_q0 = f.h.quantizer[1] /\ f.h.log2_parts \in 0 .. 3
           /\ \A j \in 1 .. Len(f.mbs) : f.mbs[j].segment < f.num_segments

VARIABLES
  pc,        \* "idle" while there is no lossy image
  frame,     \* which of Frames, 0: the stream is of bits
  probs,     \* of bits: their probabilities, one of Schedules
  message,   \* history: the bits that were written
  bw,        \* the writer of them, or of partition 0
  parts,     \* parts_: the writers of the token partitions
  enc,       \* [h, nz, left_dc, at]: the header, contexts and macroblock of the encoder
  end,       \* bytes that have arrived; for a frame, of those behind partition 0
  br,        \* the reader of the bits, or of partition 0
  dec,       \* the decoder, see VP8GetHeaders
  wrong      \* history: the reader has given something else than was written

lossyVars == <<pc, frame, probs, message, bw, parts, enc, end, br, dec, wrong>>

F == Frames[frame]

-----------------------------------------------------------------------------
(* The segments (SetLoopParams, before anything is coded).                  *)

GetProba(a, b) == IF a + b = 0 THEN 255 ELSE (255 * a + (a + b) \div 2) \div (a + b)

\* A map is written only if the probabilities say that there is something in it.
SetSegmentProbas(f) ==
  LET size(s) == Cardinality({ i \in 1 .. Len(f.mbs) : f.mbs[i].segment = s })
      probas  == << GetProba(size(0) + size(1), size(2) + size(3)),
                    GetProba(size(0), size(1)), GetProba(size(2), size(3)) >>
  IN  [use_segment |-> f.num_segments > 1, segments |-> probas,
       update_map |-> f.num_segments > 1 /\ probas # << 255, 255, 255 >>]

Empty(mb) == LastUsed(mb.dc) < 0 /\ \A i \in 1 .. 24 : LastUsed(mb.blocks[i]) < 0

\* The i-th macroblock, from 0, as the encoder codes it: ResetSegments and VP8SetSkip.
Coded(i) ==
  LET mb == F.mbs[i + 1]
  IN  [mb EXCEPT !.segment = IF enc.h.update_map THEN @ ELSE 0] @@ [skip |-> Empty(mb)]

X(i) == i % F.mb_w
Y(i) == i \div F.mb_w
Count == Len(F.mbs)

-----------------------------------------------------------------------------
Idle == [at |-> 0]

LossyInit ==
  /\ message = << >> /\ bw = VP8BitWriterInit /\ end = 0 /\ br = Idle /\ dec = Idle /\ wrong = FALSE
  /\ \/ /\ pc = "write" /\ frame = 0 /\ probs \in Schedules
        /\ parts = << >> /\ enc = Idle
     \/ /\ pc = "code" /\ frame \in 1 .. Len(Frames) /\ probs = << >>
        /\ parts = [p \in 1 .. 2^F.h.log2_parts |-> VP8BitWriterInit]
        /\ enc = [h |-> SetSegmentProbas(F) @@ F.h, nz |-> [x \in 0 .. F.mb_w - 1 |-> {}],
                  left_dc |-> 0, at |-> 0]

LossyIdle ==
  /\ pc = "idle" /\ frame = 0 /\ probs = << >> /\ parts = << >> /\ enc = Idle
  /\ message = << >> /\ bw = VP8BitWriterInit /\ end = 0 /\ br = Idle /\ dec = Idle /\ wrong = FALSE

-----------------------------------------------------------------------------
(* A stream of bits.                                                        *)

WriteBit(bit) ==
  /\ pc = "write" /\ Len(message) < Len(probs)
  /\ LET prob == probs[Len(message) + 1]
     IN  \/ bw' = VP8PutBit(bw, bit, prob)
         \/ prob = Half /\ bw' = VP8PutBitUniform(bw, bit)
  /\ message' = Append(message, bit)
  /\ UNCHANGED <<pc, frame, probs, parts, enc, end, br, dec, wrong>>

\* The reader is given all bytes or only the first of them.
FinishBits ==
  /\ pc = "write" /\ message # << >>
  /\ pc' = "read" /\ bw' = VP8BitWriterFinish(bw)
  /\ end' \in 0 .. Len(bw'.buf)
  /\ br' = VP8InitBitReader(SubSeq(bw'.buf, 1, end'))
  /\ UNCHANGED <<frame, probs, message, parts, enc, dec, wrong>>

ReadBit ==
  /\ pc = "read" /\ dec.at < Len(message)
  /\ LET prob == probs[dec.at + 1]
     IN  \E g \in {VP8GetBit(br, prob), VP8GetBitAlt(br, prob)}
                   \cup (IF prob = Half /\ dec.at > 0 THEN {VP8GetSigned(br)} ELSE {}) :
           /\ br' = g.br /\ dec' = [at |-> dec.at + 1]
           /\ wrong' = (wrong \/ (g.value # message[dec.at + 1] /\ ~ g.br.eof))
  /\ UNCHANGED <<pc, frame, probs, message, bw, parts, enc, end>>

-----------------------------------------------------------------------------
(* The encoder.                                                             *)

\* One macroblock of VP8EncLoop, or of VP8EncTokenLoop, which does not use skip.  Behind
\* the last one, PostLoopFinalize.
CodeMb ==
  /\ pc = "code"
  /\ LET i  == enc.at
         mb == Coded(i)
         x  == X(i)
         p  == (Y(i) % Len(parts)) + 1
         left_dc == IF x = 0 THEN 0 ELSE enc.left_dc
         left_nz == IF x = 0 THEN {} ELSE enc.nz[x - 1]
         last    == i + 1 = Count
     IN  \E coded \in { IF mb.skip /\ enc.h.use_skip THEN ResetAfterSkip(mb, enc.nz[x], left_dc)
                        ELSE CodeResiduals(enc.h.coeffs @@ CoeffsProba0, mb, enc.nz[x],
                                           left_nz, left_dc) } :
         /\ parts' = LET written == [parts EXCEPT ![p] = Emit(@, coded.events)]
                     IN  IF last THEN [q \in 1 .. Len(parts) |-> VP8BitWriterFinish(written[q])]
                         ELSE written
         /\ enc' = [enc EXCEPT !.nz[x] = coded.nz, !.left_dc = coded.left_dc,
                               !.at = IF last THEN 0 ELSE i + 1]
         /\ pc' = IF last THEN "header" ELSE pc
  /\ UNCHANGED <<frame, probs, message, bw, end, br, dec, wrong>>

\* GeneratePartition0.
WriteHeader ==
  /\ pc = "header" /\ pc' = "modes" /\ bw' = Emit(bw, PutHeader(enc.h))
  /\ UNCHANGED <<frame, probs, message, parts, enc, end, br, dec, wrong>>

\* preds_ at (x, y) of macroblock i: -1 is above or to the left, outside of the picture DC.
ModeOf(mb, x, y) == IF mb.i16 THEN mb.modes[1] ELSE mb.modes[4 * y + x + 1]
Near(i) == [x \in -1 .. 3, y \in -1 .. 3 |->
  IF y < 0 THEN IF Y(i) = 0 THEN "DC" ELSE ModeOf(F.mbs[i + 1 - F.mb_w], x, 3)
  ELSE IF x < 0 THEN IF X(i) = 0 THEN "DC" ELSE ModeOf(F.mbs[i], 3, y)
  ELSE ModeOf(F.mbs[i + 1], x, y)]

\* The bytes behind partition 0: the sizes of the partitions but the last, and them.
Before(p) == FoldLeft(LAMBDA sum, q : sum + Len(parts[q].buf), 0, [q \in 1 .. p - 1 |-> q])
Sizes     == 3 * (Len(parts) - 1)
Length    == Sizes + Before(Len(parts) + 1)

WriteModes ==
  /\ pc = "modes"
  /\ \E written \in {Emit(bw, PutIntraModes(enc.h, Coded(enc.at), Near(enc.at)))} :
         IF enc.at + 1 < Count
         THEN /\ bw' = written /\ enc' = [enc EXCEPT !.at = @ + 1] /\ UNCHANGED <<pc, end>>
         ELSE /\ bw' = VP8BitWriterFinish(written) /\ pc' = "headers" /\ UNCHANGED enc
              /\ end' \in IF F.cut THEN 0 .. Length ELSE {Length}
  /\ UNCHANGED <<frame, probs, message, parts, br, dec, wrong>>

-----------------------------------------------------------------------------
(* The decoder.                                                             *)

\* ParsePartitions: the readers of the partitions, each of what has arrived of it.
Arrived(p) ==
  LET n == end - Sizes - Before(p)
  IN  IF n < 0 THEN 0 ELSE IF n < Len(parts[p].buf) THEN n ELSE Len(parts[p].buf)
TokenReaders == [p \in 1 .. Len(parts) |-> VP8InitBitReader(SubSeq(parts[p].buf, 1, Arrived(p)))]

\* VP8ParseQuant: the quantizer of a segment.
Quantizer(h, s) ==
  IF ~ h.use_segment THEN h.base_q0
  ELSE IF h.absolute THEN h.quantizer[s + 1] ELSE h.quantizer[s + 1] + h.base_q0

\* That is what the encoder has meant.
HeaderIsRight(h) ==
  /\ \A field \in {"simple", "level", "sharpness", "log2_parts", "dq",
                   "coeffs", "use_skip", "use_segment", "update_map"} : h[field] = enc.h[field]
  /\ h.use_segment => h.filter_strength = enc.h.filter_strength
  /\ h.lf_delta = << 0, 0, 0, 0, enc.h.i4x4_lf_delta, 0, 0, 0 >>

AllDC == Same("DC")

\* VP8GetHeaders, then the buffers of VP8InitFrame.
VP8GetHeaders ==
  /\ pc = "headers"
  /\ \E g \in {ParseHeader(VP8InitBitReader(bw.buf))} :
         IF end <= Sizes + Before(Len(parts)) \/ g.eof
         THEN pc' = "stopped" /\ UNCHANGED <<br, dec, wrong>>
         ELSE /\ pc' = "row" /\ br' = g.br
              /\ wrong' = ~ HeaderIsRight(g.value)
              /\ dec' = [h |-> g.value, parts |-> TokenReaders, at |-> 0, row |-> << >>,
                         intra_t |-> [x \in 0 .. F.mb_w - 1 |-> AllDC], intra_l |-> AllDC,
                         nz |-> [x \in 0 .. F.mb_w - 1 |-> NoContext], left_nz |-> NoContext,
                         nz_dc |-> [x \in 0 .. F.mb_w - 1 |-> 0], left_dc |-> 0]
  /\ UNCHANGED <<frame, probs, message, bw, parts, enc, end>>

\* The macroblock is what the encoder has coded: its modes and its quantizer.
ModesAreRight(i, got) ==
  LET mb == Coded(i)
  IN  /\ got.i16 = mb.i16 /\ got.modes = mb.modes /\ got.uv = mb.uv
      /\ Quantizer(dec.h, got.segment) = F.h.quantizer[mb.segment + 1]

AddMb(a, x, g) == [br |-> g.br, row |-> Append(a.row, g.value),
                   top |-> [a.top EXCEPT ![x] = g.value.top], left |-> g.value.left]
VP8ParseIntraModeRow ==
  /\ pc = "row"
  /\ LET OfMb(a, x) == AddMb(a, x, ParseIntraMode(a.br, dec.h, a.top[x], a.left))
         start == [br |-> br, row |-> << >>, top |-> dec.intra_t, left |-> dec.intra_l]
     IN  \E all \in {FoldLeft(OfMb, start, [x \in 1 .. F.mb_w |-> x - 1])} :
         /\ br' = all.br
         /\ pc' = IF all.br.eof THEN "stopped" ELSE "mb"
         /\ dec' = [dec EXCEPT !.row = all.row, !.intra_t = all.top, !.intra_l = all.left]
         /\ wrong' = (wrong \/ (~ all.br.eof /\
                        \E x \in 1 .. F.mb_w : ~ ModesAreRight(dec.at + x - 1, all.row[x])))
  /\ UNCHANGED <<frame, probs, message, bw, parts, enc, end>>

\* VP8DecodeMB, and VP8InitScanline behind the last one of a row.
VP8DecodeMB ==
  /\ pc = "mb"
  /\ LET i  == dec.at
         x  == X(i)
         p  == (Y(i) % Len(dec.parts)) + 1
         mb == dec.row[x + 1]
         last == x + 1 = F.mb_w
     IN  \E g \in { IF mb.skip
                    THEN SkipResiduals(dec.parts[p], mb.i16, dec.nz_dc[x], dec.left_dc)
                    ELSE ParseResiduals(dec.parts[p], dec.h.coeffs @@ CoeffsProba0, mb.i16,
                                        dec.nz[x], dec.left_nz, dec.nz_dc[x], dec.left_dc) } :
         /\ dec' = [dec EXCEPT
                      !.parts[p] = g.br, !.nz[x] = g.top, !.nz_dc[x] = g.top_dc, !.at = i + 1,
                      !.left_nz = IF last THEN NoContext ELSE g.left,
                      !.left_dc = IF last THEN 0 ELSE g.left_dc,
                      !.intra_l = IF last THEN AllDC ELSE @]
         /\ pc' = IF g.br.eof THEN "stopped"
                  ELSE IF i + 1 = Count THEN "done" ELSE IF last THEN "row" ELSE pc
         /\ wrong' = (wrong \/ (~ g.br.eof /\
                        (g.blocks # F.mbs[i + 1].blocks \/ g.dc # F.mbs[i + 1].dc)))
  /\ UNCHANGED <<frame, probs, message, bw, parts, enc, end, br>>

LossyEnded == pc \in {"done", "stopped"} \/ (pc = "read" /\ dec.at = Len(message))

LossyNext ==
  \/ \E bit \in 0 .. 1 : WriteBit(bit)
  \/ FinishBits \/ ReadBit
  \/ CodeMb \/ WriteHeader \/ WriteModes
  \/ VP8GetHeaders \/ VP8ParseIntraModeRow \/ VP8DecodeMB

-----------------------------------------------------------------------------
AllArrived ==
  IF frame = 0 THEN pc = "read" /\ end = Len(bw.buf)
  ELSE pc \in {"row", "mb", "done", "stopped"} /\ end = Length

\* With all bytes the decoder gets every bit, by whichever function of the writer it was
\* written and by whichever of the reader it is read, and every header, mode and level
\* of every macroblock, whatever was skipped around it; and it never takes the data for
\* incomplete: otherwise the incremental decoder would wait for ever for the end of a
\* file that it has.
ReadsBack ==
  AllArrived => /\ ~ wrong /\ pc # "stopped" /\ ~ br.eof
                /\ frame # 0 => \A p \in 1 .. Len(dec.parts) : ~ dec.parts[p].eof

\* The incremental decoder believes what it has decoded from a part of the data as
\* long as eof_ is not set: until then every bit, every row of modes and every
\* macroblock is the right one.
PrefixIsTrusted == ~ wrong
=============================================================================
