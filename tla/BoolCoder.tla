------------------------------ MODULE BoolCoder ------------------------------
(***************************************************************************)
(* The boolean coder: VP8BitWriter (src/utils/bit_writer_utils.c) writes    *)
(* bits by their probabilities, VP8BitReader (src/utils/bit_reader_utils.c *)
(* and bit_reader_inl_utils.h) reads them back, from all of the bytes or    *)
(* from those that have arrived.                                            *)
(*                                                                         *)
(* A byte has ByteBits bits, and what depends on that is expressed by it.   *)
(* The tables of renormalization are given by what they contain.  Left out: *)
(* memory that cannot be allocated, and errors of it.                       *)
(***************************************************************************)
EXTENDS Integers, Sequences, SequencesExt

CONSTANTS
  ByteBits,     \* 8
  Loaded,       \* BITS / 8: bytes the reader takes at a time,
  WordSize      \* sizeof(lbit_t): if there are so many

Byte == 2^ByteBits
Half == Byte \div 2

ASSUME CoderAssumption ==
  /\ ByteBits \in Nat /\ ByteBits > 1
  /\ Loaded \in Nat \ {0} /\ WordSize \in Nat /\ WordSize >= Loaded

-----------------------------------------------------------------------------
(* Both sides keep range_ between Half - 1 and Byte - 2.                    *)

Split(range, prob) == (range * prob) \div Byte

\* kNorm, kVP8Log2Range: by how much a range has to be shifted.
Norm(range) == CHOOSE s \in 0 .. ByteBits - 1 :
                 (range + 1) * 2^s >= Half /\ (range + 1) * 2^s < Byte

\* kNewRange, kVP8NewRange.
NewRange(range) == (range + 1) * 2^Norm(range) - 1

-----------------------------------------------------------------------------
VP8BitWriterInit == [range |-> Byte - 2, value |-> 0, run |-> 0, nb_bits |-> -ByteBits, buf |-> << >>]

\* What is in the buffer before the next byte: an overflow goes through the delayed
\* bytes into the last one written.
Pending(w, carry) ==
  (IF carry /\ w.buf # << >> THEN [w.buf EXCEPT ![Len(w.buf)] = (@ + 1) % Byte] ELSE w.buf)
    \o [i \in 1 .. w.run |-> IF carry THEN 0 ELSE Byte - 1]

Flush(w) ==
  LET s    == 2^(ByteBits + w.nb_bits)
      bits == w.value \div s
      w1   == [w EXCEPT !.value = @ % s, !.nb_bits = @ - ByteBits]
      carry == (bits \div Byte) % 2 = 1
  IN  IF bits % Byte = Byte - 1 THEN [w1 EXCEPT !.run = @ + 1]
      ELSE [w1 EXCEPT !.run = 0, !.buf = Append(Pending(w, carry), bits % Byte)]

\* The interval after a bit, then shifted.
Narrowed(w, bit, split) ==
  IF bit = 1 THEN [w EXCEPT !.value = @ + split + 1, !.range = @ - split - 1]
             ELSE [w EXCEPT !.range = split]

Shifted(w, shift) ==
  LET w1 == [w EXCEPT !.range = NewRange(@), !.value = @ * 2^shift, !.nb_bits = @ + shift]
  IN  IF w1.nb_bits > 0 THEN Flush(w1) ELSE w1

VP8PutBit(w, bit, prob) ==
  LET w1 == Narrowed(w, bit, Split(w.range, prob))
  IN  IF w1.range < Half - 1 THEN Shifted(w1, Norm(w1.range)) ELSE w1

\* At even odds one shift is always enough.
VP8PutBitUniform(w, bit) ==
  LET w1 == Narrowed(w, bit, w.range \div 2)
  IN  IF w1.range < Half - 1 THEN Shifted(w1, 1) ELSE w1

\* VP8PutBits(bw, 0, n).
PutZeroes(w, n) == FoldLeft(LAMBDA x, i : VP8PutBitUniform(x, 0), w, [i \in 1 .. n |-> i])

VP8BitWriterFinish(w) ==
  Flush([PutZeroes(w, ByteBits + 1 - w.nb_bits) EXCEPT !.nb_bits = 0])

-----------------------------------------------------------------------------
\* Variant: the end of the data is not noticed.
AtEnd_Silent(r) == [r EXCEPT !.value = @ * Byte, !.bits = @ + ByteBits]

\* VP8LoadFinalBytes behind the last byte.
AtEnd(r) ==
  IF r.eof THEN [r EXCEPT !.bits = 0]
  ELSE [r EXCEPT !.value = @ * Byte, !.bits = @ + ByteBits, !.eof = TRUE]

\* VP8LoadNewBytes, which reads a word ahead where it can; pos counts the bytes taken.
Load(r) ==
  LET n == Len(r.buf)
      taken == IF r.pos + WordSize <= n THEN Loaded ELSE 1
      value == FoldLeft(LAMBDA v, b : v * Byte + b, r.value,
                        SubSeq(r.buf, r.pos + 1, r.pos + taken))
  IN  IF r.pos < n
      THEN [r EXCEPT !.value = value, !.bits = @ + taken * ByteBits, !.pos = @ + taken]
      ELSE AtEnd(r)

VP8InitBitReader(buf) ==
  Load([range |-> Byte - 2, value |-> 0, bits |-> -ByteBits, eof |-> FALSE, pos |-> 0, buf |-> buf])

\* What reading gives, and the reader afterwards.
Got(value, r) == [value |-> value, br |-> r]

Ready(r) == IF r.bits < 0 THEN Load(r) ELSE r
Top(r)   == r.value \div 2^r.bits

\* The value against the split: the bit, and what is left of value and range.
Compared(r, split) ==
  LET bit == IF Top(r) > split THEN 1 ELSE 0
  IN  Got(bit, [r EXCEPT !.value = @ - bit * (split + 1) * 2^r.bits,
                         !.range = IF bit = 1 THEN @ - split - 1 ELSE split])

\* Of VP8GetBit, which keeps the range plus one in between.
Renormalized(g) ==
  LET shift == CHOOSE s \in 0 .. ByteBits - 1 :
                 (g.br.range + 1) * 2^s >= Half /\ (g.br.range + 1) * 2^s < Byte
  IN  Got(g.value, [g.br EXCEPT !.bits = @ - shift, !.range = (@ + 1) * 2^shift - 1])

\* Of VP8GetBitAlt, with the tables.
ByTables(g) ==
  IF g.br.range >= Half - 1 THEN g
  ELSE Got(g.value, [g.br EXCEPT !.bits = @ - Norm(g.br.range), !.range = NewRange(@)])

CompareReady(r, prob) == Compared(r, Split(r.range, prob))
VP8GetBit(r, prob)    == Renormalized(CompareReady(Ready(r), prob))
VP8GetBitAlt(r, prob) == ByTables(CompareReady(Ready(r), prob))

\* VP8GetSigned, at even odds: the mask is -1 for a bit that is set, and the new
\* range is made odd.  Its shift is right for every range but the first one.
SignOf(r, split) ==
  LET bit == IF Top(r) > split THEN 1 ELSE 0
  IN  Got(bit, [r EXCEPT !.value = @ - bit * (split + 1) * 2^r.bits, !.bits = @ - 1,
                         !.range = @ - bit + (1 - ((@ - bit) % 2))])
SignReady(r)    == SignOf(r, r.range \div 2)
VP8GetSigned(r) == SignReady(Ready(r))
=============================================================================
