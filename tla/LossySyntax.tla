----------------------------- MODULE LossySyntax -----------------------------
(***************************************************************************)
(* The syntax of a lossy image inside its partitions: what the encoder      *)
(* writes (src/enc/syntax_enc.c, tree_enc.c, frame_enc.c, token_enc.c) and  *)
(* what the decoder reads (src/dec/vp8_dec.c, tree_dec.c, quant_dec.c).     *)
(*                                                                         *)
(* Writing gives a sequence of bits with their probabilities; the token     *)
(* buffer holds the same sequence, with names of probabilities.  Reading    *)
(* takes a reader and gives a value and the reader afterwards.  Tables of   *)
(* probabilities are parameters.  Left out: what quantizers mean, zigzag,   *)
(* the transform of the luma DCs, and what the non-zero codes are used for. *)
(***************************************************************************)
EXTENDS BoolCoder

CONSTANTS
  BModesProba,          \* kBModesProba, by the modes above and to the left
  CoeffsProba0,         \* by <<type, band, context, index>>
  CoeffsUpdateProba,
  Ids                   \* a sequence: the probabilities that a header may change

ASSUME SyntaxAssumption ==
  \A i \in 1 .. Len(Ids) : Ids[i] \in DOMAIN CoeffsProba0 \cap DOMAIN CoeffsUpdateProba

-----------------------------------------------------------------------------
(* Writing.                                                                 *)

EvenOdds == -1      \* VP8PutBitUniform

Bit(b, prob)    == << [bit |-> IF b THEN 1 ELSE 0, prob |-> prob] >>
When(b, events) == IF b THEN events ELSE << >>
Even(b)         == Bit(b, EvenOdds)
Each(s, Events(_)) == FoldLeft(LAMBDA events, x : events \o Events(x), << >>, s)

PutBits(value, n) == Each([i \in 1 .. n |-> n - i], LAMBDA j : Even((value \div 2^j) % 2 = 1))

VP8PutSignedBits(value, n) ==
  Even(value # 0)
    \o When(value > 0, PutBits(2 * value, n + 1)) \o When(value < 0, PutBits(1 - 2 * value, n + 1))

Put(w, e) == IF e.prob = EvenOdds THEN VP8PutBitUniform(w, e.bit) ELSE VP8PutBit(w, e.bit, e.prob)

\* VP8EmitTokens, or writing at once; a half after the other keeps the recursion flat.
RECURSIVE Emit(_, _)
Emit(w, events) ==
  LET n    == Len(events)
      half == n \div 2
  IN  IF n = 0 THEN w ELSE IF n = 1 THEN Put(w, events[1])
      ELSE CHOOSE done \in { Emit(x, SubSeq(events, half + 1, n)) :
                               x \in { Emit(w, SubSeq(events, 1, half)) } } : TRUE

-----------------------------------------------------------------------------
(* Reading.                                                                 *)

(* Each step is an operator of what was read before, so that nothing is     *)
(* read twice.                                                              *)

\* One value for each element of s.
Appended(values, g) == Got(Append(values, g.value), g.br)
Read(r, s, Get(_, _)) ==
  FoldLeft(LAMBDA a, x : Appended(a.value, Get(a.br, x)), Got(<< >>, r), s)

VP8Get(r)    == VP8GetBit(r, Half)
BitsIn(bits) == FoldLeft(LAMBDA v, b : 2 * v + b, 0, bits)
Number(g)    == Got(BitsIn(g.value), g.br)
VP8GetValue(r, n) == Number(Read(r, [i \in 1 .. n |-> Half], VP8GetBit))

WithSign(value, sign) == Got(IF sign.value = 1 THEN -value ELSE value, sign.br)
ThenSign(g) == WithSign(g.value, VP8Get(g.br))
VP8GetSignedValue(r, n) == ThenSign(VP8GetValue(r, n))

\* Values that are there if their flag is set.
SignedIf(g, n) == IF g.value = 1 THEN VP8GetSignedValue(g.br, n) ELSE Got(0, g.br)
ProbaIf(g, n)  == IF g.value = 1 THEN VP8GetValue(g.br, n) ELSE Got(255, g.br)
OptionalSigned(r, n) == SignedIf(VP8Get(r), n)
OptionalProba(r, n)  == ProbaIf(VP8Get(r), n)

\* The hardcoded trees: a leaf has a value, to which bits with given probabilities add.
Leaf(base, extra)      == [base |-> base, extra |-> extra]
Node(prob, zero, one)  == [prob |-> prob, zero |-> zero, one |-> one]
AtLeaf(t, g) == Got(IF t.extra = << >> THEN t.base ELSE t.base + BitsIn(g.value), g.br)
RECURSIVE ReadTree(_, _), Descend(_, _)
ReadTree(r, t) == IF "base" \in DOMAIN t THEN AtLeaf(t, Read(r, t.extra, VP8GetBit))
                                         ELSE Descend(VP8GetBit(r, t.prob), t)
Descend(g, t)  == ReadTree(g.br, IF g.value = 1 THEN t.one ELSE t.zero)

\* A record that is filled field by field.
Add(a, name, g) == Got((name :> g.value) @@ a.value, g.br)
Flag(g)         == Got(g.value = 1, g.br)

-----------------------------------------------------------------------------
(* The header in partition 0, a record with the decoder's values.           *)

PutSegmentHeader(h) ==
  LET PutProba(p) == Even(p # 255) \o When(p # 255, PutBits(p, 8))
  IN  Even(h.use_segment)
        \o When(h.use_segment,
             Even(h.update_map) \o Even(TRUE) \o Even(TRUE)
               \o Each(h.quantizer, LAMBDA q : VP8PutSignedBits(q, 7))
               \o Each(h.filter_strength, LAMBDA f : VP8PutSignedBits(f, 6))
               \o When(h.update_map, Each(h.segments, PutProba)))

PutFilterHeader(h) ==
  Even(h.simple) \o PutBits(h.level, 6) \o PutBits(h.sharpness, 3) \o Even(h.i4x4_lf_delta # 0)
    \o When(h.i4x4_lf_delta # 0,
         Even(TRUE) \o PutBits(0, 4) \o VP8PutSignedBits(h.i4x4_lf_delta, 6) \o PutBits(0, 3))

PutQuant(h) == PutBits(h.base_q0, 7) \o Each(h.dq, LAMBDA d : VP8PutSignedBits(d, 4))

VP8WriteProbas(h) ==
  LET PutOne(id) == Bit(h.coeffs[id] # CoeffsProba0[id], CoeffsUpdateProba[id])
                   \o When(h.coeffs[id] # CoeffsProba0[id], PutBits(h.coeffs[id], 8))
  IN  Each(Ids, PutOne) \o Even(h.use_skip) \o When(h.use_skip, PutBits(h.skip_p, 8))

PutHeader(h) ==
  Even(FALSE) \o Even(FALSE) \o PutSegmentHeader(h) \o PutFilterHeader(h)
    \o PutBits(h.log2_parts, 2) \o PutQuant(h) \o Even(FALSE) \o VP8WriteProbas(h)

\* The decoder's side: a field is read if a field before it is set.
Field(name, kind, n, if, absent) ==
  [name |-> name, kind |-> kind, n |-> n, if |-> if, absent |-> absent]
Always(name, kind, n) == Field(name, kind, n, "always", 0)

ParseSegmentHeader ==
  << Always("use_segment", "flag", 1),
     Field("update_map",  "flag", 1, "use_segment", FALSE),
     Field("update_data", "flag", 1, "use_segment", FALSE),
     Field("absolute",    "flag", 1, "update_data", TRUE),
     Field("quantizer",       "signed", << 7, 7, 7, 7 >>, "update_data", << 0, 0, 0, 0 >>),
     Field("filter_strength", "signed", << 6, 6, 6, 6 >>, "update_data", << 0, 0, 0, 0 >>),
     Field("segments",        "proba",  << 8, 8, 8 >>, "update_map", << 255, 255, 255 >>) >>

ParseFilterHeader ==
  << Always("simple", "flag", 1), Always("level", "value", 6), Always("sharpness", "value", 3),
     Always("use_lf_delta", "flag", 1),
     Field("update_lf_delta", "flag", 1, "use_lf_delta", FALSE),
     Field("lf_delta", "signed", << 6, 6, 6, 6, 6, 6, 6, 6 >>, "update_lf_delta",
           << 0, 0, 0, 0, 0, 0, 0, 0 >>) >>

VP8ParseQuant == << Always("base_q0", "value", 7), Always("dq", "signed", << 4, 4, 4, 4, 4 >>) >>

ReadField(r, f) ==
  CASE f.kind = "flag"   -> Flag(VP8Get(r))
    [] f.kind = "value"  -> VP8GetValue(r, f.n)
    [] f.kind = "signed" -> Read(r, f.n, OptionalSigned)
    [] f.kind = "proba"  -> Read(r, f.n, OptionalProba)
ReadFields(a0, fields) ==
  FoldLeft(LAMBDA a, f : Add(a, f.name, IF a.value[f.if] THEN ReadField(a.br, f)
                                        ELSE Got(f.absent, a.br)),
           a0, fields)

ProbaOf(g, id)   == IF g.value = 1 THEN VP8GetValue(g.br, 8) ELSE Got(CoeffsProba0[id], g.br)
ReadProba(r, id) == ProbaOf(VP8GetBit(r, CoeffsUpdateProba[id]), id)
ByIds(g) == Got([id \in { Ids[i] : i \in 1 .. Len(Ids) } |->
                   g.value[CHOOSE i \in 1 .. Len(Ids) : Ids[i] = id]], g.br)
VP8ParseProba(a) ==
  ReadFields(Add(a, "coeffs", ByIds(Read(a.br, Ids, ReadProba))),
             << Always("use_skip", "flag", 1), Field("skip_p", "value", 8, "use_skip", 0) >>)

\* VP8GetHeaders, with the number of partitions of ParsePartitions; eof is looked at
\* behind the filter header.
ParseAfterFilter(a) ==
  [eof |-> a.br.eof]
    @@ VP8ParseProba(ReadFields(a, << Always("log2_parts", "value", 2) >> \o VP8ParseQuant
                                     \o << Always("update_proba", "flag", 1) >>))
ParseHeader(r) ==
  ParseAfterFilter(ReadFields(Got([always |-> TRUE], r),
    << Always("colorspace", "flag", 1), Always("clamp_type", "flag", 1) >>
      \o ParseSegmentHeader \o ParseFilterHeader))

-----------------------------------------------------------------------------
(* The intra modes.  Those of 16x16 blocks are four of those of 4x4 blocks: *)
(* V_PRED is "VE", H_PRED is "HE".                                          *)

BModes == << "DC", "TM", "VE", "HE", "RD", "VR", "LD", "VL", "HD", "HU" >>

\* The probabilities of each tree are indexed from 1.
PutI4Mode(mode, prob) ==
  Bit(mode # "DC", prob[1]) \o When(mode # "DC",
    Bit(mode # "TM", prob[2]) \o When(mode # "TM",
      Bit(mode # "VE", prob[3]) \o When(mode # "VE",
        IF mode \notin {"LD", "VL", "HD", "HU"}
        THEN Bit(FALSE, prob[4]) \o Bit(mode # "HE", prob[5])
               \o When(mode # "HE", Bit(mode # "RD", prob[6]))
        ELSE Bit(TRUE, prob[4]) \o Bit(mode # "LD", prob[7])
               \o When(mode # "LD", Bit(mode # "VL", prob[8])
                    \o When(mode # "VL", Bit(mode # "HD", prob[9]))))))

I4Tree(prob) ==
  LET L(mode) == Leaf(mode, << >>)
  IN  Node(prob[1], L("DC"), Node(prob[2], L("TM"), Node(prob[3], L("VE"),
        Node(prob[4],
             Node(prob[5], L("HE"), Node(prob[6], L("RD"), L("VR"))),
             Node(prob[7], L("LD"), Node(prob[8], L("VL"), Node(prob[9], L("HD"), L("HU"))))))))

PutI16Mode(mode) ==
  IF mode \in {"TM", "HE"} THEN Bit(TRUE, 156) \o Bit(mode = "TM", Half)
                           ELSE Bit(FALSE, 156) \o Bit(mode = "VE", 163)

I16Tree == Node(156, Node(163, Leaf("DC", << >>), Leaf("VE", << >>)),
                     Node(Half, Leaf("HE", << >>), Leaf("TM", << >>)))

PutUVMode(mode) ==
  Bit(mode # "DC", 142) \o When(mode # "DC",
    Bit(mode # "VE", 114) \o When(mode # "VE", Bit(mode # "HE", 183)))

UVTree == Node(142, Leaf("DC", << >>), Node(114, Leaf("VE", << >>),
            Node(183, Leaf("HE", << >>), Leaf("TM", << >>))))

PutSegment(s, p) == Bit(s >= 2, p[1]) \o Bit(s % 2 = 1, IF s >= 2 THEN p[3] ELSE p[2])
SegmentTree(p)   == Node(p[1], Leaf(0, << p[2] >>), Leaf(2, << p[3] >>))

\* One macroblock of VP8CodeIntraModes.  near has the modes in it and around it, by <<x, y>>
\* with -1 above and to the left.
PutIntraModes(h, mb, near) ==
  LET OfBlock(i) == LET x == i % 4
                        y == i \div 4
                    IN  PutI4Mode(near[x, y], BModesProba[near[x, y - 1], near[x - 1, y]])
  IN  When(h.update_map, PutSegment(mb.segment, h.segments))
        \o When(h.use_skip, Bit(mb.skip, h.skip_p))
        \o Bit(mb.i16, 145)
        \o (IF mb.i16 THEN PutI16Mode(mb.modes[1]) ELSE Each([i \in 1 .. 16 |-> i - 1], OfBlock))
        \o PutUVMode(mb.uv)

\* ParseIntraMode: top and left are the modes around the macroblock, which become its own.
Same(mode) == << mode, mode, mode, mode >>
AllModes(a, g) ==
  Got([a.value EXCEPT !.modes = << g.value >>, !.top = Same(g.value), !.left = Same(g.value)], g.br)
OneMode(a, x, y, g) ==
  Got([a.value EXCEPT !.modes = Append(@, g.value), !.top[x] = g.value, !.left[y] = g.value], g.br)
ReadI4Mode(a, i) ==
  LET x == (i % 4) + 1
      y == (i \div 4) + 1
  IN  OneMode(a, x, y, ReadTree(a.br, I4Tree(BModesProba[a.value.top[x], a.value.left[y]])))
ReadModes(a) ==
  IF a.value.i16 THEN AllModes(a, ReadTree(a.br, I16Tree))
                 ELSE FoldLeft(ReadI4Mode, a, [i \in 1 .. 16 |-> i - 1])

Set(a, name, g) == Got([a.value EXCEPT ![name] = g.value], g.br)
ReadSegment(a, h) ==
  Set(a, "segment", IF h.update_map THEN ReadTree(a.br, SegmentTree(h.segments)) ELSE Got(0, a.br))
ReadSkip(a, h) ==
  Set(a, "skip", Flag(IF h.use_skip THEN VP8GetBit(a.br, h.skip_p) ELSE Got(0, a.br)))
ReadSize(a) == Set(a, "i16", Flag(VP8GetBit(a.br, 145)))
ReadUV(a)   == Set(a, "uv", ReadTree(a.br, UVTree))
ParseIntraMode(r, h, top, left) ==
  ReadUV(ReadModes(ReadSize(ReadSkip(ReadSegment(
    Got([segment |-> 0, skip |-> FALSE, i16 |-> FALSE, modes |-> << >>, uv |-> "DC",
         top |-> top, left |-> left], r), h), h))))

-----------------------------------------------------------------------------
(* The coefficients of a block, a function on 0 .. 15.                      *)

VP8EncBands == << 0, 1, 2, 3, 6, 4, 5, 6, 6, 6, 6, 6, 6, 6, 6, 7, 0 >>
\* The probabilities at the n-th coefficient, indexed from 0.
Proba(coeffs, type, n, ctx) == [i \in 0 .. 10 |-> coeffs[<<type, VP8EncBands[n + 1], ctx, i>>]]

Cat3 == << 173, 148, 140 >>
Cat4 == << 176, 155, 140, 135 >>
Cat5 == << 180, 157, 141, 134, 130 >>
Cat6 == << 254, 254, 243, 230, 196, 177, 153, 140, 133, 130, 129 >>
Cat3456 == << Cat3, Cat4, Cat5, Cat6 >>

\* Values above 10 have a category and as many bits as its table.
PutCategory(v, p) ==
  LET cat   == CHOOSE c \in 0 .. 3 : v >= 3 + 8 * 2^c /\ (c = 3 \/ v < 3 + 8 * 2^(c + 1))
      tab   == Cat3456[cat + 1]
      rest  == v - 3 - 8 * 2^cat
  IN  Bit(cat >= 2, p[8]) \o Bit(cat % 2 = 1, IF cat >= 2 THEN p[10] ELSE p[9])
        \o Each([i \in 1 .. Len(tab) |-> i],
                LAMBDA i : Bit((rest \div 2^(Len(tab) - i)) % 2 = 1, tab[i]))

PutLargeValue(v, p) ==
  IF v <= 4
  THEN Bit(FALSE, p[3]) \o Bit(v # 2, p[4]) \o When(v # 2, Bit(v = 4, p[5]))
  ELSE IF v <= 10
  THEN Bit(TRUE, p[3]) \o Bit(FALSE, p[6]) \o Bit(v > 6, p[7])
         \o (IF v <= 6 THEN Bit(v = 6, 159) ELSE Bit(v >= 9, 165) \o Bit(v % 2 = 0, 145))
  ELSE Bit(TRUE, p[3]) \o Bit(TRUE, p[6]) \o PutCategory(v, p)

\* GetLargeValue.
LargeValueTree(p) ==
  Node(p[3], Node(p[4], Leaf(2, << >>), Leaf(3, << p[5] >>)),
    Node(p[6], Node(p[7], Leaf(5, << 159 >>), Leaf(7, << 165, 145 >>)),
      Node(p[8], Node(p[9],  Leaf(11, Cat3), Leaf(19, Cat4)),
                 Node(p[10], Leaf(35, Cat5), Leaf(67, Cat6)))))

LastUsed(block) ==
  LET used == { n \in 0 .. 15 : block[n] # 0 }
  IN  IF used = {} THEN -1 ELSE CHOOSE n \in used : \A m \in used : m <= n

\* PutCoeffs, VP8RecordCoeffTokens.
PutCoeffs(coeffs, type, first, ctx0, block) ==
  LET code[n \in 0 .. 16, ctx \in 0 .. 2] ==
        LET p == Proba(coeffs, type, n, ctx)
            v == IF block[n] < 0 THEN -block[n] ELSE block[n]
            next == IF v > 1 THEN 2 ELSE 1
            more == n < LastUsed(block)
        IN  IF n = 16 THEN << >>
            ELSE IF v = 0 THEN Bit(FALSE, p[1]) \o code[n + 1, 0]
            ELSE Bit(TRUE, p[1]) \o Bit(v > 1, p[2]) \o When(v > 1, PutLargeValue(v, p))
                   \o Even(block[n] < 0)
                   \o When(n < 15, Bit(more, Proba(coeffs, type, n + 1, next)[0]))
                   \o When(more, code[n + 1, next])
  IN  Bit(LastUsed(block) >= 0, Proba(coeffs, type, first, ctx0)[0])
        \o When(LastUsed(block) >= 0, code[first, ctx0])

\* GetCoeffs: what is returned is the position behind the last coefficient.
LargeIf(g, p) == IF g.value = 1 THEN ReadTree(g.br, LargeValueTree(p)) ELSE Got(1, g.br)
GetSign(g)    == WithSign(g.value, VP8GetSigned(g.br))
GetCoeff(r, p) == GetSign(LargeIf(VP8GetBit(r, p[2]), p))

RECURSIVE GetCoeffs(_, _, _, _, _, _), AfterMore(_, _, _, _, _, _), GetZeroes(_, _, _, _, _, _),
          AfterZero(_, _, _, _, _, _), Store(_, _, _, _, _)
GetCoeffs(r, coeffs, type, n, ctx, block) ==
  IF n = 16 THEN [br |-> r, n |-> 16, block |-> block]
  ELSE AfterMore(VP8GetBit(r, Proba(coeffs, type, n, ctx)[0]), coeffs, type, n, ctx, block)
AfterMore(more, coeffs, type, n, ctx, block) ==
  IF more.value = 0 THEN [br |-> more.br, n |-> n, block |-> block]
  ELSE GetZeroes(more.br, coeffs, type, n, ctx, block)

GetZeroes(r, coeffs, type, n, ctx, block) ==
  AfterZero(VP8GetBit(r, Proba(coeffs, type, n, ctx)[1]), coeffs, type, n, ctx, block)
AfterZero(g, coeffs, type, n, ctx, block) ==
  IF g.value = 1 THEN Store(GetCoeff(g.br, Proba(coeffs, type, n, ctx)), coeffs, type, n, block)
  ELSE IF n = 15 THEN [br |-> g.br, n |-> 16, block |-> block]
  ELSE GetZeroes(g.br, coeffs, type, n + 1, 0, block)
Store(v, coeffs, type, n, block) ==
  GetCoeffs(v.br, coeffs, type, n + 1, IF v.value \in {1, -1} THEN 1 ELSE 2,
            [block EXCEPT ![n] = v.value])

-----------------------------------------------------------------------------
(* The blocks of a macroblock and their contexts: 0 .. 3 luma, 4 .. 5 U,    *)
(* 6 .. 7 V, above and to the left, and the luma DCs.                       *)

EmptyBlock == [n \in 0 .. 15 |-> 0]
NoContext  == [i \in 0 .. 7 |-> 0]

\* In the order of the stream: the places above and to the left, luma or not.
Blocks == [i \in 1 .. 24 |->
  LET j  == i - 17
      ch == 4 + 2 * (j \div 4)
  IN  IF i <= 16 THEN [top |-> (i - 1) % 4, left |-> (i - 1) \div 4, luma |-> TRUE]
      ELSE [top |-> ch + (j % 2), left |-> ch + ((j % 4) \div 2), luma |-> FALSE]]

TypeOf(b, i16)  == IF ~ b.luma THEN 2 ELSE IF i16 THEN 0 ELSE 3
FirstOf(b, i16) == IF b.luma /\ i16 THEN 1 ELSE 0

\* The encoder keeps the contexts of a macroblock as bits of one word.
TopBits  == << 12, 13, 14, 15, 18, 19, 22, 23 >>
LeftBits == << 3, 7, 11, 15, 17, 19, 21, 23 >>
DCBit    == 24

VP8IteratorNzToBytes(nz, bits) == [i \in 0 .. 7 |-> IF bits[i + 1] \in nz THEN 1 ELSE 0]
VP8IteratorBytesToNz(top, left, dc) ==
  { TopBits[i + 1] : i \in { j \in 0 .. 7 : top[j] = 1 } }
    \cup { LeftBits[i + 1] : i \in { j \in {0, 1, 2, 4, 6} : left[j] = 1 } }
    \cup (IF dc = 1 THEN {DCBit} ELSE {})

NonZero(block) == IF LastUsed(block) >= 0 THEN 1 ELSE 0

\* CodeResiduals, RecordTokens: what is written, the word and the DC to the left.
CodeBlocks(coeffs, mb, dc_above, left_dc, top, left) ==
  LET OfBlock(a, i) ==
        LET b == Blocks[i]
        IN  [events |-> a.events \o PutCoeffs(coeffs, TypeOf(b, mb.i16), FirstOf(b, mb.i16),
                                              a.top[b.top] + a.left[b.left], mb.blocks[i]),
             top  |-> [a.top EXCEPT ![b.top] = NonZero(mb.blocks[i])],
             left |-> [a.left EXCEPT ![b.left] = NonZero(mb.blocks[i])]]
  IN  FoldLeft(OfBlock, [events |-> When(mb.i16, PutCoeffs(coeffs, 1, 0, dc_above + left_dc, mb.dc)),
                         top |-> top, left |-> left],
               [i \in 1 .. 24 |-> i])

AsWord(coded, dc, left_dc) ==
  [events |-> coded.events, nz |-> VP8IteratorBytesToNz(coded.top, coded.left, dc),
   left_dc |-> left_dc]
CodeResiduals(coeffs, mb, nz, left_nz, left_dc) ==
  LET dc_above == IF DCBit \in nz THEN 1 ELSE 0
  IN  AsWord(CodeBlocks(coeffs, mb, dc_above, left_dc, VP8IteratorNzToBytes(nz, TopBits),
                        VP8IteratorNzToBytes(left_nz, LeftBits)),
             IF mb.i16 THEN NonZero(mb.dc) ELSE dc_above,
             IF mb.i16 THEN NonZero(mb.dc) ELSE left_dc)

\* Variant: the DC context of a 4x4 macroblock is forgotten, too.
ResetAfterSkip_All(mb, nz, left_dc) == [events |-> << >>, nz |-> {}, left_dc |-> 0]
ResetAfterSkip(mb, nz, left_dc) ==
  [events |-> << >>, nz |-> IF mb.i16 THEN {} ELSE nz \cap {DCBit},
   left_dc |-> IF mb.i16 THEN 0 ELSE left_dc]

\* ParseResiduals.
SetDC(a, g) == LET nz == IF g.n > 0 THEN 1 ELSE 0
               IN  [a EXCEPT !.br = g.br, !.dc = g.block, !.top_dc = nz, !.left_dc = nz]
AddBlock(a, b, first, g) ==
  LET nz == IF g.n > first THEN 1 ELSE 0
  IN  [a EXCEPT !.br = g.br, !.blocks = Append(@, g.block),
                !.top = [@ EXCEPT ![b.top] = nz], !.left = [@ EXCEPT ![b.left] = nz]]

ParseResiduals(r, coeffs, i16, top, left, top_dc, left_dc) ==
  LET none == [br |-> r, blocks |-> << >>, dc |-> EmptyBlock, top |-> top, left |-> left,
               top_dc |-> top_dc, left_dc |-> left_dc]
      dc == IF i16 THEN SetDC(none, GetCoeffs(r, coeffs, 1, 0, top_dc + left_dc, EmptyBlock))
            ELSE none
      OfBlock(a, b) ==
        AddBlock(a, b, FirstOf(b, i16),
                 GetCoeffs(a.br, coeffs, TypeOf(b, i16), FirstOf(b, i16),
                           a.top[b.top] + a.left[b.left], EmptyBlock))
  IN  FoldLeft(OfBlock, dc, Blocks)

\* What VP8DecodeMB does for a macroblock without coefficients.
SkipResiduals(r, i16, top_dc, left_dc) ==
  [br |-> r, blocks |-> [i \in 1 .. 24 |-> EmptyBlock], dc |-> EmptyBlock,
   top |-> NoContext, left |-> NoContext,
   top_dc  |-> IF i16 THEN 0 ELSE top_dc, left_dc |-> IF i16 THEN 0 ELSE left_dc]
=============================================================================
