----------------------------- MODULE HuffmanCode -----------------------------
(***************************************************************************)
(* How the lossless encoder makes a prefix code of a histogram              *)
(* (src/utils/huffman_encode_utils.c) and stores its lengths, as a short    *)
(* code or as tokens with a prefix code of their own (src/enc/vp8l_enc.c).  *)
(*                                                                         *)
(* A histogram is a function on the symbols, the stream a sequence of bits. *)
(***************************************************************************)
EXTENDS HuffmanTable

CONSTANTS
  TreeDepthLimit,        \* of the symbols' code; that of the tokens is
  LENGTHS_TABLE_BITS     \* as large as its root table

ASSUME CodeAssumption ==
  /\ TreeDepthLimit \in 1 .. MAX_ALLOWED_CODE_LENGTH
  /\ LENGTHS_TABLE_BITS \in 1 .. 7

DEFAULT_CODE_LENGTH == 8
\* Tokens: the lengths 0 .. 15, and three repetitions.
RepeatCode == 16
ZeroCodes  == {0, 17, 18}
CODE_LENGTH_CODES == 19
StorageOrder == << 17, 18, 0, 1, 2, 3, 4, 5, 16, 6, 7, 8, 9, 10, 11, 12, 13, 14, 15 >>
ExtraBits(token)    == CASE token = 16 -> 2 [] token = 17 -> 3 [] token = 18 -> 7 [] OTHER -> 0
RepeatOffset(token) == IF token = 18 THEN 11 ELSE 3

\* Steps from a state to the next, one for each number of S, the smallest first.
Upwards(S, Step(_, _), state) ==
  MapThenFoldSet(LAMBDA i, s : Step(s, i), state, LAMBDA i : i, Largest, S)

-----------------------------------------------------------------------------
(* OptimizeHuffmanForRle: counts that differ by little are made equal.      *)

\* The counts without the zeroes at the end.
TrimmedLength(counts) == Largest({0} \cup { i + 1 : i \in Used(counts) })

\* i lies in a run of equal counts that is long enough for a repetition.
GoodForRle(counts, length, i) ==
  LET n == IF counts[i] = 0 THEN 5 ELSE 7
  IN  \E first \in i - n + 1 .. i :
        /\ first >= 0 /\ first + n <= length
        /\ \A j \in first .. first + n - 1 : counts[j] = counts[i]

Average(sum, n) == (sum + n \div 2) \div n
CollapseToStrideAverage(a, b) == a - b \in -3 .. 3

\* Variant: the average of small counts may be 0.
StrideCount_Plain(sum, stride) == Average(sum, stride)
\* A stride that is not all zeroes keeps a count.
StrideCount(sum, stride) ==
  IF sum = 0 THEN 0 ELSE IF Average(sum, stride) < 1 THEN 1 ELSE Average(sum, stride)

\* What a stride that begins at i is compared with.
FirstLimit(counts, length, i) ==
  IF i < length - 3 THEN Average(counts[i] + counts[i+1] + counts[i+2] + counts[i+3], 4)
  ELSE IF i < length THEN counts[i] ELSE 0

Collapse(counts, length, s, i) ==
  LET ends == \/ i = length \/ GoodForRle(counts, length, i)
              \/ i # 0 /\ GoodForRle(counts, length, i - 1)
              \/ ~ CollapseToStrideAverage(counts[i], s.limit)
      collapsed == ends /\ (s.stride >= 4 \/ (s.stride >= 3 /\ s.sum = 0))
      stride == (IF ends THEN 0 ELSE s.stride) + 1
      sum    == (IF ends THEN 0 ELSE s.sum) + IF i = length THEN 0 ELSE counts[i]
  IN  [stride |-> stride, sum |-> sum,
       limit  |-> IF i # length /\ stride >= 4 THEN Average(sum, stride)
                  ELSE IF ends THEN FirstLimit(counts, length, i) ELSE s.limit,
       counts |-> IF collapsed
                  THEN [j \in i - s.stride .. i - 1 |-> StrideCount(s.sum, s.stride)] @@ s.counts
                  ELSE s.counts]

\* Inside of a good run each step only begins a new stride: these are passed over.
OptimizeHuffmanForRle(counts) ==
  LET length == TrimmedLength(counts)
      good   == { i \in 0 .. length - 1 : GoodForRle(counts, length, i) }
      inside == { i \in good : i - 1 \in good }
  IN  IF length = 0 THEN counts
      ELSE Upwards((0 .. length) \ inside, LAMBDA s, i : Collapse(counts, length, s, i),
                   [stride |-> 0, sum |-> 0, limit |-> counts[0], counts |-> counts]).counts

-----------------------------------------------------------------------------
(* GenerateOptimalTree.  A tree is its count and the depths of its symbols. *)

Tree(count, depths) == [count |-> count, depths |-> depths]

\* The symbols, larger counts first, then lower numbers.
Leaves(counts, count_min) ==
  LET used == Used(counts)
      CountOf(s) == IF counts[s] < count_min THEN count_min ELSE counts[s]
      Before(s)  == { t \in used : CountOf(t) > CountOf(s) \/ (CountOf(t) = CountOf(s) /\ t < s) }
  IN  [i \in 1 .. Cardinality(used) |->
         LET s == CHOOSE x \in used : Cardinality(Before(x)) = i - 1
         IN  Tree(CountOf(s), s :> 0)]

InsertTree(trees, t) ==
  LET k == Least({ i \in 1 .. Len(trees) : trees[i].count <= t.count } \cup {Len(trees) + 1})
  IN  InsertAt(trees, k, t)

\* The two last trees become one.
JoinLast(trees) ==
  LET n == Len(trees)
      depths == trees[n].depths @@ trees[n-1].depths
  IN  InsertTree(SubSeq(trees, 1, n - 2),
                 Tree(trees[n].count + trees[n-1].count,
                      [s \in DOMAIN depths |-> depths[s] + 1]))

Depths(counts, count_min) ==
  LET leaves == Leaves(counts, count_min)
      root   == FoldLeftDomain(LAMBDA trees, i : IF Len(trees) > 1 THEN JoinLast(trees) ELSE trees,
                               leaves, leaves)[1]
  IN  IF leaves = << >> THEN << >>
      ELSE IF Len(leaves) = 1 THEN [s \in DOMAIN root.depths |-> 1] ELSE root.depths

TooDeep(depths, limit) == \E s \in DOMAIN depths : depths[s] > limit

\* Counts are raised until the tree is flat enough.
GenerateOptimalTree(counts, limit) ==
  LET try[count_min \in Nat] ==
        LET depths == Depths(counts, count_min)
        IN  IF TooDeep(depths, limit) THEN try[2 * count_min] ELSE depths
  IN  try[1] @@ [s \in DOMAIN counts |-> 0]

VP8LCreateHuffmanTree(counts, limit) ==
  GenerateOptimalTree(OptimizeHuffmanForRle(counts), limit)

-----------------------------------------------------------------------------
Token(code, extra_bits) == [code |-> code, extra_bits |-> extra_bits]
Times(n, token) == [i \in 1 .. n |-> token]

\* CodeRepeatedValues, with the first value if it is a new one.
CodeRepeatedValues(repetitions, value, prev_value) ==
  LET code[n \in Nat] ==
        IF n < 3 THEN Times(n, Token(value, 0))
        ELSE IF n < 7 THEN << Token(RepeatCode, n - 3) >>
        ELSE << Token(RepeatCode, 3) >> \o code[n - 6]
  IN  IF value = prev_value THEN code[repetitions]
      ELSE << Token(value, 0) >> \o code[repetitions - 1]

CodeRepeatedZeros(repetitions) ==
  LET code[n \in Nat] ==
        IF n < 3 THEN Times(n, Token(0, 0))
        ELSE IF n < 11 THEN << Token(17, n - 3) >>
        ELSE IF n < 139 THEN << Token(18, n - 11) >>
        ELSE << Token(18, 127) >> \o code[n - 138]
  IN  code[repetitions]

\* The runs of equal lengths, one after the other.
VP8LCreateCompressedHuffmanTree(code_lengths) ==
  LET n == Cardinality(DOMAIN code_lengths)
      Runs(i) == Least({ k \in i + 1 .. n : k = n \/ code_lengths[k] # code_lengths[i] }) - i
      starts  == { i \in 0 .. n - 1 : i = 0 \/ code_lengths[i-1] # code_lengths[i] }
      OfRun(a, i) ==
        LET value == code_lengths[i]
        IN  IF value = 0
            THEN [a EXCEPT !.tokens = @ \o CodeRepeatedZeros(Runs(i))]
            ELSE [tokens |-> a.tokens \o CodeRepeatedValues(Runs(i), value, a.prev),
                  prev |-> value]
  IN  Upwards(starts, OfRun, [tokens |-> << >>, prev |-> DEFAULT_CODE_LENGTH]).tokens

-----------------------------------------------------------------------------
(* StoreHuffmanCode.                                                        *)

BitsOf(value, n) == [j \in 1 .. n |-> BitOf(value, j - 1)]
BitsLog2Floor(n) == Largest({ j \in 0 .. MAX_ALLOWED_CODE_LENGTH : 2^j <= n })
Concat(n, Op(_)) == FoldLeftDomain(LAMBDA s, i : s \o Op(i), << >>, [i \in 1 .. n |-> i])

StoreHuffmanTreeOfHuffmanTree(bitdepth) ==
  LET stored == Largest({4} \cup { i \in 1 .. CODE_LENGTH_CODES : bitdepth[StorageOrder[i]] # 0 })
      Depth(i) == BitsOf(bitdepth[StorageOrder[i]], 3)
  IN  BitsOf(stored - 4, 4) \o Concat(stored, Depth)

\* Codes of one symbol take no bits.
ClearHuffmanTreeIfOnlyOneSymbol(bitdepth) ==
  IF Cardinality(Used(bitdepth)) > 1 THEN bitdepth ELSE [s \in DOMAIN bitdepth |-> 0]

\* The tokens without the zeroes at the end, if that saves enough.
StoredTokens(tokens, bitdepth) ==
  LET trimmed_length == Largest({0} \cup { i \in 1 .. Len(tokens) : tokens[i].code \notin ZeroCodes })
      trailing_zero_bits ==
        FoldLeft(LAMBDA n, t : n + bitdepth[t.code] + ExtraBits(t.code), 0,
                 SubSeq(tokens, trimmed_length + 1, Len(tokens)))
  IN  IF trimmed_length > 1 /\ trailing_zero_bits > 12 THEN trimmed_length ELSE Len(tokens)

TrimmedLengthBits(length) ==
  LET nbitpairs == IF length = 2 THEN 1 ELSE BitsLog2Floor(length - 2) \div 2 + 1
  IN  BitsOf(nbitpairs - 1, 3) \o BitsOf(length - 2, 2 * nbitpairs)

StoreFullHuffmanCode(code_lengths) ==
  LET tokens == VP8LCreateCompressedHuffmanTree(code_lengths)
      counts == [c \in 0 .. CODE_LENGTH_CODES - 1 |->
                   Cardinality({ i \in 1 .. Len(tokens) : tokens[i].code = c })]
      bitdepth == VP8LCreateHuffmanTree(counts, LENGTHS_TABLE_BITS)
      cleared  == ClearHuffmanTreeIfOnlyOneSymbol(bitdepth)
      codes    == ConvertBitDepthsToSymbols(cleared)
      length   == StoredTokens(tokens, cleared)
      TokenBits(i) == BitsOf(codes[tokens[i].code], cleared[tokens[i].code])
                        \o BitsOf(tokens[i].extra_bits, ExtraBits(tokens[i].code))
  IN  << 0 >> \o StoreHuffmanTreeOfHuffmanTree(bitdepth)
        \o (IF length = Len(tokens) THEN << 0 >> ELSE << 1 >> \o TrimmedLengthBits(length))
        \o Concat(length, TokenBits)

\* One or two symbols of 8 bits are stored as they are.
StoreHuffmanCode(code_lengths) ==
  LET used  == Used(code_lengths)
      first == Least(used)
  IN  IF used = {} THEN << 1, 0, 0, 0 >>
      ELSE IF Cardinality(used) > 2 \/ (\E s \in used : s >= 256)
      THEN StoreFullHuffmanCode(code_lengths)
      ELSE << 1, Cardinality(used) - 1 >>
             \o (IF first <= 1 THEN << 0, first >> ELSE << 1 >> \o BitsOf(first, 8))
             \o (IF Cardinality(used) = 2 THEN BitsOf(Largest(used), 8) ELSE << >>)
=============================================================================
