---------------------------- MODULE HuffmanTable ----------------------------
(***************************************************************************)
(* The lookup tables of prefix codes (src/utils/huffman_utils.c), how the   *)
(* lossless decoder reads symbols with them, and the bits that the encoder  *)
(* gives to the symbols (ConvertBitDepthsToSymbols of                       *)
(* src/utils/huffman_encode_utils.c).                                       *)
(*                                                                         *)
(* code_lengths is a function on the symbols, which are 0 .. n - 1.  Bits   *)
(* that are read are a number whose lowest bit comes first.  Left out: the  *)
(* memory of several tables in one segment, and its allocation.             *)
(***************************************************************************)
EXTENDS Integers, Sequences, FiniteSets, SequencesExt

CONSTANT MAX_ALLOWED_CODE_LENGTH

ASSUME LengthAssumption == MAX_ALLOWED_CODE_LENGTH \in Nat \ {0}

Lengths == 1 .. MAX_ALLOWED_CODE_LENGTH
BitOf(n, j) == (n \div 2^j) % 2
Least(S) == CHOOSE x \in S : \A y \in S : x <= y
Largest(S) == CHOOSE x \in S : \A y \in S : x >= y

Used(code_lengths) == { s \in DOMAIN code_lengths : code_lengths[s] # 0 }
NumOfLength(code_lengths, len) == Cardinality({ s \in DOMAIN code_lengths : code_lengths[s] = len })

-----------------------------------------------------------------------------
\* Variant: a key of ones only has a successor.
GetNextKey_Wraps(key, len) == (key + 2^(len - 1)) % 2^len

\* The next key whose bits are reversed; the last one stays.
GetNextKey(key, len) ==
  LET zeroes == { j \in 0 .. len - 1 : BitOf(key, j) = 0 }
  IN  IF zeroes = {} THEN key
      ELSE LET step == 2^Largest(zeroes) IN (key % step) + step

\* sorted: the symbols by length, then by number.
Sorted(code_lengths) ==
  LET used == Used(code_lengths)
      Before(s) == { t \in used : \/ code_lengths[t] < code_lengths[s]
                                  \/ code_lengths[t] = code_lengths[s] /\ t < s }
  IN  [i \in 1 .. Cardinality(used) |-> CHOOSE s \in used : Cardinality(Before(s)) = i - 1]

\* num_open after each length.
NumOpen(code_lengths) ==
  LET open[len \in 0 .. MAX_ALLOWED_CODE_LENGTH] ==
        IF len = 0 THEN 1 ELSE 2 * open[len - 1] - NumOfLength(code_lengths, len)
  IN  open

\* No length has more codes than there are branches, and all branches end: the tree
\* has one node less than twice its leaves.
IsTree(code_lengths) ==
  LET open == NumOpen(code_lengths)
      num_nodes == 1 + FoldLeftDomain(LAMBDA n, len : n + 2 * open[len - 1], 0,
                                      [len \in Lengths |-> len])
  IN  /\ \A len \in Lengths : open[len] >= 0
      /\ num_nodes = 2 * Cardinality(Used(code_lengths)) - 1

-----------------------------------------------------------------------------
\* NextTableBitSize, for the codes that are left from the i-th on.
NextTableBitSize(code_lengths, sorted, i, root_bits) ==
  LET len == code_lengths[sorted[i]]
      Codes(l) == Cardinality({ j \in i .. Len(sorted) : code_lengths[sorted[j]] = l })
      left[l \in len .. MAX_ALLOWED_CODE_LENGTH] ==
        (IF l = len THEN 2^(len - root_bits) ELSE 2 * left[l - 1]) - Codes(l)
  IN  Least({ l \in len .. MAX_ALLOWED_CODE_LENGTH :
                left[l] <= 0 \/ l = MAX_ALLOWED_CODE_LENGTH }) - root_bits

HuffmanCode(bits, value) == [bits |-> bits, value |-> value]

\* ReplicateValue, from a place of the table on.
ReplicateValue(memory, place, step, end, code) ==
  [ p \in { place + k * step : k \in 0 .. (end \div step) - 1 } |-> code ] @@ memory

\* A code in the root table, only if it is filled.
PlaceInRoot(t, len, symbol, root_bits) ==
  [t EXCEPT !.memory = ReplicateValue(@, t.key, 2^len, 2^root_bits, HuffmanCode(len, symbol)),
            !.key = GetNextKey(@, len)]

\* A 2nd level table for the low bits of the key, and its place in the root table.
NewTable(t, low, table_bits, root_bits) ==
  LET table == t.table + t.table_size
  IN  [t EXCEPT !.table = table, !.table_size = 2^table_bits,
                !.total_size = @ + 2^table_bits, !.low = low,
                !.memory = (low :> HuffmanCode(table_bits + root_bits, table - low)) @@ @]

PlaceIn2ndLevel(t, len, symbol, root_bits, table_bits) ==
  LET low == t.key % 2^root_bits
      t1  == IF low # t.low THEN NewTable(t, low, table_bits, root_bits) ELSE t
      code == HuffmanCode(len - root_bits, symbol)
  IN  [t1 EXCEPT !.memory = ReplicateValue(@, t1.table + t.key \div 2^root_bits,
                                           2^(len - root_bits), t1.table_size, code),
                 !.key = GetNextKey(@, len)]

\* The two passes of BuildHuffmanTable: the first one, which only finds the size,
\* does not count the codes of the root table, so that the second begins with
\* another key.
FillTable(code_lengths, root_bits, fill) ==
  LET sorted == Sorted(code_lengths)
      Place(t, i) ==
        LET len == code_lengths[sorted[i]]
        IN  IF len > root_bits
            THEN PlaceIn2ndLevel(t, len, sorted[i], root_bits,
                                 NextTableBitSize(code_lengths, sorted, i, root_bits))
            ELSE IF fill THEN PlaceInRoot(t, len, sorted[i], root_bits) ELSE t
  IN  FoldLeftDomain(Place, [memory |-> << >>, key |-> 0, low |-> -1, table |-> 0,
                             table_size |-> 2^root_bits, total_size |-> 2^root_bits], sorted)

\* VP8LBuildHuffmanTable: the size it returns, 0 for an error, and the table.
VP8LBuildHuffmanTable(code_lengths, root_bits) ==
  LET used == Used(code_lengths)
      refused == \/ used = {}
                 \/ \E s \in used : code_lengths[s] > MAX_ALLOWED_CODE_LENGTH
                 \/ \E len \in Lengths \ {MAX_ALLOWED_CODE_LENGTH} :
                      NumOfLength(code_lengths, len) > 2^len
  IN  IF refused \/ (Cardinality(used) > 1 /\ ~ IsTree(code_lengths))
      THEN [size |-> 0, memory |-> << >>]
      ELSE IF Cardinality(used) = 1
      THEN [size |-> 2^root_bits,
            memory |-> [p \in 0 .. 2^root_bits - 1 |-> HuffmanCode(0, CHOOSE s \in used : TRUE)]]
      ELSE [size |-> FillTable(code_lengths, root_bits, FALSE).total_size,
            memory |-> FillTable(code_lengths, root_bits, TRUE).memory]

-----------------------------------------------------------------------------
\* ReadSymbol: what it gives for the bits, and how many it takes.
ReadSymbol(memory, root_bits, bits) ==
  LET root  == bits % 2^root_bits
      nbits == memory[root].bits - root_bits
      entry == memory[root + memory[root].value + ((bits \div 2^root_bits) % 2^nbits)]
  IN  IF nbits > 0 THEN [value |-> entry.value, taken |-> root_bits + entry.bits]
      ELSE [value |-> memory[root].value, taken |-> memory[root].bits]

ReverseBits(num_bits, bits) ==
  FoldLeftDomain(LAMBDA r, j : r + BitOf(bits, num_bits - j) * 2^(j - 1), 0,
                 [j \in 1 .. num_bits |-> j])

\* next_code of ConvertBitDepthsToSymbols, before the first symbol.
NextCode(code_lengths) ==
  LET code[len \in 0 .. MAX_ALLOWED_CODE_LENGTH] ==
        IF len = 0 THEN 0
        ELSE 2 * (code[len - 1] + IF len = 1 THEN 0 ELSE NumOfLength(code_lengths, len - 1))
  IN  code

\* The codes that the encoder writes; a symbol without a length has none.
ConvertBitDepthsToSymbols(code_lengths) ==
  LET next == NextCode(code_lengths)
      Before(s) == Cardinality({ t \in DOMAIN code_lengths :
                                   t < s /\ code_lengths[t] = code_lengths[s] })
  IN  [s \in DOMAIN code_lengths |->
         IF code_lengths[s] = 0 THEN 0
         ELSE ReverseBits(code_lengths[s], next[code_lengths[s]] + Before(s))]
=============================================================================
