----------------------------- MODULE PrefixCodes -----------------------------
(***************************************************************************)
(* The prefix codes of a lossless image, from the encoder to the pixels.    *)
(* The encoder stores a code, the decoder reads it token by token, builds   *)
(* the tables of a group of five codes and reads pixels with them in one of *)
(* three ways (src/dec/vp8l_dec.c).  Lengths may also come from elsewhere,  *)
(* and mean anything.                                                       *)
(*                                                                         *)
(* Of the codes that go through the stream one is followed, as GREEN, while *)
(* the others of its group are of one symbol.  What codes behind the        *)
(* literals stand for is left out.                                          *)
(***************************************************************************)
EXTENDS HuffmanCode, FiniteSetsExt

CONSTANTS
  Histograms,           \* that the encoder makes codes of
  Groups,               \* code lengths from elsewhere, and the sizes of tables
  TableSizes,           \* those of the library
  NUM_LITERAL_CODES     \* of GREEN; the codes behind them are no pixels

\* table: HUFFMAN_TABLE_BITS, packed: HUFFMAN_PACKED_BITS, window: bits looked at.
ASSUME GroupAssumption ==
  \A s \in {TableSizes} \cup { g.sizes : g \in Groups } :
    s.table \in Nat \ {0} /\ s.packed \in 1 .. s.table /\ s.window >= s.packed

Order    == << "GREEN", "RED", "BLUE", "ALPHA" >>
Channels == {"GREEN", "RED", "BLUE", "ALPHA", "DIST"}

VARIABLES
  stage,       \* "idle", "write", "header", "lengths", "tables", "codes", "error"
  histogram,
  tree,        \* code lengths of the encoder
  stream, pos, \* the bits written, and how many of them are read
  reader,      \* symbol, max_symbol, prev_code_len, and the table of the tokens
  code_lengths,   \* by channel
  sizes,
  htrees,         \* the tables, by channel
  group,          \* what else is kept of the group
  bits            \* the bits that come next

streamVars == <<histogram, tree, stream, pos, reader>>
groupVars  == <<sizes, htrees, group, bits>>
codesVars == <<stage, streamVars, code_lengths, groupVars>>

NoGroup == [is_trivial_literal |-> FALSE, is_trivial_code |-> FALSE,
            use_packed_table |-> FALSE, packed_table |-> << >>]
OneSymbol == (0 :> 1)
NoReader  == [symbol |-> 0, max_symbol |-> 0, prev_code_len |-> DEFAULT_CODE_LENGTH,
              table |-> << >>]

\* What is written behind the code; the reader looks at it in advance.
Beyond == [i \in 1 .. 16 |-> 1]

CodesInit ==
  /\ \/ \E g \in Groups :
          stage = "tables" /\ histogram = << >> /\ sizes = g.sizes /\ code_lengths = g.lengths
     \/ /\ stage = "write" /\ histogram \in Histograms /\ sizes = TableSizes
        /\ code_lengths = [c \in Channels |-> OneSymbol]
  /\ tree = << >> /\ stream = << >> /\ pos = 0 /\ reader = NoReader
  /\ htrees = [c \in Channels |-> [size |-> 0, memory |-> << >>]]
  /\ group = NoGroup /\ bits = 0

\* No lossless image is decoded.
CodesIdle ==
  /\ stage = "idle" /\ histogram = << >> /\ sizes = TableSizes
  /\ code_lengths = << >> /\ htrees = << >>
  /\ tree = << >> /\ stream = << >> /\ pos = 0 /\ reader = NoReader
  /\ group = NoGroup /\ bits = 0

-----------------------------------------------------------------------------
(* Through the stream.                                                      *)

Write ==
  /\ stage = "write" /\ stage' = "header"
  /\ tree' = VP8LCreateHuffmanTree(histogram, TreeDepthLimit)
  /\ stream' = StoreHuffmanCode(tree') \o Beyond
  /\ UNCHANGED <<histogram, pos, reader, code_lengths, groupVars>>

\* The number in n bits behind the first p.
ReadAt(p, n) ==
  FoldLeftDomain(LAMBDA v, j : v + stream[p + j] * 2^(j - 1), 0, [j \in 1 .. n |-> j])

num_symbols == Cardinality(DOMAIN histogram)
WithLengths(lengths) ==
  [code_lengths EXCEPT !["GREEN"] = lengths @@ [s \in DOMAIN histogram |-> 0]]

ReadSimpleCode ==
  /\ stage = "header" /\ stream[pos + 1] = 1
  /\ LET two    == ReadAt(pos + 1, 1) = 1
         nbits  == IF ReadAt(pos + 2, 1) = 0 THEN 1 ELSE 8
         first  == ReadAt(pos + 3, nbits)
         others == IF two THEN { ReadAt(pos + 3 + nbits, 8) } ELSE {}
     IN  /\ code_lengths' = WithLengths([s \in {first} \cup others |-> 1])
         /\ pos' = pos + 3 + nbits + 8 * Cardinality(others)
  /\ stage' = "tables"
  /\ UNCHANGED <<histogram, tree, stream, reader, groupVars>>

\* ReadHuffmanCode, and ReadHuffmanCodeLengths up to its loop.
ReadHeader ==
  /\ stage = "header" /\ stream[pos + 1] = 0
  /\ LET num_codes == ReadAt(pos + 1, 4) + 4
         Index(c) == CHOOSE i \in 1 .. CODE_LENGTH_CODES : StorageOrder[i] = c
         depths == [c \in 0 .. CODE_LENGTH_CODES - 1 |->
                      IF Index(c) > num_codes THEN 0 ELSE ReadAt(pos + 5 + 3 * (Index(c) - 1), 3)]
         table  == VP8LBuildHuffmanTable(depths, LENGTHS_TABLE_BITS)
         next   == pos + 5 + 3 * num_codes
         nbits  == 2 + 2 * ReadAt(next + 1, 3)
         use_length == ReadAt(next, 1) = 1
         max_symbol == IF use_length THEN 2 + ReadAt(next + 4, nbits) ELSE num_symbols
     IN  IF num_codes > CODE_LENGTH_CODES \/ table.size = 0 \/ max_symbol > num_symbols
         THEN stage' = "error" /\ UNCHANGED <<code_lengths, pos, reader>>
         ELSE /\ stage' = "lengths" /\ code_lengths' = WithLengths(<< >>)
              /\ pos' = IF use_length THEN next + 4 + nbits ELSE next + 1
              /\ reader' = [reader EXCEPT !.max_symbol = max_symbol, !.table = table.memory]
  /\ UNCHANGED <<histogram, tree, stream, groupVars>>

AllRead == reader.symbol = num_symbols \/ reader.max_symbol = 0

\* One pass of the loop of ReadHuffmanCodeLengths.
ReadToken ==
  /\ stage = "lengths" /\ ~ AllRead
  /\ LET token == reader.table[ReadAt(pos, LENGTHS_TABLE_BITS)]
         c     == token.value
         next  == pos + token.bits
         extra == ExtraBits(c)
         n     == IF c < RepeatCode THEN 1 ELSE ReadAt(next, extra) + RepeatOffset(c)
         length == IF c < RepeatCode THEN c
                   ELSE IF c = RepeatCode THEN reader.prev_code_len ELSE 0
     IN  IF reader.symbol + n > num_symbols
         THEN stage' = "error" /\ UNCHANGED <<pos, code_lengths, reader>>
         ELSE /\ code_lengths' = [code_lengths EXCEPT !["GREEN"] =
                   [s \in reader.symbol .. reader.symbol + n - 1 |-> length] @@ @]
              /\ pos' = next + extra
              /\ reader' = [reader EXCEPT !.max_symbol = @ - 1, !.symbol = @ + n,
                              !.prev_code_len = IF c < RepeatCode /\ c # 0 THEN c ELSE @]
              /\ stage' = stage
  /\ UNCHANGED <<histogram, tree, stream, groupVars>>

ReadLengthsEnd ==
  /\ stage = "lengths" /\ AllRead /\ stage' = "tables"
  /\ UNCHANGED <<streamVars, code_lengths, groupVars>>

-----------------------------------------------------------------------------
(* Tables and pixels.                                                       *)

Table(c) == VP8LBuildHuffmanTable(code_lengths[c], sizes.table)
Tables   == [GREEN |-> Table("GREEN"), RED |-> Table("RED"), BLUE |-> Table("BLUE"),
             ALPHA |-> Table("ALPHA"), DIST |-> Table("DIST")]
Root(c) == htrees[c].memory[0]

\* One channel after the other, each from the bits the one before has left.
Accumulate(tables, c, a) ==
  LET code == tables[c].memory[a.rest]
  IN  [rest |-> a.rest \div 2^code.bits, bits |-> a.bits + code.bits,
       value |-> Append(a.value, code.value)]

\* A code that is no literal keeps its own value.
PackedEntry(tables, code) ==
  LET green == tables["GREEN"].memory[code]
      all   == FoldLeft(LAMBDA a, c : Accumulate(tables, c, a),
                        [rest |-> code, bits |-> 0, value |-> << >>], Order)
  IN  IF green.value >= NUM_LITERAL_CODES
      THEN [literal |-> FALSE, bits |-> green.bits, value |-> << green.value >>]
      ELSE [literal |-> TRUE, bits |-> all.bits, value |-> all.value]

BuildPackedTable(tables) ==
  [code \in 0 .. 2^sizes.packed - 1 |-> PackedEntry(tables, code)]

MaxLength(c) == Largest({ code_lengths[c][s] : s \in DOMAIN code_lengths[c] })
\* Variant: the bits of one channel are not counted.
MaxBits_NoAlpha == MaxLength("GREEN") + MaxLength("RED") + MaxLength("BLUE")
MaxBits == MaxLength("GREEN") + MaxLength("RED") + MaxLength("BLUE") + MaxLength("ALPHA")

Group(tables) ==
  LET bits_of(c)         == tables[c].memory[0].bits
      is_trivial_literal == \A c \in {"RED", "BLUE", "ALPHA"} : bits_of(c) = 0
      is_trivial_code    == /\ \A c \in Channels : bits_of(c) = 0
                            /\ tables["GREEN"].memory[0].value < NUM_LITERAL_CODES
      use_packed_table   == ~ is_trivial_code /\ MaxBits < sizes.packed
  IN  [is_trivial_literal |-> is_trivial_literal, is_trivial_code |-> is_trivial_code,
       use_packed_table   |-> use_packed_table,
       packed_table       |-> IF use_packed_table THEN BuildPackedTable(tables) ELSE << >>]

-----------------------------------------------------------------------------
(* A pixel is the values of the channels, a code that is none is its own.   *)

Pixel(value, taken) == [value |-> value, taken |-> taken]

\* The channels one by one.
ReadChannels ==
  LET Next_(a, c) ==
        LET r == ReadSymbol(htrees[c].memory, sizes.table, bits \div 2^a.taken)
        IN  Pixel(Append(a.value, r.value), a.taken + r.taken)
  IN  FoldLeft(Next_, Pixel(<< >>, 0), Order)

ReadGreen == ReadSymbol(htrees["GREEN"].memory, sizes.table, bits)

LiteralArb == << Root("RED").value, Root("BLUE").value, Root("ALPHA").value >>

\* As DecodeImageData does it.
ReadPixel ==
  LET packed == group.packed_table[bits % 2^sizes.packed]
  IN  IF group.is_trivial_code THEN Pixel(<< Root("GREEN").value >> \o LiteralArb, 0)
      ELSE IF group.use_packed_table THEN Pixel(packed.value, packed.bits)
      ELSE IF ReadGreen.value >= NUM_LITERAL_CODES
      THEN Pixel(<< ReadGreen.value >>, ReadGreen.taken)
      ELSE IF group.is_trivial_literal
      THEN Pixel(<< ReadGreen.value >> \o LiteralArb, ReadGreen.taken)
      ELSE ReadChannels

-----------------------------------------------------------------------------
\* ReadHuffmanCodes, once the lengths are known.
ReadHuffmanCodes ==
  /\ stage = "tables"
  /\ \E tables \in {Tables} :
         IF \E c \in Channels : tables[c].size = 0
         THEN stage' = "error" /\ htrees' = tables /\ UNCHANGED group
         ELSE stage' = "codes" /\ htrees' = tables /\ group' = Group(tables)
  /\ UNCHANGED <<streamVars, code_lengths, sizes, bits>>

\* Other bits come.
More ==
  /\ stage = "codes" /\ bits = 0
  /\ bits' \in 1 .. 2^sizes.window - 1
  /\ UNCHANGED <<stage, streamVars, code_lengths, sizes, htrees, group>>

CodesEnded == stage = "error" \/ bits # 0

CodesNext ==
  \/ Write \/ ReadSimpleCode \/ ReadHeader \/ ReadToken \/ ReadLengthsEnd
  \/ ReadHuffmanCodes \/ More

-----------------------------------------------------------------------------
\* Every symbol that occurs gets a code, however its count was changed and however
\* the tree was flattened.  The decoder never refuses what the encoder has stored in
\* any of its forms, ends where the code ends, and has the same lengths.
CodeIsReadBack ==
  histogram # << >> =>
    /\ stage # "error"
    /\ stage = "codes" =>
         /\ \A s \in Used(histogram) : tree[s] # 0
         /\ pos = Len(stream) - Len(Beyond)
         /\ Used(tree) # {} => code_lengths["GREEN"] = tree

\* One code, or codes that use up all bits: the sum of 2^-len is 1.
IsCode(lengths) ==
  /\ \A s \in DOMAIN lengths : lengths[s] <= MAX_ALLOWED_CODE_LENGTH
  /\ \/ Cardinality(Used(lengths)) = 1
     \/ 2^MAX_ALLOWED_CODE_LENGTH =
          MapThenSumSet(LAMBDA s : 2^(MAX_ALLOWED_CODE_LENGTH - lengths[s]), Used(lengths))

\* Whatever follows the bits the encoder writes for a symbol, ReadSymbol gives the
\* symbol and takes these bits, none if it is alone.
SymbolsAreReadBack(c) ==
  LET written == ClearHuffmanTreeIfOnlyOneSymbol(code_lengths[c])
      codes   == ConvertBitDepthsToSymbols(written)
  IN  \A s \in Used(code_lengths[c]) :
        ReadSymbol(htrees[c].memory, sizes.table, codes[s] + bits * 2^written[s])
          = [value |-> s, taken |-> written[s]]

\* VP8LBuildHuffmanTable accepts complete codes and those of one symbol, no others;
\* its two passes agree: it fills all places of the size that the first pass found, and
\* none beyond; and the table gives each symbol for the bits that the encoder writes.
TablesAreRight ==
  stage = "codes" \/ (stage = "error" /\ histogram = << >>) =>
    \A c \in Channels :
      /\ htrees[c].size # 0 <=> IsCode(code_lengths[c])
      /\ htrees[c].size # 0 =>
           /\ DOMAIN htrees[c].memory = 0 .. htrees[c].size - 1
           /\ SymbolsAreReadBack(c)

\* Three ways to read a pixel, chosen by what the codes look like, are one: the
\* packed table and the constant channels give what the channels give one by one.
PixelsAreRead ==
  stage = "codes" =>
    IF ReadGreen.value >= NUM_LITERAL_CODES
    THEN ReadPixel = Pixel(<< ReadGreen.value >>, ReadGreen.taken)
    ELSE ReadPixel = ReadChannels
=============================================================================
