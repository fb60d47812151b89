---------------------------- MODULE MCPrefixCodes ----------------------------
EXTENDS PrefixCodes

FromZero(s) == [i \in 0 .. Len(s) - 1 |-> s[i + 1]]

\* Pieces of histograms: runs of zeroes for each of their tokens, runs of counts, and
\* counts that make a deep tree, and one that is too deep at first.
Const(n, count) == [i \in 1 .. n |-> count]
Fibonacci(n) ==
  LET f[i \in 1 .. n] == IF i < 3 THEN 10 ELSE f[i-1] + f[i-2]
  IN  [i \in 1 .. n |-> f[i]]

Short == { Const(2, 0), Const(12, 0), << 1 >>, << 70, 9 >>, Const(3, 8), Const(9, 2) }
Long  == { Const(4, 0), Const(140, 0), << 0, 0, 1, 0 >>, Fibonacci(9), Fibonacci(18) }
Pieces == Short \cup Long

MCHistograms ==
  { FromZero(s) : s \in
      Pieces \cup { a \o b : a \in Pieces, b \in Pieces }
        \cup { a \o b \o c : a \in Short, b \in Short, c \in Short }
        \cup { a \o Const(140, 0) \o c : a \in Short, c \in Short }
        \cup { Const(257 - 2, 0) \o s : s \in [1 .. 3 -> {0, 7}] } }

MCTableSizes == [table |-> 8, packed |-> 6, window |-> 6]

Given(of_tables, green, red, blue, alpha, dist) ==
  [sizes |-> of_tables,
   lengths |-> [c \in Channels |->
     FromZero(CASE c = "GREEN" -> green [] c = "RED" -> red
                [] c = "BLUE" -> blue [] c = "ALPHA" -> alpha [] OTHER -> dist)]]

\* Codes in all channels, among them such of one symbol of any length.
Small == { << 1, 0 >>, << 0, 3 >>, << 1, 1 >>, << 1, 2, 2 >> }

\* Any lengths of four symbols, and six that make a code or are close to one.
Part(s) == MapThenSumSet(LAMBDA i : IF s[i] = 0 THEN 0 ELSE 2^(5 - s[i]), DOMAIN s)
MCLengths ==
  [1 .. 4 -> 0 .. 5 \cup {16}] \cup { s \in [1 .. 6 -> 0 .. 5] : Part(s) \in 31 .. 33 }

MCGroups ==
  { Given([table |-> 6, packed |-> 6, window |-> 7], green, red, blue, alpha, << 1 >>) :
      green \in Small \cup { << 0, 0, 1 >>, << 2, 0, 1, 2 >>, << 7, 7, 6, 2, 3, 4, 5, 1 >> },
      red \in Small, blue \in Small, alpha \in Small }
  \cup
  { Given([table |-> 6, packed |-> 6, window |-> 7], green, red, << 1 >>, << 1 >>, << 1, 1 >>) :
      green \in Small, red \in Small }
  \cup
  { Given([table |-> 2, packed |-> 1, window |-> 1], green, <<1>>, <<1>>, <<1>>, <<1>>) :
      green \in MCLengths }
=============================================================================
