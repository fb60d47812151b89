------------------------ MODULE LosslessDecoderProofs ------------------------
(***************************************************************************)
(* For images of any size, with any crop window and in any pieces, and for  *)
(* alpha planes asked for in any portions: what a suspension takes back and *)
(* what it leaves fit together.                                             *)
(***************************************************************************)
EXTENDS LosslessDecoder, FiniteSetTheorems, SequenceTheorems, TLAPS

-----------------------------------------------------------------------------
(* Rows and positions.                                                      *)

LEMMA Configuration ==
  ASSUME cfg \in Configs
  PROVE  /\ W \in Nat \ {0} /\ cfg.height \in Nat \ {0}
         /\ cfg.top \in Nat /\ cfg.bottom \in Nat /\ cfg.top < cfg.bottom
         /\ cfg.bottom <= cfg.height
         /\ cfg.kind \in Kinds /\ cfg.inc \in BOOLEAN /\ (cfg.inc => Image)
         /\ cfg.filter \in Filters /\ cfg.levels \in BOOLEAN /\ (cfg.levels => ~ Image)
         /\ cfg.cache \in BOOLEAN /\ (cfg.cache => cfg.kind # "alpha8")
<1>1. IsConfig(cfg)
  BY LosslessAssumption
<1> QED
  BY <1>1 DEF IsConfig, W, Image

LEMMA RowOf ==
  ASSUME W \in Nat \ {0}, NEW p \in Nat
  PROVE  /\ Row(p) \in Nat /\ Row(p) * W <= p
         /\ \A t \in Nat : p < t * W <=> Row(p) < t
<1> DEFINE w == W
           r == p \div w
<1>1. w \in Nat \ {0}
  OBVIOUS
<1>2. Row(p) = r
  BY DEF Row
<1> HIDE DEF w
<1>3. r \in Nat /\ r * w <= p /\ p < (r + 1) * w
  BY <1>1
<1> HIDE DEF r
<1>4. ASSUME NEW t \in Nat PROVE p < t * w <=> r < t
  <2>1. ASSUME r < t PROVE p < t * w
    <3>1. (r + 1) * w <= t * w
      BY <1>1, <1>3, <2>1
    <3> QED
      BY <1>1, <1>3, <3>1
  <2>2. ASSUME t <= r PROVE t * w <= p
    <3>1. t * w <= r * w
      BY <1>1, <1>3, <2>2
    <3> QED
      BY <1>1, <1>3, <3>1
  <2> QED
    BY <1>1, <1>3, <2>1, <2>2
<1> QED
  BY <1>2, <1>3, <1>4 DEF w

LEMMA RowsInOrder ==
  ASSUME W \in Nat \ {0}, NEW p \in Nat, NEW q \in Nat, p <= q
  PROVE  Row(p) <= Row(q)
<1>1. Row(p) \in Nat /\ Row(q) \in Nat /\ Row(p) * W <= p
  BY RowOf
<1>2. ~ q < Row(p) * W
  BY <1>1
<1>3. ~ Row(q) < Row(p)
  BY <1>1, <1>2, RowOf
<1> QED
  BY <1>1, <1>3

LEMMA RowStart ==
  ASSUME W \in Nat \ {0}, NEW p \in Nat, NEW r \in Nat, r <= Row(p)
  PROVE  r * W <= p
<1>1. Row(p) \in Nat /\ ~ (Row(p) < r)
  BY RowOf
<1>2. ~ (p < r * W)
  BY <1>1, RowOf
<1>3. r * W \in Nat
  OBVIOUS
<1> QED
  BY <1>2, <1>3

-----------------------------------------------------------------------------
(* Batches.                                                                 *)

\* Row m ends the last batch that is complete at row r.
Ends(m, r) ==
  /\ m \in 0 .. r /\ m % NUM_ARGB_CACHE_ROWS = 0
  /\ \A q \in m + 1 .. r : q % NUM_ARGB_CACHE_ROWS # 0

LEMMA Multiples ==
  ASSUME NEW n \in Nat \ {0}, NEW a \in Nat, NEW b \in Nat,
         a % n = 0, b % n = 0, a < b
  PROVE  b - a >= n
<1>1. a = n * (a \div n) /\ b = n * (b \div n) /\ a \div n \in Nat /\ b \div n \in Nat
  OBVIOUS
<1> DEFINE i == a \div n
           k == b \div n
<1> HIDE DEF i, k
<1>2. a = n * i /\ b = n * k /\ i \in Nat /\ k \in Nat
  BY <1>1 DEF i, k
<1>3. i < k
  <2>1. SUFFICES ASSUME k <= i PROVE FALSE
    BY <1>2
  <2>2. n * k <= n * i
    BY <1>2, <2>1
  <2> QED
    BY <1>2, <2>2
<1>4. n * (i + 1) <= n * k
  BY <1>2, <1>3
<1>5. n * (i + 1) = n * i + n
  BY <1>2
<1> QED
  BY <1>2, <1>4, <1>5

LEMMA NextMultiple ==
  ASSUME NEW n \in Nat \ {0}, NEW a \in Nat, a % n = 0
  PROVE  (a + n) % n = 0
<1> DEFINE b == a + n
           i == a \div n
           k == b \div n
           r == b % n
<1>1. a = n * i /\ i \in Nat
  OBVIOUS
<1>2. b = n * k + r /\ k \in Nat /\ r \in 0 .. n - 1
  OBVIOUS
<1>3. b = n * (i + 1)
  <2>1. n * (i + 1) = n * i + n
    BY <1>1
  <2> QED
    BY <1>1, <2>1
<1> HIDE DEF b, i, k, r
<1>4. k = i + 1
  <2>1. ASSUME k < i + 1 PROVE FALSE
    <3>1. n * (k + 1) <= n * (i + 1)
      BY <1>1, <1>2, <2>1
    <3>2. n * (k + 1) = n * k + n
      BY <1>2
    <3> QED
      BY <1>1, <1>2, <1>3, <3>1, <3>2
  <2>2. ASSUME i + 1 < k PROVE FALSE
    <3>1. n * (i + 2) <= n * k
      BY <1>1, <1>2, <2>2
    <3>2. n * (i + 2) = n * (i + 1) + n
      BY <1>1
    <3> QED
      BY <1>1, <1>2, <1>3, <3>1, <3>2
  <2> QED
    BY <1>1, <1>2, <2>1, <2>2
<1>5. r = 0
  BY <1>1, <1>2, <1>3, <1>4
<1> QED
  BY <1>5 DEF r, b

LEMMA EndsNear ==
  ASSUME NEW m, NEW r \in Nat, Ends(m, r)
  PROVE  m \in Nat /\ m <= r /\ r - m < NUM_ARGB_CACHE_ROWS
<1> DEFINE N == NUM_ARGB_CACHE_ROWS
<1>1. N \in Nat \ {0} /\ m \in Nat /\ m <= r /\ m % N = 0
  BY LosslessAssumption DEF Ends
<1>2. (m + N) % N = 0
  BY <1>1, NextMultiple
<1>3. ~ (m + N \in m + 1 .. r)
  BY <1>2 DEF Ends
<1> HIDE DEF N
<1>4. r - m < N
  BY <1>1, <1>3
<1> QED
  BY <1>1, <1>4 DEF N

-----------------------------------------------------------------------------
(* The records of the model.                                                *)

Symbol == [kind : {"literal", "trivial", "cache", "copy"}, n : Nat \ {0}]
Decoder ==
  [src : Nat, lastRow : Nat, target : Nat, sync : Nat, cached : Nat, in : SUBSET Nat,
   saved : Nat, savedIn : SUBSET Nat, prev : Int, asked : Nat, want : Nat,
   decoded : BOOLEAN, batch : Nat, ahead : BOOLEAN, stale : BOOLEAN]
Output == [dec : Decoder, lines : Seq(Nat), right : SUBSET Nat]

\* What the processing of rows leaves alone.
Others(d, e) ==
  /\ e.src = d.src /\ e.target = d.target /\ e.sync = d.sync
  /\ e.cached = d.cached /\ e.in = d.in
  /\ e.saved = d.saved /\ e.savedIn = d.savedIn
  /\ e.asked = d.asked /\ e.want = d.want /\ e.decoded = d.decoded
  /\ e.stale = d.stale

LEMMA WindowType ==
  ASSUME cfg \in Configs, NEW a \in Nat, NEW b \in Nat
  PROVE  Window(a, b) \in Seq(Nat)
<1> DEFINE first == MaxOf(a, cfg.top)
           last == MinOf(b, cfg.bottom)
           n == MaxOf(last - first, 0)
<1>1. first \in Nat /\ n \in Nat
  BY Configuration DEF MaxOf, MinOf
<1>2. Window(a, b) = [i \in 1 .. n |-> first + i - 1]
  BY DEF Window
<1> HIDE DEF first, n
<1>3. \A i \in 1 .. n : first + i - 1 \in Nat
  BY <1>1
<1> QED
  BY <1>1, <1>2, <1>3

LEMMA RightType ==
  ASSUME NEW a \in Nat, NEW b \in Nat, NEW prev, NEW ok \in SUBSET Nat
  PROVE  RightAfter(a, b, prev, ok) \in SUBSET Nat
BY DEF RightAfter

\* What Process makes of the rows that are new.
Batch(x, y, row) ==
  LET d == x.dec
      e == y.dec
  IN  /\ e.lastRow = row
      /\ e.ahead = (d.ahead \/ row * W > d.src)
      /\ Image => /\ y.lines = x.lines \o Window(d.lastRow, row)
                  /\ e.batch = MaxOf(d.batch, row - d.lastRow)
                  /\ y.right = x.right
      /\ ~ Image =>
           LET first == IF cfg.kind = "alpha8" THEN FirstPaletted(d.lastRow) ELSE d.lastRow
           IN  /\ y.right = RightAfter(first, row, d.prev, x.right)
               /\ e.prev = IF first < row /\ cfg.filter # "none" THEN row - 1 ELSE d.prev
               /\ y.lines = x.lines

LEMMA ProcessNew ==
  ASSUME cfg \in Configs, NEW x \in Output, NEW row \in Nat, row > x.dec.lastRow
  PROVE  LET y == Process(x, row)
         IN  y \in Output /\ Others(x.dec, y.dec) /\ Batch(x, y, row)
<1> DEFINE d == x.dec
           y == Process(x, row)
           first == IF cfg.kind = "alpha8" THEN FirstPaletted(d.lastRow) ELSE d.lastRow
           win == Window(d.lastRow, row)
           rgt == RightAfter(first, row, d.prev, x.right)
           ahead == d.ahead \/ row * W > d.src
           batch == MaxOf(d.batch, row - d.lastRow)
           prev == IF first < row /\ cfg.filter # "none" THEN row - 1 ELSE d.prev
<1>1. d \in Decoder /\ x.lines \in Seq(Nat) /\ x.right \in SUBSET Nat
      /\ x = [dec |-> d, lines |-> x.lines, right |-> x.right]
  BY DEF Output
<1>2. d.lastRow \in Nat /\ d.prev \in Int /\ d.batch \in Nat /\ d.ahead \in BOOLEAN
  BY <1>1 DEF Decoder
<1>3. ~ (row - d.lastRow <= 0)
  BY <1>2
<1>4. CASE Image
  <2>1. win \in Seq(Nat) /\ x.lines \o win \in Seq(Nat)
    BY <1>1, <1>2, WindowType
  <2>2. ahead \in BOOLEAN /\ batch \in Nat
    BY <1>2 DEF MaxOf
  <2> DEFINE e == [d EXCEPT !.batch = batch, !.ahead = ahead, !.lastRow = row]
  <2>3. y = [dec |-> e, lines |-> x.lines \o win, right |-> x.right]
    BY <1>1, <1>3, <1>4 DEF Process, Decoder
  <2> HIDE DEF win, ahead, batch
  <2>4. e \in Decoder /\ Others(d, e)
        /\ e.lastRow = row /\ e.batch = batch /\ e.ahead = ahead
    BY <1>1, <2>2 DEF Decoder, Others
  <2> HIDE DEF e
  <2>5. y \in Output /\ Others(x.dec, y.dec)
    BY <1>1, <2>1, <2>3, <2>4 DEF Output
  <2>6. Batch(x, y, row)
    <3>1. y.dec = e /\ y.lines = x.lines \o win /\ y.right = x.right
      BY <2>3
    <3>2. win = Window(d.lastRow, row) /\ ahead = (d.ahead \/ row * W > d.src)
          /\ batch = MaxOf(d.batch, row - d.lastRow)
      BY DEF win, ahead, batch
    <3> HIDE DEF y
    <3> QED
      BY <1>4, <2>4, <3>1, <3>2 DEF Batch
  <2> QED
    BY <2>5, <2>6
<1>5. CASE ~ Image
  <2>1. first \in Nat
    BY <1>2, Configuration DEF FirstPaletted, MaxOf
  <2>2. rgt \in SUBSET Nat
    BY <1>1, <2>1, RightType
  <2>3. ahead \in BOOLEAN /\ prev \in Int
    BY <1>2
  <2> DEFINE e == [d EXCEPT !.prev = prev, !.ahead = ahead, !.lastRow = row]
  <2>4. y = [dec |-> e, lines |-> x.lines, right |-> rgt]
    BY <1>1, <1>3, <1>5 DEF Process, Decoder
  <2>5. first = IF cfg.kind = "alpha8" THEN FirstPaletted(d.lastRow) ELSE d.lastRow
    OBVIOUS
  <2>6. prev = IF first < row /\ cfg.filter # "none" THEN row - 1 ELSE d.prev
    OBVIOUS
  <2> HIDE DEF rgt, ahead, prev
  <2>7. e \in Decoder /\ Others(d, e)
        /\ e.lastRow = row /\ e.prev = prev /\ e.ahead = ahead
    BY <1>1, <2>3 DEF Decoder, Others
  <2> HIDE DEF e
  <2>8. y \in Output /\ Others(x.dec, y.dec)
    BY <1>1, <2>2, <2>4, <2>7 DEF Output
  <2>9. Batch(x, y, row)
    <3>1. y.dec = e /\ y.lines = x.lines /\ y.right = rgt
      BY <2>4
    <3>2. rgt = RightAfter(first, row, d.prev, x.right)
          /\ ahead = (d.ahead \/ row * W > d.src)
      BY DEF rgt, ahead
    <3> HIDE DEF y
    <3> QED
      BY <1>5, <2>5, <2>6, <2>7, <3>1, <3>2 DEF Batch
  <2> QED
    BY <2>8, <2>9
<1> QED
  BY <1>4, <1>5

\* A row that has been reached before.
LEMMA ProcessAgain ==
  ASSUME NEW x \in Output, NEW row \in Nat, row = x.dec.lastRow
  PROVE  Process(x, row) = x
<1>1. x.dec \in Decoder /\ x = [dec |-> x.dec, lines |-> x.lines, right |-> x.right]
  BY DEF Output
<1>2. [x.dec EXCEPT !.lastRow = row] = x.dec
  BY <1>1 DEF Decoder
<1>3. Process(x, row) = [x EXCEPT !.dec.lastRow = row]
  BY DEF Process
<1> QED
  BY <1>1, <1>2, <1>3

-----------------------------------------------------------------------------
(* Induction on natural numbers, by the pigeonhole principle.                *)

LEMMA Induction ==
  ASSUME NEW S, 0 \in S, \A n \in Nat : n \in S => n + 1 \in S
  PROVE  Nat \subseteq S
<1> SUFFICES ASSUME NEW x \in Nat, x \notin S PROVE FALSE
  OBVIOUS
<1> DEFINE A == S \cap 0 .. x
           B == A \ {0}
           next == [n \in A |-> n + 1]
<1>1. IsFiniteSet(A)
  <2>1. IsFiniteSet(0 .. x)
    BY FS_Interval
  <2> QED
    BY <2>1, FS_Subset
<1>2. IsFiniteSet(B) /\ Cardinality(B) = Cardinality(A) - 1 /\ Cardinality(A) \in Nat
  <2>1. 0 \in A
    OBVIOUS
  <2> HIDE DEF A
  <2> QED
    BY <1>1, <2>1, FS_RemoveElement, FS_CardinalityType
<1>3. next \in [A -> B]
  <2> SUFFICES ASSUME NEW n \in A PROVE n + 1 \in B
    OBVIOUS
  <2> QED
    OBVIOUS
<1>4. ~ (\E a, b \in A : a # b /\ next[a] = next[b])
  OBVIOUS
<1> HIDE DEF A, B, next
<1> QED
  BY <1>1, <1>2, <1>3, <1>4, FS_PigeonHole

-----------------------------------------------------------------------------
(* The loop over the rows that begin.                                       *)

\* at[r]: what there is when row r has begun.
Begun(at, x, from, to) ==
  /\ at[Row(from)] = x
  /\ \A r \in Row(from) + 1 .. Row(to) : at[r] = RowBegins(at[r - 1], r)

\* The recursive function of RowsBegin, and that it exists.
Looping(x, a, b, at) ==
  [row \in a .. b |-> IF row = a THEN x ELSE RowBegins(at[row - 1], row)]

LEMMA LoopExists ==
  ASSUME NEW x, NEW a \in Nat, NEW b \in Nat, a <= b
  PROVE  \E at : at = Looping(x, a, b, at)
<1> USE DEF Looping
<1> DEFINE L(at, c) == at = Looping(x, a, c, at)
           S == { k \in Nat : \E at : L(at, a + k) }
<1>1. 0 \in S
  <2> DEFINE at == [row \in a .. a |-> x]
  <2>1. L(at, a)
    OBVIOUS
  <2> HIDE DEF at
  <2>2. \E f : L(f, a)
    BY <2>1
  <2> QED
    BY <2>2
<1>2. ASSUME NEW k \in Nat, k \in S PROVE k + 1 \in S
  <2>1. PICK at : L(at, a + k)
    BY <1>2
  <2> DEFINE more == [row \in a .. a + (k + 1) |-> IF row = a + (k + 1)
                                                 THEN RowBegins(at[row - 1], row) ELSE at[row]]
  <2>2. ASSUME NEW row \in a .. a + (k + 1)
        PROVE  more[row] = IF row = a THEN x ELSE RowBegins(more[row - 1], row)
    <3>1. CASE row = a + (k + 1)
      <4>1. row - 1 \in a .. a + k /\ row # a
        BY <3>1
      <4>2. more[row - 1] = at[row - 1]
        BY <4>1
      <4>3. more[row] = RowBegins(at[row - 1], row)
        BY <3>1
      <4> QED
        BY <4>1, <4>2, <4>3
    <3>2. CASE row # a + (k + 1)
      <4>1. row \in a .. a + k
        BY <3>2
      <4>2. more[row] = at[row]
        BY <3>2
      <4>3. at[row] = IF row = a THEN x ELSE RowBegins(at[row - 1], row)
        BY <2>1, <4>1
      <4>4. ASSUME row # a PROVE more[row - 1] = at[row - 1]
        BY <4>1, <4>4
      <4> QED
        BY <4>2, <4>3, <4>4
    <3> QED
      BY <3>1, <3>2
  <2>3. more = [row \in a .. a + (k + 1) |-> more[row]]
    OBVIOUS
  <2> HIDE DEF more
  <2>4. L(more, a + (k + 1))
    BY <2>2, <2>3
  <2> HIDE DEF L
  <2>5. \E f : L(f, a + (k + 1))
    BY <2>4
  <2> QED
    BY <2>5
<1> HIDE DEF S, L, Looping
<1>3. Nat \subseteq S
  BY <1>1, <1>2, Induction
<1>4. b - a \in Nat /\ a + (b - a) = b
  OBVIOUS
<1>5. b - a \in S
  BY <1>3, <1>4
<1>6. \E at : L(at, a + (b - a))
  BY <1>5 DEF S
<1>7. \E at : L(at, b)
  BY <1>4, <1>6
<1> QED
  BY <1>7 DEF L

LEMMA LoopInSteps ==
  ASSUME W \in Nat \ {0}, NEW x, NEW from \in Nat, NEW to \in Nat, from <= to
  PROVE  \E at : Begun(at, x, from, to) /\ RowsBegin(x, from, to) = at[Row(to)]
<1> DEFINE L(at) == at = Looping(x, Row(from), Row(to), at)
           at == CHOOSE at : L(at)
<1>1. Row(from) \in Nat /\ Row(to) \in Nat /\ Row(from) <= Row(to)
  BY RowOf, RowsInOrder
<1>2. \E f : L(f)
  BY <1>1, LoopExists
<1>3. L(at)
  BY <1>2
<1>4. RowsBegin(x, from, to) = at[Row(to)]
  BY DEF RowsBegin, Looping
<1> HIDE DEF at
<1>5. Begun(at, x, from, to)
  BY <1>1, <1>3 DEF Begun, Looping
<1> QED
  BY <1>4, <1>5

-----------------------------------------------------------------------------
(* Images: what a batch adds.                                               *)

\* The rows above m that are in the crop window, each in its line.
Lined(ls, m) ==
  /\ Len(ls) = MaxOf(m - cfg.top, 0)
  /\ \A i \in 1 .. Len(ls) : ls[i] = cfg.top + i - 1

LEMMA MoreLines ==
  ASSUME cfg \in Configs, NEW m \in Nat, NEW r \in Nat, m <= r, r <= cfg.bottom,
         NEW ls \in Seq(Nat), Lined(ls, m)
  PROVE  Lined(ls \o Window(m, r), r)
<1> DEFINE top == cfg.top
           first == MaxOf(m, top)
           n == MaxOf(r - first, 0)
           win == Window(m, r)
<1>1. top \in Nat /\ first \in Nat /\ n \in Nat
  BY Configuration DEF MaxOf
<1>2. win = [i \in 1 .. n |-> first + i - 1]
  BY Configuration DEF Window, MinOf
<1>3. win \in Seq(Nat) /\ Len(win) = n
  <2>1. win \in Seq(Nat)
    BY WindowType
  <2>2. DOMAIN win = 1 .. n
    BY <1>2
  <2> HIDE DEF win, n
  <2> QED
    BY <1>1, <2>1, <2>2
<1>4. \A i \in 1 .. n : win[i] = first + i - 1
  BY <1>2
<1>5. /\ m >= top => first = m /\ n = r - m /\ Len(ls) = m - top /\ MaxOf(r - top, 0) = r - top
      /\ m < top => first = top /\ n = MaxOf(r - top, 0) /\ Len(ls) = 0
  BY <1>1 DEF Lined, MaxOf
<1>6. \A i \in 1 .. Len(ls) : ls[i] = top + i - 1
  BY DEF Lined
<1> DEFINE more == ls \o win
<1> HIDE DEF win, first, n
<1>7. Len(more) = Len(ls) + n
      /\ \A i \in 1 .. Len(ls) + n : more[i] = IF i <= Len(ls) THEN ls[i] ELSE win[i - Len(ls)]
  BY <1>3, ConcatProperties DEF more
<1>8. MaxOf(r - top, 0) \in Nat
  BY <1>1 DEF MaxOf
<1> HIDE DEF more, top
<1>9. Len(more) = MaxOf(r - top, 0)
  <2>1. CASE m >= top
    BY <1>1, <1>5, <1>7, <2>1
  <2>2. CASE m < top
    BY <1>1, <1>5, <1>7, <1>8, <2>2
  <2> QED
    BY <1>1, <2>1, <2>2
<1>10. ASSUME NEW i \in 1 .. Len(ls) + n PROVE more[i] = top + i - 1
  <2>1. CASE i <= Len(ls)
    BY <1>6, <1>7, <2>1
  <2>2. CASE i > Len(ls)
    <3>1. i - Len(ls) \in 1 .. n
      BY <1>1, <2>2
    <3>2. more[i] = first + (i - Len(ls)) - 1
      BY <1>4, <1>7, <2>2, <3>1
    <3>3. CASE m >= top
      <4>1. first = m /\ Len(ls) = m - top
        BY <1>5, <3>3
      <4> QED
        BY <1>1, <3>2, <4>1
    <3>4. CASE m < top
      <4>1. first = top /\ Len(ls) = 0
        BY <1>5, <3>4
      <4> QED
        BY <1>1, <3>2, <4>1
    <3> QED
      BY <1>1, <3>3, <3>4
  <2>3. i \in Int /\ Len(ls) \in Nat
    BY <1>1
  <2> QED
    BY <2>1, <2>2, <2>3
<1>11. \A i \in 1 .. Len(more) : more[i] = top + i - 1
  BY <1>7, <1>10
<1> QED
  BY <1>9, <1>11 DEF Lined, top, more, win

\* The output of the loop over rows may differ from what it got in the batches only.
Kept(x, y) == y \in Output /\ Others(x.dec, y.dec) /\ y.dec.ahead = x.dec.ahead

LEMMA KeptOn ==
  ASSUME NEW x, NEW y, NEW z, Kept(x, y), Kept(y, z)
  PROVE  Kept(x, z)
BY DEF Kept, Others

LEMMA KeptSelf ==
  ASSUME NEW x \in Output
  PROVE  Kept(x, x)
BY DEF Kept, Others

Full(r) == MinOf(r, cfg.bottom)

\* All batches up to row r are processed, and nothing else.
Batched(x, r) ==
  /\ Ends(x.dec.lastRow, Full(r))
  /\ Lined(x.lines, x.dec.lastRow)
  /\ x.dec.batch <= NUM_ARGB_CACHE_ROWS

LEMMA ProcessImage ==
  ASSUME cfg \in Configs, Image, NEW x \in Output, NEW m \in Nat, NEW row \in Nat,
         m <= row, row <= cfg.bottom, row * W <= x.dec.src,
         Ends(x.dec.lastRow, m), row <= m + 1,
         Lined(x.lines, x.dec.lastRow), x.dec.batch <= NUM_ARGB_CACHE_ROWS
  PROVE  LET y == Process(x, row)
         IN  /\ Kept(x, y) /\ y.dec.lastRow = row /\ Lined(y.lines, row)
             /\ y.dec.batch <= NUM_ARGB_CACHE_ROWS
<1> DEFINE y == Process(x, row)
<1>1. x.dec \in Decoder /\ x.lines \in Seq(Nat)
  BY DEF Output
<1>2. x.dec.lastRow \in Nat /\ x.dec.batch \in Nat /\ x.dec.ahead \in BOOLEAN /\ x.dec.src \in Nat
  BY <1>1 DEF Decoder
<1>3. x.dec.lastRow <= m /\ m - x.dec.lastRow < NUM_ARGB_CACHE_ROWS
  BY EndsNear
<1>4. CASE row = x.dec.lastRow
  <2>1. y = x
    BY <1>4, ProcessAgain
  <2> HIDE DEF y
  <2>2. Kept(x, y)
    BY <2>1, KeptSelf
  <2> QED
    BY <1>4, <2>1, <2>2 DEF y
<1>5. CASE row # x.dec.lastRow
  <2>1. row > x.dec.lastRow
    BY <1>2, <1>3, <1>5
  <2>2. y \in Output /\ Others(x.dec, y.dec) /\ Batch(x, y, row)
    BY <2>1, ProcessNew
  <2> HIDE DEF y
  <2>3. /\ y.dec.lastRow = row /\ y.dec.ahead = (x.dec.ahead \/ row * W > x.dec.src)
        /\ y.lines = x.lines \o Window(x.dec.lastRow, row)
        /\ y.dec.batch = MaxOf(x.dec.batch, row - x.dec.lastRow)
    BY <2>2 DEF Batch
  <2>4. ~ (row * W > x.dec.src)
    <3>1. row * W \in Nat
      BY Configuration
    <3> QED
      BY <1>2, <3>1
  <2>5. y.dec.ahead = x.dec.ahead
    BY <1>2, <2>3, <2>4
  <2>6. y.dec.batch <= NUM_ARGB_CACHE_ROWS
    <3>1. NUM_ARGB_CACHE_ROWS \in Nat
      BY LosslessAssumption
    <3>2. row - x.dec.lastRow <= NUM_ARGB_CACHE_ROWS
      BY <1>2, <1>3, <3>1
    <3> QED
      BY <2>3, <3>2 DEF MaxOf
  <2>7. Lined(y.lines, row)
    BY <1>1, <1>2, <2>1, <2>3, MoreLines
  <2>8. Kept(x, y)
    BY <2>2, <2>5 DEF Kept
  <2> QED
    BY <2>3, <2>6, <2>7, <2>8 DEF y
<1> QED
  BY <1>4, <1>5

LEMMA RowBeginsImage ==
  ASSUME cfg \in Configs, Image, NEW x \in Output, NEW r \in Nat \ {0},
         x.dec.target = cfg.bottom, r * W <= x.dec.src, Batched(x, r - 1)
  PROVE  Kept(x, RowBegins(x, r)) /\ Batched(RowBegins(x, r), r)
<1> DEFINE N == NUM_ARGB_CACHE_ROWS
           y == RowBegins(x, r)
           m == x.dec.lastRow
<1>1. N \in Nat \ {0} /\ cfg.bottom \in Nat /\ r - 1 \in Nat
  BY LosslessAssumption, Configuration
<1>2. Ends(m, Full(r - 1)) /\ Lined(x.lines, m) /\ x.dec.batch <= N
  BY DEF Batched
<1>3. Full(r - 1) \in Nat /\ Full(r) \in Nat
      /\ (r <= cfg.bottom => Full(r - 1) = r - 1 /\ Full(r) = r)
      /\ (r > cfg.bottom => Full(r - 1) = Full(r))
  BY <1>1 DEF Full, MinOf
<1>4. CASE r <= cfg.bottom /\ r % N = 0
  <2>1. y = Process(x, r)
    BY <1>4 DEF RowBegins
  <2>2. Ends(m, r - 1)
    BY <1>2, <1>3, <1>4
  <2>3. /\ Kept(x, y) /\ y.dec.lastRow = r /\ Lined(y.lines, r) /\ y.dec.batch <= N
    BY <1>1, <1>2, <1>4, <2>1, <2>2, ProcessImage
  <2>4. Ends(r, r)
    BY <1>4 DEF Ends
  <2> HIDE DEF y
  <2> QED
    BY <1>3, <1>4, <2>3, <2>4 DEF Batched, y
<1>5. CASE ~ (r <= cfg.bottom /\ r % N = 0)
  <2>1. y = x
    BY <1>5 DEF RowBegins
  <2>2. Ends(m, Full(r))
    <3>1. CASE r > cfg.bottom
      BY <1>2, <1>3, <3>1
    <3>2. CASE r <= cfg.bottom
      <4>1. Ends(m, r - 1) /\ r % N # 0
        BY <1>2, <1>3, <1>5, <3>2
      <4>2. m \in 0 .. r /\ \A q \in m + 1 .. r : q = r \/ q \in m + 1 .. r - 1
        BY <4>1 DEF Ends
      <4>3. Ends(m, r)
        BY <4>1, <4>2 DEF Ends
      <4> QED
        BY <1>3, <3>2, <4>3
    <3> QED
      BY <1>1, <3>1, <3>2
  <2> HIDE DEF y
  <2>3. Batched(y, r)
    BY <1>2, <2>1, <2>2 DEF Batched
  <2>4. Kept(x, y)
    BY <2>1, KeptSelf
  <2> QED
    BY <2>3, <2>4 DEF y
<1> QED
  BY <1>4, <1>5

\* The rows that begin between two positions, when they are new.
LEMMA RowsBeginImage ==
  ASSUME cfg \in Configs, Image, NEW x \in Output, NEW from \in Nat, NEW to \in Nat,
         from <= to, x.dec.src = to, x.dec.target = cfg.bottom, Batched(x, Row(from))
  PROVE  Kept(x, RowsBegin(x, from, to)) /\ Batched(RowsBegin(x, from, to), Row(to))
<1>1. W \in Nat \ {0}
  BY Configuration
<1> DEFINE a == Row(from)
           b == Row(to)
<1>2. a \in Nat /\ b \in Nat /\ a <= b
  BY <1>1, RowOf, RowsInOrder
<1>3. PICK at : Begun(at, x, from, to) /\ RowsBegin(x, from, to) = at[b]
  BY <1>1, LoopInSteps
<1>4. at[a] = x /\ \A r \in a + 1 .. b : at[r] = RowBegins(at[r - 1], r)
  BY <1>3 DEF Begun
<1>5. \A r \in Nat : r <= b => r * W <= to
  BY <1>1, RowStart
<1> HIDE DEF a, b
<1> DEFINE S == { k \in Nat : k <= b - a => Kept(x, at[a + k]) /\ Batched(at[a + k], a + k) }
<1>6. 0 \in S
  <2>1. a + 0 = a /\ Batched(x, a)
    BY <1>2 DEF a
  <2> QED
    BY <1>4, <2>1, KeptSelf
<1>7. ASSUME NEW k \in Nat, k \in S PROVE k + 1 \in S
  <2> SUFFICES ASSUME k + 1 <= b - a
               PROVE  Kept(x, at[a + (k + 1)]) /\ Batched(at[a + (k + 1)], a + (k + 1))
    OBVIOUS
  <2> DEFINE r == a + (k + 1)
             y == at[a + k]
  <2>1. r \in a + 1 .. b /\ r - 1 = a + k /\ r \in Nat \ {0} /\ k <= b - a
    BY <1>2
  <2>2. Kept(x, y) /\ Batched(y, r - 1)
    BY <1>7, <2>1
  <2>3. at[r] = RowBegins(y, r)
    BY <1>4, <2>1
  <2>4. r * W <= to
    BY <1>5, <2>1
  <2> HIDE DEF r, y
  <2>5. y \in Output /\ y.dec.src = to /\ y.dec.target = cfg.bottom
    BY <2>2 DEF Kept, Others
  <2>6. Kept(y, at[r]) /\ Batched(at[r], r)
    BY <2>1, <2>2, <2>3, <2>4, <2>5, RowBeginsImage
  <2>7. Kept(x, at[r])
    BY <2>2, <2>6, KeptOn
  <2> QED
    BY <2>6, <2>7 DEF r
<1>8. b - a \in S
  <2> HIDE DEF S
  <2>1. Nat \subseteq S
    BY <1>6, <1>7, Induction
  <2> QED
    BY <1>2, <2>1
<1>9. a + (b - a) = b /\ b - a <= b - a
  BY <1>2
<1> QED
  BY <1>3, <1>8, <1>9 DEF b

\* The same when they have been reached before.
LEMMA RowsBeginAgain ==
  ASSUME cfg \in Configs, NEW x \in Output, NEW from \in Nat, NEW to \in Nat, from <= to,
         \A q \in Row(from) + 1 .. Row(to) :
           q <= x.dec.target /\ q % NUM_ARGB_CACHE_ROWS = 0 => q = x.dec.lastRow
  PROVE  RowsBegin(x, from, to) = x
<1>1. W \in Nat \ {0}
  BY Configuration
<1> DEFINE a == Row(from)
           b == Row(to)
<1>2. a \in Nat /\ b \in Nat /\ a <= b
  BY <1>1, RowOf, RowsInOrder
<1>3. PICK at : Begun(at, x, from, to) /\ RowsBegin(x, from, to) = at[b]
  BY <1>1, LoopInSteps
<1>4. at[a] = x /\ \A r \in a + 1 .. b : at[r] = RowBegins(at[r - 1], r)
  BY <1>3 DEF Begun
<1>5. \A q \in a + 1 .. b : q <= x.dec.target /\ q % NUM_ARGB_CACHE_ROWS = 0 => q = x.dec.lastRow
  OBVIOUS
<1> HIDE DEF a, b
<1> DEFINE S == { k \in Nat : k <= b - a => at[a + k] = x }
<1>6. 0 \in S
  <2>1. a + 0 = a
    BY <1>2
  <2> QED
    BY <1>4, <2>1
<1>7. ASSUME NEW k \in Nat, k \in S PROVE k + 1 \in S
  <2> SUFFICES ASSUME k + 1 <= b - a PROVE at[a + (k + 1)] = x
    OBVIOUS
  <2> DEFINE r == a + (k + 1)
  <2>1. r \in a + 1 .. b /\ r - 1 = a + k /\ r \in Nat /\ k <= b - a
    BY <1>2
  <2>2. at[r - 1] = x
    BY <1>7, <2>1
  <2>3. at[r] = RowBegins(x, r)
    BY <1>4, <2>1, <2>2
  <2> HIDE DEF r
  <2>4. CASE r <= x.dec.target /\ r % NUM_ARGB_CACHE_ROWS = 0
    <3>1. r = x.dec.lastRow
      BY <1>5, <2>1, <2>4
    <3>2. Process(x, r) = x
      BY <2>1, <3>1, ProcessAgain
    <3> QED
      BY <2>3, <2>4, <3>2 DEF RowBegins, r
  <2>5. CASE ~ (r <= x.dec.target /\ r % NUM_ARGB_CACHE_ROWS = 0)
    BY <2>3, <2>5 DEF RowBegins, r
  <2> QED
    BY <2>4, <2>5
<1>8. b - a \in S
  <2> HIDE DEF S
  <2>1. Nat \subseteq S
    BY <1>6, <1>7, Induction
  <2> QED
    BY <1>2, <2>1
<1>9. a + (b - a) = b /\ b - a <= b - a
  BY <1>2
<1> QED
  BY <1>3, <1>8, <1>9

-----------------------------------------------------------------------------
(* Alpha planes: what a batch unfilters.                                    *)

\* The case in which prev_line_ is not the row above: see AlphaRowsAreRight.
CroppedPalette == cfg.kind = "alpha8" /\ cfg.filter = "horizontal" /\ cfg.top > 0

\* Rows above m are right as far as they are needed for themselves or for others.
Clean(ok, prev, m) ==
  IF cfg.filter = "none" THEN cfg.top .. m - 1 \subseteq ok
  ELSE prev = m - 1 /\ 0 .. m - 1 \subseteq ok

LEMMA ProcessAlpha ==
  ASSUME cfg \in Configs, ~ Image, NEW x \in Output, NEW row \in Nat,
         x.dec.lastRow <= row, row * W <= x.dec.src
  PROVE  LET y == Process(x, row)
         IN  /\ Kept(x, y) /\ y.dec.lastRow = row /\ y.lines = x.lines
             /\ ~ CroppedPalette /\ Clean(x.right, x.dec.prev, x.dec.lastRow)
                  => Clean(y.right, y.dec.prev, row)
<1> DEFINE y == Process(x, row)
           m == x.dec.lastRow
           first == IF cfg.kind = "alpha8" THEN FirstPaletted(m) ELSE m
<1>1. x.dec \in Decoder /\ x.right \in SUBSET Nat
  BY DEF Output
<1>2. m \in Nat /\ x.dec.prev \in Int /\ x.dec.ahead \in BOOLEAN /\ x.dec.src \in Nat
  BY <1>1 DEF Decoder
<1>3. CASE row = m
  <2>1. y = x
    BY <1>3, ProcessAgain
  <2> HIDE DEF y
  <2>2. Kept(x, y)
    BY <2>1, KeptSelf
  <2> QED
    BY <1>3, <2>1, <2>2 DEF y
<1>4. CASE row # m
  <2>1. row > m
    BY <1>2, <1>4
  <2>2. y \in Output /\ Others(x.dec, y.dec) /\ Batch(x, y, row)
    BY <2>1, ProcessNew
  <2> HIDE DEF y
  <2>3. /\ y.dec.lastRow = row /\ y.dec.ahead = (x.dec.ahead \/ row * W > x.dec.src)
        /\ y.right = RightAfter(first, row, x.dec.prev, x.right)
        /\ y.dec.prev = IF first < row /\ cfg.filter # "none" THEN row - 1 ELSE x.dec.prev
        /\ y.lines = x.lines
    BY <2>2 DEF Batch
  <2>4. ~ (row * W > x.dec.src)
    <3>1. row * W \in Nat
      BY Configuration
    <3> QED
      BY <1>2, <3>1
  <2>5. y.dec.ahead = x.dec.ahead
    BY <1>2, <2>3, <2>4
  <2>6. Kept(x, y)
    BY <2>2, <2>5 DEF Kept
  <2>7. ASSUME ~ CroppedPalette, Clean(x.right, x.dec.prev, m)
        PROVE  Clean(y.right, y.dec.prev, row)
    <3>1. cfg.top \in Nat
      BY Configuration
    <3>2. CASE cfg.filter = "none"
      <4>1. first \in Nat /\ (first = m \/ first = MaxOf(m, cfg.top))
        BY <1>2, <3>1, <3>2 DEF FirstPaletted, MaxOf
      <4>2. y.right = x.right \cup first .. row - 1
        BY <2>3, <3>2 DEF RightAfter, Unfiltered
      <4>3. cfg.top .. m - 1 \subseteq x.right
        BY <2>7, <3>2 DEF Clean
      <4>4. ASSUME NEW r \in cfg.top .. row - 1 PROVE r \in y.right
        <5>1. r \in cfg.top .. m - 1 \/ r \in first .. row - 1
          BY <1>2, <3>1, <4>1 DEF MaxOf
        <5> HIDE DEF first
        <5> QED
          BY <4>2, <4>3, <5>1
      <4> QED
        BY <3>2, <4>4 DEF Clean
    <3>3. CASE cfg.filter # "none"
      <4>1. x.dec.prev = m - 1 /\ 0 .. m - 1 \subseteq x.right
        BY <2>7, <3>3 DEF Clean
      <4>2. first = m
        <5>1. CASE cfg.kind = "alpha8" /\ cfg.filter = "horizontal"
          <6>1. cfg.top = 0
            BY <2>7, <3>1, <5>1 DEF CroppedPalette
          <6> QED
            BY <1>2, <3>3, <5>1, <6>1 DEF FirstPaletted, MaxOf
        <5> QED
          BY <3>3, <5>1 DEF FirstPaletted
      <4>3. Unfiltered(m, x.dec.prev, x.right)
        BY <1>2, <4>1 DEF Unfiltered
      <4> HIDE DEF first, m
      <4>4. y.right = x.right \cup m .. row - 1
        BY <2>3, <4>2, <4>3 DEF RightAfter
      <4>5. y.dec.prev = row - 1
        BY <2>1, <2>3, <3>3, <4>2
      <4>6. ASSUME NEW r \in 0 .. row - 1 PROVE r \in y.right
        <5>1. r \in 0 .. m - 1 \/ r \in m .. row - 1
          BY <1>2
        <5> QED
          BY <4>1, <4>4, <5>1
      <4> QED
        BY <3>3, <4>5, <4>6 DEF Clean
    <3> QED
      BY <3>2, <3>3
  <2> QED
    BY <2>3, <2>6, <2>7 DEF y
<1> QED
  BY <1>3, <1>4

\* Row r of an alpha plane has begun, and the rows above low were processed before.
Swept(low, x, r) ==
  /\ low <= x.dec.lastRow /\ x.dec.lastRow <= r /\ x.dec.lastRow <= x.dec.target
  /\ x.lines = << >>
  /\ ~ CroppedPalette => Clean(x.right, x.dec.prev, x.dec.lastRow)

LEMMA RowBeginsAlpha ==
  ASSUME cfg \in Configs, ~ Image, NEW x \in Output, NEW r \in Nat \ {0}, NEW low \in Nat,
         r * W <= x.dec.src, Swept(low, x, r - 1)
  PROVE  Kept(x, RowBegins(x, r)) /\ Swept(low, RowBegins(x, r), r)
<1> DEFINE y == RowBegins(x, r)
<1>1. x.dec \in Decoder
  BY DEF Output
<1>2. x.dec.lastRow \in Nat /\ x.dec.target \in Nat
  BY <1>1 DEF Decoder
<1>3. low <= x.dec.lastRow /\ x.dec.lastRow <= r
  BY <1>2 DEF Swept
<1>4. CASE r <= x.dec.target /\ r % NUM_ARGB_CACHE_ROWS = 0
  <2>1. y = Process(x, r)
    BY <1>4 DEF RowBegins
  <2>2. /\ Kept(x, y) /\ y.dec.lastRow = r /\ y.lines = x.lines
        /\ ~ CroppedPalette /\ Clean(x.right, x.dec.prev, x.dec.lastRow)
             => Clean(y.right, y.dec.prev, r)
    BY <1>3, <2>1, ProcessAlpha
  <2> HIDE DEF y
  <2>3. y.dec.target = x.dec.target
    BY <2>2 DEF Kept, Others
  <2>4. Swept(low, y, r)
    BY <1>2, <1>3, <1>4, <2>2, <2>3 DEF Swept
  <2> QED
    BY <2>2, <2>4 DEF y
<1>5. CASE ~ (r <= x.dec.target /\ r % NUM_ARGB_CACHE_ROWS = 0)
  <2>1. y = x
    BY <1>5 DEF RowBegins
  <2> HIDE DEF y
  <2>2. Kept(x, y)
    BY <2>1, KeptSelf
  <2>3. Swept(low, y, r)
    BY <1>3, <2>1 DEF Swept
  <2> QED
    BY <2>2, <2>3 DEF y
<1> QED
  BY <1>4, <1>5

LEMMA RowsBeginAlpha ==
  ASSUME cfg \in Configs, ~ Image, NEW x \in Output, NEW from \in Nat, NEW to \in Nat,
         NEW low \in Nat, from <= to, x.dec.src = to, Swept(low, x, Row(from))
  PROVE  Kept(x, RowsBegin(x, from, to)) /\ Swept(low, RowsBegin(x, from, to), Row(to))
<1>1. W \in Nat \ {0}
  BY Configuration
<1> DEFINE a == Row(from)
           b == Row(to)
<1>2. a \in Nat /\ b \in Nat /\ a <= b
  BY <1>1, RowOf, RowsInOrder
<1>3. PICK at : Begun(at, x, from, to) /\ RowsBegin(x, from, to) = at[b]
  BY <1>1, LoopInSteps
<1>4. at[a] = x /\ \A r \in a + 1 .. b : at[r] = RowBegins(at[r - 1], r)
  BY <1>3 DEF Begun
<1>5. \A r \in Nat : r <= b => r * W <= to
  BY <1>1, RowStart
<1> HIDE DEF a, b
<1> DEFINE S == { k \in Nat : k <= b - a => Kept(x, at[a + k]) /\ Swept(low, at[a + k], a + k) }
<1>6. 0 \in S
  <2>1. a + 0 = a /\ Swept(low, x, a)
    BY <1>2 DEF a
  <2> QED
    BY <1>4, <2>1, KeptSelf
<1>7. ASSUME NEW k \in Nat, k \in S PROVE k + 1 \in S
  <2> SUFFICES ASSUME k + 1 <= b - a
               PROVE  Kept(x, at[a + (k + 1)]) /\ Swept(low, at[a + (k + 1)], a + (k + 1))
    OBVIOUS
  <2> DEFINE r == a + (k + 1)
             y == at[a + k]
  <2>1. r \in a + 1 .. b /\ r - 1 = a + k /\ r \in Nat \ {0} /\ k <= b - a
    BY <1>2
  <2>2. Kept(x, y) /\ Swept(low, y, r - 1)
    BY <1>7, <2>1
  <2>3. at[r] = RowBegins(y, r)
    BY <1>4, <2>1
  <2>4. r * W <= to
    BY <1>5, <2>1
  <2> HIDE DEF r, y
  <2>5. y \in Output /\ y.dec.src = to
    BY <2>2 DEF Kept, Others
  <2>6. Kept(y, at[r]) /\ Swept(low, at[r], r)
    BY <2>1, <2>2, <2>3, <2>4, <2>5, RowBeginsAlpha
  <2>7. Kept(x, at[r])
    BY <2>2, <2>6, KeptOn
  <2> QED
    BY <2>6, <2>7 DEF r
<1>8. b - a \in S
  <2> HIDE DEF S
  <2>1. Nat \subseteq S
    BY <1>6, <1>7, Induction
  <2> QED
    BY <1>2, <2>1
<1>9. a + (b - a) = b /\ b - a <= b - a
  BY <1>2
<1> QED
  BY <1>3, <1>8, <1>9 DEF b

-----------------------------------------------------------------------------
(* One symbol.                                                              *)

\* What has been inserted into the colour cache are the pixels before last_cached.
Fresh(d) ==
  /\ ~ d.stale
  /\ cfg.cache => d.in = 0 .. d.cached - 1 /\ d.cached <= d.src

Moved(d, s) == [(IF s.kind = "cache" THEN LookUp(d) ELSE d) EXCEPT !.src = @ + s.n]

\* What a symbol leaves alone before rows are processed.
SameRows(d, e) ==
  /\ e.lastRow = d.lastRow /\ e.prev = d.prev /\ e.batch = d.batch /\ e.ahead = d.ahead

SameCall(d, e) ==
  /\ e.target = d.target /\ e.sync = d.sync /\ e.saved = d.saved /\ e.savedIn = d.savedIn
  /\ e.asked = d.asked /\ e.want = d.want /\ e.decoded = d.decoded

LEMMA InsertFacts ==
  ASSUME cfg \in Configs, NEW d \in Decoder
  PROVE  /\ Insert(d) \in Decoder /\ SameRows(d, Insert(d)) /\ SameCall(d, Insert(d))
         /\ Insert(d).src = d.src /\ (Fresh(d) => Fresh(Insert(d)))
         /\ Insert(d).stale = d.stale
         /\ cfg.cache => Insert(d).cached = d.src
<1> DEFINE more == d.in \cup d.cached .. d.src - 1
           e == [d EXCEPT !.in = more, !.cached = d.src]
<1>1. d.in \in SUBSET Nat /\ d.cached \in Nat /\ d.src \in Nat /\ d.stale \in BOOLEAN
  BY DEF Decoder
<1>2. more \in SUBSET Nat
  BY <1>1
<1>3. ASSUME cfg.cache, Fresh(d) PROVE more = 0 .. d.src - 1
  BY <1>1, <1>3 DEF Fresh
<1>4. CASE cfg.cache
  <2>1. Insert(d) = e
    BY <1>4 DEF Insert
  <2> HIDE DEF more
  <2>2. e \in Decoder /\ SameRows(d, e) /\ SameCall(d, e) /\ e.src = d.src /\ e.stale = d.stale
        /\ e.in = more /\ e.cached = d.src
    BY <1>1, <1>2 DEF Decoder, SameRows, SameCall
  <2> HIDE DEF e
  <2>3. Fresh(d) => Fresh(e)
    <3>1. d.src <= d.src
      BY <1>1
    <3> QED
      BY <1>3, <1>4, <2>2, <3>1 DEF Fresh
  <2> QED
    BY <2>1, <2>2, <2>3
<1>5. CASE ~ cfg.cache
  BY <1>5 DEF Insert, SameRows, SameCall
<1> QED
  BY <1>4, <1>5, Configuration

LEMMA MovedFacts ==
  ASSUME cfg \in Configs, NEW d \in Decoder, NEW s \in Symbol,
         s.kind = "cache" => cfg.cache
  PROVE  LET e == Moved(d, s)
         IN  /\ e \in Decoder /\ SameRows(d, e) /\ SameCall(d, e)
             /\ e.src = d.src + s.n /\ (Fresh(d) => Fresh(e))
<1> DEFINE e == Moved(d, s)
           i == Insert(d)
           f == [i EXCEPT !.stale = i.stale \/ i.in # 0 .. i.src - 1]
<1>1. s.n \in Nat \ {0} /\ d.src \in Nat
  BY DEF Symbol, Decoder
<1>2. /\ i \in Decoder /\ SameRows(d, i) /\ SameCall(d, i) /\ i.src = d.src
      /\ (Fresh(d) => Fresh(i)) /\ (cfg.cache => i.cached = d.src)
  BY InsertFacts
<1>3. CASE s.kind = "cache"
  <2>1. LookUp(d) = f
    BY DEF LookUp
  <2> HIDE DEF i
  <2>2. i.stale \in BOOLEAN
    BY <1>2 DEF Decoder
  <2>3. f \in Decoder /\ SameRows(d, f) /\ SameCall(d, f) /\ f.src = d.src
        /\ f.in = i.in /\ f.cached = i.cached /\ f.stale = (i.stale \/ i.in # 0 .. i.src - 1)
    BY <1>2, <2>2 DEF Decoder, SameRows, SameCall
  <2> HIDE DEF f
  <2>4. Fresh(d) => ~ f.stale /\ f.in = 0 .. f.cached - 1 /\ f.cached = d.src
    BY <1>2, <1>3, <2>3 DEF Fresh
  <2> DEFINE to == d.src + s.n
             g == [f EXCEPT !.src = to]
  <2>5. e = g
    BY <1>3, <2>1, <2>3 DEF Moved
  <2> HIDE DEF e
  <2>9. to \in Nat
    BY <1>1
  <2> HIDE DEF to
  <2>6. g \in Decoder /\ SameRows(f, g) /\ SameCall(f, g) /\ g.src = to
        /\ g.in = f.in /\ g.cached = f.cached /\ g.stale = f.stale
    BY <2>3, <2>9 DEF Decoder, SameRows, SameCall
  <2> HIDE DEF g
  <2>7. SameRows(d, g) /\ SameCall(d, g)
    BY <2>3, <2>6 DEF SameRows, SameCall
  <2>8. Fresh(d) => Fresh(g)
    <3>1. d.src <= d.src + s.n
      BY <1>1
    <3> QED
      BY <2>4, <2>6, <3>1 DEF Fresh, to
  <2> QED
    BY <2>5, <2>6, <2>7, <2>8 DEF e, to
<1>4. CASE s.kind # "cache"
  <2> DEFINE g == [d EXCEPT !.src = d.src + s.n]
  <2>1. e = g
    BY <1>4 DEF Moved
  <2>2. g \in Decoder /\ SameRows(d, g) /\ SameCall(d, g) /\ g.src = d.src + s.n
        /\ g.in = d.in /\ g.cached = d.cached /\ g.stale = d.stale
    BY <1>1 DEF Decoder, SameRows, SameCall
  <2> HIDE DEF g, e
  <2>3. Fresh(d) => Fresh(g)
    <3>1. d.cached \in Nat
      BY DEF Decoder
    <3>2. d.cached <= d.src => d.cached <= d.src + s.n
      BY <1>1, <3>1
    <3> QED
      BY <2>2, <3>2 DEF Fresh
  <2> QED
    BY <2>1, <2>2, <2>3 DEF e
<1> QED
  BY <1>3, <1>4

\* What there is when a symbol has given its pixels, before rows are processed.
WithPixels(d, s) == [dec |-> Moved(d, s), lines |-> lines, right |-> right]

\* What a symbol does to the positions.
Stepped(d, e, n) ==
  /\ e.src = d.src + n /\ SameCall(d, e) /\ e.ahead = d.ahead
  /\ Fresh(d) => Fresh(e)
  /\ cfg.cache /\ Row(d.src) # Row(e.src) => e.cached = e.src

LEMMA DecodedFacts ==
  ASSUME cfg \in Configs, NEW d \in Decoder, NEW s \in Symbol,
         s.kind = "cache" => cfg.cache,
         NEW y, y = RowsBegin(WithPixels(d, s), d.src, d.src + s.n), Kept(WithPixels(d, s), y)
  PROVE  LET z == Decoded(d, s)
         IN  /\ z \in Output /\ Stepped(d, z.dec, s.n)
             /\ z.lines = y.lines /\ z.right = y.right
             /\ SameRows(y.dec, z.dec)
<1> DEFINE z == Decoded(d, s)
           e == Moved(d, s)
           last == s.kind = "copy" \/ Row(d.src) # Row(d.src + s.n)
<1>1. /\ e \in Decoder /\ SameRows(d, e) /\ SameCall(d, e)
      /\ e.src = d.src + s.n /\ (Fresh(d) => Fresh(e))
  BY MovedFacts
<1>2. y \in Output /\ Others(e, y.dec) /\ y.dec.ahead = e.ahead
  BY DEF Kept, WithPixels
<1>3. y.dec \in Decoder /\ y = [dec |-> y.dec, lines |-> y.lines, right |-> y.right]
      /\ y.lines \in Seq(Nat) /\ y.right \in SUBSET Nat
  BY <1>2 DEF Output
<1>4. z = IF last THEN [y EXCEPT !.dec = Insert(@)] ELSE y
  BY <1>1 DEF Decoded, Moved, WithPixels
<1> HIDE DEF z, e
<1>5. y.dec.src = d.src + s.n /\ SameCall(d, y.dec) /\ y.dec.ahead = d.ahead
      /\ (Fresh(d) => Fresh(y.dec))
  BY <1>1, <1>2 DEF Others, SameCall, SameRows, Fresh
<1>6. CASE last
  <2> DEFINE i == Insert(y.dec)
  <2>1. z = [dec |-> i, lines |-> y.lines, right |-> y.right]
    BY <1>3, <1>4, <1>6
  <2>2. /\ i \in Decoder /\ SameRows(y.dec, i) /\ SameCall(y.dec, i) /\ i.src = y.dec.src
        /\ (Fresh(y.dec) => Fresh(i)) /\ (cfg.cache => i.cached = y.dec.src)
    BY <1>3, InsertFacts
  <2> HIDE DEF i
  <2>3. Stepped(d, i, s.n)
    BY <1>5, <2>2 DEF Stepped, SameRows, SameCall
  <2>4. z \in Output
    BY <1>3, <2>1, <2>2 DEF Output
  <2>5. z.dec = i /\ z.lines = y.lines /\ z.right = y.right
    BY <2>1
  <2> QED
    BY <2>2, <2>3, <2>4, <2>5 DEF z
<1>7. CASE ~ last
  <2>1. z = y
    BY <1>4, <1>7
  <2>2. Stepped(d, y.dec, s.n)
    BY <1>5, <1>7 DEF Stepped
  <2>3. SameRows(y.dec, y.dec)
    BY DEF SameRows
  <2> QED
    BY <1>2, <2>1, <2>2, <2>3 DEF z
<1> QED
  BY <1>6, <1>7

LEMMA WithPixelsType ==
  ASSUME cfg \in Configs, NEW d \in Decoder, NEW s \in Symbol,
         s.kind = "cache" => cfg.cache, lines \in Seq(Nat), right \in SUBSET Nat
  PROVE  /\ WithPixels(d, s) \in Output /\ WithPixels(d, s).dec.src = d.src + s.n
         /\ SameRows(d, WithPixels(d, s).dec) /\ SameCall(d, WithPixels(d, s).dec)
         /\ WithPixels(d, s).lines = lines /\ WithPixels(d, s).right = right
         /\ d.src \in Nat /\ d.src + s.n \in Nat /\ d.src < d.src + s.n
<1>1. s.n \in Nat \ {0} /\ d.src \in Nat
  BY DEF Symbol, Decoder
<1> QED
  BY <1>1, MovedFacts DEF WithPixels, Output

\* A symbol of an image that has not been read before, one that has, and one of an
\* alpha plane.
LEMMA DecodedNew ==
  ASSUME cfg \in Configs, NEW d \in Decoder, NEW s \in Symbol,
         s.kind = "cache" => cfg.cache, lines \in Seq(Nat), right \in SUBSET Nat,
         Image, d.target = cfg.bottom,
         Batched([dec |-> d, lines |-> lines, right |-> right], Row(d.src))
  PROVE  LET z == Decoded(d, s)
         IN  z \in Output /\ Stepped(d, z.dec, s.n) /\ Batched(z, Row(d.src + s.n))
<1> DEFINE x == WithPixels(d, s)
           y == RowsBegin(x, d.src, d.src + s.n)
           z == Decoded(d, s)
<1>1. /\ x \in Output /\ x.dec.src = d.src + s.n /\ SameRows(d, x.dec) /\ SameCall(d, x.dec)
      /\ x.lines = lines /\ d.src \in Nat /\ d.src + s.n \in Nat /\ d.src <= d.src + s.n
  BY WithPixelsType
<1> HIDE DEF x
<1>2. Batched(x, Row(d.src)) /\ x.dec.target = cfg.bottom
  BY <1>1 DEF Batched, SameRows, SameCall
<1>3. Kept(x, y) /\ Batched(y, Row(d.src + s.n))
  BY <1>1, <1>2, RowsBeginImage
<1> HIDE DEF y
<1>4. /\ z \in Output /\ Stepped(d, z.dec, s.n) /\ z.lines = y.lines /\ SameRows(y.dec, z.dec)
  BY <1>3, DecodedFacts DEF x, y
<1> HIDE DEF z
<1>5. Batched(z, Row(d.src + s.n))
  BY <1>3, <1>4 DEF Batched, SameRows
<1> QED
  BY <1>4, <1>5 DEF z

LEMMA DecodedAgain ==
  ASSUME cfg \in Configs, NEW d \in Decoder, NEW s \in Symbol,
         s.kind = "cache" => cfg.cache, lines \in Seq(Nat), right \in SUBSET Nat,
         \A q \in Row(d.src) + 1 .. Row(d.src + s.n) :
           q <= d.target /\ q % NUM_ARGB_CACHE_ROWS = 0 => q = d.lastRow
  PROVE  LET z == Decoded(d, s)
         IN  z \in Output /\ Stepped(d, z.dec, s.n) /\ SameRows(d, z.dec) /\ z.lines = lines
<1> DEFINE x == WithPixels(d, s)
           y == RowsBegin(x, d.src, d.src + s.n)
           z == Decoded(d, s)
<1>1. /\ x \in Output /\ x.dec.src = d.src + s.n /\ SameRows(d, x.dec) /\ SameCall(d, x.dec)
      /\ x.lines = lines /\ d.src \in Nat /\ d.src + s.n \in Nat /\ d.src <= d.src + s.n
  BY WithPixelsType
<1> HIDE DEF x
<1>2. x.dec.lastRow = d.lastRow /\ x.dec.target = d.target
  BY <1>1 DEF SameRows, SameCall
<1>3. y = x
  BY <1>1, <1>2, RowsBeginAgain
<1>4. Kept(x, y)
  BY <1>1, <1>3, KeptSelf
<1>5. /\ z \in Output /\ Stepped(d, z.dec, s.n) /\ z.lines = y.lines /\ SameRows(y.dec, z.dec)
  BY <1>4, DecodedFacts DEF x
<1> HIDE DEF z, y
<1>6. SameRows(d, z.dec) /\ z.lines = lines
  BY <1>1, <1>3, <1>5 DEF SameRows
<1> QED
  BY <1>5, <1>6 DEF z

LEMMA DecodedAlpha ==
  ASSUME cfg \in Configs, NEW d \in Decoder, NEW s \in Symbol,
         s.kind = "cache" => cfg.cache, lines \in Seq(Nat), right \in SUBSET Nat,
         ~ Image, NEW low \in Nat,
         Swept(low, [dec |-> d, lines |-> lines, right |-> right], Row(d.src))
  PROVE  LET z == Decoded(d, s)
         IN  z \in Output /\ Stepped(d, z.dec, s.n) /\ Swept(low, z, Row(d.src + s.n))
<1> DEFINE x == WithPixels(d, s)
           y == RowsBegin(x, d.src, d.src + s.n)
           z == Decoded(d, s)
<1>1. /\ x \in Output /\ x.dec.src = d.src + s.n /\ SameRows(d, x.dec) /\ SameCall(d, x.dec)
      /\ x.lines = lines /\ x.right = right
      /\ d.src \in Nat /\ d.src + s.n \in Nat /\ d.src <= d.src + s.n
  BY WithPixelsType
<1> HIDE DEF x
<1>2. Swept(low, x, Row(d.src))
  BY <1>1 DEF Swept, SameRows, SameCall
<1>3. Kept(x, y) /\ Swept(low, y, Row(d.src + s.n))
  BY <1>1, <1>2, RowsBeginAlpha
<1> HIDE DEF y
<1>4. /\ z \in Output /\ Stepped(d, z.dec, s.n) /\ z.lines = y.lines /\ z.right = y.right
      /\ SameRows(y.dec, z.dec)
  BY <1>3, DecodedFacts DEF x, y
<1> HIDE DEF z
<1>5. z.dec.target = y.dec.target
  BY <1>1, <1>3, <1>4 DEF Kept, Others, Stepped, SameCall
<1>6. Swept(low, z, Row(d.src + s.n))
  BY <1>3, <1>4, <1>5 DEF Swept, SameRows
<1> QED
  BY <1>4, <1>6 DEF z

-----------------------------------------------------------------------------
(* The invariant.  Its parts are operators of the variables, so that a step *)
(* can be said to lead to values that fulfil them.                          *)

Types(p, w, d, rp, k, ls, ok) ==
  /\ p \in {"header", "idle", "loop", "done", "error"} /\ w \in BOOLEAN
  /\ d \in Decoder /\ rp \in Seq(Symbol) /\ k \in 0 .. Len(rp)
  /\ ls \in Seq(Nat) /\ ok \in SUBSET Nat
  /\ \A i \in 1 .. Len(rp) : rp[i].kind = "cache" => cfg.cache

\* A check-point is due; the call is not finished.
Due(d)  == Row(d.src) >= d.sync
More(d) == d.src < d.target * W

\* Between calls the colour cache has the pixels before the next one, and so has the
\* saved one for the check-point.  In a call it may lag behind, but not where a
\* check-point is due and not at the end.
ColourCache(p, w, d) ==
  /\ ~ d.stale
  /\ cfg.cache =>
       /\ p \in {"header", "idle"} => d.in = 0 .. d.src - 1
       /\ p = "loop" =>
            /\ d.in = 0 .. d.cached - 1 /\ d.cached <= d.src
            /\ Due(d) \/ ~ More(d) => d.cached = d.src
            /\ ~ w /\ ~ Due(d) => d.savedIn = 0 .. d.saved - 1

\* pos[i]: the position after i of the symbols that are kept.  Those that will be read
\* again pass at most one row at which a batch ends, which is dec->last_row_.
Reaches(pos, p, w, d, rp, k) ==
  LET h == Full(Row(pos[Len(rp)]))
  IN  /\ pos \in [0 .. Len(rp) -> Nat]
      /\ pos[k] = d.src
      /\ \A i \in 0 .. Len(rp) : pos[i] <= pos[Len(rp)]
      /\ \A i \in k + 1 .. Len(rp) : pos[i] = pos[i - 1] + rp[i].n
      /\ Ends(d.lastRow, h)
      /\ \A q \in Row(d.src) + 1 .. h : q % NUM_ARGB_CACHE_ROWS = 0 => q = d.lastRow
      /\ p = "loop" /\ ~ w /\ ~ Due(d) =>
           /\ pos[0] = d.saved /\ d.sync <= Row(d.saved) + SYNC_EVERY_N_ROWS
           /\ \A i \in 1 .. k : pos[i] = pos[i - 1] + rp[i].n

Images(p, w, d, rp, k, ls) ==
  Image =>
    /\ Lined(ls, d.lastRow) /\ d.batch <= NUM_ARGB_CACHE_ROWS
    /\ p \in {"header", "idle"} => k = 0
    /\ p = "loop" => d.target = cfg.bottom
    /\ p = "done" => d.lastRow = cfg.bottom
    /\ p \in {"header", "idle", "loop"} => \E pos : Reaches(pos, p, w, d, rp, k)

\* Rows that the user has got are decoded.  A call decodes up to the rows wanted, or to
\* the last row if there are levels to dither.
Compressed(p, d, ok) ==
  /\ d.lastRow <= Row(d.src) /\ d.lastRow <= cfg.bottom /\ d.asked <= d.lastRow
  /\ d.decoded => d.lastRow = cfg.bottom
  /\ ~ CroppedPalette => Clean(ok, d.prev, d.lastRow)
  /\ p = "loop" =>
       /\ d.want \in 1 .. cfg.bottom - d.asked
       /\ d.target = IF cfg.levels /\ d.asked = 0 THEN cfg.bottom ELSE d.asked + d.want
       /\ d.lastRow <= d.target

Raw(p, d, ok) ==
  /\ p = "idle" /\ (d.decoded \/ d.prev = d.asked - 1)
  /\ 0 .. (IF d.decoded THEN cfg.bottom ELSE d.asked) - 1 \subseteq ok

Planes(p, w, d, rp, k, ls, ok) ==
  ~ Image =>
    /\ w /\ rp = << >> /\ k = 0 /\ ls = << >> /\ p # "done"
    /\ d.asked <= cfg.bottom /\ (cfg.levels /\ d.asked > 0 => d.decoded)
    /\ IF cfg.kind = "alphaRaw" THEN Raw(p, d, ok) ELSE Compressed(p, d, ok)

Sound(p, w, d, rp, k, ls, ok) ==
  /\ Types(p, w, d, rp, k, ls, ok)
  /\ ~ d.ahead
  /\ ColourCache(p, w, d)
  /\ Images(p, w, d, rp, k, ls)
  /\ Planes(p, w, d, rp, k, ls, ok)

LInv == cfg \in Configs /\ Sound(pc, whole, dec, replay, rd, lines, right)

LEMMA SoundStep ==
  ASSUME cfg \in Configs, cfg' = cfg,
         Sound(pc', whole', dec', replay', rd', lines', right')
  PROVE  LInv'
<1>1. Types(pc, whole, dec, replay, rd, lines, right)'
  BY DEF Sound, Types, Decoder, Symbol
<1>2. ColourCache(pc, whole, dec)'
  BY DEF Sound, ColourCache, Due, More, Row, W
<1>3. Images(pc, whole, dec, replay, rd, lines)'
  <2> SUFFICES ASSUME Image PROVE Images(pc, whole, dec, replay, rd, lines)'
    BY DEF Images, Image
  <2>1. Images(pc', whole', dec', replay', rd', lines')
    BY DEF Sound
  <2>2. ASSUME NEW pos, Reaches(pos, pc', whole', dec', replay', rd')
        PROVE  Reaches(pos, pc, whole, dec, replay, rd)'
    BY <2>2 DEF Reaches, Ends, Full, Due, Row, W
  <2>3. Lined(lines, dec.lastRow)'
    BY <2>1 DEF Images, Lined
  <2> QED
    BY <2>1, <2>2, <2>3 DEF Images
<1>4. Planes(pc, whole, dec, replay, rd, lines, right)'
  BY DEF Sound, Planes, Image, Raw, Compressed, Clean, CroppedPalette, Row, W
<1> QED
  BY <1>1, <1>2, <1>3, <1>4 DEF LInv, Sound

-----------------------------------------------------------------------------
(* Reading a symbol.                                                        *)

LEMMA SyncedFacts ==
  ASSUME cfg \in Configs, dec \in Decoder
  PROVE  /\ Synced \in Decoder /\ SameRows(dec, Synced) /\ Synced.src = dec.src
         /\ Synced.target = dec.target /\ Synced.cached = dec.cached /\ Synced.in = dec.in
         /\ Synced.asked = dec.asked /\ Synced.want = dec.want
         /\ Synced.decoded = dec.decoded /\ Synced.stale = dec.stale
         /\ Row(dec.src) < Synced.sync
         /\ IF Due(dec) THEN /\ Synced.saved = dec.src /\ Synced.savedIn = dec.in
                             /\ Synced.sync = Row(dec.src) + SYNC_EVERY_N_ROWS
            ELSE Synced = dec
<1>1. dec.src \in Nat /\ dec.in \in SUBSET Nat /\ dec.sync \in Nat
  BY DEF Decoder
<1>2. Row(dec.src) \in Nat /\ SYNC_EVERY_N_ROWS \in Nat \ {0}
  BY <1>1, Configuration, RowOf, LosslessAssumption
<1>3. CASE Due(dec)
  <2> DEFINE next == Row(dec.src) + SYNC_EVERY_N_ROWS
             e == [dec EXCEPT !.saved = dec.src, !.savedIn = dec.in, !.sync = next]
  <2>1. Synced = e
    BY <1>3 DEF Synced, AtSync, Due, SaveState
  <2>2. next \in Nat /\ Row(dec.src) < next
    BY <1>2
  <2> HIDE DEF next
  <2>3. e \in Decoder /\ SameRows(dec, e) /\ e.src = dec.src /\ e.target = dec.target
        /\ e.cached = dec.cached /\ e.in = dec.in /\ e.asked = dec.asked /\ e.want = dec.want
        /\ e.decoded = dec.decoded /\ e.stale = dec.stale
        /\ e.saved = dec.src /\ e.savedIn = dec.in /\ e.sync = next
    BY <1>1, <2>2 DEF Decoder, SameRows
  <2> HIDE DEF e
  <2> QED
    BY <1>3, <2>1, <2>2, <2>3 DEF next
<1>4. CASE ~ Due(dec)
  <2>1. Synced = dec
    BY <1>4 DEF Synced, AtSync, Due
  <2>2. Row(dec.src) < dec.sync
    BY <1>1, <1>2, <1>4 DEF Due
  <2> QED
    BY <1>4, <2>1, <2>2 DEF SameRows
<1> QED
  BY <1>3, <1>4

\* Whatever symbol it is, the colour cache is not behind where it matters.
LEMMA SymbolKeepsCache ==
  ASSUME cfg \in Configs, dec \in Decoder, pc = "loop", More(dec),
         ColourCache(pc, whole, dec), NEW n \in Nat, NEW e \in Decoder,
         Stepped(Synced, e, n)
  PROVE  ColourCache(pc, whole, e)
<1> DEFINE d == Synced
<1>1. /\ d \in Decoder /\ d.src = dec.src /\ d.target = dec.target
      /\ d.cached = dec.cached /\ d.in = dec.in /\ d.stale = dec.stale
      /\ Row(dec.src) < d.sync
      /\ IF Due(dec) THEN d.saved = dec.src /\ d.savedIn = dec.in ELSE d = dec
  BY SyncedFacts
<1>2. Stepped(d, e, n)
  OBVIOUS
<1> HIDE DEF d
<1>3. Fresh(d)
  BY <1>1 DEF ColourCache, Fresh
<1>4. /\ e.target = d.target /\ e.sync = d.sync /\ e.saved = d.saved /\ e.savedIn = d.savedIn
      /\ Fresh(e) /\ (cfg.cache /\ Row(d.src) # Row(e.src) => e.cached = e.src)
  BY <1>2, <1>3 DEF Stepped, SameCall
<1>5. ASSUME cfg.cache, Due(e) \/ ~ More(e) PROVE e.cached = e.src
  <2> SUFFICES ASSUME Row(d.src) = Row(e.src) PROVE FALSE
    BY <1>4, <1>5
  <2>1. W \in Nat \ {0} /\ dec.src \in Nat /\ e.src \in Nat /\ dec.target \in Nat
    BY Configuration DEF Decoder
  <2>2. Row(dec.src) < dec.target
    BY <2>1, RowOf DEF More
  <2>3. More(e)
    BY <1>1, <1>4, <2>1, <2>2, RowOf DEF More
  <2>4. Row(e.src) < e.sync /\ Row(e.src) \in Nat /\ e.sync \in Nat
    <3>1. Row(e.src) \in Nat /\ e.sync \in Nat
      BY <2>1, RowOf DEF Decoder
    <3> QED
      BY <1>1, <1>4, <3>1
  <2>5. ~ Due(e)
    BY <2>4 DEF Due
  <2> QED
    BY <1>5, <2>3, <2>5
<1>6. ASSUME cfg.cache, ~ whole PROVE e.savedIn = 0 .. e.saved - 1
  <2>1. CASE Due(dec)
    <3>1. dec.in = 0 .. dec.cached - 1 /\ dec.cached = dec.src
      BY <1>6, <2>1 DEF ColourCache
    <3> QED
      BY <1>1, <1>4, <2>1, <3>1
  <2>2. CASE ~ Due(dec)
    <3>1. dec.savedIn = 0 .. dec.saved - 1
      BY <1>6, <2>2 DEF ColourCache
    <3> QED
      BY <1>1, <1>4, <2>2, <3>1
  <2> QED
    BY <2>1, <2>2
<1> QED
  BY <1>4, <1>5, <1>6 DEF ColourCache, Fresh

LEMMA SymbolType ==
  ASSUME cfg \in Configs, NEW s \in Symbols
  PROVE  s \in Symbol /\ (s.kind = "cache" => cfg.cache)
<1>1. Lengths \subseteq Nat \ {0}
  BY LosslessAssumption
<1>2. CASE s \in { [kind |-> "copy", n |-> n] : n \in { m \in Lengths : dec.src > 0 /\ dec.src + m <= end } }
  <2>1. PICK n \in Lengths : s = [kind |-> "copy", n |-> n]
    BY <1>2
  <2> QED
    BY <1>1, <2>1 DEF Symbol
<1>3. CASE s \in { OneBy("literal"), OneBy("trivial") }
  BY <1>3 DEF OneBy, Symbol
<1>4. CASE cfg.cache /\ s = OneBy("cache")
  BY <1>4 DEF OneBy, Symbol
<1> QED
  BY <1>2, <1>3, <1>4 DEF Symbols

\* An image, no symbol kept is unread: the position of the new one is added.
LEMMA NewPosition ==
  ASSUME cfg \in Configs, dec \in Decoder, NEW s \in Symbol,
         Types(pc, whole, dec, replay, rd, lines, right),
         pc = "loop", rd = Len(replay), NEW pos, Reaches(pos, pc, whole, dec, replay, rd),
         NEW e \in Decoder, e.src = dec.src + s.n,
         SameCall(Synced, e), Ends(e.lastRow, Full(Row(e.src))),
         NEW rp \in Seq(Symbol), NEW k \in Nat,
         IF whole THEN rp = replay /\ k = rd
         ELSE IF Due(dec) THEN rp = << s >> /\ k = 1
         ELSE rp = Append(replay, s) /\ k = rd + 1
  PROVE  \E p : Reaches(p, pc, whole, e, rp, k)
<1> DEFINE to == e.src
           L == Len(replay)
           p == IF whole THEN [i \in 0 .. L |-> IF i = L THEN to ELSE pos[i]]
                ELSE IF Due(dec) THEN [i \in 0 .. 1 |-> IF i = 0 THEN dec.src ELSE to]
                ELSE [i \in 0 .. L + 1 |-> IF i = L + 1 THEN to ELSE pos[i]]
<1>1. /\ L \in Nat /\ dec.src \in Nat /\ to \in Nat /\ dec.src <= to /\ s.n \in Nat
      /\ replay \in Seq(Symbol)
  <2>1. replay \in Seq(Symbol) /\ L \in Nat
    BY DEF Types
  <2>2. dec.src \in Nat /\ s.n \in Nat
    BY DEF Decoder, Symbol
  <2> QED
    BY <2>1, <2>2
<1>2. /\ pos \in [0 .. L -> Nat] /\ pos[L] = dec.src
      /\ \A i \in 0 .. L : pos[i] <= dec.src
      /\ ~ whole /\ ~ Due(dec) =>
           /\ pos[0] = dec.saved /\ dec.sync <= Row(dec.saved) + SYNC_EVERY_N_ROWS
           /\ \A i \in 1 .. L : pos[i] = pos[i - 1] + replay[i].n
  BY DEF Reaches
<1>3. k = Len(rp)
  <2>1. CASE whole
    BY <2>1
  <2>2. CASE ~ whole /\ Due(dec)
    BY <2>2
  <2>3. CASE ~ whole /\ ~ Due(dec)
    BY <1>1, <2>3
  <2> QED
    BY <2>1, <2>2, <2>3
<1>4. p \in [0 .. k -> Nat] /\ p[k] = to
  <2>1. CASE whole
    <3>1. p = [i \in 0 .. L |-> IF i = L THEN to ELSE pos[i]] /\ k = L
      BY <2>1
    <3> QED
      BY <1>1, <1>2, <3>1
  <2>2. CASE ~ whole /\ Due(dec)
    <3>1. p = [i \in 0 .. 1 |-> IF i = 0 THEN dec.src ELSE to] /\ k = 1
      BY <2>2
    <3> QED
      BY <1>1, <3>1
  <2>3. CASE ~ whole /\ ~ Due(dec)
    <3>1. p = [i \in 0 .. L + 1 |-> IF i = L + 1 THEN to ELSE pos[i]] /\ k = L + 1
      BY <2>3
    <3> QED
      BY <1>1, <1>2, <3>1
  <2> QED
    BY <2>1, <2>2, <2>3
<1>5. ASSUME NEW i \in 0 .. k PROVE p[i] <= to
  <2>1. CASE whole
    BY <1>1, <1>2, <2>1
  <2>2. CASE ~ whole /\ Due(dec)
    BY <1>1, <2>2
  <2>3. CASE ~ whole /\ ~ Due(dec)
    <3>1. i \in 0 .. L + 1
      BY <2>3
    <3>2. p[i] = IF i = L + 1 THEN to ELSE pos[i]
      BY <2>3, <3>1
    <3>3. i # L + 1 => pos[i] \in Nat /\ pos[i] <= dec.src
      BY <1>1, <1>2, <3>1
    <3> HIDE DEF p
    <3> QED
      BY <1>1, <3>2, <3>3
  <2> QED
    BY <2>1, <2>2, <2>3
<1>6. ASSUME ~ whole
      PROVE  /\ p[0] = e.saved /\ e.sync <= Row(e.saved) + SYNC_EVERY_N_ROWS
             /\ \A i \in 1 .. k : p[i] = p[i - 1] + rp[i].n
  <2>1. CASE Due(dec)
    <3>1. e.saved = dec.src /\ e.sync = Row(dec.src) + SYNC_EVERY_N_ROWS
      BY <2>1, SyncedFacts DEF SameCall
    <3>2. p = [i \in 0 .. 1 |-> IF i = 0 THEN dec.src ELSE to] /\ k = 1 /\ rp = << s >>
      BY <1>6, <2>1
    <3>3. p[0] = dec.src /\ p[1] = to /\ rp[1] = s
      BY <3>2
    <3>4. e.sync <= Row(e.saved) + SYNC_EVERY_N_ROWS
      <4>1. e.sync \in Nat
        BY DEF Decoder
      <4> QED
        BY <3>1, <4>1
    <3> HIDE DEF p
    <3>5. ASSUME NEW i \in 1 .. k PROVE p[i] = p[i - 1] + rp[i].n
      <4>1. i = 1
        BY <3>2
      <4> QED
        BY <3>3, <4>1
    <3> QED
      BY <3>1, <3>3, <3>4, <3>5
  <2>2. CASE ~ Due(dec)
    <3>1. e.saved = dec.saved /\ e.sync = dec.sync
      BY <2>2, SyncedFacts DEF SameCall
    <3>2. p = [i \in 0 .. L + 1 |-> IF i = L + 1 THEN to ELSE pos[i]]
          /\ k = L + 1 /\ rp = Append(replay, s)
      BY <1>6, <2>2
    <3>3. p[0] = pos[0]
      BY <1>1, <3>2
    <3>4. ASSUME NEW i \in 1 .. k PROVE p[i] = p[i - 1] + rp[i].n
      <4>1. CASE i = L + 1
        <5>1. p[i] = to /\ p[i - 1] = pos[L] /\ rp[i] = s
          BY <1>1, <3>2, <4>1
        <5> QED
          BY <1>2, <5>1
      <4>2. CASE i # L + 1
        <5>1. i \in 1 .. L
          BY <1>1, <3>2, <4>2
        <5>2. p[i] = pos[i] /\ p[i - 1] = pos[i - 1] /\ rp[i] = replay[i]
          BY <1>1, <3>2, <5>1
        <5> QED
          BY <1>2, <1>6, <2>2, <5>1, <5>2
      <4> QED
        BY <4>1, <4>2
    <3> QED
      BY <1>2, <1>6, <2>2, <3>1, <3>3, <3>4
  <2> QED
    BY <2>1, <2>2
<1> HIDE DEF p
<1>7. ASSUME NEW q \in Row(to) + 1 .. Full(Row(to)) PROVE FALSE
  <2>1. Row(to) \in Nat /\ cfg.bottom \in Nat
    BY <1>1, Configuration, RowOf
  <2> QED
    BY <2>1 DEF Full, MinOf
<1>8. \A i \in k + 1 .. Len(rp) : FALSE
  BY <1>3
<1>9. Reaches(p, pc, whole, e, rp, k)
  BY <1>3, <1>4, <1>5, <1>6, <1>7, <1>8 DEF Reaches
<1> QED
  BY <1>9

\* A symbol that is read again.
LEMMA OldPosition ==
  ASSUME cfg \in Configs, dec \in Decoder,
         Types(pc, whole, dec, replay, rd, lines, right),
         pc = "loop", rd < Len(replay), NEW pos, Reaches(pos, pc, whole, dec, replay, rd),
         NEW e \in Decoder, e.src = dec.src + replay[rd + 1].n,
         SameCall(Synced, e), e.lastRow = dec.lastRow,
         NEW rp \in Seq(Symbol), NEW k \in Nat,
         IF Due(dec) THEN rp = SubSeq(replay, rd + 1, Len(replay)) /\ k = 1
         ELSE rp = replay /\ k = rd + 1
  PROVE  \E p : Reaches(p, pc, whole, e, rp, k)
<1> DEFINE L == Len(replay)
           p == IF Due(dec) THEN [i \in 0 .. L - rd |-> pos[rd + i]] ELSE pos
           M == Len(rp)
<1>1. /\ L \in Nat /\ rd \in Nat /\ rd < L /\ dec.src \in Nat
      /\ replay \in Seq(Symbol) /\ replay[rd + 1].n \in Nat
  <2>1. replay \in Seq(Symbol) /\ rd \in 0 .. L
    BY DEF Types
  <2>2. L \in Nat /\ rd \in Nat
    BY <2>1
  <2>3. replay[rd + 1] \in Symbol
    BY <2>1, <2>2
  <2>4. replay[rd + 1].n \in Nat /\ dec.src \in Nat
    BY <2>3 DEF Decoder, Symbol
  <2> QED
    BY <2>1, <2>2, <2>4
<1>2. /\ pos \in [0 .. L -> Nat] /\ pos[rd] = dec.src
      /\ \A i \in 0 .. L : pos[i] <= pos[L]
      /\ \A i \in rd + 1 .. L : pos[i] = pos[i - 1] + replay[i].n
      /\ Ends(dec.lastRow, Full(Row(pos[L])))
      /\ \A q \in Row(dec.src) + 1 .. Full(Row(pos[L])) :
           q % NUM_ARGB_CACHE_ROWS = 0 => q = dec.lastRow
  BY DEF Reaches
<1>3. ~ whole /\ ~ Due(dec) =>
        /\ pos[0] = dec.saved /\ dec.sync <= Row(dec.saved) + SYNC_EVERY_N_ROWS
        /\ \A i \in 1 .. rd : pos[i] = pos[i - 1] + replay[i].n
  BY DEF Reaches
<1>4. pos[rd + 1] = e.src /\ dec.src <= e.src /\ e.src \in Nat
  <2>1. rd + 1 \in rd + 1 .. L /\ (rd + 1) - 1 = rd
    BY <1>1
  <2>2. pos[rd + 1] = pos[rd] + replay[rd + 1].n
    BY <1>2, <2>1
  <2> QED
    BY <1>1, <1>2, <2>2
<1>5. CASE Due(dec)
  <2>1. p = [i \in 0 .. L - rd |-> pos[rd + i]] /\ k = 1 /\ rp = SubSeq(replay, rd + 1, L)
    BY <1>5
  <2>2. M = L - rd /\ \A i \in 1 .. M : rp[i] = replay[rd + i]
    <3>1. Len(rp) = L - rd
      BY <1>1, <2>1
    <3>2. \A i \in 1 .. L - rd : rp[i] = replay[(rd + 1) + i - 1]
      BY <1>1, <2>1
    <3>3. \A i \in 1 .. L - rd : (rd + 1) + i - 1 = rd + i
      BY <1>1
    <3> QED
      BY <3>1, <3>2, <3>3
  <2> HIDE DEF p, M
  <2>3. \A i \in 0 .. M : p[i] = pos[rd + i] /\ rd + i \in 0 .. L
    BY <1>1, <2>1, <2>2
  <2>4. p \in [0 .. M -> Nat]
    BY <1>2, <2>1, <2>2, <2>3
  <2>5. p[M] = pos[L] /\ p[1] = e.src /\ p[0] = dec.src
    <3>1. rd + M = L /\ M \in 0 .. M /\ 1 \in 0 .. M /\ 0 \in 0 .. M /\ rd + 0 = rd
      BY <1>1, <2>2
    <3> QED
      BY <1>2, <1>4, <2>3, <3>1
  <2>6. \A i \in 0 .. M : p[i] <= p[M]
    BY <1>2, <2>3, <2>5
  <2>7. ASSUME NEW i \in 1 .. M PROVE p[i] = p[i - 1] + rp[i].n
    <3>1. rd + i \in rd + 1 .. L /\ (rd + i) - 1 = rd + (i - 1) /\ i \in 0 .. M /\ i - 1 \in 0 .. M
      BY <1>1, <2>2
    <3>2. pos[rd + i] = pos[rd + (i - 1)] + replay[rd + i].n
      BY <1>2, <3>1
    <3> QED
      BY <2>2, <2>3, <3>1, <3>2
  <2>8. e.saved = dec.src /\ e.sync = Row(dec.src) + SYNC_EVERY_N_ROWS
    BY <1>5, SyncedFacts DEF SameCall
  <2>9. e.sync <= Row(e.saved) + SYNC_EVERY_N_ROWS
    <3>1. e.sync \in Nat
      BY DEF Decoder
    <3> QED
      BY <2>8, <3>1
  <2>10. \A q \in Row(e.src) + 1 .. Full(Row(p[M])) :
           q % NUM_ARGB_CACHE_ROWS = 0 => q = e.lastRow
    <3>1. Row(dec.src) <= Row(e.src) /\ Row(dec.src) \in Nat /\ Row(e.src) \in Nat
      BY <1>1, <1>4, Configuration, RowOf, RowsInOrder
    <3> QED
      BY <1>2, <2>5, <3>1
  <2>11. k + 1 .. M \subseteq 1 .. M /\ 1 .. k \subseteq 1 .. M
    BY <1>1, <2>1, <2>2
  <2>12. Reaches(p, pc, whole, e, rp, k)
    BY <1>2, <2>1, <2>4, <2>5, <2>6, <2>7, <2>8, <2>9, <2>10, <2>11 DEF Reaches, M
  <2> QED
    BY <2>12
<1>6. CASE ~ Due(dec)
  <2>1. k = rd + 1 /\ rp = replay
    BY <1>6
  <2>2. e.saved = dec.saved /\ e.sync = dec.sync
    BY <1>6, SyncedFacts DEF SameCall
  <2>3. \A q \in Row(e.src) + 1 .. Full(Row(pos[L])) :
           q % NUM_ARGB_CACHE_ROWS = 0 => q = e.lastRow
    <3>1. Row(dec.src) <= Row(e.src) /\ Row(dec.src) \in Nat /\ Row(e.src) \in Nat
      BY <1>1, <1>4, Configuration, RowOf, RowsInOrder
    <3> QED
      BY <1>2, <3>1
  <2>4. k + 1 .. L \subseteq rd + 1 .. L
    BY <1>1, <2>1
  <2>5. ASSUME ~ whole, NEW i \in 1 .. k PROVE pos[i] = pos[i - 1] + replay[i].n
    <3>1. i \in 1 .. rd \/ i = rd + 1
      BY <1>1, <2>1
    <3>2. rd + 1 \in rd + 1 .. L
      BY <1>1
    <3> QED
      BY <1>2, <1>3, <1>6, <2>5, <3>1, <3>2
  <2>6. Reaches(pos, pc, whole, e, rp, k)
    BY <1>2, <1>3, <1>4, <1>6, <2>1, <2>2, <2>3, <2>4, <2>5 DEF Reaches
  <2> QED
    BY <2>6
<1> QED
  BY <1>5, <1>6

LEMMA RestoreFacts ==
  ASSUME NEW d \in Decoder
  PROVE  LET e == RestoreState(d)
         IN  /\ e \in Decoder /\ SameRows(d, e) /\ SameCall(d, e)
             /\ e.src = d.saved /\ e.in = d.savedIn /\ e.stale = d.stale
BY DEF RestoreState, Decoder, SameRows, SameCall

\* A suspension: the symbols since the check-point are still to be read, and no batch
\* but the last ends in them.
LEMMA SuspendPosition ==
  ASSUME cfg \in Configs, dec \in Decoder,
         Types(pc, whole, dec, replay, rd, lines, right), pc = "loop", ~ whole,
         rd = Len(replay), NEW pos, Reaches(pos, pc, whole, dec, replay, rd),
         NEW e \in Decoder, e.src = Synced.saved, e.lastRow = dec.lastRow,
         NEW rp \in Seq(Symbol), rp = IF Due(dec) THEN << >> ELSE replay
  PROVE  \E p : Reaches(p, "idle", whole, e, rp, 0)
<1> DEFINE L == Len(replay)
           N == NUM_ARGB_CACHE_ROWS
           h == Full(Row(dec.src))
<1>1. L \in Nat /\ dec.src \in Nat /\ dec.saved \in Nat /\ dec.sync \in Nat
  BY DEF Types, Decoder
<1>2. /\ pos \in [0 .. L -> Nat] /\ pos[L] = dec.src
      /\ \A i \in 0 .. L : pos[i] <= pos[L]
      /\ Ends(dec.lastRow, h)
      /\ ~ Due(dec) =>
           /\ pos[0] = dec.saved /\ dec.sync <= Row(dec.saved) + SYNC_EVERY_N_ROWS
           /\ \A i \in 1 .. L : pos[i] = pos[i - 1] + replay[i].n
  BY DEF Reaches
<1>3. /\ Row(dec.src) \in Nat /\ Row(dec.saved) \in Nat /\ cfg.bottom \in Nat /\ N \in Nat \ {0}
      /\ SYNC_EVERY_N_ROWS \in Nat /\ SYNC_EVERY_N_ROWS <= N
  BY <1>1, Configuration, RowOf, LosslessAssumption
<1>4. h \in Nat /\ h <= Row(dec.src)
  BY <1>3 DEF Full, MinOf
<1>5. CASE Due(dec)
  <2>1. rp = << >> /\ e.src = dec.src
    BY <1>5, SyncedFacts
  <2> DEFINE p == [i \in 0 .. 0 |-> dec.src]
  <2>2. p \in [0 .. 0 -> Nat] /\ p[0] = dec.src
    BY <1>1
  <2> HIDE DEF p
  <2>3. Row(dec.src) + 1 .. h = {}
    BY <1>3, <1>4
  <2>4. Len(rp) = 0 /\ 0 + 1 .. 0 = {} /\ (\A i \in 0 .. 0 : i = 0) /\ dec.src <= dec.src
    BY <1>1, <2>1
  <2>5. Reaches(p, "idle", whole, e, rp, 0)
    BY <1>2, <2>1, <2>2, <2>3, <2>4 DEF Reaches
  <2> QED
    BY <2>5
<1>6. CASE ~ Due(dec)
  <2>1. rp = replay /\ e.src = dec.saved
    BY <1>6, SyncedFacts
  <2>2. ASSUME NEW q \in Row(e.src) + 1 .. h, q % N = 0 PROVE q = e.lastRow
    <3> DEFINE m == dec.lastRow
    <3>1. m \in 0 .. h /\ m % N = 0 /\ \A r \in m + 1 .. h : r % N # 0
      BY <1>2 DEF Ends
    <3>2. q \in Nat /\ q <= m
      BY <1>3, <1>4, <2>1, <2>2, <3>1
    <3>3. Row(dec.src) < dec.sync
      BY <1>1, <1>3, <1>6 DEF Due
    <3>4. m - q < N
      BY <1>1, <1>2, <1>3, <1>4, <1>6, <2>1, <3>1, <3>2, <3>3
    <3> HIDE DEF m, N, h
    <3>5. ASSUME q < m PROVE FALSE
      <4>1. m \in Nat /\ N \in Nat \ {0} /\ q \in Nat /\ q % N = 0 /\ m % N = 0
        BY <1>3, <1>4, <2>2, <3>1, <3>2
      <4>2. m - q >= N
        BY <3>5, <4>1, Multiples
      <4> QED
        BY <3>4, <4>1, <4>2
    <3> QED
      BY <1>4, <3>1, <3>2, <3>5 DEF m
  <2>3. \A i \in 0 + 1 .. L : pos[i] = pos[i - 1] + replay[i].n
    BY <1>2, <1>6
  <2>4. Reaches(pos, "idle", whole, e, rp, 0)
    BY <1>2, <1>6, <2>1, <2>2, <2>3 DEF Reaches
  <2> QED
    BY <2>4
<1> QED
  BY <1>5, <1>6

-----------------------------------------------------------------------------
(* The actions.                                                             *)

LEMMA InLoopMore ==
  ASSUME InLoop
  PROVE  pc = "loop" /\ More(dec)
BY DEF InLoop, More

\* A symbol of an alpha plane.
LEMMA AlphaSymbol ==
  ASSUME LInv, ~ Image, InLoop, NEW s \in Symbols
  PROVE  LET z == Decoded(Synced, s)
         IN  Sound(pc, whole, z.dec, replay, rd, z.lines, z.right)
<1> DEFINE z == Decoded(Synced, s)
           d == Synced
           x == [dec |-> d, lines |-> lines, right |-> right]
           e == z.dec
<1>1. /\ cfg \in Configs /\ dec \in Decoder /\ lines \in Seq(Nat) /\ right \in SUBSET Nat
      /\ Types(pc, whole, dec, replay, rd, lines, right) /\ ~ dec.ahead
      /\ ColourCache(pc, whole, dec) /\ Planes(pc, whole, dec, replay, rd, lines, right)
  BY DEF LInv, Sound, Types
<1>2. s \in Symbol /\ (s.kind = "cache" => cfg.cache)
  BY <1>1, SymbolType
<1>3. /\ pc = "loop" /\ More(dec) /\ whole /\ lines = << >> /\ Compressed(pc, dec, right)
      /\ replay = << >> /\ rd = 0 /\ cfg.kind # "alphaRaw"
      /\ dec.asked <= cfg.bottom /\ (cfg.levels /\ dec.asked > 0 => dec.decoded)
  BY <1>1, InLoopMore DEF Planes, Raw
<1>4. /\ d \in Decoder /\ SameRows(dec, d) /\ d.src = dec.src /\ d.target = dec.target
      /\ d.asked = dec.asked /\ d.want = dec.want /\ d.decoded = dec.decoded
  BY <1>1, SyncedFacts
<1>5. dec.lastRow \in Nat /\ dec.target \in Nat /\ dec.asked \in Nat /\ dec.want \in Nat
      /\ cfg.bottom \in Nat
  BY <1>1, Configuration DEF Decoder
<1> HIDE DEF d
<1>6. Swept(dec.lastRow, x, Row(d.src))
  BY <1>3, <1>4, <1>5 DEF Swept, Compressed, SameRows
<1>7. z \in Output /\ Stepped(d, e, s.n) /\ Swept(dec.lastRow, z, Row(d.src + s.n))
  BY <1>1, <1>2, <1>4, <1>5, <1>6, DecodedAlpha DEF d
<1> HIDE DEF z
<1>8. e \in Decoder /\ z.lines \in Seq(Nat) /\ z.right \in SUBSET Nat
  BY <1>7 DEF Output
<1>9. /\ e.src = d.src + s.n /\ e.target = dec.target /\ e.asked = dec.asked
      /\ e.want = dec.want /\ e.decoded = dec.decoded /\ ~ e.ahead
  BY <1>1, <1>4, <1>7 DEF Stepped, SameCall, SameRows
<1>10. /\ dec.lastRow <= e.lastRow /\ e.lastRow <= Row(e.src) /\ e.lastRow <= e.target
       /\ z.lines = << >>
       /\ ~ CroppedPalette => Clean(z.right, e.prev, e.lastRow)
  BY <1>7, <1>9 DEF Swept
<1>11. ColourCache(pc, whole, e)
  <2>1. s.n \in Nat
    BY <1>2 DEF Symbol
  <2> QED
    BY <1>1, <1>3, <1>7, <1>8, <2>1, SymbolKeepsCache DEF d
<1>12. Compressed(pc, e, z.right)
  <2>1. e.lastRow \in Nat /\ e.target \in Nat
    BY <1>8 DEF Decoder
  <2>2. e.target <= cfg.bottom
    BY <1>3, <1>5, <1>9 DEF Compressed
  <2> QED
    BY <1>3, <1>5, <1>9, <1>10, <2>1, <2>2 DEF Compressed
<1>13. Planes(pc, whole, e, replay, rd, z.lines, z.right)
  BY <1>3, <1>9, <1>10, <1>12 DEF Planes
<1>14. Types(pc, whole, e, replay, rd, z.lines, z.right)
  BY <1>1, <1>8 DEF Types
<1>15. Images(pc, whole, e, replay, rd, z.lines)
  BY DEF Images
<1> QED
  BY <1>9, <1>11, <1>13, <1>14, <1>15 DEF Sound, z

LEMMA ReadNewKeeps ==
  ASSUME LInv, ReadNew
  PROVE  LInv'
<1> DEFINE d == Synced
<1>1. /\ cfg \in Configs /\ dec \in Decoder /\ lines \in Seq(Nat) /\ right \in SUBSET Nat
      /\ Types(pc, whole, dec, replay, rd, lines, right) /\ ~ dec.ahead
      /\ ColourCache(pc, whole, dec) /\ Images(pc, whole, dec, replay, rd, lines)
      /\ replay \in Seq(Symbol) /\ rd \in Nat
      /\ Planes(pc, whole, dec, replay, rd, lines, right)
  BY DEF LInv, Sound, Types
<1>2. /\ InLoop /\ rd = Len(replay) /\ cfg' = cfg /\ pc' = pc /\ whole' = whole
  BY DEF ReadNew
<1>3. PICK s \in Symbols :
        /\ Positions(Decoded(Synced, s))
        /\ IF whole THEN replay' = replay /\ rd' = rd
           ELSE IF Due(dec) THEN replay' = << s >> /\ rd' = 1
           ELSE replay' = Append(replay, s) /\ rd' = rd + 1
  BY DEF ReadNew, AtSync, Due
<1> DEFINE z == Decoded(Synced, s)
<1>4. dec' = z.dec /\ lines' = z.lines /\ right' = z.right
  BY <1>3 DEF Positions
<1>5. s \in Symbol /\ (s.kind = "cache" => cfg.cache)
  BY <1>1, SymbolType
<1>6. pc = "loop" /\ More(dec)
  BY <1>2, InLoopMore
<1>7. CASE Image
  <2>1. /\ d \in Decoder /\ SameRows(dec, d) /\ d.src = dec.src /\ d.target = dec.target
    BY <1>1, SyncedFacts
  <2> HIDE DEF d
  <2>2. dec.target = cfg.bottom /\ Lined(lines, dec.lastRow) /\ dec.batch <= NUM_ARGB_CACHE_ROWS
        /\ \E pos : Reaches(pos, pc, whole, dec, replay, rd)
    BY <1>1, <1>6, <1>7 DEF Images
  <2>3. PICK pos : Reaches(pos, pc, whole, dec, replay, rd)
    BY <2>2
  <2>4. Ends(dec.lastRow, Full(Row(dec.src)))
    BY <1>2, <2>3 DEF Reaches
  <2>5. Batched([dec |-> d, lines |-> lines, right |-> right], Row(d.src))
    BY <2>1, <2>2, <2>4 DEF Batched, SameRows
  <2>6. z \in Output /\ Stepped(d, z.dec, s.n) /\ Batched(z, Row(d.src + s.n))
    BY <1>1, <1>5, <1>7, <2>1, <2>2, <2>5, DecodedNew DEF d
  <2> HIDE DEF z
  <2>7. dec' \in Decoder /\ lines' \in Seq(Nat) /\ right' \in SUBSET Nat
    BY <1>4, <2>6 DEF Output
  <2>8. dec'.src = dec.src + s.n /\ SameCall(d, dec') /\ ~ dec'.ahead
    BY <1>1, <1>4, <2>1, <2>6 DEF Stepped, SameRows
  <2>9. ColourCache(pc, whole, dec')
    <3>1. s.n \in Nat
      BY <1>5 DEF Symbol
    <3>2. Stepped(Synced, dec', s.n)
      BY <1>4, <2>6 DEF d
    <3> QED
      BY <1>1, <1>6, <2>7, <3>1, <3>2, SymbolKeepsCache
  <2>10. Ends(dec'.lastRow, Full(Row(dec'.src))) /\ Lined(lines', dec'.lastRow)
         /\ dec'.batch <= NUM_ARGB_CACHE_ROWS
    BY <1>4, <2>1, <2>6, <2>8 DEF Batched
  <2>11. Types(pc, whole, dec', replay', rd', lines', right')
    <3>1. CASE whole
      BY <1>1, <1>3, <2>7, <3>1 DEF Types
    <3>2. CASE ~ whole /\ Due(dec)
      <4>1. replay' = << s >> /\ rd' = 1
        BY <1>3, <3>2
      <4>2. replay' \in Seq(Symbol) /\ Len(replay') = 1 /\ \A i \in 1 .. 1 : replay'[i] = s
        BY <1>5, <4>1
      <4> QED
        BY <1>1, <1>5, <2>7, <4>1, <4>2 DEF Types
    <3>3. CASE ~ whole /\ ~ Due(dec)
      <4>1. replay' = Append(replay, s) /\ rd' = rd + 1
        BY <1>3, <3>3
      <4>2. replay' \in Seq(Symbol) /\ Len(replay') = Len(replay) + 1
            /\ \A i \in 1 .. Len(replay) + 1 :
                 replay'[i] = IF i <= Len(replay) THEN replay[i] ELSE s
        BY <1>1, <1>5, <4>1
      <4>3. \A i \in 1 .. Len(replay) : replay[i].kind = "cache" => cfg.cache
        BY <1>1 DEF Types
      <4>4. \A i \in 1 .. Len(replay') : replay'[i].kind = "cache" => cfg.cache
        <5> SUFFICES ASSUME NEW i \in 1 .. Len(replay'), replay'[i].kind = "cache"
                     PROVE  cfg.cache
          OBVIOUS
        <5>1. i \in 1 .. Len(replay) + 1
          BY <4>2
        <5>2. CASE i <= Len(replay)
          <6>1. i \in 1 .. Len(replay) /\ replay'[i] = replay[i]
            BY <4>2, <5>1, <5>2
          <6> QED
            BY <4>3, <6>1
        <5>3. CASE ~ (i <= Len(replay))
          <6>1. replay'[i] = s
            BY <4>2, <5>1, <5>3
          <6> QED
            BY <1>5, <6>1
        <5> QED
          BY <5>2, <5>3
      <4>5. rd' \in 0 .. Len(replay')
        BY <1>1, <1>2, <4>1, <4>2
      <4> QED
        BY <1>1, <2>7, <4>2, <4>4, <4>5 DEF Types
    <3> QED
      BY <3>1, <3>2, <3>3
  <2>12. replay' \in Seq(Symbol) /\ rd' \in Nat
    BY <2>11 DEF Types
  <2>13. \E p : Reaches(p, pc, whole, dec', replay', rd')
    BY <1>1, <1>2, <1>3, <1>5, <1>6, <2>3, <2>7, <2>8, <2>10, <2>12, NewPosition DEF d
  <2>14. dec'.target = cfg.bottom
    BY <2>1, <2>2, <2>8 DEF SameCall
  <2>15. Images(pc, whole, dec', replay', rd', lines')
    BY <1>6, <2>10, <2>13, <2>14 DEF Images
  <2>16. Planes(pc, whole, dec', replay', rd', lines', right')
    BY <1>7 DEF Planes
  <2>17. Sound(pc', whole', dec', replay', rd', lines', right')
    BY <1>2, <2>8, <2>9, <2>11, <2>15, <2>16 DEF Sound
  <2> QED
    BY <1>1, <1>2, <2>17, SoundStep
<1>8. CASE ~ Image
  <2>1. Sound(pc, whole, z.dec, replay, rd, z.lines, z.right)
    BY <1>2, <1>8, AlphaSymbol
  <2>2. whole
    BY <1>1, <1>8 DEF Planes
  <2>3. replay' = replay /\ rd' = rd
    BY <1>3, <2>2
  <2>4. Sound(pc', whole', dec', replay', rd', lines', right')
    BY <1>2, <1>4, <2>1, <2>3
  <2> QED
    BY <1>1, <1>2, <2>4, SoundStep
<1> QED
  BY <1>7, <1>8

LEMMA TruncatedLastKeeps ==
  ASSUME LInv, TruncatedLast
  PROVE  LInv'
<1>1. InLoop /\ ~ Image /\ cfg' = cfg /\ cfg \in Configs
  BY DEF TruncatedLast, LInv, Image
<1>2. PICK s \in Symbols : Positions(Decoded(Synced, s))
  BY DEF TruncatedLast
<1> DEFINE z == Decoded(Synced, s)
<1>3. Sound(pc, whole, z.dec, replay, rd, z.lines, z.right)
  BY <1>1, AlphaSymbol
<1>4. dec' = z.dec /\ lines' = z.lines /\ right' = z.right
  BY <1>2 DEF Positions
<1>5. pc' = pc /\ whole' = whole /\ replay' = replay /\ rd' = rd
  BY DEF TruncatedLast
<1>6. Sound(pc', whole', dec', replay', rd', lines', right')
  BY <1>3, <1>4, <1>5
<1> QED
  BY <1>1, <1>6, SoundStep

LEMMA ReadAgainKeeps ==
  ASSUME LInv, ReadAgain
  PROVE  LInv'
<1> DEFINE d == Synced
           s == replay[rd + 1]
           z == Decoded(Synced, s)
<1>1. /\ cfg \in Configs /\ dec \in Decoder /\ lines \in Seq(Nat) /\ right \in SUBSET Nat
      /\ Types(pc, whole, dec, replay, rd, lines, right) /\ ~ dec.ahead
      /\ ColourCache(pc, whole, dec) /\ Images(pc, whole, dec, replay, rd, lines)
      /\ replay \in Seq(Symbol) /\ rd \in 0 .. Len(replay)
      /\ Planes(pc, whole, dec, replay, rd, lines, right)
      /\ \A i \in 1 .. Len(replay) : replay[i].kind = "cache" => cfg.cache
  BY DEF LInv, Sound, Types
<1>2. /\ InLoop /\ rd < Len(replay) /\ cfg' = cfg /\ pc' = pc /\ whole' = whole
      /\ Positions(z)
      /\ IF Due(dec) THEN replay' = SubSeq(replay, rd + 1, Len(replay)) /\ rd' = 1
         ELSE replay' = replay /\ rd' = rd + 1
  BY DEF ReadAgain, AtSync, Due
<1>3. Image
  <2>1. ~ Image => replay = << >>
    BY <1>1 DEF Planes
  <2> QED
    BY <1>1, <1>2, <2>1
<1>4. dec' = z.dec /\ lines' = z.lines /\ right' = z.right
  BY <1>2 DEF Positions
<1>5. rd + 1 \in 1 .. Len(replay)
  BY <1>1, <1>2
<1>6. s \in Symbol /\ (s.kind = "cache" => cfg.cache)
  BY <1>1, <1>5
<1>7. pc = "loop" /\ More(dec)
  BY <1>2, InLoopMore
<1>8. /\ d \in Decoder /\ SameRows(dec, d) /\ d.src = dec.src /\ d.target = dec.target
  BY <1>1, SyncedFacts
<1> HIDE DEF d, s
<1>9. dec.target = cfg.bottom /\ Lined(lines, dec.lastRow) /\ dec.batch <= NUM_ARGB_CACHE_ROWS
      /\ \E pos : Reaches(pos, pc, whole, dec, replay, rd)
  BY <1>1, <1>3, <1>7 DEF Images
<1>10. PICK pos : Reaches(pos, pc, whole, dec, replay, rd)
  BY <1>9
<1> DEFINE L == Len(replay)
<1>11. /\ pos \in [0 .. L -> Nat] /\ pos[rd] = dec.src /\ L \in Nat /\ rd \in Nat
       /\ pos[rd + 1] = pos[(rd + 1) - 1] + replay[rd + 1].n /\ pos[rd + 1] <= pos[L]
       /\ \A q \in Row(dec.src) + 1 .. Full(Row(pos[L])) :
            q % NUM_ARGB_CACHE_ROWS = 0 => q = dec.lastRow
  <2>1. rd + 1 \in 0 .. L /\ rd + 1 \in rd + 1 .. L /\ L \in Nat /\ rd \in Nat
    BY <1>1, <1>5
  <2>2. /\ pos \in [0 .. L -> Nat] /\ pos[rd] = dec.src
        /\ \A i \in 0 .. L : pos[i] <= pos[L]
        /\ \A i \in rd + 1 .. L : pos[i] = pos[i - 1] + replay[i].n
        /\ \A q \in Row(dec.src) + 1 .. Full(Row(pos[L])) :
             q % NUM_ARGB_CACHE_ROWS = 0 => q = dec.lastRow
    BY <1>10 DEF Reaches
  <2> HIDE DEF L
  <2> QED
    BY <2>1, <2>2
<1>12. dec.src + s.n <= pos[L] /\ dec.src + s.n \in Nat /\ pos[L] \in Nat
  <2>1. (rd + 1) - 1 = rd /\ L \in 0 .. L
    BY <1>11
  <2>2. s.n \in Nat /\ dec.src \in Nat
    BY <1>1, <1>6 DEF Symbol, Decoder
  <2> QED
    BY <1>11, <2>1, <2>2 DEF s
<1>13. \A q \in Row(d.src) + 1 .. Row(d.src + s.n) :
         q <= d.target /\ q % NUM_ARGB_CACHE_ROWS = 0 => q = d.lastRow
  <2>1. /\ Row(dec.src + s.n) <= Row(pos[L]) /\ Row(dec.src) \in Nat
        /\ Row(dec.src + s.n) \in Nat /\ Row(pos[L]) \in Nat /\ cfg.bottom \in Nat
    <3>1. dec.src \in Nat
      BY <1>1 DEF Decoder
    <3> QED
      BY <1>1, <1>12, <3>1, Configuration, RowOf, RowsInOrder
  <2>2. d.lastRow = dec.lastRow /\ d.target = cfg.bottom
    BY <1>8, <1>9 DEF SameRows
  <2> SUFFICES ASSUME NEW q \in Row(d.src) + 1 .. Row(d.src + s.n),
                      q <= d.target, q % NUM_ARGB_CACHE_ROWS = 0
               PROVE  q = d.lastRow
    OBVIOUS
  <2>3. q \in Row(dec.src) + 1 .. Full(Row(pos[L]))
    BY <1>8, <2>1, <2>2 DEF Full, MinOf
  <2> QED
    BY <1>11, <2>2, <2>3
<1>14. z \in Output /\ Stepped(d, z.dec, s.n) /\ SameRows(d, z.dec) /\ z.lines = lines
  BY <1>1, <1>6, <1>8, <1>13, DecodedAgain DEF d, s
<1> HIDE DEF z
<1>15. dec' \in Decoder /\ lines' \in Seq(Nat) /\ right' \in SUBSET Nat
  BY <1>4, <1>14 DEF Output
<1>16. dec'.src = dec.src + s.n /\ SameCall(d, dec') /\ ~ dec'.ahead
  BY <1>1, <1>4, <1>8, <1>14 DEF Stepped, SameRows
<1>17. dec'.lastRow = dec.lastRow /\ dec'.batch = dec.batch /\ lines' = lines
  BY <1>4, <1>8, <1>14 DEF SameRows
<1>18. ColourCache(pc, whole, dec')
  <2>1. s.n \in Nat
    BY <1>6 DEF Symbol
  <2>2. Stepped(Synced, dec', s.n)
    BY <1>4, <1>14 DEF d
  <2> QED
    BY <1>1, <1>7, <1>15, <2>1, <2>2, SymbolKeepsCache
<1>19. Types(pc, whole, dec', replay', rd', lines', right')
  <2>1. CASE Due(dec)
    <3>1. replay' = SubSeq(replay, rd + 1, L) /\ rd' = 1
      BY <1>2, <2>1
    <3>2. /\ replay' \in Seq(Symbol) /\ Len(replay') = L - rd
          /\ \A i \in 1 .. L - rd : replay'[i] = replay[(rd + 1) + i - 1]
      BY <1>1, <1>2, <1>11, <3>1
    <3>3. \A i \in 1 .. Len(replay') : replay'[i].kind = "cache" => cfg.cache
      <4>1. \A i \in 1 .. L - rd : (rd + 1) + i - 1 \in 1 .. L
        BY <1>11
      <4> QED
        BY <1>1, <3>2, <4>1
    <3>4. rd' \in 0 .. Len(replay')
      BY <1>2, <1>11, <3>1, <3>2
    <3> QED
      BY <1>1, <1>15, <3>2, <3>3, <3>4 DEF Types
  <2>2. CASE ~ Due(dec)
    BY <1>1, <1>2, <1>11, <1>15, <2>2 DEF Types
  <2> QED
    BY <2>1, <2>2
<1>20. replay' \in Seq(Symbol) /\ rd' \in Nat
  BY <1>19 DEF Types
<1>21. \E p : Reaches(p, pc, whole, dec', replay', rd')
  BY <1>1, <1>2, <1>7, <1>10, <1>15, <1>16, <1>17, <1>20, OldPosition DEF d, s
<1>22. dec'.target = cfg.bottom
  BY <1>8, <1>9, <1>16 DEF SameCall
<1>23. Images(pc, whole, dec', replay', rd', lines')
  BY <1>7, <1>9, <1>17, <1>21, <1>22 DEF Images
<1>24. Planes(pc, whole, dec', replay', rd', lines', right')
  BY <1>3 DEF Planes
<1>25. Sound(pc', whole', dec', replay', rd', lines', right')
  BY <1>2, <1>16, <1>18, <1>19, <1>23, <1>24 DEF Sound
<1> QED
  BY <1>1, <1>2, <1>25, SoundStep

LEMMA SuspendKeeps ==
  ASSUME LInv, Suspend
  PROVE  LInv'
<1> DEFINE d == Synced
<1>1. /\ cfg \in Configs /\ dec \in Decoder /\ lines \in Seq(Nat) /\ right \in SUBSET Nat
      /\ Types(pc, whole, dec, replay, rd, lines, right) /\ ~ dec.ahead
      /\ ColourCache(pc, whole, dec) /\ Images(pc, whole, dec, replay, rd, lines)
      /\ replay \in Seq(Symbol) /\ Planes(pc, whole, dec, replay, rd, lines, right)
  BY DEF LInv, Sound, Types
<1>2. /\ InLoop /\ ~ whole /\ rd = Len(replay) /\ cfg' = cfg /\ pc' = "idle"
      /\ dec' = RestoreState(d) /\ replay' = (IF Due(dec) THEN << >> ELSE replay) /\ rd' = 0
      /\ whole' = whole /\ lines' = lines /\ right' = right
  BY DEF Suspend, AtSync, Due
<1>3. pc = "loop" /\ Image
  BY <1>1, <1>2, InLoopMore DEF Planes
<1>4. /\ d \in Decoder /\ SameRows(dec, d) /\ d.src = dec.src /\ d.in = dec.in
      /\ d.stale = dec.stale
      /\ IF Due(dec) THEN d.saved = dec.src /\ d.savedIn = dec.in ELSE d = dec
  BY <1>1, SyncedFacts
<1> HIDE DEF d
<1>5. /\ dec' \in Decoder /\ SameRows(d, dec') /\ dec'.src = d.saved /\ dec'.in = d.savedIn
      /\ dec'.stale = d.stale
  BY <1>2, <1>4, RestoreFacts
<1>6. dec'.lastRow = dec.lastRow /\ dec'.batch = dec.batch /\ ~ dec'.ahead
  BY <1>1, <1>4, <1>5 DEF SameRows
<1>7. ColourCache("idle", whole, dec')
  <2>1. ASSUME cfg.cache PROVE dec'.in = 0 .. dec'.src - 1
    <3>1. CASE Due(dec)
      <4>1. dec.in = 0 .. dec.cached - 1 /\ dec.cached = dec.src
        BY <1>1, <1>3, <2>1, <3>1 DEF ColourCache
      <4> QED
        BY <1>4, <1>5, <3>1, <4>1
    <3>2. CASE ~ Due(dec)
      <4>1. dec.savedIn = 0 .. dec.saved - 1
        BY <1>1, <1>2, <1>3, <2>1, <3>2 DEF ColourCache
      <4> QED
        BY <1>4, <1>5, <3>2, <4>1
    <3> QED
      BY <3>1, <3>2
  <2>2. ~ dec'.stale
    BY <1>1, <1>4, <1>5 DEF ColourCache
  <2> QED
    BY <2>1, <2>2 DEF ColourCache
<1>8. Lined(lines, dec.lastRow) /\ dec.batch <= NUM_ARGB_CACHE_ROWS
      /\ \E pos : Reaches(pos, pc, whole, dec, replay, rd)
  BY <1>1, <1>3 DEF Images
<1>9. PICK pos : Reaches(pos, pc, whole, dec, replay, rd)
  BY <1>8
<1>10. replay' \in Seq(Symbol)
  BY <1>1, <1>2
<1>11. \E p : Reaches(p, "idle", whole, dec', replay', 0)
  BY <1>1, <1>2, <1>3, <1>5, <1>6, <1>9, <1>10, SuspendPosition DEF d
<1>12. Images("idle", whole, dec', replay', 0, lines)
  BY <1>6, <1>8, <1>11 DEF Images
<1>13. Planes("idle", whole, dec', replay', 0, lines, right)
  BY <1>3 DEF Planes
<1>14. Types("idle", whole, dec', replay', 0, lines, right)
  <2>1. \A i \in 1 .. Len(replay') : replay'[i].kind = "cache" => cfg.cache
    BY <1>1, <1>2 DEF Types
  <2>2. 0 \in 0 .. Len(replay')
    BY <1>10
  <2> QED
    BY <1>1, <1>5, <1>10, <2>1, <2>2 DEF Types
<1>15. Sound(pc', whole', dec', replay', rd', lines', right')
  BY <1>2, <1>6, <1>7, <1>12, <1>13, <1>14 DEF Sound
<1> QED
  BY <1>1, <1>2, <1>15, SoundStep

\* Between calls, and when a call gives up, no position changes.
LEMMA BetweenCalls ==
  ASSUME LInv, cfg' = cfg, pc' \in {"header", "idle", "error"}, pc # "done",
         pc = "idle" => pc' = "idle", pc' # "error" => pc \in {"header", "idle"},
         whole' \in BOOLEAN, whole => whole',
         UNCHANGED <<dec, replay, rd, lines, right>>
  PROVE  LInv'
<1>1. /\ cfg \in Configs /\ Types(pc, whole, dec, replay, rd, lines, right) /\ ~ dec.ahead
      /\ ColourCache(pc, whole, dec) /\ Images(pc, whole, dec, replay, rd, lines)
      /\ Planes(pc, whole, dec, replay, rd, lines, right)
  BY DEF LInv, Sound
<1>2. Types(pc', whole', dec, replay, rd, lines, right)
  BY <1>1 DEF Types
<1>3. ColourCache(pc', whole', dec)
  BY <1>1 DEF ColourCache
<1>4. Images(pc', whole', dec, replay, rd, lines)
  <2> SUFFICES ASSUME Image PROVE Images(pc', whole', dec, replay, rd, lines)
    BY DEF Images
  <2>1. ASSUME NEW pos, Reaches(pos, pc, whole, dec, replay, rd)
        PROVE  Reaches(pos, pc', whole', dec, replay, rd)
    BY <2>1 DEF Reaches
  <2> QED
    BY <1>1, <2>1 DEF Images
<1>5. Planes(pc', whole', dec, replay, rd, lines, right)
  BY <1>1 DEF Planes, Raw, Compressed
<1>6. Sound(pc', whole', dec', replay', rd', lines', right')
  BY <1>1, <1>2, <1>3, <1>4, <1>5 DEF Sound
<1> QED
  BY <1>1, <1>6, SoundStep

LEMMA HeaderKeeps ==
  ASSUME LInv, Header \/ HeaderFails \/ HeaderShort \/ AppendLast \/ Truncated
  PROVE  LInv'
<1>1. whole \in BOOLEAN
  BY DEF LInv, Sound, Types
<1>2. CASE Header
  BY <1>1, <1>2, BetweenCalls DEF Header
<1>3. CASE HeaderFails
  BY <1>1, <1>3, BetweenCalls DEF HeaderFails, HeaderGivenUp
<1>4. CASE HeaderShort
  BY <1>1, <1>4, BetweenCalls DEF HeaderShort, HeaderGivenUp
<1>5. CASE AppendLast
  BY <1>1, <1>5, BetweenCalls DEF AppendLast
<1>6. CASE Truncated
  BY <1>1, <1>6, BetweenCalls DEF Truncated, InLoop
<1> QED
  BY <1>2, <1>3, <1>4, <1>5, <1>6

LEMMA EnterFacts ==
  ASSUME cfg \in Configs, whole \in BOOLEAN, NEW d \in Decoder, NEW last \in Nat
  PROVE  LET e == Enter(d, last)
         IN  /\ e \in Decoder /\ SameRows(d, e) /\ e.src = d.src /\ e.in = d.in
             /\ e.cached = d.src /\ e.target = last /\ e.stale = d.stale
             /\ e.asked = d.asked /\ e.want = d.want /\ e.decoded = d.decoded
             /\ ~ whole => e.sync = Row(d.src)
<1> DEFINE sync == IF whole THEN Never ELSE Row(d.src)
           e == [d EXCEPT !.target = last, !.cached = d.src, !.sync = sync]
<1>1. d.src \in Nat /\ d.in \in SUBSET Nat
  BY DEF Decoder
<1>2. sync \in Nat
  BY <1>1, Configuration, RowOf DEF Never, end
<1>3. Enter(d, last) = e
  BY DEF Enter
<1>4. ~ whole => sync = Row(d.src)
  OBVIOUS
<1> HIDE DEF sync
<1> QED
  BY <1>1, <1>2, <1>3, <1>4 DEF Decoder, SameRows

\* A call begins where the colour cache has all pixels.
LEMMA EnterCache ==
  ASSUME cfg \in Configs, whole \in BOOLEAN, NEW d \in Decoder, NEW last \in Nat,
         ColourCache("idle", whole, d)
  PROVE  ColourCache("loop", whole, Enter(d, last)) /\ (~ whole => Due(Enter(d, last)))
<1> DEFINE e == Enter(d, last)
<1>1. /\ e.src = d.src /\ e.in = d.in /\ e.cached = d.src /\ e.stale = d.stale
      /\ ~ whole => e.sync = Row(d.src)
  BY EnterFacts
<1> HIDE DEF e
<1>2. d.src \in Nat /\ Row(d.src) \in Nat
  BY Configuration, RowOf DEF Decoder
<1>3. ~ whole => Due(e)
  BY <1>1, <1>2 DEF Due
<1>4. d.src <= d.src
  BY <1>2
<1>5. ColourCache("loop", whole, e)
  BY <1>1, <1>3, <1>4 DEF ColourCache
<1> QED
  BY <1>3, <1>5 DEF e

LEMMA DecodeImageKeeps ==
  ASSUME LInv, DecodeImage
  PROVE  LInv'
<1>1. /\ cfg \in Configs /\ dec \in Decoder /\ whole \in BOOLEAN
      /\ Types(pc, whole, dec, replay, rd, lines, right) /\ ~ dec.ahead
      /\ ColourCache(pc, whole, dec) /\ Images(pc, whole, dec, replay, rd, lines)
  BY DEF LInv, Sound, Types
<1>2. pc = "idle" /\ Image /\ dec' = Enter(dec, cfg.bottom) /\ pc' = "loop"
      /\ UNCHANGED <<cfg, whole, replay, rd, lines, right>>
  BY DEF DecodeImage
<1>3. cfg.bottom \in Nat
  BY <1>1, Configuration
<1>4. /\ dec' \in Decoder /\ SameRows(dec, dec') /\ dec'.src = dec.src
      /\ dec'.target = cfg.bottom
  BY <1>1, <1>2, <1>3, EnterFacts
<1>5. ColourCache("loop", whole, dec') /\ (~ whole => Due(dec'))
  BY <1>1, <1>2, <1>3, EnterCache
<1>6. Types("loop", whole, dec', replay, rd, lines, right)
  BY <1>1, <1>4 DEF Types
<1>7. Images("loop", whole, dec', replay, rd, lines)
  <2>1. PICK pos : Reaches(pos, pc, whole, dec, replay, rd)
    BY <1>1, <1>2 DEF Images
  <2>2. Reaches(pos, "loop", whole, dec', replay, rd)
    BY <1>4, <1>5, <2>1 DEF Reaches, SameRows
  <2> QED
    BY <1>1, <1>2, <1>4, <2>2 DEF Images, SameRows
<1>8. Planes("loop", whole, dec', replay, rd, lines, right)
  BY <1>2 DEF Planes
<1>9. Sound(pc', whole', dec', replay', rd', lines', right')
  BY <1>1, <1>2, <1>4, <1>5, <1>6, <1>7, <1>8 DEF Sound, SameRows
<1> QED
  BY <1>1, <1>2, <1>9, SoundStep

\* The rows of the last call that are left: all before the target are there.
LEMMA CallIsDone ==
  ASSUME cfg \in Configs, dec \in Decoder, pc = "loop", ~ InLoop
  PROVE  /\ ~ More(dec) /\ dec.target <= Row(dec.src) /\ dec.target * W <= dec.src
         /\ MinOf(Row(dec.src), dec.target) = dec.target
<1>1. dec.src \in Nat /\ dec.target \in Nat /\ W \in Nat \ {0}
  BY Configuration DEF Decoder
<1>2. ~ (dec.src < dec.target * W)
  BY DEF InLoop
<1>3. Row(dec.src) \in Nat /\ ~ (Row(dec.src) < dec.target)
  BY <1>1, <1>2, RowOf
<1>4. dec.target <= Row(dec.src)
  BY <1>1, <1>3
<1>5. dec.target * W <= dec.src
  BY <1>1, <1>4, RowStart
<1>6. MinOf(Row(dec.src), dec.target) = dec.target
  BY <1>1, <1>3, <1>4 DEF MinOf
<1> QED
  BY <1>2, <1>4, <1>5, <1>6 DEF More

LEMMA ImageDoneKeeps ==
  ASSUME LInv, ImageDone
  PROVE  LInv'
<1> DEFINE x == [dec |-> dec, lines |-> lines, right |-> right]
           y == Process(x, cfg.bottom)
<1>1. /\ cfg \in Configs /\ dec \in Decoder /\ lines \in Seq(Nat) /\ right \in SUBSET Nat
      /\ Types(pc, whole, dec, replay, rd, lines, right) /\ ~ dec.ahead
      /\ ColourCache(pc, whole, dec) /\ Images(pc, whole, dec, replay, rd, lines)
      /\ replay \in Seq(Symbol) /\ rd \in 0 .. Len(replay)
  BY DEF LInv, Sound, Types
<1>2. pc = "loop" /\ ~ InLoop /\ Image /\ Positions(LastRows) /\ pc' = "done"
      /\ UNCHANGED <<cfg, whole, replay, rd>>
  BY DEF ImageDone
<1>3. /\ dec.target = cfg.bottom /\ Lined(lines, dec.lastRow)
      /\ dec.batch <= NUM_ARGB_CACHE_ROWS
      /\ \E pos : Reaches(pos, pc, whole, dec, replay, rd)
  BY <1>1, <1>2 DEF Images
<1>4. /\ cfg.bottom <= Row(dec.src) /\ cfg.bottom * W <= dec.src
      /\ MinOf(Row(dec.src), dec.target) = cfg.bottom
  BY <1>1, <1>2, <1>3, CallIsDone
<1>5. dec' = y.dec /\ lines' = y.lines /\ right' = y.right
  BY <1>2, <1>4 DEF Positions, LastRows
<1>6. Ends(dec.lastRow, cfg.bottom)
  <2>1. PICK pos : Reaches(pos, pc, whole, dec, replay, rd)
    BY <1>3
  <2> DEFINE far == pos[Len(replay)]
  <2>2. pos[rd] = dec.src /\ pos[rd] <= far /\ far \in Nat /\ Ends(dec.lastRow, Full(Row(far)))
    BY <1>1, <2>1 DEF Reaches
  <2> HIDE DEF far
  <2>3. dec.src \in Nat /\ cfg.bottom \in Nat /\ W \in Nat \ {0}
    BY <1>1, Configuration DEF Decoder
  <2>4. Row(dec.src) \in Nat /\ Row(far) \in Nat /\ Row(dec.src) <= Row(far)
    BY <2>2, <2>3, RowOf, RowsInOrder
  <2>5. Full(Row(far)) = cfg.bottom
    BY <1>4, <2>3, <2>4 DEF Full, MinOf
  <2> QED
    BY <2>2, <2>5
<1>7. x \in Output /\ x.dec = dec /\ x.lines = lines
  BY <1>1 DEF Output
<1>8. cfg.bottom \in Nat /\ cfg.bottom <= cfg.bottom /\ cfg.bottom <= cfg.bottom + 1
  BY <1>1, Configuration
<1> HIDE DEF x
<1>9. /\ Kept(x, y) /\ y.dec.lastRow = cfg.bottom /\ Lined(y.lines, cfg.bottom)
      /\ y.dec.batch <= NUM_ARGB_CACHE_ROWS
  BY <1>1, <1>2, <1>3, <1>4, <1>6, <1>7, <1>8, ProcessImage
<1> HIDE DEF y
<1>10. /\ dec' \in Decoder /\ lines' \in Seq(Nat) /\ right' \in SUBSET Nat
       /\ ~ dec'.ahead /\ dec'.stale = dec.stale
  BY <1>1, <1>5, <1>7, <1>9 DEF Kept, Others, Output
<1>11. Types("done", whole, dec', replay, rd, lines', right')
  BY <1>1, <1>10 DEF Types
<1>12. ColourCache("done", whole, dec')
  BY <1>1, <1>10 DEF ColourCache
<1>13. Images("done", whole, dec', replay, rd, lines')
  BY <1>5, <1>9 DEF Images
<1>14. Planes("done", whole, dec', replay, rd, lines', right')
  BY <1>2 DEF Planes
<1>15. Sound(pc', whole', dec', replay', rd', lines', right')
  BY <1>2, <1>10, <1>11, <1>12, <1>13, <1>14 DEF Sound
<1> QED
  BY <1>1, <1>2, <1>15, SoundStep

LEMMA GivenFacts ==
  ASSUME cfg.bottom \in Nat, NEW d \in Decoder, NEW upTo \in Nat
  PROVE  LET e == Given(d, upTo)
         IN  /\ e \in Decoder /\ SameRows(d, e) /\ e.src = d.src /\ e.in = d.in
             /\ e.stale = d.stale /\ e.asked = d.asked + d.want
             /\ (d.decoded => e.decoded) /\ (upTo >= cfg.bottom => e.decoded)
             /\ (e.decoded /\ upTo < cfg.bottom => d.decoded)
<1> DEFINE asked == d.asked + d.want
           decoded == d.decoded \/ upTo >= cfg.bottom
           e == [d EXCEPT !.asked = asked, !.want = 0, !.decoded = decoded]
<1>1. d.asked \in Nat /\ d.want \in Nat /\ d.decoded \in BOOLEAN
  BY DEF Decoder
<1>2. asked \in Nat /\ decoded \in BOOLEAN
  BY <1>1
<1>3. Given(d, upTo) = e
  BY DEF Given
<1> HIDE DEF asked, decoded
<1>4. /\ e \in Decoder /\ SameRows(d, e) /\ e.src = d.src /\ e.in = d.in
      /\ e.stale = d.stale /\ e.asked = asked /\ e.decoded = decoded
  BY <1>2 DEF Decoder, SameRows
<1> HIDE DEF e
<1>5. (d.decoded => decoded) /\ (upTo >= cfg.bottom => decoded)
  BY <1>1 DEF decoded
<1>6. decoded /\ upTo < cfg.bottom => d.decoded
  <2>1. upTo < cfg.bottom => ~ (upTo >= cfg.bottom)
    OBVIOUS
  <2> QED
    BY <2>1 DEF decoded
<1>7. e.asked = d.asked + d.want
  BY <1>4 DEF asked
<1> QED
  BY <1>3, <1>4, <1>5, <1>6, <1>7

LEMMA AlphaDoneKeeps ==
  ASSUME LInv, AlphaDone
  PROVE  LInv'
<1> DEFINE x == [dec |-> dec, lines |-> lines, right |-> right]
           y == Process(x, dec.target)
<1>1. /\ cfg \in Configs /\ dec \in Decoder /\ lines \in Seq(Nat) /\ right \in SUBSET Nat
      /\ Types(pc, whole, dec, replay, rd, lines, right) /\ ~ dec.ahead
      /\ ColourCache(pc, whole, dec) /\ Planes(pc, whole, dec, replay, rd, lines, right)
  BY DEF LInv, Sound, Types
<1>2. pc = "loop" /\ ~ InLoop /\ ~ Image /\ pc' = "idle" /\ UNCHANGED <<cfg, whole, replay, rd>>
      /\ Positions([LastRows EXCEPT !.dec = Given(@, dec.target)])
  BY DEF AlphaDone
<1>3. /\ whole /\ replay = << >> /\ rd = 0 /\ lines = << >> /\ cfg.kind # "alphaRaw"
      /\ dec.asked <= cfg.bottom /\ (cfg.levels /\ dec.asked > 0 => dec.decoded)
      /\ Compressed(pc, dec, right)
  BY <1>1, <1>2 DEF Planes, Raw
<1>4. /\ ~ More(dec) /\ dec.target <= Row(dec.src) /\ dec.target * W <= dec.src
      /\ MinOf(Row(dec.src), dec.target) = dec.target
  BY <1>1, <1>2, CallIsDone
<1>5. /\ dec.lastRow \in Nat /\ dec.target \in Nat /\ dec.asked \in Nat /\ dec.want \in Nat
      /\ cfg.bottom \in Nat
  BY <1>1, Configuration DEF Decoder
<1>6. /\ dec.lastRow <= dec.target /\ dec.want \in 1 .. cfg.bottom - dec.asked
      /\ dec.target = IF cfg.levels /\ dec.asked = 0 THEN cfg.bottom ELSE dec.asked + dec.want
      /\ (dec.decoded => dec.lastRow = cfg.bottom)
      /\ (~ CroppedPalette => Clean(right, dec.prev, dec.lastRow))
  BY <1>2, <1>3 DEF Compressed
<1>7. x \in Output /\ x.dec = dec /\ x.lines = lines /\ x.right = right
  BY <1>1 DEF Output
<1>8. LastRows = y
  BY <1>4 DEF LastRows
<1> HIDE DEF x
<1>9. /\ Kept(x, y) /\ y.dec.lastRow = dec.target /\ y.lines = << >>
      /\ ~ CroppedPalette => Clean(y.right, y.dec.prev, dec.target)
  BY <1>1, <1>2, <1>3, <1>4, <1>5, <1>6, <1>7, ProcessAlpha
<1> HIDE DEF y
<1>10. y = [dec |-> y.dec, lines |-> y.lines, right |-> y.right] /\ y.dec \in Decoder
       /\ y.right \in SUBSET Nat
  BY <1>9 DEF Kept, Output
<1> DEFINE e == Given(y.dec, dec.target)
<1>11. dec' = e /\ lines' = << >> /\ right' = y.right
  BY <1>2, <1>8, <1>9, <1>10 DEF Positions
<1>12. /\ e \in Decoder /\ SameRows(y.dec, e) /\ e.src = y.dec.src /\ e.in = y.dec.in
       /\ e.stale = y.dec.stale /\ e.asked = y.dec.asked + y.dec.want
       /\ (dec.target >= cfg.bottom => e.decoded)
       /\ (e.decoded /\ dec.target < cfg.bottom => y.dec.decoded)
       /\ (y.dec.decoded => e.decoded)
  BY <1>5, <1>10, GivenFacts
<1> HIDE DEF e
<1>13. /\ y.dec.src = dec.src /\ y.dec.in = dec.in /\ y.dec.stale = dec.stale
       /\ y.dec.asked = dec.asked /\ y.dec.want = dec.want /\ y.dec.decoded = dec.decoded
       /\ y.dec.ahead = dec.ahead
  BY <1>7, <1>9 DEF Kept, Others
<1>14. /\ dec' \in Decoder /\ dec'.src = dec.src /\ dec'.in = dec.in /\ dec'.stale = dec.stale
       /\ dec'.asked = dec.asked + dec.want
       /\ (dec.target >= cfg.bottom => dec'.decoded)
       /\ (dec'.decoded /\ dec.target < cfg.bottom => dec.decoded)
       /\ (dec.decoded => dec'.decoded)
       /\ dec'.lastRow = dec.target /\ dec'.prev = y.dec.prev /\ ~ dec'.ahead
  BY <1>1, <1>9, <1>11, <1>12, <1>13 DEF SameRows
<1>15. Compressed("idle", dec', right')
  <2>1. dec.target <= cfg.bottom /\ dec.asked + dec.want <= dec.target
    BY <1>5, <1>6
  <2>2. dec'.decoded => dec'.lastRow = cfg.bottom
    BY <1>5, <1>6, <1>14, <2>1
  <2>3. ~ CroppedPalette => Clean(right', dec'.prev, dec'.lastRow)
    BY <1>9, <1>11, <1>14
  <2> QED
    BY <1>4, <1>14, <2>1, <2>2, <2>3 DEF Compressed
<1>16. Planes("idle", whole, dec', replay, rd, lines', right')
  <2>1. dec'.asked <= cfg.bottom
    BY <1>5, <1>6, <1>14
  <2>2. ASSUME cfg.levels PROVE dec'.decoded
    <3>1. CASE dec.asked = 0
      BY <1>5, <1>6, <1>14, <2>2, <3>1
    <3>2. CASE dec.asked # 0
      BY <1>3, <1>5, <1>14, <2>2, <3>2
    <3> QED
      BY <3>1, <3>2
  <2> QED
    BY <1>3, <1>11, <1>15, <2>1, <2>2 DEF Planes
<1>17. ColourCache("idle", whole, dec')
  <2>1. ~ dec.stale /\ (cfg.cache => dec.in = 0 .. dec.cached - 1 /\ dec.cached = dec.src)
    BY <1>1, <1>2, <1>4 DEF ColourCache
  <2> QED
    BY <1>14, <2>1 DEF ColourCache
<1>18. Types("idle", whole, dec', replay, rd, lines', right')
  BY <1>1, <1>10, <1>11, <1>14 DEF Types
<1>19. Images("idle", whole, dec', replay, rd, lines')
  BY <1>2 DEF Images
<1>20. Sound(pc', whole', dec', replay', rd', lines', right')
  BY <1>2, <1>14, <1>16, <1>17, <1>18, <1>19 DEF Sound
<1> QED
  BY <1>1, <1>2, <1>20, SoundStep

\* Any part of an alpha step that leaves the colour cache as it is.
LEMMA AlphaStep ==
  ASSUME LInv, ~ Image, pc = "idle", cfg' = cfg, pc' = "idle",
         UNCHANGED <<whole, replay, rd, lines>>,
         dec' \in Decoder, right' \in SUBSET Nat, ~ dec'.ahead,
         dec'.src = dec.src, dec'.in = dec.in, dec'.stale = dec.stale,
         dec'.asked <= cfg.bottom, cfg.levels => dec'.decoded,
         IF cfg.kind = "alphaRaw" THEN Raw("idle", dec', right')
                                  ELSE Compressed("idle", dec', right')
  PROVE  LInv'
<1>1. /\ cfg \in Configs /\ Types(pc, whole, dec, replay, rd, lines, right)
      /\ ColourCache(pc, whole, dec) /\ Planes(pc, whole, dec, replay, rd, lines, right)
  BY DEF LInv, Sound
<1>2. Types("idle", whole, dec', replay, rd, lines, right')
  BY <1>1 DEF Types
<1>3. ColourCache("idle", whole, dec')
  BY <1>1 DEF ColourCache
<1>4. Images("idle", whole, dec', replay, rd, lines)
  BY DEF Images
<1>5. Planes("idle", whole, dec', replay, rd, lines, right')
  BY <1>1 DEF Planes
<1>6. Sound(pc', whole', dec', replay', rd', lines', right')
  BY <1>2, <1>3, <1>4, <1>5 DEF Sound
<1> QED
  BY <1>1, <1>6, SoundStep

\* A request for n rows, in each of the four ways it is met.
LEMMA AlphaRowsKeeps ==
  ASSUME LInv, AlphaRows
  PROVE  LInv'
<1>1. /\ cfg \in Configs /\ dec \in Decoder /\ right \in SUBSET Nat /\ whole \in BOOLEAN
      /\ Types(pc, whole, dec, replay, rd, lines, right) /\ ~ dec.ahead
      /\ ColourCache(pc, whole, dec) /\ Planes(pc, whole, dec, replay, rd, lines, right)
  BY DEF LInv, Sound, Types
<1>2. PICK n \in 1 .. cfg.bottom - dec.asked :
        LET last == RowsToDecode(n)
            d    == [dec EXCEPT !.want = n]
        IN  IF dec.decoded
            THEN dec' = Given(d, 0) /\ UNCHANGED <<pc, right>>
            ELSE IF cfg.kind = "alphaRaw"
            THEN /\ right' = RightAfter(dec.asked, last, dec.prev, right)
                 /\ dec' = Given([d EXCEPT !.prev = last - 1], last)
                 /\ UNCHANGED pc
            ELSE IF dec.lastRow >= last
            THEN dec' = Given(d, last) /\ UNCHANGED <<pc, right>>
            ELSE dec' = Enter(d, last) /\ pc' = "loop" /\ UNCHANGED right
  BY DEF AlphaRows
<1>3. pc = "idle" /\ ~ Image /\ UNCHANGED <<cfg, whole, replay, rd, lines>>
  BY DEF AlphaRows
<1>4. /\ whole /\ replay = << >> /\ rd = 0 /\ lines = << >>
      /\ dec.asked <= cfg.bottom /\ (cfg.levels /\ dec.asked > 0 => dec.decoded)
      /\ IF cfg.kind = "alphaRaw" THEN Raw("idle", dec, right)
                                  ELSE Compressed("idle", dec, right)
  BY <1>1, <1>3 DEF Planes
<1> DEFINE last == RowsToDecode(n)
           d == [dec EXCEPT !.want = n]
<1>5. /\ dec.lastRow \in Nat /\ dec.asked \in Nat /\ dec.prev \in Int /\ n \in Nat \ {0}
      /\ cfg.bottom \in Nat /\ cfg.bottom > 0 /\ n <= cfg.bottom - dec.asked
      /\ dec.asked + n <= cfg.bottom
  BY <1>1, Configuration DEF Decoder
<1>6. /\ d \in Decoder /\ SameRows(dec, d) /\ d.src = dec.src /\ d.in = dec.in /\ d.cached = dec.cached
      /\ d.stale = dec.stale /\ d.asked = dec.asked /\ d.want = n /\ d.decoded = dec.decoded
  BY <1>1, <1>5 DEF Decoder, SameRows
<1>7. last = (IF cfg.levels /\ dec.asked = 0 THEN cfg.bottom ELSE dec.asked + n)
      /\ last \in Nat /\ dec.asked + n <= last /\ last <= cfg.bottom /\ dec.asked < last
  BY <1>5 DEF RowsToDecode
<1>8. cfg.levels /\ ~ dec.decoded => last >= cfg.bottom
  BY <1>4, <1>5, <1>7
<1> HIDE DEF last, d
<1>9. CASE dec.decoded
  <2>1. dec' = Given(d, 0) /\ UNCHANGED <<pc, right>>
    BY <1>2, <1>9 DEF d
  <2>2. /\ dec' \in Decoder /\ SameRows(d, dec') /\ dec'.src = d.src /\ dec'.in = d.in
        /\ dec'.stale = d.stale /\ dec'.asked = d.asked + d.want
        /\ (d.decoded => dec'.decoded)
    BY <1>5, <1>6, <2>1, GivenFacts
  <2>3. /\ dec'.asked = dec.asked + n /\ dec'.decoded /\ dec'.lastRow = dec.lastRow
        /\ dec'.prev = dec.prev /\ ~ dec'.ahead
    BY <1>1, <1>6, <1>9, <2>2 DEF SameRows
  <2>4. CASE cfg.kind = "alphaRaw"
    <3>1. Raw("idle", dec', right')
      BY <1>4, <1>9, <2>1, <2>3, <2>4 DEF Raw
    <3> QED
      BY <1>1, <1>3, <1>5, <1>6, <2>1, <2>2, <2>3, <2>4, <3>1, AlphaStep
  <2>5. CASE cfg.kind # "alphaRaw"
    <3>1. Compressed("idle", dec, right)
      BY <1>4, <2>5
    <3>2. dec.lastRow = cfg.bottom
      BY <1>9, <3>1 DEF Compressed
    <3>3. Compressed("idle", dec', right')
      BY <1>5, <1>6, <2>1, <2>2, <2>3, <3>1, <3>2 DEF Compressed
    <3> QED
      BY <1>1, <1>3, <1>5, <1>6, <2>1, <2>2, <2>3, <2>5, <3>3, AlphaStep
  <2> QED
    BY <2>4, <2>5
<1>10. CASE ~ dec.decoded /\ cfg.kind = "alphaRaw"
  <2> DEFINE e == [d EXCEPT !.prev = last - 1]
  <2>1. right' = RightAfter(dec.asked, last, dec.prev, right) /\ dec' = Given(e, last)
        /\ pc' = pc
    BY <1>2, <1>10 DEF d, last
  <2>2. /\ e \in Decoder /\ e.src = d.src /\ e.in = d.in /\ e.stale = d.stale
        /\ e.asked = d.asked /\ e.want = d.want /\ e.prev = last - 1 /\ e.ahead = d.ahead
        /\ e.decoded = d.decoded
    BY <1>6, <1>7 DEF Decoder
  <2> HIDE DEF e
  <2>3. /\ dec' \in Decoder /\ SameRows(e, dec') /\ dec'.src = e.src /\ dec'.in = e.in
        /\ dec'.stale = e.stale /\ dec'.asked = e.asked + e.want
        /\ (last >= cfg.bottom => dec'.decoded)
        /\ (dec'.decoded /\ last < cfg.bottom => e.decoded)
    BY <1>5, <1>7, <2>1, <2>2, GivenFacts
  <2>4. dec'.asked = dec.asked + n /\ dec'.prev = last - 1 /\ ~ dec'.ahead
    BY <1>1, <1>6, <2>2, <2>3 DEF SameRows
  <2>5. dec.prev = dec.asked - 1 /\ 0 .. dec.asked - 1 \subseteq right
    BY <1>4, <1>10 DEF Raw
  <2>6. right' = right \cup dec.asked .. last - 1
    <3>1. dec.asked = 0 \/ dec.asked - 1 \in right
      BY <1>5, <2>5
    <3> QED
      BY <2>1, <2>5, <3>1 DEF RightAfter, Unfiltered
  <2>7. right' \in SUBSET Nat /\ 0 .. last - 1 \subseteq right'
    <3>1. dec.asked .. last - 1 \subseteq Nat
      BY <1>5, <1>7
    <3>2. ASSUME NEW r \in 0 .. last - 1 PROVE r \in right'
      <4>1. r \in 0 .. dec.asked - 1 \/ r \in dec.asked .. last - 1
        BY <1>5, <1>7
      <4> QED
        BY <2>5, <2>6, <4>1
    <3> QED
      BY <1>1, <2>6, <3>1, <3>2
  <2>8. Raw("idle", dec', right')
    <3>1. CASE last >= cfg.bottom
      <4>1. last = cfg.bottom
        BY <1>5, <1>7, <3>1
      <4>2. dec'.decoded
        BY <2>3, <3>1
      <4> QED
        BY <2>7, <4>1, <4>2 DEF Raw
    <3>2. CASE last < cfg.bottom
      <4>1. last = dec.asked + n
        BY <1>7, <3>2
      <4>2. ~ dec'.decoded
        BY <1>6, <1>10, <2>2, <2>3, <3>2
      <4>3. dec'.prev = dec'.asked - 1 /\ 0 .. dec'.asked - 1 \subseteq right'
        BY <2>4, <2>7, <4>1
      <4> QED
        BY <4>2, <4>3 DEF Raw
    <3> QED
      BY <1>5, <1>7, <3>1, <3>2
  <2>9. cfg.levels => dec'.decoded
    BY <1>8, <1>10, <2>3
  <2> QED
    BY <1>3, <1>5, <1>6, <1>10, <2>1, <2>2, <2>3, <2>4, <2>7, <2>8, <2>9, AlphaStep
<1>11. CASE ~ dec.decoded /\ cfg.kind # "alphaRaw" /\ dec.lastRow >= last
  <2>1. dec' = Given(d, last) /\ UNCHANGED <<pc, right>>
    BY <1>2, <1>11 DEF d, last
  <2>2. /\ dec' \in Decoder /\ SameRows(d, dec') /\ dec'.src = d.src /\ dec'.in = d.in
        /\ dec'.stale = d.stale /\ dec'.asked = d.asked + d.want
        /\ (last >= cfg.bottom => dec'.decoded)
        /\ (dec'.decoded /\ last < cfg.bottom => d.decoded)
    BY <1>5, <1>6, <1>7, <2>1, GivenFacts
  <2>3. /\ dec'.asked = dec.asked + n /\ dec'.lastRow = dec.lastRow
        /\ dec'.prev = dec.prev /\ ~ dec'.ahead
    BY <1>1, <1>6, <2>2 DEF SameRows
  <2>4. Compressed("idle", dec, right)
    BY <1>4, <1>11
  <2>5. dec'.decoded => dec'.lastRow = cfg.bottom
    <3>1. CASE last >= cfg.bottom
      BY <1>5, <1>7, <1>11, <2>3, <2>4, <3>1 DEF Compressed
    <3>2. CASE last < cfg.bottom
      BY <1>6, <1>11, <2>2, <3>2
    <3> QED
      BY <1>5, <1>7, <3>1, <3>2
  <2>6. dec'.asked <= dec'.lastRow
    BY <1>5, <1>7, <1>11, <2>3
  <2>7. Compressed("idle", dec', right')
    BY <1>6, <2>1, <2>2, <2>3, <2>4, <2>5, <2>6 DEF Compressed
  <2>8. cfg.levels => dec'.decoded
    BY <1>8, <1>11, <2>2
  <2> QED
    BY <1>1, <1>3, <1>5, <1>6, <1>11, <2>1, <2>2, <2>3, <2>7, <2>8, AlphaStep
<1>12. CASE ~ dec.decoded /\ cfg.kind # "alphaRaw" /\ ~ (dec.lastRow >= last)
  <2>1. dec' = Enter(d, last) /\ pc' = "loop" /\ right' = right
    BY <1>2, <1>12 DEF d, last
  <2>2. /\ dec' \in Decoder /\ SameRows(d, dec') /\ dec'.src = d.src
        /\ dec'.target = last /\ dec'.asked = d.asked /\ dec'.want = d.want
        /\ dec'.decoded = d.decoded
    BY <1>1, <1>6, <1>7, <2>1, EnterFacts
  <2>3. /\ dec'.asked = dec.asked /\ dec'.lastRow = dec.lastRow /\ dec'.want = n
        /\ dec'.prev = dec.prev /\ ~ dec'.ahead /\ dec'.decoded = dec.decoded
        /\ dec'.src = dec.src
    BY <1>1, <1>6, <2>2 DEF SameRows
  <2>4. ColourCache("idle", whole, d)
    BY <1>1, <1>3, <1>6 DEF ColourCache
  <2>5. ColourCache("loop", whole, dec')
    BY <1>1, <1>6, <1>7, <2>1, <2>4, EnterCache
  <2>6. Compressed("idle", dec, right)
    BY <1>4, <1>12
  <2>7. dec.lastRow <= last
    BY <1>5, <1>7, <1>12
  <2>8. Compressed("loop", dec', right)
    BY <1>2, <1>7, <2>2, <2>3, <2>6, <2>7 DEF Compressed
  <2>9. Planes("loop", whole, dec', replay, rd, lines, right)
    BY <1>4, <1>12, <2>3, <2>8 DEF Planes
  <2>10. Types("loop", whole, dec', replay, rd, lines, right)
    BY <1>1, <2>2 DEF Types
  <2>11. Images("loop", whole, dec', replay, rd, lines)
    BY <1>3 DEF Images
  <2>12. Sound(pc', whole', dec', replay', rd', lines', right')
    BY <1>3, <2>1, <2>3, <2>5, <2>9, <2>10, <2>11 DEF Sound
  <2> QED
    BY <1>1, <1>3, <2>12, SoundStep
<1> QED
  BY <1>9, <1>10, <1>11, <1>12

-----------------------------------------------------------------------------
(* The invariant holds.                                                     *)

LEMMA StartType ==
  ASSUME cfg \in Configs
  PROVE  Start \in Decoder
<1>1. Never \in Nat
  BY Configuration DEF Never, end
<1> QED
  BY <1>1 DEF Start, Decoder

LEMMA LInit ==
  ASSUME Init
  PROVE  LInv
<1>1. /\ cfg \in Configs /\ pc = (IF cfg.kind = "alphaRaw" THEN "idle" ELSE "header")
      /\ whole = ~ cfg.inc /\ dec = Start /\ replay = << >> /\ rd = 0
      /\ lines = << >> /\ right = {}
  BY DEF Init
<1>2. /\ W \in Nat \ {0} /\ cfg.top \in Nat /\ cfg.bottom \in Nat \ {0}
      /\ cfg.inc \in BOOLEAN /\ (cfg.inc => Image)
  BY <1>1, Configuration
<1>3. /\ dec \in Decoder /\ dec.src = 0 /\ dec.lastRow = 0 /\ dec.in = {} /\ dec.prev = -1
      /\ dec.asked = 0 /\ ~ dec.decoded /\ dec.batch = 0 /\ ~ dec.ahead /\ ~ dec.stale
  BY <1>1, StartType DEF Start
<1>4. Row(0) = 0
  <2>1. Row(0) \in Nat /\ Row(0) * W <= 0 /\ (0 < 1 * W <=> Row(0) < 1)
    BY <1>2, RowOf
  <2> QED
    BY <1>2, <2>1
<1>5. Types(pc, whole, dec, replay, rd, lines, right)
  BY <1>1, <1>2, <1>3 DEF Types
<1>6. ColourCache(pc, whole, dec)
  BY <1>1, <1>3 DEF ColourCache
<1>7. Images(pc, whole, dec, replay, rd, lines)
  <2> DEFINE pos == [i \in 0 .. 0 |-> 0]
  <2>1. pos \in [0 .. 0 -> Nat] /\ pos[0] = 0
    OBVIOUS
  <2> HIDE DEF pos
  <2>2. Full(Row(pos[0])) = 0
    BY <1>2, <1>4, <2>1 DEF Full, MinOf
  <2>3. Ends(0, 0)
    <3>1. 0 % NUM_ARGB_CACHE_ROWS = 0
      BY LosslessAssumption
    <3> QED
      BY <3>1 DEF Ends
  <2>4. Len(replay) = 0
    BY <1>1
  <2>5. pc # "loop"
    BY <1>1
  <2>6. \A q \in Row(dec.src) + 1 .. 0 : FALSE
    BY <1>3, <1>4
  <2>7. Reaches(pos, pc, whole, dec, replay, rd)
    BY <1>1, <1>3, <2>1, <2>2, <2>3, <2>4, <2>5, <2>6 DEF Reaches
  <2>8. Lined(<< >>, 0)
    BY <1>2 DEF Lined, MaxOf
  <2>9. dec.batch <= NUM_ARGB_CACHE_ROWS
    BY <1>3, LosslessAssumption
  <2>10. pc # "done"
    BY <1>1
  <2> QED
    BY <1>1, <1>3, <2>5, <2>7, <2>8, <2>9, <2>10 DEF Images
<1>8. Planes(pc, whole, dec, replay, rd, lines, right)
  <2> SUFFICES ASSUME ~ Image PROVE Planes(pc, whole, dec, replay, rd, lines, right)
    BY DEF Planes
  <2>1. whole
    BY <1>1, <1>2
  <2>2. CASE cfg.kind = "alphaRaw"
    <3>1. Raw(pc, dec, right)
      BY <1>1, <1>3, <2>2 DEF Raw
    <3> QED
      BY <1>1, <1>2, <1>3, <2>1, <2>2, <3>1 DEF Planes
  <2>3. CASE cfg.kind # "alphaRaw"
    <3>1. Clean(right, dec.prev, dec.lastRow)
      BY <1>1, <1>2, <1>3 DEF Clean
    <3>2. Compressed(pc, dec, right)
      BY <1>1, <1>2, <1>3, <1>4, <2>3, <3>1 DEF Compressed
    <3> QED
      BY <1>1, <1>2, <1>3, <2>1, <2>3, <3>2 DEF Planes
  <2> QED
    BY <2>2, <2>3
<1>9. Sound(pc, whole, dec, replay, rd, lines, right)
  BY <1>3, <1>5, <1>6, <1>7, <1>8 DEF Sound
<1> QED
  BY <1>1, <1>9 DEF LInv

LEMMA LNext ==
  ASSUME LInv, [Next]_vars
  PROVE  LInv'
<1>1. CASE Header \/ HeaderFails \/ HeaderShort \/ AppendLast \/ Truncated
  BY <1>1, HeaderKeeps
<1>2. CASE DecodeImage
  BY <1>2, DecodeImageKeeps
<1>3. CASE ImageDone
  BY <1>3, ImageDoneKeeps
<1>4. CASE AlphaRows
  BY <1>4, AlphaRowsKeeps
<1>5. CASE AlphaDone
  BY <1>5, AlphaDoneKeeps
<1>6. CASE ReadNew
  BY <1>6, ReadNewKeeps
<1>7. CASE ReadAgain
  BY <1>7, ReadAgainKeeps
<1>8. CASE Suspend
  BY <1>8, SuspendKeeps
<1>9. CASE TruncatedLast
  BY <1>9, TruncatedLastKeeps
<1>10. CASE Terminated \/ UNCHANGED vars
  <2>1. UNCHANGED <<cfg, pc, whole, dec, replay, rd, lines, right>>
    BY <1>10 DEF Terminated, vars
  <2>2. cfg \in Configs /\ Sound(pc', whole', dec', replay', rd', lines', right')
    BY <2>1 DEF LInv
  <2> QED
    BY <2>1, <2>2, SoundStep
<1> QED
  BY <1>1, <1>2, <1>3, <1>4, <1>5, <1>6, <1>7, <1>8, <1>9, <1>10 DEF Next

LEMMA LossInvariant == Spec => []LInv
<1>1. Init => LInv
  BY LInit
<1>2. LInv /\ [Next]_vars => LInv'
  BY LNext
<1> QED
  BY <1>1, <1>2, PTL DEF Spec

-----------------------------------------------------------------------------
(* What follows.                                                            *)

\* However often the data runs out, and whatever the size of the image, the crop
\* window, the batches and the copies: each row of the window is given once and in
\* its line, after its pixels are decoded and in batches that fit into argb_cache_.
THEOREM RowsAreGivenOnce == Spec => []RowsOnce
<1>1. ASSUME LInv PROVE RowsOnce
  <2>1. /\ cfg \in Configs /\ Types(pc, whole, dec, replay, rd, lines, right) /\ ~ dec.ahead
        /\ Images(pc, whole, dec, replay, rd, lines)
        /\ Planes(pc, whole, dec, replay, rd, lines, right)
    BY <1>1 DEF LInv, Sound
  <2>2. CASE Image
    <3>1. Lined(lines, dec.lastRow) /\ dec.batch <= NUM_ARGB_CACHE_ROWS
          /\ (pc = "done" => dec.lastRow = cfg.bottom)
      BY <2>1, <2>2 DEF Images
    <3>2. pc = "done" => Len(lines) = cfg.bottom - cfg.top
      BY <2>1, <3>1, Configuration DEF Lined, MaxOf
    <3> QED
      BY <2>1, <3>1, <3>2 DEF RowsOnce, Lined
  <2>3. CASE ~ Image
    <3>1. lines = << >> /\ pc # "done"
      BY <2>1, <2>3 DEF Planes
    <3> QED
      BY <2>1, <2>3, <3>1 DEF RowsOnce
  <2> QED
    BY <2>2, <2>3
<1> QED
  BY <1>1, LossInvariant, PTL

\* SaveState and RestoreState keep the colour cache with the position: whenever a
\* symbol looks into it, also one that is read again, the cache has exactly the pixels
\* before the symbol, though it is brought up to date at the ends of rows, after copies
\* and for look-ups only.
THEOREM CacheStaysCurrent == Spec => []CacheIsCurrent
<1>1. ASSUME LInv PROVE CacheIsCurrent
  BY <1>1 DEF LInv, Sound, ColourCache, CacheIsCurrent
<1> QED
  BY <1>1, LossInvariant, PTL

\* Until the header is read no transform counts as seen.
HeaderInv ==
  /\ pc = "header" => seen = {}
  /\ ValidStreamDecodes

LEMMA RefusedIsInvalid ==
  ASSUME seen = {}, Repeated(Len(cfg.transforms)), cfg \in Configs
  PROVE  ~ IsInjective(cfg.transforms)
<1>1. cfg.transforms \in Seq({"predictor", "color", "green", "indexing"})
  BY LosslessAssumption DEF IsConfig
<1> DEFINE t == cfg.transforms
<1>2. PICK i \in 1 .. Len(t) : \E j \in 1 .. i - 1 : t[j] = t[i]
  BY DEF Repeated
<1>3. PICK j \in 1 .. i - 1 : t[j] = t[i]
  BY <1>2
<1>4. i \in DOMAIN t /\ j \in DOMAIN t /\ i # j
  BY <1>1
<1> QED
  BY <1>3, <1>4 DEF IsInjective

\* A stream that starts again after each piece because its header was not complete, or
\* is suspended in the image data, is refused only if a symbol or the header is wrong or
\* the data ends: no state of a given-up attempt makes a transform appear twice.
THEOREM ValidStreamsDecode == Spec => []ValidStreamDecodes
<1> DEFINE VInv == cfg \in Configs /\ HeaderInv
<1>1. Init => VInv
  BY DEF Init, HeaderInv, ValidStreamDecodes
<1>2. VInv /\ [Next]_vars => VInv'
  <2> SUFFICES ASSUME VInv, [Next]_vars PROVE VInv'
    OBVIOUS
  <2>1. CASE HeaderFails
    <3>1. bad'
      BY <2>1, RefusedIsInvalid DEF HeaderFails, HeaderInv
    <3> QED
      BY <2>1, <3>1 DEF HeaderFails, HeaderGivenUp, ClearedSeen, HeaderInv, ValidStreamDecodes
  <2>2. CASE HeaderShort
    BY <2>2 DEF HeaderShort, HeaderGivenUp, ClearedSeen, HeaderInv, ValidStreamDecodes
  <2>3. CASE Header \/ AppendLast \/ DecodeImage \/ ImageDone
    BY <2>3 DEF Header, AppendLast, DecodeImage, ImageDone, HeaderInv, ValidStreamDecodes
  <2>4. CASE AlphaRows
    BY <2>4 DEF AlphaRows, HeaderInv, ValidStreamDecodes
  <2>5. CASE AlphaDone \/ Suspend \/ Truncated
    BY <2>5 DEF AlphaDone, Suspend, Truncated, HeaderInv, ValidStreamDecodes
  <2>6. CASE ReadNew \/ ReadAgain \/ TruncatedLast
    BY <2>6 DEF ReadNew, ReadAgain, TruncatedLast, InLoop, HeaderInv, ValidStreamDecodes
  <2>7. CASE Terminated \/ UNCHANGED vars
    BY <2>7 DEF Terminated, vars, HeaderInv, ValidStreamDecodes
  <2> QED
    BY <2>1, <2>2, <2>3, <2>4, <2>5, <2>6, <2>7 DEF Next
<1>3. VInv => ValidStreamDecodes
  BY DEF HeaderInv
<1> QED
  BY <1>1, <1>2, <1>3, PTL DEF Spec

\* Asked for in any portions, the rows of an alpha plane are all unfiltered against the
\* row above, or need none, and all rows are decoded before levels are dithered.  Left
\* out: an indexed plane with a horizontal filter that is cropped at the top, where the
\* code takes a row for the one above that is not.
THEOREM AlphaRowsAreDecoded == Spec => [](~ CroppedPalette => AlphaRowsAreRight)
<1>1. ASSUME LInv, ~ CroppedPalette PROVE AlphaRowsAreRight
  <2>1. /\ cfg \in Configs /\ Types(pc, whole, dec, replay, rd, lines, right)
        /\ Planes(pc, whole, dec, replay, rd, lines, right)
    BY <1>1 DEF LInv, Sound
  <2>2. dec.asked \in Nat /\ dec.lastRow \in Nat /\ cfg.top \in Nat /\ cfg.bottom \in Nat
    BY <2>1, Configuration DEF Types, Decoder
  <2>3. CASE Image
    BY <2>1, <2>3, Configuration DEF AlphaRowsAreRight
  <2>4. CASE ~ Image
    <3>1. cfg.levels /\ dec.asked > 0 => dec.decoded
      BY <2>1, <2>4 DEF Planes
    <3>2. cfg.top .. dec.asked - 1 \subseteq right
      <4>1. CASE cfg.kind = "alphaRaw"
        <5>1. /\ 0 .. (IF dec.decoded THEN cfg.bottom ELSE dec.asked) - 1 \subseteq right
              /\ dec.asked <= cfg.bottom
          BY <2>1, <2>4, <4>1 DEF Planes, Raw
        <5> QED
          BY <2>2, <5>1
      <4>2. CASE cfg.kind # "alphaRaw"
        <5>1. dec.asked <= dec.lastRow /\ Clean(right, dec.prev, dec.lastRow)
          BY <1>1, <2>1, <2>4, <4>2 DEF Planes, Compressed
        <5>2. cfg.top .. dec.lastRow - 1 \subseteq right
          BY <2>2, <5>1 DEF Clean
        <5> QED
          BY <2>2, <5>1, <5>2
      <4> QED
        BY <4>1, <4>2
    <3> QED
      BY <3>1, <3>2 DEF AlphaRowsAreRight
  <2> QED
    BY <2>3, <2>4
<1> QED
  BY <1>1, LossInvariant, PTL

=============================================================================
