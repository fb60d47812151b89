--------------------------- MODULE ContainerProofs ---------------------------
(***************************************************************************)
(* For any file, from a mux object or from elsewhere, cut anywhere: what   *)
(* the demuxer gives of it is sound; and if the file is accepted in the    *)
(* end, what it gave before remains true.  For any file that               *)
(* WebPMuxAssemble wrote, what WebPGetFeatures says of its beginning       *)
(* remains true, and WebPMuxCreate makes an object of it that is written   *)
(* as the same file again.                                                 *)
(***************************************************************************)
EXTENDS ContainerInvariants, SequenceTheorems, FiniteSetTheorems, TLAPS

-----------------------------------------------------------------------------
(* Induction on natural numbers, by the pigeonhole principle.                *)

LEMMA Induction ==
  ASSUME NEW S, 0 \in S, \A n \in Nat : n \in S => n + 1 \in S
  PROVE  Nat \subseteq S
<1> SUFFICES ASSUME NEW x \in Nat, x \notin S PROVE FALSE
  OBVIOUS
<1> DEFINE A == S \cap 0 .. x
           B == A \ {0}
           next == [n \in A |-> n + 1]
<1>1. IsFiniteSet(A)
  <2>1. IsFiniteSet(0 .. x)  BY FS_Interval
  <2> QED BY <2>1, FS_Subset
<1>2. IsFiniteSet(B) /\ Cardinality(B) = Cardinality(A) - 1 /\ Cardinality(A) \in Nat
  <2>1. 0 \in A  OBVIOUS
  <2> HIDE DEF A
  <2> QED BY <1>1, <2>1, FS_RemoveElement, FS_CardinalityType
<1>3. next \in [A -> B]
  <2> SUFFICES ASSUME NEW n \in A PROVE n + 1 \in B
    OBVIOUS
  <2> QED OBVIOUS
<1>4. ~ (\E a, b \in A : a # b /\ next[a] = next[b])  OBVIOUS
<1> HIDE DEF A, B, next
<1> QED BY <1>1, <1>2, <1>3, <1>4, FS_PigeonHole

-----------------------------------------------------------------------------
(* Folds over sequences, of which the model has four.                        *)

LEMMA MaxOfPrefix ==
  ASSUME NEW n \in Nat, NEW s \in SUBSET (1 .. n), s # {}
  PROVE  /\ Max(s) \in s /\ \A x \in s : x <= Max(s)
         /\ n \in s => Max(s) = n
<1> DEFINE HasMax(t) == \E x \in t : \A y \in t : x >= y
           S == { k \in Nat : \A t \in SUBSET (1 .. k) : t # {} => HasMax(t) }
<1>1. 0 \in S
  <2>1. \A t \in SUBSET (1 .. 0) : t = {}  OBVIOUS
  <2> QED BY <2>1
<1>2. ASSUME NEW k \in Nat, k \in S PROVE k + 1 \in S
  <2> SUFFICES ASSUME NEW t \in SUBSET (1 .. k + 1), t # {} PROVE HasMax(t)
    OBVIOUS
  <2>1. CASE k + 1 \in t  BY <2>1
  <2>2. CASE k + 1 \notin t
    <3>1. t \in SUBSET (1 .. k)  BY <2>2
    <3> QED BY <1>2, <3>1
  <2> QED BY <2>1, <2>2
<1> HIDE DEF S
<1>3. Nat \subseteq S  BY <1>1, <1>2, Induction
<1>4. HasMax(s)  BY <1>3 DEF S
<1>5. Max(s) \in s /\ \A x \in s : Max(s) >= x  BY <1>4 DEF Max
<1>6. \A x \in s : x \in 1 .. n  OBVIOUS
<1> HIDE DEF HasMax
<1>7. \A x \in s : x <= Max(s)  BY <1>5, <1>6
<1>8. ASSUME n \in s PROVE Max(s) = n
  <2>1. Max(s) \in 1 .. n  BY <1>5, <1>6
  <2>2. n <= Max(s)  BY <1>7, <1>8
  <2> QED BY <2>1, <2>2
<1> QED BY <1>5, <1>7, <1>8

LEMMA FoldExists ==
  ASSUME NEW kind, NEW base, NEW s, NEW n \in Nat
  PROVE  \E it : it = Folding(kind, base, s, n, it)
<1> DEFINE S == { k \in Nat : \E it : it = Folding(kind, base, s, k, it) }
<1>1. 0 \in S
  <2>1. [t \in SUBSET (1 .. 0) |-> base] = Folding(kind, base, s, 0,
                                             [t \in SUBSET (1 .. 0) |-> base])
    <3>1. \A t \in SUBSET (1 .. 0) : t = {}  OBVIOUS
    <3> QED BY <3>1 DEF Folding
  <2> QED BY <2>1
<1>2. ASSUME NEW k \in Nat, k \in S PROVE k + 1 \in S
  <2>1. PICK it : it = Folding(kind, base, s, k, it)  BY <1>2
  <2> DEFINE more == [t \in SUBSET (1 .. k + 1) |->
                        IF k + 1 \in t THEN FoldStep(kind, it[t \ {k + 1}], s[k + 1])
                        ELSE it[t]]
  <2>2. ASSUME NEW t \in SUBSET (1 .. k + 1)
        PROVE  more[t] = IF t = {} THEN base
                         ELSE FoldStep(kind, more[t \ {Max(t)}], s[Max(t)])
    <3>1. \A u \in SUBSET (1 .. k) :
            it[u] = IF u = {} THEN base ELSE FoldStep(kind, it[u \ {Max(u)}], s[Max(u)])
      BY <2>1 DEF Folding
    <3>2. CASE k + 1 \in t
      <4>1. Max(t) = k + 1  BY <3>2, MaxOfPrefix
      <4>2. t \ {k + 1} \in SUBSET (1 .. k)  OBVIOUS
      <4>3. more[t \ {k + 1}] = it[t \ {k + 1}]  BY <4>2
      <4> QED BY <3>2, <4>1, <4>3
    <3>3. CASE k + 1 \notin t
      <4>1. t \in SUBSET (1 .. k)  BY <3>3
      <4>2. more[t] = it[t]  BY <3>3
      <4>3. \A x : more[t \ {x}] = it[t \ {x}]  BY <3>3
      <4> QED BY <3>1, <4>1, <4>2, <4>3
    <3> QED BY <3>2, <3>3
  <2>3. more = Folding(kind, base, s, k + 1, more)
    <3> HIDE DEF more
    <3>1. more = [t \in SUBSET (1 .. k + 1) |-> more[t]]  BY DEF more
    <3> QED BY <2>2, <3>1 DEF Folding
  <2>4. \E f : f = Folding(kind, base, s, k + 1, f)
    <3> HIDE DEF more
    <3> QED BY <2>3
  <2> QED BY <2>4
<1> HIDE DEF S
<1>3. Nat \subseteq S  BY <1>1, <1>2, Induction
<1> QED BY <1>3 DEF S

LEMMA FoldInSteps ==
  ASSUME NEW kind, NEW base, NEW s, NEW n \in Nat, NEW it,
         it = Folding(kind, base, s, n, it)
  PROVE  \E v : Folds(kind, v, base, s, n) /\ v[n] = it[1 .. n]
<1> DEFINE v == [k \in 0 .. n |-> it[1 .. k]]
<1>1. \A t \in SUBSET (1 .. n) :
        it[t] = IF t = {} THEN base ELSE FoldStep(kind, it[t \ {Max(t)}], s[Max(t)])
  BY DEF Folding
<1>2. v[0] = base
  <2>1. 1 .. 0 = {} /\ {} \in SUBSET (1 .. n)  OBVIOUS
  <2>2. v[0] = it[{}]  BY <2>1
  <2> QED BY <1>1, <2>1, <2>2
<1>3. ASSUME NEW k \in 1 .. n PROVE v[k] = FoldStep(kind, v[k - 1], s[k])
  <2>1. 1 .. k \in SUBSET (1 .. n) /\ 1 .. k # {} /\ k \in 1 .. k /\ k \in Nat  OBVIOUS
  <2>2. Max(1 .. k) = k  BY <2>1, MaxOfPrefix
  <2>3. (1 .. k) \ {k} = 1 .. k - 1  OBVIOUS
  <2>4. v[k] = it[1 .. k] /\ v[k - 1] = it[1 .. k - 1]  OBVIOUS
  <2> HIDE DEF v
  <2> QED BY <1>1, <2>1, <2>2, <2>3, <2>4
<1>4. v[n] = it[1 .. n]  OBVIOUS
<1> HIDE DEF v
<1> QED BY <1>2, <1>3, <1>4 DEF Folds

LEMMA SizeInSteps ==
  ASSUME NEW cs, NEW n \in Nat, DOMAIN cs = 1 .. n
  PROVE  \E v : Folds(Sum, v, 0, cs, n) /\ ListSize(cs) = v[n]
<1> DEFINE it == CHOOSE it : it = [t \in SUBSET (1 .. n) |->
                   IF t = {} THEN 0 ELSE it[t \ {Max(t)}] + DiskSize(cs[Max(t)])]
<1>1. ListSize(cs) = it[1 .. n]  BY DEF ListSize, FoldLeft, MapThenFoldSet
<1>2. \E f : f = [t \in SUBSET (1 .. n) |->
                   IF t = {} THEN 0 ELSE f[t \ {Max(t)}] + DiskSize(cs[Max(t)])]
  <2>1. PICK f : f = Folding(Sum, 0, cs, n, f)  BY FoldExists
  <2> QED BY <2>1 DEF Folding, FoldStep, Sum
<1>3. it = Folding(Sum, 0, cs, n, it)
  <2>1. it = [t \in SUBSET (1 .. n) |->
                IF t = {} THEN 0 ELSE it[t \ {Max(t)}] + DiskSize(cs[Max(t)])]
    BY <1>2
  <2> HIDE DEF it
  <2> QED BY <2>1 DEF Folding, FoldStep, Sum
<1> HIDE DEF it
<1> QED BY <1>1, <1>3, FoldInSteps

LEMMA EmitInSteps ==
  ASSUME NEW s, NEW n \in Nat, DOMAIN s = 1 .. n
  PROVE  \E v : Folds(Emit, v, << >>, s, n) /\ EmittedAll(s) = v[n]
<1> DEFINE it == CHOOSE it : it = [t \in SUBSET (1 .. n) |->
                   IF t = {} THEN << >> ELSE it[t \ {Max(t)}] \o Emitted(s[Max(t)])]
<1>1. EmittedAll(s) = it[1 .. n]  BY DEF EmittedAll, FoldLeft, MapThenFoldSet
<1>2. \E f : f = [t \in SUBSET (1 .. n) |->
                   IF t = {} THEN << >> ELSE f[t \ {Max(t)}] \o Emitted(s[Max(t)])]
  <2>1. PICK f : f = Folding(Emit, << >>, s, n, f)  BY FoldExists
  <2> QED BY <2>1 DEF Folding, FoldStep, Emit
<1>3. it = Folding(Emit, << >>, s, n, it)
  <2>1. it = [t \in SUBSET (1 .. n) |->
                IF t = {} THEN << >> ELSE it[t \ {Max(t)}] \o Emitted(s[Max(t)])]
    BY <1>2
  <2> HIDE DEF it
  <2> QED BY <2>1 DEF Folding, FoldStep, Emit
<1> HIDE DEF it
<1> QED BY <1>1, <1>3, FoldInSteps

LEMMA CreateInSteps ==
  ASSUME NEW s, NEW n \in Nat, DOMAIN s = 1 .. n
  PROVE  \E v : Folds(Create, v, Started, s, n) /\ FoldLeft(ReadChunk, Started, s) = v[n]
<1> DEFINE it == CHOOSE it : it = [t \in SUBSET (1 .. n) |->
                   IF t = {} THEN Started ELSE ReadChunk(it[t \ {Max(t)}], s[Max(t)])]
<1>1. FoldLeft(ReadChunk, Started, s) = it[1 .. n]  BY DEF FoldLeft, MapThenFoldSet
<1>2. \E f : f = [t \in SUBSET (1 .. n) |->
                   IF t = {} THEN Started ELSE ReadChunk(f[t \ {Max(t)}], s[Max(t)])]
  <2>1. PICK f : f = Folding(Create, Started, s, n, f)  BY FoldExists
  <2> QED BY <2>1 DEF Folding, FoldStep, Create
<1>3. it = Folding(Create, Started, s, n, it)
  <2>1. it = [t \in SUBSET (1 .. n) |->
                IF t = {} THEN Started ELSE ReadChunk(it[t \ {Max(t)}], s[Max(t)])]
    BY <1>2
  <2> HIDE DEF it
  <2> QED BY <2>1 DEF Folding, FoldStep, Create
<1> HIDE DEF it
<1> QED BY <1>1, <1>3, FoldInSteps

LEMMA DropInSteps ==
  ASSUME NEW tag, NEW s, NEW n \in Nat, DOMAIN s = 1 .. n
  PROVE  \E v : Folds(Drop(tag), v, << >>, s, n) /\ WithoutTag(s, tag) = v[n]
<1> DEFINE it == CHOOSE it : it = [t \in SUBSET (1 .. n) |->
                   IF t = {} THEN << >> ELSE (IF s[Max(t)].tag = tag THEN it[t \ {Max(t)}]
                     ELSE Append(it[t \ {Max(t)}], s[Max(t)]))]
<1>0. \A a, c : FoldStep(Drop(tag), a, c) = IF c.tag = tag THEN a ELSE Append(a, c)
  BY DEF FoldStep, Drop
<1>1. WithoutTag(s, tag) = it[1 .. n]  BY DEF WithoutTag, FoldLeft, MapThenFoldSet
<1>2. \E f : f = [t \in SUBSET (1 .. n) |->
                   IF t = {} THEN << >> ELSE (IF s[Max(t)].tag = tag THEN f[t \ {Max(t)}]
                     ELSE Append(f[t \ {Max(t)}], s[Max(t)]))]
  <2>1. PICK f : f = Folding(Drop(tag), << >>, s, n, f)  BY FoldExists
  <2> QED
    <3>1. f = [t \in SUBSET (1 .. n) |-> IF t = {} THEN << >>
                 ELSE FoldStep(Drop(tag), f[t \ {Max(t)}], s[Max(t)])]
      BY <2>1 DEF Folding
    <3>2. \A t \in SUBSET (1 .. n) :
            FoldStep(Drop(tag), f[t \ {Max(t)}], s[Max(t)])
              = IF s[Max(t)].tag = tag THEN f[t \ {Max(t)}]
                ELSE Append(f[t \ {Max(t)}], s[Max(t)])
      BY <1>0
    <3>3. f = [t \in SUBSET (1 .. n) |-> f[t]]  BY <3>1
    <3>4. \A t \in SUBSET (1 .. n) :
            f[t] = IF t = {} THEN << >>
                   ELSE FoldStep(Drop(tag), f[t \ {Max(t)}], s[Max(t)])
      BY <3>1
    <3> QED BY <3>2, <3>3, <3>4
<1>3. it = Folding(Drop(tag), << >>, s, n, it)
  <2>1. it = [t \in SUBSET (1 .. n) |->
                IF t = {} THEN << >> ELSE (IF s[Max(t)].tag = tag THEN it[t \ {Max(t)}]
                     ELSE Append(it[t \ {Max(t)}], s[Max(t)]))]
    BY <1>2
  <2> HIDE DEF it
  <2>2. \A t \in SUBSET (1 .. n) :
          FoldStep(Drop(tag), it[t \ {Max(t)}], s[Max(t)])
            = IF s[Max(t)].tag = tag THEN it[t \ {Max(t)}]
              ELSE Append(it[t \ {Max(t)}], s[Max(t)])
    BY <1>0
  <2> QED BY <2>1, <2>2 DEF Folding
<1> HIDE DEF it
<1> QED BY <1>1, <1>3, FoldInSteps

\* What every step keeps, the fold has.
LEMMA FoldKeeps ==
  ASSUME NEW kind, NEW base, NEW s, NEW n \in Nat, NEW v, Folds(kind, v, base, s, n),
         NEW T, base \in T, \A a \in T, k \in 1 .. n : FoldStep(kind, a, s[k]) \in T
  PROVE  v[n] \in T
<1> DEFINE S == { k \in Nat : k <= n => v[k] \in T }
<1>1. 0 \in S  BY DEF Folds
<1>2. ASSUME NEW k \in Nat, k \in S PROVE k + 1 \in S
  <2> SUFFICES ASSUME k + 1 <= n PROVE v[k + 1] \in T
    OBVIOUS
  <2>1. v[k] \in T /\ k + 1 \in 1 .. n /\ (k + 1) - 1 = k  BY <1>2
  <2> QED BY <2>1 DEF Folds
<1> HIDE DEF S
<1>3. Nat \subseteq S  BY <1>1, <1>2, Induction
<1> QED BY <1>3 DEF S

LEMMA FoldsAgree ==
  ASSUME NEW kind, NEW base, NEW f, NEW g, NEW n \in Nat, \A k \in 1 .. n : f[k] = g[k],
         NEW v, NEW w, Folds(kind, v, base, f, n), Folds(kind, w, base, g, n)
  PROVE  v[n] = w[n]
<1> DEFINE S == { k \in Nat : k <= n => v[k] = w[k] }
<1>1. 0 \in S  BY DEF Folds
<1>2. ASSUME NEW k \in Nat, k \in S PROVE k + 1 \in S
  <2> SUFFICES ASSUME k + 1 <= n PROVE v[k + 1] = w[k + 1]
    OBVIOUS
  <2>1. v[k] = w[k] /\ k + 1 \in 1 .. n /\ (k + 1) - 1 = k  BY <1>2
  <2> QED BY <2>1 DEF Folds
<1> HIDE DEF S
<1>3. Nat \subseteq S  BY <1>1, <1>2, Induction
<1> QED BY <1>3 DEF S

-----------------------------------------------------------------------------
(* Where the chunks of a file are.                                           *)

LEMMA PaddedIsNat == \A s \in Nat : Padded(s) \in Nat /\ s <= Padded(s)
  BY DEF Padded

LEMMA SizesAreNat ==
  /\ CHUNK_HEADER_SIZE \in Nat /\ CHUNK_HEADER_SIZE > 0
  /\ RIFF_HEADER_SIZE \in Nat /\ RIFF_HEADER_SIZE > 0
  /\ ANMF_CHUNK_SIZE \in Nat /\ ANMF_CHUNK_SIZE > 0
  BY SizeAssumption

LEMMA ChunkHasSize == \A c \in AnyChunk : c.size \in Nat
  BY DEF AnyChunk, CanvasChunk, FrameChunk, ImageChunk, PlainChunk

LEMMA DiskSizeIsNat ==
  \A c \in AnyChunk : DiskSize(c) \in Nat /\ DiskSize(c) >= CHUNK_HEADER_SIZE
  BY ChunkHasSize, PaddedIsNat, SizesAreNat DEF DiskSize

LEMMA SumsExist ==
  ASSUME NEW cs \in Seq(AnyChunk) PROVE \E v : Sums(v, cs)
<1> DEFINE n == Len(cs)
<1>1. n \in Nat /\ DOMAIN cs = 1 .. n /\ \A k \in 1 .. n : cs[k] \in AnyChunk  OBVIOUS
<1>2. PICK v : Folds(Sum, v, 0, cs, n) /\ ListSize(cs) = v[n]  BY <1>1, SizeInSteps
<1>3. v[0] = 0 /\ \A k \in 1 .. n : v[k] = v[k - 1] + DiskSize(cs[k])
  BY <1>2 DEF Folds, FoldStep, Sum
<1>4. \A k \in 0 .. n : v[k] \in Nat
  <2> DEFINE S == { k \in Nat : k <= n => v[k] \in Nat }
  <2>1. 0 \in S  BY <1>3
  <2>2. ASSUME NEW k \in Nat, k \in S PROVE k + 1 \in S
    <3> SUFFICES ASSUME k + 1 <= n PROVE v[k + 1] \in Nat
      OBVIOUS
    <3>1. v[k] \in Nat /\ k + 1 \in 1 .. n /\ (k + 1) - 1 = k  BY <1>1, <2>2
    <3>2. DiskSize(cs[k + 1]) \in Nat  BY <1>1, <3>1, DiskSizeIsNat
    <3> QED BY <1>3, <3>1, <3>2
  <2> HIDE DEF S
  <2>3. Nat \subseteq S  BY <2>1, <2>2, Induction
  <2> QED BY <1>1, <2>3 DEF S
<1>5. ASSUME NEW k \in 1 .. n + 1 PROVE Offset(cs, k) = RIFF_HEADER_SIZE + v[k - 1]
  <2> DEFINE p == SubSeq(cs, 1, k - 1)
  <2>1. k - 1 \in Nat /\ DOMAIN p = 1 .. k - 1 /\ \A i \in 1 .. k - 1 : p[i] = cs[i]
    BY <1>1
  <2> HIDE DEF p
  <2>2. PICK w : Folds(Sum, w, 0, p, k - 1) /\ ListSize(p) = w[k - 1]
    BY <2>1, SizeInSteps
  <2>3. Folds(Sum, v, 0, cs, k - 1)  BY <1>1, <1>2 DEF Folds
  <2>4. w[k - 1] = v[k - 1]  BY <2>1, <2>2, <2>3, FoldsAgree
  <2> QED BY <2>2, <2>4 DEF Offset, p
<1> HIDE DEF n
<1> QED BY <1>2, <1>3, <1>4, <1>5 DEF Sums, n

LEMMA ChunksFollow ==
  ASSUME NEW cs \in Seq(AnyChunk)
  PROVE  Layout(cs) /\ Offset(cs, Len(cs) + 1) = RIFF_HEADER_SIZE + ListSize(cs)
<1> DEFINE n == Len(cs)
<1>1. n \in Nat /\ \A k \in 1 .. n : cs[k] \in AnyChunk  OBVIOUS
<1>2. PICK v : Sums(v, cs)  BY SumsExist
<1> HIDE DEF n
<1>3. \A k \in 1 .. n : DiskSize(cs[k]) \in Nat /\ DiskSize(cs[k]) > 0
  BY <1>1, DiskSizeIsNat, SizesAreNat
<1>4. Offset(cs, 1) = RIFF_HEADER_SIZE
  <2>1. 1 \in 1 .. n + 1 /\ 1 - 1 = 0  BY <1>1
  <2> QED BY <1>2, <2>1, SizesAreNat DEF Sums, n
<1>5. ASSUME NEW k \in 1 .. n PROVE Offset(cs, k + 1) = Offset(cs, k) + DiskSize(cs[k])
  <2>1. k \in 1 .. n + 1 /\ k + 1 \in 1 .. n + 1 /\ (k + 1) - 1 = k /\ k - 1 \in 0 .. n
    BY <1>1
  <2>2. v[k] = v[k - 1] + DiskSize(cs[k]) /\ v[k - 1] \in Nat  BY <1>2, <2>1 DEF Sums, n
  <2>3. Offset(cs, k + 1) = RIFF_HEADER_SIZE + v[k] /\ Offset(cs, k) = RIFF_HEADER_SIZE + v[k - 1]
    BY <1>2, <2>1 DEF Sums, n
  <2> QED BY <1>3, <2>2, <2>3, SizesAreNat
<1>6. ASSUME NEW k \in 1 .. n + 1
      PROVE  Offset(cs, k) \in Nat /\ Offset(cs, k) >= RIFF_HEADER_SIZE
  <2>1. k - 1 \in 0 .. n  BY <1>1
  <2>2. v[k - 1] \in Nat /\ Offset(cs, k) = RIFF_HEADER_SIZE + v[k - 1]
    BY <1>2, <2>1 DEF Sums, n
  <2> QED BY <2>2, SizesAreNat
<1>7. ASSUME NEW i \in 1 .. n + 1, NEW j \in 1 .. n + 1, i < j
      PROVE  Offset(cs, i) < Offset(cs, j)
  <2> DEFINE S == { k \in Nat : i + 1 + k <= n + 1 => Offset(cs, i) < Offset(cs, i + 1 + k) }
  <2>1. 0 \in S
    <3> SUFFICES ASSUME i + 1 <= n + 1 PROVE Offset(cs, i) < Offset(cs, i + 1)
      BY <1>1
    <3>1. i \in 1 .. n  BY <1>1
    <3> QED BY <1>3, <1>5, <1>6, <3>1
  <2>2. ASSUME NEW k \in Nat, k \in S PROVE k + 1 \in S
    <3> SUFFICES ASSUME i + 1 + (k + 1) <= n + 1
                 PROVE  Offset(cs, i) < Offset(cs, i + 1 + (k + 1))
      OBVIOUS
    <3> DEFINE l == i + 1 + k
    <3>1. l \in 1 .. n /\ l \in 1 .. n + 1 /\ l + 1 \in 1 .. n + 1 /\ i + 1 + (k + 1) = l + 1
      BY <1>1
    <3>2. Offset(cs, i) < Offset(cs, l)  BY <1>1, <2>2, <3>1
    <3> HIDE DEF l
    <3>3. Offset(cs, l + 1) = Offset(cs, l) + DiskSize(cs[l])  BY <1>5, <3>1
    <3>4. DiskSize(cs[l]) \in Nat /\ Offset(cs, l) \in Nat /\ Offset(cs, i) \in Nat
      BY <1>3, <1>6, <3>1
    <3> QED BY <3>1, <3>2, <3>3, <3>4
  <2> HIDE DEF S
  <2>3. Nat \subseteq S  BY <2>1, <2>2, Induction
  <2>4. j - i - 1 \in Nat /\ i + 1 + (j - i - 1) = j  BY <1>1, <1>7
  <2>5. j - i - 1 \in S  BY <2>3, <2>4
  <2>6. i + 1 + (j - i - 1) <= n + 1 => Offset(cs, i) < Offset(cs, i + 1 + (j - i - 1))
    BY <2>5 DEF S
  <2>7. j <= n + 1  BY <1>1
  <2> QED BY <2>4, <2>6, <2>7
<1>8. Offset(cs, n + 1) = RIFF_HEADER_SIZE + ListSize(cs)
  <2>1. n + 1 \in 1 .. n + 1 /\ (n + 1) - 1 = n  BY <1>1
  <2> QED BY <1>2, <2>1 DEF Sums, n
<1> QED BY <1>4, <1>5, <1>6, <1>7, <1>8 DEF Layout, n

LEMMA ChunkIsAt ==
  ASSUME NEW f, f.chunks \in Seq(AnyChunk), NEW k \in 1 .. Len(f.chunks)
  PROVE  ChunkAt(f, Offset(f.chunks, k)) = f.chunks[k]
<1> DEFINE cs == f.chunks
           i == CHOOSE i \in 1 .. Len(cs) : Offset(cs, i) = Offset(cs, k)
<1>1. Layout(cs) /\ Len(cs) \in Nat  BY ChunksFollow
<1>2. i \in 1 .. Len(cs) /\ Offset(cs, i) = Offset(cs, k)  OBVIOUS
<1>3. ChunkAt(f, Offset(cs, k)) = cs[i]  BY DEF ChunkAt
<1> HIDE DEF i, cs
<1>4. k \in 1 .. Len(cs)  BY DEF cs
<1>5. Offset(cs, i) \in Nat /\ Offset(cs, k) \in Nat /\ ~ (i < k) /\ ~ (k < i)
  <2>1. i \in 1 .. Len(cs) + 1 /\ k \in 1 .. Len(cs) + 1  BY <1>1, <1>2, <1>4
  <2> QED BY <1>1, <1>2, <2>1 DEF Layout
<1>6. i = k  BY <1>1, <1>2, <1>4, <1>5
<1> QED BY <1>3, <1>6 DEF cs

-----------------------------------------------------------------------------
(* The parser of the demuxer, in a buffer m.                                 *)

-----------------------------------------------------------------------------
(* What the steps of the parser have in common.                              *)

\* Where there is a header, there is a chunk, and the next one follows it.
LEMMA ChunkHere ==
  ASSUME NEW m, Buffer(m), NEW at, Boundary(m, at), at + CHUNK_HEADER_SIZE <= m.end
  PROVE  \E k \in 1 .. Len(m.chunks) :
           /\ at = Offset(m.chunks, k) /\ at \in Nat /\ at >= RIFF_HEADER_SIZE
           /\ ChunkAt(m, at) = m.chunks[k] /\ m.chunks[k] \in AnyChunk
           /\ Boundary(m, at + DiskSize(m.chunks[k]))
<1> DEFINE cs == m.chunks
           n == Len(m.chunks)
<1>1. cs \in Seq(AnyChunk) /\ n \in Nat /\ \A k \in 1 .. n : cs[k] \in AnyChunk
  BY DEF Buffer
<1>2. PICK k \in 1 .. n + 1 : at = Offset(cs, k)  BY DEF Boundary
<1>3. Layout(cs) /\ Offset(cs, n + 1) = RIFF_HEADER_SIZE + ListSize(cs)
  BY <1>1, ChunksFollow
<1>4. at \in Nat /\ at >= RIFF_HEADER_SIZE  BY <1>2, <1>3 DEF Layout
<1>5. k # n + 1  BY <1>2, <1>3, <1>4, SizesAreNat DEF Buffer
<1> HIDE DEF cs, n
<1>6. k \in 1 .. n /\ k + 1 \in 1 .. n + 1  BY <1>1, <1>2, <1>5
<1>7. ChunkAt(m, at) = cs[k]  BY <1>1, <1>2, <1>6, ChunkIsAt DEF cs, n
<1>8. Offset(cs, k + 1) = Offset(cs, k) + DiskSize(cs[k])  BY <1>3, <1>6 DEF Layout, n, cs
<1>9. Boundary(m, at + DiskSize(cs[k]))  BY <1>2, <1>6, <1>8 DEF Boundary, n, cs
<1> QED BY <1>1, <1>2, <1>4, <1>6, <1>7, <1>9 DEF cs, n

LEMMA InitIsSound ==
  /\ InitDemux \in Demuxer /\ NewFrame \in Frame /\ NoFrame \in FrameRead
  /\ \A m : Sound(m, InitDemux)
<1>1. InitDemux \in Demuxer  BY SizesAreNat DEF InitDemux, Demuxer, States
<1>2. NewFrame \in Frame  BY DEF NewFrame, Frame, NoData, Part
<1>3. NoFrame \in FrameRead  BY <1>2 DEF NoFrame, FrameRead
<1>4. ASSUME NEW m PROVE Sound(m, InitDemux)
  BY DEF Sound, InitDemux
<1> QED BY <1>1, <1>2, <1>3, <1>4

LEMMA EndsAreNat == \A f \in Frame : EndOf(f.image) \in Nat /\ EndOf(f.alpha) \in Nat
  BY DEF Frame, Part, EndOf

\* The frames remain sound when the parser goes on.
LEMMA SoundLater ==
  ASSUME NEW m, NEW d \in Demuxer, Sound(m, d), NEW e \in Demuxer, e.start >= d.start,
         e.frames = d.frames, e.num_frames = d.num_frames,
         e.flags = d.flags \/ d.frames = << >>
  PROVE  Sound(m, e)
<1>1. CASE d.frames = << >>  BY <1>1 DEF Sound
<1>2. CASE e.flags = d.flags
  <2>1. d.frames \in Seq(Frame) /\ d.start \in Nat /\ e.start \in Nat  BY DEF Demuxer
  <2>2. ASSUME NEW i \in 1 .. Len(d.frames) PROVE SoundFrame(m, e, i)
    <3> DEFINE f == d.frames[i]
    <3>1. f \in Frame  BY <2>1
    <3>2. SoundFrame(m, d, i)  BY DEF Sound
    <3>3. EndOf(f.image) \in Nat /\ EndOf(f.alpha) \in Nat  BY <3>1, EndsAreNat
    <3>4. Placed(m, f, 0, d.start)  BY <3>2 DEF SoundFrame
    <3>5. Placed(m, f, 0, e.start)  BY <2>1, <3>3, <3>4 DEF Placed
    <3> QED BY <1>2, <3>2, <3>5 DEF SoundFrame, IsAnimation
  <2> QED BY <1>2, <2>2 DEF Sound, IsAnimation
<1> QED BY <1>1, <1>2

LEMMA SkipIsDemuxer ==
  ASSUME NEW d \in Demuxer, NEW s \in Nat
  PROVE  /\ Skip(d, s) \in Demuxer
         /\ Skip(d, s).start = d.start + s /\ Skip(d, s).start >= d.start
         /\ Skip(d, s).frames = d.frames /\ Skip(d, s).num_frames = d.num_frames
         /\ Skip(d, s).flags = d.flags /\ Skip(d, s).state = d.state
         /\ Skip(d, s).width = d.width /\ Skip(d, s).is_ext_format = d.is_ext_format
         /\ Skip(d, s).chunks = d.chunks /\ Skip(d, s).anim_chunks = d.anim_chunks
<1>1. d.start \in Nat  BY DEF Demuxer
<1> DEFINE n == d.start + s
<1>2. n \in Nat /\ n >= d.start  BY <1>1
<1> HIDE DEF n
<1>3. Skip(d, s) = [d EXCEPT !.start = n]  BY DEF Skip, n
<1>4. Skip(d, s) \in Demuxer  BY <1>2, <1>3 DEF Demuxer
<1>5. Skip(d, s).start = n  BY <1>3 DEF Demuxer
<1>6. /\ Skip(d, s).frames = d.frames /\ Skip(d, s).num_frames = d.num_frames
      /\ Skip(d, s).flags = d.flags /\ Skip(d, s).state = d.state
      /\ Skip(d, s).width = d.width
  BY <1>3 DEF Demuxer
<1>7. /\ Skip(d, s).is_ext_format = d.is_ext_format /\ Skip(d, s).chunks = d.chunks
      /\ Skip(d, s).anim_chunks = d.anim_chunks
  BY <1>3 DEF Demuxer
<1> QED BY <1>2, <1>4, <1>5, <1>6, <1>7 DEF n

LEMMA StopIsOk ==
  ASSUME NEW m, NEW d \in Demuxer, Sound(m, d), NEW f \in FrameRead, NEW s \in Statuses,
         s # "ERROR" => Final(s, d)
  PROVE  ParserInv(m, Stop(s, d, f))
<1> DEFINE p == Stop(s, d, f)
<1>1. p \in ParserState /\ p.pc = "finish" /\ p.status = s /\ p.dmux = d
  BY DEF Stop, At, ParserState
<1> HIDE DEF p
<1>2. ParserInv(m, p)  BY <1>1 DEF ParserInv
<1> QED BY <1>2 DEF p

LEMMA EndOfChunkIsOk ==
  ASSUME NEW m, Buffer(m), NEW d \in Demuxer, Sound(m, d), Extended(d),
         NEW f \in FrameRead, NEW s \in Statuses, s = "OK" => Boundary(m, d.start)
  PROVE  ParserInv(m, EndOfChunk(m, s, d, f))
<1> DEFINE p == EndOfChunk(m, s, d, f)
<1>1. /\ p \in ParserState /\ p.dmux = d
      /\ p.pc = "finish" \/ (p.pc = "chunks" /\ p.status = "OK" /\ s = "OK"
                             /\ ~ MemDataSize(m, d) < CHUNK_HEADER_SIZE)
  BY DEF EndOfChunk, At, ParserState, Statuses
<1> HIDE DEF p
<1>2. p.pc = "chunks" => d.start + CHUNK_HEADER_SIZE <= m.end
  BY <1>1, SizesAreNat DEF MemDataSize, Buffer, Demuxer
<1>3. Final(p.status, d)  BY DEF Final, Extended
<1>4. ParserInv(m, p)  BY <1>1, <1>2, <1>3 DEF ParserInv
<1> QED BY <1>4 DEF p

LEMMA StartFrameIsOk ==
  ASSUME NEW m, Buffer(m), NEW d \in Demuxer, Sound(m, d), NEW r \in FrameRead,
         Boundary(m, d.start), Reading(m, "OK", d, r)
  PROVE  ParserInv(m, StartFrame(m, d, r))
<1> DEFINE p == StartFrame(m, d, r)
<1>1. /\ p \in ParserState /\ p.dmux = d /\ p.frame = r
      /\ \/ p.pc = "stored" /\ p.status = "NEED_MORE_DATA"
         \/ p.pc = "store" /\ p.status = "OK" /\ ~ MemDataSize(m, d) < CHUNK_HEADER_SIZE
  BY DEF StartFrame, At, ParserState, Statuses
<1> HIDE DEF p
<1>2. p.pc = "store" => d.start + CHUNK_HEADER_SIZE <= m.end
  BY <1>1, SizesAreNat DEF MemDataSize, Buffer, Demuxer
<1>3. Reading(m, p.status, d, r)  BY <1>1 DEF Reading
<1>4. ParserInv(m, p)  BY <1>1, <1>2, <1>3 DEF ParserInv
<1> QED BY <1>4 DEF p

-----------------------------------------------------------------------------
(* The steps up to StoreFrame.                                               *)

LEMMA SingleImageIsOk ==
  ASSUME NEW m, Buffer(m), NEW d \in Demuxer, Sound(m, d), NEW f \in FrameRead,
         Boundary(m, d.start), ~ IsAnimation(d), Extended(d) \/ Simple(d)
  PROVE  ParserInv(m, SingleImage(m, d, f))
<1> DEFINE r == [f |-> NewFrame, for |-> "image", num |-> 1,
                 from |-> d.start, payload |-> 0]
<1>1. CASE d.frames # << >> \/ SizeIsInvalid(m, d, CHUNK_HEADER_SIZE)
  <2>1. SingleImage(m, d, f) = Stop("ERROR", d, f)  BY <1>1 DEF SingleImage
  <2> QED BY <2>1, StopIsOk DEF Statuses
<1>2. CASE d.frames = << >> /\ ~ SizeIsInvalid(m, d, CHUNK_HEADER_SIZE)
  <2>1. SingleImage(m, d, f) = StartFrame(m, d, r)  BY <1>2 DEF SingleImage
  <2>2. r \in FrameRead  BY InitIsSound DEF FrameRead, Demuxer
  <2>3. /\ r.f = NewFrame /\ r.for = "image" /\ r.num = 1 /\ r.from = d.start
        /\ NewFrame.image = NoData /\ NewFrame.alpha = NoData /\ NewFrame.x = 0
        /\ NewFrame.width = 0 /\ NewFrame.frame_num = 0 /\ ~ NewFrame.complete
    BY DEF NewFrame
  <2> HIDE DEF r
  <2>4. Placed(m, r.f, r.from, d.start)
    <3>1. EndOf(NoData) = 0  BY DEF EndOf, NoData
    <3> QED BY <2>3, <3>1 DEF Placed, Demuxer, Buffer
  <2>5. ReadFor(m, d, r)  BY <1>2, <2>3 DEF ReadFor
  <2>6. Reading(m, "OK", d, r)  BY <1>2, <2>3, <2>4, <2>5 DEF Reading, Demuxer
  <2> QED BY <2>1, <2>2, <2>6, StartFrameIsOk
<1> QED BY <1>1, <1>2

LEMMA VP8XIsRead ==
  ASSUME NEW m, NEW d \in Demuxer, d.frames = << >>, Sound(m, d),
         NEW c \in AnyChunk, c.tag = "VP8X"
  PROVE  /\ BehindHeader(d) \in Demuxer /\ Sound(m, BehindHeader(d))
         /\ BehindHeader(d).start = d.start + CHUNK_HEADER_SIZE
         /\ BehindHeader(d).state = d.state /\ BehindHeader(d).is_ext_format
         /\ BehindVP8X(d, c) \in Demuxer /\ Sound(m, BehindVP8X(d, c))
         /\ BehindVP8X(d, c).start = d.start + DiskSize(c)
         /\ Extended(BehindVP8X(d, c))
<1> DEFINE d1 == BehindHeader(d)
           d2 == BehindVP8X(d, c)
<1>1. c \in CanvasChunk
  BY DEF AnyChunk, CanvasChunk, FrameChunk, ImageChunk, PlainChunk,
       PlainTags, Metadata, ImageTags
<1>2. c.size \in Nat /\ Padded(c.size) \in Nat /\ c.v.flags \in SUBSET Flags
      /\ c.v.width \in Nat
  BY <1>1, PaddedIsNat DEF CanvasChunk
<1>3. /\ d1 \in Demuxer /\ d1.start = d.start + CHUNK_HEADER_SIZE /\ d1.start >= d.start
      /\ d1.frames = d.frames /\ d1.num_frames = d.num_frames /\ d1.state = d.state
      /\ d1.is_ext_format
  <2> DEFINE e == Skip(d, CHUNK_HEADER_SIZE)
  <2>1. e \in Demuxer /\ e.start = d.start + CHUNK_HEADER_SIZE /\ e.start >= d.start
        /\ e.frames = d.frames /\ e.num_frames = d.num_frames /\ e.state = d.state
    BY SizesAreNat, SkipIsDemuxer
  <2>2. d1 = [e EXCEPT !.is_ext_format = TRUE]  BY DEF BehindHeader
  <2> HIDE DEF e, d1
  <2> QED BY <2>1, <2>2 DEF Demuxer
<1>4. /\ d2 \in Demuxer /\ d2.start = d1.start + Padded(c.size) /\ d2.start >= d1.start
      /\ d2.frames = d1.frames /\ d2.num_frames = d1.num_frames
      /\ d2.state = "PARSED_HEADER" /\ d2.is_ext_format /\ d2.width = c.v.width
  <2> HIDE DEF d1
  <2>1. d2 = [Skip(d1, Padded(c.size)) EXCEPT
                !.flags = c.v.flags, !.width = c.v.width, !.state = "PARSED_HEADER"]
    BY DEF BehindVP8X, d1
  <2> DEFINE e == Skip(d1, Padded(c.size))
  <2>2. e \in Demuxer /\ e.start = d1.start + Padded(c.size) /\ e.start >= d1.start
        /\ e.frames = d1.frames /\ e.num_frames = d1.num_frames /\ e.is_ext_format
    BY <1>2, <1>3, SkipIsDemuxer
  <2> HIDE DEF e, d2
  <2>3. c.v.width \in Int  BY <1>2
  <2> QED BY <1>2, <2>1, <2>2, <2>3 DEF e, Demuxer, States
<1> HIDE DEF d1, d2
<1>5. Sound(m, d1)  BY <1>3, SoundLater
<1>6. Sound(m, d2)  BY <1>3, <1>4, <1>5, SoundLater
<1>7. d2.start = d.start + DiskSize(c)
  BY <1>2, <1>3, <1>4, SizesAreNat DEF DiskSize, Demuxer
<1>8. Extended(d2)  BY <1>2, <1>4 DEF Extended
<1> QED BY <1>3, <1>4, <1>5, <1>6, <1>7, <1>8 DEF d1, d2

LEMMA ParseVP8XIsOk ==
  ASSUME NEW m, Buffer(m), NEW d \in Demuxer, d.frames = << >>, Sound(m, d),
         d.state = "PARSING_HEADER", Boundary(m, d.start), NEW f \in FrameRead,
         Len(m.chunks) >= 1, d.start = RIFF_HEADER_SIZE, ChunkAt(m, d.start).tag = "VP8X"
  PROVE  ParserInv(m, ParseVP8X(m, d, f))
<1> DEFINE c  == ChunkAt(m, d.start)
           d1 == BehindHeader(d)
           d2 == BehindVP8X(d, c)
<1>1. Layout(m.chunks) /\ 1 \in 1 .. Len(m.chunks)
  <2>1. Len(m.chunks) \in Nat  BY DEF Buffer
  <2> QED BY <2>1, ChunksFollow DEF Buffer
<1>2. c = m.chunks[1] /\ c \in AnyChunk
  <2>1. d.start = Offset(m.chunks, 1)  BY <1>1 DEF Layout
  <2> QED BY <1>1, <2>1, ChunkIsAt DEF Buffer
<1>3. Boundary(m, d.start + DiskSize(c))
  <2>1. 2 \in 1 .. Len(m.chunks) + 1 /\ 1 + 1 = 2  BY <1>1 DEF Buffer
  <2>2. Offset(m.chunks, 2) = d.start + DiskSize(c)  BY <1>1, <1>2, <2>1 DEF Layout
  <2> QED BY <2>1, <2>2 DEF Boundary
<1>4. c.tag = "VP8X"  OBVIOUS
<1> HIDE DEF c
<1>5. /\ d1 \in Demuxer /\ Sound(m, d1) /\ d1.state = "PARSING_HEADER" /\ d1.is_ext_format
      /\ d2 \in Demuxer /\ Sound(m, d2) /\ d2.start = d.start + DiskSize(c) /\ Extended(d2)
  BY <1>2, <1>4, VP8XIsRead
<1>6. \/ ParseVP8X(m, d, f) = Stop("ERROR", d1, f)
      \/ ParseVP8X(m, d, f) = Stop("NEED_MORE_DATA", d1, f)
      \/ ParseVP8X(m, d, f) = Stop("ERROR", d2, f)
      \/ ParseVP8X(m, d, f) = Stop("NEED_MORE_DATA", d2, f)
      \/ ParseVP8X(m, d, f) = At("chunks", "OK", d2, f) /\ ~ MemDataSize(m, d2) < CHUNK_HEADER_SIZE
  BY DEF ParseVP8X, BehindHeader, BehindVP8X, c
<1> HIDE DEF d1, d2
<1>7. Final("NEED_MORE_DATA", d1) /\ Final("NEED_MORE_DATA", d2)
  BY <1>5 DEF Final, Usable, Extended
<1>8. ASSUME ~ MemDataSize(m, d2) < CHUNK_HEADER_SIZE
      PROVE  ParserInv(m, At("chunks", "OK", d2, f))
  <2> DEFINE p == At("chunks", "OK", d2, f)
  <2>1. p \in ParserState /\ p.pc = "chunks" /\ p.status = "OK" /\ p.dmux = d2
    BY <1>5 DEF At, ParserState, Statuses
  <2> HIDE DEF p
  <2>2. d2.start + CHUNK_HEADER_SIZE <= m.end
    <3>1. d2.start \in Nat  BY <1>5 DEF Demuxer
    <3> QED BY <1>8, <3>1, SizesAreNat DEF MemDataSize, Buffer
  <2>3. ParserInv(m, p)  BY <1>3, <1>5, <2>1, <2>2 DEF ParserInv
  <2> QED BY <2>3 DEF p
<1> QED BY <1>5, <1>6, <1>7, <1>8, StopIsOk DEF Statuses

LEMMA MasterIsOk ==
  ASSUME NEW m, Buffer(m), NEW p, ParserInv(m, p), p.pc = "master"
  PROVE  ParserInv(m, ParseMaster(m, p.dmux, p.frame))
<1> DEFINE d == p.dmux
<1>1. /\ d \in Demuxer /\ d = InitDemux /\ p.frame \in FrameRead /\ Sound(m, d)
      /\ Len(m.chunks) >= 1
  BY DEF ParserInv, ParserState
<1>2. /\ d.frames = << >> /\ ~ IsAnimation(d) /\ Simple(d) /\ d.start = RIFF_HEADER_SIZE
      /\ d.state = "PARSING_HEADER"
  BY <1>1 DEF InitDemux, IsAnimation, Simple
<1>3. Boundary(m, d.start)
  <2>1. 1 \in 1 .. Len(m.chunks) + 1 /\ Layout(m.chunks)
    <3>1. Len(m.chunks) \in Nat  BY DEF Buffer
    <3> QED BY <3>1, ChunksFollow DEF Buffer
  <2> QED BY <1>2, <2>1 DEF Boundary, Layout
<1> HIDE DEF d
<1>4. CASE ChunkAt(m, d.start).tag \in ImageTags
  <2>1. ParseMaster(m, d, p.frame) = SingleImage(m, d, p.frame)  BY <1>4 DEF ParseMaster
  <2> QED BY <1>1, <1>2, <1>3, <2>1, SingleImageIsOk DEF d
<1>5. CASE ChunkAt(m, d.start).tag = "VP8X"
  <2>1. ParseMaster(m, d, p.frame) = ParseVP8X(m, d, p.frame)
    BY <1>5 DEF ParseMaster, ImageTags
  <2> QED BY <1>1, <1>2, <1>3, <1>5, <2>1, ParseVP8XIsOk DEF d
<1>6. CASE ChunkAt(m, d.start).tag \notin ImageTags \cup {"VP8X"}
  <2>1. ParseMaster(m, d, p.frame) = Stop("ERROR", d, p.frame)  BY <1>6 DEF ParseMaster
  <2> QED BY <1>1, <2>1, StopIsOk DEF d, Statuses
<1> QED BY <1>4, <1>5, <1>6

LEMMA OtherChunkIsOk ==
  ASSUME NEW m, Buffer(m), NEW d \in Demuxer, Sound(m, d), Extended(d), NEW f \in FrameRead,
         NEW c \in AnyChunk, d.start >= CHUNK_HEADER_SIZE,
         Boundary(m, d.start + Padded(c.size)), NEW store \in BOOLEAN
  PROVE  ParserInv(m, OtherChunk(m, c, d, f, store))
<1> DEFINE part == [offset |-> d.start - CHUNK_HEADER_SIZE,
                    size   |-> CHUNK_HEADER_SIZE + c.size]
           s == Skip(d, Padded(c.size))
           e == [s EXCEPT !.chunks = IF store THEN Append(d.chunks, part) ELSE @]
<1>1. Padded(c.size) \in Nat /\ c.size \in Nat  BY ChunkHasSize, PaddedIsNat
<1>2. part \in Part  BY <1>1, SizesAreNat DEF Part, Demuxer
<1>3. /\ s \in Demuxer /\ s.start = d.start + Padded(c.size) /\ s.start >= d.start
      /\ s.frames = d.frames /\ s.num_frames = d.num_frames /\ s.flags = d.flags
      /\ s.state = d.state /\ s.width = d.width /\ s.is_ext_format = d.is_ext_format
  BY <1>1, SkipIsDemuxer
<1>4. \/ OtherChunk(m, c, d, f, store) = EndOfChunk(m, "NEED_MORE_DATA", d, f)
      \/ OtherChunk(m, c, d, f, store) = EndOfChunk(m, "OK", e, f)
  BY DEF OtherChunk
<1> HIDE DEF part, s
<1>5. /\ e \in Demuxer /\ e.start = s.start
      /\ e.frames = s.frames /\ e.num_frames = s.num_frames /\ e.flags = s.flags
      /\ e.state = s.state /\ e.width = s.width /\ e.is_ext_format = s.is_ext_format
  <2>1. Append(d.chunks, part) \in Seq(Part) /\ s.chunks \in Seq(Part)
    BY <1>2, <1>3 DEF Demuxer
  <2> QED BY <1>3, <2>1 DEF Demuxer
<1> HIDE DEF e
<1>6. Sound(m, e)  BY <1>3, <1>5, SoundLater
<1>7. Extended(e) /\ Boundary(m, e.start)  BY <1>3, <1>5 DEF Extended
<1> QED BY <1>4, <1>5, <1>6, <1>7, EndOfChunkIsOk DEF Statuses

LEMMA AnimChunkIsOk ==
  ASSUME NEW m, Buffer(m), NEW d \in Demuxer, Sound(m, d), Extended(d), NEW f \in FrameRead,
         NEW c \in AnyChunk, d.start >= CHUNK_HEADER_SIZE,
         Boundary(m, d.start + Padded(c.size))
  PROVE  ParserInv(m, AnimChunk(m, c, d, f))
<1> DEFINE s == Skip(d, Padded(c.size))
           e == [s EXCEPT !.anim_chunks = 1]
<1>1. Padded(c.size) \in Nat  BY ChunkHasSize, PaddedIsNat
<1>2. /\ s \in Demuxer /\ s.start = d.start + Padded(c.size) /\ s.start >= d.start
      /\ s.frames = d.frames /\ s.num_frames = d.num_frames /\ s.flags = d.flags
      /\ s.state = d.state /\ s.width = d.width /\ s.is_ext_format = d.is_ext_format
  BY <1>1, SkipIsDemuxer
<1>3. \/ AnimChunk(m, c, d, f) = Stop("ERROR", d, f)
      \/ AnimChunk(m, c, d, f) = OtherChunk(m, c, d, f, FALSE)
      \/ AnimChunk(m, c, d, f) = EndOfChunk(m, "NEED_MORE_DATA", d, f)
      \/ AnimChunk(m, c, d, f) = EndOfChunk(m, "OK", e, f)
  BY DEF AnimChunk
<1> HIDE DEF s
<1>4. /\ e \in Demuxer /\ e.start = s.start
      /\ e.frames = s.frames /\ e.num_frames = s.num_frames /\ e.flags = s.flags
      /\ e.state = s.state /\ e.width = s.width /\ e.is_ext_format = s.is_ext_format
  BY <1>2 DEF Demuxer
<1> HIDE DEF e
<1>5. Sound(m, e)  BY <1>2, <1>4, SoundLater
<1>6. Extended(e) /\ Boundary(m, e.start)  BY <1>2, <1>4 DEF Extended
<1> QED BY <1>3, <1>4, <1>5, <1>6, EndOfChunkIsOk, OtherChunkIsOk, StopIsOk DEF Statuses

LEMMA AnimationFrameIsOk ==
  ASSUME NEW m, Buffer(m), NEW d \in Demuxer, Sound(m, d), Extended(d), NEW f \in FrameRead,
         NEW j \in 1 .. Len(m.chunks), m.chunks[j] \in AnyChunk, m.chunks[j].tag = "ANMF",
         d.start = Offset(m.chunks, j) + CHUNK_HEADER_SIZE,
         Boundary(m, d.start + ANMF_CHUNK_SIZE)
  PROVE  ParserInv(m, AnimationFrame(m, m.chunks[j], d, f))
<1> DEFINE c == m.chunks[j]
           e == Skip(d, ANMF_CHUNK_SIZE)
           r == ReadOf(c, d)
<1>1. /\ c \in FrameChunk /\ c.v.x \in Nat /\ c.v.width \in Nat /\ c.v.width > 0
      /\ c.size \in Nat
  BY DEF AnyChunk, CanvasChunk, FrameChunk, ImageChunk, PlainChunk,
       PlainTags, Metadata, ImageTags
<1> HIDE DEF c
<1>2. Padded(c.size) \in Nat  BY <1>1, PaddedIsNat
<1>3. \/ AnimationFrame(m, c, d, f) = Stop("ERROR", d, f)
      \/ AnimationFrame(m, c, d, f) = EndOfChunk(m, "ERROR", d, f)
      \/ AnimationFrame(m, c, d, f) = EndOfChunk(m, "NEED_MORE_DATA", d, f)
      \/ AnimationFrame(m, c, d, f) = StartFrame(m, e, r) /\ ~ Padded(c.size) < ANMF_CHUNK_SIZE
  BY DEF AnimationFrame, ReadOf
<1>4. /\ e \in Demuxer /\ e.start = d.start + ANMF_CHUNK_SIZE /\ e.start >= d.start
      /\ e.frames = d.frames /\ e.num_frames = d.num_frames /\ e.flags = d.flags
      /\ e.state = d.state /\ e.width = d.width /\ e.is_ext_format = d.is_ext_format
  BY SizesAreNat, SkipIsDemuxer
<1> HIDE DEF e
<1>5. Sound(m, e) /\ Extended(e)  BY <1>4, SoundLater DEF Extended
<1>6. ASSUME ~ Padded(c.size) < ANMF_CHUNK_SIZE
      PROVE  ParserInv(m, StartFrame(m, e, r))
  <2> DEFINE g == [NewFrame EXCEPT !.x = c.v.x, !.width = c.v.width]
  <2>1. /\ g \in Frame /\ g.x = c.v.x /\ g.width = c.v.width /\ g.image = NoData
        /\ g.alpha = NoData /\ g.frame_num = 0 /\ ~ g.complete
    BY <1>1, InitIsSound DEF NewFrame, Frame
  <2>2. r = [f |-> g, for |-> "animation", num |-> d.num_frames + 1,
             from |-> d.start + ANMF_CHUNK_SIZE,
             payload |-> Padded(c.size) - ANMF_CHUNK_SIZE]
    BY DEF ReadOf
  <2> HIDE DEF g, r
  <2>3. Padded(c.size) - ANMF_CHUNK_SIZE \in Nat /\ d.start + ANMF_CHUNK_SIZE \in Nat
        /\ d.num_frames + 1 \in Nat
    <3>1. Padded(c.size) \in Nat /\ d.start \in Nat /\ d.num_frames \in Nat
      BY <1>2 DEF Demuxer
    <3> QED BY <1>6, <3>1, SizesAreNat
  <2>4. r \in FrameRead  BY <2>1, <2>2, <2>3 DEF FrameRead
  <2>5. /\ r.f = g /\ r.for = "animation" /\ r.num = Len(e.frames) + 1
        /\ r.from = d.start + ANMF_CHUNK_SIZE /\ r.from = e.start
        /\ r.payload = Padded(c.size) - ANMF_CHUNK_SIZE
    BY <1>4, <2>2 DEF Sound
  <2>6. Placed(m, r.f, r.from, e.start)
    <3>1. EndOf(NoData) = 0  BY DEF EndOf, NoData
    <3>2. r.from \in Nat /\ m.riff_end \in Nat  BY <2>4 DEF FrameRead, Buffer
    <3> QED BY <2>1, <2>5, <3>1, <3>2 DEF Placed
  <2>7. ReadFor(m, e, r)  BY <1>5, <2>1, <2>5 DEF ReadFor, c
  <2>8. ASSUME NEW i \in 1 .. Len(e.frames) PROVE EndOf(e.frames[i].image) < r.from
    <3>1. SoundFrame(m, d, i)  BY <1>4 DEF Sound
    <3>2. EndOf(d.frames[i].image) <= d.start  BY <3>1 DEF SoundFrame, Placed
    <3>3. d.frames[i] \in Frame /\ d.start \in Nat  BY <1>4 DEF Demuxer
    <3>4. EndOf(d.frames[i].image) \in Nat  BY <3>3, EndsAreNat
    <3> QED BY <1>4, <2>5, <3>2, <3>3, <3>4, SizesAreNat
  <2>9. Reading(m, "OK", e, r)
    <3>1. r.from <= e.start  BY <1>4, <2>5 DEF Demuxer
    <3> QED BY <3>1, <1>1, <2>1, <2>5, <2>6, <2>7, <2>8 DEF Reading
  <2> QED BY <1>4, <1>5, <2>4, <2>9, StartFrameIsOk
<1> QED BY <1>3, <1>6, EndOfChunkIsOk, StopIsOk DEF Statuses, c

LEMMA ChunkIsOk ==
  ASSUME NEW m, Buffer(m), NEW p, ParserInv(m, p), p.pc = "chunks"
  PROVE  ParserInv(m, ParseChunk(m, p.dmux, p.frame))
<1> DEFINE d0 == p.dmux
           d == Skip(d0, CHUNK_HEADER_SIZE)
           f == p.frame
           r == ParseChunk(m, p.dmux, p.frame)
<1>1. /\ d0 \in Demuxer /\ f \in FrameRead /\ Sound(m, d0) /\ Extended(d0)
      /\ Boundary(m, d0.start) /\ d0.start + CHUNK_HEADER_SIZE <= m.end
  BY DEF ParserInv, ParserState
<1>2. PICK k \in 1 .. Len(m.chunks) :
        /\ d0.start = Offset(m.chunks, k)
        /\ ChunkAt(m, d0.start) = m.chunks[k] /\ m.chunks[k] \in AnyChunk
        /\ Boundary(m, d0.start + DiskSize(m.chunks[k]))
  BY <1>1, ChunkHere
<1> DEFINE c == m.chunks[k]
<1>3. /\ d \in Demuxer /\ d.start = d0.start + CHUNK_HEADER_SIZE /\ d.start >= d0.start
      /\ d.frames = d0.frames /\ d.num_frames = d0.num_frames /\ d.flags = d0.flags
      /\ d.state = d0.state /\ d.width = d0.width /\ d.is_ext_format = d0.is_ext_format
  BY <1>1, SizesAreNat, SkipIsDemuxer
<1>4. \/ r = Stop("ERROR", d, f)
      \/ r = SingleImage(m, d0, f) /\ ~ IsAnimation(d)
      \/ r = AnimationFrame(m, c, d, f) /\ c.tag = "ANMF"
      \/ r = AnimChunk(m, c, d, f) /\ c.tag = "ANIM"
      \/ /\ r = OtherChunk(m, c, d, f, c.tag \in Metadata => c.tag \in d.flags)
         /\ c.tag # "ANMF"
  BY <1>2 DEF ParseChunk
<1> HIDE DEF d, d0, f, r
<1>5. Sound(m, d) /\ Extended(d)  BY <1>1, <1>3, SoundLater DEF Extended
<1>6. CASE r = Stop("ERROR", d, f)
  BY <1>1, <1>3, <1>5, <1>6, StopIsOk DEF Statuses, r, d0, f
<1>7. CASE r = SingleImage(m, d0, f) /\ ~ IsAnimation(d)
  <2>1. ~ IsAnimation(d0)  BY <1>3, <1>7 DEF IsAnimation
  <2> QED BY <1>1, <1>7, <2>1, SingleImageIsOk DEF r, d0, f
<1>8. CASE r = AnimationFrame(m, c, d, f) /\ c.tag = "ANMF"
  <2>1. Boundary(m, d.start + ANMF_CHUNK_SIZE)
    <3>1. d0.start + DiskSize(c) = d.start + ANMF_CHUNK_SIZE
      BY <1>1, <1>3, <1>8, SizesAreNat DEF DiskSize, Demuxer
    <3> QED BY <1>2, <3>1
  <2> QED BY <1>1, <1>2, <1>3, <1>5, <1>8, <2>1, AnimationFrameIsOk DEF r, d0, f
<1>9. c.tag # "ANMF" =>
        Boundary(m, d.start + Padded(c.size)) /\ d.start >= CHUNK_HEADER_SIZE
  <2> SUFFICES ASSUME c.tag # "ANMF"
               PROVE  Boundary(m, d.start + Padded(c.size)) /\ d.start >= CHUNK_HEADER_SIZE
    OBVIOUS
  <2>1. Padded(c.size) \in Nat /\ d0.start \in Nat
    BY <1>1, <1>2, ChunkHasSize, PaddedIsNat DEF Demuxer
  <2>2. d0.start + DiskSize(c) = d.start + Padded(c.size) /\ d.start >= CHUNK_HEADER_SIZE
    BY <1>3, <2>1, SizesAreNat DEF DiskSize
  <2> QED BY <1>2, <2>2
<1>10. CASE r = AnimChunk(m, c, d, f) /\ c.tag = "ANIM"
  BY <1>1, <1>2, <1>3, <1>5, <1>9, <1>10, AnimChunkIsOk DEF r, d0, f
<1>11. CASE /\ r = OtherChunk(m, c, d, f, c.tag \in Metadata => c.tag \in d.flags)
            /\ c.tag # "ANMF"
  BY <1>1, <1>2, <1>3, <1>5, <1>9, <1>11, OtherChunkIsOk DEF r, d0, f
<1> QED BY <1>4, <1>6, <1>7, <1>8, <1>10, <1>11 DEF r, d0, f

-----------------------------------------------------------------------------
(* StoreFrame.                                                               *)

LEMMA ReadingLater ==
  ASSUME NEW m, NEW d \in Demuxer, NEW e \in Demuxer, NEW r \in FrameRead,
         NEW s, NEW t, t = "OK" => s = "OK", Reading(m, s, d, r), e.start >= d.start,
         e.frames = d.frames, e.flags = d.flags, e.state = d.state, e.width = d.width,
         e.is_ext_format = d.is_ext_format
  PROVE  Reading(m, t, e, r)
<1>1. ReadFor(m, e, r)
  <2>1. ReadFor(m, d, r)  BY DEF Reading
  <2>2. /\ IsAnimation(e) = IsAnimation(d) /\ Extended(e) = Extended(d)
        /\ Simple(e) = Simple(d)
    BY DEF IsAnimation, Extended, Simple
  <2> QED BY <2>1, <2>2 DEF ReadFor
<1>2. r.from <= e.start /\ Placed(m, r.f, r.from, e.start)
  <2>1. r.from \in Nat /\ d.start \in Nat /\ e.start \in Nat /\ r.f \in Frame
    BY DEF FrameRead, Demuxer
  <2>2. EndOf(r.f.image) \in Nat /\ EndOf(r.f.alpha) \in Nat  BY <2>1, EndsAreNat
  <2>3. r.from <= d.start /\ Placed(m, r.f, r.from, d.start)  BY DEF Reading
  <2> QED BY <2>1, <2>2, <2>3 DEF Placed
<1> QED BY <1>1, <1>2 DEF Reading

LEMMA EndOfFramePartIsOk ==
  ASSUME NEW m, Buffer(m), NEW d \in Demuxer, Sound(m, d), NEW r \in FrameRead,
         NEW s \in Statuses, NEW done \in BOOLEAN, Reading(m, s, d, r),
         s = "OK" => Boundary(m, d.start)
  PROVE  ParserInv(m, EndOfFramePart(m, s, done, d, r))
<1> DEFINE p == EndOfFramePart(m, s, done, d, r)
<1>1. /\ p \in ParserState /\ p.dmux = d /\ p.frame = r
      /\ p.status = "OK" => s = "OK"
      /\ \/ p.pc = "stored"
         \/ p.pc = "store" /\ p.status = "OK" /\ ~ MemDataSize(m, d) < CHUNK_HEADER_SIZE
  BY DEF EndOfFramePart, At, ParserState, Statuses
<1> HIDE DEF p
<1>2. p.pc = "store" => d.start + CHUNK_HEADER_SIZE <= m.end
  BY <1>1, SizesAreNat DEF MemDataSize, Buffer, Demuxer
<1>3. Reading(m, p.status, d, r)
  <2>1. d.start >= d.start  BY DEF Demuxer
  <2> QED BY <1>1, <2>1, ReadingLater
<1>4. ParserInv(m, p)  BY <1>1, <1>2, <1>3 DEF ParserInv
<1> QED BY <1>4 DEF p

LEMMA FrameGivenUpIsOk ==
  ASSUME NEW m, NEW d \in Demuxer, Sound(m, d), NEW r \in FrameRead,
         NEW s \in Statuses, s # "OK", Reading(m, s, d, r)
  PROVE  ParserInv(m, FrameGivenUp(s, d, r))
<1> DEFINE p == FrameGivenUp(s, d, r)
<1>1. p \in ParserState /\ p.dmux = d /\ p.frame = r /\ p.pc = "stored" /\ p.status = s
  BY DEF FrameGivenUp, At, ParserState
<1> HIDE DEF p
<1>2. ParserInv(m, p)  BY <1>1 DEF ParserInv
<1> QED BY <1>2 DEF p

\* A part of the frame that begins where the parser is and ends where it goes to.
LEMMA AlphaIsSet ==
  ASSUME NEW m, Buffer(m), NEW d \in Demuxer, NEW e \in Demuxer, NEW r \in FrameRead,
         NEW s, Reading(m, "OK", d, r), Reading(m, s, e, r), r.f.alpha = NoData,
         NEW part \in Part, part.offset = d.start, EndOf(part) = e.start, part.size > 0
  PROVE  SetAlpha(r, part) \in FrameRead /\ Reading(m, s, e, SetAlpha(r, part))
<1> DEFINE g == [r.f EXCEPT !.alpha = part, !.has_alpha = TRUE, !.frame_num = r.num]
           q == [r EXCEPT !.f = g]
<1>1. /\ r.f \in Frame /\ r.num \in Nat /\ r.from \in Nat /\ d.start \in Nat /\ e.start \in Nat
      /\ EndOf(r.f.image) \in Nat
  BY EndsAreNat DEF FrameRead, Demuxer
<1>2. SetAlpha(r, part) = q  BY DEF SetAlpha, FrameRead, Frame
<1>3. /\ g \in Frame /\ g.alpha = part /\ g.image = r.f.image /\ g.frame_num = r.num
      /\ g.complete = r.f.complete /\ g.x = r.f.x /\ g.width = r.f.width
  BY <1>1 DEF Frame
<1>4. part # NoData  BY DEF NoData
<1> HIDE DEF g
<1>5. /\ q \in FrameRead /\ q.f = g /\ q.num = r.num /\ q.from = r.from /\ q.for = r.for
      /\ q.payload = r.payload
  BY <1>3 DEF FrameRead
<1> HIDE DEF q
<1>6. r.from <= d.start /\ Placed(m, r.f, r.from, d.start) /\ Placed(m, r.f, r.from, e.start)
  BY DEF Reading
<1>7. Placed(m, g, r.from, e.start)  BY <1>1, <1>3, <1>6 DEF Placed, Apart
<1>8. FirstPart(g) # NoData  BY <1>3, <1>4 DEF FirstPart
<1>9. ReadFor(m, e, q)
  <2>1. ReadFor(m, e, r)  BY DEF Reading
  <2> QED BY <1>3, <1>5, <2>1 DEF ReadFor
<1>10. Reading(m, s, e, q)  BY <1>3, <1>5, <1>7, <1>8, <1>9 DEF Reading
<1> QED BY <1>2, <1>5, <1>10

LEMMA ImageIsSet ==
  ASSUME NEW m, Buffer(m), NEW d \in Demuxer, NEW e \in Demuxer, NEW r \in FrameRead,
         NEW s, Reading(m, "OK", d, r), Reading(m, s, e, r), r.f.image = NoData,
         NEW part \in Part, part.offset = d.start, EndOf(part) = e.start, part.size > 0,
         e.start <= m.riff_end, NEW c \in ImageChunk
  PROVE  /\ SetFrameInfo(r, c, part, s = "OK") \in FrameRead
         /\ Reading(m, s, e, SetFrameInfo(r, c, part, s = "OK"))
<1> DEFINE g == [r.f EXCEPT !.image = part, !.width = c.v.width,
                            !.has_alpha = @ \/ c.v.has_alpha, !.frame_num = r.num,
                            !.complete = (s = "OK")]
           q == [r EXCEPT !.f = g]
<1>1. /\ r.f \in Frame /\ r.num \in Nat /\ r.from \in Nat /\ d.start \in Nat /\ e.start \in Nat
      /\ EndOf(r.f.alpha) \in Nat
  BY EndsAreNat DEF FrameRead, Demuxer
<1>2. SetFrameInfo(r, c, part, s = "OK") = q  BY DEF SetFrameInfo, FrameRead, Frame
<1>3. /\ g \in Frame /\ g.image = part /\ g.alpha = r.f.alpha /\ g.frame_num = r.num
      /\ g.complete = (s = "OK") /\ g.x = r.f.x /\ g.width = c.v.width
  BY <1>1 DEF Frame, ImageChunk
<1>4. part # NoData /\ c.v.width \in Nat /\ c.v.width > 0  BY DEF NoData, ImageChunk
<1> HIDE DEF g
<1>5. /\ q \in FrameRead /\ q.f = g /\ q.num = r.num /\ q.from = r.from /\ q.for = r.for
      /\ q.payload = r.payload
  BY <1>3 DEF FrameRead
<1> HIDE DEF q
<1>6. r.from <= d.start /\ Placed(m, r.f, r.from, d.start) /\ Placed(m, r.f, r.from, e.start)
  BY DEF Reading
<1>7. Placed(m, g, r.from, e.start)  BY <1>1, <1>3, <1>6 DEF Placed, Apart
<1>8. FirstPart(g) # NoData
  <2>1. r.f.alpha # NoData \/ r.f.alpha = NoData  OBVIOUS
  <2> QED BY <1>3, <1>4, <2>1 DEF FirstPart
<1>9. ReadFor(m, e, q)
  <2>1. ReadFor(m, e, r)  BY DEF Reading
  <2> QED BY <1>3, <1>4, <1>5, <2>1 DEF ReadFor
<1>10. Reading(m, s, e, q)
  <2>0. s = "OK" => g.complete  BY <1>3
  <2>1. g.image # NoData /\ g.frame_num = r.num /\ g.width # 0  BY <1>3, <1>4
  <2>2. /\ r.num = Len(e.frames) + 1 /\ r.from <= e.start
        /\ \A i \in 1 .. Len(e.frames) : EndOf(e.frames[i].image) < r.from
    BY DEF Reading
  <2> QED BY <1>5, <1>7, <1>8, <1>9, <2>0, <2>1, <2>2 DEF Reading
<1> QED BY <1>2, <1>5, <1>10

\* The chunk c of StoreFrame, whose header was at the start of d0.
LEMMA StorePartIsOk ==
  ASSUME NEW m, Buffer(m), NEW p, ParserInv(m, p), p.pc = "store"
  PROVE  ParserInv(m, StorePart(m, p.dmux, p.frame))
<1> DEFINE d0 == p.dmux
           r == p.frame
           d == Skip(d0, CHUNK_HEADER_SIZE)
           x == StorePart(m, p.dmux, p.frame)
<1>1. /\ d0 \in Demuxer /\ r \in FrameRead /\ Sound(m, d0) /\ Reading(m, "OK", d0, r)
      /\ Boundary(m, d0.start) /\ d0.start + CHUNK_HEADER_SIZE <= m.end
  BY DEF ParserInv, ParserState
<1>2. PICK k \in 1 .. Len(m.chunks) :
        /\ d0.start \in Nat /\ d0.start >= RIFF_HEADER_SIZE
        /\ ChunkAt(m, d0.start) = m.chunks[k] /\ m.chunks[k] \in AnyChunk
        /\ Boundary(m, d0.start + DiskSize(m.chunks[k]))
  BY <1>1, ChunkHere
<1> DEFINE c == m.chunks[k]
           available == MinOf(Padded(c.size), MemDataSize(m, d))
           s == IF Padded(c.size) > MemDataSize(m, d) THEN "NEED_MORE_DATA" ELSE "OK"
           part == [offset |-> d0.start, size |-> CHUNK_HEADER_SIZE + available]
           e == Skip(d, available)
<1>3. /\ d \in Demuxer /\ d.start = d0.start + CHUNK_HEADER_SIZE /\ d.start >= d0.start
      /\ d.frames = d0.frames /\ d.num_frames = d0.num_frames /\ d.flags = d0.flags
      /\ d.state = d0.state /\ d.width = d0.width /\ d.is_ext_format = d0.is_ext_format
  BY <1>1, SizesAreNat, SkipIsDemuxer
<1>4. \/ x = FrameGivenUp("ERROR", d, r)
      \/ /\ x = EndOfFramePart(m, s, FALSE, e, SetAlpha(r, part))
         /\ c.tag = "ALPH" /\ r.f.alpha = NoData
      \/ x = FrameGivenUp(IF s = "OK" THEN "ERROR" ELSE s, d, r)
      \/ /\ x = EndOfFramePart(m, s, FALSE, e, SetFrameInfo(r, c, part, s = "OK"))
         /\ c.tag \in ImageTags /\ r.f.image = NoData
      \/ x = EndOfFramePart(m, s, TRUE, d0, r)
  BY <1>2 DEF StorePart
<1>5. s \in Statuses  BY DEF Statuses
<1> HIDE DEF d0, r, x
<1>6. /\ available \in Nat /\ available <= m.end - d.start
      /\ s = "OK" => available = Padded(c.size)
  <2>1. Padded(c.size) \in Nat /\ m.end \in Nat /\ m.end - d.start \in Nat
    <3>1. Padded(c.size) \in Nat  BY <1>2, ChunkHasSize, PaddedIsNat
    <3>2. m.end \in Nat  BY DEF Buffer
    <3> QED BY <1>1, <1>2, <1>3, <3>1, <3>2, SizesAreNat
  <2> QED BY <2>1 DEF MinOf, MemDataSize
<1> HIDE DEF d, s, available
<1>7. /\ part \in Part /\ part.offset = d0.start /\ part.size > 0
      /\ part.size = CHUNK_HEADER_SIZE + available
  BY <1>2, <1>6, SizesAreNat DEF Part
<1> HIDE DEF part
<1>8. /\ e \in Demuxer /\ e.start = d.start + available /\ e.start >= d.start
      /\ e.frames = d.frames /\ e.num_frames = d.num_frames /\ e.flags = d.flags
      /\ e.state = d.state /\ e.width = d.width /\ e.is_ext_format = d.is_ext_format
  BY <1>3, <1>6, SkipIsDemuxer
<1> HIDE DEF e
<1>9. e.start <= m.riff_end /\ EndOf(part) = e.start /\ e.start >= d0.start
  <2>1. m.end \in Nat /\ m.riff_end \in Nat /\ m.end <= m.riff_end  BY DEF Buffer
  <2>2. d0.start \in Nat /\ d.start = d0.start + CHUNK_HEADER_SIZE
    BY <1>1, <1>3 DEF Demuxer
  <2>3. EndOf(part) = d0.start + (CHUNK_HEADER_SIZE + available)  BY <1>7 DEF EndOf
  <2> QED BY <1>6, <1>8, <2>1, <2>2, <2>3, SizesAreNat
<1>10. Sound(m, d) /\ Sound(m, e)  BY <1>1, <1>3, <1>8, SoundLater
<1>11. Reading(m, "NEED_MORE_DATA", d, r) /\ Reading(m, "ERROR", d, r)
  BY <1>1, <1>3, ReadingLater
<1>12. Reading(m, s, e, r)
  <2>1. /\ e.frames = d0.frames /\ e.flags = d0.flags /\ e.state = d0.state
        /\ e.width = d0.width /\ e.is_ext_format = d0.is_ext_format
    BY <1>3, <1>8
  <2> QED BY <1>1, <1>8, <1>9, <2>1, ReadingLater
<1>13. ASSUME s = "OK", c.tag # "ANMF" PROVE Boundary(m, e.start)
  <2>1. Padded(c.size) \in Nat /\ d0.start \in Nat  BY <1>2, ChunkHasSize, PaddedIsNat
  <2>2. d0.start + DiskSize(c) = e.start
    BY <1>3, <1>6, <1>8, <1>13, <2>1, SizesAreNat DEF DiskSize
  <2> QED BY <1>2, <2>2
<1>14. CASE x = FrameGivenUp("ERROR", d, r)
  BY <1>1, <1>3, <1>10, <1>11, <1>14, FrameGivenUpIsOk DEF Statuses, x, d0, r
<1>15. CASE /\ x = EndOfFramePart(m, s, FALSE, e, SetAlpha(r, part))
            /\ c.tag = "ALPH" /\ r.f.alpha = NoData
  <2> DEFINE q == SetAlpha(r, part)
  <2>1. q \in FrameRead /\ Reading(m, s, e, q)
    BY <1>1, <1>7, <1>8, <1>9, <1>12, <1>15, AlphaIsSet
  <2> HIDE DEF q
  <2>2. x = EndOfFramePart(m, s, FALSE, e, q)  BY <1>15 DEF q
  <2> QED BY <1>5, <1>8, <1>10, <1>13, <1>15, <2>1, <2>2, EndOfFramePartIsOk DEF x, d0, r
<1>16. CASE x = FrameGivenUp(IF s = "OK" THEN "ERROR" ELSE s, d, r)
  <2> DEFINE t == IF s = "OK" THEN "ERROR" ELSE s
  <2>1. t \in {"NEED_MORE_DATA", "ERROR"}  BY <1>5 DEF Statuses
  <2>2. x = FrameGivenUp(t, d, r)  BY <1>16
  <2> HIDE DEF t
  <2> QED BY <1>1, <1>3, <1>10, <1>11, <2>1, <2>2, FrameGivenUpIsOk DEF Statuses, x, d0, r
<1>17. CASE /\ x = EndOfFramePart(m, s, FALSE, e, SetFrameInfo(r, c, part, s = "OK"))
            /\ c.tag \in ImageTags /\ r.f.image = NoData
  <2> DEFINE q == SetFrameInfo(r, c, part, s = "OK")
  <2>1. c \in ImageChunk
    BY <1>2, <1>17 DEF AnyChunk, CanvasChunk, FrameChunk, ImageChunk, PlainChunk,
       PlainTags, Metadata, ImageTags
  <2> HIDE DEF c
  <2>2. q \in FrameRead /\ Reading(m, s, e, q)
    BY <1>1, <1>7, <1>8, <1>9, <1>12, <1>17, <2>1, ImageIsSet
  <2>3. x = EndOfFramePart(m, s, FALSE, e, q) /\ c.tag # "ANMF"  BY <1>17 DEF ImageTags
  <2> HIDE DEF q
  <2> QED BY <1>5, <1>8, <1>10, <1>13, <2>2, <2>3, EndOfFramePartIsOk DEF x, d0, r, c
<1>18. CASE x = EndOfFramePart(m, s, TRUE, d0, r)
  <2>1. Reading(m, s, d0, r)
    <3>1. d0.start >= d0.start  BY <1>2
    <3> QED BY <1>1, <3>1, ReadingLater
  <2> QED BY <1>1, <1>5, <1>18, <2>1, EndOfFramePartIsOk DEF x, d0, r
<1> QED BY <1>4, <1>14, <1>15, <1>16, <1>17, <1>18 DEF x, d0, r

-----------------------------------------------------------------------------
(* What becomes of the frame.                                                *)

LEMMA FrameIsAdded ==
  ASSUME NEW d \in Demuxer, NEW f \in Frame, NEW n \in Nat
  PROVE  /\ AddFrame(d, f, n) \in Demuxer
         /\ AddFrame(d, f, n).frames = Append(d.frames, f)
         /\ AddFrame(d, f, n).num_frames = n /\ AddFrame(d, f, n).start = d.start
         /\ AddFrame(d, f, n).flags = d.flags /\ AddFrame(d, f, n).state = d.state
         /\ AddFrame(d, f, n).width = d.width
         /\ AddFrame(d, f, n).is_ext_format = d.is_ext_format
<1>1. d.frames \in Seq(Frame)  BY DEF Demuxer
<1>2. Append(d.frames, f) \in Seq(Frame)  BY <1>1
<1> QED BY <1>2 DEF AddFrame, Demuxer

LEMMA AlphaIsDropped ==
  ASSUME NEW m, Buffer(m), NEW d \in Demuxer, NEW r \in FrameRead, NEW s, Reading(m, s, d, r)
  PROVE  /\ Shown(d, r) \in Frame
         /\ Shown(d, r).alpha = (IF Unflagged(d, r) THEN NoData ELSE r.f.alpha)
         /\ Shown(d, r).image = r.f.image /\ Shown(d, r).x = r.f.x
         /\ Shown(d, r).width = r.f.width /\ Shown(d, r).frame_num = r.f.frame_num
         /\ Shown(d, r).complete = r.f.complete
         /\ Placed(m, Shown(d, r), 0, d.start)
<1> DEFINE f == Shown(d, r)
<1>1. r.f \in Frame /\ r.from \in Nat /\ d.start \in Nat  BY DEF FrameRead, Demuxer
<1>2. /\ f \in Frame /\ f.alpha = (IF Unflagged(d, r) THEN NoData ELSE r.f.alpha)
      /\ f.image = r.f.image /\ f.x = r.f.x /\ f.width = r.f.width
      /\ f.frame_num = r.f.frame_num /\ f.complete = r.f.complete
  BY <1>1 DEF Shown, Frame, NoData, Part
<1> HIDE DEF f
<1>3. Placed(m, f, 0, d.start)
  <2>1. Placed(m, r.f, r.from, d.start)  BY DEF Reading
  <2>2. EndOf(NoData) = 0  BY DEF EndOf, NoData
  <2>3. /\ r.f.image.offset \in Nat /\ r.f.alpha.offset \in Nat  BY <1>1 DEF Frame, Part
  <2>4. f.alpha = NoData \/ f.alpha = r.f.alpha  BY <1>2
  <2> QED BY <1>1, <1>2, <2>1, <2>2, <2>3, <2>4 DEF Placed
<1> QED BY <1>2, <1>3 DEF f

LEMMA ImageStoredIsOk ==
  ASSUME NEW m, Buffer(m), NEW d0 \in Demuxer, Sound(m, d0), NEW r \in FrameRead,
         r.for = "image", NEW s \in Statuses, Reading(m, s, d0, r),
         s = "OK" => Boundary(m, d0.start)
  PROVE  ParserInv(m, ImageStored(m, s, d0, r))
<1> DEFINE f == Shown(d0, r)
           d == IF d0.is_ext_format \/ f.width = 0 THEN d0
                ELSE [d0 EXCEPT !.state = "PARSED_HEADER", !.width = f.width,
                                !.flags = @ \cup (IF f.has_alpha THEN {"ALPHA"} ELSE {})]
           e == AddFrame(d, f, 1)
           x == ImageStored(m, s, d0, r)
<1>1. /\ s = "ERROR" /\ d0.is_ext_format => x = EndOfChunk(m, "ERROR", d0, r)
      /\ s = "ERROR" /\ ~ d0.is_ext_format => x = Stop("ERROR", d0, r)
      /\ s # "ERROR" /\ d0.is_ext_format => x = EndOfChunk(m, s, e, r)
      /\ s # "ERROR" /\ ~ d0.is_ext_format => x = Stop(s, e, r)
  BY DEF ImageStored, Shown, Unflagged
<1>2. /\ r.f \in Frame /\ d0.start \in Nat /\ r.from \in Nat
      /\ r.num = 1 /\ ~ IsAnimation(d0) /\ d0.frames = << >> /\ r.f.x = 0
      /\ r.f.width > 0 => r.f.image # NoData
      /\ Extended(d0) \/ Simple(d0)
  <2>1. ReadFor(m, d0, r) /\ r.num = Len(d0.frames) + 1  BY DEF Reading
  <2> QED BY <2>1 DEF ReadFor, FrameRead, Demuxer
<1>3. /\ f \in Frame /\ f.alpha = (IF Unflagged(d0, r) THEN NoData ELSE r.f.alpha)
      /\ f.image = r.f.image /\ f.x = r.f.x /\ f.width = r.f.width
      /\ f.frame_num = r.f.frame_num /\ f.complete = r.f.complete
      /\ Placed(m, f, 0, d0.start)
  BY AlphaIsDropped
<1> HIDE DEF x, f
<1>4. f \in Frame /\ f.x = 0 /\ Placed(m, f, 0, d0.start)  BY <1>2, <1>3
<1>5. /\ d \in Demuxer /\ d.frames = << >> /\ d.start = d0.start
      /\ d.is_ext_format = d0.is_ext_format /\ ~ IsAnimation(d)
      /\ d0.is_ext_format => d = d0
      /\ f.width = 0 => d = d0
      /\ ~ d0.is_ext_format /\ f.width # 0 => d.width = f.width
  <2>1. d0.flags \cup (IF f.has_alpha THEN {"ALPHA"} ELSE {}) \in SUBSET Flags
    BY DEF Demuxer, Flags
  <2>2. f.width \in Int  BY <1>4 DEF Frame
  <2> QED BY <1>2, <2>1, <2>2 DEF IsAnimation, Demuxer, States
<1> HIDE DEF d
<1>6. /\ e \in Demuxer /\ e.frames = << f >> /\ e.num_frames = 1 /\ e.start = d0.start
      /\ ~ IsAnimation(e) /\ e.is_ext_format = d0.is_ext_format /\ e.state = d.state
      /\ e.width = d.width
  <2>1. Append(<< >>, f) = << f >>  OBVIOUS
  <2>2. /\ e \in Demuxer /\ e.frames = Append(d.frames, f) /\ e.num_frames = 1
        /\ e.start = d.start /\ e.flags = d.flags /\ e.state = d.state /\ e.width = d.width
        /\ e.is_ext_format = d.is_ext_format
    BY <1>4, <1>5, FrameIsAdded
  <2> HIDE DEF e
  <2>3. ~ IsAnimation(e)  BY <1>5, <2>2 DEF IsAnimation
  <2> QED BY <1>5, <2>1, <2>2, <2>3
<1> HIDE DEF e
<1>7. \/ r.f.frame_num = 1
      \/ r.f.frame_num = 0 /\ r.f.image = NoData /\ ~ r.f.complete
  BY <1>2 DEF Reading
<1>8. Sound(m, e)
  <2>1. Len(e.frames) = 1 /\ e.frames[1] = f  BY <1>6
  <2>2. f.width = 0 => f.x = 0  BY <1>4
  <2>3. f.frame_num = 1 \/ (f.frame_num = 0 /\ ~ f.complete)
    <3>1. CASE r.f.frame_num = 1  BY <1>3, <3>1
    <3>2. CASE r.f.frame_num = 0 /\ ~ r.f.complete  BY <1>3, <3>2
    <3> QED BY <1>7, <3>1, <3>2
  <2>4. SoundFrame(m, e, 1)  BY <1>4, <1>6, <2>1, <2>2, <2>3 DEF SoundFrame
  <2>5. \A i \in 1 .. 1 : i = 1  OBVIOUS
  <2> QED BY <1>6, <2>1, <2>4, <2>5 DEF Sound
<1>9. CASE d0.is_ext_format
  <2>1. Extended(d0) /\ Extended(e)  BY <1>2, <1>5, <1>6, <1>9 DEF Extended, Simple
  <2>2. CASE s = "ERROR"  BY <1>1, <1>9, <2>1, <2>2, EndOfChunkIsOk DEF x, Statuses
  <2>3. CASE s # "ERROR"  BY <1>1, <1>6, <1>8, <1>9, <2>1, <2>3, EndOfChunkIsOk DEF x
  <2> QED BY <2>2, <2>3
<1>10. CASE ~ d0.is_ext_format
  <2>1. Simple(d0)  BY <1>2, <1>10 DEF Extended
  <2>2. CASE s = "ERROR"  BY <1>1, <1>10, <2>2, StopIsOk DEF x, Statuses
  <2>3. CASE s # "ERROR"
    <3>1. f.alpha = NoData  BY <1>3, <2>1 DEF Simple, Unflagged
    <3>2. f.width = 0 => e.state = "PARSING_HEADER"  BY <1>5, <1>6, <2>1 DEF Simple
    <3>3. f.width > 0 => f.width = e.width  BY <1>5, <1>6, <1>10
    <3>4. s = "OK" /\ f.width > 0 => f.complete
      <4>1. s = "OK" /\ r.f.image # NoData => r.f.complete  BY DEF Reading
      <4>2. f.width > 0 => r.f.image # NoData  BY <1>2, <1>3
      <4>3. r.f.complete => f.complete  BY <1>3
      <4> QED BY <4>1, <4>2, <4>3
    <3>5. Len(e.frames) = 1 /\ e.frames[1] = f /\ f.x = 0  BY <1>4, <1>6
    <3>6. Final(s, e)  BY <1>6, <1>10, <3>1, <3>2, <3>3, <3>4, <3>5 DEF Final
    <3> QED BY <1>1, <1>6, <1>8, <1>10, <2>3, <3>6, StopIsOk DEF x
  <2> QED BY <2>2, <2>3
<1> QED BY <1>9, <1>10

LEMMA AnimationFrameStoredIsOk ==
  ASSUME NEW m, Buffer(m), NEW d \in Demuxer, Sound(m, d), NEW r \in FrameRead,
         r.for # "image", NEW s \in Statuses, Reading(m, s, d, r),
         s = "OK" => Boundary(m, d.start)
  PROVE  ParserInv(m, AnimationFrameStored(m, s, d, r))
<1> DEFINE n == Len(d.frames)
           e == AddFrame(d, r.f, d.num_frames + 1)
           x == AnimationFrameStored(m, s, d, r)
<1>1. \/ x = EndOfChunk(m, "ERROR", d, r)
      \/ x = EndOfChunk(m, s, d, r)
      \/ /\ x = EndOfChunk(m, s, e, r)
         /\ ~ Overrun(d, r) /\ IsAnimation(d) /\ r.f.frame_num > 0
  BY DEF AnimationFrameStored
<1>2. Extended(d)  BY DEF Reading, ReadFor
<1>3. ASSUME ~ Overrun(d, r), IsAnimation(d), r.f.frame_num > 0
      PROVE  e \in Demuxer /\ Sound(m, e) /\ Extended(e) /\ e.start = d.start
  <2>1. /\ r.f \in Frame /\ d.start \in Nat /\ r.from \in Nat /\ d.frames \in Seq(Frame)
        /\ d.num_frames = n /\ n \in Nat /\ r.num = n + 1 /\ r.payload \in Nat
    BY DEF FrameRead, Demuxer, Sound, Reading
  <2>2. /\ e \in Demuxer /\ e.frames = Append(d.frames, r.f) /\ e.num_frames = n + 1
        /\ e.start = d.start /\ e.flags = d.flags /\ e.state = d.state
        /\ e.width = d.width /\ e.is_ext_format = d.is_ext_format
    <3>1. d.num_frames + 1 \in Nat /\ d.num_frames + 1 = n + 1  BY <2>1
    <3>2. r.f \in Frame  BY <2>1
    <3> DEFINE k == d.num_frames + 1
    <3> HIDE DEF k
    <3>3. /\ AddFrame(d, r.f, k) \in Demuxer
          /\ AddFrame(d, r.f, k).frames = Append(d.frames, r.f)
          /\ AddFrame(d, r.f, k).num_frames = k /\ AddFrame(d, r.f, k).start = d.start
          /\ AddFrame(d, r.f, k).flags = d.flags /\ AddFrame(d, r.f, k).state = d.state
          /\ AddFrame(d, r.f, k).width = d.width
          /\ AddFrame(d, r.f, k).is_ext_format = d.is_ext_format
      BY <3>1, <3>2, FrameIsAdded DEF k
    <3> QED BY <3>1, <3>3 DEF k
  <2> HIDE DEF e
  <2>3. Len(e.frames) = n + 1 /\ e.frames[n + 1] = r.f
        /\ \A i \in 1 .. n : e.frames[i] = d.frames[i]
    BY <2>1, <2>2
  <2> HIDE DEF n
  <2>4. IsAnimation(e) = IsAnimation(d)  BY <2>2 DEF IsAnimation
  <2>5. /\ Placed(m, r.f, r.from, d.start) /\ r.from <= d.start
        /\ r.f.frame_num = n + 1 /\ FirstPart(r.f) # NoData
        /\ r.f.width = 0 => r.f.x = 0
        /\ \A i \in 1 .. n : EndOf(d.frames[i].image) < r.from
    BY <1>3, <2>1 DEF Reading, n
  <2>6. FirstPart(r.f).offset >= r.from /\ FirstPart(r.f).offset \in Nat
    <3>1. r.f.alpha.offset \in Nat /\ r.f.image.offset \in Nat  BY <2>1 DEF Frame, Part
    <3> QED BY <2>5, <3>1 DEF FirstPart, Placed
  <2>7. PICK j \in 1 .. Len(m.chunks) :
          /\ m.chunks[j].tag = "ANMF" /\ m.chunks[j].v.x = r.f.x
          /\ r.from = Offset(m.chunks, j) + CHUNK_HEADER_SIZE + ANMF_CHUNK_SIZE
          /\ r.payload = Padded(m.chunks[j].size) - ANMF_CHUNK_SIZE
    BY DEF Reading, ReadFor
  <2>8. InFrameChunk(m, r.f, j)
    <3>1. /\ Offset(m.chunks, j) \in Nat /\ Padded(m.chunks[j].size) \in Nat
      <4>1. m.chunks \in Seq(AnyChunk)  BY DEF Buffer
      <4>2. j \in 1 .. Len(m.chunks) + 1 /\ m.chunks[j] \in AnyChunk  BY <4>1
      <4>3. Layout(m.chunks)  BY <4>1, ChunksFollow
      <4> QED BY <4>2, <4>3, ChunkHasSize, PaddedIsNat DEF Layout
    <3>2. EndOf(r.f.image) \in Nat /\ EndOf(r.f.image) <= d.start
      BY <2>1, <2>5, EndsAreNat DEF Placed
    <3>3. d.start - r.from <= r.payload  BY <1>3, <2>1 DEF Overrun
    <3> QED
      <4>1. d.start \in Nat /\ r.from \in Nat /\ r.payload \in Nat  BY <2>1
      <4>2. /\ r.from = Offset(m.chunks, j) + CHUNK_HEADER_SIZE + ANMF_CHUNK_SIZE
            /\ r.payload = Padded(m.chunks[j].size) - ANMF_CHUNK_SIZE
        BY <2>7
      <4>3. FirstPart(r.f).offset >= Offset(m.chunks, j) + CHUNK_HEADER_SIZE + ANMF_CHUNK_SIZE
        BY <2>6, <4>2
      <4>4. d.start <= Offset(m.chunks, j) + CHUNK_HEADER_SIZE + Padded(m.chunks[j].size)
        BY <3>1, <3>3, <4>1, <4>2, SizesAreNat
      <4>5. EndOf(r.f.image) <= Offset(m.chunks, j) + CHUNK_HEADER_SIZE + Padded(m.chunks[j].size)
        BY <3>1, <3>2, <4>1, <4>4, SizesAreNat
      <4> QED BY <2>7, <4>3, <4>5 DEF InFrameChunk
  <2>9. ASSUME NEW i \in 1 .. n PROVE SoundFrame(m, e, i)
    <3>1. SoundFrame(m, d, i) /\ e.frames[i] = d.frames[i]  BY <2>3 DEF Sound, n
    <3>2. i > 1 => e.frames[i - 1] = d.frames[i - 1]  BY <2>1, <2>3
    <3> QED BY <2>2, <2>4, <3>1, <3>2 DEF SoundFrame
  <2>10. SoundFrame(m, e, n + 1)
    <3>1. Placed(m, r.f, 0, e.start)
      <4>1. r.f.alpha.offset \in Nat /\ r.f.image.offset \in Nat  BY <2>1 DEF Frame, Part
      <4> QED BY <2>1, <2>2, <2>5, <4>1 DEF Placed
    <3>2. n + 1 > 1 => FirstPart(r.f).offset > EndOf(e.frames[(n + 1) - 1].image)
      <4> SUFFICES ASSUME n + 1 > 1
                   PROVE  FirstPart(r.f).offset > EndOf(e.frames[(n + 1) - 1].image)
        OBVIOUS
      <4>1. (n + 1) - 1 = n /\ n \in 1 .. n  BY <2>1
      <4>2. d.frames[n] \in Frame /\ e.frames[n] = d.frames[n]  BY <2>1, <2>3, <4>1 DEF n
      <4>3. EndOf(d.frames[n].image) < r.from /\ EndOf(d.frames[n].image) \in Nat
        BY <2>5, <4>1, <4>2, EndsAreNat
      <4> QED BY <2>1, <2>6, <4>1, <4>2, <4>3
    <3> QED BY <2>3, <2>5, <2>8, <3>1, <3>2 DEF SoundFrame
  <2>11. Sound(m, e)
    <3>1. \A i \in 1 .. n + 1 : i \in 1 .. n \/ i = n + 1  BY <2>1
    <3> QED BY <1>3, <2>2, <2>3, <2>4, <2>9, <2>10, <3>1 DEF Sound
  <2> QED BY <1>2, <2>2, <2>11 DEF Extended
<1> QED BY <1>1, <1>2, <1>3, EndOfChunkIsOk DEF Statuses

LEMMA FrameStoredIsOk ==
  ASSUME NEW m, Buffer(m), NEW p, ParserInv(m, p), p.pc = "stored"
  PROVE  ParserInv(m, FrameStored(m, p.status, p.dmux, p.frame))
<1> DEFINE d == p.dmux
           r == p.frame
           s == p.status
<1>1. /\ d \in Demuxer /\ r \in FrameRead /\ s \in Statuses /\ Sound(m, d)
      /\ Reading(m, s, d, r)
      /\ s = "OK" => Boundary(m, d.start)
  BY DEF ParserInv, ParserState
<1> HIDE DEF d, r, s
<1>2. CASE r.for = "image"
  <2>1. ParserInv(m, ImageStored(m, s, d, r))  BY <1>1, <1>2, ImageStoredIsOk
  <2> QED BY <1>2, <2>1 DEF FrameStored, d, r, s
<1>3. CASE r.for # "image"
  <2>1. ParserInv(m, AnimationFrameStored(m, s, d, r))
    BY <1>1, <1>3, AnimationFrameStoredIsOk
  <2> QED BY <1>3, <2>1 DEF FrameStored, d, r, s
<1> QED BY <1>2, <1>3

-----------------------------------------------------------------------------
(* What a call gives.                                                        *)

LEMMA AlphaComesFirst ==
  ASSUME NEW m, NEW f \in Frame, NEW from, NEW to, Placed(m, f, from, to),
         f.alpha # NoData, f.image # NoData, f.alpha.offset <= f.image.offset
  PROVE  EndOf(f.alpha) <= f.image.offset
<1>1. /\ f.alpha.offset \in Nat /\ f.alpha.size \in Nat
      /\ f.image.offset \in Nat /\ f.image.size \in Nat
  BY DEF Frame, Part
<1>2. Apart(f.alpha, f.image) /\ f.image.size > 0  BY DEF Placed
<1> QED BY <1>1, <1>2 DEF Apart, EndOf

LEMMA ExtendedIsSound ==
  ASSUME NEW m, NEW s \in {"OK", "NEED_MORE_DATA"}, NEW d \in Demuxer, Sound(m, d),
         d.is_ext_format, Final(s, d),
         NEW state, state = (IF s = "OK" THEN "DONE" ELSE d.state), state # "PARSING_HEADER",
         IsValidExtendedFormat(d, state),
         NEW g, g = [d EXCEPT !.state = state], NEW i \in 1 .. Len(d.frames)
  PROVE  SoundGiven(m, g, i)
<1> DEFINE f == d.frames[i]
<1>1. /\ g.frames = d.frames /\ g.state = state /\ g.width = d.width /\ g.flags = d.flags
  BY DEF Demuxer
<1>2. f \in Frame /\ d.width \in Int /\ Len(d.frames) \in Nat /\ d.frames \in Seq(Frame)
  BY DEF Demuxer
<1>3. f.x \in Nat /\ f.width \in Nat  BY <1>2 DEF Frame
<1>4. SoundFrame(m, d, i) /\ IsValidFrame(d, state, i)
  BY DEF Sound, IsValidExtendedFormat
<1>5. d.width >= 0  BY DEF Final, Usable, Demuxer, States
<1>6. Placed(m, f, 0, d.start)  BY <1>4 DEF SoundFrame
<1>7. f.frame_num = i \/ (f.frame_num = 0 /\ state # "DONE")
  BY <1>4 DEF SoundFrame, IsValidFrame
<1>8. i < Len(d.frames) \/ state = "DONE" => f.complete
  <2>1. ASSUME i < Len(d.frames) PROVE f.complete
    <3>1. i + 1 \in 1 .. Len(d.frames) /\ (i + 1) - 1 = i /\ i + 1 # 1  BY <1>2, <2>1
    <3>2. FollowsComplete(d, i + 1)  BY <3>1 DEF IsValidExtendedFormat, IsValidFrame
    <3> QED BY <3>1, <3>2 DEF FollowsComplete
  <2>2. ASSUME state = "DONE" PROVE f.complete
    BY <1>4, <2>2 DEF IsValidFrame
  <2> QED BY <2>1, <2>2
<1>9. f.x + f.width <= d.width
  <2>1. CASE f.width > 0
    <3>1. CheckFrameBounds(f, ~ IsAnimation(d), d.width)  BY <1>4, <2>1 DEF IsValidFrame
    <3> QED BY <1>2, <1>3, <3>1 DEF CheckFrameBounds
  <2>2. CASE f.width = 0  BY <1>3, <1>4, <1>5, <2>2 DEF SoundFrame
  <2> QED BY <1>3, <2>1, <2>2
<1>10. f.alpha # NoData /\ f.image # NoData => EndOf(f.alpha) <= f.image.offset
  <2> SUFFICES ASSUME f.alpha # NoData, f.image # NoData
               PROVE  EndOf(f.alpha) <= f.image.offset
    OBVIOUS
  <2>1. f.alpha.offset <= f.image.offset  BY <1>4 DEF IsValidFrame
  <2> QED BY <1>2, <1>6, <2>1, AlphaComesFirst
<1>11. EndOf(f.image) <= m.riff_end  BY <1>6 DEF Placed
<1>12. IsAnimation(g) = IsAnimation(d)  BY <1>1 DEF IsAnimation
<1> QED BY <1>1, <1>4, <1>7, <1>8, <1>9, <1>10, <1>11, <1>12 DEF SoundGiven, SoundFrame

LEMMA SimpleIsSound ==
  ASSUME NEW m, NEW s \in {"OK", "NEED_MORE_DATA"}, NEW d \in Demuxer, Sound(m, d),
         ~ d.is_ext_format, Final(s, d),
         NEW state, state = (IF s = "OK" THEN "DONE" ELSE d.state), state # "PARSING_HEADER",
         IsValidSimpleFormat(d, state),
         NEW g, g = [d EXCEPT !.state = state], NEW i \in 1 .. Len(d.frames)
  PROVE  SoundGiven(m, g, i)
<1> DEFINE f == d.frames[1]
<1>1. /\ g.frames = d.frames /\ g.state = state /\ g.width = d.width /\ g.flags = d.flags
  BY DEF Demuxer
<1>2. /\ Len(d.frames) = 1 /\ i = 1 /\ f.alpha = NoData /\ f.x = 0 /\ ~ IsAnimation(d)
      /\ f.width > 0 => f.width = d.width
      /\ s = "OK" /\ f.width > 0 => f.complete
  <2>1. /\ Len(d.frames) = 1 /\ f.alpha = NoData /\ f.x = 0 /\ ~ IsAnimation(d)
        /\ f.width > 0 => f.width = d.width
        /\ s = "OK" /\ f.width > 0 => f.complete
    BY DEF Final
  <2> QED BY <2>1
<1>3. f \in Frame /\ f.width \in Nat /\ f.width > 0 /\ d.width \in Int
  <2>1. f \in Frame /\ d.width \in Int  BY <1>2 DEF Demuxer
  <2>2. f.width > 0  BY DEF IsValidSimpleFormat
  <2> QED BY <2>1, <2>2 DEF Frame
<1>4. SoundFrame(m, d, 1)  BY <1>2 DEF Sound
<1>5. state = "DONE" => s = "OK"  BY DEF Demuxer, States
<1>6. EndOf(f.image) <= m.riff_end  BY <1>4 DEF SoundFrame, Placed
<1>7. f.frame_num = 1 \/ (f.frame_num = 0 /\ ~ f.complete)  BY <1>4 DEF SoundFrame
<1>8. ~ IsAnimation(g)  BY <1>1, <1>2 DEF IsAnimation
<1>9. state = "DONE" => f.complete  BY <1>2, <1>3, <1>5
<1>10. f.x + f.width <= d.width  BY <1>2, <1>3
<1>11. f.frame_num = i \/ (f.frame_num = 0 /\ state # "DONE")  BY <1>2, <1>7, <1>9
<1>12. g.frames[i] = f /\ ~ i < Len(g.frames) /\ ~ i > 1
  <2>1. g.frames = d.frames  BY <1>1
  <2>2. i = 1 /\ Len(d.frames) = 1  BY <1>2
  <2> QED BY <2>1, <2>2
<1> HIDE DEF f
<1> QED BY <1>1, <1>2, <1>6, <1>8, <1>9, <1>10, <1>11, <1>12 DEF SoundGiven

LEMMA GivenIsSound ==
  ASSUME NEW m, Buffer(m), NEW p, ParserInv(m, p), p.pc = "finish",
         NEW g, g = Given(m, p.status, p.dmux), Usable(g), NEW i \in 1 .. Len(g.frames)
  PROVE  SoundGiven(m, g, i)
<1> DEFINE s == p.status
           d == p.dmux
           state == IF s = "OK" THEN "DONE" ELSE d.state
<1>1. /\ s \in Statuses /\ d \in Demuxer /\ Sound(m, d)
      /\ s # "ERROR" => Final(s, d)
  BY DEF ParserInv, ParserState
<1>2. \A x \in {"ERROR", "PARSING_HEADER"} : ~ Usable(Without(x))  BY DEF Usable, Without, InitDemux
<1>3. s # "ERROR" /\ IsValid(d, state) /\ g = [d EXCEPT !.state = state]
  BY <1>2 DEF Given
<1> HIDE DEF s, d
<1>4. state # "PARSING_HEADER" /\ g.frames = d.frames
  <2>1. g.state = state /\ g.frames = d.frames  BY <1>1, <1>3 DEF Demuxer
  <2> QED BY <2>1 DEF Usable
<1>5. s \in {"OK", "NEED_MORE_DATA"} /\ i \in 1 .. Len(d.frames)
  BY <1>1, <1>3, <1>4 DEF Statuses
<1> HIDE DEF state
<1>6. state = (IF s = "OK" THEN "DONE" ELSE d.state)  BY DEF state
<1>7. CASE d.is_ext_format
  <2>1. IsValidExtendedFormat(d, state)  BY <1>3, <1>7 DEF IsValid
  <2> QED BY <1>1, <1>3, <1>4, <1>5, <1>6, <1>7, <2>1, ExtendedIsSound
<1>8. CASE ~ d.is_ext_format
  <2>1. IsValidSimpleFormat(d, state)  BY <1>3, <1>8 DEF IsValid
  <2> QED BY <1>1, <1>3, <1>4, <1>5, <1>6, <1>8, <2>1, SimpleIsSound
<1> QED BY <1>7, <1>8

-----------------------------------------------------------------------------
(* The mux object and its files.                                             *)

LEMMA ChunkKinds ==
  /\ FrameChunk \subseteq AnyChunk /\ ImageChunk \subseteq AnyChunk
  /\ PlainChunk \subseteq AnyChunk /\ CanvasChunk \subseteq AnyChunk
  BY DEF AnyChunk

LEMMA SeqsAreMonotonic ==
  ASSUME NEW S, NEW T, S \subseteq T, NEW s \in Seq(S) PROVE s \in Seq(T)
<1>1. Len(s) \in Nat /\ s = [i \in 1 .. Len(s) |-> s[i]] /\ \A i \in 1 .. Len(s) : s[i] \in T
  OBVIOUS
<1> QED BY <1>1, IsASeq

LEMMA NoObjectIsMux == EmptyMux \in MuxObject /\ NULL \in MuxObject
<1>1. << >> \in Seq(ImageRec) /\ << >> \in Seq(AnyChunk) /\ \A n : << >> \in Seq(Listed(n))
  OBVIOUS
<1>2. [n \in ListNames |-> << >>] \in Lists  BY <1>1 DEF Lists
<1>4. EmptyMux \in MuxObject  BY <1>1, <1>2 DEF EmptyMux, MuxObject
<1>3. NULL = [images |-> << >>, list |-> EmptyMux.list, width |-> -1]
  BY DEF NULL, EmptyMux
<1> QED BY <1>1, <1>3, <1>4 DEF MuxObject

LEMMA NewImageIsTyped ==
  ASSUME NEW b \in Bitstreams PROVE NewImage(b) \in ImageRec /\ WidthOf(NewImage(b)) \in Nat \ {0}
<1>1. /\ b.img \in ImageChunk /\ b.alpha \in Seq(PlainChunk) /\ b.img.v.need <= b.img.size
      /\ \A k \in 1 .. Len(b.alpha) : b.alpha[k].tag = "ALPH"
  BY ContainerAssumption
<1>2. b.alpha \in Seq(AlphaChunk) /\ b.img \in WholeImage
  <2>1. Len(b.alpha) \in Nat /\ b.alpha = [k \in 1 .. Len(b.alpha) |-> b.alpha[k]]
        /\ \A k \in 1 .. Len(b.alpha) : b.alpha[k] \in PlainChunk
    BY <1>1
  <2>2. \A k \in 1 .. Len(b.alpha) : b.alpha[k] \in AlphaChunk
    BY <1>1, <2>1, ChunkKinds DEF AlphaChunk
  <2> QED BY <1>1, <2>1, <2>2, IsASeq DEF WholeImage
<1>3. Missing \in Seq(FrameChunk) /\ Missing \in Seq(AnyChunk) /\ Missing \in Seq(AlphaChunk)
  BY DEF Missing
<1>4. b.img.v.width \in Nat \ {0}  BY <1>1 DEF ImageChunk
<1>5. NewImage(b) \in ImageRec
  <2>1. << >> \in Seq(AnyChunk)  OBVIOUS
  <2> QED BY <1>2, <1>3, <2>1 DEF NewImage, ImageRec
<1>6. NewImage(b).img = b.img  BY DEF NewImage
<1> QED BY <1>4, <1>5, <1>6 DEF WidthOf

LEMMA WithoutTagIsTyped ==
  ASSUME NEW S, NEW l \in Seq(S), NEW tag PROVE WithoutTag(l, tag) \in Seq(S)
<1> DEFINE n == Len(l)
           T == Seq(S)
<1>1. n \in Nat /\ DOMAIN l = 1 .. n /\ \A k \in 1 .. n : l[k] \in S  OBVIOUS
<1>2. ASSUME NEW a \in T, NEW k \in 1 .. n PROVE FoldStep(Drop(tag), a, l[k]) \in T
  <2>1. Append(a, l[k]) \in T  BY <1>1
  <2> QED BY <2>1 DEF FoldStep, Drop
<1>3. << >> \in T  OBVIOUS
<1> HIDE DEF n, T
<1>4. PICK v : Folds(Drop(tag), v, << >>, l, n) /\ WithoutTag(l, tag) = v[n]
  BY <1>1, DropInSteps
<1>5. v[n] \in T  BY <1>1, <1>2, <1>3, <1>4, FoldKeeps
<1> QED BY <1>4, <1>5 DEF T

\* A list of a mux object is replaced.
LEMMA ListIsSet ==
  ASSUME NEW m \in MuxObject, NEW n \in ListNames, NEW l \in Seq(Listed(n))
  PROVE  [m EXCEPT !.list[n] = l] \in MuxObject
<1> DEFINE k == [m.list EXCEPT ![n] = l]
<1>1. m.list \in Lists /\ m.list \in [ListNames -> Seq(AnyChunk)]  BY DEF MuxObject, Lists
<1>2. l \in Seq(AnyChunk)
  <2>1. Listed(n) \subseteq AnyChunk  BY DEF Listed
  <2> QED BY <2>1, SeqsAreMonotonic
<1>3. k \in [ListNames -> Seq(AnyChunk)] /\ \A i \in ListNames : k[i] = IF i = n THEN l ELSE m.list[i]
  BY <1>1, <1>2
<1>4. \A i \in ListNames : m.list[i] \in Seq(Listed(i))  BY <1>1 DEF Lists
<1>5. [m EXCEPT !.list[n] = l] = [m EXCEPT !.list = k]  OBVIOUS
<1> HIDE DEF k
<1>6. k \in Lists  BY <1>3, <1>4 DEF Lists
<1> QED BY <1>5, <1>6 DEF MuxObject

LEMMA ImagesAreSet ==
  ASSUME NEW m \in MuxObject, NEW s \in Seq(ImageRec)
  PROVE  [m EXCEPT !.images = s] \in MuxObject
  BY DEF MuxObject

LEMMA ListOfIsName == \A tag : ListOf(tag) \in ListNames
  BY DEF ListOf, ListNames

LEMMA EditIsTyped ==
  ASSUME mux \in MuxObject, Edit PROVE mux' \in MuxObject
<1>1. /\ mux.images \in Seq(ImageRec) /\ mux.list \in [ListNames -> Seq(AnyChunk)]
      /\ \A n \in ListNames : mux.list[n] \in Seq(Listed(n))
      /\ mux.width \in Int
  BY DEF MuxObject, Lists
<1>2. << >> \in Seq(ImageRec) /\ \A n : << >> \in Seq(Listed(n))  OBVIOUS
<1>3. CASE \E b \in Bitstreams : SetImage(b)
  <2>1. PICK b \in Bitstreams : SetImage(b)  BY <1>3
  <2>2. << NewImage(b) >> \in Seq(ImageRec)  BY NewImageIsTyped
  <2> QED BY <2>1, <2>2, ImagesAreSet DEF SetImage
<1>4. CASE SetBadImage  BY <1>2, <1>4, ImagesAreSet DEF SetBadImage
<1>5. CASE \E b \in Bitstreams, x \in Offsets : PushFrame(b, x)
  <2>1. PICK b \in Bitstreams, x \in Offsets : PushFrame(b, x)  BY <1>5
  <2> DEFINE i == NewImage(b)
             h == ANMF(ANMF_CHUNK_SIZE, Snapped(x), WidthOf(i))
             j == [i EXCEPT !.header = << h >>]
  <2>2. i \in ImageRec /\ WidthOf(i) \in Nat \ {0}  BY NewImageIsTyped
  <2>3. Snapped(x) \in Nat
    <3>1. x \in Nat  BY ContainerAssumption
    <3> QED BY <3>1 DEF Snapped
  <2>4. mux' = [mux EXCEPT !.images = Append(@, j)]  BY <2>1 DEF PushFrame
  <2> HIDE DEF i
  <2>5. h \in FrameChunk  BY <2>2, <2>3, SizesAreNat DEF ANMF, FrameChunk
  <2> HIDE DEF h
  <2>6. j \in ImageRec
    <3>1. << h >> \in Seq(FrameChunk)  BY <2>5
    <3> QED BY <2>2, <3>1 DEF ImageRec
  <2> HIDE DEF j
  <2>7. Append(mux.images, j) \in Seq(ImageRec)  BY <1>1, <2>6
  <2> QED BY <2>4, <2>7, ImagesAreSet
<1>6. CASE \E nth \in 0 .. MaxImages : DeleteFrame(nth)
  <2>1. PICK nth \in 0 .. MaxImages : DeleteFrame(nth)  BY <1>6
  <2> DEFINE n == IF nth = 0 THEN Len(mux.images) ELSE nth
  <2>2. n \in 1 .. Len(mux.images) /\ mux' = [mux EXCEPT !.images = RemoveAt(@, n)]
    BY <2>1 DEF DeleteFrame
  <2> HIDE DEF n
  <2>3. n \in Int  BY <1>1, <2>2
  <2>4. RemoveAt(mux.images, n) \in Seq(ImageRec)
    <3>1. SubSeq(mux.images, 1, n - 1) \in Seq(ImageRec)
      BY <1>1, <2>2, <2>3, SubSeqProperties
    <3>2. SubSeq(mux.images, n + 1, Len(mux.images)) \in Seq(ImageRec)
      BY <1>1, <2>2, <2>3, SubSeqProperties
    <3> QED BY <3>1, <3>2 DEF RemoveAt
  <2> QED BY <2>2, <2>4, ImagesAreSet
<1>7. CASE \E c \in Chunks : SetChunk(c)
  <2>1. PICK c \in Chunks : SetChunk(c)  BY <1>7
  <2> DEFINE n == ListOf(c.tag)
             left == WithoutTag(mux.list[n], c.tag)
             l == IF left = << >> THEN << c >> ELSE left
  <2>2. mux' = [mux EXCEPT !.list[n] = l]  BY <2>1 DEF SetChunk
  <2>3. n \in ListNames  BY ListOfIsName
  <2>5. << c >> \in Seq(Listed(n))
    <3>1. c \in Listed(n)  BY ContainerAssumption DEF Listed
    <3> QED BY <3>1
  <2> HIDE DEF n
  <2>4. left \in Seq(Listed(n))  BY <1>1, <2>3, WithoutTagIsTyped
  <2> HIDE DEF left
  <2>6. l \in Seq(Listed(n))  BY <2>4, <2>5
  <2> HIDE DEF l
  <2> QED BY <2>2, <2>3, <2>6, ListIsSet
<1>8. CASE \E t \in Tags : DeleteChunk(t)
  <2>1. PICK t \in Tags : DeleteChunk(t)  BY <1>8
  <2> DEFINE n == ListOf(t)
             left == WithoutTag(mux.list[n], t)
  <2>2. n \in ListNames  BY ListOfIsName
  <2>3. mux' = [mux EXCEPT !.list[n] = left]  BY <1>1, <2>1, <2>2 DEF DeleteChunk
  <2> HIDE DEF n
  <2>4. left \in Seq(Listed(n))  BY <1>1, <2>2, WithoutTagIsTyped
  <2> HIDE DEF left
  <2> QED BY <2>2, <2>3, <2>4, ListIsSet
<1>9. CASE SetAnimationParams(0)
  <2>1. << ANIM(0) >> \in Seq(Listed("ANIM"))
    <3>1. ANIM(0) \in PlainChunk
      <4>1. ANIM_CHUNK_SIZE \in Nat  BY SizeAssumption
      <4> QED BY <4>1 DEF ANIM, PlainChunk, PlainTags
    <3>2. ANIM(0).tag = "ANIM"  BY DEF ANIM
    <3>3. ANIM(0) \in Listed("ANIM")
      BY <3>1, <3>2, ChunkKinds DEF Listed, ListOf, ListNames, ImageTags
    <3> QED BY <3>3
  <2>2. "ANIM" \in ListNames  BY DEF ListNames
  <2> QED BY <1>9, <2>1, <2>2, ListIsSet DEF SetAnimationParams
<1>10. CASE \E width \in Widths : SetCanvasSize(width)
  <2>1. PICK width \in Widths : SetCanvasSize(width)  BY <1>10
  <2>2. "VP8X" \in ListNames  BY DEF ListNames
  <2>3. [mux EXCEPT !.list["VP8X"] = << >>] \in MuxObject  BY <1>2, <2>2, ListIsSet
  <2>4. mux' = [[mux EXCEPT !.list["VP8X"] = << >>] EXCEPT !.width = width]
    BY <2>1 DEF SetCanvasSize, MuxObject
  <2>5. width \in Int  BY ContainerAssumption
  <2> QED BY <2>3, <2>4, <2>5 DEF MuxObject
<1> QED BY <1>3, <1>4, <1>5, <1>6, <1>7, <1>8, <1>9, <1>10 DEF Edit

LEMMA MaxIsOneOf ==
  ASSUME NEW n \in Nat \ {0}, NEW g, \A i \in 1 .. n : g[i] \in Nat
  PROVE  \E i \in 1 .. n : Max({ g[k] : k \in 1 .. n }) = g[i]
<1> DEFINE HasMax(k) == \E i \in 1 .. k : \A j \in 1 .. k : g[i] >= g[j]
           S == { k \in Nat : k + 1 <= n => HasMax(k + 1) }
           t == { g[k] : k \in 1 .. n }
<1>1. 0 \in S
  <2>1. 1 \in 1 .. 0 + 1 /\ \A j \in 1 .. 0 + 1 : j = 1 /\ g[1] \in Nat  OBVIOUS
  <2> QED BY <2>1
<1>2. ASSUME NEW k \in Nat, k \in S PROVE k + 1 \in S
  <2> SUFFICES ASSUME k + 1 + 1 <= n PROVE HasMax(k + 1 + 1)
    OBVIOUS
  <2>1. PICK i \in 1 .. k + 1 : \A j \in 1 .. k + 1 : g[i] >= g[j]  BY <1>2
  <2>2. \A j \in 1 .. k + 1 + 1 : j \in 1 .. k + 1 \/ j = k + 1 + 1  OBVIOUS
  <2>3. i \in 1 .. k + 1 + 1 /\ k + 1 + 1 \in 1 .. k + 1 + 1  OBVIOUS
  <2>4. \A j \in 1 .. k + 1 + 1 : g[j] \in Nat  OBVIOUS
  <2>5. CASE g[i] >= g[k + 1 + 1]  BY <2>1, <2>2, <2>3, <2>5
  <2>6. CASE ~ (g[i] >= g[k + 1 + 1])
    <3>1. \A j \in 1 .. k + 1 + 1 : g[k + 1 + 1] >= g[j]  BY <2>1, <2>2, <2>3, <2>4, <2>6
    <3> QED BY <2>3, <3>1
  <2> QED BY <2>5, <2>6
<1> HIDE DEF S
<1>3. Nat \subseteq S  BY <1>1, <1>2, Induction
<1>4. n - 1 \in Nat /\ (n - 1) + 1 = n  OBVIOUS
<1>5. HasMax(n)  BY <1>3, <1>4 DEF S
<1>6. \E x \in t : \A y \in t : x >= y  BY <1>5
<1>7. Max(t) \in t  BY <1>6 DEF Max
<1> QED BY <1>7

\* Images have a width, and reach somewhere.
LEMMA ImagesHaveWidth ==
  ASSUME NEW i \in ImageRec PROVE WidthOf(i) \in Nat \ {0} /\ XOf(i) \in Nat
<1>1. i.img \in ImageChunk /\ i.header \in Seq(FrameChunk)  BY DEF ImageRec, WholeImage
<1>2. WidthOf(i) \in Nat \ {0}  BY <1>1 DEF WidthOf, ImageChunk
<1>3. i.header = Missing \/ i.header[1] \in FrameChunk  BY <1>1 DEF Missing
<1> QED BY <1>2, <1>3 DEF XOf, FrameChunk

LEMMA CanvasHasWidth ==
  ASSUME NEW m \in MuxObject, m.images # << >> PROVE GetAdjustedCanvasSize(m) \in Nat \ {0}
<1> DEFINE n == Len(m.images)
           g == [i \in 1 .. n |-> XOf(m.images[i]) + WidthOf(m.images[i])]
<1>1. n \in Nat \ {0} /\ \A i \in 1 .. n : m.images[i] \in ImageRec  BY DEF MuxObject
<1>2. \A i \in 1 .. n : XOf(m.images[i]) \in Nat /\ WidthOf(m.images[i]) \in Nat \ {0}
  BY <1>1, ImagesHaveWidth
<1>3. \A i \in 1 .. n : g[i] \in Nat \ {0}  BY <1>2
<1>4. Extent(m) = Max({ g[i] : i \in 1 .. n })
  <2>1. \A i \in 1 .. n : g[i] = XOf(m.images[i]) + WidthOf(m.images[i])  OBVIOUS
  <2>2. { g[i] : i \in 1 .. n } = { XOf(m.images[i]) + WidthOf(m.images[i]) : i \in 1 .. n }
    BY <2>1
  <2> QED BY <2>2 DEF Extent
<1>5. WidthOf(m.images[1]) \in Nat \ {0}  BY <1>1, <1>2
<1> HIDE DEF g, n
<1>6. \E i \in 1 .. n : Extent(m) = g[i]  BY <1>1, <1>3, <1>4, MaxIsOneOf
<1> QED BY <1>3, <1>5, <1>6 DEF GetAdjustedCanvasSize

-----------------------------------------------------------------------------
(* What WebPMuxAssemble writes.                                              *)

LEMMA SomeFrameIsImage ==
  ASSUME NEW m, NumFrames(m) = 1 PROVE m.images # << >>
<1> SUFFICES ASSUME m.images = << >> PROVE FALSE
  OBVIOUS
<1>1. { k \in 1 .. Len(m.images) : m.images[k].header # Missing } = {}  OBVIOUS
<1>2. NumFrames(m) = 0  BY <1>1, FS_EmptySet DEF NumFrames
<1> QED BY <1>2

LEMMA WithoutHeader ==
  ASSUME NEW i \in ImageRec
  PROVE  LET j == [i EXCEPT !.header = Missing]
         IN  j \in ImageRec /\ j.header = Missing /\ j.alpha = i.alpha /\ j.unknown = i.unknown
<1>1. Missing \in Seq(FrameChunk)  BY DEF Missing
<1> QED BY <1>1 DEF ImageRec

\* A single frame that covers the canvas loses its header.
LEMMA CleanupIsTyped ==
  ASSUME NEW m \in MuxObject
  PROVE  LET c     == MuxCleanup(m)
             plain == NumFrames(m) = 1 /\ m.width \in {0, WidthOf(m.images[1])}
         IN  /\ c \in MuxObject /\ c.width = m.width
             /\ plain => /\ m.images # << >>
                         /\ c.images = [m.images EXCEPT ![1] = [@ EXCEPT !.header = Missing]]
             /\ ~ plain => c.images = m.images
<1> DEFINE plain == NumFrames(m) = 1 /\ m.width \in {0, WidthOf(m.images[1])}
           m1 == IF plain THEN [m EXCEPT !.images[1].header = Missing] ELSE m
           c == MuxCleanup(m)
           i == [m.images[1] EXCEPT !.header = Missing]
           s == [m.images EXCEPT ![1] = i]
<1>1. m.images \in Seq(ImageRec)  BY DEF MuxObject
<1>2. /\ m1 \in MuxObject /\ m1.width = m.width
      /\ plain => m.images # << >> /\ m1.images = s
      /\ ~ plain => m1.images = m.images
  <2>1. CASE ~ plain  BY <2>1
  <2>2. CASE plain
    <3>1. m.images # << >>  BY <2>2, SomeFrameIsImage
    <3>2. i \in ImageRec  BY <1>1, <3>1, WithoutHeader
    <3>3. m1 = [m EXCEPT !.images = s]  BY <2>2 DEF MuxObject
    <3> HIDE DEF i
    <3>4. s \in Seq(ImageRec)  BY <1>1, <3>1, <3>2
    <3> HIDE DEF s, m1
    <3>5. m1 \in MuxObject  BY <3>3, <3>4, ImagesAreSet
    <3> QED BY <2>2, <3>1, <3>3, <3>5 DEF MuxObject
  <2> QED BY <2>1, <2>2
<1>3. c = IF NumFrames(m1) = 0 THEN [m1 EXCEPT !.list["ANIM"] = << >>] ELSE m1
  BY DEF MuxCleanup
<1> HIDE DEF m1, c, plain, s
<1>4. [m1 EXCEPT !.list["ANIM"] = << >>] \in MuxObject
  <2>1. "ANIM" \in ListNames /\ << >> \in Seq(Listed("ANIM"))  BY DEF ListNames
  <2> QED BY <1>2, <2>1, ListIsSet
<1>5. c \in MuxObject /\ c.width = m1.width /\ c.images = m1.images
  BY <1>2, <1>3, <1>4 DEF MuxObject
<1> QED BY <1>2, <1>5 DEF c, plain, s, i

LEMMA FeaturesAreFlags ==
  ASSUME NEW m PROVE Features(m) \in SUBSET Flags
  BY DEF Features, Flags

\* The canvas is at least as wide as the images.
LEMMA WithVP8XIsTyped ==
  ASSUME NEW m \in MuxObject, m.images # << >>,
         m.width = 0 \/ GetAdjustedCanvasSize(m) <= m.width
  PROVE  WithVP8X(m) \in MuxObject
<1> DEFINE flags == Features(m) \cup (IF MuxHasAlpha(m) THEN {"ALPHA"} ELSE {})
           width == IF m.width # 0 THEN m.width ELSE GetAdjustedCanvasSize(m)
           l == IF Features(m) = {} /\ m.list["unknown"] = << >> THEN << >>
                ELSE << VP8X(flags, width) >>
<1>1. flags \in SUBSET Flags  BY FeaturesAreFlags DEF Flags
<1>2. width \in Nat \ {0}
  <2>1. GetAdjustedCanvasSize(m) \in Nat \ {0} /\ m.width \in Int
    BY CanvasHasWidth DEF MuxObject
  <2> QED BY <2>1
<1>3. WithVP8X(m) = [m EXCEPT !.list["VP8X"] = l]  BY DEF WithVP8X
<1> HIDE DEF flags, width
<1>4. VP8X(flags, width) \in Listed("VP8X")
  <2>1. VP8X_CHUNK_SIZE \in Nat  BY SizeAssumption
  <2>2. VP8X(flags, width) \in CanvasChunk  BY <1>1, <1>2, <2>1 DEF VP8X, CanvasChunk
  <2>3. VP8X(flags, width).tag = "VP8X"  BY DEF VP8X
  <2> QED BY <2>2, <2>3, ChunkKinds DEF Listed, ListOf, ListNames, ImageTags
<1>5. l \in Seq(Listed("VP8X"))  BY <1>4
<1>6. "VP8X" \in ListNames  BY DEF ListNames
<1> HIDE DEF l
<1> QED BY <1>3, <1>5, <1>6, ListIsSet

LEMMA ListHasSize ==
  ASSUME NEW cs \in Seq(AnyChunk)
  PROVE  ListSize(cs) \in Nat /\ (cs # << >> => ListSize(cs) >= CHUNK_HEADER_SIZE)
<1>1. Layout(cs) /\ Offset(cs, Len(cs) + 1) = RIFF_HEADER_SIZE + ListSize(cs)
  BY ChunksFollow
<1>2. PICK v : Sums(v, cs)  BY SumsExist
<1> DEFINE n == Len(cs)
<1>3. n \in Nat /\ (cs # << >> => n >= 1 /\ cs[1] \in AnyChunk)  OBVIOUS
<1>4. ListSize(cs) \in Nat
  <2>1. n \in 0 .. n  BY <1>3
  <2> QED BY <1>2, <2>1 DEF Sums
<1>5. ASSUME cs # << >> PROVE ListSize(cs) >= CHUNK_HEADER_SIZE
  <2>1. 1 \in 1 .. n /\ 2 \in 1 .. n + 1 /\ n + 1 \in 1 .. n + 1 /\ 1 + 1 = 2 /\ (2 < n + 1 \/ 2 = n + 1)
    BY <1>3, <1>5
  <2> HIDE DEF n
  <2>2. Offset(cs, 2) = RIFF_HEADER_SIZE + DiskSize(cs[1])  BY <1>1, <2>1 DEF Layout, n
  <2>3. Offset(cs, 2) <= Offset(cs, n + 1) /\ Offset(cs, 2) \in Nat
    <3>1. Offset(cs, 2) \in Nat  BY <1>1, <2>1 DEF Layout, n
    <3>2. 2 < n + 1 => Offset(cs, 2) < Offset(cs, n + 1)  BY <1>1, <2>1 DEF Layout, n
    <3>3. Offset(cs, n + 1) \in Nat  BY <1>1, <2>1 DEF Layout, n
    <3> QED BY <2>1, <3>1, <3>2, <3>3
  <2>4. DiskSize(cs[1]) \in Nat /\ DiskSize(cs[1]) >= CHUNK_HEADER_SIZE
    BY <1>3, <1>5, DiskSizeIsNat
  <2>5. Offset(cs, n + 1) = RIFF_HEADER_SIZE + ListSize(cs)  BY <1>1 DEF n
  <2> QED BY <1>4, <2>2, <2>3, <2>4, <2>5, SizesAreNat
<1> QED BY <1>4, <1>5

LEMMA FirstOfBoth ==
  ASSUME NEW S, NEW s \in Seq(S), s # << >>, NEW t \in Seq(S)
  PROVE  s \o t \in Seq(S) /\ s \o t # << >> /\ (s \o t)[1] = s[1]
<1>1. Len(s) \in Nat /\ Len(s) >= 1 /\ Len(t) \in Nat  OBVIOUS
<1>2. s \o t \in Seq(S) /\ Len(s \o t) = Len(s) + Len(t)  OBVIOUS
<1>3. (s \o t)[1] = s[1]  BY <1>1
<1> QED BY <1>1, <1>2, <1>3

LEMMA EmittedIsTyped ==
  ASSUME NEW i \in ImageRec PROVE Emitted(i) \in Seq(AnyChunk)
<1> DEFINE a == i.header
           a1 == a \o i.alpha
           a2 == a1 \o << i.img >>
           parts == a2 \o i.unknown
           h == [parts[1] EXCEPT !.size = ListSize(parts) - CHUNK_HEADER_SIZE]
<1>1. /\ a \in Seq(FrameChunk) /\ a \in Seq(AnyChunk)
      /\ i.alpha \in Seq(AnyChunk) /\ << i.img >> \in Seq(AnyChunk)
      /\ i.unknown \in Seq(AnyChunk)
  <2>1. a \in Seq(FrameChunk) /\ i.alpha \in Seq(AlphaChunk) /\ i.img \in ImageChunk
        /\ i.unknown \in Seq(AnyChunk)
    BY DEF ImageRec, WholeImage
  <2>3. AlphaChunk \subseteq AnyChunk  BY DEF AlphaChunk
  <2>2. a \in Seq(AnyChunk) /\ i.alpha \in Seq(AnyChunk)
    BY <2>1, <2>3, ChunkKinds, SeqsAreMonotonic
  <2> QED BY <2>1, <2>2, ChunkKinds
<1>2. parts \in Seq(AnyChunk)  BY <1>1
<1>3. ASSUME a # Missing PROVE parts # << >> /\ parts[1] \in FrameChunk
  <2> DEFINE b == i.alpha
             c == << i.img >>
             u == i.unknown
  <2>1. a # << >> /\ a[1] \in FrameChunk  BY <1>1, <1>3 DEF Missing
  <2>2. a \in Seq(AnyChunk) /\ b \in Seq(AnyChunk) /\ c \in Seq(AnyChunk) /\ u \in Seq(AnyChunk)
    BY <1>1
  <2>3. a1 = a \o b /\ a2 = a1 \o c /\ parts = a2 \o u  OBVIOUS
  <2> HIDE DEF a, a1, a2, parts, b, c, u
  <2>4. a1 \in Seq(AnyChunk) /\ a1 # << >> /\ a1[1] = a[1]
    BY <2>1, <2>2, <2>3, FirstOfBoth
  <2>5. a2 \in Seq(AnyChunk) /\ a2 # << >> /\ a2[1] = a1[1]
    BY <2>2, <2>3, <2>4, FirstOfBoth
  <2>6. parts # << >> /\ parts[1] = a2[1]  BY <2>2, <2>3, <2>5, FirstOfBoth
  <2> QED BY <2>1, <2>4, <2>5, <2>6
<1>4. Emitted(i) = IF i.header = Missing THEN parts ELSE [parts EXCEPT ![1] = h]
  BY DEF Emitted
<1> HIDE DEF parts
<1>5. ASSUME i.header # Missing PROVE [parts EXCEPT ![1] = h] \in Seq(AnyChunk)
  <2>1. ListSize(parts) - CHUNK_HEADER_SIZE \in Nat
    BY <1>2, <1>3, <1>5, ListHasSize, SizesAreNat
  <2>2. h \in FrameChunk  BY <1>3, <1>5, <2>1 DEF FrameChunk
  <2>3. h \in AnyChunk  BY <2>2, ChunkKinds
  <2> HIDE DEF h
  <2> QED BY <1>2, <1>3, <1>5, <2>3, ExceptSeq
<1> QED BY <1>2, <1>4, <1>5

LEMMA AllIsTyped ==
  ASSUME NEW images \in Seq(ImageRec) PROVE EmittedAll(images) \in Seq(AnyChunk)
<1> DEFINE n == Len(images)
           T == Seq(AnyChunk)
<1>1. n \in Nat /\ DOMAIN images = 1 .. n /\ \A k \in 1 .. n : images[k] \in ImageRec
  OBVIOUS
<1>2. ASSUME NEW a \in T, NEW k \in 1 .. n PROVE FoldStep(Emit, a, images[k]) \in T
  <2>1. Emitted(images[k]) \in T  BY <1>1, EmittedIsTyped
  <2>2. a \o Emitted(images[k]) \in T  BY <2>1
  <2> QED BY <2>2 DEF FoldStep, Emit
<1>3. << >> \in T  OBVIOUS
<1> HIDE DEF n, T
<1>4. PICK v : Folds(Emit, v, << >>, images, n) /\ EmittedAll(images) = v[n]
  BY <1>1, EmitInSteps
<1>5. v[n] \in T  BY <1>1, <1>2, <1>3, <1>4, FoldKeeps
<1> QED BY <1>4, <1>5 DEF T

LEMMA FileIsTyped ==
  ASSUME NEW m \in MuxObject PROVE FileOf(m) \in File
<1> DEFINE l(n) == m.list[n]
           cs == l("VP8X") \o l("ICCP") \o l("ANIM") \o EmittedAll(m.images)
                   \o l("EXIF") \o l("XMP") \o l("unknown")
<1>1. \A n \in ListNames : l(n) \in Seq(AnyChunk)
  <2>1. m.list \in [ListNames -> Seq(AnyChunk)]  BY DEF MuxObject, Lists
  <2> QED BY <2>1
<1>2. EmittedAll(m.images) \in Seq(AnyChunk)  BY AllIsTyped DEF MuxObject
<1>3. FileOf(m) = [chunks |-> cs, riff_end |-> RIFF_HEADER_SIZE + ListSize(cs)]
  BY DEF FileOf, EmittedAll
<1> HIDE DEF l
<1>4. /\ l("VP8X") \in Seq(AnyChunk) /\ l("ICCP") \in Seq(AnyChunk)
      /\ l("ANIM") \in Seq(AnyChunk) /\ l("EXIF") \in Seq(AnyChunk)
      /\ l("XMP") \in Seq(AnyChunk) /\ l("unknown") \in Seq(AnyChunk)
  BY <1>1 DEF ListNames
<1>5. cs \in Seq(AnyChunk)  BY <1>2, <1>4
<1> HIDE DEF cs
<1>6. RIFF_HEADER_SIZE + ListSize(cs) \in Nat  BY <1>5, ListHasSize, SizesAreNat
<1> QED BY <1>3, <1>5, <1>6 DEF File

LEMMA AssembledIsTyped ==
  ASSUME NEW m \in MuxObject PROVE Assembled(m).mux \in MuxObject /\ Assembled(m).file \in File
<1> DEFINE m1 == MuxCleanup(m)
           m0 == [m1 EXCEPT !.list["VP8X"] = << >>]
           m2 == WithVP8X(m0)
<1>1. m1 \in MuxObject  BY CleanupIsTyped
<1>2. m0 \in MuxObject
  <2>1. "VP8X" \in ListNames /\ << >> \in Seq(Listed("VP8X"))  BY DEF ListNames
  <2> HIDE DEF m1
  <2> QED BY <1>1, <2>1, ListIsSet
<1>3. m0.images = m1.images /\ m0.width = m1.width  BY <1>1 DEF MuxObject
<1>4. NoFile \in File  BY DEF NoFile, File
<1>5. ASSUME m1.images # << >>, ~ (m1.width # 0 /\ GetAdjustedCanvasSize(m1) > m1.width)
      PROVE  m2 \in MuxObject
  <2> HIDE DEF m1, m0
  <2>1. GetAdjustedCanvasSize(m0) = GetAdjustedCanvasSize(m1)
    BY <1>3 DEF GetAdjustedCanvasSize, Extent
  <2>2. GetAdjustedCanvasSize(m1) \in Nat /\ m1.width \in Int
    BY <1>1, <1>5, CanvasHasWidth DEF MuxObject
  <2>3. m0.width = 0 \/ GetAdjustedCanvasSize(m0) <= m0.width  BY <1>3, <1>5, <2>1, <2>2
  <2> QED BY <1>2, <1>3, <1>5, <2>3, WithVP8XIsTyped
<1>6. Assembled(m) =
        IF m1.images = << >> THEN [mux |-> m1, file |-> NoFile]
        ELSE IF m1.width # 0 /\ GetAdjustedCanvasSize(m1) > m1.width
        THEN [mux |-> m0, file |-> NoFile]
        ELSE [mux |-> m2, file |-> IF MuxValidate(m2) THEN FileOf(m2) ELSE NoFile]
  BY DEF Assembled
<1> HIDE DEF m0, m1, m2
<1> QED BY <1>1, <1>2, <1>4, <1>5, <1>6, FileIsTyped

-----------------------------------------------------------------------------
(* What WebPMuxCreate reads.                                                 *)

LEMMA NoImageIsTyped == NoImage \in ImageInRead
  BY DEF NoImage, Missing, ImageInRead

LEMMA StartedIsTyped == Started \in Reader
<1>1. RIFF_HEADER_SIZE \in Int  BY SizesAreNat
<1> QED BY <1>1, NoObjectIsMux, NoImageIsTyped DEF Started, Reader, ReadState

LEMMA PushedIsTyped ==
  ASSUME NEW s \in ReadState, IsComplete(s.wpi)
  PROVE  Pushed(s) \in ReadState /\ Pushed(s).anmf = s.anmf
<1> DEFINE i == [s.wpi EXCEPT !.img = s.wpi.img[1]]
           m == [s.mux EXCEPT !.images = Append(s.mux.images, i)]
           s1 == [s EXCEPT !.mux = m]
           s2 == [s1 EXCEPT !.wpi = NoImage]
           s3 == [s2 EXCEPT !.partial = FALSE]
<1>1. s.mux \in MuxObject /\ s.wpi \in ImageInRead  BY DEF ReadState
<1>2. i \in ImageRec
  <2>1. s.wpi.img[1] \in WholeImage /\ (s.wpi.img[1].tag = "VP8L" => s.wpi.alpha = Missing)
    BY DEF IsComplete
  <2>2. i.img = s.wpi.img[1] /\ i.alpha = s.wpi.alpha  BY <1>1 DEF ImageInRead
  <2>3. i \in [header : Seq(FrameChunk), alpha : Seq(AlphaChunk), img : WholeImage,
               unknown : Seq(AnyChunk)]
    BY <1>1, <2>1 DEF ImageInRead
  <2> HIDE DEF i
  <2> QED BY <2>1, <2>2, <2>3 DEF ImageRec
<1>3. Pushed(s) = s3
  <2>1. Pushed(s) = [[[s EXCEPT !.mux.images = Append(s.mux.images, i)]
                        EXCEPT !.wpi = NoImage] EXCEPT !.partial = FALSE]
    BY DEF Pushed
  <2>2. [s EXCEPT !.mux.images = Append(s.mux.images, i)] = s1  BY DEF ReadState
  <2> QED BY <2>1, <2>2
<1> HIDE DEF i
<1>4. m \in MuxObject
  <2>1. Append(s.mux.images, i) \in Seq(ImageRec)  BY <1>1, <1>2 DEF MuxObject
  <2> QED BY <1>1, <2>1, ImagesAreSet
<1> HIDE DEF m
<1>5. s1 \in ReadState /\ s1.anmf = s.anmf  BY <1>4 DEF ReadState
<1> HIDE DEF s1
<1>6. s2 \in ReadState /\ s2.anmf = s1.anmf  BY <1>5, NoImageIsTyped DEF ReadState
<1> HIDE DEF s2
<1>7. s3 \in ReadState /\ s3.anmf = s2.anmf  BY <1>6 DEF ReadState
<1> HIDE DEF s3
<1> QED BY <1>3, <1>5, <1>6, <1>7

\* MuxImageFinalize takes an image.
LEMMA FinalizedIsTyped ==
  ASSUME NEW s \in ReadState, NEW c \in ImageChunk
  PROVE  /\ Finalized(s, c) \in ReadState /\ Finalized(s, c).anmf = s.anmf
         /\ ~ Finalized(s, c).failed => IsComplete(Finalized(s, c).wpi)
<1> DEFINE a == IF c.tag = "VP8L" THEN Missing ELSE s.wpi.alpha
           w == [[s.wpi EXCEPT !.img = << c >>] EXCEPT !.alpha = a]
           x == s.failed \/ c.v.need > c.size
           s1 == [s EXCEPT !.wpi = w]
           s2 == [s1 EXCEPT !.partial = FALSE]
           s3 == [s2 EXCEPT !.failed = x]
<1>1. s.wpi \in ImageInRead  BY DEF ReadState
<1>2. a \in Seq(AlphaChunk) /\ << c >> \in Seq(ImageChunk) /\ (c.tag = "VP8L" => a = Missing)
  BY <1>1 DEF Missing, ImageInRead
<1>3. Finalized(s, c) = s3
  <2>1. Finalized(s, c) =
          [[[[s EXCEPT !.wpi.img = << c >>] EXCEPT !.wpi.alpha =
               IF c.tag = "VP8L" THEN Missing ELSE @] EXCEPT !.partial = FALSE]
             EXCEPT !.failed = s.failed \/ c.v.need > c.size]
    BY DEF Finalized
  <2>2. [[s EXCEPT !.wpi.img = << c >>] EXCEPT !.wpi.alpha =
           IF c.tag = "VP8L" THEN Missing ELSE @] = s1
    <3>1. [s EXCEPT !.wpi.img = << c >>] = [s EXCEPT !.wpi = [s.wpi EXCEPT !.img = << c >>]]
      OBVIOUS
    <3> DEFINE w1 == [s.wpi EXCEPT !.img = << c >>]
               t == [s EXCEPT !.wpi = w1]
    <3>2. t.wpi = w1 /\ w1.alpha = s.wpi.alpha  BY <1>1 DEF ReadState, ImageInRead
    <3>3. [t EXCEPT !.wpi.alpha = a] = [s EXCEPT !.wpi = [w1 EXCEPT !.alpha = a]]
      BY DEF ReadState
    <3> HIDE DEF t, a
    <3> QED BY <3>1, <3>2, <3>3 DEF t, a
  <2> QED BY <2>1, <2>2 DEF ReadState
<1> HIDE DEF a
<1>4. w \in ImageInRead /\ w.img = << c >> /\ w.alpha = a  BY <1>1, <1>2 DEF ImageInRead
<1> HIDE DEF w, x
<1>5. s1 \in ReadState /\ s1.anmf = s.anmf /\ s1.wpi = w  BY <1>4 DEF ReadState
<1> HIDE DEF s1
<1>6. s2 \in ReadState /\ s2.anmf = s.anmf /\ s2.wpi = w  BY <1>5 DEF ReadState
<1> HIDE DEF s2
<1>7. x \in BOOLEAN  BY DEF x, ReadState
<1>8. s3 \in ReadState /\ s3.anmf = s.anmf /\ s3.wpi = w /\ s3.failed = x
  BY <1>6, <1>7 DEF ReadState
<1> HIDE DEF s3
<1>9. ASSUME ~ x PROVE IsComplete(w)
  <2>1. c \in WholeImage
    <3>1. c.v.need \in Nat /\ c.size \in Nat  BY DEF ImageChunk
    <3> QED BY <1>9, <3>1 DEF x, WholeImage
  <2> QED BY <1>2, <1>4, <2>1 DEF IsComplete
<1> QED BY <1>3, <1>8, <1>9

LEMMA KindOfChunk ==
  ASSUME NEW c \in AnyChunk
  PROVE  /\ c.tag \in ImageTags => c \in ImageChunk
         /\ c.tag = "ANMF" => c \in FrameChunk
         /\ c.tag = "VP8X" => c \in CanvasChunk
  BY DEF AnyChunk, CanvasChunk, FrameChunk, ImageChunk, PlainChunk,
       PlainTags, Metadata, ImageTags

LEMMA AlphaIsTyped ==
  ASSUME NEW s \in ReadState, NEW c \in AnyChunk, c.tag = "ALPH"
  PROVE  AlphaRead(s, c) \in Reader
<1> DEFINE w == [s.wpi EXCEPT !.alpha = << c >>]
           x == s.failed \/ s.wpi.alpha # Missing
           s1 == [s EXCEPT !.wpi = w]
           s2 == [s1 EXCEPT !.partial = TRUE]
           s3 == [s2 EXCEPT !.failed = x]
<1>1. w \in ImageInRead
  <2>1. s.wpi \in ImageInRead /\ << c >> \in Seq(AlphaChunk)  BY DEF ReadState, AlphaChunk
  <2> QED BY <2>1 DEF ImageInRead
<1>2. AlphaRead(s, c) = s3
  <2>1. [s EXCEPT !.wpi.alpha = << c >>] = s1  OBVIOUS
  <2> QED BY <2>1 DEF AlphaRead
<1>3. x \in BOOLEAN  BY DEF ReadState
<1> HIDE DEF w, x
<1>4. s1 \in ReadState  BY <1>1 DEF ReadState
<1> HIDE DEF s1
<1>5. s2 \in ReadState /\ s2.partial  BY <1>4 DEF ReadState
<1> HIDE DEF s2
<1>6. s3 \in ReadState /\ s3.partial = s2.partial  BY <1>3, <1>5 DEF ReadState
<1> HIDE DEF s3
<1> QED BY <1>2, <1>5, <1>6 DEF Reader

LEMMA FailedIsTyped ==
  ASSUME NEW s \in Reader PROVE [s EXCEPT !.failed = TRUE] \in Reader
<1> DEFINE t == [s EXCEPT !.failed = TRUE]
<1>1. s \in ReadState  BY DEF Reader
<1>2. t \in ReadState /\ t.failed  BY <1>1 DEF ReadState
<1> HIDE DEF t
<1>4. t \in Reader  BY <1>2 DEF Reader
<1> QED BY <1>4 DEF t

LEMMA InFrameIsTyped ==
  ASSUME NEW s \in Reader, ~ s.failed, NEW c \in AnyChunk PROVE InFrame(s, c) \in Reader
<1>1. s \in ReadState /\ (s.anmf # 0 /\ ~ s.partial => IsComplete(s.wpi))  BY DEF Reader
<1>2. CASE c.tag = "ALPH"
  <2>1. InFrame(s, c) = AlphaRead(s, c)  BY <1>2 DEF InFrame, AlphaRead
  <2> QED BY <1>1, <1>2, <2>1, AlphaIsTyped
<1>3. CASE c.tag \in ImageTags
  <2>1. InFrame(s, c) = IF s.wpi.img # Missing THEN [s EXCEPT !.failed = TRUE] ELSE Finalized(s, c)
    BY <1>3 DEF InFrame, ImageTags
  <2>2. /\ Finalized(s, c) \in ReadState
        /\ ~ Finalized(s, c).failed => IsComplete(Finalized(s, c).wpi)
    BY <1>1, <1>3, KindOfChunk, FinalizedIsTyped
  <2>3. Finalized(s, c) \in Reader  BY <2>2 DEF Reader
  <2> QED BY <2>1, <2>3, FailedIsTyped
<1>4. CASE c.tag # "ALPH" /\ c.tag \notin ImageTags /\ ListOf(c.tag) = "unknown" /\ c.tag # "ANMF"
  <2> DEFINE l == Append(s.wpi.unknown, c)
             w == [s.wpi EXCEPT !.unknown = l]
             x == s.failed \/ s.partial
             s1 == [s EXCEPT !.wpi = w]
             s2 == [s1 EXCEPT !.failed = x]
  <2>1. InFrame(s, c) = s2
    <3>1. InFrame(s, c) = [s EXCEPT !.wpi.unknown = Append(@, c), !.failed = x]
      BY <1>4 DEF InFrame
    <3>2. [s EXCEPT !.wpi.unknown = Append(@, c)] = s1  OBVIOUS
    <3> QED BY <3>1, <3>2
  <2>2. s.wpi \in ImageInRead /\ x \in BOOLEAN  BY <1>1 DEF ReadState
  <2>3. l \in Seq(AnyChunk)  BY <2>2 DEF ImageInRead
  <2> HIDE DEF l, x
  <2>4. w \in ImageInRead /\ w.img = s.wpi.img /\ w.alpha = s.wpi.alpha
    BY <2>2, <2>3 DEF ImageInRead
  <2> HIDE DEF w
  <2>5. s1 \in ReadState /\ s1.wpi = w /\ s1.anmf = s.anmf /\ s1.partial = s.partial
    BY <1>1, <2>4 DEF ReadState
  <2> HIDE DEF s1
  <2>6. s2 \in ReadState /\ s2.wpi = w /\ s2.anmf = s.anmf /\ s2.partial = s1.partial
    BY <2>2, <2>5 DEF ReadState
  <2> HIDE DEF s2
  <2> QED BY <1>1, <2>1, <2>4, <2>5, <2>6 DEF Reader, IsComplete
<1>5. CASE c.tag # "ALPH" /\ c.tag \notin ImageTags /\ ~ (ListOf(c.tag) = "unknown" /\ c.tag # "ANMF")
  <2>1. InFrame(s, c) = [s EXCEPT !.failed = TRUE]  BY <1>5 DEF InFrame
  <2> QED BY <2>1, FailedIsTyped
<1> QED BY <1>2, <1>3, <1>4, <1>5

\* The canvas of a mux object that is read.
LEMMA CanvasAfterIsTyped ==
  ASSUME NEW c \in AnyChunk, NEW width \in Int PROVE CanvasAfter(width, c) \in Int
<1>1. c.tag = "VP8X" => c.v.width \in Nat  BY KindOfChunk DEF CanvasChunk
<1> QED BY <1>1 DEF CanvasAfter

LEMMA AtTopIsTyped ==
  ASSUME NEW s \in Reader, s.anmf = 0, NEW c \in AnyChunk PROVE AtTop(s, c) \in Reader
<1>1. s \in ReadState  BY DEF Reader
<1>2. CASE c.tag = "ALPH"
  <2>1. AtTop(s, c) = AlphaRead(s, c)  BY <1>2 DEF AtTop, AlphaRead, ImageTags
  <2> QED BY <1>1, <1>2, <2>1, AlphaIsTyped
<1>3. CASE c.tag \in ImageTags
  <2> DEFINE f == Finalized(s, c)
  <2>1. AtTop(s, c) = IF f.failed THEN f ELSE Pushed(f)  BY <1>3 DEF AtTop, ImageTags
  <2>2. f \in ReadState /\ (~ f.failed => IsComplete(f.wpi)) /\ f.anmf = 0
    BY <1>1, <1>3, KindOfChunk, FinalizedIsTyped
  <2> HIDE DEF f
  <2>3. ~ f.failed => Pushed(f) \in ReadState /\ Pushed(f).anmf = 0
    BY <2>2, PushedIsTyped
  <2> QED BY <2>1, <2>2, <2>3 DEF Reader
<1>4. CASE c.tag = "ANMF"
  <2> DEFINE h == [c EXCEPT !.size = ANMF_CHUNK_SIZE]
             w == [s.wpi EXCEPT !.header = << h >>]
             x == s.failed \/ s.partial \/ c.size < ANMF_CHUNK_SIZE
             z == s.at + CHUNK_HEADER_SIZE + Padded(c.size)
             s1 == [s EXCEPT !.wpi = w]
             s2 == [s1 EXCEPT !.partial = TRUE]
             s3 == [s2 EXCEPT !.failed = x]
             s4 == [s3 EXCEPT !.anmf = z]
  <2>1. AtTop(s, c) = s4
    <3>1. AtTop(s, c) = [s EXCEPT !.wpi.header = << h >>, !.partial = TRUE, !.failed = x,
                                  !.anmf = z]
      BY <1>4 DEF AtTop, ImageTags
    <3>2. [s EXCEPT !.wpi.header = << h >>] = s1  OBVIOUS
    <3> QED BY <3>1, <3>2
  <2>2. c \in FrameChunk  BY <1>4, KindOfChunk
  <2>3. h \in FrameChunk  BY <2>2, SizesAreNat DEF FrameChunk
  <2>4. s.wpi \in ImageInRead /\ x \in BOOLEAN /\ s.at \in Int  BY <1>1 DEF ReadState
  <2>5. z \in Int  BY <2>4, SizesAreNat, ChunkHasSize, PaddedIsNat
  <2> HIDE DEF h, x, z
  <2>6. w \in ImageInRead
    <3>1. << h >> \in Seq(FrameChunk)  BY <2>3
    <3> QED BY <2>4, <3>1 DEF ImageInRead
  <2> HIDE DEF w
  <2>7. s1 \in ReadState  BY <1>1, <2>6 DEF ReadState
  <2> HIDE DEF s1
  <2>8. s2 \in ReadState /\ s2.partial  BY <2>7 DEF ReadState
  <2> HIDE DEF s2
  <2>9. s3 \in ReadState /\ s3.partial = s2.partial  BY <2>4, <2>8 DEF ReadState
  <2> HIDE DEF s3
  <2>10. s4 \in ReadState /\ s4.partial = s3.partial  BY <2>5, <2>9 DEF ReadState
  <2> HIDE DEF s4
  <2> QED BY <2>1, <2>8, <2>9, <2>10 DEF Reader
<1>5. CASE c.tag # "ALPH" /\ c.tag \notin ImageTags /\ c.tag # "ANMF"
  <2> DEFINE n == ListOf(c.tag)
             l == Append(s.mux.list[n], c)
             width == CanvasAfter(s.mux.width, c)
             m == [[s.mux EXCEPT !.list[n] = l] EXCEPT !.width = width]
             x == s.failed \/ s.partial \/ (c.tag = "VP8X" /\ c.size < VP8X_CHUNK_SIZE)
             s1 == [s EXCEPT !.mux = m]
             s2 == [s1 EXCEPT !.failed = x]
  <2>1. s.mux \in MuxObject /\ n \in ListNames  BY <1>1, ListOfIsName DEF ReadState
  <2>2. x \in BOOLEAN  BY <1>1 DEF ReadState
  <2>3. AtTop(s, c) = s2
    <3>1. AtTop(s, c) = [[[s EXCEPT !.mux.list[n] = l] EXCEPT !.mux.width = CanvasAfter(@, c)]
                           EXCEPT !.failed = x]
      BY <1>5 DEF AtTop
    <3>2. [[s EXCEPT !.mux.list[n] = l] EXCEPT !.mux.width = CanvasAfter(@, c)] = s1
      <4> DEFINE m1 == [s.mux EXCEPT !.list[n] = l]
                 t == [s EXCEPT !.mux = m1]
      <4>1. [s EXCEPT !.mux.list[n] = l] = t  OBVIOUS
      <4>2. t.mux = m1 /\ m1.width = s.mux.width  BY <1>1, <2>1 DEF ReadState, MuxObject
      <4>3. [t EXCEPT !.mux.width = width] = [s EXCEPT !.mux = [m1 EXCEPT !.width = width]]
        BY <1>1 DEF ReadState
      <4> HIDE DEF t, n, l
      <4> QED BY <4>1, <4>2, <4>3 DEF t
    <3> QED BY <3>1, <3>2
  <2>4. m \in MuxObject
    <3>1. l \in Seq(Listed(n)) /\ s.mux.width \in Int
      <4>1. s.mux.list[n] \in Seq(Listed(n)) /\ s.mux.width \in Int
        BY <2>1 DEF MuxObject, Lists
      <4>2. c \in Listed(n)  BY <1>5 DEF Listed
      <4> HIDE DEF n
      <4> QED BY <4>1, <4>2
    <3>2. width \in Int  BY <3>1, CanvasAfterIsTyped
    <3> HIDE DEF l, n, width
    <3>3. [s.mux EXCEPT !.list[n] = l] \in MuxObject  BY <2>1, <3>1, ListIsSet
    <3> QED BY <3>2, <3>3 DEF MuxObject
  <2> HIDE DEF m, x
  <2>5. s1 \in ReadState /\ s1.anmf = s.anmf  BY <1>1, <2>4 DEF ReadState
  <2> HIDE DEF s1
  <2>6. s2 \in ReadState /\ s2.anmf = s1.anmf  BY <2>2, <2>5 DEF ReadState
  <2> HIDE DEF s2
  <2> QED BY <2>3, <2>5, <2>6 DEF Reader
<1> QED BY <1>2, <1>3, <1>4, <1>5

LEMMA LeftFrameIsTyped ==
  ASSUME NEW s \in Reader, ~ s.failed PROVE LeftFrame(s) \in Reader
<1>1. s \in ReadState /\ (s.anmf # 0 /\ ~ s.partial => IsComplete(s.wpi))  BY DEF Reader
<1>2. ASSUME s.anmf # 0, ~ s.partial PROVE [Pushed(s) EXCEPT !.anmf = 0] \in Reader
  <2> DEFINE p == Pushed(s)
             t == [p EXCEPT !.anmf = 0]
  <2>1. p \in ReadState  BY <1>1, <1>2, PushedIsTyped
  <2> HIDE DEF p
  <2>2. t \in ReadState /\ t.anmf = 0  BY <2>1 DEF ReadState
  <2> HIDE DEF t
  <2>3. t \in Reader  BY <2>2 DEF Reader
  <2> QED BY <2>3 DEF t, p
<1> QED BY <1>2, FailedIsTyped DEF LeftFrame

LEMMA ReadChunkIsTyped ==
  ASSUME NEW s \in Reader, NEW c \in AnyChunk PROVE ReadChunk(s, c) \in Reader
<1> DEFINE r == IF s.anmf = 0 THEN AtTop(s, c) ELSE InFrame(s, c)
           t == [r EXCEPT !.at = r.at + DiskSize(c)]
<1>1. ~ s.failed => r \in Reader  BY AtTopIsTyped, InFrameIsTyped
<1>2. ReadChunk(s, c) = IF s.failed THEN s ELSE IF r.failed THEN r ELSE LeftFrame(t)
  BY DEF ReadChunk
<1> HIDE DEF r
<1> SUFFICES ASSUME ~ s.failed, ~ r.failed PROVE LeftFrame(t) \in Reader
  BY <1>1, <1>2
<1>3. r \in ReadState /\ (r.anmf # 0 /\ ~ r.partial => IsComplete(r.wpi))
  BY <1>1 DEF Reader
<1>4. r.at + DiskSize(c) \in Int  BY <1>3, DiskSizeIsNat DEF ReadState
<1>5. /\ t \in ReadState /\ t.anmf = r.anmf /\ t.partial = r.partial /\ t.wpi = r.wpi
      /\ ~ t.failed
  BY <1>3, <1>4 DEF ReadState
<1> HIDE DEF t
<1>6. t \in Reader  BY <1>3, <1>5 DEF Reader
<1> QED BY <1>5, <1>6, LeftFrameIsTyped

LEMMA MuxCreateIsTyped ==
  ASSUME NEW f \in File PROVE MuxCreate(f) \in MuxObject
<1> DEFINE cs == f.chunks
           n == Len(cs)
           s == FoldLeft(ReadChunk, Started, cs)
<1>1. n \in Nat /\ DOMAIN cs = 1 .. n /\ \A k \in 1 .. n : cs[k] \in AnyChunk  BY DEF File
<1>2. ASSUME NEW a \in Reader, NEW k \in 1 .. n PROVE FoldStep(Create, a, cs[k]) \in Reader
  <2>1. ReadChunk(a, cs[k]) \in Reader  BY <1>1, ReadChunkIsTyped
  <2> QED BY <2>1 DEF FoldStep, Create
<1>3. s \in Reader
  <2> HIDE DEF cs, n
  <2>1. PICK v : Folds(Create, v, Started, cs, n) /\ s = v[n]  BY <1>1, CreateInSteps
  <2>2. v[n] \in Reader  BY <1>1, <1>2, <2>1, StartedIsTyped, FoldKeeps
  <2> QED BY <2>1, <2>2
<1>4. MuxCreate(f) \in { NULL, s.mux }  BY DEF MuxCreate
<1> HIDE DEF s
<1>5. s.mux \in MuxObject  BY <1>3 DEF Reader, ReadState
<1> QED BY <1>4, <1>5, NoObjectIsMux

-----------------------------------------------------------------------------
(* The invariant, and every action.                                          *)

LEMMA SoundIsGiven == FramesAreSound <=> GivenAreSound(file, res)
  BY DEF FramesAreSound, GivenAreSound, SoundGiven, InChunk, InFrameChunk

LEMMA MemIsBuffer ==
  ASSUME NEW f \in File, NEW n \in Nat, n <= FileSize(f) PROVE Buffer(MemBuffer(f, n))
<1>1. f.chunks \in Seq(AnyChunk) /\ f.riff_end \in Nat  BY DEF File
<1>2. ListSize(f.chunks) \in Nat  BY <1>1, ListHasSize
<1> DEFINE m == MemBuffer(f, n)
<1>3. m.chunks = f.chunks /\ m.riff_end = f.riff_end /\ m.end = MinOf(n, f.riff_end)
  BY DEF MemBuffer
<1>4. m.end \in Nat /\ m.end <= n /\ m.end <= m.riff_end  BY <1>1, <1>3 DEF MinOf
<1> HIDE DEF m
<1>5. m.end <= RIFF_HEADER_SIZE + ListSize(m.chunks)
  BY <1>2, <1>3, <1>4, SizesAreNat DEF FileSize
<1> QED BY <1>1, <1>3, <1>4, <1>5 DEF Buffer, m

\* A file with a chunk header has a chunk.
LEMMA HeaderIsOfChunk ==
  ASSUME NEW f \in File, NEW n \in Nat, n <= FileSize(f), RIFF_HEADER_SIZE + CHUNK_HEADER_SIZE <= n
  PROVE  Len(f.chunks) >= 1
<1> SUFFICES ASSUME f.chunks = << >> PROVE FALSE
  BY DEF File
<1>1. f.chunks \in Seq(AnyChunk)  BY DEF File
<1>2. PICK v : Sums(v, f.chunks)  BY <1>1, SumsExist
<1>3. ListSize(f.chunks) = 0  BY <1>2 DEF Sums
<1> QED BY <1>3, SizesAreNat DEF FileSize

LEMMA InitImpliesInv == Init => ContainerInv
<1> SUFFICES ASSUME Init PROVE ContainerInv
  OBVIOUS
<1>1. mux \in MuxObject  BY NoObjectIsMux DEF Init
<1>2. file \in File
  <2>1. NoFile \in File  BY DEF NoFile, File
  <2> QED BY <2>1, ContainerAssumption DEF Init
<1>3. size = 0 /\ pc = "wait" /\ frame = NoFrame /\ res = Without("PARSING_HEADER")
  BY DEF Init, DemuxInit
<1>4. ~ Usable(res)  BY <1>3 DEF Usable, Without, InitDemux
<1>5. 0 <= FileSize(file)
  <2>1. ListSize(file.chunks) \in Nat  BY <1>2, ListHasSize DEF File
  <2> QED BY <2>1, SizesAreNat DEF FileSize
<1> QED BY <1>1, <1>2, <1>3, <1>4, <1>5, InitIsSound DEF ContainerInv, Pc, GivenAreSound

\* Steps that leave the file and what was given alone.
LEMMA ParseIsOk ==
  ASSUME ContainerInv, NEW step \in Pc, NEW p, Parse(step, p), step # "wait",
         UNCHANGED mux, file # NoFile,
         ASSUME Buffer(Mem), ParserInv(Mem, At(pc, status, dmux, frame)), pc = step
         PROVE  ParserInv(Mem, p)
  PROVE  ContainerInv'
<1>1. Buffer(Mem)  BY MemIsBuffer DEF ContainerInv, Mem
<1>2. pc = step /\ ParserInv(Mem, At(pc, status, dmux, frame))  BY DEF Parse, ContainerInv
<1>3. ParserInv(Mem, p)  BY <1>1, <1>2
<1>4. UNCHANGED <<mux, file, size, res>> /\ Becomes(p)  BY DEF Parse
<1>5. p \in ParserState  BY <1>3 DEF ParserInv
<1>6. p = At(pc', status', dmux', frame')  BY <1>4, <1>5 DEF Becomes, At, ParserState
<1>7. Mem' = Mem  BY <1>4 DEF Mem
<1>8. ParserInv(Mem', At(pc', status', dmux', frame'))  BY <1>3, <1>6, <1>7
<1>9. pc' \in Pc /\ frame' \in FrameRead  BY <1>4, <1>5 DEF Becomes, ParserState, Pc
<1> QED BY <1>4, <1>8, <1>9 DEF ContainerInv

LEMMA ParserKeepsInv ==
  ASSUME ContainerInv, UNCHANGED mux, file # NoFile, Master \/ Chunk \/ StoreFrame \/ Stored
  PROVE  ContainerInv'
<1> DEFINE at == At(pc, status, dmux, frame)
<1>1. at.pc = pc /\ at.status = status /\ at.dmux = dmux /\ at.frame = frame  BY DEF At
<1> HIDE DEF at
<1>2. CASE Master
  <2> DEFINE p == ParseMaster(Mem, dmux, frame)
  <2>1. Parse("master", p) /\ "master" \in Pc  BY <1>2 DEF Master, Pc
  <2>2. ASSUME Buffer(Mem), ParserInv(Mem, at), pc = "master" PROVE ParserInv(Mem, p)
    BY <1>1, <2>2, MasterIsOk
  <2> HIDE DEF p
  <2> QED BY <2>1, <2>2, ParseIsOk DEF at
<1>3. CASE Chunk
  <2> DEFINE p == ParseChunk(Mem, dmux, frame)
  <2>1. Parse("chunks", p) /\ "chunks" \in Pc  BY <1>3 DEF Chunk, Pc
  <2>2. ASSUME Buffer(Mem), ParserInv(Mem, at), pc = "chunks" PROVE ParserInv(Mem, p)
    BY <1>1, <2>2, ChunkIsOk
  <2> HIDE DEF p
  <2> QED BY <2>1, <2>2, ParseIsOk DEF at
<1>4. CASE StoreFrame
  <2> DEFINE p == StorePart(Mem, dmux, frame)
  <2>1. Parse("store", p) /\ "store" \in Pc  BY <1>4 DEF StoreFrame, Pc
  <2>2. ASSUME Buffer(Mem), ParserInv(Mem, at), pc = "store" PROVE ParserInv(Mem, p)
    BY <1>1, <2>2, StorePartIsOk
  <2> HIDE DEF p
  <2> QED BY <2>1, <2>2, ParseIsOk DEF at
<1>5. CASE Stored
  <2> DEFINE p == FrameStored(Mem, status, dmux, frame)
  <2>1. Parse("stored", p) /\ "stored" \in Pc  BY <1>5 DEF Stored, Pc
  <2>2. ASSUME Buffer(Mem), ParserInv(Mem, at), pc = "stored" PROVE ParserInv(Mem, p)
    BY <1>1, <2>2, FrameStoredIsOk
  <2> HIDE DEF p
  <2> QED BY <2>1, <2>2, ParseIsOk DEF at
<1> QED BY <1>2, <1>3, <1>4, <1>5

LEMMA ReceiveKeepsInv ==
  ASSUME ContainerInv, UNCHANGED mux, file # NoFile, Receive PROVE ContainerInv'
<1>1. /\ pc = "wait" /\ size < FileSize(file) /\ size' = size + 1 /\ file' = file
      /\ file \in File /\ size \in Nat /\ frame \in FrameRead /\ mux' \in MuxObject
      /\ GivenAreSound(file, res)
  BY DEF Receive, ContainerInv
<1>2. FileSize(file) \in Nat
  <2>1. ListSize(file.chunks) \in Nat  BY <1>1, ListHasSize DEF File
  <2> QED BY <2>1, SizesAreNat DEF FileSize
<1>3. size' \in Nat /\ size' <= FileSize(file)  BY <1>1, <1>2
<1>4. CASE pc' = "wait"
  <2>1. UNCHANGED frame /\ res' \in { Without("PARSING_HEADER"), Without("ERROR") }
    BY <1>1, <1>4 DEF Receive, Becomes, At, Give
  <2>2. ~ Usable(res')  BY <2>1 DEF Usable, Without, InitDemux
  <2> QED BY <1>1, <1>3, <1>4, <2>1, <2>2 DEF ContainerInv, Pc, GivenAreSound
<1>5. CASE pc' # "wait"
  <2> DEFINE p == At("master", "OK", InitDemux, NoFrame)
  <2>1. Becomes(p) /\ res' = res /\ ~ (size' < RIFF_HEADER_SIZE + CHUNK_HEADER_SIZE)
    BY <1>1, <1>5 DEF Receive
  <2>2. pc' = "master" /\ status' = "OK" /\ dmux' = InitDemux /\ frame' = NoFrame
    BY <2>1 DEF Becomes, At
  <2>3. RIFF_HEADER_SIZE + CHUNK_HEADER_SIZE <= size'  BY <1>3, <2>1, SizesAreNat
  <2>4. Len(file.chunks) >= 1  BY <1>1, <1>3, <2>3, HeaderIsOfChunk
  <2>5. Mem'.chunks = file.chunks  BY <1>1 DEF Mem, MemBuffer
  <2>6. ParserInv(Mem', At(pc', status', dmux', frame'))
    <3> DEFINE q == At("master", "OK", InitDemux, NoFrame)
               n == Mem'
    <3>1. q \in ParserState  BY <1>1, InitIsSound DEF At, ParserState, Statuses
    <3>2. q.pc = "master" /\ q.dmux = InitDemux  BY DEF At
    <3>3. Sound(n, InitDemux)  BY InitIsSound
    <3>4. Len(n.chunks) >= 1  BY <2>4, <2>5
    <3> HIDE DEF q, n
    <3>5. ParserInv(n, q)  BY <3>1, <3>2, <3>3, <3>4 DEF ParserInv
    <3> QED BY <2>2, <3>5 DEF q, n
  <2> QED BY <1>1, <1>3, <2>1, <2>2, <2>6, InitIsSound DEF ContainerInv, Pc
<1> QED BY <1>4, <1>5

LEMMA FinishKeepsInv ==
  ASSUME ContainerInv, UNCHANGED mux, file # NoFile, Finish PROVE ContainerInv'
<1> DEFINE g == Given(Mem, status, dmux)
           p == At(pc, status, dmux, frame)
<1>1. /\ pc = "finish" /\ res' = g /\ pc' = "wait"
      /\ UNCHANGED <<file, size, status, dmux, frame>>
  BY DEF Finish, Give
<1>2. Buffer(Mem) /\ ParserInv(Mem, p)  BY <1>1, MemIsBuffer DEF ContainerInv, Mem
<1>3. p.pc = "finish" /\ p.status = status /\ p.dmux = dmux  BY <1>1 DEF At
<1>4. Mem.chunks = file.chunks /\ Mem.riff_end = file.riff_end  BY DEF Mem, MemBuffer
<1> HIDE DEF p
<1>5. ASSUME Usable(g), NEW i \in 1 .. Len(g.frames) PROVE SoundGiven(file, g, i)
  <2>1. g = Given(Mem, p.status, p.dmux)  BY <1>3
  <2> HIDE DEF g
  <2>2. SoundGiven(Mem, g, i)  BY <1>2, <1>3, <1>5, <2>1, GivenIsSound
  <2> QED BY <1>4, <2>2 DEF SoundGiven, InFrameChunk
<1> HIDE DEF g
<1>6. GivenAreSound(file, g)  BY <1>5 DEF GivenAreSound
<1> QED BY <1>1, <1>6 DEF ContainerInv, Pc

\* A file that is not there.
LEMMA NewFileIsOk ==
  ASSUME ContainerInv, file = NoFile, mux' \in MuxObject, file' \in File,
         UNCHANGED <<size, pc, frame, res>>
  PROVE  ContainerInv'
<1>1. /\ pc = "wait" /\ size = 0 /\ ~ Usable(res) /\ frame \in FrameRead
  BY DEF ContainerInv
<1>2. 0 <= FileSize(file')
  <2>1. ListSize(file'.chunks) \in Nat  BY ListHasSize DEF File
  <2> QED BY <2>1, SizesAreNat DEF FileSize
<1> QED BY <1>1, <1>2 DEF ContainerInv, Pc, GivenAreSound

LEMMA EditAgainKeepsInv ==
  ASSUME ContainerInv, EditAgain PROVE ContainerInv'
<1>1. mux' \in MuxObject
  <2>1. mux \in MuxObject /\ file \in File  BY DEF ContainerInv
  <2>2. mux' \in {mux, MuxCreate(file)}  BY DEF EditAgain
  <2> QED BY <2>1, <2>2, MuxCreateIsTyped
<1>2. file' = NoFile /\ NoFile \in File  BY DEF EditAgain, NoFile, File
<1>3. size' = 0 /\ pc' = "wait" /\ frame' = NoFrame /\ res' = Without("PARSING_HEADER")
  BY DEF EditAgain, NextFile
<1>4. ~ Usable(res')  BY <1>3 DEF Usable, Without, InitDemux
<1>5. 0 <= FileSize(file')
  <2>1. ListSize(file'.chunks) \in Nat  BY <1>2, ListHasSize DEF File
  <2> QED BY <2>1, SizesAreNat DEF FileSize
<1> QED BY <1>1, <1>2, <1>3, <1>4, <1>5, InitIsSound DEF ContainerInv, Pc, GivenAreSound

LEMMA NextKeepsInv == ContainerInv /\ [Next]_vars => ContainerInv'
<1> SUFFICES ASSUME ContainerInv, [Next]_vars PROVE ContainerInv'
  OBVIOUS
<1>0. mux \in MuxObject /\ file \in File  BY DEF ContainerInv
<1>1. CASE Edit
  <2>1. file = NoFile /\ UNCHANGED <<file, size, pc, frame, res>>
    BY <1>1 DEF Edit, Editing, dvars
  <2>2. mux' \in MuxObject  BY <1>0, <1>1, EditIsTyped
  <2> QED BY <1>0, <2>1, <2>2, NewFileIsOk
<1>2. CASE WebPMuxAssemble
  <2>1. file = NoFile /\ UNCHANGED <<size, pc, frame, res>>
    BY <1>2 DEF WebPMuxAssemble, Editing, dvars
  <2>2. mux' = Assembled(mux).mux /\ file' = Assembled(mux).file
    BY <1>2 DEF WebPMuxAssemble
  <2>3. mux' \in MuxObject /\ file' \in File  BY <1>0, <2>2, AssembledIsTyped
  <2> QED BY <2>1, <2>3, NewFileIsOk
<1>3. CASE Read
  <2>1. file # NoFile /\ UNCHANGED mux  BY <1>3 DEF Read
  <2>2. CASE Receive  BY <2>1, <2>2, ReceiveKeepsInv
  <2>3. CASE Master \/ Chunk \/ StoreFrame \/ Stored  BY <2>1, <2>3, ParserKeepsInv
  <2>4. CASE Finish  BY <2>1, <2>4, FinishKeepsInv
  <2> QED BY <1>3, <2>2, <2>3, <2>4 DEF Read, DemuxNext
<1>4. CASE EditAgain  BY <1>4, EditAgainKeepsInv
<1>5. CASE UNCHANGED vars
  <2>1. UNCHANGED <<mux, file, size, pc, status, dmux, frame, res>>
    BY <1>5 DEF vars, dvars
  <2>2. Mem' = Mem  BY <2>1 DEF Mem
  <2> QED BY <2>1, <2>2 DEF ContainerInv
<1> QED BY <1>1, <1>2, <1>3, <1>4, <1>5 DEF Next, Terminated

\* Whatever is edited in whatever order, and whatever file from elsewhere is read
\* bit by bit, the frames that WebPDemuxPartial gives are sound (FramesAreSound).
THEOREM FramesAreSoundAlways == Spec => []FramesAreSound
<1>1. ContainerInv => FramesAreSound  BY SoundIsGiven DEF ContainerInv
<1> QED BY InitImpliesInv, NextKeepsInv, <1>1, PTL DEF Spec

-----------------------------------------------------------------------------
(* What a call gives of less of a file and what another gives of more of it: *)
(* two runs of the parser, which do the same until the first wants data.     *)

LEMMA StepIsOk ==
  ASSUME NEW m, Buffer(m), NEW p, ParserInv(m, p) PROVE ParserInv(m, Step(m, p))
<1>1. p.pc \in {"master", "chunks", "store", "stored", "finish"}
  BY DEF ParserInv, ParserState
<1>2. CASE p.pc = "master"  BY <1>2, MasterIsOk DEF Step
<1>3. CASE p.pc = "chunks"  BY <1>3, ChunkIsOk DEF Step
<1>4. CASE p.pc = "store"  BY <1>4, StorePartIsOk DEF Step
<1>5. CASE p.pc = "stored"  BY <1>5, FrameStoredIsOk DEF Step
<1>6. CASE p.pc = "finish"  BY <1>6 DEF Step
<1> QED BY <1>1, <1>2, <1>3, <1>4, <1>5, <1>6

LEMMA LeadsToItself == \A m, p : Leads(m, p, p)
  BY DEF Leads

LEMMA LeadsOn ==
  ASSUME NEW m, NEW p, NEW q, Leads(m, p, q) PROVE Leads(m, p, Step(m, q))
  BY DEF Leads

\* The first step on the way.
LEMMA LeadsFirst ==
  ASSUME NEW m, NEW p, NEW q, Leads(m, p, q), p # q PROVE Leads(m, Step(m, p), q)
<1> SUFFICES ASSUME NEW S, Step(m, p) \in S, \A x \in S : Step(m, x) \in S PROVE q \in S
  BY DEF Leads
<1>1. q \in S \cup {p}  BY DEF Leads
<1> QED BY <1>1

LEMMA FinishLeadsNowhere ==
  ASSUME NEW m, NEW p, NEW q, Leads(m, p, q), p.pc = "finish" PROVE q = p
<1>1. Step(m, p) = p  BY DEF Step
<1>2. q \in {p}  BY <1>1 DEF Leads
<1> QED BY <1>2

-----------------------------------------------------------------------------
(* There is more in n than in m.                                             *)

LEMMA MoreIsLonger ==
  ASSUME NEW m, NEW n, More(m, n), NEW d
  PROVE  /\ AtRiffEnd(n, d) = AtRiffEnd(m, d)
         /\ \A s : SizeIsInvalid(n, d, s) = SizeIsInvalid(m, d, s)
         /\ \A at : ChunkAt(n, at) = ChunkAt(m, at)
         /\ d.start \in Nat => /\ MemDataSize(m, d) \in Int /\ MemDataSize(n, d) \in Int
                               /\ MemDataSize(m, d) <= MemDataSize(n, d)
<1>1. AtRiffEnd(n, d) = AtRiffEnd(m, d) /\ \A s : SizeIsInvalid(n, d, s) = SizeIsInvalid(m, d, s)
  BY DEF More, AtRiffEnd, SizeIsInvalid
<1>2. \A at : ChunkAt(n, at) = ChunkAt(m, at)  BY DEF More, ChunkAt
<1>3. d.start \in Nat => /\ MemDataSize(m, d) \in Int /\ MemDataSize(n, d) \in Int
                         /\ MemDataSize(m, d) <= MemDataSize(n, d)
  BY DEF More, Buffer, MemDataSize
<1> QED BY <1>1, <1>2, <1>3

LEMMA EndOfChunkIsSame ==
  ASSUME NEW m, NEW n, More(m, n), NEW d, d.start \in Nat, NEW f, NEW s,
         EndOfChunk(m, s, d, f).status # "NEED_MORE_DATA"
  PROVE  EndOfChunk(n, s, d, f) = EndOfChunk(m, s, d, f)
<1>1. AtRiffEnd(m, d) \/ ~ MemDataSize(m, d) < CHUNK_HEADER_SIZE  BY DEF EndOfChunk, At
<1>2. AtRiffEnd(n, d) = AtRiffEnd(m, d)  BY MoreIsLonger
<1>3. ~ MemDataSize(m, d) < CHUNK_HEADER_SIZE => ~ MemDataSize(n, d) < CHUNK_HEADER_SIZE
  BY MoreIsLonger, SizesAreNat
<1> QED BY <1>1, <1>2, <1>3 DEF EndOfChunk

LEMMA EndOfFramePartIsSame ==
  ASSUME NEW m, NEW n, More(m, n), NEW d, d.start \in Nat, NEW f, NEW s, NEW done,
         EndOfFramePart(m, s, done, d, f).status # "NEED_MORE_DATA"
  PROVE  EndOfFramePart(n, s, done, d, f) = EndOfFramePart(m, s, done, d, f)
<1>1. AtRiffEnd(m, d) \/ ~ MemDataSize(m, d) < CHUNK_HEADER_SIZE
  BY DEF EndOfFramePart, At
<1>2. AtRiffEnd(n, d) = AtRiffEnd(m, d)  BY MoreIsLonger
<1>3. ~ MemDataSize(m, d) < CHUNK_HEADER_SIZE => ~ MemDataSize(n, d) < CHUNK_HEADER_SIZE
  BY MoreIsLonger, SizesAreNat
<1> QED BY <1>1, <1>2, <1>3 DEF EndOfFramePart

LEMMA StartFrameIsSame ==
  ASSUME NEW m, NEW n, More(m, n), NEW d, d.start \in Nat, NEW f, f.payload \in Int,
         StartFrame(m, d, f).status # "NEED_MORE_DATA"
  PROVE  StartFrame(n, d, f) = StartFrame(m, d, f)
<1>1. ~ MemDataSize(m, d) < CHUNK_HEADER_SIZE /\ ~ MemDataSize(m, d) < f.payload
  BY DEF StartFrame, At
<1>2. ~ MemDataSize(n, d) < CHUNK_HEADER_SIZE /\ ~ MemDataSize(n, d) < f.payload
  BY <1>1, MoreIsLonger, SizesAreNat
<1> QED BY <1>1, <1>2 DEF StartFrame

LEMMA FirstChunkIsTyped ==
  ASSUME NEW m, Buffer(m), Len(m.chunks) >= 1
  PROVE  ChunkAt(m, RIFF_HEADER_SIZE) \in AnyChunk
<1>1. Layout(m.chunks) /\ 1 \in 1 .. Len(m.chunks)
  <2>1. Len(m.chunks) \in Nat  BY DEF Buffer
  <2> QED BY <2>1, ChunksFollow DEF Buffer
<1>2. RIFF_HEADER_SIZE = Offset(m.chunks, 1)  BY <1>1 DEF Layout
<1> QED BY <1>1, <1>2, ChunkIsAt DEF Buffer

LEMMA SingleImageIsSame ==
  ASSUME NEW m, NEW n, More(m, n), NEW d, d.start \in Nat, NEW f,
         SingleImage(m, d, f).status # "NEED_MORE_DATA"
  PROVE  SingleImage(n, d, f) = SingleImage(m, d, f)
<1> DEFINE r == [f |-> NewFrame, for |-> "image", num |-> 1,
                 from |-> d.start, payload |-> 0]
<1>1. SizeIsInvalid(n, d, CHUNK_HEADER_SIZE) = SizeIsInvalid(m, d, CHUNK_HEADER_SIZE)
  BY MoreIsLonger
<1>2. CASE d.frames # << >> \/ SizeIsInvalid(m, d, CHUNK_HEADER_SIZE)
  BY <1>1, <1>2 DEF SingleImage
<1>3. CASE ~ (d.frames # << >> \/ SizeIsInvalid(m, d, CHUNK_HEADER_SIZE))
  <2>1. SingleImage(m, d, f) = StartFrame(m, d, r) /\ SingleImage(n, d, f) = StartFrame(n, d, r)
    BY <1>1, <1>3 DEF SingleImage
  <2>2. r.payload \in Int  OBVIOUS
  <2> HIDE DEF r
  <2> QED BY <2>1, <2>2, StartFrameIsSame
<1> QED BY <1>2, <1>3

LEMMA MasterIsSame ==
  ASSUME NEW m, NEW n, More(m, n), NEW p, ParserInv(m, p), p.pc = "master",
         Step(m, p).status # "NEED_MORE_DATA"
  PROVE  Step(n, p) = Step(m, p)
<1> DEFINE d == p.dmux
           f == p.frame
           c == ChunkAt(m, d.start)
           d1 == BehindHeader(d)
           d2 == BehindVP8X(d, c)
           s == Padded(c.size)
<1>1. /\ d \in Demuxer /\ d.start = RIFF_HEADER_SIZE /\ Len(m.chunks) >= 1 /\ d.frames = << >>
      /\ Sound(m, d)
  BY DEF ParserInv, ParserState, InitDemux
<1>2. c \in AnyChunk /\ ChunkAt(n, d.start) = c
  BY <1>1, FirstChunkIsTyped, MoreIsLonger DEF More
<1>3. Step(m, p) = ParseMaster(m, d, f) /\ Step(n, p) = ParseMaster(n, d, f)  BY DEF Step
<1> HIDE DEF d, f
<1>4. CASE c.tag \in ImageTags
  <2>1. ParseMaster(m, d, f) = SingleImage(m, d, f) /\ ParseMaster(n, d, f) = SingleImage(n, d, f)
    BY <1>2, <1>4 DEF ParseMaster
  <2> QED BY <1>1, <1>3, <2>1, SingleImageIsSame DEF Demuxer
<1>5. CASE c.tag = "VP8X"
  <2> HIDE DEF c
  <2>1. d1 \in Demuxer /\ d2 \in Demuxer /\ s \in Nat
    BY <1>1, <1>2, <1>5, VP8XIsRead, ChunkHasSize, PaddedIsNat
  <2>2. ParseMaster(m, d, f) = ParseVP8X(m, d, f) /\ ParseMaster(n, d, f) = ParseVP8X(n, d, f)
    BY <1>2, <1>5 DEF ParseMaster, ImageTags, c
  <2> DEFINE Parsed(b) ==
        IF c.size < VP8X_CHUNK_SIZE \/ SizeIsInvalid(b, d1, s) THEN Stop("ERROR", d1, f)
        ELSE IF MemDataSize(b, d1) < s THEN Stop("NEED_MORE_DATA", d1, f)
        ELSE IF SizeIsInvalid(b, d2, CHUNK_HEADER_SIZE) THEN Stop("ERROR", d2, f)
        ELSE IF MemDataSize(b, d2) < CHUNK_HEADER_SIZE THEN Stop("NEED_MORE_DATA", d2, f)
        ELSE At("chunks", "OK", d2, f)
  <2>3. ParseVP8X(m, d, f) = Parsed(m) /\ ParseVP8X(n, d, f) = Parsed(n)
    BY <1>2 DEF ParseVP8X, BehindHeader, BehindVP8X, c
  <2> HIDE DEF d1, d2, s
  <2>4. /\ SizeIsInvalid(n, d1, s) = SizeIsInvalid(m, d1, s)
        /\ SizeIsInvalid(n, d2, CHUNK_HEADER_SIZE) = SizeIsInvalid(m, d2, CHUNK_HEADER_SIZE)
    BY MoreIsLonger
  <2>5. /\ ~ MemDataSize(m, d1) < s => ~ MemDataSize(n, d1) < s
        /\ ~ MemDataSize(m, d2) < CHUNK_HEADER_SIZE => ~ MemDataSize(n, d2) < CHUNK_HEADER_SIZE
    <3>1. d1.start \in Nat /\ d2.start \in Nat  BY <2>1 DEF Demuxer
    <3> QED BY <2>1, <3>1, MoreIsLonger, SizesAreNat
  <2>6. Parsed(m).status # "NEED_MORE_DATA"  BY <1>3, <2>2, <2>3
  <2>7. Parsed(n) = Parsed(m)  BY <2>4, <2>5, <2>6 DEF Stop, At
  <2> QED BY <1>3, <2>2, <2>3, <2>7
<1>6. CASE c.tag \notin ImageTags \cup {"VP8X"}  BY <1>2, <1>3, <1>6 DEF ParseMaster
<1> QED BY <1>4, <1>5, <1>6

LEMMA OtherChunkIsSame ==
  ASSUME NEW m, NEW n, More(m, n), NEW d \in Demuxer, NEW f, NEW c \in AnyChunk, NEW store,
         OtherChunk(m, c, d, f, store).status # "NEED_MORE_DATA"
  PROVE  OtherChunk(n, c, d, f, store) = OtherChunk(m, c, d, f, store)
<1> DEFINE stored == Append(d.chunks, [offset |-> d.start - CHUNK_HEADER_SIZE,
                                       size   |-> CHUNK_HEADER_SIZE + c.size])
           e == [Skip(d, Padded(c.size)) EXCEPT !.chunks = IF store THEN stored ELSE @]
<1>1. Padded(c.size) \in Nat /\ d.start \in Nat  BY ChunkHasSize, PaddedIsNat DEF Demuxer
<1>2. e.start \in Nat
  <2>1. Skip(d, Padded(c.size)) \in Demuxer  BY <1>1, SkipIsDemuxer
  <2> QED BY <2>1 DEF Demuxer
<1>3. /\ OtherChunk(m, c, d, f, store) = IF Padded(c.size) > MemDataSize(m, d)
                                         THEN EndOfChunk(m, "NEED_MORE_DATA", d, f)
                                         ELSE EndOfChunk(m, "OK", e, f)
      /\ OtherChunk(n, c, d, f, store) = IF Padded(c.size) > MemDataSize(n, d)
                                         THEN EndOfChunk(n, "NEED_MORE_DATA", d, f)
                                         ELSE EndOfChunk(n, "OK", e, f)
  BY DEF OtherChunk
<1> HIDE DEF e
<1>4. EndOfChunk(m, "NEED_MORE_DATA", d, f).status = "NEED_MORE_DATA"
  BY DEF EndOfChunk, At
<1>5. ~ Padded(c.size) > MemDataSize(m, d) /\ ~ Padded(c.size) > MemDataSize(n, d)
  BY <1>1, <1>3, <1>4, MoreIsLonger
<1> QED BY <1>2, <1>3, <1>5, EndOfChunkIsSame

LEMMA AnimChunkIsSame ==
  ASSUME NEW m, NEW n, More(m, n), NEW d \in Demuxer, NEW f, NEW c \in AnyChunk,
         AnimChunk(m, c, d, f).status # "NEED_MORE_DATA"
  PROVE  AnimChunk(n, c, d, f) = AnimChunk(m, c, d, f)
<1> DEFINE e == [Skip(d, Padded(c.size)) EXCEPT !.anim_chunks = 1]
<1>1. Padded(c.size) \in Nat /\ d.start \in Nat  BY ChunkHasSize, PaddedIsNat DEF Demuxer
<1>2. e.start \in Nat
  <2>1. Skip(d, Padded(c.size)) \in Demuxer  BY <1>1, SkipIsDemuxer
  <2> QED BY <2>1 DEF Demuxer
<1> HIDE DEF e
<1>3. CASE Padded(c.size) < ANIM_CHUNK_SIZE  BY <1>3 DEF AnimChunk
<1>4. CASE ~ Padded(c.size) < ANIM_CHUNK_SIZE /\ d.anim_chunks > 0
  <2> DEFINE no == FALSE
  <2>1. /\ AnimChunk(m, c, d, f) = OtherChunk(m, c, d, f, no)
        /\ AnimChunk(n, c, d, f) = OtherChunk(n, c, d, f, no)
    BY <1>4 DEF AnimChunk
  <2> HIDE DEF no
  <2> QED BY <2>1, OtherChunkIsSame
<1>5. CASE ~ Padded(c.size) < ANIM_CHUNK_SIZE /\ ~ d.anim_chunks > 0
  <2>1. /\ AnimChunk(m, c, d, f) = IF MemDataSize(m, d) < Padded(c.size)
                                   THEN EndOfChunk(m, "NEED_MORE_DATA", d, f)
                                   ELSE EndOfChunk(m, "OK", e, f)
        /\ AnimChunk(n, c, d, f) = IF MemDataSize(n, d) < Padded(c.size)
                                   THEN EndOfChunk(n, "NEED_MORE_DATA", d, f)
                                   ELSE EndOfChunk(n, "OK", e, f)
    BY <1>5 DEF AnimChunk, e
  <2>2. EndOfChunk(m, "NEED_MORE_DATA", d, f).status = "NEED_MORE_DATA"
    BY DEF EndOfChunk, At
  <2>3. ~ MemDataSize(m, d) < Padded(c.size) /\ ~ MemDataSize(n, d) < Padded(c.size)
    BY <1>1, <2>1, <2>2, MoreIsLonger
  <2> QED BY <1>2, <2>1, <2>3, EndOfChunkIsSame
<1> QED BY <1>3, <1>4, <1>5

LEMMA AnimationFrameIsSame ==
  ASSUME NEW m, NEW n, More(m, n), NEW d \in Demuxer, NEW f, NEW c \in AnyChunk,
         AnimationFrame(m, c, d, f).status # "NEED_MORE_DATA"
  PROVE  AnimationFrame(n, c, d, f) = AnimationFrame(m, c, d, f)
<1> DEFINE e == Skip(d, ANMF_CHUNK_SIZE)
           r == ReadOf(c, d)
<1>1. d.start \in Nat /\ e.start \in Nat /\ r.payload \in Int
  <2>1. e \in Demuxer  BY SizesAreNat, SkipIsDemuxer
  <2>2. Padded(c.size) \in Nat  BY ChunkHasSize, PaddedIsNat
  <2> QED BY <2>1, <2>2, SizesAreNat DEF Demuxer, ReadOf
<1> DEFINE bad == \/ SizeIsInvalid(m, d, ANMF_CHUNK_SIZE)
                  \/ Padded(c.size) < ANMF_CHUNK_SIZE
<1>2. /\ AnimationFrame(m, c, d, f) = IF d.anim_chunks = 0 THEN Stop("ERROR", d, f)
                                      ELSE IF bad THEN EndOfChunk(m, "ERROR", d, f)
                                      ELSE IF MemDataSize(m, d) < ANMF_CHUNK_SIZE
                                      THEN EndOfChunk(m, "NEED_MORE_DATA", d, f)
                                      ELSE StartFrame(m, e, r)
      /\ AnimationFrame(n, c, d, f) = IF d.anim_chunks = 0 THEN Stop("ERROR", d, f)
                                      ELSE IF bad THEN EndOfChunk(n, "ERROR", d, f)
                                      ELSE IF MemDataSize(n, d) < ANMF_CHUNK_SIZE
                                      THEN EndOfChunk(n, "NEED_MORE_DATA", d, f)
                                      ELSE StartFrame(n, e, r)
  <2>1. SizeIsInvalid(n, d, ANMF_CHUNK_SIZE) = SizeIsInvalid(m, d, ANMF_CHUNK_SIZE)
    BY MoreIsLonger
  <2> QED BY <2>1 DEF AnimationFrame, ReadOf
<1> HIDE DEF e, r, bad
<1>3. CASE d.anim_chunks = 0  BY <1>2, <1>3
<1>4. CASE d.anim_chunks # 0 /\ bad  BY <1>1, <1>2, <1>4, EndOfChunkIsSame
<1>5. CASE d.anim_chunks # 0 /\ ~ bad
  <2>1. EndOfChunk(m, "NEED_MORE_DATA", d, f).status = "NEED_MORE_DATA"
    BY DEF EndOfChunk, At
  <2>2. ~ MemDataSize(m, d) < ANMF_CHUNK_SIZE /\ ~ MemDataSize(n, d) < ANMF_CHUNK_SIZE
    BY <1>1, <1>2, <1>5, <2>1, MoreIsLonger, SizesAreNat
  <2> QED BY <1>1, <1>2, <1>5, <2>2, StartFrameIsSame
<1> QED BY <1>3, <1>4, <1>5

LEMMA ChunkIsSame ==
  ASSUME NEW m, NEW n, More(m, n), NEW p, ParserInv(m, p), p.pc = "chunks",
         Step(m, p).status # "NEED_MORE_DATA"
  PROVE  Step(n, p) = Step(m, p)
<1> DEFINE d0 == p.dmux
           f == p.frame
           d == Skip(d0, CHUNK_HEADER_SIZE)
           c == ChunkAt(m, d0.start)
<1>1. /\ d0 \in Demuxer /\ Boundary(m, d0.start) /\ d0.start + CHUNK_HEADER_SIZE <= m.end
  BY DEF ParserInv, ParserState
<1>2. c \in AnyChunk /\ ChunkAt(n, d0.start) = c
  BY <1>1, ChunkHere, MoreIsLonger DEF More
<1>3. Step(m, p) = ParseChunk(m, d0, f) /\ Step(n, p) = ParseChunk(n, d0, f)  BY DEF Step
<1>4. d \in Demuxer  BY <1>1, SizesAreNat, SkipIsDemuxer
<1> HIDE DEF d0, f
<1> DEFINE bad == SizeIsInvalid(m, d, Padded(c.size)) \/ c.tag = "VP8X"
           image == c.tag \in ImageTags \cup {"ALPH"}
           store == c.tag \in Metadata => c.tag \in d.flags
<1>5. SizeIsInvalid(n, d, Padded(c.size)) = SizeIsInvalid(m, d, Padded(c.size))
  BY MoreIsLonger
<1>6. CASE bad \/ (image /\ (d.anim_chunks > 0 \/ IsAnimation(d)))
  BY <1>2, <1>3, <1>5, <1>6 DEF ParseChunk, ImageTags
<1>7. CASE ~ bad /\ image /\ ~ (d.anim_chunks > 0 \/ IsAnimation(d))
  <2>1. ParseChunk(m, d0, f) = SingleImage(m, d0, f) /\ ParseChunk(n, d0, f) = SingleImage(n, d0, f)
    BY <1>2, <1>5, <1>7 DEF ParseChunk, ImageTags
  <2> QED BY <1>1, <1>3, <2>1, SingleImageIsSame DEF Demuxer
<1>8. CASE ~ bad /\ c.tag = "ANMF"
  <2>1. /\ ParseChunk(m, d0, f) = AnimationFrame(m, c, d, f)
        /\ ParseChunk(n, d0, f) = AnimationFrame(n, c, d, f)
    BY <1>2, <1>5, <1>8 DEF ParseChunk, ImageTags
  <2> HIDE DEF d, c
  <2> QED BY <1>2, <1>3, <1>4, <2>1, AnimationFrameIsSame
<1>9. CASE ~ bad /\ c.tag = "ANIM"
  <2>1. /\ ParseChunk(m, d0, f) = AnimChunk(m, c, d, f)
        /\ ParseChunk(n, d0, f) = AnimChunk(n, c, d, f)
    BY <1>2, <1>5, <1>9 DEF ParseChunk, ImageTags
  <2> HIDE DEF d, c
  <2> QED BY <1>2, <1>3, <1>4, <2>1, AnimChunkIsSame
<1>10. CASE ~ bad /\ ~ image /\ c.tag \notin {"ANMF", "ANIM"}
  <2>1. /\ ParseChunk(m, d0, f) = OtherChunk(m, c, d, f, store)
        /\ ParseChunk(n, d0, f) = OtherChunk(n, c, d, f, store)
    BY <1>2, <1>5, <1>10 DEF ParseChunk
  <2> HIDE DEF d, c, store
  <2> QED BY <1>2, <1>3, <1>4, <2>1, OtherChunkIsSame
<1> QED BY <1>6, <1>7, <1>8, <1>9, <1>10

LEMMA StorePartCases ==
  ASSUME NEW m, NEW d0, NEW f, NEW c, c = ChunkAt(m, d0.start),
         NEW d, d = Skip(d0, CHUNK_HEADER_SIZE), NEW s, s = IsThere(m, c, d),
         NEW e, e = Skip(d, Available(m, c, d)), NEW x, x = StorePart(m, d0, f)
  PROVE  /\ Refused(m, c, d, f) => x = FrameGivenUp("ERROR", d, f)
         /\ ~ Refused(m, c, d, f) /\ IsAlphaPart(c, f) =>
              x = FrameGoesOn(m, s, e, AlphaSet(m, f, c, d0))
         /\ ~ Refused(m, c, d, f) /\ IsImagePart(c, f) /\ Available(m, c, d) < c.v.need =>
              x = FrameGivenUp(IF s = "OK" THEN "ERROR" ELSE s, d, f)
         /\ ~ Refused(m, c, d, f) /\ IsImagePart(c, f) /\ ~ Available(m, c, d) < c.v.need =>
              x = FrameGoesOn(m, s, e, ImageSet(m, f, c, d0, s))
         /\ ~ Refused(m, c, d, f) /\ ~ IsAlphaPart(c, f) /\ ~ IsImagePart(c, f) =>
              x = FrameEnds(m, s, d0, f)
  BY DEF StorePart, Refused, IsAlphaPart, IsImagePart, IsThere, Available, PartOf, ImageTags,
         FrameGoesOn, FrameEnds, ImageSet, AlphaSet

\* Where StoreFrame is, with the chunk there.
LEMMA PartHere ==
  ASSUME NEW m, Buffer(m), NEW p, ParserInv(m, p), p.pc = "store"
  PROVE  LET d0 == p.dmux
             d  == Skip(d0, CHUNK_HEADER_SIZE)
             c  == ChunkAt(m, d0.start)
         IN  /\ d0 \in Demuxer /\ d \in Demuxer /\ d.start = d0.start + CHUNK_HEADER_SIZE
             /\ d0.start \in Nat /\ c \in AnyChunk /\ Padded(c.size) \in Nat
             /\ MemDataSize(m, d) \in Nat /\ Available(m, c, d) \in Nat
             /\ Available(m, c, d) <= MemDataSize(m, d)
             /\ IsThere(m, c, d) = "OK" => Available(m, c, d) = Padded(c.size)
             /\ IsThere(m, c, d) # "OK" => Available(m, c, d) < Padded(c.size)
             /\ Skip(d, Available(m, c, d)) \in Demuxer
             /\ Skip(d, Available(m, c, d)).start = d.start + Available(m, c, d)
<1> DEFINE d0 == p.dmux
           d  == Skip(d0, CHUNK_HEADER_SIZE)
           c  == ChunkAt(m, d0.start)
           n  == Available(m, c, d)
<1>1. /\ d0 \in Demuxer /\ Boundary(m, d0.start) /\ d0.start + CHUNK_HEADER_SIZE <= m.end
  BY DEF ParserInv, ParserState
<1>2. c \in AnyChunk /\ d0.start \in Nat  BY <1>1, ChunkHere DEF Demuxer
<1>3. d \in Demuxer /\ d.start = d0.start + CHUNK_HEADER_SIZE
  BY <1>1, SizesAreNat, SkipIsDemuxer
<1>4. Padded(c.size) \in Nat  BY <1>2, ChunkHasSize, PaddedIsNat
<1>5. MemDataSize(m, d) \in Nat  BY <1>1, <1>2, <1>3, SizesAreNat DEF MemDataSize, Buffer
<1> HIDE DEF d0, d, c
<1>6. /\ n \in Nat /\ n <= MemDataSize(m, d)
      /\ IsThere(m, c, d) = "OK" => n = Padded(c.size)
      /\ IsThere(m, c, d) # "OK" => n < Padded(c.size)
  BY <1>4, <1>5 DEF Available, IsThere, MinOf
<1> HIDE DEF n
<1>7. Skip(d, n) \in Demuxer /\ Skip(d, n).start = d.start + n
  BY <1>3, <1>6, SkipIsDemuxer
<1> QED BY <1>1, <1>2, <1>3, <1>4, <1>5, <1>6, <1>7 DEF d0, d, c, n

LEMMA PartIsThere ==
  ASSUME NEW m, NEW n, More(m, n), NEW p, ParserInv(m, p), p.pc = "store",
         NEW c, c = ChunkAt(m, p.dmux.start), NEW d, d = Skip(p.dmux, CHUNK_HEADER_SIZE),
         IsThere(m, c, d) = "OK"
  PROVE  /\ IsThere(n, c, d) = "OK" /\ Available(n, c, d) = Available(m, c, d)
         /\ PartOf(n, c, p.dmux) = PartOf(m, c, p.dmux)
<1>1. /\ d \in Demuxer /\ Padded(c.size) \in Nat /\ MemDataSize(m, d) \in Nat
      /\ Available(m, c, d) = Padded(c.size)
  BY PartHere DEF More
<1>2. MemDataSize(n, d) \in Int /\ MemDataSize(m, d) <= MemDataSize(n, d)
  BY <1>1, MoreIsLonger DEF Demuxer
<1>3. ~ Padded(c.size) > MemDataSize(m, d)  BY DEF IsThere
<1>4. ~ Padded(c.size) > MemDataSize(n, d)  BY <1>1, <1>2, <1>3
<1>5. Available(n, c, d) = Padded(c.size)  BY <1>1, <1>2, <1>4 DEF Available, MinOf
<1> QED BY <1>1, <1>4, <1>5 DEF IsThere, PartOf

LEMMA FramePartIsSame ==
  ASSUME NEW m, NEW n, More(m, n), NEW d, d.start \in Nat, NEW f, NEW s
  PROVE  /\ s = "NEED_MORE_DATA" => /\ FrameGoesOn(m, s, d, f).status = s
                                    /\ FrameEnds(m, s, d, f).status = s
         /\ FrameGoesOn(m, s, d, f).status # "NEED_MORE_DATA" =>
              FrameGoesOn(n, s, d, f) = FrameGoesOn(m, s, d, f)
         /\ FrameEnds(m, s, d, f).status # "NEED_MORE_DATA" =>
              FrameEnds(n, s, d, f) = FrameEnds(m, s, d, f)
<1>1. s = "NEED_MORE_DATA" => /\ FrameGoesOn(m, s, d, f).status = s
                              /\ FrameEnds(m, s, d, f).status = s
  BY DEF FrameGoesOn, FrameEnds, EndOfFramePart, At
<1>2. ASSUME NEW done, EndOfFramePart(m, s, done, d, f).status # "NEED_MORE_DATA"
      PROVE  EndOfFramePart(n, s, done, d, f) = EndOfFramePart(m, s, done, d, f)
  BY <1>2, EndOfFramePartIsSame
<1> QED BY <1>1, <1>2 DEF FrameGoesOn, FrameEnds

LEMMA StorePartIsSame ==
  ASSUME NEW m, NEW n, More(m, n), NEW p, ParserInv(m, p), p.pc = "store",
         Step(m, p).status # "NEED_MORE_DATA"
  PROVE  Step(n, p) = Step(m, p)
<1> DEFINE d0 == p.dmux
           f == p.frame
           d == Skip(d0, CHUNK_HEADER_SIZE)
           c == ChunkAt(m, d0.start)
           s == IsThere(m, c, d)
           t == IsThere(n, c, d)
           e == Skip(d, Available(m, c, d))
           e1 == Skip(d, Available(n, c, d))
           x == StorePart(m, d0, f)
           y == StorePart(n, d0, f)
<1>1. ChunkAt(n, d0.start) = c /\ d0.start \in Nat /\ e.start \in Nat
  <2>1. Buffer(m) /\ ChunkAt(n, d0.start) = c  BY MoreIsLonger DEF More
  <2>2. d0.start \in Nat /\ e \in Demuxer  BY <2>1, PartHere
  <2> HIDE DEF d0, e
  <2> QED BY <2>1, <2>2 DEF Demuxer
<1>2. Step(m, p) = x /\ Step(n, p) = y  BY DEF Step
<1>3. Refused(n, c, d, f) = Refused(m, c, d, f)  BY MoreIsLonger DEF Refused
<1>4. s = "OK" => /\ t = s /\ e1 = e /\ Available(n, c, d) = Available(m, c, d)
                  /\ PartOf(n, c, d0) = PartOf(m, c, d0)
  BY PartIsThere
<1>5. s \in {"OK", "NEED_MORE_DATA"}  BY DEF IsThere
<1> HIDE DEF d0, f
<1>6. /\ Refused(m, c, d, f) => x = FrameGivenUp("ERROR", d, f)
      /\ ~ Refused(m, c, d, f) /\ IsAlphaPart(c, f) =>
           x = FrameGoesOn(m, s, e, AlphaSet(m, f, c, d0))
      /\ ~ Refused(m, c, d, f) /\ IsImagePart(c, f) /\ Available(m, c, d) < c.v.need =>
           x = FrameGivenUp(IF s = "OK" THEN "ERROR" ELSE s, d, f)
      /\ ~ Refused(m, c, d, f) /\ IsImagePart(c, f) /\ ~ Available(m, c, d) < c.v.need =>
           x = FrameGoesOn(m, s, e, ImageSet(m, f, c, d0, s))
      /\ ~ Refused(m, c, d, f) /\ ~ IsAlphaPart(c, f) /\ ~ IsImagePart(c, f) =>
           x = FrameEnds(m, s, d0, f)
  BY StorePartCases
<1> HIDE DEF c, d
<1>7. /\ Refused(n, c, d, f) => y = FrameGivenUp("ERROR", d, f)
      /\ ~ Refused(n, c, d, f) /\ IsAlphaPart(c, f) =>
           y = FrameGoesOn(n, t, e1, AlphaSet(n, f, c, d0))
      /\ ~ Refused(n, c, d, f) /\ IsImagePart(c, f) /\ Available(n, c, d) < c.v.need =>
           y = FrameGivenUp(IF t = "OK" THEN "ERROR" ELSE t, d, f)
      /\ ~ Refused(n, c, d, f) /\ IsImagePart(c, f) /\ ~ Available(n, c, d) < c.v.need =>
           y = FrameGoesOn(n, t, e1, ImageSet(n, f, c, d0, t))
      /\ ~ Refused(n, c, d, f) /\ ~ IsAlphaPart(c, f) /\ ~ IsImagePart(c, f) =>
           y = FrameEnds(n, t, d0, f)
  BY <1>1, StorePartCases DEF d
<1> HIDE DEF s, t, e, e1, x, y
<1>8. CASE s = "NEED_MORE_DATA"
  <2>1. FrameGivenUp(IF s = "OK" THEN "ERROR" ELSE s, d, f).status = "NEED_MORE_DATA"
    BY <1>8 DEF FrameGivenUp, At
  <2>2. /\ \A g : FrameGoesOn(m, s, e, g).status = s
        /\ FrameEnds(m, s, d0, f).status = s
    BY <1>1, <1>8, FramePartIsSame
  <2>3. Refused(m, c, d, f)  BY <1>2, <1>6, <1>8, <2>1, <2>2
  <2> QED BY <1>2, <1>3, <1>6, <1>7, <2>3
<1>9. CASE s = "OK"
  <2>1. CASE Refused(m, c, d, f)  BY <1>2, <1>3, <1>6, <1>7, <2>1
  <2>2. CASE ~ Refused(m, c, d, f) /\ IsAlphaPart(c, f)
    <3>1. AlphaSet(n, f, c, d0) = AlphaSet(m, f, c, d0)  BY <1>4, <1>9 DEF AlphaSet
    <3> QED BY <1>1, <1>2, <1>3, <1>4, <1>6, <1>7, <1>9, <2>2, <3>1, FramePartIsSame
  <2>3. CASE ~ Refused(m, c, d, f) /\ IsImagePart(c, f)
    <3>1. ImageSet(n, f, c, d0, t) = ImageSet(m, f, c, d0, s)  BY <1>4, <1>9 DEF ImageSet
    <3>2. CASE Available(m, c, d) < c.v.need
      BY <1>2, <1>3, <1>4, <1>6, <1>7, <1>9, <2>3, <3>2
    <3>3. CASE ~ Available(m, c, d) < c.v.need
      BY <1>1, <1>2, <1>3, <1>4, <1>6, <1>7, <1>9, <2>3, <3>1, <3>3, FramePartIsSame
    <3> QED BY <3>2, <3>3
  <2>4. CASE ~ Refused(m, c, d, f) /\ ~ IsAlphaPart(c, f) /\ ~ IsImagePart(c, f)
    BY <1>1, <1>2, <1>3, <1>4, <1>6, <1>7, <1>9, <2>4, FramePartIsSame
  <2> QED BY <2>1, <2>2, <2>3, <2>4
<1> QED BY <1>5, <1>8, <1>9

LEMMA StoredIsSame ==
  ASSUME NEW m, NEW n, More(m, n), NEW p, ParserInv(m, p), p.pc = "stored",
         Step(m, p).status # "NEED_MORE_DATA"
  PROVE  Step(n, p) = Step(m, p)
<1> DEFINE d == p.dmux
           f == p.frame
           s == p.status
           x == FrameStored(m, s, d, f)
           e == IF f.for = "image"
                THEN (IF s = "ERROR" THEN d
                      ELSE AddFrame(IF d.is_ext_format \/ Shown(d, f).width = 0 THEN d
                                    ELSE [d EXCEPT !.state = "PARSED_HEADER",
                                            !.width = Shown(d, f).width,
                                            !.flags = @ \cup (IF Shown(d, f).has_alpha
                                                              THEN {"ALPHA"} ELSE {})],
                                    Shown(d, f), 1))
                ELSE (IF s = "ERROR" \/ Overrun(d, f) THEN d
                      ELSE IF IsAnimation(d) /\ f.f.frame_num > 0
                      THEN AddFrame(d, f.f, d.num_frames + 1) ELSE d)
           t == IF f.for # "image" /\ Overrun(d, f) THEN "ERROR" ELSE s
           end == f.for = "image" /\ ~ d.is_ext_format
<1>1. Step(m, p) = x /\ Step(n, p) = FrameStored(n, s, d, f)  BY DEF Step
<1>2. \A b : FrameStored(b, s, d, f) = IF end THEN Stop(s, e, f) ELSE EndOfChunk(b, t, e, f)
  BY DEF FrameStored, ImageStored, AnimationFrameStored, Shown, Unflagged
<1>3. e.start \in Nat
  <2>1. d \in Demuxer  BY DEF ParserInv, ParserState
  <2>2. e.start = d.start  BY <2>1 DEF AddFrame, Demuxer
  <2> QED BY <2>1, <2>2 DEF Demuxer
<1> HIDE DEF d, f, s, x, e, t, end
<1>4. CASE end  BY <1>1, <1>2, <1>4 DEF x
<1>5. CASE ~ end  BY <1>1, <1>2, <1>3, <1>5, EndOfChunkIsSame DEF x
<1> QED BY <1>4, <1>5

\* A step that wants no data is the same when there is more.
LEMMA StepIsSame ==
  ASSUME NEW m, NEW n, More(m, n), NEW p, ParserInv(m, p), Step(m, p).status # "NEED_MORE_DATA"
  PROVE  Step(n, p) = Step(m, p)
<1>1. p.pc \in {"master", "chunks", "store", "stored", "finish"}
  BY DEF ParserInv, ParserState
<1>2. CASE p.pc = "finish"  BY <1>2 DEF Step
<1> QED BY <1>1, <1>2, MasterIsSame, ChunkIsSame, StorePartIsSame, StoredIsSame

-----------------------------------------------------------------------------
(* What a step may change of what the user sees.                             *)

LEMMA SkipLooksSame ==
  ASSUME NEW d \in Demuxer, NEW s \in Nat
  PROVE  SameLook(d, Skip(d, s)) /\ Skip(d, s).chunks = d.chunks
  BY SkipIsDemuxer DEF SameLook

LEMMA OtherChunkLooks ==
  ASSUME NEW m, NEW d \in Demuxer, NEW f, NEW c \in AnyChunk, NEW store \in BOOLEAN,
         NEW x, x = OtherChunk(m, c, d, f, store)
  PROVE  /\ SameLook(d, x.dmux)
         /\ x.pc \in {"chunks", "finish"}
         /\ x.dmux.chunks =
              StoredChunks(m, c, d, store)
<1> DEFINE s == Skip(d, Padded(c.size))
           e == [s EXCEPT !.chunks = IF store THEN Append(d.chunks, ChunkPart(c, d)) ELSE @]
<1>1. Padded(c.size) \in Nat  BY ChunkHasSize, PaddedIsNat
<1>2. s \in Demuxer /\ SameLook(d, s) /\ s.chunks = d.chunks
  BY <1>1, SkipIsDemuxer, SkipLooksSame
<1>3. /\ x.pc \in {"chunks", "finish"}
      /\ x.dmux = IF Padded(c.size) > MemDataSize(m, d) THEN d ELSE e
  BY DEF OtherChunk, ChunkPart, EndOfChunk, At
<1> HIDE DEF s
<1>4. SameLook(d, e) /\ e.chunks = IF store THEN Append(d.chunks, ChunkPart(c, d)) ELSE d.chunks
  BY <1>2 DEF Demuxer, SameLook
<1> HIDE DEF e
<1>5. SameLook(d, d)  BY DEF SameLook
<1> QED BY <1>3, <1>4, <1>5 DEF StoredChunks

LEMMA AnimChunkLooks ==
  ASSUME NEW m, NEW d \in Demuxer, NEW f, NEW c \in AnyChunk,
         NEW x, x = AnimChunk(m, c, d, f)
  PROVE  SameLook(d, x.dmux) /\ x.pc \in {"chunks", "finish"} /\ x.dmux.chunks = d.chunks
<1> DEFINE s == Skip(d, Padded(c.size))
           e == [s EXCEPT !.anim_chunks = 1]
           no == FALSE
<1>1. Padded(c.size) \in Nat  BY ChunkHasSize, PaddedIsNat
<1>2. s \in Demuxer /\ SameLook(d, s) /\ s.chunks = d.chunks
  BY <1>1, SkipIsDemuxer, SkipLooksSame
<1>3. \/ x.pc = "finish" /\ x.dmux = d
      \/ x = OtherChunk(m, c, d, f, no)
      \/ x.pc \in {"chunks", "finish"} /\ x.dmux \in {d, e}
  BY DEF AnimChunk, EndOfChunk, Stop, At
<1>4. no \in BOOLEAN /\ no # TRUE  OBVIOUS
<1> HIDE DEF s, no
<1>5. SameLook(d, e) /\ e.chunks = d.chunks /\ SameLook(d, d)
  BY <1>2 DEF Demuxer, SameLook
<1> HIDE DEF e
<1>6. CASE x = OtherChunk(m, c, d, f, no)
  <2>1. /\ SameLook(d, x.dmux) /\ x.pc \in {"chunks", "finish"}
        /\ x.dmux.chunks = StoredChunks(m, c, d, no)
    BY <1>4, <1>6, OtherChunkLooks
  <2> QED BY <1>4, <2>1 DEF StoredChunks
<1> QED BY <1>3, <1>5, <1>6

LEMMA AnimationFrameLooks ==
  ASSUME NEW m, Buffer(m), NEW d \in Demuxer, NEW f, NEW c \in AnyChunk,
         NEW x, x = AnimationFrame(m, c, d, f)
  PROVE  /\ SameLook(d, x.dmux) /\ x.dmux.chunks = d.chunks
         /\ x.pc \in {"store", "stored"} =>
              /\ x.frame.for = "animation" /\ IsFresh(x.frame)
              /\ x.dmux.start = x.frame.from /\ x.frame.payload >= 0
         /\ x.pc = "store" => x.frame.payload <= MemDataSize(m, x.dmux)
         /\ x.pc \in {"chunks", "finish", "store", "stored"}
<1> DEFINE e == Skip(d, ANMF_CHUNK_SIZE)
           r == ReadOf(c, d)
<1>1. e \in Demuxer /\ SameLook(d, e) /\ e.chunks = d.chunks /\ e.start = d.start + ANMF_CHUNK_SIZE
  BY SizesAreNat, SkipIsDemuxer, SkipLooksSame
<1>2. Padded(c.size) \in Nat  BY ChunkHasSize, PaddedIsNat
<1>3. /\ r.for = "animation" /\ r.from = d.start + ANMF_CHUNK_SIZE
      /\ r.payload = Padded(c.size) - ANMF_CHUNK_SIZE
      /\ IsFresh(r)
  BY DEF ReadOf, NewFrame, IsFresh
<1>4. \/ x.pc \in {"chunks", "finish"} /\ x.dmux = d
      \/ x = StartFrame(m, e, r) /\ ~ Padded(c.size) < ANMF_CHUNK_SIZE
  BY DEF AnimationFrame, ReadOf, EndOfChunk, Stop, At
<1> HIDE DEF e, r
<1>5. SameLook(d, d)  BY DEF SameLook
<1>6. CASE x = StartFrame(m, e, r) /\ ~ Padded(c.size) < ANMF_CHUNK_SIZE
  <2>1. /\ x.dmux = e /\ x.frame = r /\ x.pc \in {"store", "stored"}
        /\ x.pc = "store" => ~ MemDataSize(m, e) < r.payload
    BY <1>6 DEF StartFrame, At
  <2>2. r.payload \in Int /\ r.payload >= 0  BY <1>2, <1>3, <1>6, SizesAreNat
  <2>3. x.pc = "store" => r.payload <= MemDataSize(m, e)
    <3>1. MemDataSize(m, e) \in Int  BY <1>1 DEF MemDataSize, Buffer, Demuxer
    <3> QED BY <2>1, <2>2, <3>1
  <2> QED BY <1>1, <1>3, <2>1, <2>2, <2>3
<1> QED BY <1>4, <1>5, <1>6

\* A step among the chunks of a file.
LEMMA ChunkLooks ==
  ASSUME NEW m, Buffer(m), NEW p, ParserInv(m, p), p.pc = "chunks",
         NEW x, x = Step(m, p), x.status # "ERROR",
         NEW c, c = ChunkAt(m, p.dmux.start), NEW d, d = Skip(p.dmux, CHUNK_HEADER_SIZE)
  PROVE  /\ SameLook(p.dmux, x.dmux)
         /\ x.dmux.chunks =
              IF IsKept(c, d) /\ ~ Padded(c.size) > MemDataSize(m, d)
              THEN Append(p.dmux.chunks, ChunkPart(c, d))
              ELSE p.dmux.chunks
         /\ IsOfImage(c) =>
              /\ x.pc = "store" /\ x.frame = FreshImage(p.dmux) /\ x.dmux = p.dmux
              /\ p.dmux.frames = << >> /\ ~ IsAnimation(p.dmux)
         /\ ~ IsOfImage(c) /\ x.pc \in {"store", "stored"} =>
              /\ x.frame.for = "animation" /\ IsFresh(x.frame)
              /\ x.dmux.start = x.frame.from /\ x.frame.payload >= 0
         /\ ~ IsOfImage(c) /\ x.pc = "store" => x.frame.payload <= MemDataSize(m, x.dmux)
<1> DEFINE d0 == p.dmux
           f == p.frame
           store == c.tag \in Metadata => c.tag \in d.flags
           bad == SizeIsInvalid(m, d, Padded(c.size)) \/ c.tag = "VP8X"
           new == Append(d0.chunks, ChunkPart(c, d))
<1>1. /\ d0 \in Demuxer /\ Boundary(m, d0.start) /\ d0.start + CHUNK_HEADER_SIZE <= m.end
  BY DEF ParserInv, ParserState
<1>2. c \in AnyChunk  BY <1>1, ChunkHere
<1>3. x = ParseChunk(m, d0, f)  BY DEF Step
<1>4. /\ d \in Demuxer /\ SameLook(d0, d) /\ d.chunks = d0.chunks
      /\ d.start = d0.start + CHUNK_HEADER_SIZE
  BY <1>1, SizesAreNat, SkipIsDemuxer, SkipLooksSame
<1> HIDE DEF d0, f
<1>5. \A y : SameLook(d, y) => SameLook(d0, y)  BY <1>4 DEF SameLook
<1>6. CASE bad
  <2>1. x.status = "ERROR"  BY <1>3, <1>6 DEF ParseChunk, Stop, At, d0
  <2> QED BY <2>1
<1>7. CASE ~ bad /\ IsOfImage(c)
  <2>1. CASE d.anim_chunks > 0 \/ IsAnimation(d)
    <3>1. x.status = "ERROR"
      BY <1>3, <1>7, <2>1 DEF ParseChunk, ImageTags, IsOfImage, Stop, At, d0
    <3> QED BY <3>1
  <2>2. CASE ~ (d.anim_chunks > 0 \/ IsAnimation(d))
    <3>1. x = SingleImage(m, d0, f)
      BY <1>3, <1>7, <2>2 DEF ParseChunk, ImageTags, IsOfImage, d0
    <3>2. d0.frames = << >> /\ x = StartFrame(m, d0, FreshImage(d0))
      BY <3>1 DEF SingleImage, FreshImage, Stop, At
    <3>3. ~ MemDataSize(m, d0) < CHUNK_HEADER_SIZE /\ ~ MemDataSize(m, d0) < 0
      BY <1>1, SizesAreNat DEF MemDataSize, Buffer, Demuxer
    <3>4. x = At("store", "OK", d0, FreshImage(d0))
      BY <3>2, <3>3 DEF StartFrame, FreshImage
    <3>5. ~ IsKept(c, d) /\ ~ IsAnimation(d0) /\ SameLook(d0, d0)
      BY <1>4, <1>7, <2>2 DEF IsKept, IsOfImage, SameLook, IsAnimation
    <3>6. x.pc = "store" /\ x.frame = FreshImage(d0) /\ x.dmux = d0  BY <3>4 DEF At
    <3> HIDE DEF new
    <3>7. x.dmux.chunks = IF IsKept(c, d) /\ ~ Padded(c.size) > MemDataSize(m, d)
                          THEN new ELSE d0.chunks
      BY <3>5, <3>6
    <3> QED BY <1>7, <3>2, <3>5, <3>6, <3>7 DEF new, d0
  <2> QED BY <2>1, <2>2
<1>8. CASE ~ bad /\ c.tag = "ANMF"
  <2>1. x = AnimationFrame(m, c, d, f)  BY <1>3, <1>8 DEF ParseChunk, ImageTags, d0
  <2>2. ~ IsKept(c, d) /\ ~ IsOfImage(c)  BY <1>8 DEF IsKept, IsOfImage, ImageTags
  <2>3. /\ SameLook(d, x.dmux) /\ x.dmux.chunks = d.chunks
        /\ x.pc \in {"store", "stored"} =>
             /\ x.frame.for = "animation" /\ IsFresh(x.frame)
             /\ x.dmux.start = x.frame.from /\ x.frame.payload >= 0
        /\ x.pc = "store" => x.frame.payload <= MemDataSize(m, x.dmux)
    BY <1>2, <1>4, <2>1, AnimationFrameLooks
  <2> HIDE DEF new
  <2>4. x.dmux.chunks = IF IsKept(c, d) /\ ~ Padded(c.size) > MemDataSize(m, d)
                        THEN new ELSE d0.chunks
    BY <1>4, <2>2, <2>3
  <2> QED BY <1>5, <2>2, <2>3, <2>4 DEF new, d0
<1>9. CASE ~ bad /\ c.tag = "ANIM"
  <2>1. x = AnimChunk(m, c, d, f)  BY <1>3, <1>9 DEF ParseChunk, ImageTags, d0
  <2>2. ~ IsKept(c, d) /\ ~ IsOfImage(c)  BY <1>9 DEF IsKept, IsOfImage, ImageTags
  <2>3. SameLook(d, x.dmux) /\ x.dmux.chunks = d.chunks /\ x.pc \in {"chunks", "finish"}
    BY <1>2, <1>4, <2>1, AnimChunkLooks
  <2> HIDE DEF new
  <2>4. x.dmux.chunks = IF IsKept(c, d) /\ ~ Padded(c.size) > MemDataSize(m, d)
                        THEN new ELSE d0.chunks
    BY <1>4, <2>2, <2>3
  <2> QED BY <1>5, <2>2, <2>3, <2>4 DEF new, d0
<1>10. CASE ~ bad /\ ~ IsOfImage(c) /\ c.tag \notin {"ANMF", "ANIM"}
  <2>1. x = OtherChunk(m, c, d, f, store)  BY <1>3, <1>10 DEF ParseChunk, IsOfImage, d0
  <2>2. store \in BOOLEAN /\ (IsKept(c, d) <=> store = TRUE)
    BY <1>10 DEF IsKept, IsOfImage
  <2> HIDE DEF store
  <2>3. /\ SameLook(d, x.dmux) /\ x.pc \in {"chunks", "finish"}
        /\ x.dmux.chunks = StoredChunks(m, c, d, store)
    BY <1>2, <1>4, <2>1, <2>2, OtherChunkLooks
  <2>4. new = Append(d.chunks, ChunkPart(c, d))  BY <1>4
  <2> HIDE DEF new
  <2>5. x.dmux.chunks = IF IsKept(c, d) /\ ~ Padded(c.size) > MemDataSize(m, d)
                        THEN new ELSE d0.chunks
    BY <1>4, <2>2, <2>3, <2>4 DEF StoredChunks
  <2> QED BY <1>5, <1>10, <2>3, <2>5 DEF new, d0
<1> QED BY <1>6, <1>7, <1>8, <1>9, <1>10 DEF IsOfImage

LEMMA AlphaSetLooks ==
  ASSUME NEW m, NEW r \in FrameRead, NEW c, NEW d0, NEW q, q = AlphaSet(m, r, c, d0)
  PROVE  /\ SameFrame(r, q)
         /\ q.f.image = r.f.image /\ q.f.complete = r.f.complete /\ q.f.width = r.f.width
         /\ q.f.x = r.f.x /\ q.f.alpha = PartOf(m, c, d0) /\ q.f.frame_num = r.num
<1> DEFINE part == PartOf(m, c, d0)
           g == [r.f EXCEPT !.alpha = part, !.has_alpha = TRUE, !.frame_num = r.num]
<1> HIDE DEF part
<1>1. r.f \in Frame  BY DEF FrameRead
<1>2. q = [r EXCEPT !.f = g]  BY <1>1 DEF AlphaSet, SetAlpha, FrameRead, Frame, part
<1>3. /\ g.alpha = part /\ g.image = r.f.image /\ g.frame_num = r.num /\ g.has_alpha = TRUE
      /\ g.complete = r.f.complete /\ g.x = r.f.x /\ g.width = r.f.width
  BY <1>1 DEF Frame
<1> HIDE DEF g
<1>4. q.f = g /\ SameFrame(r, q)  BY <1>2 DEF FrameRead, SameFrame
<1> QED BY <1>3, <1>4 DEF part

LEMMA ImageSetLooks ==
  ASSUME NEW m, NEW r \in FrameRead, NEW c, NEW d0, NEW s, NEW q, q = ImageSet(m, r, c, d0, s)
  PROVE  /\ SameFrame(r, q)
         /\ q.f.alpha = r.f.alpha /\ q.f.width = c.v.width /\ q.f.x = r.f.x
         /\ q.f.image = PartOf(m, c, d0) /\ q.f.frame_num = r.num
         /\ q.f.complete = (s = "OK") /\ q.f.has_alpha = (r.f.has_alpha \/ c.v.has_alpha)
<1> DEFINE part == PartOf(m, c, d0)
           g == [r.f EXCEPT !.image = part, !.width = c.v.width,
                            !.has_alpha = @ \/ c.v.has_alpha, !.frame_num = r.num,
                            !.complete = (s = "OK")]
<1> HIDE DEF part
<1>1. r.f \in Frame  BY DEF FrameRead
<1>2. q = [r EXCEPT !.f = g]  BY <1>1 DEF ImageSet, SetFrameInfo, FrameRead, Frame, part
<1>3. /\ g.image = part /\ g.alpha = r.f.alpha /\ g.frame_num = r.num
      /\ g.complete = (s = "OK") /\ g.x = r.f.x /\ g.width = c.v.width
      /\ g.has_alpha = (r.f.has_alpha \/ c.v.has_alpha)
  BY <1>1 DEF Frame
<1> HIDE DEF g
<1>4. q.f = g /\ SameFrame(r, q)  BY <1>2 DEF FrameRead, SameFrame
<1> QED BY <1>3, <1>4 DEF part

\* The end of a turn of StoreFrame.
LEMMA FramePartLooks ==
  ASSUME NEW m, NEW s, NEW d, NEW q
  PROVE  /\ FrameGoesOn(m, s, d, q).dmux = d /\ FrameGoesOn(m, s, d, q).frame = q
         /\ FrameGoesOn(m, s, d, q).pc \in {"store", "stored"}
         /\ FrameGoesOn(m, s, d, q).status = "OK" => s = "OK"
         /\ FrameEnds(m, s, d, q).dmux = d /\ FrameEnds(m, s, d, q).frame = q
         /\ FrameEnds(m, s, d, q).pc = "stored"
         /\ FrameGivenUp(s, d, q).dmux = d /\ FrameGivenUp(s, d, q).frame = q
         /\ FrameGivenUp(s, d, q).pc = "stored" /\ FrameGivenUp(s, d, q).status = s
  BY DEF FrameGoesOn, FrameEnds, FrameGivenUp, EndOfFramePart, At

\* What StoreFrame makes of the next chunk: it refuses the frame, adds a part to it or
\* has nothing more to add.
LEMMA PartLooks ==
  ASSUME NEW m, Buffer(m), NEW p, ParserInv(m, p), p.pc = "store", NEW x, x = Step(m, p),
         NEW c, c = ChunkAt(m, p.dmux.start), NEW d, d = Skip(p.dmux, CHUNK_HEADER_SIZE)
  PROVE  /\ x.pc \in {"store", "stored"} /\ SameFrame(p.frame, x.frame)
         /\ SameLook(p.dmux, x.dmux) /\ x.dmux.chunks = p.dmux.chunks
         /\ \/ /\ x.pc = "stored" /\ x.status # "OK" /\ x.frame = p.frame
               /\ x.dmux.start = p.dmux.start + CHUNK_HEADER_SIZE
               /\ \/ x.status = "ERROR"
                  \/ /\ x.status = "NEED_MORE_DATA" /\ IsThere(m, c, d) # "OK"
                     /\ IsImagePart(c, p.frame) /\ Available(m, c, d) < c.v.need
            \/ /\ IsAlphaPart(c, p.frame) /\ ~ Refused(m, c, d, p.frame)
               /\ x.frame = AlphaSet(m, p.frame, c, p.dmux)
               /\ x.dmux.start = p.dmux.start + CHUNK_HEADER_SIZE + Available(m, c, d)
               /\ x.status = "OK" => IsThere(m, c, d) = "OK"
            \/ /\ IsImagePart(c, p.frame) /\ ~ Refused(m, c, d, p.frame)
               /\ ~ Available(m, c, d) < c.v.need
               /\ x.frame = ImageSet(m, p.frame, c, p.dmux, IsThere(m, c, d))
               /\ x.dmux.start = p.dmux.start + CHUNK_HEADER_SIZE + Available(m, c, d)
               /\ x.status = "OK" => IsThere(m, c, d) = "OK"
            \/ /\ ~ IsAlphaPart(c, p.frame) /\ ~ IsImagePart(c, p.frame)
               /\ x.pc = "stored" /\ x.frame = p.frame /\ x.dmux = p.dmux
<1> DEFINE d0 == p.dmux
           r == p.frame
           s == IsThere(m, c, d)
           e == Skip(d, Available(m, c, d))
<1>1. /\ d0 \in Demuxer /\ d \in Demuxer /\ r \in FrameRead /\ Available(m, c, d) \in Nat
      /\ d.start = d0.start + CHUNK_HEADER_SIZE /\ e.start = d.start + Available(m, c, d)
  BY PartHere DEF ParserInv, ParserState
<1>2. SameLook(d0, d) /\ d.chunks = d0.chunks /\ SameLook(d, e) /\ e.chunks = d.chunks
  BY <1>1, SizesAreNat, SkipLooksSame
<1>3. SameLook(d0, e) /\ SameLook(d0, d0)  BY <1>2 DEF SameLook
<1>4. SameFrame(r, r) /\ SameFrame(r, AlphaSet(m, r, c, d0)) /\ SameFrame(r, ImageSet(m, r, c, d0, s))
  <2> HIDE DEF r, d0, s
  <2>1. SameFrame(r, AlphaSet(m, r, c, d0))  BY <1>1, AlphaSetLooks
  <2>2. SameFrame(r, ImageSet(m, r, c, d0, s))  BY <1>1, ImageSetLooks
  <2> QED BY <2>1, <2>2 DEF SameFrame
<1>5. x = StorePart(m, d0, r)  BY DEF Step
<1>6. s \in {"OK", "NEED_MORE_DATA"}  BY DEF IsThere
<1> HIDE DEF d0, r
<1>7. c = ChunkAt(m, d0.start) /\ d = Skip(d0, CHUNK_HEADER_SIZE)  BY DEF d0
<1>8. /\ Refused(m, c, d, r) => x = FrameGivenUp("ERROR", d, r)
      /\ ~ Refused(m, c, d, r) /\ IsAlphaPart(c, r) =>
           x = FrameGoesOn(m, s, e, AlphaSet(m, r, c, d0))
      /\ ~ Refused(m, c, d, r) /\ IsImagePart(c, r) /\ Available(m, c, d) < c.v.need =>
           x = FrameGivenUp(IF s = "OK" THEN "ERROR" ELSE s, d, r)
      /\ ~ Refused(m, c, d, r) /\ IsImagePart(c, r) /\ ~ Available(m, c, d) < c.v.need =>
           x = FrameGoesOn(m, s, e, ImageSet(m, r, c, d0, s))
      /\ ~ Refused(m, c, d, r) /\ ~ IsAlphaPart(c, r) /\ ~ IsImagePart(c, r) =>
           x = FrameEnds(m, s, d0, r)
  BY <1>5, <1>7, StorePartCases
<1> DEFINE Looks ==
         /\ x.pc \in {"store", "stored"} /\ SameFrame(r, x.frame)
         /\ SameLook(d0, x.dmux) /\ x.dmux.chunks = d0.chunks
<1>9. CASE Refused(m, c, d, r)
  <2>1. x.dmux = d /\ x.frame = r /\ x.pc = "stored" /\ x.status = "ERROR"
    BY <1>8, <1>9 DEF FrameGivenUp, At
  <2> QED BY <1>1, <1>2, <1>4, <2>1 DEF d0, r
<1>10. CASE ~ Refused(m, c, d, r) /\ IsAlphaPart(c, r)
  <2>1. /\ x.dmux = e /\ x.frame = AlphaSet(m, r, c, d0) /\ x.pc \in {"store", "stored"}
        /\ x.status = "OK" => s = "OK"
    BY <1>8, <1>10, FramePartLooks
  <2>2. x.dmux.start = d0.start + CHUNK_HEADER_SIZE + Available(m, c, d)  BY <1>1, <2>1
  <2> HIDE DEF e
  <2>3. Looks  BY <1>2, <1>3, <1>4, <2>1
  <2> QED BY <1>10, <2>1, <2>2, <2>3 DEF d0, r, s
<1>11. CASE ~ Refused(m, c, d, r) /\ IsImagePart(c, r) /\ Available(m, c, d) < c.v.need
  <2> DEFINE t == IF s = "OK" THEN "ERROR" ELSE s
  <2>1. x.dmux = d /\ x.frame = r /\ x.pc = "stored" /\ x.status = t
    BY <1>8, <1>11 DEF FrameGivenUp, At
  <2>2. t = "ERROR" \/ (t = "NEED_MORE_DATA" /\ s # "OK")  BY <1>6
  <2> QED BY <1>1, <1>2, <1>4, <1>11, <2>1, <2>2 DEF d0, r, s
<1>12. CASE ~ Refused(m, c, d, r) /\ IsImagePart(c, r) /\ ~ Available(m, c, d) < c.v.need
  <2>1. /\ x.dmux = e /\ x.frame = ImageSet(m, r, c, d0, s) /\ x.pc \in {"store", "stored"}
        /\ x.status = "OK" => s = "OK"
    BY <1>8, <1>12, FramePartLooks
  <2>2. x.dmux.start = d0.start + CHUNK_HEADER_SIZE + Available(m, c, d)  BY <1>1, <2>1
  <2> HIDE DEF e
  <2>3. Looks  BY <1>2, <1>3, <1>4, <2>1
  <2> QED BY <1>12, <2>1, <2>2, <2>3 DEF d0, r, s
<1>13. CASE ~ Refused(m, c, d, r) /\ ~ IsAlphaPart(c, r) /\ ~ IsImagePart(c, r)
  <2>1. x.dmux = d0 /\ x.frame = r /\ x.pc = "stored"  BY <1>8, <1>13, FramePartLooks
  <2> QED BY <1>3, <1>4, <1>13, <2>1 DEF d0, r
<1> QED BY <1>9, <1>10, <1>11, <1>12, <1>13

-----------------------------------------------------------------------------
(* What the user would see if the parser stopped here.                       *)

LEMMA StoredLooks ==
  ASSUME NEW m, Buffer(m), NEW p, ParserInv(m, p), p.pc = "stored", p.status # "ERROR",
         Settled(p), NEW x, x = Step(m, p)
  PROVE  /\ x.dmux = View(p) /\ x.pc \in {"chunks", "finish"} /\ x.status # "ERROR"
         /\ p.status = "NEED_MORE_DATA" => x.pc = "finish" /\ x.status = "NEED_MORE_DATA"
         /\ x.status = "OK" \/ x.status = "NEED_MORE_DATA"
<1> DEFINE d == p.dmux
           r == p.frame
           s == p.status
<1>1. /\ x = FrameStored(m, s, d, r) /\ s \in {"OK", "NEED_MORE_DATA"}
      /\ Reading(m, s, d, r)
  BY DEF Step, ParserInv, ParserState, Statuses
<1>2. \A t, e : t \in {"OK", "NEED_MORE_DATA"} =>
        LET y == EndOfChunk(m, t, e, r)
        IN  /\ y.dmux = e /\ y.pc \in {"chunks", "finish"}
            /\ y.status \in {"OK", "NEED_MORE_DATA"}
            /\ t = "NEED_MORE_DATA" => y.pc = "finish" /\ y.status = "NEED_MORE_DATA"
  BY DEF EndOfChunk, At
<1>3. \A e : Stop(s, e, r).dmux = e /\ Stop(s, e, r).pc = "finish" /\ Stop(s, e, r).status = s
  BY DEF Stop, At
<1>4. CASE r.for = "image"
  <2>1. x = IF d.is_ext_format THEN EndOfChunk(m, s, WithImage(d, r), r)
            ELSE Stop(s, WithImage(d, r), r)
    BY <1>1, <1>4 DEF FrameStored, ImageStored, WithImage, Shown, Unflagged
  <2>2. View(p) = WithImage(d, r)  BY <1>4 DEF View
  <2> HIDE DEF d, r, s
  <2> QED BY <1>1, <1>2, <1>3, <2>1, <2>2 DEF s
<1>5. CASE r.for # "image"
  <2>1. r.for = "animation" /\ r.num >= 1
    <3>1. Len(d.frames) \in Nat  BY DEF ParserInv, ParserState, Demuxer
    <3> QED BY <1>1, <1>5, <3>1 DEF Reading, ReadFor
  <2>2. r.f.complete => r.f.frame_num > 0  BY <1>1, <2>1 DEF Reading
  <2>3. /\ ~ Overrun(d, r) /\ (IsAnimation(d) /\ r.f.frame_num > 0 => r.f.complete)
    BY <2>1 DEF Settled
  <2>4. x = EndOfChunk(m, s, WithFrame(d, r), r)
    BY <1>1, <1>5, <2>2, <2>3 DEF FrameStored, AnimationFrameStored, WithFrame
  <2>5. View(p) = WithFrame(d, r)  BY <1>5 DEF View
  <2> HIDE DEF d, r, s
  <2> QED BY <1>1, <1>2, <2>4, <2>5 DEF s
<1> QED BY <1>4, <1>5

LEMMA GrowsFromItself ==
  ASSUME NEW d, d.chunks \in Seq(Part), d.frames \in Seq(Frame) PROVE Grows(d, d)
  BY DEF Grows

LEMMA GrowsFurther ==
  ASSUME NEW a, NEW b, NEW c, Grows(a, b), Grows(b, c),
         a.chunks \in Seq(Part), b.chunks \in Seq(Part), c.chunks \in Seq(Part),
         a.frames \in Seq(Frame), b.frames \in Seq(Frame), c.frames \in Seq(Frame)
  PROVE  Grows(a, c)
<1> SUFFICES ASSUME Usable(a) PROVE Grows(a, c)
  BY DEF Grows
<1>1. /\ Usable(c) /\ c.width = a.width /\ c.flags = a.flags
      /\ c.is_ext_format = a.is_ext_format /\ Usable(b)
  BY DEF Grows
<1>2. /\ Len(a.chunks) \in Nat /\ Len(b.chunks) \in Nat /\ Len(c.chunks) \in Nat
      /\ Len(a.frames) \in Nat /\ Len(b.frames) \in Nat /\ Len(c.frames) \in Nat
  OBVIOUS
<1>3. /\ Len(a.chunks) <= Len(b.chunks) /\ Len(b.chunks) <= Len(c.chunks)
      /\ Len(a.frames) <= Len(b.frames) /\ Len(b.frames) <= Len(c.frames)
  BY <1>1 DEF Grows
<1>4. ASSUME NEW i \in 1 .. Len(a.chunks) PROVE c.chunks[i] = a.chunks[i]
  <2>1. i \in 1 .. Len(b.chunks)  BY <1>2, <1>3
  <2> QED BY <1>1, <1>4, <2>1 DEF Grows
<1>5. ASSUME NEW i \in 1 .. Len(a.frames)
      PROVE  /\ a.frames[i].complete => c.frames[i] = a.frames[i]
             /\ a.frames[i].width > 0 => /\ c.frames[i].width = a.frames[i].width
                                         /\ c.frames[i].x = a.frames[i].x
  <2>1. i \in 1 .. Len(b.frames)  BY <1>2, <1>3
  <2> QED BY <1>1, <1>5, <2>1 DEF Grows
<1> QED BY <1>1, <1>2, <1>3, <1>4, <1>5 DEF Grows

LEMMA WithFrameGrows ==
  ASSUME NEW d \in Demuxer, NEW e \in Demuxer, SameLook(d, e), e.chunks = d.chunks,
         NEW r \in FrameRead, NEW q \in FrameRead, FrameLater(r.f, q.f)
  PROVE  Grows(WithFrame(d, r), WithFrame(e, q))
<1>1. /\ d.frames \in Seq(Frame) /\ d.num_frames \in Nat /\ d.chunks \in Seq(Part)
      /\ r.f \in Frame /\ q.f \in Frame
  BY DEF Demuxer, FrameRead
<1>2. /\ e.state = d.state /\ e.is_ext_format = d.is_ext_format /\ e.width = d.width
      /\ e.flags = d.flags /\ e.frames = d.frames /\ e.num_frames = d.num_frames
      /\ IsAnimation(e) = IsAnimation(d)
  BY DEF SameLook, IsAnimation
<1>3. ASSUME NEW c \in {d, e}, NEW f \in Frame, NEW g, g = AddFrame(c, f, c.num_frames + 1)
      PROVE  /\ g.frames = Append(d.frames, f) /\ g.state = d.state /\ g.width = d.width
             /\ g.flags = d.flags /\ g.is_ext_format = d.is_ext_format /\ g.chunks = d.chunks
  <2>1. c \in Demuxer /\ c.num_frames + 1 \in Nat  BY <1>1, <1>2, <1>3
  <2>2. g.chunks = c.chunks  BY <1>3, <2>1 DEF AddFrame, Demuxer
  <2>3. /\ g.frames = Append(c.frames, f) /\ g.state = c.state /\ g.width = c.width
        /\ g.flags = c.flags /\ g.is_ext_format = c.is_ext_format
    BY <1>3, <2>1, FrameIsAdded
  <2> QED BY <1>2, <1>3, <2>2, <2>3
<1>4. CASE IsAnimation(d) /\ r.f.complete
  <2>1. q.f = r.f  BY <1>4 DEF FrameLater
  <2> DEFINE a == AddFrame(d, r.f, d.num_frames + 1)
             b == AddFrame(e, r.f, e.num_frames + 1)
  <2>2. WithFrame(d, r) = a /\ WithFrame(e, q) = b  BY <1>2, <1>4, <2>1 DEF WithFrame
  <2> HIDE DEF a, b
  <2>3. /\ a.frames = Append(d.frames, r.f) /\ a.state = d.state /\ a.width = d.width
        /\ a.flags = d.flags /\ a.is_ext_format = d.is_ext_format /\ a.chunks = d.chunks
        /\ b.frames = Append(d.frames, r.f) /\ b.state = d.state /\ b.width = d.width
        /\ b.flags = d.flags /\ b.is_ext_format = d.is_ext_format /\ b.chunks = d.chunks
    BY <1>1, <1>3 DEF a, b
  <2>4. Len(a.frames) \in Nat /\ Len(a.chunks) \in Nat  BY <1>1, <2>3
  <2> QED BY <2>2, <2>3, <2>4 DEF Grows, Usable
<1>5. CASE ~ (IsAnimation(d) /\ r.f.complete)
  <2>1. WithFrame(d, r) = d  BY <1>5 DEF WithFrame
  <2> DEFINE b == WithFrame(e, q)
             g == AddFrame(e, q.f, e.num_frames + 1)
  <2>2. b = e \/ b = g  BY DEF WithFrame
  <2> HIDE DEF b, g
  <2>3. /\ b.state = d.state /\ b.width = d.width /\ b.flags = d.flags
        /\ b.is_ext_format = d.is_ext_format /\ b.chunks = d.chunks
        /\ b.frames = d.frames \/ b.frames = Append(d.frames, q.f)
    BY <1>1, <1>2, <1>3, <2>2 DEF g
  <2>4. Len(d.frames) <= Len(b.frames) /\ \A i \in 1 .. Len(d.frames) : b.frames[i] = d.frames[i]
    BY <1>1, <2>3
  <2> QED BY <1>1, <2>1, <2>3, <2>4 DEF Grows, Usable, b
<1> QED BY <1>4, <1>5

LEMMA WithImageLooks ==
  ASSUME NEW d \in Demuxer, NEW r \in FrameRead, d.frames = << >>, NEW g, g = WithImage(d, r)
  PROVE  LET f == Shown(d, r)
         IN  /\ f \in Frame /\ f.image = r.f.image /\ f.x = r.f.x /\ f.width = r.f.width
             /\ f.alpha = (IF Unflagged(d, r) THEN NoData ELSE r.f.alpha)
             /\ f.frame_num = r.f.frame_num /\ f.complete = r.f.complete
             /\ g \in Demuxer /\ g.frames = << f >> /\ g.chunks = d.chunks
             /\ g.is_ext_format = d.is_ext_format
             /\ d.is_ext_format \/ f.width = 0 =>
                  g.state = d.state /\ g.width = d.width /\ g.flags = d.flags
             /\ ~ d.is_ext_format /\ f.width # 0 =>
                  /\ g.state = "PARSED_HEADER" /\ g.width = f.width
                  /\ g.flags = d.flags \cup (IF f.has_alpha THEN {"ALPHA"} ELSE {})
<1> DEFINE f == Shown(d, r)
           e == IF d.is_ext_format \/ f.width = 0 THEN d
                ELSE [d EXCEPT !.state = "PARSED_HEADER", !.width = f.width,
                               !.flags = @ \cup (IF f.has_alpha THEN {"ALPHA"} ELSE {})]
<1>1. /\ f \in Frame /\ f.image = r.f.image /\ f.x = r.f.x /\ f.width = r.f.width
      /\ f.alpha = (IF Unflagged(d, r) THEN NoData ELSE r.f.alpha)
      /\ f.frame_num = r.f.frame_num /\ f.complete = r.f.complete
  <2>1. r.f \in Frame  BY DEF FrameRead
  <2> QED BY <2>1 DEF Shown, Frame, NoData, Part
<1>2. g = AddFrame(e, f, 1)  BY DEF WithImage
<1> HIDE DEF f
<1>3. /\ e \in Demuxer /\ e.frames = << >> /\ e.chunks = d.chunks
      /\ e.is_ext_format = d.is_ext_format
      /\ d.is_ext_format \/ f.width = 0 =>
           e.state = d.state /\ e.width = d.width /\ e.flags = d.flags
      /\ ~ d.is_ext_format /\ f.width # 0 =>
           /\ e.state = "PARSED_HEADER" /\ e.width = f.width
           /\ e.flags = d.flags \cup (IF f.has_alpha THEN {"ALPHA"} ELSE {})
  <2>1. CASE d.is_ext_format \/ f.width = 0  BY <2>1
  <2>2. CASE ~ (d.is_ext_format \/ f.width = 0)
    <3> DEFINE flags == d.flags \cup (IF f.has_alpha THEN {"ALPHA"} ELSE {})
               width == f.width
    <3>1. flags \in SUBSET Flags /\ width \in Int  BY <1>1 DEF Demuxer, Flags, Frame
    <3>2. e = [d EXCEPT !.state = "PARSED_HEADER", !.width = width, !.flags = flags]
      BY <2>2
    <3> HIDE DEF flags, width, e
    <3>3. /\ e \in Demuxer /\ e.frames = << >> /\ e.chunks = d.chunks
          /\ e.is_ext_format = d.is_ext_format /\ e.state = "PARSED_HEADER"
          /\ e.width = width /\ e.flags = flags
      BY <3>1, <3>2 DEF Demuxer, States
    <3> QED BY <2>2, <3>3 DEF flags, width
  <2> QED BY <2>1, <2>2
<1> HIDE DEF e
<1>4. /\ g \in Demuxer /\ g.frames = << f >> /\ g.state = e.state /\ g.width = e.width
      /\ g.flags = e.flags /\ g.is_ext_format = e.is_ext_format
  <2>1. Append(e.frames, f) = << f >>  BY <1>3
  <2> QED BY <1>1, <1>2, <1>3, <2>1, FrameIsAdded
<1>5. g.chunks = e.chunks  BY <1>2, <1>3 DEF AddFrame, Demuxer
<1> QED BY <1>1, <1>3, <1>4, <1>5 DEF f

LEMMA WithImageGrows ==
  ASSUME NEW d \in Demuxer, NEW e \in Demuxer, SameLook(d, e), e.chunks = d.chunks,
         d.frames = << >>, Extended(d) \/ Simple(d),
         NEW r \in FrameRead, NEW q \in FrameRead, FrameLater(r.f, q.f),
         r.f.width > 0 => r.f.image # NoData
  PROVE  Grows(WithImage(d, r), WithImage(e, q))
<1> DEFINE a == WithImage(d, r)
           b == WithImage(e, q)
           f == Shown(d, r)
           g == Shown(e, q)
<1>1. /\ e.state = d.state /\ e.is_ext_format = d.is_ext_format /\ e.width = d.width
      /\ e.flags = d.flags /\ e.frames = << >>
  BY DEF SameLook
<1>2. /\ f \in Frame /\ f.x = r.f.x /\ f.width = r.f.width /\ f.complete = r.f.complete
      /\ a \in Demuxer /\ a.frames = << f >> /\ a.chunks = d.chunks
      /\ a.is_ext_format = d.is_ext_format
      /\ d.is_ext_format \/ f.width = 0 =>
           a.state = d.state /\ a.width = d.width /\ a.flags = d.flags
      /\ ~ d.is_ext_format /\ f.width # 0 =>
           /\ a.state = "PARSED_HEADER" /\ a.width = f.width
           /\ a.flags = d.flags \cup (IF f.has_alpha THEN {"ALPHA"} ELSE {})
  BY WithImageLooks
<1>3. /\ g \in Frame /\ g.x = q.f.x /\ g.width = q.f.width /\ g.complete = q.f.complete
      /\ b \in Demuxer /\ b.frames = << g >> /\ b.chunks = d.chunks
      /\ b.is_ext_format = d.is_ext_format
      /\ d.is_ext_format \/ g.width = 0 =>
           b.state = d.state /\ b.width = d.width /\ b.flags = d.flags
      /\ ~ d.is_ext_format /\ g.width # 0 =>
           /\ b.state = "PARSED_HEADER" /\ b.width = g.width
           /\ b.flags = d.flags \cup (IF g.has_alpha THEN {"ALPHA"} ELSE {})
  BY <1>1, WithImageLooks
<1>4. r.f.complete => g = f
  <2> SUFFICES ASSUME r.f.complete PROVE g = f
    OBVIOUS
  <2>1. q.f = r.f  BY DEF FrameLater
  <2>2. Unflagged(e, q) = Unflagged(d, r)  BY <1>1, <2>1 DEF Unflagged
  <2> QED BY <2>1, <2>2 DEF Shown
<1>5. r.f.image # NoData => g.x = f.x /\ g.width = f.width /\ g.has_alpha = f.has_alpha
  <2> SUFFICES ASSUME r.f.image # NoData
               PROVE  g.x = f.x /\ g.width = f.width /\ g.has_alpha = f.has_alpha
    OBVIOUS
  <2>1. q.f.x = r.f.x /\ q.f.width = r.f.width /\ q.f.has_alpha = r.f.has_alpha
        /\ q.f.alpha = r.f.alpha
    BY DEF FrameLater
  <2>2. Unflagged(e, q) = Unflagged(d, r)  BY <1>1, <2>1 DEF Unflagged
  <2>3. r.f \in Frame /\ q.f \in Frame  BY DEF FrameRead
  <2>4. g.has_alpha = (q.f.has_alpha /\ ~ Unflagged(e, q))  BY <2>3 DEF Shown, Frame
  <2>5. f.has_alpha = (r.f.has_alpha /\ ~ Unflagged(d, r))  BY <2>3 DEF Shown, Frame
  <2> QED BY <1>2, <1>3, <2>1, <2>2, <2>4, <2>5
<1> HIDE DEF a, b, f, g
<1>6. d.chunks \in Seq(Part) /\ f.width \in Nat  BY <1>2 DEF Demuxer, Frame
<1>7. CASE d.is_ext_format
  <2>1. /\ b.state = a.state /\ b.width = a.width /\ b.flags = a.flags
    BY <1>2, <1>3, <1>7
  <2>2. f.width > 0 => g.x = f.x /\ g.width = f.width  BY <1>2, <1>5
  <2>3. f.complete => g = f  BY <1>2, <1>4
  <2> QED BY <1>2, <1>3, <1>6, <2>1, <2>2, <2>3 DEF Grows, Usable, a, b
<1>8. CASE ~ d.is_ext_format /\ f.width = 0
  <2>1. ~ Usable(a)  BY <1>2, <1>8 DEF Extended, Simple, Usable
  <2> QED BY <2>1 DEF Grows, a
<1>9. CASE ~ d.is_ext_format /\ f.width # 0
  <2>1. g.x = f.x /\ g.width = f.width /\ g.has_alpha = f.has_alpha
    BY <1>2, <1>5, <1>6, <1>9
  <2>2. b.state = a.state /\ b.width = a.width /\ b.flags = a.flags
    BY <1>2, <1>3, <1>9, <2>1
  <2>3. f.complete => g = f  BY <1>2, <1>4
  <2> QED BY <1>2, <1>3, <1>6, <2>1, <2>2, <2>3 DEF Grows, Usable, a, b
<1> QED BY <1>7, <1>8, <1>9

\* While a frame is being read, more of it is seen.
LEMMA ViewGrows ==
  ASSUME NEW m, NEW p, NEW x, p \in ParserState, x \in ParserState,
         p.pc \in {"store", "stored"}, x.pc \in {"store", "stored"},
         ReadFor(m, p.dmux, p.frame), SameFrame(p.frame, x.frame),
         SameLook(p.dmux, x.dmux), x.dmux.chunks = p.dmux.chunks,
         FrameLater(p.frame.f, x.frame.f)
  PROVE  Grows(View(p), View(x))
<1>1. /\ p.dmux \in Demuxer /\ x.dmux \in Demuxer /\ p.frame \in FrameRead
      /\ x.frame \in FrameRead /\ x.frame.for = p.frame.for
  BY DEF ParserState, SameFrame
<1>2. CASE p.frame.for = "image"
  <2>1. View(p) = WithImage(p.dmux, p.frame) /\ View(x) = WithImage(x.dmux, x.frame)
    BY <1>1, <1>2 DEF View
  <2>2. /\ p.dmux.frames = << >>
        /\ Extended(p.dmux) \/ Simple(p.dmux)
        /\ p.frame.f.width > 0 => p.frame.f.image # NoData
    BY <1>2 DEF ReadFor
  <2> QED BY <1>1, <2>1, <2>2, WithImageGrows
<1>3. CASE p.frame.for # "image"
  <2>1. View(p) = WithFrame(p.dmux, p.frame) /\ View(x) = WithFrame(x.dmux, x.frame)
    BY <1>1, <1>3 DEF View
  <2> QED BY <1>1, <2>1, WithFrameGrows
<1> QED BY <1>2, <1>3

LEMMA ViewIsTyped ==
  ASSUME NEW m, NEW p, ParserInv(m, p)
  PROVE  View(p) \in Demuxer
<1>1. p.dmux \in Demuxer /\ p.frame \in FrameRead /\ p.frame.f \in Frame
  BY DEF ParserInv, ParserState, FrameRead
<1>2. CASE p.pc \in {"store", "stored"} /\ p.frame.for = "image"
  <2>1. p.dmux.frames = << >>  BY <1>2 DEF ParserInv, Reading, ReadFor
  <2>2. WithImage(p.dmux, p.frame) \in Demuxer  BY <1>1, <2>1, WithImageLooks
  <2> QED BY <1>2, <2>2 DEF View
<1>3. CASE p.pc \in {"store", "stored"} /\ p.frame.for # "image"
  <2>1. p.dmux.num_frames + 1 \in Nat  BY <1>1 DEF Demuxer
  <2>2. AddFrame(p.dmux, p.frame.f, p.dmux.num_frames + 1) \in Demuxer
    BY <1>1, <2>1, FrameIsAdded
  <2> QED BY <1>1, <1>3, <2>2 DEF View, WithFrame
<1>4. CASE p.pc \notin {"store", "stored"}  BY <1>1, <1>4 DEF View
<1> QED BY <1>2, <1>3, <1>4

LEMMA MasterLooks ==
  ASSUME NEW m, Buffer(m), NEW p, ParserInv(m, p), p.pc = "master", NEW x, x = Step(m, p),
         NEW c, c = ChunkAt(m, p.dmux.start)
  PROVE  LET d1 == BehindHeader(p.dmux)
             s  == Padded(c.size)
         IN  /\ x.dmux.frames = << >> /\ p.dmux = InitDemux
             /\ x.pc \in {"store", "stored"} => x.frame = FreshImage(p.dmux) /\ x.dmux = p.dmux
             /\ x.pc = "stored" => x.status = "NEED_MORE_DATA"
             /\ x.pc \in {"chunks", "finish", "store", "stored"}
             /\ x.pc \notin {"store", "stored"} /\ Usable(x.dmux) =>
                  /\ x.dmux = BehindVP8X(p.dmux, c) /\ c.tag = "VP8X"
                  /\ ~ c.size < VP8X_CHUNK_SIZE /\ ~ SizeIsInvalid(m, d1, s)
                  /\ ~ MemDataSize(m, d1) < s
<1> DEFINE d == p.dmux
           f == p.frame
           d1 == BehindHeader(d)
           d2 == BehindVP8X(d, c)
           s == Padded(c.size)
<1>1. /\ d \in Demuxer /\ d = InitDemux /\ Len(m.chunks) >= 1 /\ d.frames = << >>
      /\ d.start = RIFF_HEADER_SIZE /\ Sound(m, d) /\ ~ Usable(d)
  BY DEF ParserInv, ParserState, InitDemux, Usable
<1>2. c \in AnyChunk  BY <1>1, FirstChunkIsTyped
<1>3. x = ParseMaster(m, d, f)  BY DEF Step
<1>4. CASE c.tag \in ImageTags
  <2>1. x = SingleImage(m, d, f)  BY <1>3, <1>4 DEF ParseMaster
  <2>2. \/ x = Stop("ERROR", d, f)
        \/ x = At("store", "OK", d, FreshImage(d))
        \/ x = At("stored", "NEED_MORE_DATA", d, FreshImage(d))
    BY <2>1 DEF SingleImage, StartFrame, FreshImage
  <2> HIDE DEF d, f
  <2>3. /\ x.dmux = d /\ x.pc \in {"finish", "store", "stored"}
        /\ x.pc \in {"store", "stored"} => x.frame = FreshImage(d)
        /\ x.pc = "stored" => x.status = "NEED_MORE_DATA"
    BY <2>2 DEF Stop, At
  <2> QED BY <1>1, <2>3 DEF d
<1>5. CASE c.tag = "VP8X"
  <2>1. /\ d1 \in Demuxer /\ d1.state = d.state /\ d2 \in Demuxer
        /\ d1.frames = << >> /\ d2.frames = << >>
    <3>1. d1 \in Demuxer /\ d1.state = d.state /\ d2 \in Demuxer /\ s \in Nat
      BY <1>1, <1>2, <1>5, VP8XIsRead, ChunkHasSize, PaddedIsNat
    <3> DEFINE e == Skip(d, CHUNK_HEADER_SIZE)
               e1 == Skip(d1, s)
    <3>2. e \in Demuxer /\ e.frames = d.frames  BY <1>1, SizesAreNat, SkipIsDemuxer
    <3>3. e1 \in Demuxer /\ e1.frames = d1.frames  BY <3>1, SkipIsDemuxer
    <3>4. d1.frames = e.frames  BY <3>2 DEF BehindHeader, Demuxer
    <3>5. d2.frames = e1.frames  BY <3>3 DEF BehindVP8X, Demuxer
    <3> QED BY <1>1, <3>1, <3>2, <3>3, <3>4, <3>5
  <2>2. x = ParseVP8X(m, d, f)  BY <1>3, <1>5 DEF ParseMaster, ImageTags
  <2> DEFINE long == /\ ~ c.size < VP8X_CHUNK_SIZE /\ ~ SizeIsInvalid(m, d1, s)
                     /\ ~ MemDataSize(m, d1) < s
  <2>3. /\ x.pc \in {"chunks", "finish"}
        /\ x.dmux = d1 \/ (x.dmux = d2 /\ long)
    <3>1. x = IF c.size < VP8X_CHUNK_SIZE \/ SizeIsInvalid(m, d1, s) THEN Stop("ERROR", d1, f)
              ELSE IF MemDataSize(m, d1) < s THEN Stop("NEED_MORE_DATA", d1, f)
              ELSE IF SizeIsInvalid(m, d2, CHUNK_HEADER_SIZE) THEN Stop("ERROR", d2, f)
              ELSE IF MemDataSize(m, d2) < CHUNK_HEADER_SIZE THEN Stop("NEED_MORE_DATA", d2, f)
              ELSE At("chunks", "OK", d2, f)
      BY <2>2 DEF ParseVP8X, BehindHeader, BehindVP8X
    <3> HIDE DEF d1, d2, s
    <3> QED BY <3>1 DEF Stop, At
  <2>4. ~ Usable(d1)  BY <1>1, <2>1 DEF Usable
  <2> HIDE DEF d1, d2, long
  <2>5. x.dmux.frames = << >> /\ (Usable(x.dmux) => x.dmux = d2 /\ long)
    BY <2>1, <2>3, <2>4
  <2> QED BY <1>1, <1>5, <2>3, <2>5 DEF long, d1, d2
<1>6. CASE c.tag \notin ImageTags \cup {"VP8X"}
  <2>1. x = Stop("ERROR", d, f)  BY <1>3, <1>6 DEF ParseMaster
  <2>2. x.pc = "finish" /\ x.dmux = d  BY <2>1 DEF Stop, At
  <2> QED BY <1>1, <2>2
<1> QED BY <1>4, <1>5, <1>6

LEMMA MasterGrows ==
  ASSUME NEW m, NEW n, More(m, n), NEW p, ParserInv(m, p), ParserInv(n, p), p.pc = "master",
         NEW x, x = Step(m, p), NEW y, y = Step(n, p)
  PROVE  Grows(View(x), View(y))
<1> DEFINE c == ChunkAt(m, p.dmux.start)
           d1 == BehindHeader(p.dmux)
           d2 == BehindVP8X(p.dmux, c)
           s == Padded(c.size)
           f == p.frame
<1>1. Buffer(m) /\ Buffer(n) /\ ChunkAt(n, p.dmux.start) = c  BY MoreIsLonger DEF More
<1>2. /\ p.dmux \in Demuxer /\ p.dmux = InitDemux /\ Len(m.chunks) >= 1
      /\ p.dmux.start = RIFF_HEADER_SIZE /\ p.dmux.frames = << >> /\ Sound(m, p.dmux)
  BY DEF ParserInv, ParserState, InitDemux
<1>3. c \in AnyChunk  BY <1>1, <1>2, FirstChunkIsTyped
<1> HIDE DEF c
<1>4. /\ x.pc \in {"store", "stored"} => x.frame = FreshImage(p.dmux) /\ x.dmux = p.dmux
      /\ x.pc \notin {"store", "stored"} /\ Usable(x.dmux) =>
           /\ x.dmux = d2 /\ c.tag = "VP8X"
           /\ ~ c.size < VP8X_CHUNK_SIZE /\ ~ SizeIsInvalid(m, d1, s)
           /\ ~ MemDataSize(m, d1) < s
  BY <1>1, MasterLooks DEF c
<1>5. CASE x.pc \in {"store", "stored"}
  <2> DEFINE r == FreshImage(p.dmux)
  <2>1. r \in FrameRead /\ r.for = "image" /\ r.f.width = 0
    <3>1. NewFrame \in Frame /\ p.dmux.start \in Nat  BY <1>2, InitIsSound DEF Demuxer
    <3>2. NewFrame.width = 0  BY DEF NewFrame
    <3> QED BY <3>1, <3>2 DEF FreshImage, FrameRead
  <2>2. View(x) = WithImage(p.dmux, r)  BY <1>4, <1>5, <2>1 DEF View
  <2>3. WithImage(p.dmux, r).state = p.dmux.state  BY <1>2, <2>1, WithImageLooks
  <2>4. ~ Usable(View(x))  BY <1>2, <2>2, <2>3 DEF Usable, InitDemux
  <2> QED BY <2>4 DEF Grows
<1>6. CASE x.pc \notin {"store", "stored"}
  <2>1. View(x) = x.dmux  BY <1>6 DEF View
  <2> SUFFICES ASSUME Usable(x.dmux) PROVE Grows(View(x), View(y))
    BY <2>1 DEF Grows
  <2>2. /\ x.dmux = d2 /\ c.tag = "VP8X"
        /\ ~ c.size < VP8X_CHUNK_SIZE /\ ~ SizeIsInvalid(m, d1, s)
        /\ ~ MemDataSize(m, d1) < s
    BY <1>4, <1>6
  <2>3. d1 \in Demuxer /\ d2 \in Demuxer /\ s \in Nat
    BY <1>2, <1>3, <2>2, VP8XIsRead, ChunkHasSize, PaddedIsNat
  <2>4. y = IF c.size < VP8X_CHUNK_SIZE \/ SizeIsInvalid(n, d1, s) THEN Stop("ERROR", d1, f)
            ELSE IF MemDataSize(n, d1) < s THEN Stop("NEED_MORE_DATA", d1, f)
            ELSE IF SizeIsInvalid(n, d2, CHUNK_HEADER_SIZE) THEN Stop("ERROR", d2, f)
            ELSE IF MemDataSize(n, d2) < CHUNK_HEADER_SIZE THEN Stop("NEED_MORE_DATA", d2, f)
            ELSE At("chunks", "OK", d2, f)
    <3>1. y = ParseMaster(n, p.dmux, f)  BY DEF Step
    <3>2. y = ParseVP8X(n, p.dmux, f)  BY <1>1, <2>2, <3>1 DEF ParseMaster, ImageTags
    <3> QED BY <1>1, <3>2 DEF ParseVP8X, BehindHeader, BehindVP8X
  <2> HIDE DEF d1, d2, s, f
  <2>5. SizeIsInvalid(n, d1, s) = SizeIsInvalid(m, d1, s)  BY DEF More, SizeIsInvalid
  <2>6. ~ MemDataSize(n, d1) < s
    <3>1. d1.start \in Nat  BY <2>3 DEF Demuxer
    <3> QED BY <2>2, <2>3, <3>1, MoreIsLonger
  <2>7. y.dmux = d2 /\ y.pc \notin {"store", "stored"}
    BY <2>2, <2>4, <2>5, <2>6 DEF Stop, At
  <2>8. View(y) = d2  BY <2>7 DEF View
  <2>9. d2.chunks \in Seq(Part) /\ d2.frames \in Seq(Frame)  BY <2>3 DEF Demuxer
  <2> QED BY <2>1, <2>2, <2>8, <2>9, GrowsFromItself
<1> QED BY <1>5, <1>6

-----------------------------------------------------------------------------
(* Calls that do not end well.                                               *)

LEMMA NotOkIsDoomed ==
  ASSUME NEW m, NEW p, ParserInv(m, p), p.pc # "master", p.status # "OK" PROVE Doomed(p)
  BY DEF ParserInv, ParserState, Doomed

LEMMA StepIsNotMaster ==
  ASSUME NEW m, Buffer(m), NEW p, ParserInv(m, p) PROVE Step(m, p).pc # "master"
<1>1. p.pc \in {"master", "chunks", "store", "stored", "finish"}
  BY DEF ParserInv, ParserState
<1>2. CASE p.pc = "master"  BY <1>2, MasterLooks
<1>3. CASE p.pc = "chunks"
  <2>1. Step(m, p) = ParseChunk(m, p.dmux, p.frame)  BY <1>3 DEF Step
  <2> DEFINE d == Skip(p.dmux, CHUNK_HEADER_SIZE)
  <2>2. \A s, e, f : EndOfChunk(m, s, e, f).pc # "master"  BY DEF EndOfChunk, At
  <2>3. \A s, e, f : Stop(s, e, f).pc # "master"  BY DEF Stop, At
  <2>4. \A e, f : StartFrame(m, e, f).pc # "master"  BY DEF StartFrame, At
  <2>5. \A e, f : SingleImage(m, e, f).pc # "master"  BY <2>3, <2>4 DEF SingleImage
  <2>6. \A c, e, f : AnimationFrame(m, c, e, f).pc # "master"
    BY <2>2, <2>3, <2>4 DEF AnimationFrame
  <2>7. \A c, e, f, g : OtherChunk(m, c, e, f, g).pc # "master"  BY <2>2 DEF OtherChunk
  <2>8. \A c, e, f : AnimChunk(m, c, e, f).pc # "master"
    BY <2>2, <2>3, <2>7 DEF AnimChunk
  <2> QED BY <2>1, <2>3, <2>5, <2>6, <2>7, <2>8 DEF ParseChunk
<1>4. CASE p.pc = "store"  BY <1>4, PartLooks
<1>5. CASE p.pc = "stored"
  BY <1>5 DEF Step, FrameStored, ImageStored, AnimationFrameStored, EndOfChunk, Stop, At
<1>6. CASE p.pc = "finish"  BY <1>6 DEF Step
<1> QED BY <1>1, <1>2, <1>3, <1>4, <1>5, <1>6

\* When all went well.
LEMMA StoredWell ==
  ASSUME NEW m, Buffer(m), NEW p, ParserInv(m, p), p.pc = "stored", NEW x, x = Step(m, p),
         x.status = "OK", NEW d, d = p.dmux, NEW r, r = p.frame
  PROVE  /\ p.status = "OK" /\ x.pc \in {"chunks", "finish"}
         /\ r.for \in {"image", "animation"}
         /\ r.for = "image" => x.dmux = WithImage(d, r)
         /\ r.for = "animation" =>
              /\ ~ Overrun(d, r)
              /\ x.dmux = IF IsAnimation(d) /\ r.f.frame_num > 0
                          THEN AddFrame(d, r.f, d.num_frames + 1) ELSE d
<1> DEFINE s == p.status
<1>1. /\ x = FrameStored(m, s, d, r) /\ s \in {"OK", "NEED_MORE_DATA", "ERROR"}
      /\ r.for \in {"image", "animation"}
  BY DEF Step, ParserInv, ParserState, Statuses, Reading, ReadFor
<1>2. ASSUME NEW t, NEW e, x = EndOfChunk(m, t, e, r)
      PROVE  t = "OK" /\ x.dmux = e /\ x.pc \in {"chunks", "finish"}
  BY <1>2 DEF EndOfChunk, At
<1>3. ASSUME NEW t, NEW e, x = Stop(t, e, r)
      PROVE  t = "OK" /\ x.dmux = e /\ x.pc \in {"chunks", "finish"}
  BY <1>3 DEF Stop, At
<1>4. CASE r.for = "image"
  <2>1. s = "ERROR" => x = IF d.is_ext_format THEN EndOfChunk(m, s, d, r) ELSE Stop(s, d, r)
    BY <1>1, <1>4 DEF FrameStored, ImageStored
  <2>2. s # "ERROR"  BY <1>2, <1>3, <2>1
  <2>3. x = IF d.is_ext_format THEN EndOfChunk(m, s, WithImage(d, r), r)
            ELSE Stop(s, WithImage(d, r), r)
    BY <1>1, <1>4, <2>2 DEF FrameStored, ImageStored, WithImage, Shown, Unflagged
  <2> HIDE DEF s
  <2> QED BY <1>1, <1>2, <1>3, <1>4, <2>3 DEF s
<1>5. CASE r.for = "animation"
  <2> DEFINE e == IF IsAnimation(d) /\ r.f.frame_num > 0
                  THEN AddFrame(d, r.f, d.num_frames + 1) ELSE d
             error == "ERROR"
  <2>1. x = IF s = "ERROR" \/ Overrun(d, r) THEN EndOfChunk(m, error, d, r)
            ELSE EndOfChunk(m, s, e, r)
    BY <1>1, <1>5 DEF FrameStored, AnimationFrameStored
  <2> HIDE DEF s, e, error
  <2>2. ~ (s = "ERROR" \/ Overrun(d, r))  BY <1>2, <2>1 DEF error
  <2>3. s = "OK" /\ x.dmux = e /\ x.pc \in {"chunks", "finish"}  BY <1>2, <2>1, <2>2
  <2> QED BY <1>1, <1>5, <2>2, <2>3 DEF s, e
<1> QED BY <1>1, <1>4, <1>5

\* Frames that were added stay.
LEMMA FramesStay ==
  ASSUME NEW m, Buffer(m), NEW p, ParserInv(m, p), NEW x, x = Step(m, p), x.status = "OK"
  PROVE  /\ Len(p.dmux.frames) <= Len(x.dmux.frames)
         /\ \A i \in 1 .. Len(p.dmux.frames) : x.dmux.frames[i] = p.dmux.frames[i]
         /\ p.pc # "master" => x.dmux.is_ext_format = p.dmux.is_ext_format
<1>1. /\ p.pc \in {"master", "chunks", "store", "stored", "finish"}
      /\ p.dmux \in Demuxer /\ p.frame \in FrameRead
  BY DEF ParserInv, ParserState
<1>2. p.dmux.frames \in Seq(Frame) /\ Len(p.dmux.frames) \in Nat  BY <1>1 DEF Demuxer
<1>3. CASE p.pc = "master"
  <2>1. p.dmux.frames = << >> /\ x.dmux.frames = << >>  BY <1>3, MasterLooks DEF InitDemux
  <2> QED BY <1>3, <2>1
<1>4. CASE p.pc = "chunks"
  <2>1. SameLook(p.dmux, x.dmux)  BY <1>4, ChunkLooks
  <2> QED BY <1>2, <2>1 DEF SameLook
<1>5. CASE p.pc = "store"
  <2>1. SameLook(p.dmux, x.dmux)  BY <1>5, PartLooks
  <2> QED BY <1>2, <2>1 DEF SameLook
<1>6. CASE p.pc = "stored" /\ p.frame.for = "image"
  <2>1. p.dmux.frames = << >>  BY <1>6 DEF ParserInv, Reading, ReadFor
  <2>2. x.dmux = WithImage(p.dmux, p.frame)  BY <1>6, StoredWell
  <2>3. /\ x.dmux.frames = << Shown(p.dmux, p.frame) >>
        /\ x.dmux.is_ext_format = p.dmux.is_ext_format
    BY <1>1, <2>1, <2>2, WithImageLooks
  <2> QED BY <1>6, <2>1, <2>3
<1>7. CASE p.pc = "stored" /\ p.frame.for # "image"
  <2> DEFINE d == p.dmux
             g == AddFrame(d, p.frame.f, d.num_frames + 1)
  <2>1. x.dmux = d \/ x.dmux = g  BY <1>7, StoredWell
  <2>2. p.frame.f \in Frame /\ d.num_frames + 1 \in Nat  BY <1>1 DEF FrameRead, Demuxer
  <2>3. g.frames = Append(d.frames, p.frame.f) /\ g.is_ext_format = d.is_ext_format
    BY <1>1, <2>2, FrameIsAdded
  <2> HIDE DEF g
  <2>4. /\ x.dmux.frames = d.frames \/ x.dmux.frames = Append(d.frames, p.frame.f)
        /\ x.dmux.is_ext_format = d.is_ext_format
    BY <2>1, <2>3
  <2> QED BY <1>2, <1>7, <2>4
<1>8. CASE p.pc = "finish"
  <2>1. x = p  BY <1>8 DEF Step
  <2> QED BY <1>2, <2>1
<1> QED BY <1>1, <1>3, <1>4, <1>5, <1>6, <1>7, <1>8

LEMMA DoomedStays ==
  ASSUME NEW m, Buffer(m), NEW p, ParserInv(m, p), Doomed(p) PROVE Doomed(Step(m, p))
<1> DEFINE x == Step(m, p)
           d == p.dmux
           r == p.frame
<1>1. ParserInv(m, x) /\ x.pc # "master"  BY StepIsOk, StepIsNotMaster
<1>2. /\ d \in Demuxer /\ r \in FrameRead /\ d.start \in Nat /\ r.from \in Nat /\ r.payload \in Nat
      /\ d.frames \in Seq(Frame) /\ Len(d.frames) \in Nat /\ d.num_frames + 1 \in Nat
      /\ r.f \in Frame
  BY DEF ParserInv, ParserState, FrameRead, Demuxer
<1> HIDE DEF x
<1> SUFFICES ASSUME x.status = "OK" PROVE Doomed(x)
  BY <1>1, NotOkIsDoomed DEF x
<1>3. CASE p.pc \in {"stored", "finish"} /\ p.status # "OK"
  <2>1. p.pc = "finish"  BY <1>3, StoredWell DEF x
  <2>2. x = p  BY <2>1 DEF Step, x
  <2> QED BY <2>2
<1>4. CASE HasBrokenFrame(d)
  <2>1. PICK i \in 1 .. Len(d.frames) : ~ d.frames[i].complete  BY <1>4 DEF HasBrokenFrame
  <2>2. p.pc # "master"  BY <1>2, <2>1 DEF ParserInv, InitDemux
  <2>3. /\ Len(d.frames) <= Len(x.dmux.frames) /\ x.dmux.frames[i] = d.frames[i]
        /\ x.dmux.is_ext_format = d.is_ext_format
    BY <2>2, FramesStay DEF x
  <2>4. Len(x.dmux.frames) \in Nat  BY <1>1 DEF ParserInv, ParserState, Demuxer
  <2>5. i \in 1 .. Len(x.dmux.frames) /\ ~ x.dmux.frames[i].complete /\ x.dmux.is_ext_format
    BY <1>2, <1>4, <2>1, <2>3, <2>4 DEF HasBrokenFrame
  <2>6. HasBrokenFrame(x.dmux)  BY <2>5 DEF HasBrokenFrame
  <2> QED BY <2>6 DEF Doomed
<1>5. CASE InAnimation(p) /\ p.pc = "stored" /\ (Overrun(d, r) \/ IsBroken(p))
  <2>1. r.for = "animation"  BY <1>5 DEF InAnimation
  <2> DEFINE g == AddFrame(d, r.f, d.num_frames + 1)
  <2>2. /\ ~ Overrun(d, r)
        /\ x.dmux = IF IsAnimation(d) /\ r.f.frame_num > 0 THEN g ELSE d
    BY <1>5, <2>1, StoredWell DEF x
  <2>3. IsAnimation(d) /\ r.f.frame_num > 0 /\ ~ r.f.complete  BY <1>5, <2>2 DEF IsBroken
  <2>4. d.is_ext_format
    <3>1. Reading(m, p.status, d, r)  BY <1>5 DEF ParserInv
    <3> QED BY <2>1, <3>1 DEF Reading, ReadFor, Extended
  <2>5. g.frames = Append(d.frames, r.f) /\ g.is_ext_format  BY <1>2, <2>4, FrameIsAdded
  <2> HIDE DEF g
  <2>6. HasBrokenFrame(x.dmux)
    <3> DEFINE i == Len(d.frames) + 1
    <3>1. i \in 1 .. Len(x.dmux.frames) /\ x.dmux.frames[i] = r.f
      BY <1>2, <2>2, <2>3, <2>5
    <3>2. x.dmux.is_ext_format  BY <2>2, <2>3, <2>4, <2>5
    <3> HIDE DEF i
    <3> QED BY <2>3, <3>1, <3>2 DEF HasBrokenFrame
  <2> QED BY <2>6 DEF Doomed
<1>6. CASE InAnimation(p) /\ p.pc = "store" /\ (Overrun(d, r) \/ IsBroken(p))
  <2> DEFINE e == Skip(d, CHUNK_HEADER_SIZE)
             c == ChunkAt(m, d.start)
             n == Available(m, c, e)
  <2>1. n \in Nat  BY <1>6, PartHere
  <2> HIDE DEF n
  <2>2. /\ x.pc \in {"store", "stored"} /\ SameFrame(r, x.frame) /\ SameLook(d, x.dmux)
        /\ \/ x.dmux.start = d.start + CHUNK_HEADER_SIZE + n
           \/ x.pc = "stored" /\ x.frame = r /\ x.dmux = d
    BY <1>6, PartLooks DEF x, n
  <2>3. /\ x.frame.from = r.from /\ x.frame.payload = r.payload /\ InAnimation(x)
    BY <1>6, <2>2 DEF SameFrame, InAnimation
  <2>4. CASE x.pc = "stored" /\ x.frame = r /\ x.dmux = d
    <3>1. CASE Overrun(d, r)  BY <2>3, <2>4, <3>1 DEF Doomed
    <3>2. CASE IsBroken(p)
      <4>1. IsBroken(x)  BY <2>3, <2>4, <3>2 DEF IsBroken, NothingFollows
      <4> QED BY <4>1 DEF Doomed
    <3> QED BY <1>6, <3>1, <3>2
  <2>5. CASE x.dmux.start = d.start + CHUNK_HEADER_SIZE + n
    <3>1. d.start - r.from > r.payload \/ d.start + CHUNK_HEADER_SIZE - r.from > r.payload
      BY <1>6 DEF Overrun, IsBroken, NothingFollows
    <3> DEFINE start == d.start
               from == r.from
               payload == r.payload
    <3>a. start \in Nat /\ from \in Nat /\ payload \in Nat
      BY <1>2
    <3> HIDE DEF start, from, payload
    <3>b. start + CHUNK_HEADER_SIZE + n - from > payload
      BY <2>1, <3>1, <3>a, SizesAreNat DEF start, from, payload
    <3>2. x.dmux.start - r.from > r.payload
      BY <2>1, <2>5, <3>a, <3>b, SizesAreNat DEF start, from, payload
    <3>3. Overrun(x.dmux, x.frame)  BY <2>3, <3>2 DEF Overrun
    <3> QED BY <2>3, <3>3 DEF Doomed
  <2> QED BY <2>2, <2>4, <2>5
<1> QED BY <1>3, <1>4, <1>5, <1>6 DEF Doomed, IsBroken, InAnimation, x

LEMMA DoomedEndsBadly ==
  ASSUME NEW m, Buffer(m), NEW p, ParserInv(m, p), NEW q, Leads(m, p, q), EndsWell(q)
  PROVE  ~ Doomed(p)
<1> SUFFICES ASSUME Doomed(p) PROVE FALSE
  OBVIOUS
<1> DEFINE S == { x \in ParserState : ParserInv(m, x) /\ Doomed(x) }
<1>1. p \in S  BY DEF ParserInv
<1>2. ASSUME NEW x \in S PROVE Step(m, x) \in S
  <2>1. ParserInv(m, Step(m, x)) /\ Doomed(Step(m, x))  BY StepIsOk, DoomedStays
  <2> QED BY <2>1 DEF ParserInv
<1> HIDE DEF S
<1>3. q \in S  BY <1>1, <1>2 DEF Leads
<1>4. Doomed(q)  BY <1>3 DEF S
<1>5. HasBrokenFrame(q.dmux)  BY <1>4 DEF Doomed, EndsWell, InAnimation, IsBroken
<1>6. PICK i \in 1 .. Len(q.dmux.frames) : ~ q.dmux.frames[i].complete
  BY <1>5 DEF HasBrokenFrame
<1>7. IsValidExtendedFormat(q.dmux, "DONE")  BY <1>5 DEF EndsWell, IsValid, HasBrokenFrame
<1>8. IsValidFrame(q.dmux, "DONE", i)  BY <1>7 DEF IsValidExtendedFormat
<1> QED BY <1>6, <1>8 DEF IsValidFrame

\* Where a call ends it got from everywhere on its way.
LEMMA LeadsToTheEnd ==
  ASSUME NEW m, NEW p \in ParserState, NEW q, Leads(m, p, q), q.pc = "finish",
         NEW x, Leads(m, p, x), ParserInv(m, p), Buffer(m)
  PROVE  Leads(m, x, q) /\ ParserInv(m, x)
<1> DEFINE S == { y \in ParserState : ParserInv(m, y) /\ Leads(m, y, q) }
<1>1. p \in S  OBVIOUS
<1>2. ASSUME NEW y \in S PROVE Step(m, y) \in S
  <2>1. ParserInv(m, Step(m, y))  BY StepIsOk
  <2>2. CASE y = q
    <3>1. Step(m, y) = y  BY <2>2 DEF Step
    <3> QED BY <3>1
  <2>3. CASE y # q
    <3>1. Leads(m, Step(m, y), q)  BY <2>3, LeadsFirst
    <3> QED BY <2>1, <3>1 DEF ParserInv
  <2> QED BY <2>2, <2>3
<1> HIDE DEF S
<1>3. x \in S  BY <1>1, <1>2 DEF Leads
<1> QED BY <1>3 DEF S

-----------------------------------------------------------------------------
(* What holds of a call besides, if no ALPH chunk follows an image.          *)

LEMMA NoAlphaNext ==
  ASSUME NEW m, Buffer(m), ~ AlphaAfter(m), NEW at, Boundary(m, at),
         at + CHUNK_HEADER_SIZE <= m.end, ChunkAt(m, at).tag \in ImageTags,
         NEW next, next = at + CHUNK_HEADER_SIZE + Padded(ChunkAt(m, at).size),
         next + CHUNK_HEADER_SIZE <= m.end
  PROVE  ChunkAt(m, next).tag # "ALPH"
<1> DEFINE cs == m.chunks
           n == Len(cs)
<1>1. PICK k \in 1 .. n :
        /\ at = Offset(cs, k) /\ at \in Nat /\ ChunkAt(m, at) = cs[k] /\ cs[k] \in AnyChunk
  BY ChunkHere
<1>2. Layout(cs) /\ Offset(cs, n + 1) = RIFF_HEADER_SIZE + ListSize(cs) /\ n \in Nat
  BY ChunksFollow DEF Buffer
<1>3. DiskSize(cs[k]) = CHUNK_HEADER_SIZE + Padded(cs[k].size)
  BY <1>1 DEF DiskSize, ImageTags
<1>4. Padded(cs[k].size) \in Nat  BY <1>1, ChunkHasSize, PaddedIsNat
<1>5. next = Offset(cs, k + 1)
  <2>1. Offset(cs, k + 1) = Offset(cs, k) + DiskSize(cs[k])  BY <1>2 DEF Layout
  <2> HIDE DEF cs, n
  <2> QED BY <1>1, <1>3, <1>4, <2>1, SizesAreNat
<1>6. k # n
  <2>1. m.end <= RIFF_HEADER_SIZE + ListSize(cs) /\ m.end \in Nat  BY DEF Buffer
  <2>2. next \in Nat  BY <1>1, <1>4, SizesAreNat
  <2> HIDE DEF cs, n
  <2> QED BY <1>2, <1>5, <2>1, <2>2, SizesAreNat
<1>7. k + 1 \in 1 .. n /\ k + 1 \in 2 .. n /\ (k + 1) - 1 = k  BY <1>2, <1>6
<1>8. ChunkAt(m, next) = cs[k + 1]  BY <1>5, <1>7, ChunkIsAt DEF Buffer
<1> QED BY <1>1, <1>7, <1>8 DEF AlphaAfter

LEMMA FreshIsInOrder ==
  /\ \A r : IsFresh(r) => PartsInOrder(r.f) /\ r.f.image = NoData
  /\ \A d : IsFresh(FreshImage(d)) /\ FreshImage(d).for = "image"
  BY DEF IsFresh, PartsInOrder, FreshImage, NewFrame

LEMMA PathStays ==
  ASSUME NEW m, Buffer(m), ~ AlphaAfter(m), NEW p, PathInv(m, p), Settled(p),
         p.pc = "stored" => p.status # "ERROR",
         NEW x, x = Step(m, p), x.status # "ERROR"
  PROVE  PathInv(m, x)
<1> DEFINE d == p.dmux
           r == p.frame
<1>1. ParserInv(m, p) /\ InOrder(m, p) /\ IsWhole(m, p)  BY DEF PathInv
<1>2. ParserInv(m, x)  BY <1>1, StepIsOk
<1>3. /\ d \in Demuxer /\ r \in FrameRead /\ r.f \in Frame /\ d.frames \in Seq(Frame)
      /\ d.start \in Nat /\ Len(d.frames) \in Nat
      /\ p.pc \in {"master", "chunks", "store", "stored", "finish"}
  BY <1>1 DEF ParserInv, ParserState, FrameRead, Demuxer
<1>4. CASE p.pc = "master"
  <2>1. /\ x.dmux.frames = << >>
        /\ x.pc \in {"store", "stored"} => x.frame = FreshImage(d)
    BY <1>1, <1>4, MasterLooks
  <2>2. InOrder(m, x) /\ IsWhole(m, x)  BY <2>1, FreshIsInOrder DEF InOrder, IsWhole
  <2> QED BY <1>2, <2>2 DEF PathInv
<1>5. CASE p.pc = "chunks"
  <2> DEFINE c == ChunkAt(m, d.start)
  <2>1. /\ SameLook(d, x.dmux)
        /\ IsOfImage(c) => x.pc = "store" /\ x.frame = FreshImage(d)
        /\ ~ IsOfImage(c) /\ x.pc \in {"store", "stored"} =>
             IsFresh(x.frame) /\ x.dmux.start = x.frame.from
        /\ ~ IsOfImage(c) /\ x.pc = "store" => x.frame.payload <= MemDataSize(m, x.dmux)
    BY <1>1, <1>5, ChunkLooks
  <2> HIDE DEF c
  <2>2. /\ x.pc \in {"store", "stored"} => PartsInOrder(x.frame.f) /\ x.frame.f.image = NoData
        /\ x.dmux.frames = d.frames
    BY <2>1, FreshIsInOrder DEF SameLook
  <2>3. InOrder(m, x)  BY <1>1, <2>2 DEF InOrder
  <2>4. IsWhole(m, x)
    <3> SUFFICES ASSUME x.pc = "store", x.frame.for = "animation"
                 PROVE  x.frame.from + x.frame.payload <= m.end
      BY DEF IsWhole
    <3>1. ~ IsOfImage(c)  BY <2>1, FreshIsInOrder
    <3>2. x.frame.payload <= m.end - x.frame.from  BY <2>1, <3>1 DEF MemDataSize
    <3>3. x.frame.payload \in Nat /\ x.frame.from \in Nat /\ m.end \in Nat
      BY <1>2 DEF ParserInv, ParserState, FrameRead, Buffer
    <3> QED BY <3>2, <3>3
  <2> QED BY <1>2, <2>3, <2>4 DEF PathInv
<1>6. CASE p.pc = "store"
  <2> DEFINE c == ChunkAt(m, d.start)
             e == Skip(d, CHUNK_HEADER_SIZE)
             s == IsThere(m, c, e)
  <2>1. /\ x.pc \in {"store", "stored"} /\ SameFrame(r, x.frame) /\ x.dmux.frames = d.frames
        /\ \/ x.pc = "stored" /\ x.frame = r
           \/ IsAlphaPart(c, r) /\ x.frame = AlphaSet(m, r, c, d)
           \/ /\ IsImagePart(c, r) /\ x.frame = ImageSet(m, r, c, d, s)
              /\ x.dmux.start = d.start + CHUNK_HEADER_SIZE + Available(m, c, e)
              /\ x.status = "OK" => s = "OK"
    BY <1>1, <1>6, PartLooks DEF SameLook
  <2>2. CASE x.pc = "stored" /\ x.frame = r
    BY <1>1, <1>2, <1>6, <2>1, <2>2 DEF PathInv, InOrder, IsWhole
  <2>3. CASE IsAlphaPart(c, r) /\ x.frame = AlphaSet(m, r, c, d)
    <3>1. r.f.image = NoData  BY <1>1, <1>6, <2>3 DEF InOrder, IsAlphaPart
    <3>2. x.frame.f.image = NoData
      <4> HIDE DEF d, r, c, e, s
      <4> DEFINE q == x.frame
      <4>1. q = AlphaSet(m, r, c, d)  BY <2>3
      <4> HIDE DEF q
      <4>2. q.f.image = r.f.image  BY <1>3, <4>1, AlphaSetLooks
      <4> QED BY <3>1, <4>2 DEF q
    <3> QED
      BY <1>1, <1>2, <1>6, <2>1, <3>2 DEF PathInv, InOrder, IsWhole, PartsInOrder, SameFrame
  <2>4. CASE /\ IsImagePart(c, r) /\ x.frame = ImageSet(m, r, c, d, s)
             /\ x.dmux.start = d.start + CHUNK_HEADER_SIZE + Available(m, c, e)
             /\ x.status = "OK" => s = "OK"
    <3>1. x.frame.f.alpha = r.f.alpha /\ x.frame.f.image = PartOf(m, c, d)
      BY <1>3, <2>4, ImageSetLooks
    <3>2. PartsInOrder(x.frame.f)
      <4> SUFFICES ASSUME r.f.alpha # NoData PROVE r.f.alpha.offset <= d.start
        BY <3>1 DEF PartsInOrder, PartOf
      <4>1. EndOf(r.f.alpha) <= d.start  BY <1>1, <1>6 DEF ParserInv, Reading, Placed
      <4>2. r.f.alpha.offset \in Nat /\ r.f.alpha.size \in Nat  BY <1>3 DEF Frame, Part
      <4> QED BY <1>3, <4>1, <4>2 DEF EndOf
    <3>3. x.pc = "store" => ChunkAt(m, x.dmux.start).tag # "ALPH"
      <4> SUFFICES ASSUME x.pc = "store" PROVE ChunkAt(m, x.dmux.start).tag # "ALPH"
        OBVIOUS
      <4>1. x.status = "OK" /\ x.dmux.start + CHUNK_HEADER_SIZE <= m.end
        BY <1>2 DEF ParserInv
      <4>2. Available(m, c, e) = Padded(c.size)  BY <1>1, <1>6, <2>4, <4>1, PartHere
      <4>3. Boundary(m, d.start) /\ d.start + CHUNK_HEADER_SIZE <= m.end
        BY <1>1, <1>6 DEF ParserInv
      <4>4. c.tag \in ImageTags  BY <2>4 DEF IsImagePart
      <4>5. x.dmux.start = d.start + CHUNK_HEADER_SIZE + Padded(c.size)  BY <2>4, <4>2
      <4> DEFINE at == d.start
                 next == x.dmux.start
      <4> HIDE DEF e, s, at, next
      <4>6. ChunkAt(m, at) = c  BY DEF at
      <4> HIDE DEF d, c
      <4>7. ChunkAt(m, next).tag # "ALPH"
        BY <4>1, <4>3, <4>4, <4>5, <4>6, NoAlphaNext DEF at, next
      <4> QED BY <4>7 DEF next
    <3> QED BY <1>1, <1>2, <1>6, <2>1, <3>2, <3>3 DEF PathInv, InOrder, IsWhole, SameFrame
  <2> QED BY <2>1, <2>2, <2>3, <2>4
<1>7. CASE p.pc = "stored"
  <2>1. x.dmux = View(p) /\ x.pc \in {"chunks", "finish"}  BY <1>1, <1>7, StoredLooks
  <2>2. PartsInOrder(r.f) /\ \A i \in 1 .. Len(d.frames) : PartsInOrder(d.frames[i])
    BY <1>1, <1>7 DEF InOrder
  <2>3. \A i \in 1 .. Len(x.dmux.frames) : PartsInOrder(x.dmux.frames[i])
    <3>1. CASE r.for = "image"
      <4> DEFINE f == Shown(d, r)
      <4>1. d.frames = << >>  BY <1>1, <1>7, <3>1 DEF ParserInv, Reading, ReadFor
      <4>2. x.dmux = WithImage(d, r)  BY <1>7, <2>1, <3>1 DEF View
      <4>3. /\ x.dmux.frames = << f >> /\ f.image = r.f.image
            /\ f.alpha = (IF Unflagged(d, r) THEN NoData ELSE r.f.alpha)
        BY <1>3, <4>1, <4>2, WithImageLooks
      <4> HIDE DEF f
      <4>4. PartsInOrder(f)  BY <2>2, <4>3 DEF PartsInOrder
      <4> QED BY <4>3, <4>4
    <3>2. CASE r.for # "image"
      <4> DEFINE g == AddFrame(d, r.f, d.num_frames + 1)
      <4>1. x.dmux = d \/ x.dmux = g  BY <1>7, <2>1, <3>2 DEF View, WithFrame
      <4>2. g.frames = Append(d.frames, r.f)
        <5>1. d.num_frames + 1 \in Nat  BY <1>3 DEF Demuxer
        <5> QED BY <1>3, <5>1, FrameIsAdded
      <4> HIDE DEF g
      <4>3. x.dmux.frames = d.frames \/ x.dmux.frames = Append(d.frames, r.f)
        BY <4>1, <4>2
      <4>4. \A i \in 1 .. Len(d.frames) + 1 : PartsInOrder(Append(d.frames, r.f)[i])
        BY <1>3, <2>2
      <4>5. CASE x.dmux.frames = d.frames  BY <2>2, <4>5
      <4>6. CASE x.dmux.frames = Append(d.frames, r.f)
        <5>1. Len(x.dmux.frames) = Len(d.frames) + 1  BY <1>3, <4>6 DEF Demuxer
        <5> QED BY <4>4, <4>6, <5>1
      <4> QED BY <4>3, <4>5, <4>6
    <3> QED BY <3>1, <3>2
  <2> QED BY <1>2, <2>1, <2>3 DEF PathInv, InOrder, IsWhole
<1>8. CASE p.pc = "finish"
  <2>1. x = p  BY <1>8 DEF Step
  <2> QED BY <2>1
<1> QED BY <1>3, <1>4, <1>5, <1>6, <1>7, <1>8

-----------------------------------------------------------------------------
(* What is seen grows from step to step, and when there is more to read.     *)

LEMMA CompleteHasImage ==
  ASSUME NEW m, NEW p, ParserInv(m, p), p.pc \in {"store", "stored"}, p.frame.f.complete
  PROVE  p.frame.f.image # NoData
  BY DEF ParserInv, Reading

LEMMA FrameIsLater ==
  ASSUME NEW m, Buffer(m), NEW p, PathInv(m, p), p.pc = "store", NEW x, x = Step(m, p)
  PROVE  FrameLater(p.frame.f, x.frame.f)
<1> DEFINE d == p.dmux
           r == p.frame
           c == ChunkAt(m, d.start)
           e == Skip(d, CHUNK_HEADER_SIZE)
<1>1. ParserInv(m, p) /\ InOrder(m, p) /\ r \in FrameRead
  BY DEF PathInv, ParserInv, ParserState
<1>2. \/ x.frame = r
      \/ IsAlphaPart(c, r)
      \/ IsImagePart(c, r)
  BY <1>1, PartLooks
<1>3. CASE x.frame = r  BY <1>3 DEF FrameLater
<1>4. CASE IsAlphaPart(c, r) \/ IsImagePart(c, r)
  <2>1. r.f.image = NoData  BY <1>1, <1>4 DEF InOrder, IsAlphaPart, IsImagePart
  <2>2. ~ r.f.complete  BY <1>1, <2>1, CompleteHasImage
  <2> QED BY <2>1, <2>2 DEF FrameLater
<1> QED BY <1>2, <1>3, <1>4

LEMMA FramesAreLater ==
  ASSUME NEW m, NEW n, More(m, n), NEW p, PathInv(m, p), PathInv(n, p), p.pc = "store",
         NEW x, x = Step(m, p), x.status # "ERROR", NEW y, y = Step(n, p), y.status # "ERROR"
  PROVE  FrameLater(x.frame.f, y.frame.f)
<1> DEFINE d == p.dmux
           r == p.frame
           c == ChunkAt(m, d.start)
           e == Skip(d, CHUNK_HEADER_SIZE)
           s == IsThere(m, c, e)
           t == IsThere(n, c, e)
<1>1. /\ ParserInv(m, p) /\ ParserInv(n, p) /\ InOrder(m, p) /\ r \in FrameRead
      /\ Buffer(m) /\ Buffer(n) /\ ChunkAt(n, d.start) = c
  BY MoreIsLonger DEF PathInv, ParserInv, ParserState, More
<1>2. \/ x.frame = r
      \/ IsAlphaPart(c, r) /\ x.frame = AlphaSet(m, r, c, d)
      \/ /\ IsImagePart(c, r) /\ x.frame = ImageSet(m, r, c, d, s)
         /\ ~ Available(m, c, e) < c.v.need
  BY <1>1, PartLooks
<1>3. \/ y.frame = r /\ ~ IsAlphaPart(c, r) /\ ~ IsImagePart(c, r)
      \/ y.frame = r /\ y.status = "NEED_MORE_DATA" /\ IsImagePart(c, r)
         /\ Available(n, c, e) < c.v.need
      \/ IsAlphaPart(c, r) /\ y.frame = AlphaSet(n, r, c, d)
      \/ IsImagePart(c, r) /\ y.frame = ImageSet(n, r, c, d, t)
  BY <1>1, PartLooks
<1>4. CASE x.frame = r  BY <1>1, <1>4, FrameIsLater
<1>5. CASE IsAlphaPart(c, r) /\ x.frame = AlphaSet(m, r, c, d)
  <2>1. r.f.image = NoData  BY <1>1, <1>5 DEF InOrder, IsAlphaPart
  <2>2. ~ r.f.complete  BY <1>1, <2>1, CompleteHasImage
  <2> HIDE DEF d, r, c, e, s, t
  <2>3. x.frame.f.image = r.f.image /\ x.frame.f.complete = r.f.complete
    BY <1>1, <1>5, AlphaSetLooks
  <2> QED BY <2>1, <2>2, <2>3 DEF FrameLater
<1>6. CASE IsImagePart(c, r) /\ x.frame = ImageSet(m, r, c, d, s) /\ ~ Available(m, c, e) < c.v.need
  <2>1. c \in ImageChunk /\ c.v.need \in Nat
    <3>1. c \in AnyChunk  BY <1>1, PartHere
    <3>2. c \in ImageChunk
      BY <1>6, <3>1 DEF IsImagePart, AnyChunk, CanvasChunk, FrameChunk, PlainChunk, ImageTags,
                        PlainTags, Metadata
    <3> QED BY <3>2 DEF ImageChunk
  <2>2. /\ Available(m, c, e) \in Nat /\ Available(n, c, e) \in Nat
        /\ Available(m, c, e) <= Available(n, c, e)
    <3>1. /\ Padded(c.size) \in Nat /\ e \in Demuxer /\ Available(m, c, e) \in Nat
      BY <1>1, PartHere
    <3>2. Available(n, c, e) \in Nat  BY <1>1, PartHere
    <3>3. /\ MemDataSize(m, e) \in Int /\ MemDataSize(n, e) \in Int
          /\ MemDataSize(m, e) <= MemDataSize(n, e)
      BY <3>1, MoreIsLonger DEF Demuxer
    <3> HIDE DEF e, c
    <3>4. Available(m, c, e) <= Available(n, c, e)  BY <3>1, <3>3 DEF Available, MinOf
    <3> QED BY <3>1, <3>2, <3>4
  <2>3. IsImagePart(c, r) /\ ~ IsAlphaPart(c, r)
    BY <1>6 DEF IsImagePart, IsAlphaPart, ImageTags
  <2>4. y.frame = ImageSet(n, r, c, d, t)  BY <1>3, <1>6, <2>1, <2>2, <2>3
  <2>5. s = "OK" => t = s /\ PartOf(n, c, d) = PartOf(m, c, d)  BY <1>1, <1>6, PartIsThere
  <2>6. PartOf(n, c, d) # NoData
    <3>1. CHUNK_HEADER_SIZE + Available(n, c, e) # 0  BY <2>2, SizesAreNat
    <3> QED BY <3>1 DEF PartOf, NoData
  <2> HIDE DEF d, r, c, e, s, t
  <2>7. /\ x.frame.f.alpha = r.f.alpha /\ x.frame.f.width = c.v.width /\ x.frame.f.x = r.f.x
        /\ x.frame.f.has_alpha = (r.f.has_alpha \/ c.v.has_alpha)
        /\ x.frame.f.complete = (s = "OK")
    BY <1>1, <1>6, ImageSetLooks
  <2>8. /\ y.frame.f.alpha = r.f.alpha /\ y.frame.f.width = c.v.width /\ y.frame.f.x = r.f.x
        /\ y.frame.f.has_alpha = (r.f.has_alpha \/ c.v.has_alpha)
        /\ y.frame.f.image = PartOf(n, c, d)
    BY <1>1, <2>4, ImageSetLooks
  <2>9. s = "OK" => x.frame = y.frame  BY <1>6, <2>4, <2>5 DEF ImageSet
  <2> DEFINE a == x.frame.f
             b == y.frame.f
  <2>10. a.complete => b = a  BY <2>7, <2>9, Zenon
  <2>11. b.x = a.x /\ b.width = a.width /\ b.has_alpha = a.has_alpha /\ b.alpha = a.alpha
    BY <2>7, <2>8, Zenon
  <2>12. b.image # NoData  BY <2>6, <2>8
  <2> QED BY <2>10, <2>11, <2>12, Zenon DEF FrameLater
<1> HIDE DEF d, r, c, e, s, t
<1> QED BY <1>2, <1>4, <1>5, <1>6

LEMMA FormatStays ==
  ASSUME NEW d \in Demuxer, NEW r \in FrameRead, d.frames = << >>, NEW g, g = WithImage(d, r)
  PROVE  g.is_ext_format = d.is_ext_format
  BY WithImageLooks, Zenon

\* What is seen of a frame of which nothing has been read.
LEMMA FreshView ==
  ASSUME NEW m, NEW x, ParserInv(m, x), Extended(x.dmux),
         x.pc \in {"store", "stored"} =>
           \/ x.frame.for = "animation" /\ IsFresh(x.frame)
           \/ x.frame.for = "image" /\ x.frame.f = NewFrame
  PROVE  LET d == x.dmux
             v == View(x)
         IN  /\ v.state = d.state /\ v.width = d.width /\ v.flags = d.flags
             /\ v.is_ext_format = d.is_ext_format /\ v.chunks = d.chunks
             /\ \/ v.frames = d.frames
                \/ /\ x.pc \in {"store", "stored"} /\ x.frame.for = "image"
                   /\ d.frames = << >> /\ v.frames = << Shown(d, x.frame) >>
<1>1. x.dmux \in Demuxer /\ x.frame \in FrameRead  BY DEF ParserInv, ParserState
<1>2. CASE x.pc \in {"store", "stored"} /\ x.frame.for = "image"
  <2>1. x.dmux.frames = << >>  BY <1>2 DEF ParserInv, Reading, ReadFor
  <2>2. View(x) = WithImage(x.dmux, x.frame)  BY <1>2 DEF View
  <2>3. x.dmux.is_ext_format  BY DEF Extended
  <2> DEFINE d == x.dmux
             v == View(x)
  <2>4. /\ v.state = d.state /\ v.width = d.width /\ v.flags = d.flags
        /\ v.chunks = d.chunks /\ v.frames = << Shown(d, x.frame) >>
    BY <1>1, <2>1, <2>2, <2>3, WithImageLooks
  <2>5. v.is_ext_format = d.is_ext_format  BY <1>1, <2>1, <2>2, FormatStays, Zenon
  <2> QED BY <1>2, <2>1, <2>4, <2>5
<1>3. CASE x.pc \in {"store", "stored"} /\ x.frame.for = "animation"
  <2>1. View(x) = x.dmux  BY <1>3 DEF View, WithFrame, IsFresh
  <2> QED BY <2>1
<1>4. CASE x.pc \notin {"store", "stored"}  BY <1>4 DEF View
<1> QED BY <1>2, <1>3, <1>4

LEMMA ChunkGrows ==
  ASSUME NEW m, Buffer(m), NEW p, ParserInv(m, p), p.pc = "chunks", NEW x, x = Step(m, p),
         x.status # "ERROR"
  PROVE  /\ Grows(View(p), View(x)) /\ View(p) = p.dmux
         /\ x.pc \in {"store", "stored"} => x.frame.for \in {"image", "animation"}
         /\ LET v == View(x)
                d == p.dmux
            IN  /\ v.state = d.state /\ v.width = d.width /\ v.flags = d.flags
                /\ v.is_ext_format = d.is_ext_format /\ v.chunks = x.dmux.chunks
                /\ ~ IsOfImage(ChunkAt(m, p.dmux.start)) => v.frames = d.frames
<1> DEFINE d == p.dmux
           c == ChunkAt(m, d.start)
           e == Skip(d, CHUNK_HEADER_SIZE)
           v == View(x)
           part == ChunkPart(c, e)
<1>1. /\ d \in Demuxer /\ Extended(d) /\ d.chunks \in Seq(Part) /\ d.frames \in Seq(Frame)
      /\ ParserInv(m, x)
  BY StepIsOk DEF ParserInv, ParserState, Demuxer
<1>2. /\ SameLook(d, x.dmux)
      /\ x.dmux.chunks = d.chunks \/ x.dmux.chunks = Append(d.chunks, part)
      /\ IsOfImage(c) => x.pc = "store" /\ x.frame = FreshImage(d) /\ x.dmux = d /\ d.frames = << >>
      /\ ~ IsOfImage(c) /\ x.pc \in {"store", "stored"} =>
           x.frame.for = "animation" /\ IsFresh(x.frame)
  <2>1. /\ SameLook(d, x.dmux)
        /\ x.dmux.chunks = IF IsKept(c, e) /\ ~ Padded(c.size) > MemDataSize(m, e)
                           THEN Append(d.chunks, part) ELSE d.chunks
    BY ChunkLooks
  <2>2. IsOfImage(c) => x.pc = "store" /\ x.frame = FreshImage(d) /\ x.dmux = d /\ d.frames = << >>
    BY ChunkLooks
  <2>3. ~ IsOfImage(c) /\ x.pc \in {"store", "stored"} =>
           x.frame.for = "animation" /\ IsFresh(x.frame)
    BY ChunkLooks
  <2> HIDE DEF d, c, e, part
  <2> QED BY <2>1, <2>2, <2>3
<1>3. View(p) = d  BY DEF View
<1>4. /\ x.dmux.state = d.state /\ x.dmux.width = d.width /\ x.dmux.flags = d.flags
      /\ x.dmux.is_ext_format = d.is_ext_format /\ x.dmux.frames = d.frames /\ Extended(x.dmux)
  BY <1>1, <1>2 DEF SameLook, Extended
<1>5. x.pc \in {"store", "stored"} =>
           \/ x.frame.for = "animation" /\ IsFresh(x.frame)
           \/ x.frame.for = "image" /\ x.frame.f = NewFrame
  BY <1>2 DEF FreshImage
<1> HIDE DEF d, c, e, part
<1>6. /\ v.state = d.state /\ v.width = d.width /\ v.flags = d.flags
      /\ v.is_ext_format = d.is_ext_format /\ v.chunks = x.dmux.chunks
      /\ \/ v.frames = d.frames
         \/ /\ x.pc \in {"store", "stored"} /\ x.frame.for = "image"
            /\ d.frames = << >> /\ v.frames = << Shown(x.dmux, x.frame) >>
  BY <1>1, <1>4, <1>5, FreshView
<1> HIDE DEF v
<1>7. /\ Len(d.chunks) <= Len(v.chunks)
      /\ \A i \in 1 .. Len(d.chunks) : v.chunks[i] = d.chunks[i]
  <2>1. v.chunks = d.chunks \/ v.chunks = Append(d.chunks, part)  BY <1>2, <1>6
  <2> QED BY <1>1, <2>1
<1>8. /\ Len(d.frames) <= Len(v.frames)
      /\ \A i \in 1 .. Len(d.frames) : v.frames[i] = d.frames[i]
  <2>1. CASE v.frames = d.frames  BY <1>1, <2>1
  <2>2. CASE d.frames = << >> /\ v.frames = << Shown(x.dmux, x.frame) >>  BY <2>2
  <2> QED BY <1>6, <2>1, <2>2
<1>9. Grows(d, v)  BY <1>6, <1>7, <1>8 DEF Grows, Usable
<1> QED BY <1>2, <1>3, <1>5, <1>6, <1>9 DEF d, v, c

LEMMA ChunksGrow ==
  ASSUME NEW m, NEW n, More(m, n), NEW p, ParserInv(m, p), ParserInv(n, p), p.pc = "chunks",
         NEW x, x = Step(m, p), x.status # "ERROR", NEW y, y = Step(n, p), y.status # "ERROR"
  PROVE  Grows(View(x), View(y))
<1> DEFINE d == p.dmux
           c == ChunkAt(m, d.start)
           e == Skip(d, CHUNK_HEADER_SIZE)
           part == ChunkPart(c, e)
           v == View(x)
           w == View(y)
<1>1. /\ d \in Demuxer /\ d.chunks \in Seq(Part) /\ d.frames \in Seq(Frame)
      /\ Boundary(m, d.start) /\ d.start + CHUNK_HEADER_SIZE <= m.end
      /\ Buffer(m) /\ Buffer(n) /\ ChunkAt(n, d.start) = c
  BY MoreIsLonger DEF ParserInv, ParserState, Demuxer, More
<1>2. /\ x.dmux.chunks = IF IsKept(c, e) /\ ~ Padded(c.size) > MemDataSize(m, e)
                         THEN Append(d.chunks, part) ELSE d.chunks
      /\ IsOfImage(c) => x.pc = "store" /\ x.frame = FreshImage(d) /\ x.dmux = d
  BY <1>1, ChunkLooks
<1>3. /\ y.dmux.chunks = IF IsKept(c, e) /\ ~ Padded(c.size) > MemDataSize(n, e)
                         THEN Append(d.chunks, part) ELSE d.chunks
      /\ IsOfImage(c) => y.pc = "store" /\ y.frame = FreshImage(d) /\ y.dmux = d
  BY <1>1, ChunkLooks
<1>4. v \in Demuxer /\ w \in Demuxer  BY <1>1, StepIsOk, ViewIsTyped
<1>5. v.chunks \in Seq(Part) /\ v.frames \in Seq(Frame)  BY <1>4 DEF Demuxer
<1>6. CASE IsOfImage(c)
  <2>1. v = w  BY <1>2, <1>3, <1>6 DEF View
  <2> QED BY <1>5, <2>1, GrowsFromItself
<1>7. CASE ~ IsOfImage(c)
  <2>1. /\ v.state = d.state /\ v.width = d.width /\ v.flags = d.flags
        /\ v.is_ext_format = d.is_ext_format /\ v.chunks = x.dmux.chunks
        /\ v.frames = d.frames
    BY <1>1, <1>7, ChunkGrows
  <2>2. /\ w.state = d.state /\ w.width = d.width /\ w.flags = d.flags
        /\ w.is_ext_format = d.is_ext_format /\ w.chunks = y.dmux.chunks
        /\ w.frames = d.frames
    BY <1>1, <1>7, ChunkGrows
  <2>3. ~ Padded(c.size) > MemDataSize(m, e) => ~ Padded(c.size) > MemDataSize(n, e)
    <3>1. e \in Demuxer /\ e.start \in Nat
      BY <1>1, SizesAreNat, SkipIsDemuxer DEF Demuxer
    <3>2. Padded(c.size) \in Nat
      <4>1. c \in AnyChunk  BY <1>1, ChunkHere
      <4> QED BY <4>1, ChunkHasSize, PaddedIsNat
    <3> QED BY <3>1, <3>2, MoreIsLonger
  <2> HIDE DEF d, c, e, part, v, w
  <2>4. \/ w.chunks = v.chunks
        \/ v.chunks = d.chunks /\ w.chunks = Append(d.chunks, part)
    BY <1>2, <1>3, <2>1, <2>2, <2>3
  <2>5. /\ Len(v.chunks) <= Len(w.chunks)
        /\ \A i \in 1 .. Len(v.chunks) : w.chunks[i] = v.chunks[i]
    BY <1>1, <1>5, <2>4
  <2>6. Len(v.frames) \in Nat  BY <1>5
  <2> QED BY <2>1, <2>2, <2>5, <2>6 DEF Grows, Usable, v, w
<1> QED BY <1>6, <1>7

\* What is seen grows when a call goes on.
LEMMA StepGrows ==
  ASSUME NEW m, Buffer(m), NEW p, PathInv(m, p), Settled(p),
         p.pc = "stored" => p.status # "ERROR",
         NEW x, x = Step(m, p), x.status # "ERROR"
  PROVE  Grows(View(p), View(x))
<1>1. ParserInv(m, p) /\ ParserInv(m, x) /\ p \in ParserState /\ x \in ParserState
      /\ p.pc \in {"master", "chunks", "store", "stored", "finish"}
  BY StepIsOk DEF PathInv, ParserInv, ParserState
<1>2. View(p).chunks \in Seq(Part) /\ View(p).frames \in Seq(Frame)
  BY <1>1, ViewIsTyped DEF Demuxer
<1>3. CASE p.pc = "master"
  <2>1. p.dmux = InitDemux /\ View(p) = p.dmux  BY <1>1, <1>3 DEF ParserInv, View
  <2> QED BY <2>1 DEF Grows, Usable, InitDemux
<1>4. CASE p.pc = "chunks"  BY <1>1, <1>4, ChunkGrows
<1>5. CASE p.pc = "store"
  <2>1. /\ x.pc \in {"store", "stored"} /\ SameFrame(p.frame, x.frame)
        /\ SameLook(p.dmux, x.dmux) /\ x.dmux.chunks = p.dmux.chunks
    BY <1>1, <1>5, PartLooks
  <2>2. FrameLater(p.frame.f, x.frame.f)  BY <1>5, FrameIsLater
  <2>3. ReadFor(m, p.dmux, p.frame)  BY <1>1, <1>5 DEF ParserInv, Reading
  <2> QED BY <1>1, <1>5, <2>1, <2>2, <2>3, ViewGrows
<1>6. CASE p.pc = "stored"
  <2>1. x.dmux = View(p) /\ x.pc \in {"chunks", "finish"}  BY <1>1, <1>6, StoredLooks
  <2>2. View(x) = View(p)  BY <2>1 DEF View
  <2> QED BY <1>2, <2>2, GrowsFromItself
<1>7. CASE p.pc = "finish"
  <2>1. x = p  BY <1>7 DEF Step
  <2> QED BY <1>2, <2>1, GrowsFromItself
<1> QED BY <1>1, <1>3, <1>4, <1>5, <1>6, <1>7

\* What is seen grows when there is more to read.
LEMMA StepsGrow ==
  ASSUME NEW m, NEW n, More(m, n), NEW p, PathInv(m, p), PathInv(n, p), Settled(p),
         p.pc = "stored" => p.status # "ERROR",
         NEW x, x = Step(m, p), x.status # "ERROR", NEW y, y = Step(n, p), y.status # "ERROR"
  PROVE  Grows(View(x), View(y))
<1>1. /\ Buffer(m) /\ Buffer(n) /\ ParserInv(m, p) /\ ParserInv(n, p) /\ p \in ParserState
      /\ p.pc \in {"master", "chunks", "store", "stored", "finish"}
  BY DEF PathInv, ParserInv, ParserState, More
<1>2. ParserInv(m, x) /\ ParserInv(n, y) /\ x \in ParserState /\ y \in ParserState
  BY <1>1, StepIsOk DEF ParserInv
<1>3. View(x).chunks \in Seq(Part) /\ View(x).frames \in Seq(Frame)
  BY <1>2, ViewIsTyped DEF Demuxer
<1>4. CASE p.pc = "master"  BY <1>1, <1>4, MasterGrows
<1>5. CASE p.pc = "chunks"  BY <1>1, <1>5, ChunksGrow
<1>6. CASE p.pc = "store"
  <2>1. /\ x.pc \in {"store", "stored"} /\ SameFrame(p.frame, x.frame)
        /\ SameLook(p.dmux, x.dmux) /\ x.dmux.chunks = p.dmux.chunks
    BY <1>1, <1>6, PartLooks
  <2>2. /\ y.pc \in {"store", "stored"} /\ SameFrame(p.frame, y.frame)
        /\ SameLook(p.dmux, y.dmux) /\ y.dmux.chunks = p.dmux.chunks
    BY <1>1, <1>6, PartLooks
  <2>3. FrameLater(x.frame.f, y.frame.f)  BY <1>6, FramesAreLater
  <2>4. ReadFor(m, x.dmux, x.frame)  BY <1>2, <2>1 DEF ParserInv, Reading
  <2>5. SameFrame(x.frame, y.frame) /\ SameLook(x.dmux, y.dmux) /\ y.dmux.chunks = x.dmux.chunks
    BY <2>1, <2>2 DEF SameFrame, SameLook
  <2> QED BY <1>2, <2>1, <2>2, <2>3, <2>4, <2>5, ViewGrows
<1>7. CASE p.pc = "stored"
  <2>1. /\ x.dmux = View(p) /\ x.pc \in {"chunks", "finish"}
        /\ y.dmux = View(p) /\ y.pc \in {"chunks", "finish"}
    BY <1>1, <1>7, StoredLooks
  <2>2. View(x) = View(y)  BY <2>1 DEF View
  <2> QED BY <1>3, <2>2, GrowsFromItself
<1>8. CASE p.pc = "finish"
  <2>1. x = p /\ y = p  BY <1>8 DEF Step
  <2> QED BY <1>3, <2>1, GrowsFromItself
<1> QED BY <1>1, <1>4, <1>5, <1>6, <1>7, <1>8

-----------------------------------------------------------------------------
(* A call that has less to read than a call that ends well: it goes the same *)
(* way, or it stops for want of data.                                        *)

\* Only the end of the data makes StoreFrame want more when all of a chunk is there.
LEMMA PartWants ==
  ASSUME NEW m, Buffer(m), NEW p, ParserInv(m, p), p.pc = "store", NEW x, x = Step(m, p),
         NEW c, c = ChunkAt(m, p.dmux.start), NEW d, d = Skip(p.dmux, CHUNK_HEADER_SIZE),
         x.status = "NEED_MORE_DATA", IsThere(m, c, d) = "OK"
  PROVE  MemDataSize(m, x.dmux) < CHUNK_HEADER_SIZE
<1> DEFINE d0 == p.dmux
           r == p.frame
           s == IsThere(m, c, d)
           e == Skip(d, Available(m, c, d))
<1>1. x = StorePart(m, d0, r) /\ s = "OK"  BY DEF Step
<1>2. ASSUME NEW f, NEW g, NEW done, x = EndOfFramePart(m, s, done, f, g)
      PROVE  MemDataSize(m, x.dmux) < CHUNK_HEADER_SIZE
  BY <1>1, <1>2 DEF EndOfFramePart, At
<1> HIDE DEF d0, r, s, e
<1>3. c = ChunkAt(m, d0.start) /\ d = Skip(d0, CHUNK_HEADER_SIZE)  BY DEF d0
<1>4. \/ x = FrameGivenUp("ERROR", d, r)
      \/ x = FrameGoesOn(m, s, e, AlphaSet(m, r, c, d0))
      \/ x = FrameGoesOn(m, s, e, ImageSet(m, r, c, d0, s))
      \/ x = FrameEnds(m, s, d0, r)
  BY <1>1, <1>3, StorePartCases DEF s, e
<1>5. x # FrameGivenUp("ERROR", d, r)  BY DEF FrameGivenUp, At
<1> QED BY <1>2, <1>4, <1>5 DEF FrameGoesOn, FrameEnds

LEMMA PartSettles ==
  ASSUME NEW m, NEW n, More(m, n), NEW p, PathInv(m, p), ParserInv(n, p), p.pc = "store",
         NEW x, x = Step(m, p), x.status = "NEED_MORE_DATA",
         NEW y, y = Step(n, p), y.status = "OK", ~ Doomed(y)
  PROVE  Settled(x)
<1> DEFINE d == p.dmux
           r == p.frame
           c == ChunkAt(m, d.start)
           e == Skip(d, CHUNK_HEADER_SIZE)
           s == IsThere(m, c, e)
           t == IsThere(n, c, e)
           a == Available(m, c, e)
           b == Available(n, c, e)
           start == d.start + CHUNK_HEADER_SIZE
           from == r.from
           payload == r.payload
<1>1. /\ ParserInv(m, p) /\ IsWhole(m, p) /\ Buffer(m) /\ Buffer(n)
      /\ ChunkAt(n, d.start) = c /\ r \in FrameRead
  BY MoreIsLonger DEF PathInv, ParserInv, ParserState, More
<1>2. /\ from \in Nat /\ payload \in Nat /\ d.start \in Nat /\ start \in Nat
      /\ m.end \in Nat /\ n.end \in Nat /\ m.end <= n.end
  <2>1. from \in Nat /\ payload \in Nat  BY <1>1 DEF FrameRead
  <2>2. m.end \in Nat /\ n.end \in Nat /\ m.end <= n.end  BY <1>1 DEF Buffer, More
  <2>3. d \in Demuxer  BY <1>1 DEF ParserInv, ParserState
  <2>4. d.start \in Nat  BY <2>3 DEF Demuxer
  <2> QED BY <2>1, <2>2, <2>4, SizesAreNat
<1>3. /\ a \in Nat /\ Padded(c.size) \in Nat /\ e \in Demuxer /\ e.start = start
      /\ s = "OK" => a = Padded(c.size)
      /\ s # "OK" => a < Padded(c.size)
  BY <1>1, PartHere
<1>4. /\ b \in Nat
      /\ t = "OK" => b = Padded(c.size)
  BY <1>1, PartHere
<1>5. s # "OK" => a = m.end - start
  <2>1. MemDataSize(m, e) = m.end - start  BY <1>3 DEF MemDataSize
  <2> HIDE DEF c, e, start
  <2> QED BY <1>2, <1>3, <2>1 DEF s, a, IsThere, Available, MinOf
<1>6. a <= b
  <2>1. /\ MemDataSize(m, e) \in Int /\ MemDataSize(n, e) \in Int
        /\ MemDataSize(m, e) <= MemDataSize(n, e)
    BY <1>3, MoreIsLonger DEF Demuxer
  <2> HIDE DEF c, e, start
  <2> QED BY <1>3, <2>1 DEF a, b, Available, MinOf
<1>7. /\ x.pc \in {"store", "stored"} /\ SameFrame(r, x.frame) /\ SameLook(d, x.dmux)
      /\ \/ x.frame = r /\ s # "OK" /\ IsImagePart(c, r) /\ x.dmux.start = start
         \/ IsAlphaPart(c, r) /\ x.frame = AlphaSet(m, r, c, d) /\ x.dmux.start = start + a
         \/ IsImagePart(c, r) /\ x.frame = ImageSet(m, r, c, d, s) /\ x.dmux.start = start + a
         \/ /\ ~ IsAlphaPart(c, r) /\ ~ IsImagePart(c, r)
            /\ x.frame = r /\ x.dmux = d
  BY <1>1, PartLooks
<1>8. /\ y.pc \in {"store", "stored"} /\ SameFrame(r, y.frame) /\ SameLook(d, y.dmux)
      /\ \/ /\ IsAlphaPart(c, r) /\ y.frame = AlphaSet(n, r, c, d) /\ y.dmux.start = start + b
            /\ t = "OK"
         \/ /\ IsImagePart(c, r) /\ y.dmux.start = start + b /\ t = "OK"
         \/ /\ ~ IsAlphaPart(c, r) /\ ~ IsImagePart(c, r)
            /\ y.pc = "stored" /\ y.frame = r /\ y.dmux = d
  BY <1>1, PartLooks
<1>9. ~ (IsAlphaPart(c, r) /\ IsImagePart(c, r))
  BY DEF IsAlphaPart, IsImagePart, ImageTags
<1>10. s = "OK" => PartOf(n, c, d) = PartOf(m, c, d) /\ b = a  BY <1>1, PartIsThere
<1>11. s = "OK" => MemDataSize(m, x.dmux) < CHUNK_HEADER_SIZE  BY <1>1, PartWants
<1> SUFFICES ASSUME x.pc = "stored", x.frame.for = "animation"
             PROVE  /\ ~ Overrun(x.dmux, x.frame)
                    /\ ~ (IsAnimation(x.dmux) /\ x.frame.f.frame_num > 0 /\ ~ x.frame.f.complete)
  BY DEF Settled
<1>12. /\ r.for = "animation" /\ y.frame.for = "animation"
       /\ x.frame.from = from /\ x.frame.payload = payload
       /\ y.frame.from = from /\ y.frame.payload = payload
       /\ from + payload <= m.end
  BY <1>1, <1>7, <1>8 DEF SameFrame, IsWhole
<1>13. InAnimation(y)  BY <1>8, <1>12 DEF InAnimation
<1>14. ~ (y.dmux.start - from > payload)  BY <1>12, <1>13 DEF Doomed, Overrun
<1>15. x.dmux.start \in Nat /\ y.dmux.start \in Nat
  BY <1>1, StepIsOk DEF ParserInv, ParserState, Demuxer
<1>16. IsAnimation(x.dmux) = IsAnimation(d) /\ IsAnimation(y.dmux) = IsAnimation(d)
  BY <1>7, <1>8 DEF SameLook, IsAnimation
<1> HIDE DEF from, payload, start, a, b, s, t, d, r, c, e
<1>17. x.dmux.start <= y.dmux.start  BY <1>2, <1>3, <1>4, <1>6, <1>7, <1>8, <1>9, <1>15
<1>18. ~ Overrun(x.dmux, x.frame)
  <2>1. ~ (x.dmux.start - from > payload)  BY <1>2, <1>14, <1>15, <1>17
  <2> QED BY <1>12, <2>1 DEF Overrun
<1> SUFFICES ASSUME IsAnimation(d), x.frame.f.frame_num > 0, ~ x.frame.f.complete PROVE FALSE
  BY <1>16, <1>18
<1>19. ~ (y.frame.f.frame_num > 0 /\ ~ y.frame.f.complete /\ NothingFollows(y))
  BY <1>13, <1>16 DEF Doomed, IsBroken
<1>20. CASE ~ IsAlphaPart(c, r) /\ ~ IsImagePart(c, r)
  <2>1. x.frame = y.frame /\ y.pc = "stored"  BY <1>7, <1>8, <1>20
  <2> QED BY <1>19, <2>1 DEF NothingFollows
<1>21. CASE IsAlphaPart(c, r) \/ IsImagePart(c, r)
  <2>1. t = "OK" /\ y.dmux.start = start + b /\ b = Padded(c.size)  BY <1>4, <1>8, <1>21
  <2>2. s = "OK"
    <3> SUFFICES ASSUME s # "OK" PROVE FALSE
      OBVIOUS
    <3>1. b > m.end - start  BY <1>3, <1>4, <1>5, <2>1
    <3>2. y.dmux.start > m.end  BY <1>2, <1>4, <2>1, <3>1
    <3> QED BY <1>2, <1>12, <1>14, <1>15, <3>2
  <2>3. CASE IsAlphaPart(c, r)
    <3>1. x.frame = AlphaSet(m, r, c, d) /\ y.frame = AlphaSet(n, r, c, d) /\ x.dmux.start = start + a
      BY <1>7, <1>8, <1>9, <2>2, <2>3
    <3>2. y.frame = x.frame  BY <1>10, <2>2, <3>1 DEF AlphaSet
    <3>3. m.end - x.dmux.start < CHUNK_HEADER_SIZE  BY <1>11, <2>2 DEF MemDataSize
    <3>4. y.dmux.start = x.dmux.start  BY <1>10, <2>1, <2>2, <3>1
    <3>5. y.dmux.start + CHUNK_HEADER_SIZE - y.frame.from > y.frame.payload
      <4>1. y.dmux.start + CHUNK_HEADER_SIZE - from > payload
        BY <1>2, <1>12, <1>15, <3>3, <3>4, SizesAreNat
      <4> QED BY <1>12, <4>1
    <3> QED BY <1>19, <3>2, <3>5 DEF NothingFollows
  <2>4. CASE IsImagePart(c, r)
    <3>1. x.frame = ImageSet(m, r, c, d, s)  BY <1>7, <1>9, <2>2, <2>4
    <3>2. x.frame.f.complete = (s = "OK")  BY <1>1, <3>1, ImageSetLooks
    <3> QED BY <2>2, <3>2
  <2> QED BY <1>21, <2>3, <2>4
<1> QED BY <1>20, <1>21

\* Calls that end well are well all the time.
LEMMA OnPathIsWell ==
  ASSUME NEW F, Buffer(F), NEW z, ParserInv(F, z), NEW q, Leads(F, z, q), EndsWell(q),
         NEW y, y = Step(F, z)
  PROVE  /\ ~ Doomed(z) /\ Settled(z) /\ Leads(F, y, q)
         /\ z.pc \in {"stored", "finish"} => z.status = "OK"
         /\ ParserInv(F, y) /\ ~ Doomed(y) /\ y.status = "OK"
<1>1. ~ Doomed(z)  BY DoomedEndsBadly
<1>2. Settled(z)
  <2> SUFFICES ASSUME z.pc = "stored", z.frame.for = "animation"
               PROVE  /\ ~ Overrun(z.dmux, z.frame)
                      /\ IsAnimation(z.dmux) /\ z.frame.f.frame_num > 0 => z.frame.f.complete
    BY DEF Settled
  <2>1. InAnimation(z) /\ NothingFollows(z)  BY DEF InAnimation, NothingFollows
  <2>2. ~ Overrun(z.dmux, z.frame) /\ ~ IsBroken(z)  BY <1>1, <2>1 DEF Doomed
  <2> QED BY <2>1, <2>2 DEF IsBroken
<1>3. z.pc \in {"stored", "finish"} => z.status = "OK"  BY <1>1 DEF Doomed
<1>4. Leads(F, y, q)
  <2>1. CASE z = q
    <3>1. y = z  BY <2>1 DEF Step, EndsWell
    <3> QED BY <3>1
  <2>2. CASE z # q  BY <2>2, LeadsFirst
  <2> QED BY <2>1, <2>2
<1>5. ParserInv(F, y)  BY StepIsOk
<1>6. ~ Doomed(y)  BY <1>4, <1>5, DoomedEndsBadly
<1>7. y.pc # "master"  BY StepIsNotMaster
<1>8. y.status = "OK"  BY <1>5, <1>6, <1>7, NotOkIsDoomed
<1> QED BY <1>1, <1>2, <1>3, <1>4, <1>5, <1>6, <1>8

LEMMA ViewIsComplete ==
  ASSUME NEW m, NEW z, ParserInv(m, z), z.pc = "finish" => z.status # "ERROR",
         ~ HasBrokenFrame(z.dmux)
  PROVE  AllComplete(View(z))
<1> DEFINE d == z.dmux
           r == z.frame
<1>1. /\ z \in ParserState /\ d \in Demuxer /\ r \in FrameRead
      /\ z.pc \in {"master", "chunks", "store", "stored", "finish"}
      /\ d.frames \in Seq(Frame) /\ d.num_frames + 1 \in Nat /\ r.f \in Frame
  BY DEF ParserInv, ParserState, FrameRead, Demuxer
<1>2. CASE z.pc \notin {"store", "stored"}
  <2>1. View(z) = d  BY <1>2 DEF View
  <2>2. IsAnimation(d) => d.is_ext_format
    BY <1>1, <1>2 DEF ParserInv, Extended, Final, InitDemux, IsAnimation
  <2> QED BY <2>1, <2>2 DEF AllComplete, HasBrokenFrame
<1>3. CASE z.pc \in {"store", "stored"} /\ r.for = "image"
  <2>1. ~ IsAnimation(d) /\ d.frames = << >> /\ (Extended(d) \/ Simple(d))
    BY <1>3 DEF ParserInv, Reading, ReadFor
  <2>2. View(z) = WithImage(d, r)  BY <1>3 DEF View
  <2>3. ~ IsAnimation(WithImage(d, r))  BY <1>1, <2>1, WithImageLooks DEF IsAnimation
  <2> QED BY <2>2, <2>3 DEF AllComplete
<1>4. CASE z.pc \in {"store", "stored"} /\ r.for # "image"
  <2>1. Extended(d)  BY <1>4 DEF ParserInv, Reading, ReadFor
  <2>2. View(z) = WithFrame(d, r)  BY <1>4 DEF View
  <2>3. \A i \in 1 .. Len(d.frames) : d.frames[i].complete
    BY <2>1 DEF HasBrokenFrame, Extended
  <2>4. CASE IsAnimation(d) /\ r.f.complete
    <3>1. AddFrame(d, r.f, d.num_frames + 1).frames = Append(d.frames, r.f)
      BY <1>1, FrameIsAdded
    <3>2. \A i \in 1 .. Len(Append(d.frames, r.f)) : Append(d.frames, r.f)[i].complete
      BY <1>1, <2>3, <2>4
    <3> QED BY <2>2, <2>4, <3>1, <3>2 DEF WithFrame, AllComplete
  <2>5. CASE ~ (IsAnimation(d) /\ r.f.complete)
    BY <2>2, <2>3, <2>5 DEF WithFrame, AllComplete
  <2> QED BY <2>4, <2>5
<1> QED BY <1>2, <1>3, <1>4

\* What may be left of a frame when the data end.
LEMMA StopIsSettled ==
  ASSUME NEW m, NEW F, More(m, F), NEW z, PathInv(m, z), ParserInv(F, z),
         Settled(z), z.pc \in {"stored", "finish"} => z.status = "OK",
         NEW x, x = Step(m, z), x.status = "NEED_MORE_DATA", ParserInv(m, x),
         NEW y, y = Step(F, z), y.status = "OK", ~ Doomed(y)
  PROVE  Settled(x)
<1>1. /\ Buffer(m) /\ ParserInv(m, z)
      /\ z.pc \in {"master", "chunks", "store", "stored", "finish"}
  BY DEF More, PathInv, ParserInv, ParserState
<1>2. CASE z.pc = "master"
  <2>1. x.pc = "stored" => x.frame = FreshImage(z.dmux)  BY <1>1, <1>2, MasterLooks
  <2>2. FreshImage(z.dmux).for = "image"  BY DEF FreshImage
  <2> QED BY <2>1, <2>2 DEF Settled
<1>3. CASE z.pc = "chunks"
  <2> SUFFICES ASSUME x.pc = "stored", x.frame.for = "animation"
               PROVE  /\ ~ Overrun(x.dmux, x.frame)
                      /\ IsAnimation(x.dmux) /\ x.frame.f.frame_num > 0 => x.frame.f.complete
    BY DEF Settled
  <2>1. IsFresh(x.frame) /\ x.dmux.start = x.frame.from /\ x.frame.payload >= 0
    <3> DEFINE c == ChunkAt(m, z.dmux.start)
               d == Skip(z.dmux, CHUNK_HEADER_SIZE)
    <3>1. /\ IsOfImage(c) => x.pc = "store"
          /\ ~ IsOfImage(c) /\ x.pc \in {"store", "stored"} =>
               IsFresh(x.frame) /\ x.dmux.start = x.frame.from /\ x.frame.payload >= 0
      BY <1>1, <1>3, ChunkLooks
    <3> HIDE DEF c
    <3> QED BY <3>1
  <2>2. x.dmux.start \in Nat /\ x.frame.payload \in Nat
    BY DEF ParserInv, ParserState, Demuxer, FrameRead
  <2>3. ~ Overrun(x.dmux, x.frame)  BY <2>1, <2>2 DEF Overrun
  <2> QED BY <2>1, <2>3 DEF IsFresh
<1>4. CASE z.pc = "store"  BY <1>4, PartSettles
<1>5. CASE z.pc = "stored"
  <2>1. x.pc \in {"chunks", "finish"}  BY <1>1, <1>5, StoredLooks
  <2> QED BY <2>1 DEF Settled
<1>6. CASE z.pc = "finish"
  <2>1. x = z  BY <1>6 DEF Step
  <2> QED BY <2>1
<1> QED BY <1>1, <1>2, <1>3, <1>4, <1>5, <1>6

LEMMA StopIsComplete ==
  ASSUME NEW m, Buffer(m), NEW z, ParserInv(m, z), ~ Doomed(z), Settled(z),
         z.pc \in {"stored", "finish"} => z.status = "OK",
         NEW x, x = Step(m, z), x.status = "NEED_MORE_DATA", ParserInv(m, x)
  PROVE  AllComplete(View(x))
<1>1. z.pc \in {"master", "chunks", "store", "stored", "finish"} /\ ~ HasBrokenFrame(z.dmux)
  BY DEF ParserInv, ParserState, Doomed
<1>2. ~ HasBrokenFrame(x.dmux) => AllComplete(View(x))  BY ViewIsComplete
<1>3. CASE z.pc = "master"
  <2>1. x.dmux.frames = << >>  BY <1>3, MasterLooks
  <2> QED BY <1>2, <2>1 DEF HasBrokenFrame
<1>4. CASE z.pc = "chunks"
  <2>1. SameLook(z.dmux, x.dmux)  BY <1>4, ChunkLooks
  <2> QED BY <1>1, <1>2, <2>1 DEF HasBrokenFrame, SameLook
<1>5. CASE z.pc = "store"
  <2>1. SameLook(z.dmux, x.dmux)  BY <1>5, PartLooks
  <2> QED BY <1>1, <1>2, <2>1 DEF HasBrokenFrame, SameLook
<1>6. CASE z.pc = "stored"
  <2>1. x.dmux = View(z) /\ x.pc \in {"chunks", "finish"}  BY <1>6, StoredLooks
  <2>2. AllComplete(View(z))  BY <1>1, <1>6, ViewIsComplete
  <2>3. View(x) = x.dmux  BY <2>1 DEF View
  <2> QED BY <2>1, <2>2, <2>3
<1>7. CASE z.pc = "finish"
  <2>1. x = z  BY <1>7 DEF Step
  <2> QED BY <1>7, <2>1
<1> QED BY <1>1, <1>3, <1>4, <1>5, <1>6, <1>7

\* A call with less data goes the same way or stops.
LEMMA OnTheWay ==
  ASSUME NEW m, NEW F, More(m, F), ~ AlphaAfter(F), NEW z, PathInv(m, z), PathInv(F, z),
         NEW q, Leads(F, z, q), EndsWell(q),
         NEW x, x = Step(m, z), NEW y, y = Step(F, z)
  PROVE  /\ PathInv(F, y) /\ PathInv(m, x) /\ Leads(F, y, q)
         /\ x.status # "ERROR" /\ y.status # "ERROR" /\ Settled(z)
         /\ z.pc = "stored" => z.status # "ERROR"
         /\ x = y \/ Diverged(m, x)
         /\ x.status = "NEED_MORE_DATA" \/ x = y
<1>1. Buffer(m) /\ Buffer(F) /\ ParserInv(m, z) /\ ParserInv(F, z)  BY DEF More, PathInv
<1>2. /\ ~ Doomed(z) /\ Settled(z) /\ Leads(F, y, q)
      /\ z.pc \in {"stored", "finish"} => z.status = "OK"
      /\ ParserInv(F, y) /\ ~ Doomed(y) /\ y.status = "OK"
  BY <1>1, OnPathIsWell
<1>3. ~ AlphaAfter(m)  BY DEF More, AlphaAfter
<1>4. PathInv(F, y)  BY <1>1, <1>2, PathStays
<1>5. ParserInv(m, x) /\ x.pc # "master"  BY <1>1, StepIsOk, StepIsNotMaster
<1>6. x.status # "NEED_MORE_DATA" => x = y  BY <1>1, StepIsSame
<1>7. x.status # "ERROR"  BY <1>2, <1>6
<1>8. PathInv(m, x)  BY <1>1, <1>2, <1>3, <1>7, PathStays
<1>9. ASSUME x.status = "NEED_MORE_DATA" PROVE Diverged(m, x)
  <2>1. x.pc \in {"stored", "finish"}  BY <1>5, <1>9 DEF ParserInv, ParserState
  <2>2. Settled(x)  BY <1>1, <1>2, <1>5, <1>9, StopIsSettled
  <2>3. AllComplete(View(x))  BY <1>1, <1>2, <1>5, <1>9, StopIsComplete
  <2>4. Partial(m)
    <3> SUFFICES ASSUME ~ Partial(m) PROVE FALSE
      OBVIOUS
    <3>1. F.end <= m.end  BY DEF More, Buffer, Partial
    <3>2. More(F, m)  BY <3>1 DEF More
    <3>3. x = y  BY <1>1, <1>2, <3>2, StepIsSame
    <3> QED BY <1>2, <1>9, <3>3
  <2> QED BY <1>8, <1>9, <2>1, <2>2, <2>3, <2>4 DEF Diverged
<1> QED BY <1>2, <1>4, <1>6, <1>7, <1>8, <1>9

LEMMA DivergedStays ==
  ASSUME NEW m, Buffer(m), ~ AlphaAfter(m), NEW x, Diverged(m, x), NEW y, y = Step(m, x)
  PROVE  Diverged(m, y) /\ y.pc = "finish" /\ y.dmux = View(x) /\ View(y) = View(x)
<1>1. ParserInv(m, x) /\ PathInv(m, x) /\ Settled(x) /\ x.status = "NEED_MORE_DATA"
  BY DEF Diverged, PathInv
<1>2. CASE x.pc = "stored"
  <2>1. y.dmux = View(x) /\ y.pc = "finish" /\ y.status = "NEED_MORE_DATA"
    BY <1>1, <1>2, StoredLooks
  <2>2. View(y) = View(x)  BY <2>1 DEF View
  <2>3. PathInv(m, y)  BY <1>1, <2>1, PathStays
  <2>4. Settled(y)  BY <2>1 DEF Settled
  <2> QED BY <2>1, <2>2, <2>3, <2>4 DEF Diverged
<1>3. CASE x.pc = "finish"
  <2>1. y = x  BY <1>3 DEF Step
  <2>2. View(x) = x.dmux  BY <1>3 DEF View
  <2> QED BY <1>3, <2>1, <2>2
<1> QED BY <1>2, <1>3 DEF Diverged

LEMMA DivergedEnds ==
  ASSUME NEW m, Buffer(m), ~ AlphaAfter(m), NEW x, Diverged(m, x),
         NEW q, Leads(m, x, q), q.pc = "finish"
  PROVE  Diverged(m, q) /\ q.dmux = View(x)
<1> DEFINE S == { y \in ParserState : Diverged(m, y) /\ View(y) = View(x) }
<1>1. x \in S  BY DEF Diverged, PathInv, ParserInv
<1>2. ASSUME NEW y \in S PROVE Step(m, y) \in S
  <2>1. Diverged(m, Step(m, y)) /\ View(Step(m, y)) = View(x)  BY DivergedStays
  <2> QED BY <2>1 DEF Diverged, PathInv, ParserInv
<1> HIDE DEF S
<1>3. q \in S  BY <1>1, <1>2 DEF Leads
<1> QED BY <1>3 DEF S, View

LEMMA AheadStays ==
  ASSUME NEW m, NEW n, NEW F, More(m, n), More(n, F), ~ AlphaAfter(F),
         NEW q, EndsWell(q), NEW x, NEW y, Ahead(m, n, F, q, x, y)
  PROVE  Ahead(m, n, F, q, x, Step(n, y))
<1> DEFINE z == Step(n, y)
<1>1. Buffer(m) /\ Buffer(n) /\ ~ AlphaAfter(n)  BY DEF More, AlphaAfter
<1>2. Diverged(m, x) /\ Grows(x.dmux, View(y)) /\ PathInv(n, y)  BY DEF Ahead
<1>3. CASE Diverged(n, y)
  <2>1. Diverged(n, z) /\ View(z) = View(y)  BY <1>1, <1>3, DivergedStays
  <2>2. PathInv(n, z)  BY <2>1 DEF Diverged
  <2> QED BY <1>2, <2>1, <2>2 DEF Ahead
<1>4. CASE ~ Diverged(n, y)
  <2>1. PathInv(F, y) /\ Leads(F, y, q)  BY <1>4 DEF Ahead
  <2> DEFINE w == Step(F, y)
  <2>2. /\ PathInv(F, w) /\ PathInv(n, z) /\ Leads(F, w, q) /\ z.status # "ERROR" /\ Settled(y)
        /\ y.pc = "stored" => y.status # "ERROR"
        /\ z = w \/ Diverged(n, z)
    BY <1>2, <2>1, OnTheWay
  <2>3. Grows(View(y), View(z))  BY <1>1, <1>2, <2>2, StepGrows
  <2>4. x.dmux \in Demuxer /\ View(y) \in Demuxer /\ View(z) \in Demuxer
    BY <1>2, <2>2, ViewIsTyped DEF Diverged, PathInv, ParserInv, ParserState
  <2> HIDE DEF z, w
  <2>5. Grows(x.dmux, View(z))  BY <1>2, <2>3, <2>4, GrowsFurther DEF Demuxer
  <2> QED BY <1>2, <2>2, <2>5 DEF Ahead, z
<1> QED BY <1>3, <1>4

LEMMA AbreastGoesOn ==
  ASSUME NEW m, NEW n, NEW F, More(m, n), More(n, F), ~ AlphaAfter(F),
         NEW q, EndsWell(q), NEW x, x.pc = "finish", NEW y, Abreast(m, n, F, q, x, y)
  PROVE  Abreast(m, n, F, q, x, Step(n, y)) \/ Ahead(m, n, F, q, x, Step(n, y))
<1> DEFINE u == Step(m, y)
           z == Step(n, y)
           w == Step(F, y)
<1>1. Buffer(m) /\ Buffer(n) /\ Buffer(F) /\ ~ AlphaAfter(n) /\ ~ AlphaAfter(m) /\ More(m, F)
  BY DEF More, Buffer, AlphaAfter
<1>2. PathInv(F, y) /\ PathInv(n, y) /\ PathInv(m, y) /\ Leads(F, y, q) /\ Leads(m, y, x)
  BY DEF Abreast
<1>3. /\ PathInv(F, w) /\ PathInv(n, z) /\ Leads(F, w, q) /\ z.status # "ERROR" /\ Settled(y)
      /\ y.pc = "stored" => y.status # "ERROR"
      /\ z = w \/ Diverged(n, z)
  BY <1>2, OnTheWay
<1>4. /\ PathInv(m, u) /\ u.status # "ERROR"
      /\ u = w \/ Diverged(m, u)
      /\ u.status = "NEED_MORE_DATA" \/ u = w
  BY <1>1, <1>2, OnTheWay
<1>5. Leads(m, u, x)
  <2>1. CASE y = x
    <3>1. u = y  BY <2>1 DEF Step
    <3> QED BY <1>2, <3>1
  <2>2. CASE y # x  BY <1>2, <2>2, LeadsFirst
  <2> QED BY <2>1, <2>2
<1>6. CASE ~ Diverged(m, u)
  <2>1. u = w /\ u.status # "NEED_MORE_DATA"
    <3>1. u = w  BY <1>4, <1>6
    <3>2. w.status = "OK"  BY <1>1, <1>2, OnPathIsWell DEF PathInv
    <3> QED BY <3>1, <3>2
  <2>2. z = u  BY <1>2, <2>1, StepIsSame DEF PathInv
  <2> HIDE DEF u, z, w
  <2>3. Abreast(m, n, F, q, x, z)  BY <1>3, <1>4, <1>5, <2>1, <2>2 DEF Abreast
  <2> QED BY <2>3 DEF z
<1>7. CASE Diverged(m, u)
  <2>1. Diverged(m, x) /\ x.dmux = View(u)  BY <1>1, <1>5, <1>7, DivergedEnds
  <2>2. Grows(View(u), View(z))  BY <1>2, <1>3, <1>4, StepsGrow
  <2> HIDE DEF u, z, w
  <2>3. Ahead(m, n, F, q, x, z)  BY <1>3, <2>1, <2>2 DEF Ahead
  <2> QED BY <2>3 DEF z
<1> QED BY <1>6, <1>7

\* If all of a file is fine, two calls for more and more of it give the whole, or the
\* first gives less than the second.
LEMMA CallsGrow ==
  ASSUME NEW m, NEW n, NEW F, More(m, n), More(n, F), ~ AlphaAfter(F),
         NEW p \in ParserState, PathInv(m, p), PathInv(n, p), PathInv(F, p),
         NEW q, Leads(F, p, q), EndsWell(q),
         NEW x, Leads(m, p, x), x.pc = "finish", NEW y, Leads(n, p, y), y.pc = "finish"
  PROVE  (x = q /\ y = q) \/ Ahead(m, n, F, q, x, y)
<1> DEFINE S == { z \in ParserState : Abreast(m, n, F, q, x, z) \/ Ahead(m, n, F, q, x, z) }
<1>1. p \in S  BY DEF Abreast
<1>2. ASSUME NEW z \in S PROVE Step(n, z) \in S
  <2>1. Abreast(m, n, F, q, x, Step(n, z)) \/ Ahead(m, n, F, q, x, Step(n, z))
    BY AbreastGoesOn, AheadStays
  <2>2. Step(n, z) \in ParserState  BY <2>1 DEF Abreast, Ahead, PathInv, ParserInv
  <2> QED BY <2>1, <2>2
<1> HIDE DEF S
<1>3. y \in S  BY <1>1, <1>2 DEF Leads
<1>4. CASE Abreast(m, n, F, q, x, y)
  <2>1. Leads(F, y, q) /\ Leads(m, y, x)  BY <1>4 DEF Abreast
  <2>2. q = y /\ x = y  BY <2>1, FinishLeadsNowhere
  <2> QED BY <2>2
<1> QED BY <1>3, <1>4 DEF S

-----------------------------------------------------------------------------
(* What the calls give.                                                      *)

LEMMA DivergedIsExtended ==
  ASSUME NEW m, NEW x, Diverged(m, x), x.pc = "finish", x.dmux.is_ext_format,
         NEW q, EndsWell(q), q.dmux \in Demuxer, Grows(x.dmux, q.dmux),
         x.dmux.state = "PARSED_HEADER"
  PROVE  IsValidExtendedFormat(x.dmux, x.dmux.state)
<1> DEFINE d == x.dmux
           e == q.dmux
<1>1. /\ d \in Demuxer /\ Sound(m, d) /\ AllComplete(d) /\ Usable(d)
      /\ \A i \in 1 .. Len(d.frames) : PartsInOrder(d.frames[i])
  BY DEF Diverged, PathInv, ParserInv, ParserState, View, InOrder, Usable
<1>2. /\ e.width = d.width /\ e.flags = d.flags /\ e.is_ext_format
      /\ Len(d.frames) <= Len(e.frames)
      /\ \A i \in 1 .. Len(d.frames) :
           /\ d.frames[i].complete => e.frames[i] = d.frames[i]
           /\ d.frames[i].width > 0 => /\ e.frames[i].width = d.frames[i].width
                                       /\ e.frames[i].x = d.frames[i].x
  BY <1>1 DEF Grows
<1>3. IsValidExtendedFormat(e, "DONE")  BY <1>2 DEF EndsWell, IsValid
<1>4. \A i \in 1 .. Len(e.frames) : IsValidFrame(e, "DONE", i)
  BY <1>3 DEF IsValidExtendedFormat
<1>5. IsAnimation(e) = IsAnimation(d)  BY <1>2 DEF IsAnimation
<1> HIDE DEF d, e
<1> SUFFICES ASSUME NEW i \in 1 .. Len(d.frames) PROVE IsValidFrame(d, d.state, i)
  BY DEF IsValidExtendedFormat, d
<1> DEFINE f == d.frames[i]
           g == e.frames[i]
<1>6. Len(d.frames) \in Nat /\ f \in Frame  BY <1>1 DEF Demuxer
<1>7. i \in 1 .. Len(e.frames)
  <2>1. Len(e.frames) \in Nat  BY DEF Demuxer, e
  <2> QED BY <1>2, <1>6, <2>1
<1>8. /\ f.complete => g = f
      /\ f.width > 0 => g.width = f.width /\ g.x = f.x
  BY <1>2
<1>9. IsValidFrame(e, "DONE", i)  BY <1>4, <1>7
<1>10. IsAnimation(d) \/ (i = 1 /\ f.frame_num <= 1)  BY <1>1, <1>6 DEF Sound, SoundFrame
<1>11. PartsInOrder(f)  BY <1>1
<1>12. f.alpha # NoData /\ (f.complete \/ f.image # NoData) => f.alpha.offset <= f.image.offset
  BY <1>8, <1>9, <1>11 DEF IsValidFrame, PartsInOrder
<1>13. FollowsComplete(d, i)
  <2>1. CASE i = 1  BY <2>1 DEF FollowsComplete
  <2>2. CASE i # 1
    <3>1. i - 1 \in 1 .. Len(d.frames) /\ IsAnimation(d)  BY <1>6, <1>10, <2>2
    <3> QED BY <1>1, <3>1 DEF AllComplete, FollowsComplete
  <2> QED BY <2>1, <2>2
<1>14. f.width > 0 => CheckFrameBounds(f, ~ IsAnimation(d), d.width)
  <2> SUFFICES ASSUME f.width > 0 PROVE CheckFrameBounds(f, ~ IsAnimation(d), d.width)
    OBVIOUS
  <2>1. CheckFrameBounds(g, ~ IsAnimation(e), e.width)  BY <1>8, <1>9 DEF IsValidFrame
  <2> QED BY <1>2, <1>5, <1>8, <2>1 DEF CheckFrameBounds
<1>15. d.state # "DONE"  BY DEF d
<1> QED BY <1>10, <1>12, <1>13, <1>14, <1>15 DEF IsValidFrame

LEMMA DivergedIsGiven ==
  ASSUME NEW m, NEW x, Diverged(m, x), x.pc = "finish",
         NEW q, EndsWell(q), q.dmux \in Demuxer, Grows(x.dmux, q.dmux)
  PROVE  Given(m, x.status, x.dmux) = x.dmux
<1> DEFINE d == x.dmux
           s == x.status
<1>1. /\ s = "NEED_MORE_DATA" /\ Partial(m) /\ d \in Demuxer /\ Final(s, d) /\ ParserInv(m, x)
  BY DEF Diverged, PathInv, ParserInv, ParserState
<1>2. IsValid(d, d.state)
  <2>1. d.state \in {"PARSING_HEADER", "PARSED_HEADER"}  BY <1>1 DEF Demuxer, States
  <2>2. CASE d.state = "PARSING_HEADER"
    BY <2>2 DEF IsValid, IsValidExtendedFormat, IsValidSimpleFormat
  <2>3. CASE d.state = "PARSED_HEADER" /\ d.is_ext_format
    <3>1. IsValidExtendedFormat(d, d.state)  BY <2>3, DivergedIsExtended
    <3> QED BY <2>3, <3>1 DEF IsValid
  <2>4. CASE d.state = "PARSED_HEADER" /\ ~ d.is_ext_format
    <3>1. /\ Len(d.frames) = 1
          /\ d.frames[1].width > 0 => d.frames[1].width = d.width
          /\ d.frames[1].width # 0
      BY <1>1, <2>4 DEF Final
    <3>2. d.frames[1].width \in Nat
      <4>1. d.frames \in Seq(Frame)  BY <1>1 DEF Demuxer
      <4>2. d.frames[1] \in Frame  BY <3>1, <4>1
      <4> QED BY <4>2 DEF Frame
    <3>3. d.width > 0 /\ d.frames[1].width > 0  BY <3>1, <3>2
    <3> QED BY <2>4, <3>3 DEF IsValid, IsValidSimpleFormat
  <2> QED BY <2>1, <2>2, <2>3, <2>4
<1>3. Given(m, s, d) = [d EXCEPT !.state = d.state]  BY <1>1, <1>2 DEF Given
<1>4. [d EXCEPT !.state = d.state] = d  BY <1>1 DEF Demuxer
<1> QED BY <1>3, <1>4

LEMMA WholeIsGiven ==
  ASSUME NEW m, NEW q, EndsWell(q)
  PROVE  Given(m, q.status, q.dmux) = [q.dmux EXCEPT !.state = "DONE"]
  BY DEF EndsWell, Given

\* All of what the last call gives, or what the call has seen when it stopped.
LEMMA CallGives ==
  ASSUME NEW m, NEW F, More(m, F), ~ AlphaAfter(F),
         NEW p \in ParserState, PathInv(m, p), PathInv(F, p),
         NEW q, Leads(F, p, q), EndsWell(q), NEW x, Leads(m, p, x), x.pc = "finish"
  PROVE  /\ q.dmux \in Demuxer
         /\ x = q \/ (Diverged(m, x) /\ Given(m, x.status, x.dmux) = x.dmux)
<1>1. Buffer(F) /\ More(F, F) /\ q.pc = "finish"  BY DEF More, Buffer, EndsWell
<1>2. ParserInv(F, q)  BY <1>1, LeadsToTheEnd DEF PathInv
<1>3. q.dmux \in Demuxer /\ View(q) = q.dmux
  BY <1>1, <1>2 DEF ParserInv, ParserState, View
<1>4. x = q \/ Ahead(m, F, F, q, x, q)  BY <1>1, CallsGrow
<1>5. CASE Ahead(m, F, F, q, x, q)
  <2>1. Diverged(m, x) /\ Grows(x.dmux, q.dmux)  BY <1>3, <1>5 DEF Ahead
  <2>2. Given(m, x.status, x.dmux) = x.dmux  BY <1>3, <2>1, DivergedIsGiven
  <2> QED BY <1>3, <2>1, <2>2
<1> QED BY <1>3, <1>4, <1>5

LEMMA PrefixIsSame ==
  ASSUME NEW S, NEW s \in Seq(S), NEW t \in Seq(S), Len(s) <= Len(t),
         \A i \in 1 .. Len(s) : t[i] = s[i]
  PROVE  IsPrefix(s, t)
<1> DEFINE n == Len(s)
<1>1. n \in Nat /\ n <= Len(t) /\ Len(t) \in Nat  OBVIOUS
<1>2. /\ \A i \in 1 .. n : s[i] \in S /\ t[i] \in S
      /\ \A i \in 1 .. n : t[i] = s[i]
  BY <1>1
<1> HIDE DEF n
<1>3. /\ SubSeq(s, 1, n) \in Seq(S) /\ Len(SubSeq(s, 1, n)) = IF 1 <= n THEN n - 1 + 1 ELSE 0
      /\ \A i \in 1 .. n - 1 + 1 : SubSeq(s, 1, n)[i] = s[1 + i - 1]
  BY <1>1, <1>2, SubSeqProperties
<1>4. /\ SubSeq(t, 1, n) \in Seq(S) /\ Len(SubSeq(t, 1, n)) = IF 1 <= n THEN n - 1 + 1 ELSE 0
      /\ \A i \in 1 .. n - 1 + 1 : SubSeq(t, 1, n)[i] = t[1 + i - 1]
  BY <1>1, <1>2, SubSeqProperties
<1>5. SubSeq(s, 1, n) = SubSeq(t, 1, n)
  <2>1. Len(SubSeq(s, 1, n)) = n /\ Len(SubSeq(t, 1, n)) = n  BY <1>1, <1>3, <1>4
  <2>2. \A i \in 1 .. n : SubSeq(s, 1, n)[i] = SubSeq(t, 1, n)[i]
    BY <1>1, <1>2, <1>3, <1>4
  <2> QED BY <1>3, <1>4, <2>1, <2>2, SeqEqual
<1> QED BY <1>1, <1>5 DEF IsPrefix, n

LEMMA GrowsFits ==
  ASSUME NEW d \in Demuxer, NEW e \in Demuxer, Grows(d, e), NEW state,
         Usable(e) => Usable([e EXCEPT !.state = state])
  PROVE  Fits(d, [e EXCEPT !.state = state])
<1> DEFINE g == [e EXCEPT !.state = state]
<1>1. d.state # "ERROR" /\ d.state # "DONE"  BY DEF Demuxer, States
<1>2. /\ g.width = e.width /\ g.flags = e.flags /\ g.chunks = e.chunks /\ g.frames = e.frames
  BY DEF Demuxer
<1>3. ASSUME Usable(d)
      PROVE  /\ Usable(g)
             /\ g.width = d.width /\ g.flags = d.flags
             /\ IsPrefix(d.chunks, g.chunks)
             /\ Len(d.frames) <= Len(g.frames)
             /\ \A i \in 1 .. Len(d.frames) :
                  d.frames[i].complete => g.frames[i] = d.frames[i]
  <2>1. /\ Usable(e) /\ e.width = d.width /\ e.flags = d.flags
        /\ Len(d.chunks) <= Len(e.chunks)
        /\ \A i \in 1 .. Len(d.chunks) : e.chunks[i] = d.chunks[i]
        /\ Len(d.frames) <= Len(e.frames)
        /\ \A i \in 1 .. Len(d.frames) : d.frames[i].complete => e.frames[i] = d.frames[i]
    BY <1>3 DEF Grows
  <2>2. IsPrefix(d.chunks, e.chunks)
    <3>1. d.chunks \in Seq(Part) /\ e.chunks \in Seq(Part)  BY DEF Demuxer
    <3> QED BY <2>1, <3>1, PrefixIsSame
  <2> HIDE DEF g
  <2> QED BY <1>2, <2>1, <2>2 DEF g
<1> HIDE DEF g
<1>4. Fits(d, g)  BY <1>1, <1>3 DEF Fits
<1> QED BY <1>4 DEF g

LEMMA WholeFits ==
  ASSUME NEW e \in Demuxer, NEW g, g = [e EXCEPT !.state = "DONE"] PROVE Fits(g, g)
<1>1. g.state = "DONE" /\ g.chunks \in Seq(Part) /\ g.frames \in Seq(Frame)
  BY DEF Demuxer
<1>2. SubSeq(g.chunks, 1, Len(g.chunks)) = g.chunks /\ Len(g.chunks) <= Len(g.chunks)
  BY <1>1
<1>3. IsPrefix(g.chunks, g.chunks)  BY <1>2 DEF IsPrefix
<1>4. Len(g.frames) <= Len(g.frames)  BY <1>1
<1> QED BY <1>1, <1>3, <1>4 DEF Fits

LEMMA CallsFit ==
  ASSUME NEW m, NEW n, NEW F, More(m, n), More(n, F), ~ AlphaAfter(F),
         NEW p \in ParserState, PathInv(m, p), PathInv(n, p), PathInv(F, p),
         NEW q, Leads(F, p, q), EndsWell(q),
         NEW x, Leads(m, p, x), x.pc = "finish", NEW y, Leads(n, p, y), y.pc = "finish"
  PROVE  Fits(Given(m, x.status, x.dmux), Given(n, y.status, y.dmux))
<1> DEFINE e == [q.dmux EXCEPT !.state = "DONE"]
<1>1. More(m, F)  BY DEF More, Buffer
<1>2. /\ q.dmux \in Demuxer
      /\ x = q \/ (Diverged(m, x) /\ Given(m, x.status, x.dmux) = x.dmux)
  BY <1>1, CallGives
<1>3. y = q \/ (Diverged(n, y) /\ Given(n, y.status, y.dmux) = y.dmux)  BY CallGives
<1>4. Given(m, q.status, q.dmux) = e /\ Given(n, q.status, q.dmux) = e  BY WholeIsGiven
<1> HIDE DEF e
<1>5. CASE x = q /\ y = q
  <2>1. Fits(e, e)  BY <1>2, WholeFits DEF e
  <2> QED BY <1>4, <1>5, <2>1
<1>6. CASE Ahead(m, n, F, q, x, y)
  <2>1. Diverged(m, x) /\ Grows(x.dmux, y.dmux)  BY <1>6 DEF Ahead, View
  <2>2. x.status # q.status  BY <2>1 DEF Diverged, EndsWell
  <2>3. Given(m, x.status, x.dmux) = x.dmux /\ x.dmux \in Demuxer
    BY <1>2, <2>1, <2>2 DEF Diverged, PathInv, ParserInv, ParserState
  <2>4. CASE y = q
    <3>1. Usable(e)  BY <1>2 DEF e, Usable, Demuxer
    <3>2. Fits(x.dmux, e)  BY <1>2, <2>1, <2>3, <2>4, <3>1, GrowsFits DEF e
    <3> QED BY <1>4, <2>3, <2>4, <3>2
  <2>5. CASE y # q
    <3>1. y.dmux \in Demuxer /\ Given(n, y.status, y.dmux) = y.dmux
      BY <1>3, <2>5 DEF Diverged, PathInv, ParserInv, ParserState
    <3>2. [y.dmux EXCEPT !.state = y.dmux.state] = y.dmux  BY <3>1 DEF Demuxer
    <3>3. Fits(x.dmux, y.dmux)  BY <2>1, <2>3, <3>1, <3>2, GrowsFits
    <3> QED BY <2>3, <3>1, <3>3
  <2> QED BY <2>4, <2>5
<1> QED BY <1>5, <1>6, CallsGrow

-----------------------------------------------------------------------------
(* The calls of a user who gets a file bit by bit.                           *)

LEMMA FirstSizeIsNat == FirstSize \in Nat /\ FirstSize > 0
  BY SizesAreNat DEF FirstSize

LEMMA FileHasSize ==
  ASSUME NEW f \in File PROVE FileSize(f) \in Nat
<1>1. ListSize(f.chunks) \in Nat  BY ListHasSize DEF File
<1> QED BY <1>1, SizesAreNat DEF FileSize

LEMMA BeginIsOk ==
  ASSUME NEW f \in File, NEW n \in Nat, n <= FileSize(f), n >= FirstSize,
         NEW m, m = MemBuffer(f, n)
  PROVE  Begin \in ParserState /\ PathInv(m, Begin) /\ Buffer(m)
<1>1. Buffer(m)  BY MemIsBuffer
<1>2. Len(m.chunks) >= 1
  <2>1. FirstSize <= n  BY FirstSizeIsNat
  <2>2. Len(f.chunks) >= 1  BY <2>1, HeaderIsOfChunk DEF FirstSize
  <2> QED BY <2>2 DEF MemBuffer
<1>3. Begin.pc = "master" /\ Begin.dmux = InitDemux  BY DEF Begin, At
<1>4. Begin \in ParserState  BY InitIsSound DEF Begin, At, ParserState, Statuses
<1>5. ParserInv(m, Begin)  BY <1>2, <1>3, <1>4, InitIsSound DEF ParserInv
<1>6. Begin.dmux.frames = << >>  BY <1>3 DEF InitDemux
<1>7. InOrder(m, Begin) /\ IsWhole(m, Begin)  BY <1>3, <1>6 DEF InOrder, IsWhole
<1> QED BY <1>1, <1>4, <1>5, <1>7 DEF PathInv

LEMMA MoreOfFile ==
  ASSUME NEW f \in File, NEW n \in Nat, NEW k \in Nat, n <= k, k <= FileSize(f)
  PROVE  More(MemBuffer(f, n), MemBuffer(f, k))
<1>1. n <= FileSize(f) /\ f.riff_end \in Nat  BY FileHasSize DEF File
<1>2. Buffer(MemBuffer(f, n)) /\ Buffer(MemBuffer(f, k))  BY <1>1, MemIsBuffer
<1>3. MinOf(n, f.riff_end) <= MinOf(k, f.riff_end)  BY <1>1 DEF MinOf
<1> QED BY <1>2, <1>3 DEF More, MemBuffer

\* Nothing is wrong after nothing, and an error stays one.
LEMMA NothingFits ==
  /\ \A g : Fits(Without("PARSING_HEADER"), g)
  /\ Fits(Without("ERROR"), Without("ERROR"))
  BY DEF Fits, Without, InitDemux, Usable

\* A call fits the one before it.
LEMMA ResultsFit ==
  ASSUME NEW f \in File, IsFine(f), ~ AlphaAfter(f), NEW n \in Nat, n >= FirstSize,
         n <= FileSize(f), ~ Refuses(f), NEW g, Result(f, n - 1, g),
         NEW y, EndsAt(MemBuffer(f, n), y)
  PROVE  Fits(g, Given(MemBuffer(f, n), y.status, y.dmux))
<1> DEFINE k == n - 1
           F == MemBuffer(f, FileSize(f))
           b == MemBuffer(f, k)
           m == MemBuffer(f, n)
<1>1. k \in Nat /\ k <= n /\ FileSize(f) \in Nat /\ FileSize(f) >= FirstSize /\ k <= FileSize(f)
  BY FileHasSize, FirstSizeIsNat
<1>2. PICK q : EndsAt(F, q) /\ EndsWell(q)  BY DEF IsFine
<1>3. More(b, m) /\ More(m, F)  BY <1>1, MoreOfFile
<1>4. ~ AlphaAfter(F)  BY DEF AlphaAfter, MemBuffer
<1>5. Begin \in ParserState /\ PathInv(m, Begin) /\ PathInv(F, Begin)  BY <1>1, BeginIsOk
<1> HIDE DEF k
<1>6. CASE g = Without("PARSING_HEADER")  BY <1>6, NothingFits
<1>7. CASE g # Without("PARSING_HEADER")
  <2>1. k >= FirstSize  BY <1>7 DEF Result, k
  <2>2. PICK x : EndsAt(b, x) /\ g = Given(b, x.status, x.dmux)  BY <1>7 DEF Result, k
  <2>3. PathInv(b, Begin)  BY <1>1, <2>1, BeginIsOk
  <2> HIDE DEF b, m, F
  <2>4. Fits(Given(b, x.status, x.dmux), Given(m, y.status, y.dmux))
    BY <1>2, <1>3, <1>4, <1>5, <2>2, <2>3, CallsFit DEF EndsAt, m
  <2> QED BY <2>2, <2>4 DEF m
<1> QED BY <1>6, <1>7

\* If the user is given the whole, all of it was accepted.
LEMMA WholeIsFine ==
  ASSUME NEW f \in File, NEW g, Result(f, FileSize(f), g), g.state = "DONE"
  PROVE  IsFine(f)
<1> DEFINE m == MemBuffer(f, FileSize(f))
<1>1. g # Without("PARSING_HEADER") /\ g # Without("ERROR")  BY DEF Without, InitDemux
<1>2. PICK x : EndsAt(m, x) /\ g = Given(m, x.status, x.dmux)  BY <1>1 DEF Result
<1>3. FileSize(f) \in Nat /\ FileSize(f) >= FirstSize  BY <1>1, FileHasSize DEF Result
<1>4. Begin \in ParserState /\ PathInv(m, Begin) /\ Buffer(m)  BY <1>3, BeginIsOk
<1> DEFINE d == x.dmux
           state == IF x.status = "OK" THEN "DONE" ELSE d.state
<1> HIDE DEF m
<1>5. ParserInv(m, x)  BY <1>2, <1>4, LeadsToTheEnd DEF EndsAt, PathInv
<1>6. d \in Demuxer  BY <1>5 DEF ParserInv, ParserState
<1>7. IsValid(d, state) /\ g = [d EXCEPT !.state = state]  BY <1>1, <1>2 DEF Given
<1>8. g.state = state  BY <1>6, <1>7 DEF Demuxer
<1>9. x.status = "OK"  BY <1>6, <1>8 DEF Demuxer, States
<1>10. EndsWell(x)  BY <1>2, <1>7, <1>9 DEF EndsWell, EndsAt
<1> QED BY <1>2, <1>10 DEF IsFine, m

LEMMA InitRemains == Init => RemainInv
<1> SUFFICES ASSUME Init PROVE RemainInv
  OBVIOUS
<1>1. size = 0 /\ pc = "wait" /\ kept /\ res = Without("PARSING_HEADER")
  BY DEF Init, DemuxInit
<1>2. Result(file, size, res)  BY <1>1, FirstSizeIsNat DEF Result
<1> QED BY <1>1, <1>2 DEF RemainInv

\* Where nothing of a file is there.
LEMMA NewFileRemains ==
  ASSUME size' = 0, pc' = "wait", kept', res' = Without("PARSING_HEADER") PROVE RemainInv'
<1>1. Result(file', size', res')  BY FirstSizeIsNat DEF Result
<1> QED BY <1>1 DEF RemainInv

LEMMA EditRemains ==
  ASSUME ContainerInv, RemainInv, file = NoFile, UNCHANGED <<size, pc, res, kept>>
  PROVE  RemainInv'
<1>1. pc = "wait" /\ size = 0 /\ kept /\ Result(file, size, res)
  BY DEF ContainerInv, RemainInv
<1>2. res = Without("PARSING_HEADER")  BY <1>1, FirstSizeIsNat DEF Result
<1> QED BY <1>1, <1>2, NewFileRemains

LEMMA ParserRemains ==
  ASSUME ContainerInv, RemainInv, Master \/ Chunk \/ StoreFrame \/ Stored PROVE RemainInv'
<1> DEFINE p == At(pc, status, dmux, frame)
           x == Step(Mem, p)
<1>1. UNCHANGED <<file, size, res, kept>> /\ pc \in {"master", "chunks", "store", "stored"}
  BY DEF Master, Chunk, StoreFrame, Stored, Parse
<1>2. p.pc = pc /\ p.status = status /\ p.dmux = dmux /\ p.frame = frame  BY DEF At
<1>3. Called /\ ParserInv(Mem, p) /\ Buffer(Mem)
  BY <1>1, MemIsBuffer DEF RemainInv, ContainerInv, Mem
<1> HIDE DEF p
<1>4. Becomes(x)  BY <1>2 DEF Step, Master, Chunk, StoreFrame, Stored, Parse
<1>5. x.pc # "wait" /\ x \in ParserState  BY <1>3, StepIsOk DEF ParserInv, ParserState
<1>6. Leads(Mem, Begin, x)  BY <1>3, LeadsOn DEF Called, p
<1> HIDE DEF x
<1>7. x = At(pc', status', dmux', frame')  BY <1>4, <1>5 DEF Becomes, At, ParserState
<1>8. Mem' = Mem  BY <1>1 DEF Mem
<1>9. Leads(Mem', Begin, At(pc', status', dmux', frame'))  BY <1>6, <1>7, <1>8
<1>10. pc' # "wait"  BY <1>4, <1>5 DEF Becomes
<1>11. Called'  BY <1>1, <1>3, <1>9 DEF Called
<1> QED BY <1>1, <1>10, <1>11 DEF RemainInv, AlphaAfterImage

LEMMA KeptStays == ASSUME NEW d, Give(d), Fits(res, d), kept PROVE kept'
<1>1. kept' = (kept /\ Fits(res, d))  BY DEF Give
<1>2. kept /\ Fits(res, d)  OBVIOUS
<1> QED BY <1>1, <1>2, Zenon

LEMMA ReceiveRemains ==
  ASSUME ContainerInv, RemainInv, Receive PROVE RemainInv'
<1>1. /\ pc = "wait" /\ size < FileSize(file) /\ size' = size + 1 /\ file' = file
      /\ file \in File /\ size \in Nat /\ Result(file, size, res)
  BY DEF Receive, ContainerInv, RemainInv
<1>2. size' \in Nat /\ size' # 0 /\ size' - 1 = size /\ size = size' - 1  BY <1>1
<1>3. CASE size' < FirstSize
  <2>1. Give(Without("PARSING_HEADER")) /\ pc' = "wait"
    BY <1>1, <1>3 DEF Receive, FirstSize
  <2>2. res = Without("PARSING_HEADER")  BY <1>1, <1>3, FirstSizeIsNat DEF Result
  <2>3. Fits(res, Without("PARSING_HEADER"))  BY <2>2, NothingFits
  <2>4. kept => kept'  BY <2>1, <2>3, KeptStays
  <2>5. Result(file', size', res')  BY <1>3, <2>1 DEF Result, Give
  <2> QED BY <1>1, <1>2, <2>1, <2>4, <2>5 DEF RemainInv, AlphaAfterImage
<1>4. CASE ~ size' < FirstSize /\ Refuses(file)
  <2>1. Give(Without("ERROR")) /\ pc' = "wait"
    BY <1>1, <1>4 DEF Receive, FirstSize, Refuses
  <2>2. res = Without("PARSING_HEADER") \/ res = Without("ERROR")
    BY <1>1, <1>4 DEF Result
  <2>3. Fits(res, Without("ERROR"))  BY <2>2, NothingFits
  <2>4. kept => kept'  BY <2>1, <2>3, KeptStays
  <2>5. size' >= FirstSize  BY <1>2, <1>4, FirstSizeIsNat
  <2>6. Result(file', size', res')  BY <1>1, <1>4, <2>1, <2>5 DEF Result, Give
  <2> QED BY <1>1, <1>2, <2>1, <2>4, <2>6 DEF RemainInv, AlphaAfterImage
<1>5. CASE ~ size' < FirstSize /\ ~ Refuses(file)
  <2>1. Becomes(Begin) /\ UNCHANGED <<res, kept>>
    BY <1>1, <1>5 DEF Receive, FirstSize, Refuses, Begin
  <2>2. pc' = "master" /\ At(pc', status', dmux', frame') = Begin
    BY <2>1 DEF Becomes, At, Begin
  <2>3. Leads(Mem', Begin, At(pc', status', dmux', frame'))  BY <2>2, LeadsToItself
  <2>4. size' >= FirstSize  BY <1>2, <1>5, FirstSizeIsNat
  <2>5. Result(file', size' - 1, res')  BY <1>1, <1>2, <2>1
  <2>6. Called'  BY <1>1, <1>5, <2>3, <2>4, <2>5 DEF Called
  <2> QED BY <1>1, <1>2, <2>1, <2>2, <2>6 DEF RemainInv, AlphaAfterImage
<1> QED BY <1>3, <1>4, <1>5

LEMMA FinishRemains ==
  ASSUME ContainerInv, RemainInv, Finish PROVE RemainInv'
<1> DEFINE y == At(pc, status, dmux, frame)
           g == Given(Mem, status, dmux)
<1>1. pc = "finish" /\ pc' = "wait" /\ Give(g) /\ UNCHANGED <<file, size>>  BY DEF Finish
<1>2. /\ size >= FirstSize /\ ~ Refuses(file) /\ Result(file, size - 1, res)
      /\ Leads(Mem, Begin, y)
  BY <1>1 DEF RemainInv, Called
<1>3. y.pc = "finish" /\ y.status = status /\ y.dmux = dmux  BY <1>1 DEF At
<1>4. file \in File /\ size \in Nat /\ size <= FileSize(file)  BY DEF ContainerInv
<1> HIDE DEF y
<1>5. EndsAt(MemBuffer(file, size), y) /\ g = Given(MemBuffer(file, size), y.status, y.dmux)
  BY <1>2, <1>3 DEF EndsAt, Mem
<1> HIDE DEF g
<1>6. Result(file', size', res')  BY <1>1, <1>2, <1>5 DEF Result, Give
<1>7. ASSUME IsFine(file), ~ AlphaAfterImage PROVE Fits(res, g)
  <2>1. ~ AlphaAfter(file)  BY <1>7 DEF AlphaAfter, AlphaAfterImage
  <2> QED BY <1>2, <1>4, <1>5, <1>7, <2>1, ResultsFit
<1>8. IsFine(file') /\ ~ AlphaAfterImage' => kept'
  <2> SUFFICES ASSUME IsFine(file), ~ AlphaAfterImage PROVE kept'
    BY <1>1 DEF AlphaAfterImage
  <2>1. kept /\ Fits(res, g)  BY <1>7 DEF RemainInv
  <2> QED BY <1>1, <2>1, KeptStays
<1>9. size' # 0  BY <1>1, <1>2, <1>4, FirstSizeIsNat
<1> QED BY <1>1, <1>6, <1>8, <1>9 DEF RemainInv

LEMMA NextRemains == ContainerInv /\ RemainInv /\ [Next]_vars => RemainInv'
<1> SUFFICES ASSUME ContainerInv, RemainInv, [Next]_vars PROVE RemainInv'
  OBVIOUS
<1>1. CASE Edit
  <2>1. file = NoFile /\ UNCHANGED <<size, pc, res, kept>>
    BY <1>1 DEF Edit, Editing, dvars
  <2> QED BY <2>1, EditRemains
<1>2. CASE WebPMuxAssemble
  <2>1. file = NoFile /\ UNCHANGED <<size, pc, res, kept>>
    BY <1>2 DEF WebPMuxAssemble, Editing, dvars
  <2> QED BY <2>1, EditRemains
<1>3. CASE Read  BY <1>3, ReceiveRemains, ParserRemains, FinishRemains DEF Read, DemuxNext
<1>4. CASE EditAgain
  <2>1. size' = 0 /\ pc' = "wait" /\ kept' /\ res' = Without("PARSING_HEADER")
    BY <1>4 DEF EditAgain, NextFile
  <2> QED BY <2>1, NewFileRemains
<1>5. CASE UNCHANGED vars
  <2>1. UNCHANGED <<file, size, pc, status, dmux, frame, res, kept>>
    BY <1>5 DEF vars, dvars
  <2>2. Mem' = Mem  BY <2>1 DEF Mem
  <2>3. Called' = Called  BY <2>1, <2>2 DEF Called
  <2> QED BY <2>1, <2>3 DEF RemainInv, AlphaAfterImage
<1> QED BY <1>1, <1>2, <1>3, <1>4, <1>5 DEF Next, Terminated

\* What WebPDemuxPartial gave for less of a file, and ParseVP8XChunks and StoreFrame
\* found again from its beginning, remains true for more of it, up to the whole
\* (WhatWasGivenRemains), for every file that is accepted in the end.
THEOREM WhatWasGivenAlwaysRemains == Spec => []WhatWasGivenRemains
<1>1. ContainerInv /\ RemainInv => WhatWasGivenRemains
  <2> SUFFICES ASSUME ContainerInv, RemainInv, pc = "wait", size = FileSize(file),
                      res.state = "DONE", ~ AlphaAfterImage
               PROVE  kept
    BY DEF WhatWasGivenRemains
  <2>1. file \in File /\ Result(file, FileSize(file), res)  BY DEF ContainerInv, RemainInv
  <2>2. IsFine(file)  BY <2>1, WholeIsFine
  <2> QED BY <2>2 DEF RemainInv
<1> QED BY InitImpliesInv, NextKeepsInv, InitRemains, NextRemains, <1>1, PTL DEF Spec

-----------------------------------------------------------------------------
(* A file that WebPMuxAssemble wrote.                                        *)

LEMMA ListsAreListed ==
  ASSUME NEW m \in MuxObject, NEW n \in ListNames
  PROVE  m.list[n] \in Seq(Listed(n)) /\ m.list[n] \in Seq(AnyChunk)
<1>1. m.list \in Lists  BY DEF MuxObject
<1>2. m.list \in [ListNames -> Seq(AnyChunk)]  BY <1>1 DEF Lists
<1> QED BY <1>1, <1>2 DEF Lists

\* Objects that differ in their canvas at most.
LEMMA LooksAlike ==
  ASSUME NEW m, NEW w, w.images = m.images,
         \A n \in ListNames \ {"VP8X"} : w.list[n] = m.list[n]
  PROVE  /\ NumFrames(w) = NumFrames(m) /\ Features(w) = Features(m) /\ FlagsOf(w) = FlagsOf(m)
         /\ (MuxHasAlpha(w) <=> MuxHasAlpha(m)) /\ w.list["unknown"] = m.list["unknown"]
         /\ GetAdjustedCanvasSize(w) = GetAdjustedCanvasSize(m)
<1>1. \A t \in Metadata \cup {"unknown"} : w.list[t] = m.list[t]  BY DEF Metadata, ListNames
<1>2. { t \in Metadata : w.list[t] # << >> } = { t \in Metadata : m.list[t] # << >> }
  BY <1>1
<1>3. Animated(w) <=> Animated(m)  BY DEF Animated
<1>4. Features(w) = Features(m)  BY <1>2, <1>3 DEF Features
<1>5. MuxHasAlpha(w) <=> MuxHasAlpha(m)  BY DEF MuxHasAlpha
<1>6. FlagsOf(w) = FlagsOf(m)  BY <1>4, <1>5 DEF FlagsOf
<1>7. NumFrames(w) = NumFrames(m)  BY DEF NumFrames
<1>8. GetAdjustedCanvasSize(w) = GetAdjustedCanvasSize(m)
  BY DEF GetAdjustedCanvasSize, Extent
<1> QED BY <1>1, <1>4, <1>5, <1>6, <1>7, <1>8

LEMMA WithVP8XIsWritten ==
  ASSUME NEW m \in MuxObject, m.images # << >>,
         m.width = 0 \/ GetAdjustedCanvasSize(m) <= m.width, MuxValidate(WithVP8X(m))
  PROVE  Written(WithVP8X(m))
<1> DEFINE w == WithVP8X(m)
           l == IF Features(m) = {} /\ m.list["unknown"] = << >> THEN << >>
                ELSE << VP8X(FlagsOf(m), CanvasOf(m)) >>
<1>1. w \in MuxObject  BY WithVP8XIsTyped
<1>2. w = [m EXCEPT !.list["VP8X"] = l]  BY DEF WithVP8X, FlagsOf, CanvasOf
<1>3. m.list \in [ListNames -> Seq(AnyChunk)]  BY DEF MuxObject, Lists
<1> HIDE DEF l
<1>4. /\ w.images = m.images /\ w.width = m.width /\ w.list["VP8X"] = l
      /\ \A n \in ListNames \ {"VP8X"} : w.list[n] = m.list[n]
  <2>1. "VP8X" \in ListNames  BY DEF ListNames
  <2> QED BY <1>2, <1>3, <2>1 DEF MuxObject
<1> HIDE DEF w
<1>5. /\ Features(w) = Features(m) /\ FlagsOf(w) = FlagsOf(m)
      /\ GetAdjustedCanvasSize(w) = GetAdjustedCanvasSize(m)
      /\ w.list["unknown"] = m.list["unknown"]
  BY <1>4, LooksAlike
<1>6. CanvasOf(w) = CanvasOf(m)  BY <1>4, <1>5 DEF CanvasOf
<1>7. MuxValidate(w)  BY DEF w
<1>8. w.list["VP8X"] = IF Features(w) = {} /\ w.list["unknown"] = << >> THEN << >>
                       ELSE << VP8X(FlagsOf(w), CanvasOf(w)) >>
  BY <1>4, <1>5, <1>6 DEF l
<1>9. Written(w)  BY <1>1, <1>4, <1>5, <1>7, <1>8 DEF Written
<1> QED BY <1>9 DEF w

-----------------------------------------------------------------------------
(* What stands in it.                                                        *)

LEMMA MoreBehind ==
  ASSUME NEW cs, NEW k, NEW c, NEW S, StandsAt(cs, k, c, S), NEW t \in Seq(AnyChunk)
  PROVE  StandsAt(cs \o t, k, c, S)
<1>1. cs \in Seq(AnyChunk) /\ k \in 1 .. Len(cs) /\ Len(cs) \in Nat /\ Len(t) \in Nat
  BY DEF StandsAt
<1>2. /\ cs \o t \in Seq(AnyChunk) /\ Len(cs \o t) = Len(cs) + Len(t)
      /\ \A i \in 1 .. Len(cs) : (cs \o t)[i] = cs[i]
  BY <1>1, ConcatProperties
<1>3. k \in 1 .. Len(cs \o t) /\ \A j \in 1 .. k - 1 : j \in 1 .. Len(cs)  BY <1>1, <1>2
<1> QED BY <1>1, <1>2, <1>3 DEF StandsAt

LEMMA MoreBefore ==
  ASSUME NEW cs, NEW k, NEW c, NEW S, StandsAt(cs, k, c, S), NEW t \in Seq(AnyChunk),
         t \in Seq(S)
  PROVE  StandsAt(t \o cs, Len(t) + k, c, S)
<1>1. cs \in Seq(AnyChunk) /\ k \in 1 .. Len(cs) /\ Len(cs) \in Nat /\ Len(t) \in Nat
      /\ cs[k] = c /\ \A j \in 1 .. k - 1 : cs[j] \in S
  BY DEF StandsAt
<1> DEFINE u == t \o cs
<1>2. /\ u \in Seq(AnyChunk) /\ Len(u) = Len(t) + Len(cs)
      /\ \A i \in 1 .. Len(t) + Len(cs) : u[i] = IF i <= Len(t) THEN t[i] ELSE cs[i - Len(t)]
  <2>1. cs \in Seq(AnyChunk)  BY <1>1
  <2> QED BY <2>1, ConcatProperties
<1>3. \A i \in 1 .. Len(t) : t[i] \in S  OBVIOUS
<1> HIDE DEF u
<1>4. Len(t) + k \in 1 .. Len(u) /\ u[Len(t) + k] = c
  <2>1. /\ Len(t) + k \in 1 .. Len(t) + Len(cs) /\ ~ (Len(t) + k <= Len(t))
        /\ (Len(t) + k) - Len(t) = k
    BY <1>1
  <2>2. u[Len(t) + k] = cs[(Len(t) + k) - Len(t)]  BY <1>2, <2>1
  <2>3. u[Len(t) + k] = c  BY <1>1, <2>1, <2>2, Zenon
  <2>4. Len(t) + k \in 1 .. Len(u)  BY <1>2, <2>1, Zenon
  <2> QED BY <2>3, <2>4, Zenon
<1>5. ASSUME NEW j \in 1 .. Len(t) + k - 1 PROVE u[j] \in S
  <2>1. j \in 1 .. Len(t) + Len(cs)  BY <1>1
  <2>2. CASE j <= Len(t)
    <3>1. j \in 1 .. Len(t)  BY <1>1, <2>1, <2>2
    <3>2. u[j] = t[j]  BY <1>2, <2>1, <2>2, Zenon
    <3> QED BY <1>3, <3>1, <3>2, Zenon
  <2>3. CASE ~ (j <= Len(t))
    <3>1. j - Len(t) \in 1 .. k - 1  BY <1>1, <2>1, <2>3
    <3> QED BY <1>1, <1>2, <2>1, <2>3, <3>1
  <2> QED BY <2>2, <2>3
<1> QED BY <1>2, <1>4, <1>5 DEF StandsAt, u

LEMMA StandsFirst ==
  ASSUME NEW c \in AnyChunk, NEW S PROVE StandsAt(<< c >>, 1, c, S)
<1>1. << c >> \in Seq(AnyChunk) /\ Len(<< c >>) = 1 /\ << c >>[1] = c /\ 1 .. 1 - 1 = {}
  OBVIOUS
<1> QED BY <1>1 DEF StandsAt

\* The chunks of an image that is no frame.
LEMMA ImageStands ==
  ASSUME NEW i \in ImageRec, i.header = Missing, NEW S, i.alpha \in Seq(S)
  PROVE  \E k \in Nat \ {0} : StandsAt(Emitted(i), k, i.img, S) /\ (i.alpha = Missing => k = 1)
<1> DEFINE al == i.alpha
           s == << i.img >>
           u == i.unknown
           k == Len(al) + 1
<1>1. al \in Seq(AnyChunk) /\ i.img \in AnyChunk /\ u \in Seq(AnyChunk)
  <2>1. al \in Seq(AlphaChunk) /\ i.img \in ImageChunk /\ u \in Seq(AnyChunk)
    BY DEF ImageRec, WholeImage
  <2>2. AlphaChunk \subseteq AnyChunk  BY DEF AlphaChunk
  <2> QED BY <2>1, <2>2, ChunkKinds, SeqsAreMonotonic
<1>2. Emitted(i) = << >> \o al \o s \o u  BY DEF Emitted, Missing
<1>3. << >> \o al = al  BY <1>1, ConcatEmptySeq
<1>4. StandsAt(s, 1, i.img, S)  BY <1>1, StandsFirst
<1>5. al \in Seq(S) /\ Len(al) \in Nat /\ (al = << >> => Len(al) = 0)  BY <1>1
<1> HIDE DEF al, s, u
<1>6. StandsAt(al \o s, k, i.img, S)  BY <1>1, <1>4, <1>5, MoreBefore
<1>7. StandsAt((al \o s) \o u, k, i.img, S)  BY <1>1, <1>6, MoreBehind
<1>8. Emitted(i) = (al \o s) \o u  BY <1>2, <1>3
<1> QED BY <1>5, <1>7, <1>8 DEF Missing, al

\* Those of all images, if there is one.
LEMMA OnlyImage ==
  ASSUME NEW images \in Seq(ImageRec), Len(images) = 1
  PROVE  EmittedAll(images) = Emitted(images[1])
<1>1. DOMAIN images = 1 .. 1 /\ 1 \in Nat /\ images[1] \in ImageRec  OBVIOUS
<1>2. PICK v : Folds(Emit, v, << >>, images, 1) /\ EmittedAll(images) = v[1]
  BY <1>1, EmitInSteps
<1>3. v[1] = << >> \o Emitted(images[1])
  <2>1. 1 \in 1 .. 1 /\ 1 - 1 = 0  OBVIOUS
  <2>2. v[0] = << >> /\ v[1] = FoldStep(Emit, v[0], images[1])  BY <1>2, <2>1 DEF Folds
  <2> QED BY <2>2 DEF FoldStep, Emit
<1> QED BY <1>1, <1>2, <1>3, EmittedIsTyped, ConcatEmptySeq

LEMMA ListedIsBefore ==
  ASSUME NEW m, NEW n, NEW l \in Seq(Listed(n)) PROVE l \in Seq(Before(m))
<1>1. Listed(n) \subseteq Before(m)  BY DEF Listed, Before, ImageTags
<1> QED BY <1>1, SeqsAreMonotonic

LEMMA AlphaIsBefore ==
  ASSUME NEW m \in MuxObject, NEW k \in 1 .. Len(m.images)
  PROVE  m.images[k].alpha \in Seq(Before(m))
<1> DEFINE al == m.images[k].alpha
<1>1. al \in Seq(AlphaChunk)  BY DEF MuxObject, ImageRec
<1>2. CASE al = Missing  BY <1>2 DEF Missing
<1>3. CASE al # Missing
  <2>1. "ALPHA" \in FlagsOf(m)  BY <1>3 DEF FlagsOf, Features
  <2>2. AlphaChunk \subseteq Before(m)  BY <2>1 DEF AlphaChunk, Before, ImageTags
  <2> QED BY <1>1, <2>2, SeqsAreMonotonic
<1> QED BY <1>2, <1>3

\* The chunks of a file with one image that is no frame.
LEMMA StillStands ==
  ASSUME NEW m \in MuxObject, Len(m.images) = 1, m.images[1].header = Missing
  PROVE  /\ \E k : StandsAt(FileOf(m).chunks, k, m.images[1].img, Before(m))
         /\ /\ m.list["VP8X"] = << >> /\ m.list["ICCP"] = << >> /\ m.list["ANIM"] = << >>
            /\ m.images[1].alpha = Missing
            => FileOf(m).chunks[1] = m.images[1].img
<1> DEFINE l(n) == m.list[n]
           i == m.images[1]
           S == Before(m)
           V == l("VP8X")
           I == l("ICCP")
           A == l("ANIM")
           E == EmittedAll(m.images)
           X == l("EXIF")
           M == l("XMP")
           U == l("unknown")
           p == V \o I \o A
           cs == V \o I \o A \o E \o X \o M \o U
<1>1. FileOf(m).chunks = cs  BY DEF FileOf, EmittedAll
<1>2. \A n \in ListNames : l(n) \in Seq(S) /\ l(n) \in Seq(AnyChunk)
  BY ListsAreListed, ListedIsBefore
<1>3. m.images \in Seq(ImageRec) /\ i \in ImageRec  BY DEF MuxObject
<1>4. i.alpha \in Seq(S)  BY AlphaIsBefore
<1>5. E = Emitted(i)  BY <1>3, OnlyImage
<1> HIDE DEF l, i, S
<1>6. /\ V \in Seq(S) /\ I \in Seq(S) /\ A \in Seq(S)
      /\ V \in Seq(AnyChunk) /\ I \in Seq(AnyChunk) /\ A \in Seq(AnyChunk)
      /\ X \in Seq(AnyChunk) /\ M \in Seq(AnyChunk) /\ U \in Seq(AnyChunk)
  BY <1>2 DEF ListNames
<1>7. PICK k \in Nat \ {0} :
        StandsAt(Emitted(i), k, i.img, S) /\ (i.alpha = Missing => k = 1)
  BY <1>3, <1>4, ImageStands DEF i
<1> HIDE DEF V, I, A, E, X, M, U
<1>8. p \in Seq(S) /\ p \in Seq(AnyChunk)  BY <1>6
<1>9. V = << >> /\ I = << >> /\ A = << >> => Len(p) = 0  BY <1>6
<1> HIDE DEF p
<1>10. StandsAt(p \o E, Len(p) + k, i.img, S)  BY <1>5, <1>7, <1>8, MoreBefore
<1>11. StandsAt(p \o E \o X, Len(p) + k, i.img, S)  BY <1>6, <1>10, MoreBehind
<1>12. StandsAt(p \o E \o X \o M, Len(p) + k, i.img, S)  BY <1>6, <1>11, MoreBehind
<1>13. StandsAt(p \o E \o X \o M \o U, Len(p) + k, i.img, S)  BY <1>6, <1>12, MoreBehind
<1>14. cs = p \o E \o X \o M \o U  BY DEF p
<1> HIDE DEF cs
<1>15. V = << >> /\ I = << >> /\ A = << >> /\ i.alpha = Missing => cs[1] = i.img
  BY <1>7, <1>9, <1>13, <1>14 DEF StandsAt
<1> QED BY <1>1, <1>13, <1>14, <1>15 DEF V, I, A, l, i, S

LEMMA FrameIsEmitted ==
  ASSUME NEW i \in ImageRec, i.header # Missing
  PROVE  Emitted(i) # << >> /\ Emitted(i)[1].tag = "ANMF"
<1> DEFINE a == i.header
           b == i.alpha
           c == << i.img >>
           u == i.unknown
           a1 == a \o b
           a2 == a1 \o c
           parts == a2 \o u
<1>1. a # << >> /\ a[1] \in FrameChunk /\ a \in Seq(AnyChunk) /\ b \in Seq(AnyChunk)
      /\ c \in Seq(AnyChunk) /\ u \in Seq(AnyChunk)
  <2>1. a \in Seq(FrameChunk) /\ b \in Seq(AlphaChunk) /\ i.img \in ImageChunk /\ u \in Seq(AnyChunk)
    BY DEF ImageRec, WholeImage
  <2>2. AlphaChunk \subseteq AnyChunk  BY DEF AlphaChunk
  <2>3. a \in Seq(AnyChunk) /\ b \in Seq(AnyChunk)
    BY <2>1, <2>2, ChunkKinds, SeqsAreMonotonic
  <2> QED BY <2>1, <2>3, ChunkKinds DEF Missing
<1>2. Emitted(i) = [parts EXCEPT ![1].size = ListSize(parts) - CHUNK_HEADER_SIZE]
  BY DEF Emitted
<1>3. a1 = a \o b /\ a2 = a1 \o c /\ parts = a2 \o u  OBVIOUS
<1> HIDE DEF a, b, c, u, a1, a2, parts
<1>4. a1 \in Seq(AnyChunk) /\ a1 # << >> /\ a1[1] = a[1]  BY <1>1, <1>3, FirstOfBoth
<1>5. a2 \in Seq(AnyChunk) /\ a2 # << >> /\ a2[1] = a1[1]
  BY <1>1, <1>3, <1>4, FirstOfBoth
<1>6. parts \in Seq(AnyChunk) /\ parts # << >> /\ parts[1] = a2[1]
  BY <1>1, <1>3, <1>5, FirstOfBoth
<1>7. parts[1] \in FrameChunk /\ parts[1].tag = "ANMF"
  BY <1>1, <1>4, <1>5, <1>6 DEF FrameChunk
<1> DEFINE h == [parts[1] EXCEPT !.size = ListSize(parts) - CHUNK_HEADER_SIZE]
<1>8. h.tag = "ANMF"  BY <1>7 DEF FrameChunk
<1>9. ListSize(parts) - CHUNK_HEADER_SIZE \in Nat  BY <1>6, ListHasSize, SizesAreNat
<1>10. h \in AnyChunk
  <2>1. h \in FrameChunk  BY <1>7, <1>9 DEF FrameChunk
  <2> QED BY <2>1, ChunkKinds
<1>11. Emitted(i) = [parts EXCEPT ![1] = h]  BY <1>2
<1> HIDE DEF h
<1>12. 1 \in 1 .. Len(parts)  BY <1>6
<1>13. Len(Emitted(i)) = Len(parts) /\ Emitted(i)[1] = h
  BY <1>6, <1>10, <1>11, <1>12, ExceptSeq
<1>14. Emitted(i) # << >>  BY <1>12, <1>13
<1> QED BY <1>8, <1>13, <1>14

LEMMA FramesAreEmitted ==
  ASSUME NEW images \in Seq(ImageRec), images # << >>, images[1].header # Missing
  PROVE  EmittedAll(images) # << >> /\ EmittedAll(images)[1].tag = "ANMF"
<1> DEFINE n == Len(images)
           T == { s \in Seq(AnyChunk) : s # << >> /\ s[1].tag = "ANMF" }
<1>1. /\ n \in Nat /\ n >= 1 /\ DOMAIN images = 1 .. n
      /\ \A k \in 1 .. n : images[k] \in ImageRec
  OBVIOUS
<1>2. \A k \in 1 .. n : Emitted(images[k]) \in Seq(AnyChunk)  BY <1>1, EmittedIsTyped
<1> HIDE DEF n
<1>3. PICK v : Folds(Emit, v, << >>, images, n) /\ EmittedAll(images) = v[n]
  BY <1>1, EmitInSteps
<1>4. \A k \in 1 .. n : v[k] = v[k - 1] \o Emitted(images[k])
  BY <1>3 DEF Folds, FoldStep, Emit
<1>5. v[1] \in T
  <2>1. 1 \in 1 .. n /\ 1 - 1 = 0  BY <1>1
  <2>2. v[1] = << >> \o Emitted(images[1])  BY <1>3, <1>4, <2>1 DEF Folds
  <2>3. v[1] = Emitted(images[1])  BY <1>2, <2>1, <2>2, ConcatEmptySeq
  <2> QED BY <1>1, <1>2, <2>1, <2>3, FrameIsEmitted
<1> DEFINE S == { k \in Nat : k + 1 <= n => v[k + 1] \in T }
<1>6. 0 \in S  BY <1>5
<1>7. ASSUME NEW k \in Nat, k \in S PROVE k + 1 \in S
  <2> SUFFICES ASSUME k + 1 + 1 <= n PROVE v[k + 1 + 1] \in T
    OBVIOUS
  <2>1. k + 1 + 1 \in 1 .. n /\ (k + 1 + 1) - 1 = k + 1 /\ v[k + 1] \in T  BY <1>1, <1>7
  <2>2. v[k + 1 + 1] = v[k + 1] \o Emitted(images[k + 1 + 1])  BY <1>4, <2>1
  <2>3. Emitted(images[k + 1 + 1]) \in Seq(AnyChunk)  BY <1>2, <2>1
  <2>4. v[k + 1] \in Seq(AnyChunk) /\ v[k + 1] # << >>  BY <2>1
  <2>5. /\ v[k + 1 + 1] \in Seq(AnyChunk) /\ v[k + 1 + 1] # << >>
        /\ v[k + 1 + 1][1] = v[k + 1][1]
    <3> DEFINE a == v[k + 1]
               e == Emitted(images[k + 1 + 1])
    <3>1. a \in Seq(AnyChunk) /\ a # << >> /\ e \in Seq(AnyChunk) /\ v[k + 1 + 1] = a \o e
      BY <2>2, <2>3, <2>4
    <3> HIDE DEF a, e
    <3>2. a \o e \in Seq(AnyChunk) /\ a \o e # << >> /\ (a \o e)[1] = a[1]
      BY <3>1, FirstOfBoth
    <3> QED BY <3>1, <3>2 DEF a
  <2> QED BY <2>1, <2>5
<1> HIDE DEF S
<1>8. Nat \subseteq S  BY <1>6, <1>7, Induction
<1>9. n - 1 \in Nat /\ (n - 1) + 1 = n  BY <1>1
<1>10. v[n] \in T  BY <1>8, <1>9 DEF S
<1> QED BY <1>3, <1>10

\* What is in the file of any mux object, and what it starts with.
LEMMA FileStarts ==
  ASSUME NEW m \in MuxObject
  PROVE  /\ m.list["VP8X"] # << >> =>
              FileOf(m).chunks # << >> /\ FileOf(m).chunks[1] = m.list["VP8X"][1]
         /\ Animated(m) => HasFrames(FileOf(m))
<1> DEFINE l(n) == m.list[n]
           V == l("VP8X")
           I == l("ICCP")
           A == l("ANIM")
           E == EmittedAll(m.images)
           X == l("EXIF")
           M == l("XMP")
           U == l("unknown")
           p == V \o I \o A
           cs == V \o I \o A \o E \o X \o M \o U
<1>1. FileOf(m).chunks = cs  BY DEF FileOf, EmittedAll
<1>2. \A n \in ListNames : l(n) \in Seq(AnyChunk)  BY ListsAreListed
<1>3. m.images \in Seq(ImageRec) /\ E \in Seq(AnyChunk)  BY AllIsTyped DEF MuxObject
<1> HIDE DEF l
<1>4. /\ V \in Seq(AnyChunk) /\ I \in Seq(AnyChunk) /\ A \in Seq(AnyChunk)
      /\ X \in Seq(AnyChunk) /\ M \in Seq(AnyChunk) /\ U \in Seq(AnyChunk)
  BY <1>2 DEF ListNames
<1>5. ASSUME Animated(m) PROVE E # << >> /\ E[1].tag = "ANMF"
  BY <1>3, <1>5, FramesAreEmitted DEF Animated
<1> HIDE DEF V, I, A, E, X, M, U
<1>6. ASSUME NEW s, NEW k, NEW c, StandsAt(s, k, c, AnyChunk)
      PROVE  StandsAt(s \o X \o M \o U, k, c, AnyChunk)
  <2>1. StandsAt(s \o X, k, c, AnyChunk)  BY <1>4, <1>6, MoreBehind
  <2>2. StandsAt(s \o X \o M, k, c, AnyChunk)  BY <1>4, <2>1, MoreBehind
  <2> QED BY <1>4, <2>2, MoreBehind
<1>7. ASSUME V # << >> PROVE cs # << >> /\ cs[1] = V[1]
  <2>1. StandsAt(V, 1, V[1], AnyChunk)  BY <1>4, <1>7 DEF StandsAt
  <2>2. StandsAt(V \o I, 1, V[1], AnyChunk)  BY <1>4, <2>1, MoreBehind
  <2>3. StandsAt(V \o I \o A, 1, V[1], AnyChunk)  BY <1>4, <2>2, MoreBehind
  <2>4. StandsAt(V \o I \o A \o E, 1, V[1], AnyChunk)  BY <1>3, <2>3, MoreBehind
  <2>5. StandsAt(cs, 1, V[1], AnyChunk)  BY <1>6, <2>4
  <2> HIDE DEF cs
  <2> QED BY <2>5 DEF StandsAt
<1>8. ASSUME Animated(m) PROVE \E k \in 1 .. Len(cs) : cs[k].tag = "ANMF"
  <2>1. StandsAt(E, 1, E[1], AnyChunk)  BY <1>3, <1>5, <1>8 DEF StandsAt
  <2>2. p \in Seq(AnyChunk)  BY <1>4
  <2>3. StandsAt(p \o E, Len(p) + 1, E[1], AnyChunk)  BY <2>1, <2>2, MoreBefore
  <2>4. StandsAt(cs, Len(p) + 1, E[1], AnyChunk)  BY <1>6, <2>3
  <2> QED BY <1>5, <1>8, <2>4 DEF StandsAt
<1> HIDE DEF cs
<1> QED BY <1>1, <1>7, <1>8 DEF HasFrames, V, l

-----------------------------------------------------------------------------
(* The three kinds of files.                                                 *)

LEMMA FileIsListed ==
  ASSUME NEW m \in MuxObject, FileOf(m).chunks # << >> PROVE IsListed(FileOf(m))
<1>1. FileOf(m).riff_end = FileSize(FileOf(m))  BY DEF FileOf, FileSize
<1> QED BY <1>1, FileIsTyped DEF IsListed, File

LEMMA FlagsAreKnown ==
  ASSUME NEW m, Written(m), m.list["VP8X"] # << >>
  PROVE  m.list["VP8X"] = << VP8X(FlagsOf(m), CanvasOf(m)) >> /\ MuxFlags(m) = FlagsOf(m)
<1>1. m.list["VP8X"] = << VP8X(FlagsOf(m), CanvasOf(m)) >>  BY DEF Written
<1>2. m.list["VP8X"][1].v.flags = FlagsOf(m)  BY <1>1 DEF VP8X
<1> QED BY <1>1, <1>2 DEF MuxFlags

\* Without a canvas there is one image and nothing else.
LEMMA SingleIsWritten ==
  ASSUME NEW m, Written(m), m.list["VP8X"] = << >> PROVE SingleFile(FileOf(m))
<1>1. m \in MuxObject /\ m.images # << >> /\ MuxValidate(m) /\ Features(m) = {}
  BY DEF Written
<1>2. Len(m.images) = 1 /\ m.images[1] \in ImageRec  BY <1>1 DEF MuxValidate, MuxObject
<1>3. ~ Animated(m) /\ \A t \in Metadata : m.list[t] = << >>  BY <1>1 DEF Features
<1>4. m.images[1].header = Missing  BY <1>1, <1>3 DEF Animated
<1>5. m.images[1].alpha = Missing  BY <1>1, <1>2 DEF Features
<1>6. m.list["ICCP"] = << >>  BY <1>3 DEF Metadata
<1>7. m.list["ANIM"] = << >>
  <2>1. "ANIMATION" \notin MuxFlags(m)  BY DEF MuxFlags
  <2> QED BY <1>1, <2>1 DEF MuxValidate
<1>8. PICK k : StandsAt(FileOf(m).chunks, k, m.images[1].img, Before(m))
  BY <1>1, <1>2, <1>4, StillStands
<1>9. FileOf(m).chunks[1] = m.images[1].img
  BY <1>1, <1>2, <1>4, <1>5, <1>6, <1>7, StillStands
<1>10. FileOf(m).chunks # << >>  BY <1>8 DEF StandsAt
<1>11. m.images[1].img \in WholeImage  BY <1>2 DEF ImageRec
<1> QED BY <1>1, <1>9, <1>10, <1>11, FileIsListed DEF SingleFile

LEMMA CanvasIsWritten ==
  ASSUME NEW m, Written(m), m.list["VP8X"] # << >>
  PROVE  /\ CanvasFile(FileOf(m)) /\ FileOf(m).chunks[1].v.flags = FlagsOf(m)
         /\ FileOf(m).chunks[1].v.width = CanvasOf(m)
<1> DEFINE c == VP8X(FlagsOf(m), CanvasOf(m))
           f == FileOf(m)
<1>1. m \in MuxObject /\ m.list["VP8X"] = << c >>  BY FlagsAreKnown DEF Written
<1>2. f.chunks # << >> /\ f.chunks[1] = c
  <2> HIDE DEF c
  <2>1. << c >>[1] = c /\ << c >> # << >>  OBVIOUS
  <2>2. f.chunks # << >> /\ f.chunks[1] = m.list["VP8X"][1]  BY <1>1, FileStarts
  <2> QED BY <1>1, <2>1, <2>2
<1>3. c.size = VP8X_CHUNK_SIZE /\ c.v.flags = FlagsOf(m) /\ c.v.width = CanvasOf(m) /\ c.tag = "VP8X"
  BY DEF VP8X
<1>4. c \in CanvasChunk
  <2>1. "VP8X" \in ListNames  BY DEF ListNames
  <2>2. << c >> \in Seq(AnyChunk)  BY <1>1, <2>1, ListsAreListed
  <2> HIDE DEF c
  <2>3. << c >>[1] \in AnyChunk /\ << c >>[1] = c  BY <2>2
  <2> QED BY <1>3, <2>3, KindOfChunk
<1> HIDE DEF c
<1> QED BY <1>1, <1>2, <1>3, <1>4, FileIsListed DEF CanvasFile

LEMMA AnimationIsWritten ==
  ASSUME NEW m, Written(m), m.list["VP8X"] # << >>, "ANIMATION" \in FlagsOf(m)
  PROVE  AnimationFile(FileOf(m))
<1>1. Animated(m)  BY DEF FlagsOf, Features, Metadata
<1>2. HasFrames(FileOf(m))  BY <1>1, FileStarts DEF Written
<1> QED BY <1>2, CanvasIsWritten DEF AnimationFile

\* A canvas without frames has one image, which it fits.
LEMMA StillHasImage ==
  ASSUME NEW m, Written(m), m.list["VP8X"] # << >>, "ANIMATION" \notin FlagsOf(m)
  PROVE  /\ Len(m.images) = 1 /\ m.images[1].header = Missing
         /\ WidthOf(m.images[1]) = CanvasOf(m)
<1>1. m \in MuxObject /\ m.images # << >> /\ MuxValidate(m) /\ MuxFlags(m) = FlagsOf(m)
      /\ (m.width = 0 \/ GetAdjustedCanvasSize(m) <= m.width)
  BY FlagsAreKnown DEF Written
<1>2. Len(m.images) = 1 /\ (m.width > 0 => WidthOf(m.images[1]) = m.width)
  BY <1>1 DEF MuxValidate
<1>3. ~ Animated(m)  BY DEF FlagsOf, Features
<1>4. m.images[1].header = Missing  BY <1>1, <1>3 DEF Animated
<1>5. m.width \in Int /\ GetAdjustedCanvasSize(m) \in Nat \ {0}
  BY <1>1, CanvasHasWidth DEF MuxObject
<1>6. GetAdjustedCanvasSize(m) = WidthOf(m.images[1])  BY <1>2 DEF GetAdjustedCanvasSize
<1>7. CanvasOf(m) = IF m.width # 0 THEN m.width ELSE GetAdjustedCanvasSize(m)
  BY DEF CanvasOf
<1>8. WidthOf(m.images[1]) = CanvasOf(m)  BY <1>1, <1>2, <1>5, <1>6, <1>7
<1> QED BY <1>2, <1>4, <1>8

LEMMA StillIsWritten ==
  ASSUME NEW m, Written(m), m.list["VP8X"] # << >>, "ANIMATION" \notin FlagsOf(m)
  PROVE  \E k : StillFile(FileOf(m), k)
<1> DEFINE cs == FileOf(m).chunks
           i == m.images[1]
<1>1. m \in MuxObject /\ Len(m.images) = 1 /\ i.header = Missing /\ WidthOf(i) = CanvasOf(m)
  BY StillHasImage DEF Written
<1>2. i \in ImageRec  BY <1>1 DEF MuxObject
<1>3. i.img \in WholeImage /\ i.img.tag \in ImageTags /\ (i.img.tag = "VP8L" => i.alpha = Missing)
  BY <1>2 DEF ImageRec, WholeImage, ImageChunk
<1>4. PICK k : StandsAt(cs, k, i.img, Before(m))  BY <1>1, StillStands
<1>5. CanvasFile(FileOf(m)) /\ cs[1].v.flags = FlagsOf(m) /\ cs[1].v.width = CanvasOf(m)
  BY CanvasIsWritten
<1>6. cs \in Seq(AnyChunk) /\ k \in 1 .. Len(cs) /\ cs[k] = i.img
      /\ \A j \in 1 .. k - 1 : cs[j] \in Before(m)
  BY <1>4 DEF StandsAt
<1>7. k # 1
  <2>1. cs[1].tag = "VP8X"  BY <1>5 DEF CanvasFile, CanvasChunk
  <2> QED BY <1>3, <1>6, <2>1 DEF ImageTags
<1>8. k \in 2 .. Len(cs) /\ \A j \in 2 .. k - 1 : j \in 1 .. k - 1  BY <1>6, <1>7
<1>9. \A j \in 2 .. k - 1 :
        cs[j].tag \notin ImageTags /\ (cs[j].tag = "ALPH" => "ALPHA" \in FlagsOf(m))
  BY <1>6, <1>8 DEF Before
<1>10. ASSUME i.img.tag = "VP8L" PROVE i.img.v.has_alpha <=> "ALPHA" \in FlagsOf(m)
  <2>1. \A n \in 1 .. Len(m.images) : n = 1  BY <1>1
  <2>2. 1 \in 1 .. Len(m.images)  BY <1>1
  <2>3. i.alpha = Missing  BY <1>3, <1>10
  <2>4. "ALPHA" \notin Features(m)  BY <2>1, <2>3 DEF Features, Metadata
  <2>5. MuxHasAlpha(m) <=> HasAlpha(i)  BY <2>1, <2>2 DEF MuxHasAlpha
  <2>6. HasAlpha(i) <=> i.img.v.has_alpha  BY <2>3 DEF HasAlpha
  <2> QED BY <2>4, <2>5, <2>6 DEF FlagsOf
<1>11. i.img.v.width = CanvasOf(m)  BY <1>1 DEF WidthOf
<1> HIDE DEF cs, i
<1> QED BY <1>3, <1>5, <1>6, <1>8, <1>9, <1>10, <1>11 DEF StillFile, cs

LEMMA OwnFileIsWritten ==
  ASSUME NEW m, Written(m) PROVE OwnFile(FileOf(m))
  BY SingleIsWritten, AnimationIsWritten, StillIsWritten DEF OwnFile

-----------------------------------------------------------------------------
(* What ParseHeadersInternal finds in the beginning of one.                  *)

LEMMA LeastIsOne ==
  ASSUME NEW S \in SUBSET Nat, NEW k \in S PROVE Min(S) \in S /\ Min(S) <= k
<1> DEFINE HasMin(t) == \E x \in t : \A y \in t : x <= y
           N == { n \in Nat : \A t \in SUBSET Nat : (\E x \in t : x <= n) => HasMin(t) }
<1>1. 0 \in N
  <2> SUFFICES ASSUME NEW t \in SUBSET Nat, NEW x \in t, x <= 0 PROVE HasMin(t)
    OBVIOUS
  <2>1. \A y \in t : x <= y  OBVIOUS
  <2> QED BY <2>1
<1>2. ASSUME NEW n \in Nat, n \in N PROVE n + 1 \in N
  <2> SUFFICES ASSUME NEW t \in SUBSET Nat, NEW x \in t, x <= n + 1 PROVE HasMin(t)
    OBVIOUS
  <2>1. CASE \E y \in t : y <= n  BY <1>2, <2>1
  <2>2. CASE ~ \E y \in t : y <= n
    <3>1. \A y \in t : x <= y  BY <2>2
    <3> QED BY <3>1
  <2> QED BY <2>1, <2>2
<1> HIDE DEF N
<1>3. Nat \subseteq N  BY <1>1, <1>2, Induction
<1>4. HasMin(S)
  <2>1. k \in N /\ k <= k  BY <1>3
  <2> QED BY <2>1 DEF N
<1>5. Min(S) \in S /\ \A y \in S : Min(S) <= y  BY <1>4 DEF Min
<1> QED BY <1>5

LEMMA SizesOfHeaders ==
  /\ TAG_SIZE = RIFF_HEADER_SIZE - CHUNK_HEADER_SIZE /\ TAG_SIZE \in Int
  /\ VP8X_CHUNK_SIZE \in Nat /\ VP8X_CHUNK_SIZE > 0
  BY SizeAssumption DEF TAG_SIZE

\* How much there is from a chunk on, and in all.
LEMMA PrefixOfList ==
  ASSUME NEW f, IsListed(f), NEW n \in Nat
  PROVE  /\ Prefix(f, n).chunks = f.chunks /\ Prefix(f, n).size = n
         /\ Prefix(f, n).riff_size = TAG_SIZE + ListSize(f.chunks)
         /\ ListSize(f.chunks) \in Nat
         /\ Prefix(f, n).riff_size \in Nat \ {0}
         /\ ParseRIFF(Prefix(f, n), FALSE) = "OK"
         /\ \A i \in 1 .. Len(f.chunks) + 1 : Left(Prefix(f, n), i) = n - Offset(f.chunks, i)
<1> DEFINE in == Prefix(f, n)
           cs == f.chunks
<1>1. /\ cs \in Seq(AnyChunk) /\ cs # << >>
      /\ in.chunks = cs /\ in.size = n /\ in.riff_size = f.riff_end - CHUNK_HEADER_SIZE
      /\ f.riff_end = RIFF_HEADER_SIZE + ListSize(cs)
  BY DEF IsListed, Prefix, FileSize
<1>2. ListSize(cs) \in Nat /\ ListSize(cs) >= CHUNK_HEADER_SIZE  BY <1>1, ListHasSize
<1> HIDE DEF in, cs
<1>3. in.riff_size = TAG_SIZE + ListSize(cs)  BY <1>1, <1>2, SizesAreNat, SizesOfHeaders
<1>4. in.riff_size \in Nat \ {0} /\ ~ (in.riff_size < TAG_SIZE + CHUNK_HEADER_SIZE)
  BY <1>2, <1>3, SizesAreNat, SizesOfHeaders
<1>5. ParseRIFF(in, FALSE) = "OK"  BY <1>4 DEF ParseRIFF
<1>6. ASSUME NEW i \in 1 .. Len(cs) + 1 PROVE Left(in, i) = n - Offset(cs, i)
  <2> DEFINE s == SubSeq(cs, 1, i - 1)
  <2>1. s \in Seq(AnyChunk)
    <3>1. Len(cs) \in Nat /\ \A j \in 1 .. i - 1 : cs[j] \in AnyChunk  BY <1>1
    <3> QED BY <3>1, SubSeqProperties
  <2>2. Left(in, i) = n - ListSize(s) - RIFF_HEADER_SIZE /\ Offset(cs, i) = RIFF_HEADER_SIZE + ListSize(s)
    BY <1>1, <1>4 DEF Left, Offset
  <2> HIDE DEF s
  <2>3. ListSize(s) \in Nat  BY <2>1, ListHasSize
  <2> QED BY <2>2, <2>3, SizesAreNat
<1> QED BY <1>1, <1>2, <1>3, <1>4, <1>5, <1>6 DEF in, cs

\* A chunk ends where the file ends, or before.
LEMMA ChunkIsInFile ==
  ASSUME NEW f, IsListed(f), NEW i \in 1 .. Len(f.chunks)
  PROVE  /\ Offset(f.chunks, i) \in Nat /\ DiskSize(f.chunks[i]) \in Nat
         /\ Offset(f.chunks, i) >= RIFF_HEADER_SIZE
         /\ Offset(f.chunks, i) + DiskSize(f.chunks[i]) <= FileSize(f)
         /\ DiskSize(f.chunks[i]) >= CHUNK_HEADER_SIZE /\ FileSize(f) \in Nat
<1> DEFINE cs == f.chunks
           n == Len(cs)
<1>1. cs \in Seq(AnyChunk) /\ n \in Nat /\ cs[i] \in AnyChunk /\ i \in 1 .. n
  BY DEF IsListed
<1>2. Layout(cs) /\ Offset(cs, n + 1) = FileSize(f)  BY <1>1, ChunksFollow DEF FileSize
<1> HIDE DEF cs, n
<1>3. i \in 1 .. n + 1 /\ i + 1 \in 1 .. n + 1 /\ n + 1 \in 1 .. n + 1
      /\ (i + 1 < n + 1 \/ i + 1 = n + 1)
  BY <1>1
<1>4. /\ Offset(cs, i + 1) = Offset(cs, i) + DiskSize(cs[i])
      /\ Offset(cs, i) \in Nat /\ Offset(cs, i + 1) \in Nat /\ Offset(cs, n + 1) \in Nat
      /\ Offset(cs, i) >= RIFF_HEADER_SIZE
  BY <1>1, <1>2, <1>3 DEF Layout, n
<1>5. Offset(cs, i + 1) <= Offset(cs, n + 1)
  <2>1. i + 1 < n + 1 => Offset(cs, i + 1) < Offset(cs, n + 1)
    BY <1>2, <1>3 DEF Layout, n
  <2> QED BY <1>3, <1>4, <2>1
<1>6. DiskSize(cs[i]) \in Nat /\ DiskSize(cs[i]) >= CHUNK_HEADER_SIZE
  BY <1>1, DiskSizeIsNat
<1> QED BY <1>2, <1>4, <1>5, <1>6 DEF cs

\* The chunks from the second on do not reach beyond the RIFF chunk.
LEMMA RiffIsWideEnough ==
  ASSUME NEW f, CanvasFile(f), NEW n \in Nat, NEW i \in 2 .. Len(f.chunks)
  PROVE  ~ OutOfRiff(Prefix(f, n), 2, i)
<1> DEFINE cs == f.chunks
           s == SubSeq(cs, 2, i)
<1>1. /\ IsListed(f) /\ cs \in Seq(AnyChunk) /\ Len(cs) \in Nat /\ i \in 2 .. Len(cs)
      /\ \A j \in 1 .. Len(cs) : cs[j] \in AnyChunk
  BY DEF CanvasFile, IsListed
<1>2. s \in Seq(AnyChunk) /\ Len(s) = i - 1 /\ \A j \in 1 .. i - 1 : s[j] = cs[j + 1]
  <2>1. \A j \in 2 .. i : cs[j] \in AnyChunk  BY <1>1
  <2>2. /\ s \in Seq(AnyChunk) /\ Len(s) = IF 2 <= i THEN i - 2 + 1 ELSE 0
        /\ \A j \in 1 .. i - 2 + 1 : s[j] = cs[2 + j - 1]
    BY <1>1, <2>1, SubSeqProperties
  <2>3. i - 2 + 1 = i - 1 /\ \A j \in 1 .. i - 1 : 2 + j - 1 = j + 1  BY <1>1
  <2> HIDE DEF s
  <2> QED BY <1>1, <2>2, <2>3
<1> HIDE DEF s, cs
<1>3. PICK v : Sums(v, cs)  BY <1>1, SumsExist
<1>4. PICK w : Sums(w, s)  BY <1>2, SumsExist
<1>5. DiskSize(cs[1]) \in Nat /\ \A j \in 1 .. i - 1 : DiskSize(cs[j + 1]) \in Nat
  <2>1. 1 \in 1 .. Len(cs) /\ \A j \in 1 .. i - 1 : j + 1 \in 1 .. Len(cs)  BY <1>1
  <2> QED BY <1>1, <2>1, DiskSizeIsNat
<1>6. ListSize(s) + DiskSize(cs[1]) = v[i]
  <2> DEFINE S == { k \in Nat : k <= i - 1 => w[k] \in Nat /\ w[k] + DiskSize(cs[1]) = v[k + 1] }
  <2>1. 0 \in S
    <3>1. w[0] = 0 /\ v[0] = 0 /\ 1 \in 1 .. Len(cs) /\ 1 - 1 = 0
      BY <1>1, <1>3, <1>4 DEF Sums
    <3>2. v[1] = v[0] + DiskSize(cs[1])  BY <1>3, <3>1 DEF Sums
    <3> QED BY <1>5, <3>1, <3>2
  <2>2. ASSUME NEW k \in Nat, k \in S PROVE k + 1 \in S
    <3> SUFFICES ASSUME k + 1 <= i - 1
                 PROVE  w[k + 1] \in Nat /\ w[k + 1] + DiskSize(cs[1]) = v[k + 1 + 1]
      OBVIOUS
    <3>1. /\ k + 1 \in 1 .. Len(s) /\ (k + 1) - 1 = k /\ k + 1 \in 1 .. i - 1
          /\ k + 1 + 1 \in 1 .. Len(cs) /\ (k + 1 + 1) - 1 = k + 1
      BY <1>1, <1>2
    <3>2. w[k + 1] = w[k] + DiskSize(s[k + 1])  BY <1>4, <3>1 DEF Sums
    <3>3. v[k + 1 + 1] = v[k + 1] + DiskSize(cs[k + 1 + 1])  BY <1>3, <3>1 DEF Sums
    <3>4. s[k + 1] = cs[k + 1 + 1]  BY <1>2, <3>1
    <3>5. w[k] \in Nat /\ w[k] + DiskSize(cs[1]) = v[k + 1]  BY <1>1, <2>2
    <3>6. DiskSize(cs[k + 1 + 1]) \in Nat  BY <1>5, <3>1
    <3> QED BY <1>5, <3>2, <3>3, <3>4, <3>5, <3>6
  <2> HIDE DEF S
  <2>3. Nat \subseteq S  BY <2>1, <2>2, Induction
  <2>4. i - 1 \in Nat /\ (i - 1) + 1 = i  BY <1>1
  <2>5. w[i - 1] + DiskSize(cs[1]) = v[i]  BY <2>3, <2>4 DEF S
  <2> QED BY <1>2, <1>4, <2>5 DEF Sums
<1>7. v[i] <= ListSize(cs) /\ v[i] \in Nat
  <2>1. i \in 0 .. Len(cs) /\ i \in 1 .. Len(cs) /\ i + 1 \in 1 .. Len(cs) + 1 /\ (i + 1) - 1 = i
        /\ i \in 1 .. Len(cs) + 1
    BY <1>1
  <2>2. v[i] \in Nat /\ Offset(cs, i + 1) = RIFF_HEADER_SIZE + v[i]
    BY <1>3, <2>1 DEF Sums
  <2>3. Offset(cs, i + 1) = Offset(cs, i) + DiskSize(cs[i])
    BY <1>1, <2>1, ChunksFollow DEF Layout
  <2>4. Offset(cs, i) + DiskSize(cs[i]) <= FileSize(f)
    BY <1>1, <2>1, ChunkIsInFile DEF cs
  <2>5. FileSize(f) = RIFF_HEADER_SIZE + ListSize(cs) /\ ListSize(cs) \in Nat
    BY <1>1, ListHasSize DEF FileSize, cs
  <2> QED BY <2>2, <2>3, <2>4, <2>5, SizesAreNat
<1>8. DiskSize(cs[1]) >= CHUNK_HEADER_SIZE + VP8X_CHUNK_SIZE
  <2>1. cs[1].tag = "VP8X" /\ cs[1].size = VP8X_CHUNK_SIZE
    BY DEF CanvasFile, CanvasChunk, cs
  <2>2. Padded(VP8X_CHUNK_SIZE) \in Nat /\ VP8X_CHUNK_SIZE <= Padded(VP8X_CHUNK_SIZE)
    BY PaddedIsNat, SizesOfHeaders
  <2>3. DiskSize(cs[1]) = CHUNK_HEADER_SIZE + Padded(VP8X_CHUNK_SIZE)
    BY <2>1 DEF DiskSize
  <2> QED BY <2>2, <2>3, SizesAreNat, SizesOfHeaders
<1>9. ListSize(s) \in Nat /\ ListSize(cs) \in Nat  BY <1>1, <1>2, ListHasSize
<1> DEFINE in == Prefix(f, n)
<1>10. in.chunks = cs /\ in.riff_size = TAG_SIZE + ListSize(cs)
  BY <1>1, PrefixOfList DEF cs
<1> HIDE DEF in
<1>11. TotalSize(in, 2, i) = TAG_SIZE + CHUNK_HEADER_SIZE + VP8X_CHUNK_SIZE + ListSize(s)
  BY <1>10 DEF TotalSize, s
<1>12. ~ (TotalSize(in, 2, i) > in.riff_size)
  BY <1>5, <1>6, <1>7, <1>8, <1>9, <1>10, <1>11, SizesAreNat, SizesOfHeaders
<1> QED BY <1>12 DEF OutOfRiff, in

\* The header of an image is all that is waited for.
LEMMA HeaderOfImage ==
  ASSUME NEW f, IsListed(f), NEW n \in Nat, NEW i \in 1 .. Len(f.chunks),
         f.chunks[i] \in WholeImage
  PROVE  /\ ParseVP8Header(Prefix(f, n), i, FALSE)
               = IF n - Offset(f.chunks, i) < CHUNK_HEADER_SIZE + f.chunks[i].v.need
                 THEN "NOT_ENOUGH_DATA" ELSE "OK"
         /\ n = FileSize(f) => ParseVP8Header(Prefix(f, n), i, FALSE) = "OK"
<1> DEFINE in == Prefix(f, n)
           cs == f.chunks
           c == cs[i]
           o == Offset(cs, i)
<1>1. /\ in.chunks = cs /\ in.riff_size = TAG_SIZE + ListSize(cs) /\ ListSize(cs) \in Nat
      /\ Left(in, i) = n - o
  <2>1. i \in 1 .. Len(cs) + 1  BY DEF IsListed
  <2> QED BY <2>1, PrefixOfList
<1>2. /\ c.tag \in ImageTags /\ c.size \in Nat /\ c.v.need \in Nat /\ c.v.need <= c.size
      /\ DiskSize(c) = CHUNK_HEADER_SIZE + Padded(c.size) /\ c.size <= Padded(c.size)
      /\ Padded(c.size) \in Nat
  <2>1. c.tag \in ImageTags /\ c.size \in Nat /\ c.v.need \in Nat /\ c.v.need <= c.size
    BY DEF WholeImage, ImageChunk
  <2> HIDE DEF c
  <2> QED BY <2>1, PaddedIsNat DEF DiskSize, ImageTags
<1>3. /\ o \in Nat /\ o >= RIFF_HEADER_SIZE /\ o + DiskSize(c) <= FileSize(f)
      /\ FileSize(f) = RIFF_HEADER_SIZE + ListSize(cs)
  BY ChunkIsInFile DEF FileSize
<1>4. ~ (i > Len(cs))  BY DEF IsListed
<1>5. in.chunks[i] = c  BY <1>1
<1> HIDE DEF c, o, cs, in
<1>6. ~ (c.size > in.riff_size - (TAG_SIZE + CHUNK_HEADER_SIZE))
  <2> DEFINE z == c.size
             d == DiskSize(c)
             l == ListSize(cs)
             z2 == Padded(z)
  <2>1. /\ z \in Nat /\ z2 \in Nat /\ l \in Nat /\ o \in Nat
        /\ z <= z2 /\ d = CHUNK_HEADER_SIZE + z2
        /\ o >= RIFF_HEADER_SIZE /\ o + d <= RIFF_HEADER_SIZE + l
        /\ in.riff_size = TAG_SIZE + l
    BY <1>1, <1>2, <1>3
  <2> HIDE DEF z, d, l, z2
  <2>2. ~ (z > (TAG_SIZE + l) - (TAG_SIZE + CHUNK_HEADER_SIZE))
    BY <2>1, SizesAreNat, SizesOfHeaders
  <2> QED BY <2>1, <2>2, Zenon DEF z
<1>7. ~ (c.size < c.v.need)  BY <1>2
<1>8. ParseVP8Header(in, i, FALSE)
        = IF Left(in, i) < CHUNK_HEADER_SIZE THEN "NOT_ENOUGH_DATA"
          ELSE IF Left(in, i) - CHUNK_HEADER_SIZE < c.v.need THEN "NOT_ENOUGH_DATA" ELSE "OK"
  BY <1>1, <1>2, <1>4, <1>5, <1>6, <1>7 DEF ParseVP8Header
<1>9. ParseVP8Header(in, i, FALSE)
        = IF n - o < CHUNK_HEADER_SIZE + c.v.need THEN "NOT_ENOUGH_DATA" ELSE "OK"
  <2> DEFINE d == n - o
             need == c.v.need
  <2>1. d \in Int /\ need \in Nat /\ Left(in, i) = d  BY <1>1, <1>2, <1>3
  <2> HIDE DEF d, need
  <2>2. (d < CHUNK_HEADER_SIZE \/ d - CHUNK_HEADER_SIZE < need) <=> d < CHUNK_HEADER_SIZE + need
    BY <2>1, SizesAreNat
  <2>3. ParseVP8Header(in, i, FALSE)
          = IF d < CHUNK_HEADER_SIZE \/ d - CHUNK_HEADER_SIZE < need
            THEN "NOT_ENOUGH_DATA" ELSE "OK"
    BY <1>8, <2>1 DEF need
  <2>4. ParseVP8Header(in, i, FALSE)
          = IF d < CHUNK_HEADER_SIZE + need THEN "NOT_ENOUGH_DATA" ELSE "OK"
    BY <2>2, <2>3, Zenon
  <2> QED BY <2>4, Zenon DEF d, need
<1>10. n = FileSize(f) => ~ (n - o < CHUNK_HEADER_SIZE + c.v.need)
  BY <1>2, <1>3, SizesAreNat
<1> QED BY <1>9, <1>10 DEF in, c, o, cs

LEMMA KnownSays ==
  ASSUME NEW says, NEW width, NEW has_alpha \in BOOLEAN, NEW i, NEW a
  PROVE  Says(Known(says, width, has_alpha, i, a), says, width, has_alpha)
<1> DEFINE r == Known(says, width, has_alpha, i, a)
<1>1. r.status = says /\ r.width = width  BY DEF Known
<1>2. r.has_alpha = has_alpha  BY Zenon DEF Known
<1> HIDE DEF r
<1>3. r.has_alpha \in BOOLEAN /\ (r.has_alpha <=> has_alpha)  BY <1>2
<1> QED BY <1>1, <1>3 DEF Says, r

LEMMA NothingSays ==
  ASSUME NEW says, says # "OK", NEW width, NEW has_alpha
  PROVE  Says(Nothing(says), says, width, has_alpha)
  BY DEF Nothing, Known, Says

LEMMA SingleSays ==
  ASSUME NEW f, SingleFile(f), NEW n \in Nat, NEW headers \in BOOLEAN
  PROVE  /\ Says(ParseHeadersInternal(Prefix(f, n), headers, FALSE),
                 IF n < RIFF_HEADER_SIZE + CHUNK_HEADER_SIZE + f.chunks[1].v.need
                 THEN "NOT_ENOUGH_DATA" ELSE "OK",
                 f.chunks[1].v.width, f.chunks[1].tag = "VP8L" /\ f.chunks[1].v.has_alpha)
         /\ ~ HasFlag(Prefix(f, n), "ANIMATION")
<1> DEFINE in == Prefix(f, n)
           c == f.chunks[1]
           r == ParseHeadersInternal(in, headers, FALSE)
           h == ParseVP8Header(in, 1, FALSE)
<1>1. IsListed(f) /\ c \in WholeImage /\ 1 \in 1 .. Len(f.chunks) /\ f.chunks \in Seq(AnyChunk)
  BY DEF SingleFile, IsListed
<1>2. /\ in.chunks = f.chunks /\ in.size = n /\ in.riff_size # 0
      /\ ParseRIFF(in, FALSE) = "OK" /\ Left(in, 1) = n - RIFF_HEADER_SIZE
  <2>1. Offset(f.chunks, 1) = RIFF_HEADER_SIZE  BY <1>1, ChunksFollow DEF Layout
  <2>2. 1 \in 1 .. Len(f.chunks) + 1  BY <1>1
  <2>3. /\ in.chunks = f.chunks /\ in.size = n /\ in.riff_size \in Nat \ {0}
        /\ ParseRIFF(in, FALSE) = "OK"
        /\ \A i \in 1 .. Len(f.chunks) + 1 : Left(in, i) = n - Offset(f.chunks, i)
    BY <1>1, PrefixOfList
  <2> HIDE DEF in
  <2> QED BY <2>1, <2>2, <2>3
<1>3. h = IF n - RIFF_HEADER_SIZE < CHUNK_HEADER_SIZE + c.v.need THEN "NOT_ENOUGH_DATA" ELSE "OK"
  <2>1. Offset(f.chunks, 1) = RIFF_HEADER_SIZE  BY <1>1, ChunksFollow DEF Layout
  <2> QED BY <1>1, <2>1, HeaderOfImage
<1>4. c.tag \in ImageTags /\ c.tag # "VP8X" /\ c.v.need \in Nat /\ c.v.has_alpha \in BOOLEAN
  BY <1>1 DEF WholeImage, ImageChunk, ImageTags
<1>5. in.chunks[1] = c  BY <1>2
<1> HIDE DEF in, c, h
<1>6. ~ StartsWith(in, "VP8X") /\ \A flag : ~ HasFlag(in, flag)
  BY <1>4, <1>5 DEF StartsWith, HasFlag
<1>7. FirstHeaders(in, FALSE)
        = IF n < RIFF_HEADER_SIZE THEN "NOT_ENOUGH_DATA"
          ELSE IF n - RIFF_HEADER_SIZE < CHUNK_HEADER_SIZE THEN "NOT_ENOUGH_DATA" ELSE "OK"
  BY <1>2, <1>6 DEF FirstHeaders, ParseVP8XHeader
<1>8. r = IF FirstHeaders(in, FALSE) # "OK" THEN Nothing(FirstHeaders(in, FALSE))
          ELSE ThenImage(in, headers, FALSE, 1, 0, "OK")
  BY <1>2, <1>6 DEF ParseHeadersInternal
<1>9. ThenImage(in, headers, FALSE, 1, 0, "OK") = AtImage(in, headers, 1, 0, h)
  BY DEF ThenImage, h
<1> HIDE DEF r
<1>10. ASSUME h = "OK" PROVE Says(AtImage(in, headers, 1, 0, h), "OK", c.v.width,
                                  c.tag = "VP8L" /\ c.v.has_alpha)
  <2> DEFINE has == (IF c.tag = "VP8L" THEN c.v.has_alpha ELSE HasFlag(in, "ALPHA")) \/ 0 # 0
  <2>1. AtImage(in, headers, 1, 0, h) = Known("OK", c.v.width, has, 1, 0)
    BY <1>5, <1>6, <1>10, Zenon DEF AtImage
  <2>2. has \in BOOLEAN /\ (has <=> c.tag = "VP8L" /\ c.v.has_alpha)  BY <1>4, <1>6
  <2> HIDE DEF has
  <2>3. Says(Known("OK", c.v.width, has, 1, 0), "OK", c.v.width, has)  BY <2>2, KnownSays
  <2> QED BY <2>1, <2>2, <2>3 DEF Says
<1>11. ASSUME h # "OK" PROVE AtImage(in, headers, 1, 0, h) = Nothing(h)
  BY <1>6, <1>11 DEF AtImage, FeaturesOfCanvas
<1> DEFINE need == c.v.need
<1>14. /\ need \in Nat
       /\ h = IF n - RIFF_HEADER_SIZE < CHUNK_HEADER_SIZE + need THEN "NOT_ENOUGH_DATA" ELSE "OK"
  BY <1>3, <1>4
<1>12. CASE n < RIFF_HEADER_SIZE + CHUNK_HEADER_SIZE + c.v.need
  <2>1. n < RIFF_HEADER_SIZE + CHUNK_HEADER_SIZE + need  BY <1>12
  <2> HIDE DEF need
  <2>2. n - RIFF_HEADER_SIZE < CHUNK_HEADER_SIZE + need  BY <1>14, <2>1, SizesAreNat
  <2>3. h = "NOT_ENOUGH_DATA"  BY <1>14, <2>2
  <2>4. FirstHeaders(in, FALSE) \in {"OK", "NOT_ENOUGH_DATA"}  BY <1>7
  <2>5. r = Nothing("NOT_ENOUGH_DATA")  BY <1>8, <1>9, <1>11, <2>3, <2>4
  <2> QED BY <1>6, <1>12, <2>5, NothingSays DEF r, in, c
<1>13. CASE ~ (n < RIFF_HEADER_SIZE + CHUNK_HEADER_SIZE + c.v.need)
  <2>1. h = "OK" /\ FirstHeaders(in, FALSE) = "OK"
    <3>1. ~ (n < RIFF_HEADER_SIZE + CHUNK_HEADER_SIZE + need)  BY <1>13
    <3> HIDE DEF need
    <3>2. /\ ~ (n - RIFF_HEADER_SIZE < CHUNK_HEADER_SIZE + need) /\ ~ (n < RIFF_HEADER_SIZE)
          /\ ~ (n - RIFF_HEADER_SIZE < CHUNK_HEADER_SIZE)
      BY <1>14, <3>1, SizesAreNat
    <3> QED BY <1>7, <1>14, <3>2
  <2>2. r = AtImage(in, headers, 1, 0, h)  BY <1>8, <1>9, <2>1
  <2> QED BY <1>6, <1>10, <1>13, <2>1, <2>2 DEF r, in, c
<1> QED BY <1>12, <1>13

LEMMA CanvasIsFirst ==
  ASSUME NEW f, CanvasFile(f), NEW n \in Nat
  PROVE  /\ FirstHeaders(Prefix(f, n), FALSE)
               = IF n < RIFF_HEADER_SIZE + CHUNK_HEADER_SIZE + VP8X_CHUNK_SIZE
                 THEN "NOT_ENOUGH_DATA" ELSE "OK"
         /\ StartsWith(Prefix(f, n), "VP8X")
         /\ \A flag : HasFlag(Prefix(f, n), flag) <=> flag \in f.chunks[1].v.flags
<1> DEFINE in == Prefix(f, n)
           c == f.chunks[1]
<1>1. IsListed(f) /\ c.tag = "VP8X" /\ c.size = VP8X_CHUNK_SIZE /\ f.chunks \in Seq(AnyChunk)
  BY DEF CanvasFile, CanvasChunk, IsListed
<1>2. /\ in.chunks = f.chunks /\ in.size = n /\ in.riff_size # 0
      /\ ParseRIFF(in, FALSE) = "OK" /\ Left(in, 1) = n - RIFF_HEADER_SIZE
  <2>1. Offset(f.chunks, 1) = RIFF_HEADER_SIZE  BY <1>1, ChunksFollow DEF Layout
  <2>2. 1 \in 1 .. Len(f.chunks) + 1  BY <1>1
  <2>3. /\ in.chunks = f.chunks /\ in.size = n /\ in.riff_size \in Nat \ {0}
        /\ ParseRIFF(in, FALSE) = "OK"
        /\ \A i \in 1 .. Len(f.chunks) + 1 : Left(in, i) = n - Offset(f.chunks, i)
    BY <1>1, PrefixOfList
  <2> HIDE DEF in
  <2> QED BY <2>1, <2>2, <2>3
<1>3. in.chunks[1] = c  BY <1>2
<1> HIDE DEF in, c
<1>4. StartsWith(in, "VP8X") /\ \A flag : HasFlag(in, flag) <=> flag \in c.v.flags
  BY <1>1, <1>3 DEF StartsWith, HasFlag
<1>5. FirstHeaders(in, FALSE)
        = IF \/ n < RIFF_HEADER_SIZE \/ n - RIFF_HEADER_SIZE < CHUNK_HEADER_SIZE
             \/ n - RIFF_HEADER_SIZE < CHUNK_HEADER_SIZE + VP8X_CHUNK_SIZE
          THEN "NOT_ENOUGH_DATA" ELSE "OK"
  BY <1>1, <1>2, <1>3, <1>4 DEF FirstHeaders, ParseVP8XHeader
<1>6. (\/ n < RIFF_HEADER_SIZE \/ n - RIFF_HEADER_SIZE < CHUNK_HEADER_SIZE
       \/ n - RIFF_HEADER_SIZE < CHUNK_HEADER_SIZE + VP8X_CHUNK_SIZE)
      <=> n < RIFF_HEADER_SIZE + CHUNK_HEADER_SIZE + VP8X_CHUNK_SIZE
  BY SizesAreNat, SizesOfHeaders
<1> QED BY <1>4, <1>5, <1>6 DEF in, c

\* Of an animation, the canvas is all that is asked for.
LEMMA AnimationSays ==
  ASSUME NEW f, AnimationFile(f), NEW n \in Nat
  PROVE  Says(GetFeatures(Prefix(f, n)),
              IF n < RIFF_HEADER_SIZE + CHUNK_HEADER_SIZE + VP8X_CHUNK_SIZE
              THEN "NOT_ENOUGH_DATA" ELSE "OK",
              f.chunks[1].v.width, "ALPHA" \in f.chunks[1].v.flags)
<1> DEFINE in == Prefix(f, n)
           c == f.chunks[1]
           h == FirstHeaders(in, FALSE)
           r == GetFeatures(in)
           s == IF n < RIFF_HEADER_SIZE + CHUNK_HEADER_SIZE + VP8X_CHUNK_SIZE
                THEN "NOT_ENOUGH_DATA" ELSE "OK"
<1>1. /\ IsListed(f) /\ CanvasFile(f) /\ "ANIMATION" \in c.v.flags
      /\ h = s /\ \A flag : HasFlag(in, flag) <=> flag \in c.v.flags
  BY CanvasIsFirst DEF AnimationFile, CanvasFile
<1>2. in.chunks[1] = c  BY <1>1, PrefixOfList
<1> HIDE DEF in, c, s
<1>3. CASE s # "OK"
  <2>1. r = Nothing(s)  BY <1>1, <1>3 DEF GetFeatures, ParseHeadersInternal
  <2> QED BY <1>3, <2>1, NothingSays DEF s, in, c
<1>4. CASE s = "OK"
  <2>1. r = Known("OK", c.v.width, HasFlag(in, "ALPHA"), 0, 0)
    <3>1. h = "OK" /\ HasFlag(in, "ANIMATION")  BY <1>1, <1>4
    <3> HIDE DEF h
    <3>2. r = Known("OK", in.chunks[1].v.width, HasFlag(in, "ALPHA"), 0, 0)
      BY <3>1, Zenon DEF GetFeatures, ParseHeadersInternal, h
    <3> QED BY <1>2, <3>2, Zenon
  <2>2. HasFlag(in, "ALPHA") \in BOOLEAN  BY DEF HasFlag
  <2>3. Says(Known("OK", c.v.width, HasFlag(in, "ALPHA"), 0, 0), "OK", c.v.width,
             HasFlag(in, "ALPHA"))
    BY <2>2, KnownSays
  <2>4. Says(r, "OK", c.v.width, "ALPHA" \in c.v.flags)  BY <1>1, <2>1, <2>3 DEF Says
  <2> QED BY <1>4, <2>4 DEF s, in, c
<1> QED BY <1>3, <1>4

\* The loop over the optional chunks stops at the image, or where data are missing.
LEMMA StopsAtImage ==
  ASSUME NEW f, NEW k, StillFile(f, k), NEW n \in Nat
  PROVE  LET in == Prefix(f, n)
             i  == StopAt(in, 2)
         IN  /\ i \in 2 .. k
             /\ ParseOptionalChunks(in, 2, i) \in {"OK", "NOT_ENOUGH_DATA"}
             /\ ParseOptionalChunks(in, 2, i) = "OK" => i = k
             /\ n = FileSize(f) => i = k /\ ParseOptionalChunks(in, 2, i) = "OK"
             /\ AlphaData(in, 2, i) # 0 => "ALPHA" \in f.chunks[1].v.flags
<1> DEFINE in == Prefix(f, n)
           cs == f.chunks
           S == { j \in 2 .. Len(in.chunks) + 1 : Stops(in, 2, j) }
           i == StopAt(in, 2)
<1>1. /\ IsListed(f) /\ CanvasFile(f) /\ k \in 2 .. Len(cs) /\ cs[k].tag \in ImageTags
      /\ Len(cs) \in Nat
      /\ \A j \in 2 .. k - 1 :
           cs[j].tag \notin ImageTags /\ (cs[j].tag = "ALPH" => "ALPHA" \in cs[1].v.flags)
  BY DEF StillFile, CanvasFile, IsListed, WholeImage, ImageChunk
<1>2. in.chunks = cs /\ \A j \in 1 .. Len(cs) + 1 : Left(in, j) = n - Offset(cs, j)
  BY <1>1, PrefixOfList
<1>3. \A j \in 2 .. Len(cs) : ~ OutOfRiff(in, 2, j)  BY <1>1, RiffIsWideEnough
<1> HIDE DEF in
<1>4. k \in S
  <2>1. IsImage(in, k)  BY <1>1, <1>2 DEF IsImage
  <2>2. k \in 2 .. Len(in.chunks) + 1  BY <1>1, <1>2
  <2> QED BY <2>1, <2>2 DEF Stops
<1>5. S \in SUBSET Nat  BY <1>1, <1>2
<1>6. i = Min(S)  BY DEF StopAt
<1>7. \A j \in S : j \in 2 .. Len(cs) + 1 /\ Stops(in, 2, j)  BY <1>2
<1> HIDE DEF S, i
<1>8. i \in S /\ i <= k  BY <1>4, <1>5, <1>6, LeastIsOne
<1>9. i \in 2 .. k /\ Stops(in, 2, i) /\ i \in 2 .. Len(cs)  BY <1>1, <1>7, <1>8
<1>10. ~ (i > Len(cs)) /\ ~ OutOfRiff(in, 2, i) /\ (IsImage(in, i) <=> i = k)
  <2>1. i # k => i \in 2 .. k - 1  BY <1>1, <1>9
  <2> QED BY <1>1, <1>2, <1>3, <1>9, <2>1 DEF IsImage
<1>11. ParseOptionalChunks(in, 2, i)
         = IF Left(in, i) < CHUNK_HEADER_SIZE THEN "NOT_ENOUGH_DATA"
           ELSE IF i = k THEN "OK" ELSE "NOT_ENOUGH_DATA"
  BY <1>2, <1>10 DEF ParseOptionalChunks
<1>12. ASSUME n = FileSize(f) PROVE i = k /\ ParseOptionalChunks(in, 2, i) = "OK"
  <2> DEFINE o == Offset(cs, i)
             d == DiskSize(cs[i])
  <2>1. /\ o \in Nat /\ d \in Nat /\ o + d <= FileSize(f) /\ d >= CHUNK_HEADER_SIZE
        /\ Left(in, i) = n - o
    <3>1. i \in 1 .. Len(cs) /\ i \in 1 .. Len(cs) + 1  BY <1>1, <1>9
    <3> QED BY <1>1, <1>2, <3>1, ChunkIsInFile
  <2>2. in.chunks[i] = cs[i]  BY <1>2
  <2> HIDE DEF o, d
  <2>3. ~ (Left(in, i) < CHUNK_HEADER_SIZE) /\ ~ (Left(in, i) < d)
    BY <1>12, <2>1, SizesAreNat
  <2>4. IsImage(in, i)  BY <1>2, <1>9, <1>10, <2>2, <2>3 DEF Stops, d
  <2> QED BY <1>10, <1>11, <2>3, <2>4
<1>13. ASSUME "ALPHA" \notin cs[1].v.flags PROVE AlphaData(in, 2, i) = 0
  <2>1. \A j \in 2 .. i - 1 : j \in 2 .. k - 1  BY <1>1, <1>9
  <2>2. { j \in 2 .. i - 1 : in.chunks[j].tag = "ALPH" } = {}  BY <1>1, <1>2, <1>13, <2>1
  <2>3. {0} \cup { j \in 2 .. i - 1 : in.chunks[j].tag = "ALPH" } = {0}  BY <2>2
  <2>4. Max({0}) = 0  BY DEF Max
  <2> QED BY <2>3, <2>4 DEF AlphaData
<1> QED BY <1>9, <1>11, <1>12, <1>13 DEF in, i

LEMMA StillSays ==
  ASSUME NEW f, NEW k, StillFile(f, k), NEW n \in Nat, NEW headers \in BOOLEAN
  PROVE  /\ ParseHeadersInternal(Prefix(f, n), headers, FALSE).status \in {"OK", "NOT_ENOUGH_DATA"}
         /\ n = FileSize(f) => ParseHeadersInternal(Prefix(f, n), headers, FALSE).status = "OK"
         /\ ~ headers => Says(ParseHeadersInternal(Prefix(f, n), headers, FALSE),
              IF n < RIFF_HEADER_SIZE + CHUNK_HEADER_SIZE + VP8X_CHUNK_SIZE
              THEN "NOT_ENOUGH_DATA" ELSE "OK",
              f.chunks[1].v.width, "ALPHA" \in f.chunks[1].v.flags)
<1> DEFINE in == Prefix(f, n)
           cs == f.chunks
           canvas == cs[1].v
           img == cs[k]
           i == StopAt(in, 2)
           al == AlphaData(in, 2, i)
           st == ParseOptionalChunks(in, 2, i)
           h == IF st = "OK" THEN ParseVP8Header(in, i, FALSE) ELSE st
           r == ParseHeadersInternal(in, headers, FALSE)
           T == RIFF_HEADER_SIZE + CHUNK_HEADER_SIZE + VP8X_CHUNK_SIZE
<1>1. /\ IsListed(f) /\ CanvasFile(f) /\ "ANIMATION" \notin canvas.flags
      /\ k \in 1 .. Len(cs) /\ img \in WholeImage /\ img.v.width = canvas.width
      /\ (img.tag = "VP8L" => (img.v.has_alpha <=> "ALPHA" \in canvas.flags))
  BY DEF StillFile, CanvasFile
<1>2. /\ FirstHeaders(in, FALSE) = IF n < T THEN "NOT_ENOUGH_DATA" ELSE "OK"
      /\ StartsWith(in, "VP8X") /\ \A flag : HasFlag(in, flag) <=> flag \in canvas.flags
  BY <1>1, CanvasIsFirst
<1>3. in.chunks = cs  BY <1>1, PrefixOfList
<1>4. /\ st \in {"OK", "NOT_ENOUGH_DATA"} /\ (st = "OK" => i = k)
      /\ (n = FileSize(f) => i = k /\ st = "OK")
      /\ (al # 0 => "ALPHA" \in canvas.flags)
  BY StopsAtImage
<1>5. /\ ParseVP8Header(in, k, FALSE) \in {"OK", "NOT_ENOUGH_DATA"}
      /\ n = FileSize(f) => ParseVP8Header(in, k, FALSE) = "OK"
  BY <1>1, HeaderOfImage
<1> HIDE DEF in, i, al, st
<1>6. h \in {"OK", "NOT_ENOUGH_DATA"} /\ (h = "OK" => i = k) /\ (n = FileSize(f) => h = "OK")
  BY <1>4, <1>5
<1>7. BehindOptional(in, headers, FALSE, 2, i) = AtImage(in, headers, i, al, h)
  BY DEF BehindOptional, ThenImage, al, st
<1> HIDE DEF h
<1>8. ~ HasFlag(in, "ANIMATION")  BY <1>1, <1>2
<1>9. r = IF n < T THEN Nothing("NOT_ENOUGH_DATA") ELSE AtImage(in, headers, i, al, h)
  BY <1>2, <1>7, <1>8 DEF ParseHeadersInternal, i
<1> DEFINE answer == AtImage(in, headers, i, al, h)
<1>10. ASSUME h = "OK" PROVE Says(answer, "OK", canvas.width, "ALPHA" \in canvas.flags)
  <2> DEFINE has == (IF img.tag = "VP8L" THEN img.v.has_alpha ELSE HasFlag(in, "ALPHA")) \/ al # 0
  <2>1. i = k /\ in.chunks[i] = img /\ in.chunks[1] = cs[1]  BY <1>3, <1>6, <1>10
  <2>2. canvas.width = img.v.width  BY <1>1
  <2>3. answer = Known("OK", img.v.width, has, i, al)
    <3> HIDE DEF canvas, img
    <3>1. in.chunks[1].v = canvas /\ in.chunks[i] = img  BY <2>1 DEF canvas
    <3> QED BY <1>10, <2>2, <3>1, Zenon DEF AtImage
  <2>4. has \in BOOLEAN /\ (has <=> "ALPHA" \in canvas.flags)
    <3>1. img.v.has_alpha \in BOOLEAN  BY <1>1 DEF WholeImage, ImageChunk
    <3> HIDE DEF canvas, img
    <3>2. HasFlag(in, "ALPHA") <=> "ALPHA" \in canvas.flags  BY <1>2
    <3> QED BY <1>1, <1>4, <3>1, <3>2
  <2> HIDE DEF has
  <2>5. Says(Known("OK", img.v.width, has, i, al), "OK", img.v.width, has)
    BY <2>4, KnownSays
  <2> HIDE DEF answer, canvas, img
  <2> QED BY <2>2, <2>3, <2>4, <2>5 DEF Says
<1>11. ASSUME h # "OK", ~ headers
       PROVE  Says(answer, "OK", canvas.width, "ALPHA" \in canvas.flags)
  <2> DEFINE has == HasFlag(in, "ALPHA") \/ al # 0
  <2>1. h = "NOT_ENOUGH_DATA"  BY <1>6, <1>11
  <2>2. in.chunks[1].v = canvas  BY <1>3
  <2> HIDE DEF canvas
  <2>3. FeaturesOfCanvas(h, StartsWith(in, "VP8X"), headers)
    BY <1>2, <1>11, <2>1 DEF FeaturesOfCanvas
  <2>4. answer = Known("OK", canvas.width, has, 0, 0)
    <3>1. answer = Known("OK", IF StartsWith(in, "VP8X") THEN in.chunks[1].v.width ELSE 0,
                         HasFlag(in, "ALPHA") \/ al # 0, 0, 0)
      BY <1>11, <2>3, Zenon DEF AtImage
    <3>2. (IF StartsWith(in, "VP8X") THEN in.chunks[1].v.width ELSE 0) = canvas.width
      BY <1>2, <2>2
    <3> QED BY <3>1, <3>2, Zenon
  <2>5. has \in BOOLEAN /\ (has <=> "ALPHA" \in canvas.flags)  BY <1>2, <1>4
  <2> HIDE DEF has
  <2>6. Says(Known("OK", canvas.width, has, 0, 0), "OK", canvas.width, has)
    BY <2>5, KnownSays
  <2> HIDE DEF answer
  <2> QED BY <2>4, <2>5, <2>6 DEF Says
<1>12. ASSUME h # "OK", headers PROVE answer.status = "NOT_ENOUGH_DATA"
  <2>1. answer = Nothing(h)  BY <1>12 DEF AtImage, FeaturesOfCanvas
  <2>2. Nothing(h).status = h  BY DEF Nothing, Known
  <2>3. h = "NOT_ENOUGH_DATA"  BY <1>6, <1>12
  <2> HIDE DEF answer
  <2> QED BY <2>1, <2>2, <2>3
<1>13. n = FileSize(f) => ~ (n < T)
  <2> DEFINE o == Offset(cs, 1)
             d == DiskSize(cs[1])
  <2>1. o >= RIFF_HEADER_SIZE /\ o + d <= FileSize(f) /\ o \in Nat /\ d \in Nat
    <3>1. 1 \in 1 .. Len(cs)  BY <1>1
    <3> QED BY <1>1, <3>1, ChunkIsInFile
  <2>2. d = CHUNK_HEADER_SIZE + Padded(VP8X_CHUNK_SIZE)
    BY <1>1 DEF CanvasFile, CanvasChunk, DiskSize
  <2> HIDE DEF o, d
  <2> QED BY <2>1, <2>2, PaddedIsNat, SizesAreNat, SizesOfHeaders
<1> HIDE DEF T, r, canvas, answer
<1>14. n < T => Says(r, "NOT_ENOUGH_DATA", canvas.width, "ALPHA" \in canvas.flags)
  BY <1>9, NothingSays
<1>15. ~ (n < T) => r = answer  BY <1>9 DEF answer
<1>16. CASE n < T  BY <1>13, <1>14, <1>16 DEF Says, r, in, canvas, T
<1>17. CASE ~ (n < T) /\ h = "OK"  BY <1>10, <1>15, <1>17 DEF Says, r, in, canvas, T
<1>18. CASE ~ (n < T) /\ h # "OK"
  <2>1. n # FileSize(f)  BY <1>6, <1>18
  <2>2. headers => r.status = "NOT_ENOUGH_DATA"  BY <1>12, <1>15, <1>18
  <2>3. ~ headers => Says(r, "OK", canvas.width, "ALPHA" \in canvas.flags)
    BY <1>11, <1>15, <1>18
  <2> QED BY <1>18, <2>1, <2>2, <2>3 DEF Says, r, in, canvas, T
<1> QED BY <1>16, <1>17, <1>18

-----------------------------------------------------------------------------
(* What was said remains.                                                    *)

LEMMA SaysTheSame ==
  ASSUME NEW r, NEW q, NEW limit \in Int, NEW n \in Nat \ {0}, NEW width, NEW has_alpha,
         Says(r, IF n - 1 < limit THEN "NOT_ENOUGH_DATA" ELSE "OK", width, has_alpha),
         Says(q, IF n < limit THEN "NOT_ENOUGH_DATA" ELSE "OK", width, has_alpha)
  PROVE  Remains(r, q)
<1>1. q.status \in {"OK", "NOT_ENOUGH_DATA"}  BY DEF Says
<1>2. ASSUME r.status = "OK"
      PROVE  q.status = "OK" /\ q.width = r.width /\ q.has_alpha = r.has_alpha
  <2>1. ~ (n - 1 < limit)  BY <1>2 DEF Says
  <2>2. ~ (n < limit)  BY <2>1
  <2>3. /\ q.status = "OK" /\ q.width = width /\ r.width = width
        /\ q.has_alpha \in BOOLEAN /\ r.has_alpha \in BOOLEAN
        /\ (q.has_alpha <=> r.has_alpha)
    BY <2>1, <2>2 DEF Says
  <2>4. \A a, b \in BOOLEAN : (a <=> b) => a = b  BY Zenon
  <2>5. q.has_alpha = r.has_alpha  BY <2>3, <2>4, Zenon
  <2> QED BY <2>3, <2>5
<1> QED BY <1>1, <1>2 DEF Remains

\* With a file of WebPMuxAssemble, of which one more unit arrives.
LEMMA OwnFileRemains ==
  ASSUME NEW f, OwnFile(f), NEW n \in Nat \ {0}
  PROVE  /\ Remains(GetFeatures(Prefix(f, n - 1)), GetFeatures(Prefix(f, n)))
         /\ ~ HasFrames(f) =>
              WebPParseHeaders(Prefix(f, n), FALSE).status
                \in (IF n = FileSize(f) THEN {"OK"} ELSE {"OK", "NOT_ENOUGH_DATA"})
<1> DEFINE c == f.chunks[1]
           limit == RIFF_HEADER_SIZE + CHUNK_HEADER_SIZE + VP8X_CHUNK_SIZE
           r == ParseHeadersInternal(Prefix(f, n), TRUE, FALSE)
<1>0. n - 1 \in Nat /\ limit \in Int  BY SizesAreNat, SizesOfHeaders
<1>1. ASSUME ~ HasFlag(Prefix(f, n), "ANIMATION") PROVE WebPParseHeaders(Prefix(f, n), FALSE) = r
  BY <1>1 DEF WebPParseHeaders, NoAnimation
<1>2. CASE SingleFile(f)
  <2> DEFINE need == c.v.need
             to == RIFF_HEADER_SIZE + CHUNK_HEADER_SIZE + c.v.need
             alpha == c.tag = "VP8L" /\ c.v.has_alpha
  <2>1. \A x \in Nat, headers \in BOOLEAN :
          Says(ParseHeadersInternal(Prefix(f, x), headers, FALSE),
               IF x < to THEN "NOT_ENOUGH_DATA" ELSE "OK", c.v.width, alpha)
    BY <1>2, SingleSays
  <2>2. ~ HasFlag(Prefix(f, n), "ANIMATION")  BY <1>2, SingleSays
  <2>3. to \in Int /\ to <= FileSize(f)
    <3> DEFINE o == Offset(f.chunks, 1)
               d == DiskSize(c)
    <3>1. /\ c \in WholeImage /\ 1 \in 1 .. Len(f.chunks) /\ IsListed(f)
      BY <1>2 DEF SingleFile, IsListed
    <3>2. o >= RIFF_HEADER_SIZE /\ o + d <= FileSize(f) /\ o \in Nat /\ d \in Nat /\ FileSize(f) \in Nat
      BY <3>1, ChunkIsInFile
    <3>3. /\ need \in Nat /\ c.size \in Nat /\ need <= c.size /\ c.tag # "ANMF"
      BY <3>1 DEF WholeImage, ImageChunk, ImageTags
    <3>4. d = CHUNK_HEADER_SIZE + Padded(c.size)  BY <3>3 DEF DiskSize
    <3>5. Padded(c.size) \in Nat /\ c.size <= Padded(c.size)  BY <3>3, PaddedIsNat
    <3> DEFINE size1 == c.size
    <3>6. size1 \in Nat /\ need <= size1 /\ Padded(size1) \in Nat /\ size1 <= Padded(size1)
          /\ d = CHUNK_HEADER_SIZE + Padded(size1) /\ need \in Nat
      BY <3>3, <3>4, <3>5
    <3> HIDE DEF o, d, need, size1
    <3>7. RIFF_HEADER_SIZE + CHUNK_HEADER_SIZE + need <= FileSize(f)
      BY <3>2, <3>6, SizesAreNat
    <3>8. RIFF_HEADER_SIZE + CHUNK_HEADER_SIZE + need \in Int  BY <3>6, SizesAreNat
    <3> QED BY <3>7, <3>8 DEF need
  <2> HIDE DEF to, alpha, c
  <2>4. Remains(GetFeatures(Prefix(f, n - 1)), GetFeatures(Prefix(f, n)))
    <3>1. /\ Says(GetFeatures(Prefix(f, n - 1)), IF n - 1 < to THEN "NOT_ENOUGH_DATA" ELSE "OK",
                  c.v.width, alpha)
          /\ Says(GetFeatures(Prefix(f, n)), IF n < to THEN "NOT_ENOUGH_DATA" ELSE "OK",
                  c.v.width, alpha)
      BY <1>0, <2>1 DEF GetFeatures
    <3> QED BY <2>3, <3>1, SaysTheSame
  <2>5. Says(r, IF n < to THEN "NOT_ENOUGH_DATA" ELSE "OK", c.v.width, alpha)  BY <2>1
  <2>6. r.status = IF n < to THEN "NOT_ENOUGH_DATA" ELSE "OK"  BY <2>5 DEF Says
  <2>7. n = FileSize(f) => ~ (n < to)  BY <2>3
  <2> HIDE DEF r
  <2> QED BY <1>1, <2>2, <2>4, <2>6, <2>7
<1>3. CASE AnimationFile(f)
  <2>1. /\ Says(GetFeatures(Prefix(f, n - 1)), IF n - 1 < limit THEN "NOT_ENOUGH_DATA" ELSE "OK",
                c.v.width, "ALPHA" \in c.v.flags)
        /\ Says(GetFeatures(Prefix(f, n)), IF n < limit THEN "NOT_ENOUGH_DATA" ELSE "OK",
                c.v.width, "ALPHA" \in c.v.flags)
    BY <1>0, <1>3, AnimationSays
  <2> DEFINE width == c.v.width
             alpha == "ALPHA" \in c.v.flags
             p == GetFeatures(Prefix(f, n - 1))
             q == GetFeatures(Prefix(f, n))
  <2> HIDE DEF limit, width, alpha, p, q
  <2>2. Remains(p, q)
    <3>1. /\ Says(p, IF n - 1 < limit THEN "NOT_ENOUGH_DATA" ELSE "OK", width, alpha)
          /\ Says(q, IF n < limit THEN "NOT_ENOUGH_DATA" ELSE "OK", width, alpha)
      BY <2>1 DEF width, alpha, p, q
    <3> QED BY <1>0, <3>1, SaysTheSame
  <2> QED BY <1>3, <2>2 DEF AnimationFile, p, q
<1>4. CASE \E k : StillFile(f, k)
  <2>1. PICK k : StillFile(f, k)  BY <1>4
  <2>2. \A x \in Nat :
          Says(ParseHeadersInternal(Prefix(f, x), FALSE, FALSE),
               IF x < limit THEN "NOT_ENOUGH_DATA" ELSE "OK", c.v.width, "ALPHA" \in c.v.flags)
    BY <2>1, StillSays
  <2>3. r.status \in {"OK", "NOT_ENOUGH_DATA"} /\ (n = FileSize(f) => r.status = "OK")
    BY <2>1, StillSays
  <2>4. ~ HasFlag(Prefix(f, n), "ANIMATION")  BY <2>1, CanvasIsFirst DEF StillFile
  <2> HIDE DEF limit, r
  <2>5. Remains(GetFeatures(Prefix(f, n - 1)), GetFeatures(Prefix(f, n)))
    <3>1. /\ Says(GetFeatures(Prefix(f, n - 1)), IF n - 1 < limit THEN "NOT_ENOUGH_DATA" ELSE "OK",
                  c.v.width, "ALPHA" \in c.v.flags)
          /\ Says(GetFeatures(Prefix(f, n)), IF n < limit THEN "NOT_ENOUGH_DATA" ELSE "OK",
                  c.v.width, "ALPHA" \in c.v.flags)
      BY <1>0, <2>2 DEF GetFeatures
    <3> DEFINE width == c.v.width
               alpha == "ALPHA" \in c.v.flags
               p == GetFeatures(Prefix(f, n - 1))
               q == GetFeatures(Prefix(f, n))
    <3> HIDE DEF width, alpha, p, q
    <3>2. /\ Says(p, IF n - 1 < limit THEN "NOT_ENOUGH_DATA" ELSE "OK", width, alpha)
          /\ Says(q, IF n < limit THEN "NOT_ENOUGH_DATA" ELSE "OK", width, alpha)
      BY <3>1 DEF width, alpha, p, q
    <3>3. Remains(p, q)  BY <1>0, <3>2, SaysTheSame
    <3> QED BY <3>3 DEF p, q
  <2> QED BY <1>1, <2>3, <2>4, <2>5
<1> QED BY <1>2, <1>3, <1>4 DEF OwnFile

-----------------------------------------------------------------------------
(* WebPMuxCreate takes what WebPMuxAssemble wrote.                           *)

LEMMA ReadsNothing == ASSUME NEW s PROVE Reads(s, << >>, s)
<1> DEFINE v == [k \in {0} |-> s]
<1>1. v[0] = s /\ Len(<< >>) = 0 /\ \A k \in 1 .. 0 : FALSE  OBVIOUS
<1>2. Folds(Create, v, s, << >>, Len(<< >>)) /\ s = v[Len(<< >>)]  BY <1>1 DEF Folds
<1> QED BY <1>2 DEF Reads

LEMMA ReadsOne == ASSUME NEW s, NEW c PROVE Reads(s, << c >>, ReadChunk(s, c))
<1> DEFINE v == [k \in 0 .. 1 |-> IF k = 0 THEN s ELSE ReadChunk(s, c)]
<1>1. v[0] = s /\ v[1] = ReadChunk(s, c)  OBVIOUS
<1>2. Len(<< c >>) = 1 /\ << c >>[1] = c /\ \A k \in 1 .. 1 : k = 1 /\ k - 1 = 0  OBVIOUS
<1> HIDE DEF v
<1>3. FoldStep(Create, s, c) = ReadChunk(s, c)  BY DEF FoldStep, Create
<1>4. Folds(Create, v, s, << c >>, Len(<< c >>)) /\ ReadChunk(s, c) = v[Len(<< c >>)]
  BY <1>1, <1>2, <1>3 DEF Folds
<1> QED BY <1>4 DEF Reads

LEMMA ReadsBoth ==
  ASSUME NEW S, NEW cs \in Seq(S), NEW ds \in Seq(S), NEW s, NEW t, NEW u,
         Reads(s, cs, t), Reads(t, ds, u)
  PROVE  Reads(s, cs \o ds, u)
<1> DEFINE es == cs \o ds
           m == Len(cs)
           n == Len(ds)
<1>1. PICK v : Folds(Create, v, s, cs, m) /\ t = v[m]  BY DEF Reads
<1>2. PICK w : Folds(Create, w, t, ds, n) /\ u = w[n]  BY DEF Reads
<1>3. /\ m \in Nat /\ n \in Nat /\ Len(es) = m + n
      /\ \A k \in 1 .. m + n : es[k] = IF k <= m THEN cs[k] ELSE ds[k - m]
  BY ConcatProperties
<1> HIDE DEF es, m, n
<1> DEFINE x == [k \in 0 .. m + n |-> IF k <= m THEN v[k] ELSE w[k - m]]
<1>4. \A k \in 0 .. m + n : x[k] = IF k <= m THEN v[k] ELSE w[k - m]  OBVIOUS
<1> HIDE DEF x
<1>5. v[0] = s /\ w[0] = t /\ v[m] = w[0]  BY <1>1, <1>2 DEF Folds
<1>6. x[0] = s /\ x[m + n] = u
  <2>1. 0 \in 0 .. m + n /\ m + n \in 0 .. m + n /\ 0 <= m /\ (m + n) - m = n  BY <1>3
  <2>2. x[0] = s  BY <1>4, <1>5, <2>1
  <2>3. CASE n = 0  BY <1>1, <1>2, <1>3, <1>4, <1>5, <2>1, <2>3
  <2>4. CASE n # 0
    <3>1. ~ (m + n <= m)  BY <1>3, <2>4
    <3> QED BY <1>2, <1>4, <2>1, <2>2, <3>1
  <2> QED BY <2>3, <2>4, <2>2
<1>7. ASSUME NEW k \in 1 .. m + n PROVE x[k] = FoldStep(Create, x[k - 1], es[k])
  <2>1. CASE k <= m
    <3>1. k \in 1 .. m /\ k - 1 <= m /\ k \in 0 .. m + n /\ k - 1 \in 0 .. m + n
      BY <1>3, <2>1
    <3>2. x[k] = v[k] /\ x[k - 1] = v[k - 1] /\ es[k] = cs[k]  BY <1>3, <1>4, <2>1, <3>1
    <3> QED BY <1>1, <3>1, <3>2 DEF Folds
  <2>2. CASE ~ (k <= m)
    <3>1. /\ k - m \in 1 .. n /\ k \in 0 .. m + n /\ k - 1 \in 0 .. m + n
          /\ (k - 1) - m = (k - m) - 1 /\ (k - 1 <= m => k - 1 = m /\ (k - m) - 1 = 0)
      BY <1>3, <2>2
    <3>2. x[k] = w[k - m] /\ es[k] = ds[k - m]  BY <1>3, <1>4, <2>2, <3>1
    <3>3. x[k - 1] = w[(k - m) - 1]
      <4>1. CASE k - 1 <= m  BY <1>4, <1>5, <3>1, <4>1
      <4>2. CASE ~ (k - 1 <= m)  BY <1>4, <3>1, <4>2
      <4> QED BY <4>1, <4>2
    <3> QED BY <1>2, <3>1, <3>2, <3>3 DEF Folds
  <2> QED BY <2>1, <2>2
<1>8. Folds(Create, x, s, es, m + n)  BY <1>6, <1>7 DEF Folds
<1> QED BY <1>3, <1>6, <1>8 DEF Reads, es

LEMMA ReadsAll ==
  ASSUME NEW S, NEW cs \in Seq(S), NEW t, Reads(Started, cs, t)
  PROVE  FoldLeft(ReadChunk, Started, cs) = t
<1> DEFINE n == Len(cs)
<1>1. n \in Nat /\ DOMAIN cs = 1 .. n  OBVIOUS
<1>2. PICK v : Folds(Create, v, Started, cs, n) /\ t = v[n]  BY DEF Reads
<1> HIDE DEF n
<1>3. PICK w : Folds(Create, w, Started, cs, n) /\ FoldLeft(ReadChunk, Started, cs) = w[n]
  BY <1>1, CreateInSteps
<1>4. v[n] = w[n]  BY <1>1, <1>2, <1>3, FoldsAgree
<1> QED BY <1>2, <1>3, <1>4

LEMMA StartedIsIdle == Started \in Idle(EmptyMux, RIFF_HEADER_SIZE)
<1>1. Wpi(Missing, Missing) = NoImage  BY DEF Wpi, NoImage, Missing
<1>2. /\ Started.mux = EmptyMux /\ Started.wpi = NoImage /\ Started.at = RIFF_HEADER_SIZE
      /\ Started.anmf = 0
  BY DEF Started
<1>3. ~ Started.failed /\ ~ Started.partial  BY Zenon DEF Started
<1> QED BY <1>1, <1>2, <1>3, StartedIsTyped DEF Idle, InImage

LEMMA StateMoves ==
  ASSUME NEW s \in ReadState, NEW b \in Int
  PROVE  LET t == [s EXCEPT !.at = b]
         IN  /\ t \in ReadState /\ t.mux = s.mux /\ t.wpi = s.wpi /\ t.partial = s.partial
             /\ t.at = b /\ t.anmf = s.anmf /\ t.failed = s.failed
  BY DEF ReadState

\* Reading goes on behind a chunk that does not end a frame.
LEMMA ChunkIsPassed ==
  ASSUME NEW s \in Reader, ~ s.failed, NEW c \in AnyChunk, NEW r \in ReadState,
         r = IF s.anmf = 0 THEN AtTop(s, c) ELSE InFrame(s, c),
         ~ r.failed, r.anmf = 0 \/ r.at + DiskSize(c) < r.anmf
  PROVE  /\ ReadChunk(s, c).mux = r.mux /\ ReadChunk(s, c).wpi = r.wpi
         /\ ReadChunk(s, c).at = r.at + DiskSize(c) /\ ReadChunk(s, c).anmf = r.anmf
         /\ ReadChunk(s, c).partial = r.partial /\ ~ ReadChunk(s, c).failed
         /\ ReadChunk(s, c) \in Reader
<1> DEFINE b == r.at + DiskSize(c)
           t == [r EXCEPT !.at = b]
<1>1. ReadChunk(s, c) = LeftFrame(t)  BY DEF ReadChunk
<1>2. r.at \in Int /\ DiskSize(c) \in Int /\ b \in Int  BY DiskSizeIsNat DEF ReadState
<1>3. b = r.at + DiskSize(c)  OBVIOUS
<1> HIDE DEF b
<1>4. /\ t.mux = r.mux /\ t.wpi = r.wpi /\ t.partial = r.partial
      /\ t.at = b /\ t.anmf = r.anmf /\ t.failed = r.failed
  BY <1>2, StateMoves
<1> HIDE DEF t
<1>5. t.anmf = 0 \/ t.at < t.anmf  BY <1>3, <1>4
<1>6. LeftFrame(t) = t  BY <1>5 DEF LeftFrame
<1> QED BY <1>1, <1>3, <1>4, <1>6, ReadChunkIsTyped

LEMMA HeaderIsRead ==
  ASSUME NEW m, NEW at \in Nat, NEW s \in Idle(m, at), NEW c \in FrameChunk,
         c.size >= ANMF_CHUNK_SIZE, ANMF_CHUNK_SIZE < Padded(c.size)
  PROVE  ReadChunk(s, c) \in InImage(m, << [c EXCEPT !.size = ANMF_CHUNK_SIZE] >>, Missing,
                                     at + DiskSize(c), at + CHUNK_HEADER_SIZE + Padded(c.size))
<1> DEFINE h == [c EXCEPT !.size = ANMF_CHUNK_SIZE]
           w == [s.wpi EXCEPT !.header = << h >>]
           x == s.failed \/ s.partial \/ c.size < ANMF_CHUNK_SIZE
           z == s.at + CHUNK_HEADER_SIZE + Padded(c.size)
           s1 == [s EXCEPT !.wpi = w]
           s2 == [s1 EXCEPT !.partial = TRUE]
           s3 == [s2 EXCEPT !.failed = x]
           s4 == [s3 EXCEPT !.anmf = z]
<1>1. /\ s \in Reader /\ s \in ReadState /\ ~ s.failed /\ ~ s.partial /\ s.mux = m
      /\ s.wpi = Wpi(Missing, Missing) /\ s.at = at /\ s.anmf = 0
  BY DEF Idle, InImage, Reader
<1>2. c.tag = "ANMF" /\ c \in AnyChunk /\ c.size \in Nat  BY ChunkKinds DEF FrameChunk
<1>3. AtTop(s, c) = s4
  <2>1. AtTop(s, c) = [s EXCEPT !.wpi.header = << h >>, !.partial = TRUE, !.failed = x,
                                !.anmf = z]
    BY <1>2 DEF AtTop, ImageTags
  <2>2. [s EXCEPT !.wpi.header = << h >>] = s1  OBVIOUS
  <2> QED BY <2>1, <2>2
<1>4. s.wpi \in ImageInRead /\ x \in BOOLEAN  BY <1>1 DEF ReadState
<1>5. ~ x
  <2>1. ~ (c.size < ANMF_CHUNK_SIZE)  BY <1>2, SizeAssumption
  <2> QED BY <1>1, <2>1
<1>6. Padded(c.size) \in Nat /\ CHUNK_HEADER_SIZE \in Nat \ {0} /\ ANMF_CHUNK_SIZE \in Nat
  BY <1>2, SizeAssumption, PaddedIsNat
<1>7. z \in Int /\ z = at + CHUNK_HEADER_SIZE + Padded(c.size) /\ z # 0  BY <1>1, <1>6
<1>8. w = Wpi(<< h >>, Missing)  BY <1>1 DEF Wpi
<1>9. h \in FrameChunk  BY <1>6 DEF FrameChunk
<1> HIDE DEF h, x, z
<1>10. w \in ImageInRead
  <2>1. << h >> \in Seq(FrameChunk)  BY <1>9
  <2> QED BY <1>4, <2>1 DEF ImageInRead
<1> HIDE DEF w
<1>11. s1 \in ReadState /\ s1.wpi = w /\ s1.mux = m /\ s1.at = at
  BY <1>1, <1>10 DEF ReadState
<1> HIDE DEF s1
<1>12. s2 \in ReadState /\ s2.wpi = w /\ s2.mux = m /\ s2.at = at  BY <1>11 DEF ReadState
<1> HIDE DEF s2
<1>13. s3 \in ReadState /\ s3.wpi = w /\ s3.mux = m /\ s3.at = at /\ s3.failed = x
  BY <1>4, <1>12 DEF ReadState
<1> HIDE DEF s3
<1>14. s4 \in ReadState /\ s4.wpi = w /\ s4.mux = m /\ s4.at = at /\ s4.anmf = z /\ s4.failed = s3.failed
  BY <1>7, <1>13 DEF ReadState
<1> HIDE DEF s4
<1>15. DiskSize(c) = CHUNK_HEADER_SIZE + ANMF_CHUNK_SIZE  BY <1>2 DEF DiskSize
<1>16. s4.at + DiskSize(c) < s4.anmf  BY <1>6, <1>7, <1>14, <1>15
<1>17. ~ s4.failed  BY <1>5, <1>13, <1>14
<1>18. s4 = IF s.anmf = 0 THEN AtTop(s, c) ELSE InFrame(s, c)  BY <1>1, <1>3
<1>19. /\ ReadChunk(s, c).mux = m /\ ReadChunk(s, c).wpi = w
       /\ ReadChunk(s, c).at = at + DiskSize(c) /\ ReadChunk(s, c).anmf = z
       /\ ~ ReadChunk(s, c).failed /\ ReadChunk(s, c) \in Reader
  BY <1>1, <1>2, <1>14, <1>16, <1>17, <1>18, ChunkIsPassed
<1>20. ReadChunk(s, c) \in InImage(m, << h >>, Missing, at + DiskSize(c), z)
  BY <1>8, <1>19 DEF InImage
<1> QED BY <1>7, <1>20 DEF h

LEMMA AlphaIsRead ==
  ASSUME NEW m, NEW hd, NEW at \in Nat, NEW end \in Nat, NEW s \in InImage(m, hd, Missing, at, end),
         NEW c \in AlphaChunk, end = 0 \/ at + DiskSize(c) < end
  PROVE  ReadChunk(s, c) \in InImage(m, hd, << c >>, at + DiskSize(c), end)
<1> DEFINE w == [s.wpi EXCEPT !.alpha = << c >>]
           x == s.failed \/ s.wpi.alpha # Missing
           s1 == [s EXCEPT !.wpi = w]
           s2 == [s1 EXCEPT !.partial = TRUE]
           s3 == [s2 EXCEPT !.failed = x]
<1>1. /\ s \in Reader /\ s \in ReadState /\ ~ s.failed /\ s.mux = m
      /\ s.wpi = Wpi(hd, Missing) /\ s.at = at /\ s.anmf = end
  BY DEF InImage, Reader
<1>2. c.tag = "ALPH" /\ c \in AnyChunk  BY DEF AlphaChunk
<1>3. AtTop(s, c) = AlphaRead(s, c) /\ InFrame(s, c) = AlphaRead(s, c)
  BY <1>2 DEF AtTop, InFrame, AlphaRead, ImageTags
<1>4. AlphaRead(s, c) = s3
  <2>1. [s EXCEPT !.wpi.alpha = << c >>] = s1  OBVIOUS
  <2> QED BY <2>1 DEF AlphaRead
<1>5. s3 \in ReadState  BY <1>1, <1>2, <1>4, AlphaIsTyped DEF Reader
<1>6. s.wpi \in ImageInRead /\ << c >> \in Seq(AlphaChunk) /\ x \in BOOLEAN
  BY <1>1 DEF ReadState
<1>7. ~ x
  <2>1. s.wpi.alpha = Missing  BY <1>1 DEF Wpi
  <2> QED BY <1>1, <2>1
<1>8. w = Wpi(hd, << c >>) /\ w \in ImageInRead
  <2>1. s.wpi = [header |-> hd, alpha |-> Missing, img |-> Missing, unknown |-> << >>]
    BY <1>1 DEF Wpi
  <2>2. w = [header |-> hd, alpha |-> << c >>, img |-> Missing, unknown |-> << >>]
    BY <2>1
  <2>3. w \in ImageInRead  BY <1>6 DEF ImageInRead
  <2> QED BY <2>2, <2>3 DEF Wpi
<1> HIDE DEF w, x
<1>9. s1 \in ReadState /\ s1.wpi = w /\ s1.mux = m /\ s1.at = at /\ s1.anmf = end
  BY <1>1, <1>8 DEF ReadState
<1> HIDE DEF s1
<1>10. s2 \in ReadState /\ s2.wpi = w /\ s2.mux = m /\ s2.at = at /\ s2.anmf = end
  BY <1>9 DEF ReadState
<1> HIDE DEF s2
<1>11. s3.wpi = w /\ s3.mux = m /\ s3.at = at /\ s3.failed = x /\ s3.anmf = end
  BY <1>6, <1>10 DEF ReadState
<1> HIDE DEF s3
<1>12. s3 = IF s.anmf = 0 THEN AtTop(s, c) ELSE InFrame(s, c)  BY <1>3, <1>4
<1>13. ~ s3.failed /\ (s3.anmf = 0 \/ s3.at + DiskSize(c) < s3.anmf)  BY <1>7, <1>11
<1> QED BY <1>1, <1>2, <1>5, <1>8, <1>11, <1>12, <1>13, ChunkIsPassed DEF InImage

LEMMA ImageIsFinal ==
  ASSUME NEW m, NEW hd, NEW al, NEW at, NEW end, NEW s \in InImage(m, hd, al, at, end),
         NEW c \in WholeImage, c.tag = "VP8L" => al = Missing
  PROVE  LET f == Finalized(s, c)
         IN  /\ f \in ReadState /\ f.mux = m /\ f.wpi = Full(hd, al, c) /\ ~ f.partial
             /\ f.at = at /\ f.anmf = end /\ ~ f.failed /\ IsComplete(f.wpi)
<1> DEFINE a == IF c.tag = "VP8L" THEN Missing ELSE s.wpi.alpha
           w == [[s.wpi EXCEPT !.img = << c >>] EXCEPT !.alpha = a]
           x == s.failed \/ c.v.need > c.size
           s1 == [s EXCEPT !.wpi = w]
           s2 == [s1 EXCEPT !.partial = FALSE]
           s3 == [s2 EXCEPT !.failed = x]
<1>1. /\ s \in ReadState /\ ~ s.failed /\ s.mux = m /\ s.wpi = Wpi(hd, al)
      /\ s.at = at /\ s.anmf = end /\ s.wpi \in ImageInRead
  BY DEF InImage, Reader, ReadState
<1>2. c \in ImageChunk /\ c.v.need \in Nat /\ c.size \in Nat /\ c.v.need <= c.size
  BY DEF WholeImage, ImageChunk
<1>3. Finalized(s, c) = s3
  <2>1. Finalized(s, c) =
          [[[[s EXCEPT !.wpi.img = << c >>] EXCEPT !.wpi.alpha =
               IF c.tag = "VP8L" THEN Missing ELSE @] EXCEPT !.partial = FALSE]
             EXCEPT !.failed = s.failed \/ c.v.need > c.size]
    BY DEF Finalized
  <2>2. [[s EXCEPT !.wpi.img = << c >>] EXCEPT !.wpi.alpha =
           IF c.tag = "VP8L" THEN Missing ELSE @] = s1
    <3>1. [s EXCEPT !.wpi.img = << c >>] = [s EXCEPT !.wpi = [s.wpi EXCEPT !.img = << c >>]]
      OBVIOUS
    <3> DEFINE w1 == [s.wpi EXCEPT !.img = << c >>]
               t == [s EXCEPT !.wpi = w1]
    <3>2. t.wpi = w1 /\ w1.alpha = s.wpi.alpha  BY <1>1 DEF ReadState, ImageInRead
    <3>3. [t EXCEPT !.wpi.alpha = a] = [s EXCEPT !.wpi = [w1 EXCEPT !.alpha = a]]
      BY <1>1 DEF ReadState
    <3> HIDE DEF t, a
    <3> QED BY <3>1, <3>2, <3>3 DEF t, a
  <2> QED BY <1>1, <2>1, <2>2 DEF ReadState
<1>4. s.wpi.alpha = al  BY <1>1 DEF Wpi
<1>5. w = Full(hd, al, c)
  <2>1. a = al  BY <1>4
  <2>2. s.wpi = [header |-> hd, alpha |-> al, img |-> Missing, unknown |-> << >>]
    BY <1>1 DEF Wpi
  <2> HIDE DEF a
  <2> DEFINE w0 == s.wpi
             b  == << c >>
             u  == << >>
  <2>3. w0 = [header |-> hd, alpha |-> al, img |-> Missing, unknown |-> u]  BY <2>2
  <2> HIDE DEF w0, b, u
  <2> DEFINE w1 == [w0 EXCEPT !.img = b]
  <2>4. w1 = [header |-> hd, alpha |-> al, img |-> b, unknown |-> u]  BY <2>3
  <2> HIDE DEF w1
  <2>5. [w1 EXCEPT !.alpha = a] = [header |-> hd, alpha |-> a, img |-> b, unknown |-> u]
    BY <2>4
  <2> QED BY <2>1, <2>5 DEF Full, w0, w1, b, u
<1>6. ~ x /\ x \in BOOLEAN
  <2>1. ~ (c.v.need > c.size)  BY <1>2
  <2> QED BY <1>1, <2>1 DEF ReadState
<1>7. w \in ImageInRead
  <2>1. a \in Seq(AlphaChunk) /\ << c >> \in Seq(ImageChunk)
    BY <1>1, <1>2 DEF Missing, ImageInRead
  <2> HIDE DEF a
  <2> QED BY <1>1, <2>1 DEF ImageInRead
<1>8. IsComplete(w)
  <2>1. Full(hd, al, c).img = << c >> /\ Full(hd, al, c).alpha = al  BY DEF Full
  <2> QED BY <1>5, <2>1 DEF IsComplete
<1> HIDE DEF w, x
<1>9. s1 \in ReadState /\ s1.wpi = w /\ s1.mux = m /\ s1.at = at /\ s1.anmf = end
  BY <1>1, <1>7 DEF ReadState
<1> HIDE DEF s1
<1>10. s2 \in ReadState /\ s2.wpi = w /\ s2.mux = m /\ s2.at = at /\ s2.anmf = end /\ ~ s2.partial
  BY <1>9 DEF ReadState
<1> HIDE DEF s2
<1>11. /\ s3 \in ReadState /\ s3.wpi = w /\ s3.mux = m /\ s3.at = at /\ s3.failed = x
       /\ s3.anmf = end /\ s3.partial = s2.partial
  BY <1>6, <1>10 DEF ReadState
<1> HIDE DEF s3
<1> QED BY <1>3, <1>5, <1>6, <1>8, <1>10, <1>11

LEMMA ImageIsPushed ==
  ASSUME NEW s \in ReadState, NEW hd, NEW al, NEW c, s.wpi = Full(hd, al, c), IsComplete(s.wpi),
         ~ s.failed
  PROVE  LET p == Pushed(s)
         IN  /\ p \in ReadState
             /\ p.mux = Pushing(s.mux, ImageOf(hd, al, c))
             /\ p.wpi = NoImage /\ ~ p.partial /\ p.at = s.at /\ p.anmf = s.anmf /\ ~ p.failed
<1> DEFINE i == [s.wpi EXCEPT !.img = s.wpi.img[1]]
           m == [s.mux EXCEPT !.images = Append(s.mux.images, i)]
           s1 == [s EXCEPT !.mux = m]
           s2 == [s1 EXCEPT !.wpi = NoImage]
           s3 == [s2 EXCEPT !.partial = FALSE]
<1>1. s.mux \in MuxObject /\ s.wpi \in ImageInRead  BY DEF ReadState
<1>2. i = ImageOf(hd, al, c)
  <2>1. << c >>[1] = c  OBVIOUS
  <2> QED BY <2>1 DEF Full, ImageOf
<1>3. Pushed(s) = s3
  <2>1. Pushed(s) = [[[s EXCEPT !.mux.images = Append(s.mux.images, i)]
                        EXCEPT !.wpi = NoImage] EXCEPT !.partial = FALSE]
    BY DEF Pushed
  <2>2. [s EXCEPT !.mux.images = Append(s.mux.images, i)] = s1  BY DEF ReadState
  <2> QED BY <2>1, <2>2
<1> HIDE DEF i
<1>4. s3 \in ReadState  BY <1>3, PushedIsTyped
<1>5. m = Pushing(s.mux, ImageOf(hd, al, c))  BY <1>2 DEF Pushing
<1> HIDE DEF m
<1>6. /\ s1.mux = m /\ s1.at = s.at /\ s1.anmf = s.anmf /\ s1.failed = s.failed
      /\ s1 = [s EXCEPT !.mux = m]
      /\ s1 \in [mux : {m}, wpi : ImageInRead, partial : BOOLEAN, at : Int, anmf : Int, failed : BOOLEAN]
  BY DEF ReadState
<1> HIDE DEF s1
<1>7. /\ s2.mux = m /\ s2.at = s.at /\ s2.anmf = s.anmf /\ s2.failed = s1.failed /\ s2.wpi = NoImage
      /\ s2 \in [mux : {m}, wpi : {NoImage}, partial : BOOLEAN, at : Int, anmf : Int, failed : BOOLEAN]
  BY <1>6
<1> HIDE DEF s2
<1>8. /\ s3.mux = m /\ s3.at = s.at /\ s3.anmf = s.anmf /\ s3.failed = s2.failed /\ s3.wpi = NoImage
      /\ ~ s3.partial
  BY <1>7
<1> HIDE DEF s3
<1> QED BY <1>3, <1>4, <1>5, <1>6, <1>7, <1>8

LEMMA ImageIsRead ==
  ASSUME NEW m, NEW hd, NEW al, NEW at \in Nat, NEW end \in Nat,
         NEW s \in InImage(m, hd, al, at, end),
         NEW c \in WholeImage, c.tag = "VP8L" => al = Missing,
         end = 0 \/ at + DiskSize(c) = end
  PROVE  ReadChunk(s, c) \in Idle(Pushing(m, ImageOf(hd, al, c)), at + DiskSize(c))
<1> DEFINE q == Pushing(m, ImageOf(hd, al, c))
           b == at + DiskSize(c)
           f == Finalized(s, c)
           p == Pushed(f)
<1>1. /\ s \in Reader /\ s \in ReadState /\ ~ s.failed /\ s.mux = m /\ s.wpi = Wpi(hd, al)
      /\ s.at = at /\ s.anmf = end
  BY DEF InImage, Reader
<1>2. c \in AnyChunk /\ c.tag \in ImageTags  BY ChunkKinds DEF WholeImage, ImageChunk
<1>3. /\ f \in ReadState /\ f.mux = m /\ f.wpi = Full(hd, al, c) /\ ~ f.partial
      /\ f.at = at /\ f.anmf = end /\ ~ f.failed /\ IsComplete(f.wpi)
  BY ImageIsFinal
<1>4. b \in Int  BY <1>2, DiskSizeIsNat
<1>5. Wpi(Missing, Missing) = NoImage  BY DEF Wpi, NoImage, Missing
<1> HIDE DEF f
<1>6. CASE end = 0
  <2>1. /\ p \in ReadState /\ p.mux = q /\ p.wpi = NoImage /\ ~ p.partial /\ p.at = at
        /\ p.anmf = 0 /\ ~ p.failed
    BY <1>3, <1>6, ImageIsPushed
  <2>2. AtTop(s, c) = p  BY <1>2, <1>3 DEF AtTop, ImageTags, f
  <2> HIDE DEF p, q
  <2>3. p = IF s.anmf = 0 THEN AtTop(s, c) ELSE InFrame(s, c)  BY <1>1, <1>6, <2>2
  <2>4. /\ ReadChunk(s, c).mux = q /\ ReadChunk(s, c).wpi = NoImage
        /\ ReadChunk(s, c).at = b /\ ReadChunk(s, c).anmf = 0
        /\ ~ ReadChunk(s, c).partial /\ ~ ReadChunk(s, c).failed
        /\ ReadChunk(s, c) \in Reader
    BY <1>1, <1>2, <2>1, <2>3, ChunkIsPassed
  <2> QED BY <1>5, <2>4 DEF Idle, InImage, q
<1>7. CASE end # 0
  <2> DEFINE t == [f EXCEPT !.at = b]
             u == Pushed(t)
             v == [u EXCEPT !.anmf = 0]
  <2>1. InFrame(s, c) = f
    <3>1. s.wpi.img = Missing  BY <1>1 DEF Wpi
    <3> QED BY <1>2, <3>1 DEF InFrame, ImageTags, f
  <2>2. ReadChunk(s, c) = LeftFrame(t)  BY <1>1, <1>3, <1>7, <2>1 DEF ReadChunk
  <2> HIDE DEF b
  <2>3. /\ t \in ReadState /\ t.mux = m /\ t.wpi = Full(hd, al, c) /\ ~ t.partial /\ t.at = b
        /\ t.anmf = end /\ ~ t.failed
    BY <1>3, <1>4, StateMoves
  <2> HIDE DEF t
  <2>4. IsComplete(t.wpi)  BY <1>3, <2>3
  <2>5. t.at = t.anmf  BY <1>7, <2>3 DEF b
  <2>6. LeftFrame(t) = v
    <3>1. ~ (t.at < t.anmf) /\ ~ (t.at > t.anmf)  BY <1>4, <2>3, <2>5
    <3> QED BY <1>7, <2>3, <3>1 DEF LeftFrame
  <2>7. /\ u \in ReadState /\ u.mux = q /\ u.wpi = NoImage /\ ~ u.partial /\ u.at = b /\ ~ u.failed
    BY <2>3, <2>4, ImageIsPushed
  <2> HIDE DEF u, q
  <2>8. /\ v.mux = q /\ v.wpi = NoImage /\ v.partial = u.partial /\ v.at = b /\ v.failed = u.failed
        /\ v.anmf = 0
    BY <2>7 DEF ReadState
  <2> HIDE DEF v
  <2>9. ReadChunk(s, c) \in Reader  BY <1>1, <1>2, ReadChunkIsTyped
  <2> QED BY <1>5, <2>2, <2>6, <2>7, <2>8, <2>9 DEF Idle, InImage, q, b
<1> QED BY <1>6, <1>7

LEMMA ListedIsRead ==
  ASSUME NEW m, NEW at \in Nat, NEW s \in Idle(m, at), NEW n \in ListNames, NEW c \in Listed(n),
         c.tag = "VP8X" => c.size >= VP8X_CHUNK_SIZE
  PROVE  ReadChunk(s, c) \in Idle(Listing(m, n, c), at + DiskSize(c))
<1> DEFINE q == Listing(m, n, c)
           x == s.failed \/ s.partial \/ (c.tag = "VP8X" /\ c.size < VP8X_CHUNK_SIZE)
           l == Append(m.list[n], c)
           width == CanvasAfter(m.width, c)
           s1 == [s EXCEPT !.mux = q]
           s2 == [s1 EXCEPT !.failed = x]
<1>1. /\ s \in Reader /\ s \in ReadState /\ ~ s.failed /\ ~ s.partial /\ s.mux = m
      /\ s.wpi = Wpi(Missing, Missing) /\ s.at = at /\ s.anmf = 0 /\ m \in MuxObject
  BY DEF Idle, InImage, Reader, ReadState
<1>2. /\ c \in AnyChunk /\ ListOf(c.tag) = n /\ c.tag # "ALPH" /\ c.tag # "ANMF"
      /\ c.tag \notin ImageTags
  BY DEF Listed
<1>3. AtTop(s, c) = s2
  <2>1. AtTop(s, c) = [[[s EXCEPT !.mux.list[n] = l] EXCEPT !.mux.width = CanvasAfter(@, c)]
                         EXCEPT !.failed = x]
    BY <1>1, <1>2 DEF AtTop
  <2>2. [[s EXCEPT !.mux.list[n] = l] EXCEPT !.mux.width = CanvasAfter(@, c)] = s1
    <3> DEFINE m1 == [m EXCEPT !.list[n] = l]
               t == [s EXCEPT !.mux = m1]
    <3>1. [s EXCEPT !.mux.list[n] = l] = t  BY <1>1
    <3>2. t.mux = m1 /\ m1.width = m.width  BY <1>1 DEF ReadState, MuxObject
    <3>3. [t EXCEPT !.mux.width = width] = [s EXCEPT !.mux = [m1 EXCEPT !.width = width]]
      BY <1>1 DEF ReadState
    <3> HIDE DEF t, l
    <3> QED BY <3>1, <3>2, <3>3 DEF t, l, Listing
  <2> QED BY <2>1, <2>2
<1>4. ~ x /\ x \in BOOLEAN
  <2>1. ~ (c.tag = "VP8X" /\ c.size < VP8X_CHUNK_SIZE)
    BY <1>2, SizeAssumption, ChunkHasSize
  <2> QED BY <1>1, <2>1
<1> HIDE DEF q, x
<1>5. /\ s1.mux = q /\ s1.wpi = s.wpi /\ s1.partial = s.partial /\ s1.at = at /\ s1.anmf = 0
      /\ s1 \in [mux : {q}, wpi : ImageInRead, partial : BOOLEAN, at : Int, anmf : Int, failed : BOOLEAN]
  BY <1>1 DEF ReadState
<1> HIDE DEF s1
<1>6. /\ s2.mux = q /\ s2.wpi = s.wpi /\ s2.partial = s1.partial /\ s2.at = at /\ s2.anmf = 0
      /\ s2.failed = x
  BY <1>4, <1>5
<1>7. s2 \in ReadState
  <2>1. AtTop(s, c) \in Reader  BY <1>1, <1>2, AtTopIsTyped
  <2> HIDE DEF s2
  <2> QED BY <1>3, <2>1 DEF Reader
<1> HIDE DEF s2
<1>8. s2 = IF s.anmf = 0 THEN AtTop(s, c) ELSE InFrame(s, c)  BY <1>1, <1>3
<1>9. /\ ReadChunk(s, c).mux = q /\ ReadChunk(s, c).wpi = Wpi(Missing, Missing)
      /\ ReadChunk(s, c).at = at + DiskSize(c) /\ ReadChunk(s, c).anmf = 0
      /\ ~ ReadChunk(s, c).partial /\ ~ ReadChunk(s, c).failed
      /\ ReadChunk(s, c) \in Reader
  BY <1>1, <1>2, <1>4, <1>5, <1>6, <1>7, <1>8, ChunkIsPassed
<1> QED BY <1>9 DEF Idle, InImage, q

-----------------------------------------------------------------------------
(* Whatever of a mux object is written comes back.                           *)

LEMMA TakesNothing == ASSUME NEW m PROVE Takes(m, << >>, m)
  BY ReadsNothing DEF Takes

LEMMA TakesBoth ==
  ASSUME NEW cs \in Seq(AnyChunk), NEW ds \in Seq(AnyChunk), NEW m, NEW p, NEW q,
         Takes(m, cs, p), Takes(p, ds, q)
  PROVE  Takes(m, cs \o ds, q)
<1> SUFFICES ASSUME NEW a \in Nat, NEW s \in Idle(m, a)
             PROVE  \E b \in Nat : \E t \in Idle(q, b) : Reads(s, cs \o ds, t)
  BY DEF Takes
<1>1. PICK b \in Nat : \E t \in Idle(p, b) : Reads(s, cs, t)  BY DEF Takes
<1> PICK t \in Idle(p, b) : Reads(s, cs, t)
  BY <1>1
<1>2. PICK e \in Nat : \E u \in Idle(q, e) : Reads(t, ds, u)  BY DEF Takes
<1> PICK u \in Idle(q, e) : Reads(t, ds, u)
  BY <1>2
<1>3. Reads(s, cs \o ds, u)  BY <1>1, <1>2, ReadsBoth
<1> QED BY <1>2, <1>3

LEMMA TakesListed ==
  ASSUME NEW m, NEW n \in ListNames, NEW c \in Listed(n), c.tag = "VP8X" => c.size >= VP8X_CHUNK_SIZE
  PROVE  Takes(m, << c >>, Listing(m, n, c))
<1> SUFFICES ASSUME NEW a \in Nat, NEW s \in Idle(m, a)
             PROVE  \E b \in Nat : \E t \in Idle(Listing(m, n, c), b) : Reads(s, << c >>, t)
  BY DEF Takes
<1>1. DiskSize(c) \in Nat  BY DiskSizeIsNat DEF Listed
<1>2. a + DiskSize(c) \in Nat  BY <1>1
<1> QED BY <1>2, ListedIsRead, ReadsOne

\* A list but that of the canvas.
LEMMA TakesList ==
  ASSUME NEW m \in MuxObject, NEW n \in ListNames, n # "VP8X", m.list[n] = << >>,
         NEW l \in Seq(Listed(n))
  PROVE  Takes(m, l, [m EXCEPT !.list[n] = l])
<1> DEFINE q(k) == [m EXCEPT !.list[n] = SubSeq(l, 1, k)]
           S == { k \in Nat : k <= Len(l) => Takes(m, SubSeq(l, 1, k), q(k)) }
<1>1. Len(l) \in Nat /\ SubSeq(l, 1, 0) = << >> /\ SubSeq(l, 1, Len(l)) = l  OBVIOUS
<1>2. m.list \in [ListNames -> Seq(AnyChunk)] /\ Listed(n) \subseteq AnyChunk
  BY DEF MuxObject, Lists, Listed
<1>3. 0 \in S
  <2>1. [m EXCEPT !.list[n] = << >>] = m
    <3>1. [m.list EXCEPT ![n] = << >>] = m.list  BY <1>2
    <3>2. [m EXCEPT !.list = m.list] = m  BY DEF MuxObject
    <3> QED BY <3>1, <3>2
  <2>2. Takes(m, SubSeq(l, 1, 0), q(0))  BY <1>1, <2>1, TakesNothing
  <2> QED BY <2>2
<1>4. ASSUME NEW k \in Nat, k \in S PROVE k + 1 \in S
  <2> SUFFICES ASSUME k + 1 <= Len(l) PROVE Takes(m, SubSeq(l, 1, k + 1), q(k + 1))
    OBVIOUS
  <2> DEFINE c == l[k + 1]
             p == SubSeq(l, 1, k)
             r == SubSeq(l, 1, k + 1)
  <2>1. Takes(m, p, q(k))  BY <1>1, <1>4
  <2>2. c \in Listed(n) /\ c \in AnyChunk  BY <1>1, <1>2
  <2>3. c.tag # "VP8X"  BY <2>2 DEF Listed, ListOf, ListNames
  <2>4. p \in Seq(AnyChunk) /\ r = p \o << c >> /\ r = Append(p, c)
    <3>1. l \in Seq(AnyChunk)  BY <1>2, SeqsAreMonotonic
    <3> QED BY <1>1, <3>1
  <2>5. Takes(q(k), << c >>, Listing(q(k), n, c))  BY <2>2, <2>3, TakesListed
  <2>6. Listing(q(k), n, c) = q(k + 1)
    <3> HIDE DEF c, p, r
    <3> DEFINE f == [m.list EXCEPT ![n] = p]
               g == [m.list EXCEPT ![n] = r]
               y == [m EXCEPT !.list = f]
    <3>1. q(k) = y /\ q(k + 1) = [m EXCEPT !.list = g]  BY DEF p, r
    <3>2. y.list = f /\ y.width = m.width /\ f[n] = p  BY <1>2 DEF MuxObject
    <3>3. [f EXCEPT ![n] = r] = g  BY <1>2
    <3>4. CanvasAfter(m.width, c) = m.width  BY <2>3 DEF CanvasAfter
    <3> HIDE DEF f, g, q
    <3>5. [y EXCEPT !.list = g] = [m EXCEPT !.list = g]  BY DEF MuxObject
    <3>6. [[m EXCEPT !.list = g] EXCEPT !.width = m.width] = [m EXCEPT !.list = g]
      BY DEF MuxObject
    <3> HIDE DEF y
    <3>7. [y EXCEPT !.list[n] = r] = [y EXCEPT !.list = g]  BY <3>2, <3>3
    <3> QED BY <2>4, <3>1, <3>2, <3>4, <3>5, <3>6, <3>7 DEF Listing
  <2> HIDE DEF q, c, p, r
  <2>7. << c >> \in Seq(AnyChunk)  BY <2>2
  <2> QED BY <2>1, <2>4, <2>5, <2>6, <2>7, TakesBoth DEF r
<1> HIDE DEF S
<1>5. Nat \subseteq S  BY <1>3, <1>4, Induction
<1>6. Len(l) \in S  BY <1>1, <1>5
<1>7. Takes(m, SubSeq(l, 1, Len(l)), q(Len(l)))  BY <1>1, <1>6 DEF S
<1> QED BY <1>1, <1>7

LEMMA OnlyOneOrNone ==
  ASSUME NEW S, NEW s \in Seq(S), Len(s) <= 1
  PROVE  s = << >> \/ (s = << s[1] >> /\ s[1] \in S)
<1> DEFINE n == Len(s)
<1>1. n \in Nat /\ n <= 1 /\ s = [k \in 1 .. n |-> s[k]] /\ \A k \in 1 .. n : s[k] \in S
  BY LenProperties
<1>2. n = 0 => s = << >>  OBVIOUS
<1> HIDE DEF n
<1>3. n = 0 \/ n = 1  BY <1>1
<1>4. CASE n = 1
  <2>1. s = [k \in 1 .. 1 |-> s[k]] /\ s[1] \in S  BY <1>1, <1>4
  <2>2. << s[1] >> = [k \in 1 .. 1 |-> s[k]]  OBVIOUS
  <2> QED BY <2>1, <2>2
<1> QED BY <1>2, <1>3, <1>4

LEMMA BodyIsKnown ==
  ASSUME NEW i, Regular(i)
  PROVE  /\ i.img \in WholeImage /\ i.img \in AnyChunk /\ Body(i) \in Seq(AnyChunk)
         /\ i.alpha = Missing \/ (i.alpha = << i.alpha[1] >> /\ i.alpha[1] \in AlphaChunk)
         /\ i.alpha = Missing => Body(i) = << i.img >>
         /\ i.img.tag = "VP8L" => i.alpha = Missing
<1>1. /\ i.img \in WholeImage /\ i.alpha \in Seq(AlphaChunk) /\ Len(i.alpha) <= 1
      /\ (i.img.tag = "VP8L" => i.alpha = Missing)
  BY DEF Regular, ImageRec
<1>2. i.img \in AnyChunk /\ AlphaChunk \subseteq AnyChunk
  BY <1>1, ChunkKinds DEF WholeImage, AlphaChunk
<1>3. i.alpha \in Seq(AnyChunk) /\ << i.img >> \in Seq(AnyChunk)
  BY <1>1, <1>2, SeqsAreMonotonic
<1>4. i.alpha = << >> \/ (i.alpha = << i.alpha[1] >> /\ i.alpha[1] \in AlphaChunk)
  BY <1>1, OnlyOneOrNone
<1>5. << >> \o << i.img >> = << i.img >>  BY <1>3, ConcatEmptySeq
<1>6. Body(i) \in Seq(AnyChunk)
  <2> DEFINE c == << i.img >>
             a == i.alpha
  <2>1. a \in Seq(AnyChunk) /\ c \in Seq(AnyChunk) /\ Body(i) = a \o c  BY <1>3 DEF Body
  <2> HIDE DEF a, c
  <2> QED BY <2>1
<1>7. i.alpha = Missing => Body(i) = << i.img >>  BY <1>5 DEF Body, Missing
<1> QED BY <1>1, <1>2, <1>4, <1>6, <1>7 DEF Missing

LEMMA BodyIsRead ==
  ASSUME NEW i, Regular(i), NEW m, NEW hd, NEW at \in Nat, NEW end \in Nat,
         NEW s \in InImage(m, hd, Missing, at, end), end = 0 \/ at + BodySize(i) = end
  PROVE  \E b \in Nat : \E t \in Idle(Pushing(m, ImageOf(hd, i.alpha, i.img)), b) :
           Reads(s, Body(i), t)
<1> DEFINE c == i.img
           q == Pushing(m, ImageOf(hd, i.alpha, c))
<1>1. /\ c \in WholeImage /\ c \in AnyChunk
      /\ i.alpha = Missing \/ (i.alpha = << i.alpha[1] >> /\ i.alpha[1] \in AlphaChunk)
      /\ i.alpha = Missing => Body(i) = << c >>
      /\ c.tag = "VP8L" => i.alpha = Missing
  BY BodyIsKnown
<1>2. DiskSize(c) \in Nat /\ DiskSize(c) > 0  BY <1>1, DiskSizeIsNat, SizesAreNat
<1>3. CASE i.alpha = Missing
  <2>1. BodySize(i) = DiskSize(c)  BY <1>2, <1>3 DEF BodySize
  <2>2. end = 0 \/ at + DiskSize(c) = end  BY <2>1
  <2>3. ReadChunk(s, c) \in Idle(Pushing(m, ImageOf(hd, Missing, c)), at + DiskSize(c))
    BY <1>1, <2>2, ImageIsRead
  <2>4. Reads(s, << c >>, ReadChunk(s, c)) /\ at + DiskSize(c) \in Nat  BY <1>2, ReadsOne
  <2> QED BY <1>1, <1>3, <2>3, <2>4
<1>4. CASE i.alpha # Missing
  <2> DEFINE a == i.alpha[1]
             u == ReadChunk(s, a)
             at1 == at + DiskSize(a)
             t == ReadChunk(u, c)
  <2>1. a \in AlphaChunk /\ a \in AnyChunk /\ i.alpha = << a >>
    BY <1>1, <1>4 DEF AlphaChunk
  <2>2. DiskSize(a) \in Nat /\ DiskSize(a) > 0  BY <2>1, DiskSizeIsNat, SizesAreNat
  <2>3. BodySize(i) = DiskSize(a) + DiskSize(c)  BY <1>4 DEF BodySize
  <2>4. at1 \in Nat /\ (end = 0 \/ at1 < end) /\ (end = 0 \/ at1 + DiskSize(c) = end)
        /\ at1 + DiskSize(c) \in Nat
    BY <1>2, <2>2, <2>3
  <2>5. u \in InImage(m, hd, << a >>, at1, end)  BY <2>1, <2>4, AlphaIsRead
  <2> HIDE DEF a, at1, u
  <2>6. t \in Idle(q, at1 + DiskSize(c))  BY <1>1, <1>4, <2>1, <2>4, <2>5, ImageIsRead
  <2> HIDE DEF q
  <2>7. Reads(s, << a >>, u) /\ Reads(u, << c >>, t)  BY ReadsOne DEF u
  <2>8. << a >> \in Seq(AnyChunk) /\ << c >> \in Seq(AnyChunk)  BY <1>1, <2>1
  <2> HIDE DEF t
  <2>9. Reads(s, << a >> \o << c >>, t)  BY <2>7, <2>8, ReadsBoth
  <2>10. Reads(s, Body(i), t)  BY <2>1, <2>9 DEF Body
  <2> QED BY <2>4, <2>6, <2>10 DEF q
<1> QED BY <1>3, <1>4

\* The header of a frame covers all of it, and the sizes of chunks are even.
LEMMA PaddedIsEven ==
  ASSUME NEW x \in Nat PROVE Padded(x) % 2 = 0 /\ (x % 2 = 0 => Padded(x) = x)
<1>1. x % 2 = 0 \/ x % 2 = 1  OBVIOUS
<1>2. CASE x % 2 = 0  BY <1>2 DEF Padded
<1>3. CASE x % 2 = 1
  <2>1. (x + 1) % 2 = 0  BY <1>3
  <2> QED BY <1>3, <2>1 DEF Padded
<1> QED BY <1>1, <1>2, <1>3

LEMMA SumIsEven ==
  ASSUME NEW x \in Nat, NEW y \in Nat, x % 2 = 0, y % 2 = 0 PROVE (x + y) % 2 = 0
  OBVIOUS

LEMMA DiskSizesAreEven ==
  ASSUME NEW c \in AnyChunk, c.tag # "ANMF" PROVE DiskSize(c) % 2 = 0
<1>1. c.size \in Nat  BY ChunkHasSize
<1>2. DiskSize(c) = CHUNK_HEADER_SIZE + Padded(c.size)  BY DEF DiskSize
<1>3. CHUNK_HEADER_SIZE \in Nat /\ CHUNK_HEADER_SIZE % 2 = 0  BY SizeAssumption
<1>4. Padded(c.size) \in Nat /\ Padded(c.size) % 2 = 0  BY <1>1, PaddedIsNat, PaddedIsEven
<1> QED BY <1>2, <1>3, <1>4, SumIsEven

LEMMA BodySizeIsEven ==
  ASSUME NEW i, Regular(i) PROVE BodySize(i) \in Nat /\ BodySize(i) > 0 /\ BodySize(i) % 2 = 0
<1>1. /\ i.img \in AnyChunk /\ i.img.tag # "ANMF"
  BY BodyIsKnown DEF WholeImage, ImageChunk, ImageTags
<1>2. i.alpha # Missing => i.alpha[1] \in AnyChunk /\ i.alpha[1].tag # "ANMF"
  BY BodyIsKnown DEF AlphaChunk
<1> DEFINE x == DiskSize(i.img)
           y == DiskSize(i.alpha[1])
<1>3. x \in Nat /\ x > 0 /\ x % 2 = 0
  BY <1>1, DiskSizesAreEven, DiskSizeIsNat, SizesAreNat
<1>4. i.alpha # Missing => y \in Nat /\ y > 0 /\ y % 2 = 0
  BY <1>2, DiskSizesAreEven, DiskSizeIsNat, SizesAreNat
<1>5. BodySize(i) = (IF i.alpha = Missing THEN 0 ELSE y) + x  BY DEF BodySize
<1> HIDE DEF x, y
<1>6. CASE i.alpha = Missing  BY <1>3, <1>5, <1>6
<1>7. CASE i.alpha # Missing
  <2>1. BodySize(i) = y + x  BY <1>5, <1>7
  <2> QED BY <1>3, <1>4, <1>7, <2>1
<1> QED BY <1>6, <1>7

\* The sizes of a few chunks.
LEMMA SizeOfTwo ==
  ASSUME NEW c, NEW d, DiskSize(c) \in Nat, DiskSize(d) \in Nat
  PROVE  ListSize(<< c, d >>) = DiskSize(c) + DiskSize(d)
<1> DEFINE cs == << c, d >>
<1>1. DOMAIN cs = 1 .. 2 /\ 2 \in Nat /\ cs[1] = c /\ cs[2] = d  OBVIOUS
<1> HIDE DEF cs
<1>2. PICK v : Folds(Sum, v, 0, cs, 2) /\ ListSize(cs) = v[2]  BY <1>1, SizeInSteps
<1>3. \A a, e : FoldStep(Sum, a, e) = a + DiskSize(e)  BY DEF FoldStep, Sum
<1>4. 1 \in 1 .. 2 /\ 2 \in 1 .. 2 /\ 1 - 1 = 0 /\ 2 - 1 = 1  OBVIOUS
<1>5. v[0] = 0 /\ v[1] = v[0] + DiskSize(c) /\ v[2] = v[1] + DiskSize(d)
  BY <1>1, <1>2, <1>3, <1>4 DEF Folds
<1> QED BY <1>2, <1>5 DEF cs

LEMMA SizeOfThree ==
  ASSUME NEW c, NEW d, NEW e, DiskSize(c) \in Nat, DiskSize(d) \in Nat, DiskSize(e) \in Nat
  PROVE  ListSize(<< c, d, e >>) = DiskSize(c) + DiskSize(d) + DiskSize(e)
<1> DEFINE cs == << c, d, e >>
<1>1. DOMAIN cs = 1 .. 3 /\ 3 \in Nat /\ cs[1] = c /\ cs[2] = d /\ cs[3] = e  OBVIOUS
<1> HIDE DEF cs
<1>2. PICK v : Folds(Sum, v, 0, cs, 3) /\ ListSize(cs) = v[3]  BY <1>1, SizeInSteps
<1>3. \A a, x : FoldStep(Sum, a, x) = a + DiskSize(x)  BY DEF FoldStep, Sum
<1>4. 1 \in 1 .. 3 /\ 2 \in 1 .. 3 /\ 3 \in 1 .. 3 /\ 1 - 1 = 0 /\ 2 - 1 = 1 /\ 3 - 1 = 2
  OBVIOUS
<1>5. v[0] = 0 /\ v[1] = v[0] + DiskSize(c) /\ v[2] = v[1] + DiskSize(d) /\ v[3] = v[2] + DiskSize(e)
  BY <1>1, <1>2, <1>3, <1>4 DEF Folds
<1> QED BY <1>2, <1>5 DEF cs

LEMMA ImageIsOf ==
  ASSUME NEW i, Regular(i) PROVE i = ImageOf(i.header, i.alpha, i.img)
<1>1. i \in [header : Seq(FrameChunk), alpha : Seq(AlphaChunk), img : WholeImage, unknown : Seq(AnyChunk)]
      /\ i.unknown = << >>
  BY DEF Regular, ImageRec, Missing
<1> QED BY <1>1 DEF ImageOf

LEMMA JoinTwo ==
  ASSUME NEW S, NEW c \in S, NEW d \in S PROVE << c >> \o << d >> = << c, d >>
<1> DEFINE s == << c >>
           t == << d >>
           u == << c, d >>
<1>1. s \in Seq(S) /\ t \in Seq(S) /\ Len(s) = 1 /\ Len(t) = 1 /\ s[1] = c /\ t[1] = d
  OBVIOUS
<1>2. u \in Seq(S) /\ Len(u) = 2 /\ u[1] = c /\ u[2] = d  OBVIOUS
<1> HIDE DEF s, t, u
<1>3. s \o t \in Seq(S) /\ Len(s \o t) = 2
      /\ \A k \in 1 .. 2 : (s \o t)[k] = IF k <= 1 THEN s[k] ELSE t[k - 1]
  BY <1>1, ConcatProperties
<1>4. 1 \in 1 .. 2 /\ 2 \in 1 .. 2 /\ 1 <= 1 /\ ~ (2 <= 1) /\ 2 - 1 = 1  OBVIOUS
<1>5. (s \o t)[1] = c /\ (s \o t)[2] = d  BY <1>1, <1>3, <1>4
<1>6. \A k \in 1 .. 2 : k = 1 \/ k = 2  OBVIOUS
<1>7. s \o t = u  BY <1>2, <1>3, <1>5, <1>6, SeqEqual
<1> QED BY <1>7 DEF s, t, u

LEMMA JoinThree ==
  ASSUME NEW S, NEW c \in S, NEW d \in S, NEW e \in S
  PROVE  /\ << c >> \o (<< d >> \o << e >>) = << c, d, e >>
         /\ (<< c >> \o << d >>) \o << e >> = << c, d, e >>
<1> DEFINE s == << c, d >>
           t == << e >>
           u == << c, d, e >>
           v == << c >>
           w == << d, e >>
<1>1. s \in Seq(S) /\ t \in Seq(S) /\ Len(s) = 2 /\ Len(t) = 1 /\ s[1] = c /\ s[2] = d /\ t[1] = e
  OBVIOUS
<1>2. v \in Seq(S) /\ w \in Seq(S) /\ Len(v) = 1 /\ Len(w) = 2 /\ v[1] = c /\ w[1] = d /\ w[2] = e
  OBVIOUS
<1>3. u \in Seq(S) /\ Len(u) = 3 /\ u[1] = c /\ u[2] = d /\ u[3] = e  OBVIOUS
<1>4. << c >> \o << d >> = s /\ << d >> \o << e >> = w  BY JoinTwo
<1> HIDE DEF s, t, u, v, w
<1>5. s \o t \in Seq(S) /\ Len(s \o t) = 3
      /\ \A k \in 1 .. 3 : (s \o t)[k] = IF k <= 2 THEN s[k] ELSE t[k - 2]
  <2>1. /\ s \o t \in Seq(S) /\ Len(s \o t) = Len(s) + Len(t)
        /\ \A k \in 1 .. Len(s) + Len(t) :
             (s \o t)[k] = IF k <= Len(s) THEN s[k] ELSE t[k - Len(s)]
    BY <1>1, ConcatProperties
  <2>2. Len(s) + Len(t) = 3  BY <1>1
  <2> QED BY <1>1, <2>1, <2>2, Zenon
<1>6. v \o w \in Seq(S) /\ Len(v \o w) = 3
      /\ \A k \in 1 .. 3 : (v \o w)[k] = IF k <= 1 THEN v[k] ELSE w[k - 1]
  <2>1. /\ v \o w \in Seq(S) /\ Len(v \o w) = Len(v) + Len(w)
        /\ \A k \in 1 .. Len(v) + Len(w) :
             (v \o w)[k] = IF k <= Len(v) THEN v[k] ELSE w[k - Len(v)]
    BY <1>2, ConcatProperties
  <2>2. Len(v) + Len(w) = 3  BY <1>2
  <2> QED BY <1>2, <2>1, <2>2, Zenon
<1>7. /\ 1 \in 1 .. 3 /\ 2 \in 1 .. 3 /\ 3 \in 1 .. 3 /\ 1 <= 1 /\ 1 <= 2 /\ 2 <= 2 /\ ~ (2 <= 1)
      /\ ~ (3 <= 1) /\ ~ (3 <= 2) /\ 2 - 1 = 1 /\ 3 - 1 = 2 /\ 3 - 2 = 1
  OBVIOUS
<1>8. (s \o t)[1] = c /\ (s \o t)[2] = d /\ (s \o t)[3] = e  BY <1>1, <1>5, <1>7
<1>9. (v \o w)[1] = c /\ (v \o w)[2] = d /\ (v \o w)[3] = e  BY <1>2, <1>6, <1>7
<1>10. \A k \in 1 .. 3 : k = 1 \/ k = 2 \/ k = 3  OBVIOUS
<1> DEFINE x == s \o t
           y == v \o w
<1>13. /\ x \in Seq(S) /\ Len(x) = 3 /\ x[1] = c /\ x[2] = d /\ x[3] = e
       /\ y \in Seq(S) /\ Len(y) = 3 /\ y[1] = c /\ y[2] = d /\ y[3] = e
  BY <1>5, <1>6, <1>8, <1>9
<1> HIDE DEF x, y
<1>14. (\A k \in 1 .. 3 : x[k] = u[k]) /\ (\A k \in 1 .. 3 : y[k] = u[k])
  BY <1>3, <1>10, <1>13
<1>11. x = u  BY <1>3, <1>13, <1>14, SeqEqual
<1>12. y = u  BY <1>3, <1>13, <1>14, SeqEqual
<1> QED BY <1>4, <1>11, <1>12 DEF s, t, u, v, w, x, y

LEMMA FrameIsBody ==
  ASSUME NEW i, Regular(i), i.header # Missing
  PROVE  LET h == [i.header[1] EXCEPT !.size = ANMF_CHUNK_SIZE + BodySize(i)]
         IN  /\ i.header = << i.header[1] >> /\ i.header[1] \in FrameChunk
             /\ h \in FrameChunk /\ [h EXCEPT !.size = ANMF_CHUNK_SIZE] = i.header[1]
             /\ Emitted(i) = << h >> \o Body(i)
<1> DEFINE g == i.header[1]
           c == i.img
           z == ANMF_CHUNK_SIZE + BodySize(i)
           h == [g EXCEPT !.size = z]
           parts == i.header \o i.alpha \o << c >> \o i.unknown
<1>1. i.header = << g >> /\ g \in FrameChunk /\ g.size = ANMF_CHUNK_SIZE
  <2>1. i.header \in Seq(FrameChunk) /\ Len(i.header) <= 1  BY DEF Regular, ImageRec
  <2>2. i.header = << >> \/ (i.header = << g >> /\ g \in FrameChunk)
    BY <2>1, OnlyOneOrNone
  <2> QED BY <2>2 DEF Regular, Missing
<1>2. BodySize(i) \in Nat /\ ANMF_CHUNK_SIZE \in Nat /\ CHUNK_HEADER_SIZE \in Nat
  BY BodySizeIsEven, SizesAreNat
<1>3. h \in FrameChunk /\ [h EXCEPT !.size = ANMF_CHUNK_SIZE] = g
  <2>1. z \in Nat  BY <1>2
  <2> HIDE DEF z, g
  <2> QED BY <1>1, <2>1 DEF FrameChunk
<1>4. DiskSize(g) = CHUNK_HEADER_SIZE + ANMF_CHUNK_SIZE /\ DiskSize(g) \in Nat /\ g \in AnyChunk
  <2>1. g.tag = "ANMF"  BY <1>1 DEF FrameChunk
  <2> QED BY <1>1, <1>2, <2>1, ChunkKinds DEF DiskSize
<1>5. /\ c \in AnyChunk /\ DiskSize(c) \in Nat
      /\ i.alpha = Missing \/ (i.alpha = << i.alpha[1] >> /\ i.alpha[1] \in AlphaChunk)
  BY BodyIsKnown, DiskSizeIsNat
<1>6. i.unknown = << >>  BY DEF Regular, Missing
<1>7. Emitted(i) = [parts EXCEPT ![1].size = ListSize(parts) - CHUNK_HEADER_SIZE]
  BY DEF Emitted
<1> HIDE DEF h, parts
<1>8. CASE i.alpha = Missing
  <2>1. parts = << g, c >>
    <3> HIDE DEF g, c
    <3>1. << g >> \o << >> = << g >> /\ << g >> \o << c >> = << g, c >>
      BY <1>4, <1>5, JoinTwo, ConcatEmptySeq
    <3>2. << g, c >> \in Seq(AnyChunk)  BY <1>4, <1>5
    <3>3. << g, c >> \o << >> = << g, c >>  BY <3>2, ConcatEmptySeq
    <3>4. parts = << g >> \o << >> \o << c >> \o << >>
      BY <1>1, <1>6, <1>8 DEF Missing, parts, c
    <3> QED BY <3>1, <3>3, <3>4
  <2>2. ListSize(parts) = DiskSize(g) + DiskSize(c)  BY <1>4, <1>5, <2>1, SizeOfTwo
  <2>3. BodySize(i) = DiskSize(c)  BY <1>5, <1>8 DEF BodySize
  <2>4. ListSize(parts) - CHUNK_HEADER_SIZE = z  BY <1>2, <1>4, <1>5, <2>2, <2>3
  <2>5. Emitted(i) = << h, c >>
    <3>1. Emitted(i) = [parts EXCEPT ![1] = [parts[1] EXCEPT !.size = z]]  BY <1>7, <2>4
    <3> HIDE DEF g, c, z
    <3>2. parts[1] = g  BY <2>1
    <3>3. Emitted(i) = [<< g, c >> EXCEPT ![1] = h]  BY <2>1, <3>1, <3>2 DEF h
    <3> QED BY <3>3
  <2>6. Body(i) = << c >>  BY <1>8, BodyIsKnown
  <2>7. << h >> \o << c >> = << h, c >>
    <3>1. h \in AnyChunk  BY <1>3, ChunkKinds
    <3> HIDE DEF c
    <3> QED BY <1>5, <3>1, JoinTwo
  <2> QED BY <1>1, <1>3, <2>5, <2>6, <2>7 DEF h
<1>9. CASE i.alpha # Missing
  <2> DEFINE a == i.alpha[1]
  <2>1. i.alpha = << a >> /\ a \in AnyChunk /\ DiskSize(a) \in Nat
    BY <1>5, <1>9, DiskSizeIsNat DEF AlphaChunk
  <2>2. parts = << g, a, c >>
    <3> HIDE DEF g, c, a
    <3>1. << g >> \o << a >> \o << c >> = << g, a, c >>  BY <1>4, <1>5, <2>1, JoinThree
    <3>2. << g, a, c >> \in Seq(AnyChunk)  BY <1>4, <1>5, <2>1
    <3>3. << g, a, c >> \o << >> = << g, a, c >>  BY <3>2, ConcatEmptySeq
    <3>4. parts = << g >> \o << a >> \o << c >> \o << >>  BY <1>1, <1>6, <2>1 DEF parts, c
    <3> QED BY <3>1, <3>3, <3>4
  <2>3. ListSize(parts) = DiskSize(g) + DiskSize(a) + DiskSize(c)
    BY <1>4, <1>5, <2>1, <2>2, SizeOfThree
  <2>4. BodySize(i) = DiskSize(a) + DiskSize(c)  BY <1>9 DEF BodySize
  <2>5. ListSize(parts) - CHUNK_HEADER_SIZE = z  BY <1>2, <1>4, <1>5, <2>1, <2>3, <2>4
  <2>6. Emitted(i) = << h, a, c >>
    <3>1. Emitted(i) = [parts EXCEPT ![1] = [parts[1] EXCEPT !.size = z]]  BY <1>7, <2>5
    <3> HIDE DEF g, c, z, a
    <3>2. parts[1] = g  BY <2>2
    <3>3. Emitted(i) = [<< g, a, c >> EXCEPT ![1] = h]  BY <2>2, <3>1, <3>2 DEF h
    <3> QED BY <3>3
  <2>7. Body(i) = << a >> \o << c >>  BY <2>1 DEF Body
  <2>8. << h >> \o (<< a >> \o << c >>) = << h, a, c >>
    <3>1. h \in AnyChunk  BY <1>3, ChunkKinds
    <3> HIDE DEF a, c
    <3> QED BY <1>5, <2>1, <3>1, JoinThree
  <2> QED BY <1>1, <1>3, <2>6, <2>7, <2>8 DEF h
<1> QED BY <1>8, <1>9

LEMMA StillIsBody ==
  ASSUME NEW i, Regular(i), i.header = Missing PROVE Emitted(i) = Body(i)
<1> DEFINE al == i.alpha
           c  == << i.img >>
           b  == Body(i)
<1>1. Emitted(i) = << >> \o al \o c \o << >>  BY DEF Emitted, Regular, Missing
<1>2. b \in Seq(AnyChunk) /\ b = al \o c  BY BodyIsKnown DEF Body
<1>3. al \in Seq(AlphaChunk)  BY DEF Regular, ImageRec
<1>4. << >> \o al = al /\ b \o << >> = b  BY <1>2, <1>3, ConcatEmptySeq
<1> HIDE DEF al, c, b
<1>5. Emitted(i) = b  BY <1>1, <1>2, <1>4
<1> QED BY <1>5 DEF b

LEMMA TakesImage ==
  ASSUME NEW m, NEW i, Regular(i) PROVE Takes(m, Emitted(i), Pushing(m, i))
<1> SUFFICES ASSUME NEW at \in Nat, NEW s \in Idle(m, at)
             PROVE  \E b \in Nat : \E t \in Idle(Pushing(m, i), b) : Reads(s, Emitted(i), t)
  BY DEF Takes
<1>1. s \in InImage(m, Missing, Missing, at, 0)  BY DEF Idle
<1>2. i = ImageOf(i.header, i.alpha, i.img)  BY ImageIsOf
<1>3. CASE i.header = Missing
  <2>1. \E b \in Nat : \E t \in Idle(Pushing(m, ImageOf(Missing, i.alpha, i.img)), b) :
          Reads(s, Body(i), t)
    BY <1>1, BodyIsRead
  <2> QED BY <1>2, <1>3, <2>1, StillIsBody
<1>4. CASE i.header # Missing
  <2> DEFINE g == i.header[1]
             z == ANMF_CHUNK_SIZE + BodySize(i)
             h == [g EXCEPT !.size = z]
             u == ReadChunk(s, h)
             at1 == at + DiskSize(h)
             end == at + CHUNK_HEADER_SIZE + Padded(z)
  <2>1. /\ i.header = << g >> /\ g \in FrameChunk /\ h \in FrameChunk
        /\ [h EXCEPT !.size = ANMF_CHUNK_SIZE] = g /\ Emitted(i) = << h >> \o Body(i)
    BY <1>4, FrameIsBody
  <2>2. /\ BodySize(i) \in Nat /\ BodySize(i) > 0 /\ BodySize(i) % 2 = 0
        /\ ANMF_CHUNK_SIZE \in Nat /\ ANMF_CHUNK_SIZE % 2 = 0 /\ CHUNK_HEADER_SIZE \in Nat
    BY BodySizeIsEven, SizeAssumption
  <2>3. z \in Nat /\ z % 2 = 0 /\ Padded(z) = z
    <3>1. z \in Nat /\ z % 2 = 0  BY <2>2, SumIsEven
    <3> QED BY <3>1, PaddedIsEven
  <2>4. z >= ANMF_CHUNK_SIZE /\ ANMF_CHUNK_SIZE < Padded(z)  BY <2>2, <2>3
  <2>5. h.size = z /\ h.tag = "ANMF"  BY <2>1 DEF FrameChunk
  <2>6. DiskSize(h) = CHUNK_HEADER_SIZE + ANMF_CHUNK_SIZE  BY <2>5 DEF DiskSize
  <2>7. z = ANMF_CHUNK_SIZE + BodySize(i)  OBVIOUS
  <2> HIDE DEF h, z
  <2>8. at1 \in Nat /\ end \in Nat /\ at1 + BodySize(i) = end  BY <2>2, <2>3, <2>6, <2>7
  <2> HIDE DEF g
  <2>9. u \in InImage(m, << g >>, Missing, at1, end)  BY <2>1, <2>4, <2>5, HeaderIsRead
  <2> HIDE DEF u, at1, end
  <2>10. PICK b \in Nat : \E t \in Idle(Pushing(m, ImageOf(<< g >>, i.alpha, i.img)), b) :
           Reads(u, Body(i), t)
    BY <2>8, <2>9, BodyIsRead
  <2> PICK t \in Idle(Pushing(m, ImageOf(<< g >>, i.alpha, i.img)), b) : Reads(u, Body(i), t)
    BY <2>10
  <2>11. Reads(s, << h >>, u)  BY ReadsOne DEF u
  <2>12. << h >> \in Seq(AnyChunk) /\ Body(i) \in Seq(AnyChunk)
    BY <2>1, ChunkKinds, BodyIsKnown
  <2>13. Reads(s, Emitted(i), t)  BY <2>1, <2>11, <2>12, ReadsBoth
  <2>14. i = ImageOf(<< g >>, i.alpha, i.img)  BY <1>2, <2>1
  <2> QED BY <2>13, <2>14
<1> QED BY <1>3, <1>4

LEMMA TakesImages ==
  ASSUME NEW m \in MuxObject, m.images = << >>, NEW images \in Seq(ImageRec),
         \A k \in 1 .. Len(images) : Regular(images[k])
  PROVE  Takes(m, EmittedAll(images), [m EXCEPT !.images = images])
<1> DEFINE n == Len(images)
           q(k) == [m EXCEPT !.images = SubSeq(images, 1, k)]
<1>1. /\ n \in Nat /\ DOMAIN images = 1 .. n /\ \A k \in 1 .. n : images[k] \in ImageRec
      /\ SubSeq(images, 1, 0) = << >> /\ SubSeq(images, 1, n) = images
      /\ \A k \in Nat : k + 1 <= n =>
           SubSeq(images, 1, k + 1) = Append(SubSeq(images, 1, k), images[k + 1])
  OBVIOUS
<1>2. \A k \in 1 .. n : Regular(images[k]) /\ Emitted(images[k]) \in Seq(AnyChunk)
  BY <1>1, EmittedIsTyped
<1> HIDE DEF n
<1>3. PICK v : Folds(Emit, v, << >>, images, n) /\ EmittedAll(images) = v[n]
  BY <1>1, EmitInSteps
<1>4. v[0] = << >> /\ \A k \in 1 .. n : v[k] = v[k - 1] \o Emitted(images[k])
  BY <1>3 DEF Folds, FoldStep, Emit
<1> DEFINE S == { k \in Nat : k <= n => v[k] \in Seq(AnyChunk) /\ Takes(m, v[k], q(k)) }
<1>5. 0 \in S
  <2>1. q(0) = m  BY <1>1 DEF MuxObject
  <2>2. v[0] \in Seq(AnyChunk)  BY <1>4
  <2> HIDE DEF q
  <2>3. Takes(m, v[0], q(0))  BY <1>4, <2>1, TakesNothing
  <2> QED BY <2>2, <2>3
<1>6. ASSUME NEW k \in Nat, k \in S PROVE k + 1 \in S
  <2> SUFFICES ASSUME k + 1 <= n PROVE v[k + 1] \in Seq(AnyChunk) /\ Takes(m, v[k + 1], q(k + 1))
    OBVIOUS
  <2> DEFINE i == images[k + 1]
  <2>1. k + 1 \in 1 .. n /\ (k + 1) - 1 = k /\ k <= n  BY <1>1
  <2>2. v[k] \in Seq(AnyChunk) /\ Takes(m, v[k], q(k))  BY <1>6, <2>1
  <2>3. v[k + 1] = v[k] \o Emitted(i) /\ Regular(i) /\ Emitted(i) \in Seq(AnyChunk)
    BY <1>2, <1>4, <2>1
  <2>4. Pushing(q(k), i) = q(k + 1)
    <3> DEFINE x == SubSeq(images, 1, k)
               y == SubSeq(images, 1, k + 1)
    <3>1. y = Append(x, i)  BY <1>1
    <3> HIDE DEF x, y, i
    <3>2. [[m EXCEPT !.images = x] EXCEPT !.images = Append([m EXCEPT !.images = x].images, i)]
            = [m EXCEPT !.images = y]
      BY <3>1 DEF MuxObject
    <3> QED BY <3>2 DEF Pushing, x, y
  <2> HIDE DEF q, i
  <2>5. Takes(q(k), Emitted(i), q(k + 1))  BY <2>3, <2>4, TakesImage
  <2>6. v[k] \o Emitted(i) \in Seq(AnyChunk)  BY <2>2, <2>3, ConcatProperties
  <2>7. Takes(m, v[k] \o Emitted(i), q(k + 1))  BY <2>2, <2>3, <2>5, TakesBoth
  <2> QED BY <2>3, <2>6, <2>7
<1> HIDE DEF S
<1>7. Nat \subseteq S  BY <1>5, <1>6, Induction
<1>8. n \in S /\ n <= n  BY <1>1, <1>7
<1>9. Takes(m, v[n], q(n))  BY <1>8 DEF S
<1> QED BY <1>1, <1>3, <1>9

LEMMA SomeIsMux ==
  ASSUME NEW m \in MuxObject, NEW names, NEW images \in Seq(ImageRec), NEW width \in Int
  PROVE  Some(m, names, images, width) \in MuxObject
<1> DEFINE l == [n \in ListNames |-> IF n \in names THEN m.list[n] ELSE << >>]
<1>1. \A n \in ListNames : m.list[n] \in Seq(Listed(n)) /\ m.list[n] \in Seq(AnyChunk)
  BY ListsAreListed
<1>2. << >> \in Seq(AnyChunk) /\ \A n : << >> \in Seq(Listed(n))  OBVIOUS
<1>3. \A n \in ListNames : l[n] \in Seq(Listed(n)) /\ l[n] \in Seq(AnyChunk)
  BY <1>1, <1>2
<1>4. l = [n \in ListNames |-> l[n]]  OBVIOUS
<1>5. Some(m, names, images, width) = [images |-> images, list |-> l, width |-> width]
  BY DEF Some
<1> HIDE DEF l
<1>6. l \in Lists  BY <1>3, <1>4 DEF Lists
<1> QED BY <1>5, <1>6 DEF MuxObject

LEMMA TakesListOf ==
  ASSUME NEW m \in MuxObject, NEW names, NEW images \in Seq(ImageRec), NEW width \in Int,
         NEW n \in ListNames, n # "VP8X", n \notin names
  PROVE  Takes(Some(m, names, images, width), m.list[n], Some(m, names \cup {n}, images, width))
<1> DEFINE s == Some(m, names, images, width)
           t == Some(m, names \cup {n}, images, width)
           f == [x \in ListNames |-> IF x \in names THEN m.list[x] ELSE << >>]
           g == [x \in ListNames |-> IF x \in names \cup {n} THEN m.list[x] ELSE << >>]
<1>1. s \in MuxObject  BY SomeIsMux
<1>2. s = [images |-> images, list |-> f, width |-> width]
      /\ t = [images |-> images, list |-> g, width |-> width]
  BY DEF Some
<1>3. f[n] = << >> /\ g = [f EXCEPT ![n] = m.list[n]]  OBVIOUS
<1>4. m.list[n] \in Seq(Listed(n))  BY ListsAreListed
<1> HIDE DEF f, g, s, t
<1>5. s.list[n] = << >>  BY <1>2, <1>3
<1>6. [s EXCEPT !.list[n] = m.list[n]] = t  BY <1>2, <1>3
<1>7. Takes(s, m.list[n], [s EXCEPT !.list[n] = m.list[n]])
  BY <1>1, <1>4, <1>5, TakesList
<1> QED BY <1>6, <1>7 DEF s, t

LEMMA TakesCanvas ==
  ASSUME NEW m \in MuxObject, Len(m.list["VP8X"]) <= 1,
         m.list["VP8X"] # << >> => m.list["VP8X"][1].size >= VP8X_CHUNK_SIZE
  PROVE  /\ Takes(EmptyMux, m.list["VP8X"], Some(m, {"VP8X"}, << >>, CanvasIn(m)))
         /\ CanvasIn(m) \in Int
<1> DEFINE l == m.list["VP8X"]
           c == l[1]
<1>1. "VP8X" \in ListNames  BY DEF ListNames
<1>2. l \in Seq(Listed("VP8X")) /\ (l = << >> \/ (l = << c >> /\ c \in Listed("VP8X")))
  BY <1>1, ListsAreListed, OnlyOneOrNone
<1>3. EmptyMux = [images |-> << >>, list |-> [n \in ListNames |-> << >>], width |-> 0]
  BY DEF EmptyMux
<1> HIDE DEF c
<1>4. CASE l = << >>
  <2>1. [n \in ListNames |-> IF n \in {"VP8X"} THEN m.list[n] ELSE << >>] = [n \in ListNames |-> << >>]
    BY <1>4
  <2>2. CanvasIn(m) = 0  BY <1>4 DEF CanvasIn
  <2>3. Some(m, {"VP8X"}, << >>, CanvasIn(m)) = EmptyMux  BY <1>3, <2>1, <2>2 DEF Some
  <2> QED BY <1>4, <2>2, <2>3, TakesNothing
<1>5. CASE l # << >>
  <2>1. l = << c >> /\ c \in Listed("VP8X") /\ c \in AnyChunk /\ c.size >= VP8X_CHUNK_SIZE
    BY <1>2, <1>5 DEF Listed, c
  <2>2. c.tag = "VP8X"
    <3>1. ListOf(c.tag) = "VP8X"  BY <2>1 DEF Listed
    <3> QED BY <3>1 DEF ListOf
  <2>3. CanvasIn(m) = c.v.width /\ c.v.width \in Int
    <3>1. c \in CanvasChunk  BY <2>1, <2>2, KindOfChunk
    <3>2. c.v.width \in Int  BY <3>1 DEF CanvasChunk
    <3> QED BY <1>5, <3>2 DEF CanvasIn, c
  <2>4. Takes(EmptyMux, << c >>, Listing(EmptyMux, "VP8X", c))  BY <1>1, <2>1, TakesListed
  <2>5. Listing(EmptyMux, "VP8X", c) = Some(m, {"VP8X"}, << >>, CanvasIn(m))
    <3> DEFINE e == [n \in ListNames |-> << >>]
               f == [n \in ListNames |-> IF n \in {"VP8X"} THEN m.list[n] ELSE << >>]
               w == c.v.width
    <3>1. e["VP8X"] = << >> /\ [e EXCEPT !["VP8X"] = l] = f  BY <1>1
    <3>2. Append(<< >>, c) = l  BY <2>1
    <3>3. CanvasAfter(0, c) = w  BY <2>2 DEF CanvasAfter
    <3>4. EmptyMux = [images |-> << >>, list |-> e, width |-> 0]  BY <1>3
    <3>5. Some(m, {"VP8X"}, << >>, w) = [images |-> << >>, list |-> f, width |-> w]
      BY DEF Some
    <3> HIDE DEF e, f, w, l
    <3>6. EmptyMux.list["VP8X"] = << >> /\ EmptyMux.width = 0  BY <3>1, <3>4
    <3>7. [EmptyMux EXCEPT !.list["VP8X"] = l] = [images |-> << >>, list |-> f, width |-> 0]
      BY <3>1, <3>4
    <3>8. [[images |-> << >>, list |-> f, width |-> 0] EXCEPT !.width = w]
            = [images |-> << >>, list |-> f, width |-> w]
      OBVIOUS
    <3> QED BY <2>3, <3>2, <3>3, <3>5, <3>6, <3>7, <3>8 DEF Listing, w
  <2> QED BY <2>1, <2>3, <2>4, <2>5
<1> QED BY <1>4, <1>5

LEMMA TakesAll ==
  ASSUME NEW m \in MuxObject, AllRegular(m), Len(m.list["VP8X"]) <= 1,
         m.list["VP8X"] # << >> => m.list["VP8X"][1].size >= VP8X_CHUNK_SIZE
  PROVE  Takes(EmptyMux, FileOf(m).chunks, Recreated(m))
<1> DEFINE l(n) == m.list[n]
           w == CanvasIn(m)
           V == l("VP8X")
           I == l("ICCP")
           A == l("ANIM")
           E == EmittedAll(m.images)
           X == l("EXIF")
           M == l("XMP")
           U == l("unknown")
           none == << >>
           N1 == {"VP8X"}
           N2 == N1 \cup {"ICCP"}
           N3 == N2 \cup {"ANIM"}
           N4 == N3 \cup {"EXIF"}
           N5 == N4 \cup {"XMP"}
           N6 == N5 \cup {"unknown"}
           p3 == Some(m, N3, none, w)
           q3 == Some(m, N3, m.images, w)
<1>1. FileOf(m).chunks = V \o I \o A \o E \o X \o M \o U  BY DEF FileOf, EmittedAll
<1>2. \A n \in ListNames : l(n) \in Seq(AnyChunk)  BY ListsAreListed
<1>3. m.images \in Seq(ImageRec) /\ E \in Seq(AnyChunk) /\ none \in Seq(ImageRec)
  BY AllIsTyped DEF MuxObject
<1>4. w \in Int /\ Takes(EmptyMux, V, Some(m, N1, none, w))  BY TakesCanvas
<1>5. /\ "ICCP" \in ListNames \ {"VP8X"} /\ "ICCP" \notin N1
      /\ "ANIM" \in ListNames \ {"VP8X"} /\ "ANIM" \notin N2
      /\ "EXIF" \in ListNames \ {"VP8X"} /\ "EXIF" \notin N3
      /\ "XMP" \in ListNames \ {"VP8X"} /\ "XMP" \notin N4
      /\ "unknown" \in ListNames \ {"VP8X"} /\ "unknown" \notin N5
      /\ ListNames = N6 /\ "VP8X" \in ListNames
  BY DEF ListNames
<1>6. /\ p3 \in MuxObject /\ p3.images = << >> /\ q3 = [p3 EXCEPT !.images = m.images]
  <2>1. p3 \in MuxObject  BY <1>3, <1>4, SomeIsMux
  <2> QED BY <2>1 DEF Some
<1>7. Some(m, N6, m.images, w) = Recreated(m)
  <2>1. [n \in ListNames |-> IF n \in N6 THEN m.list[n] ELSE << >>] = m.list
    <3>1. m.list \in [ListNames -> Seq(AnyChunk)]  BY DEF MuxObject, Lists
    <3>2. [n \in ListNames |-> IF n \in N6 THEN m.list[n] ELSE << >>] = [n \in ListNames |-> m.list[n]]
      BY <1>5
    <3> QED BY <3>1, <3>2
  <2>2. m = [images |-> m.images, list |-> m.list, width |-> m.width]  BY DEF MuxObject
  <2>3. [m EXCEPT !.width = w] = [images |-> m.images, list |-> m.list, width |-> w]
    BY <2>2
  <2>4. Some(m, N6, m.images, w) = [images |-> m.images, list |-> m.list, width |-> w]
    <3> HIDE DEF w, N6
    <3> QED BY <2>1 DEF Some
  <2> HIDE DEF w, N6
  <2> QED BY <2>3, <2>4 DEF Recreated, w
<1>8. \A k \in 1 .. Len(m.images) : Regular(m.images[k])  BY DEF AllRegular
<1> HIDE DEF w, N1, N2, N3, N4, N5, N6, none, p3, q3, E
<1>9. Takes(Some(m, N1, none, w), I, Some(m, N2, none, w))
  BY <1>3, <1>4, <1>5, TakesListOf DEF N2
<1>10. Takes(Some(m, N2, none, w), A, p3)  BY <1>3, <1>4, <1>5, TakesListOf DEF N3, p3
<1>11. Takes(p3, E, q3)  BY <1>3, <1>6, <1>8, TakesImages DEF E
<1>12. Takes(q3, X, Some(m, N4, m.images, w))  BY <1>3, <1>4, <1>5, TakesListOf DEF N4, q3
<1>13. Takes(Some(m, N4, m.images, w), M, Some(m, N5, m.images, w))
  BY <1>3, <1>4, <1>5, TakesListOf DEF N5
<1>14. Takes(Some(m, N5, m.images, w), U, Recreated(m))
  BY <1>3, <1>4, <1>5, <1>7, TakesListOf DEF N6
<1>15. /\ V \in Seq(AnyChunk) /\ I \in Seq(AnyChunk) /\ A \in Seq(AnyChunk)
       /\ X \in Seq(AnyChunk) /\ M \in Seq(AnyChunk) /\ U \in Seq(AnyChunk)
  BY <1>2, <1>5
<1> HIDE DEF V, I, A, X, M, U, l
<1> DEFINE C2 == V \o I
           C3 == C2 \o A
           C4 == C3 \o E
           C5 == C4 \o X
           C6 == C5 \o M
<1>16. /\ C2 \in Seq(AnyChunk) /\ C3 \in Seq(AnyChunk) /\ C4 \in Seq(AnyChunk)
       /\ C5 \in Seq(AnyChunk) /\ C6 \in Seq(AnyChunk)
  BY <1>3, <1>15
<1>17. FileOf(m).chunks = C6 \o U /\ C6 = C5 \o M /\ C5 = C4 \o X /\ C4 = C3 \o E /\ C3 = C2 \o A
       /\ C2 = V \o I
  BY <1>1
<1> HIDE DEF C2, C3, C4, C5, C6
<1>18. Takes(EmptyMux, V \o I, Some(m, N2, none, w))  BY <1>4, <1>9, <1>15, TakesBoth
<1>19. Takes(EmptyMux, C2 \o A, p3)  BY <1>10, <1>15, <1>16, <1>17, <1>18, TakesBoth
<1>20. Takes(EmptyMux, C3 \o E, q3)  BY <1>3, <1>11, <1>16, <1>17, <1>19, TakesBoth
<1>21. Takes(EmptyMux, C4 \o X, Some(m, N4, m.images, w))
  BY <1>12, <1>15, <1>16, <1>17, <1>20, TakesBoth
<1>22. Takes(EmptyMux, C5 \o M, Some(m, N5, m.images, w))
  <2>1. C5 \in Seq(AnyChunk) /\ M \in Seq(AnyChunk)  BY <1>15, <1>16
  <2>2. Takes(EmptyMux, C5, Some(m, N4, m.images, w))  BY <1>17, <1>21
  <2> QED BY <1>13, <2>1, <2>2, TakesBoth
<1>23. Takes(EmptyMux, C6 \o U, Recreated(m))
  <2>1. C6 \in Seq(AnyChunk) /\ U \in Seq(AnyChunk)  BY <1>15, <1>16
  <2>2. Takes(EmptyMux, C6, Some(m, N5, m.images, w))  BY <1>17, <1>22
  <2> QED BY <1>14, <2>1, <2>2, TakesBoth
<1> QED BY <1>17, <1>23

-----------------------------------------------------------------------------
(* The object that WebPMuxCreate makes of it, and its file.                  *)

LEMMA CanvasInIsKnown ==
  ASSUME NEW w, Written(w)
  PROVE  /\ CanvasIn(w) = IF w.list["VP8X"] = << >> THEN 0 ELSE CanvasOf(w)
         /\ CanvasOf(w) \in Nat \ {0}
         /\ Len(w.list["VP8X"]) <= 1
         /\ w.list["VP8X"] # << >> => w.list["VP8X"][1].size = VP8X_CHUNK_SIZE
<1> DEFINE c == VP8X(FlagsOf(w), CanvasOf(w))
           l == w.list["VP8X"]
<1>1. l = << >> \/ l = << c >>  BY DEF Written
<1>2. c.size = VP8X_CHUNK_SIZE /\ c.v.width = CanvasOf(w)  BY DEF VP8X
<1>3. CanvasOf(w) \in Nat \ {0}
  <2>1. w \in MuxObject /\ w.images # << >> /\ (w.width = 0 \/ GetAdjustedCanvasSize(w) <= w.width)
    BY DEF Written
  <2>2. GetAdjustedCanvasSize(w) \in Nat \ {0} /\ w.width \in Int
    BY <2>1, CanvasHasWidth DEF MuxObject
  <2> QED BY <2>1, <2>2 DEF CanvasOf
<1> HIDE DEF c, l
<1>4. Len(l) <= 1  BY <1>1
<1>5. l # << >> => l[1] = c  BY <1>1
<1> QED BY <1>2, <1>3, <1>4, <1>5 DEF CanvasIn, l

\* It differs from what was written in its width at most.
LEMMA RecreatedIsSame ==
  ASSUME NEW w \in MuxObject
  PROVE  LET r == Recreated(w)
         IN  /\ r \in [images : {w.images}, list : {w.list}, width : {CanvasIn(w)}]
             /\ r.images = w.images /\ r.list = w.list /\ r.width = CanvasIn(w)
             /\ NumFrames(r) = NumFrames(w) /\ Features(r) = Features(w) /\ FlagsOf(r) = FlagsOf(w)
             /\ MuxFlags(r) = MuxFlags(w) /\ (MuxHasAlpha(r) <=> MuxHasAlpha(w))
             /\ GetAdjustedCanvasSize(r) = GetAdjustedCanvasSize(w)
             /\ FileOf(r) = FileOf(w)
<1> DEFINE r == Recreated(w)
<1>1. /\ r \in [images : {w.images}, list : {w.list}, width : {CanvasIn(w)}]
      /\ r.images = w.images /\ r.list = w.list /\ r.width = CanvasIn(w)
  BY DEF Recreated, MuxObject
<1> HIDE DEF r
<1>2. /\ NumFrames(r) = NumFrames(w) /\ Features(r) = Features(w) /\ FlagsOf(r) = FlagsOf(w)
      /\ (MuxHasAlpha(r) <=> MuxHasAlpha(w))
      /\ GetAdjustedCanvasSize(r) = GetAdjustedCanvasSize(w)
  BY <1>1, LooksAlike
<1>3. MuxFlags(r) = MuxFlags(w)  BY <1>1 DEF MuxFlags
<1>4. FileOf(r) = FileOf(w)  BY <1>1 DEF FileOf
<1> QED BY <1>1, <1>2, <1>3, <1>4 DEF r

\* A single image has the width of the canvas.
LEMMA RecreatedIsValid ==
  ASSUME NEW w, Written(w) PROVE MuxValidate(Recreated(w))
<1> DEFINE r == Recreated(w)
           flags == MuxFlags(w)
<1>1. w \in MuxObject /\ MuxValidate(w)  BY DEF Written
<1>2. /\ r.images = w.images /\ r.list = w.list /\ r.width = CanvasIn(w)
      /\ NumFrames(r) = NumFrames(w) /\ MuxFlags(r) = flags /\ (MuxHasAlpha(r) <=> MuxHasAlpha(w))
  BY <1>1, RecreatedIsSame
<1> HIDE DEF r
<1>3. ASSUME "ANIMATION" \notin flags, r.width > 0 PROVE WidthOf(r.images[1]) = r.width
  <2>1. w.list["VP8X"] # << >> /\ r.width = CanvasOf(w)  BY <1>2, <1>3, CanvasInIsKnown
  <2>2. "ANIMATION" \notin FlagsOf(w)  BY <1>3, <2>1, FlagsAreKnown
  <2>3. WidthOf(w.images[1]) = CanvasOf(w)  BY <2>1, <2>2, StillHasImage
  <2> QED BY <1>2, <2>1, <2>3
<1> HIDE DEF flags
<1>4. /\ w.images # << >>
      /\ \A t \in Metadata :
           Len(w.list[t]) <= 1 /\ (t \in flags <=> Len(w.list[t]) > 0)
      /\ Len(w.list["ANIM"]) <= 1 /\ Len(w.list["VP8X"]) <= 1
      /\ IF "ANIMATION" \in flags
         THEN w.list["ANIM"] # << >> /\ NumFrames(w) > 0
         ELSE /\ w.list["ANIM"] = << >> /\ NumFrames(w) = 0
              /\ Len(w.images) = 1
      /\ w.list["VP8X"] = << >> => Len(w.images) = 1
      /\ MuxHasAlpha(w) =>
           IF w.list["VP8X"] # << >> THEN "ALPHA" \in flags
           ELSE \A i \in 1 .. Len(w.images) : w.images[i].alpha = Missing
  BY <1>1 DEF MuxValidate, flags
<1>5. MuxValidate(r)  BY <1>2, <1>3, <1>4 DEF MuxValidate
<1> QED BY <1>5 DEF r

LEMMA WrittenIsRecreated ==
  ASSUME NEW w, Written(w), AllRegular(w) PROVE MuxCreate(FileOf(w)) = Recreated(w)
<1> DEFINE f == FileOf(w)
           s == FoldLeft(ReadChunk, Started, f.chunks)
<1>1. w \in MuxObject /\ f \in File  BY FileIsTyped DEF Written
<1>2. Takes(EmptyMux, f.chunks, Recreated(w))
  <2>1. VP8X_CHUNK_SIZE \in Nat  BY SizeAssumption
  <2>2. /\ Len(w.list["VP8X"]) <= 1
        /\ w.list["VP8X"] # << >> => w.list["VP8X"][1].size >= VP8X_CHUNK_SIZE
    BY <2>1, CanvasInIsKnown
  <2> QED BY <1>1, <2>2, TakesAll
<1>3. RIFF_HEADER_SIZE \in Nat  BY SizesAreNat
<1>4. PICK b \in Nat : \E t \in Idle(Recreated(w), b) : Reads(Started, f.chunks, t)
  BY <1>2, <1>3, StartedIsIdle DEF Takes
<1> PICK t \in Idle(Recreated(w), b) : Reads(Started, f.chunks, t)
  BY <1>4
<1>5. f.chunks \in Seq(AnyChunk)  BY <1>1 DEF File
<1>6. s = t  BY <1>5, ReadsAll
<1>7. ~ t.failed /\ ~ t.partial /\ t.anmf = 0 /\ t.mux = Recreated(w)
  BY DEF Idle, InImage
<1>8. f.chunks[1].tag \in ImageTags \cup {"VP8X"}
  <2>1. CASE w.list["VP8X"] = << >>
    <3>1. f.chunks[1] \in WholeImage  BY <2>1, SingleIsWritten DEF SingleFile
    <3> QED BY <3>1 DEF WholeImage, ImageChunk
  <2>2. CASE w.list["VP8X"] # << >>
    <3>1. f.chunks[1] \in CanvasChunk  BY <2>2, CanvasIsWritten DEF CanvasFile
    <3> QED BY <3>1 DEF CanvasChunk
  <2> QED BY <2>1, <2>2
<1>9. MuxValidate(Recreated(w))  BY RecreatedIsValid
<1>10. MuxCreate(f) = IF \/ s.failed \/ s.partial \/ s.anmf # 0
                         \/ f.chunks[1].tag \notin ImageTags \cup {"VP8X"}
                         \/ ~ MuxValidate(s.mux)
                      THEN NULL ELSE s.mux
  BY DEF MuxCreate
<1> HIDE DEF s
<1> QED BY <1>6, <1>7, <1>8, <1>9, <1>10

\* Without a canvas there is no frame.
LEMMA CanvasOfFrames ==
  ASSUME NEW w, Written(w), NumFrames(w) = 1 PROVE w.list["VP8X"] # << >>
<1> SUFFICES ASSUME w.list["VP8X"] = << >> PROVE FALSE
  OBVIOUS
<1>1. "ANIMATION" \notin MuxFlags(w)  BY DEF MuxFlags
<1>2. NumFrames(w) = 0  BY <1>1 DEF Written, MuxValidate
<1> QED BY <1>2

LEMMA RecreatedIsClean ==
  ASSUME NEW w, Kept(w) PROVE MuxCleanup(Recreated(w)) = Recreated(w)
<1> DEFINE r == Recreated(w)
           plain == NumFrames(r) = 1 /\ r.width \in {0, WidthOf(r.images[1])}
           m1 == IF plain THEN [r EXCEPT !.images[1].header = Missing] ELSE r
<1>1. Written(w) /\ w \in MuxObject /\ MuxValidate(w)
      /\ (NumFrames(w) = 1 => w.width \notin {0, WidthOf(w.images[1])})
  BY DEF Kept, Written
<1>2. /\ r \in [images : {w.images}, list : {w.list}, width : {CanvasIn(w)}]
      /\ r.images = w.images /\ r.list = w.list /\ r.width = CanvasIn(w)
      /\ NumFrames(r) = NumFrames(w)
  BY <1>1, RecreatedIsSame
<1> HIDE DEF r
<1>3. ~ plain
  <2> SUFFICES ASSUME NumFrames(w) = 1 PROVE CanvasIn(w) = w.width
    BY <1>1, <1>2
  <2>1. w.list["VP8X"] # << >> /\ w.width # 0  BY <1>1, CanvasOfFrames
  <2> QED BY <1>1, <2>1, CanvasInIsKnown DEF CanvasOf
<1>4. MuxCleanup(r) = IF NumFrames(r) = 0 THEN [r EXCEPT !.list["ANIM"] = << >>] ELSE r
  <2>1. m1 = r  BY <1>3
  <2>2. MuxCleanup(r) = IF NumFrames(m1) = 0 THEN [m1 EXCEPT !.list["ANIM"] = << >>] ELSE m1
    BY DEF MuxCleanup
  <2> QED BY <2>1, <2>2
<1>5. ASSUME NumFrames(r) = 0 PROVE [r EXCEPT !.list["ANIM"] = << >>] = r
  <2>1. w.list["ANIM"] = << >>
    <3>1. ~ (NumFrames(w) > 0)  BY <1>2, <1>5
    <3> QED BY <1>1, <3>1 DEF MuxValidate
  <2>2. w.list \in [ListNames -> Seq(AnyChunk)]  BY <1>1 DEF MuxObject, Lists
  <2> DEFINE k == w.list
  <2>3. [k EXCEPT !["ANIM"] = << >>] = k  BY <2>1, <2>2
  <2>4. r.list = k  BY <1>2
  <2> HIDE DEF k
  <2>5. [r EXCEPT !.list["ANIM"] = << >>] = [r EXCEPT !.list = k]  BY <2>3, <2>4
  <2>6. [r EXCEPT !.list = k] = r  BY <1>2, <2>4
  <2> QED BY <2>5, <2>6
<1>6. MuxCleanup(r) = r  BY <1>4, <1>5
<1> QED BY <1>6 DEF r

LEMMA RecreatedIsAssembled ==
  ASSUME NEW w, Kept(w) PROVE Assembled(Recreated(w)).file = FileOf(w)
<1> DEFINE r == Recreated(w)
           m0 == [r EXCEPT !.list["VP8X"] = << >>]
           m2 == WithVP8X(m0)
           l == IF Features(m0) = {} /\ m0.list["unknown"] = << >> THEN << >>
                ELSE << VP8X(FlagsOf(m0), CanvasOf(m0)) >>
<1>1. /\ Written(w) /\ w \in MuxObject /\ w.images # << >>
      /\ w.width = 0 \/ GetAdjustedCanvasSize(w) <= w.width
      /\ w.list["VP8X"] = IF Features(w) = {} /\ w.list["unknown"] = << >> THEN << >>
                          ELSE << VP8X(FlagsOf(w), CanvasOf(w)) >>
  BY DEF Kept, Written
<1>2. /\ r \in [images : {w.images}, list : {w.list}, width : {CanvasIn(w)}]
      /\ r.images = w.images /\ r.list = w.list /\ r.width = CanvasIn(w)
      /\ Features(r) = Features(w) /\ FlagsOf(r) = FlagsOf(w)
      /\ GetAdjustedCanvasSize(r) = GetAdjustedCanvasSize(w)
      /\ FileOf(r) = FileOf(w)
  BY <1>1, RecreatedIsSame
<1>3. MuxValidate(r) /\ MuxCleanup(r) = r  BY <1>1, RecreatedIsValid, RecreatedIsClean
<1>4. /\ r.width = IF w.list["VP8X"] = << >> THEN 0 ELSE CanvasOf(w)
      /\ CanvasOf(w) \in Nat \ {0}
  BY <1>1, <1>2, CanvasInIsKnown
<1>5. ~ (r.width # 0 /\ GetAdjustedCanvasSize(r) > r.width)
  <2> SUFFICES ASSUME r.width # 0 PROVE ~ (GetAdjustedCanvasSize(w) > CanvasOf(w))
    BY <1>2, <1>4
  <2>1. GetAdjustedCanvasSize(w) \in Nat /\ w.width \in Int
    BY <1>1, CanvasHasWidth DEF MuxObject
  <2> QED BY <1>1, <2>1 DEF CanvasOf
<1>6. w.list \in [ListNames -> Seq(AnyChunk)] /\ "VP8X" \in ListNames
  BY <1>1 DEF MuxObject, Lists, ListNames
<1> HIDE DEF r
<1>7. /\ m0.images = w.images /\ m0.width = r.width
      /\ m0.list = [w.list EXCEPT !["VP8X"] = << >>]
      /\ m0 \in [images : {w.images}, list : {m0.list}, width : {r.width}]
  BY <1>2
<1>8. m2 = [m0 EXCEPT !.list["VP8X"] = l]  BY DEF WithVP8X, FlagsOf, CanvasOf
<1> HIDE DEF m0, l
<1>9. \A n \in ListNames \ {"VP8X"} : m0.list[n] = w.list[n]  BY <1>6, <1>7
<1>10. Features(m0) = Features(w) /\ FlagsOf(m0) = FlagsOf(w)
       /\ m0.list["unknown"] = w.list["unknown"]
  BY <1>7, <1>9, LooksAlike
<1>11. l = w.list["VP8X"]
  <2>1. CASE Features(w) = {} /\ w.list["unknown"] = << >>  BY <1>1, <1>10, <2>1 DEF l
  <2>2. CASE ~ (Features(w) = {} /\ w.list["unknown"] = << >>)
    <3>1. l = << VP8X(FlagsOf(w), CanvasOf(m0)) >>  BY <1>10, <2>2 DEF l
    <3>2. w.list["VP8X"] = << VP8X(FlagsOf(w), CanvasOf(w)) >>  BY <1>1, <2>2
    <3>3. CanvasOf(m0) = CanvasOf(w)
      <4>1. r.width = CanvasOf(w)  BY <1>4, <3>2
      <4> QED BY <1>4, <1>7, <4>1 DEF CanvasOf
    <3> QED BY <3>1, <3>2, <3>3
  <2> QED BY <2>1, <2>2
<1>12. m2 = r
  <2> DEFINE k == w.list
             k0 == m0.list
  <2>1. k \in [ListNames -> Seq(AnyChunk)] /\ k0 = [k EXCEPT !["VP8X"] = << >>] /\ l = k["VP8X"]
    BY <1>6, <1>7, <1>11
  <2>2. r.list = k /\ m0 \in [images : {w.images}, list : {k0}, width : {r.width}]
    BY <1>2, <1>7
  <2> HIDE DEF k, k0, m2
  <2>3. [k0 EXCEPT !["VP8X"] = l] = k  BY <1>6, <2>1
  <2>4. m2 = [m0 EXCEPT !.list = k]  BY <1>8, <2>3 DEF k0
  <2>5. [m0 EXCEPT !.list = k] = r  BY <1>2, <2>2
  <2> QED BY <2>4, <2>5
<1>13. Assembled(r) = [mux |-> r, file |-> FileOf(r)]
  <2>1. Assembled(r) =
          IF r.images = << >> THEN [mux |-> r, file |-> NoFile]
          ELSE IF r.width # 0 /\ GetAdjustedCanvasSize(r) > r.width
          THEN [mux |-> m0, file |-> NoFile]
          ELSE [mux |-> m2, file |-> IF MuxValidate(m2) THEN FileOf(m2) ELSE NoFile]
    BY <1>3 DEF Assembled, m0
  <2> QED BY <1>1, <1>2, <1>3, <1>5, <1>12, <2>1
<1> QED BY <1>2, <1>13 DEF r

-----------------------------------------------------------------------------
(* Every image stays regular, and what is written is clean.                  *)

LEMMA NewImageIsRegular ==
  ASSUME NEW b \in Bitstreams
  PROVE  /\ Regular(NewImage(b))
         /\ \A x \in Nat : Regular([NewImage(b) EXCEPT !.header =
                                      << ANMF(ANMF_CHUNK_SIZE, Snapped(x), WidthOf(NewImage(b))) >>])
<1> DEFINE i == NewImage(b)
<1>1. i \in ImageRec /\ WidthOf(i) \in Nat \ {0}  BY NewImageIsTyped
<1>2. i.unknown = Missing /\ i.header = Missing /\ Len(i.alpha) <= 1
  <2>1. i.unknown = Missing /\ i.header = Missing /\ (i.alpha = << >> \/ i.alpha = b.alpha)
    BY DEF NewImage, Missing
  <2>2. Len(b.alpha) <= 1 /\ Len(<< >>) = 0  BY ContainerAssumption
  <2> HIDE DEF i
  <2>3. CASE i.alpha = << >>  BY <2>1, <2>2, <2>3
  <2>4. CASE i.alpha = b.alpha  BY <2>1, <2>2, <2>4
  <2> QED BY <2>1, <2>3, <2>4
<1> HIDE DEF i
<1>3. Regular(i)  BY <1>1, <1>2 DEF Regular, Missing
<1>4. ASSUME NEW x \in Nat
      PROVE  Regular([i EXCEPT !.header = << ANMF(ANMF_CHUNK_SIZE, Snapped(x), WidthOf(i)) >>])
  <2> DEFINE h == ANMF(ANMF_CHUNK_SIZE, Snapped(x), WidthOf(i))
             j == [i EXCEPT !.header = << h >>]
  <2>1. Snapped(x) \in Nat  BY DEF Snapped
  <2>2. h \in FrameChunk /\ h.size = ANMF_CHUNK_SIZE
    BY <1>1, <2>1, SizesAreNat DEF ANMF, FrameChunk
  <2> HIDE DEF h
  <2>3. << h >> \in Seq(FrameChunk) /\ Len(<< h >>) = 1 /\ << h >>[1] = h  BY <2>2
  <2>4. j \in ImageRec /\ j.header = << h >> /\ j.alpha = i.alpha /\ j.unknown = i.unknown
    BY <1>1, <2>3 DEF ImageRec
  <2> HIDE DEF j
  <2>5. Regular(j)  BY <1>2, <2>2, <2>3, <2>4 DEF Regular
  <2> QED BY <2>5 DEF j, h
<1> QED BY <1>3, <1>4 DEF i

LEMMA EditKeepsRegular ==
  ASSUME mux \in MuxObject, AllRegular(mux), Edit PROVE AllRegular(mux')
<1>1. mux.images \in Seq(ImageRec)  BY DEF MuxObject
<1>2. CASE \E b \in Bitstreams : SetImage(b)
  <2>1. PICK b \in Bitstreams : SetImage(b)  BY <1>2
  <2>2. mux'.images = << NewImage(b) >>  BY <2>1 DEF SetImage, MuxObject
  <2>3. Len(<< NewImage(b) >>) = 1 /\ << NewImage(b) >>[1] = NewImage(b)  OBVIOUS
  <2>4. Regular(NewImage(b))  BY NewImageIsRegular
  <2>5. \A k \in 1 .. 1 : k = 1  OBVIOUS
  <2> QED BY <2>2, <2>3, <2>4, <2>5 DEF AllRegular
<1>3. CASE SetBadImage
  <2>1. mux'.images = << >>  BY <1>3 DEF SetBadImage, MuxObject
  <2> QED BY <2>1 DEF AllRegular
<1>4. CASE \E b \in Bitstreams, x \in Offsets : PushFrame(b, x)
  <2>1. PICK b \in Bitstreams, x \in Offsets : PushFrame(b, x)  BY <1>4
  <2> DEFINE i == NewImage(b)
             j == [i EXCEPT !.header = << ANMF(ANMF_CHUNK_SIZE, Snapped(x), WidthOf(i)) >>]
             s == Append(mux.images, j)
  <2>2. mux' = [mux EXCEPT !.images = s]  BY <2>1 DEF PushFrame
  <2>3. x \in Nat  BY ContainerAssumption
  <2>4. Regular(j)  BY <2>3, NewImageIsRegular
  <2> HIDE DEF j
  <2>5. Len(s) = Len(mux.images) + 1 /\ s[Len(mux.images) + 1] = j
        /\ \A k \in 1 .. Len(mux.images) : s[k] = mux.images[k]
    BY <1>1
  <2> HIDE DEF s
  <2>6. mux'.images = s  BY <2>2 DEF MuxObject
  <2>7. Len(mux.images) \in Nat  BY <1>1
  <2>8. ASSUME NEW k \in 1 .. Len(s) PROVE Regular(s[k])
    <3>1. k \in 1 .. Len(mux.images) \/ k = Len(mux.images) + 1  BY <2>5, <2>7
    <3> QED BY <2>4, <2>5, <3>1 DEF AllRegular
  <2> QED BY <2>6, <2>8 DEF AllRegular
<1>5. CASE \E nth \in 0 .. MaxImages : DeleteFrame(nth)
  <2>1. PICK nth \in 0 .. MaxImages : DeleteFrame(nth)  BY <1>5
  <2> DEFINE n == IF nth = 0 THEN Len(mux.images) ELSE nth
             s == RemoveAt(mux.images, n)
  <2>2. n \in 1 .. Len(mux.images) /\ mux' = [mux EXCEPT !.images = s]
    BY <2>1 DEF DeleteFrame
  <2> HIDE DEF n
  <2>3. mux'.images = s  BY <2>2 DEF MuxObject
  <2>4. s \in Seq({ i \in ImageRec : Regular(i) })
    <3> DEFINE T == { i \in ImageRec : Regular(i) }
    <3>1. n \in Int /\ Len(mux.images) \in Nat  BY <1>1, <2>2
    <3>2. \A k \in 1 .. Len(mux.images) : mux.images[k] \in T  BY <1>1 DEF AllRegular
    <3> HIDE DEF T
    <3>3. (\A k \in 1 .. n - 1 : mux.images[k] \in T)
          /\ \A k \in n + 1 .. Len(mux.images) : mux.images[k] \in T
      BY <2>2, <3>1, <3>2
    <3>4. SubSeq(mux.images, 1, n - 1) \in Seq(T)  BY <3>1, <3>3, SubSeqProperties
    <3>5. SubSeq(mux.images, n + 1, Len(mux.images)) \in Seq(T)
      BY <3>1, <3>3, SubSeqProperties
    <3> QED BY <3>4, <3>5 DEF RemoveAt, T
  <2> HIDE DEF s
  <2>5. \A k \in 1 .. Len(s) : Regular(s[k])  BY <2>4
  <2> QED BY <2>3, <2>5 DEF AllRegular
<1>6. CASE \/ \E c \in Chunks : SetChunk(c)
           \/ \E t \in Tags : DeleteChunk(t)
           \/ SetAnimationParams(0)
           \/ \E width \in Widths : SetCanvasSize(width)
  <2>1. mux'.images = mux.images
    BY <1>6 DEF SetChunk, DeleteChunk, SetAnimationParams, SetCanvasSize, MuxObject
  <2> QED BY <2>1 DEF AllRegular
<1> QED BY <1>2, <1>3, <1>4, <1>5, <1>6 DEF Edit

\* A single frame that covers the canvas has lost its header.
LEMMA CleanupIsRegular ==
  ASSUME NEW m \in MuxObject, AllRegular(m)
  PROVE  LET c == MuxCleanup(m)
         IN  /\ AllRegular(c)
             /\ \/ c.images # << >> /\ c.images[1].header = Missing
                \/ /\ c.images = m.images
                   /\ NumFrames(m) = 1 => m.width \notin {0, WidthOf(m.images[1])}
<1> DEFINE plain == NumFrames(m) = 1 /\ m.width \in {0, WidthOf(m.images[1])}
           c == MuxCleanup(m)
           i == [m.images[1] EXCEPT !.header = Missing]
           s == [m.images EXCEPT ![1] = i]
<1>1. m.images \in Seq(ImageRec)  BY DEF MuxObject
<1>2. (plain => m.images # << >> /\ c.images = s) /\ (~ plain => c.images = m.images)
  BY CleanupIsTyped
<1> HIDE DEF c
<1>3. CASE ~ plain  BY <1>2, <1>3 DEF AllRegular, c
<1>4. CASE plain
  <2>1. 1 \in 1 .. Len(m.images) /\ m.images[1] \in ImageRec /\ Regular(m.images[1])
    BY <1>1, <1>2, <1>4 DEF AllRegular
  <2>2. /\ i \in ImageRec /\ i.header = Missing /\ i.alpha = m.images[1].alpha
        /\ i.unknown = m.images[1].unknown
    BY <2>1, WithoutHeader
  <2> HIDE DEF i
  <2>3. s \in Seq(ImageRec) /\ Len(s) = Len(m.images) /\ s # << >> /\ s[1] = i
        /\ \A k \in 1 .. Len(m.images) : s[k] = IF k = 1 THEN i ELSE m.images[k]
    BY <1>1, <2>1, <2>2
  <2> HIDE DEF s
  <2>4. Regular(i)  BY <2>1, <2>2 DEF Regular, Missing
  <2>5. \A k \in 1 .. Len(s) : Regular(s[k])  BY <2>3, <2>4 DEF AllRegular
  <2> QED BY <1>2, <1>4, <2>2, <2>3, <2>5 DEF AllRegular, c
<1> QED BY <1>3, <1>4

LEMMA ImagesAreKept ==
  ASSUME NEW m \in MuxObject
  PROVE  /\ [m EXCEPT !.list["VP8X"] = << >>].images = m.images
         /\ [m EXCEPT !.list["VP8X"] = << >>].width = m.width
         /\ \A n \in MuxObject : WithVP8X(n).images = n.images /\ WithVP8X(n).width = n.width
  BY DEF MuxObject, WithVP8X

\* Without a header on its first image, a mux object has no frame when it is valid.
LEMMA FrameHasHeader ==
  ASSUME NEW w, Written(w), w.images[1].header = Missing PROVE NumFrames(w) = 0
<1>1. ~ Animated(w)  BY DEF Animated
<1>2. "ANIMATION" \notin FlagsOf(w)  BY <1>1 DEF FlagsOf, Features, Metadata
<1>3. "ANIMATION" \notin MuxFlags(w)
  <2>1. CASE w.list["VP8X"] = << >>  BY <2>1 DEF MuxFlags
  <2>2. CASE w.list["VP8X"] # << >>  BY <1>2, <2>2, FlagsAreKnown
  <2> QED BY <2>1, <2>2
<1> QED BY <1>3 DEF Written, MuxValidate

LEMMA AssembledIsKept ==
  ASSUME NEW m \in MuxObject, AllRegular(m)
  PROVE  /\ AllRegular(Assembled(m).mux)
         /\ Assembled(m).file # NoFile => \E w : Kept(w) /\ Assembled(m).file = FileOf(w)
<1> DEFINE m1 == MuxCleanup(m)
           m0 == [m1 EXCEPT !.list["VP8X"] = << >>]
           w == WithVP8X(m0)
<1>1. m1 \in MuxObject /\ m1.width = m.width /\ AllRegular(m1)
      /\ \/ m1.images # << >> /\ m1.images[1].header = Missing
         \/ /\ m1.images = m.images
            /\ NumFrames(m) = 1 => m.width \notin {0, WidthOf(m.images[1])}
  BY CleanupIsTyped, CleanupIsRegular
<1>2. m0 \in MuxObject /\ m0.images = m1.images /\ m0.width = m1.width
      /\ w.images = m0.images /\ w.width = m0.width
  <2>1. "VP8X" \in ListNames /\ << >> \in Seq(Listed("VP8X"))  BY DEF ListNames
  <2> HIDE DEF m1
  <2>2. m0 \in MuxObject  BY <1>1, <2>1, ListIsSet
  <2> QED BY <1>1, <2>2, ImagesAreKept
<1>3. Assembled(m) =
        IF m1.images = << >> THEN [mux |-> m1, file |-> NoFile]
        ELSE IF m1.width # 0 /\ GetAdjustedCanvasSize(m1) > m1.width
        THEN [mux |-> m0, file |-> NoFile]
        ELSE [mux |-> w, file |-> IF MuxValidate(w) THEN FileOf(w) ELSE NoFile]
  BY DEF Assembled
<1> HIDE DEF m0, m1, w
<1>4. AllRegular(Assembled(m).mux)
  <2>1. Assembled(m).mux.images = m1.images  BY <1>2, <1>3
  <2> QED BY <1>1, <2>1 DEF AllRegular
<1>5. ASSUME Assembled(m).file # NoFile
      PROVE  Kept(w) /\ Assembled(m).file = FileOf(w)
  <2>1. /\ m1.images # << >> /\ ~ (m1.width # 0 /\ GetAdjustedCanvasSize(m1) > m1.width)
        /\ MuxValidate(w) /\ Assembled(m).file = FileOf(w)
    BY <1>3, <1>5
  <2>2. GetAdjustedCanvasSize(m0) = GetAdjustedCanvasSize(m1)
    BY <1>2 DEF GetAdjustedCanvasSize, Extent
  <2>3. GetAdjustedCanvasSize(m1) \in Nat /\ m1.width \in Int
    BY <1>1, <2>1, CanvasHasWidth DEF MuxObject
  <2>4. m0.width = 0 \/ GetAdjustedCanvasSize(m0) <= m0.width  BY <1>2, <2>1, <2>2, <2>3
  <2>5. Written(w)  BY <1>2, <2>1, <2>4, WithVP8XIsWritten DEF w
  <2>6. AllRegular(w)  BY <1>1, <1>2 DEF AllRegular
  <2>7. ASSUME NumFrames(w) = 1 PROVE w.width \notin {0, WidthOf(w.images[1])}
    <3>1. w.images[1].header # Missing  BY <2>5, <2>7, FrameHasHeader
    <3>2. /\ w.images = m.images /\ w.width = m.width
          /\ NumFrames(m) = 1 => m.width \notin {0, WidthOf(m.images[1])}
      BY <1>1, <1>2, <3>1
    <3>3. NumFrames(w) = NumFrames(m)  BY <3>2 DEF NumFrames
    <3> QED BY <2>7, <3>2, <3>3
  <2> QED BY <2>1, <2>5, <2>6, <2>7 DEF Kept
<1> QED BY <1>4, <1>5

-----------------------------------------------------------------------------
(* The files stay such, and the theorems about them.                         *)

LEMMA CreatedIsRegular ==
  ASSUME NEW w, Kept(w)
  PROVE  AllRegular(MuxCreate(FileOf(w))) /\ MuxCreate(FileOf(w)) # NULL
<1>1. MuxCreate(FileOf(w)) = Recreated(w) /\ w \in MuxObject /\ w.images # << >> /\ AllRegular(w)
  BY WrittenIsRecreated DEF Kept, Written
<1>2. Recreated(w).images = w.images  BY <1>1, RecreatedIsSame
<1>3. NULL.images = << >>  BY DEF NULL, EmptyMux
<1> QED BY <1>1, <1>2, <1>3 DEF AllRegular

LEMMA InitRecreates == Init => RecreateInv
<1> SUFFICES ASSUME Init PROVE RecreateInv
  OBVIOUS
<1>1. mux.images = << >> /\ (own => file = NoFile)  BY DEF Init, EmptyMux, NoFile
<1>2. AllRegular(mux)  BY <1>1 DEF AllRegular
<1> QED BY <1>1, <1>2 DEF RecreateInv

LEMMA NextRecreates == ContainerInv /\ RecreateInv /\ [Next]_vars => RecreateInv'
<1> SUFFICES ASSUME ContainerInv, RecreateInv, [Next]_vars PROVE RecreateInv'
  OBVIOUS
<1> USE DEF RecreateInv
<1>1. mux \in MuxObject  BY DEF ContainerInv
<1>2. CASE Edit
  <2>1. AllRegular(mux)'  BY <1>1, <1>2, EditKeepsRegular DEF AllRegular
  <2>2. file' = NoFile  BY <1>2 DEF Edit, Editing
  <2> QED BY <2>1, <2>2 DEF NoFile
<1>3. CASE WebPMuxAssemble
  <2>1. mux' = Assembled(mux).mux /\ file' = Assembled(mux).file
    BY <1>3 DEF WebPMuxAssemble
  <2>2. AllRegular(mux)'  BY <1>1, <2>1, AssembledIsKept DEF AllRegular
  <2>3. file' # NoFile => \E w : Kept(w) /\ file' = FileOf(w)
    BY <1>1, <2>1, AssembledIsKept
  <2> QED BY <2>2, <2>3 DEF NoFile
<1>4. CASE Read
  <2>1. UNCHANGED <<mux, own, file>>
    BY <1>4 DEF Read, DemuxNext, Receive, Master, Chunk, StoreFrame, Stored, Parse, Finish
  <2> QED BY <2>1 DEF AllRegular, NoFile
<1>5. CASE EditAgain
  <2>1. own /\ file # NoFile /\ mux' \in { mux, MuxCreate(file) } /\ file' = NoFile
    BY <1>5 DEF EditAgain
  <2>2. PICK w : Kept(w) /\ file = FileOf(w)  BY <2>1
  <2>3. AllRegular(mux)'  BY <2>1, <2>2, CreatedIsRegular DEF AllRegular
  <2> QED BY <2>1, <2>3 DEF NoFile
<1>6. CASE UNCHANGED vars  BY <1>6 DEF vars, dvars, AllRegular, NoFile
<1> QED BY <1>2, <1>3, <1>4, <1>5, <1>6 DEF Next, Terminated

\* Whatever is edited in whatever order, what WebPGetFeatures says of the beginning of
\* the file that WebPMuxAssemble writes does not change any more when the rest
\* arrives, and the headers of a still image are never an error (FeaturesRemain).
THEOREM FeaturesAlwaysRemain == Spec => []FeaturesRemain
<1>1. ContainerInv /\ RecreateInv => FeaturesRemain
  <2> SUFFICES ASSUME ContainerInv, RecreateInv, HasOwnFile, size > 0
               PROVE  /\ Remains(GetFeatures(Prefix(file, size - 1)), GetFeatures(Prefix(file, size)))
                      /\ ~ HasFrames(file) =>
                           WebPParseHeaders(Prefix(file, size), FALSE).status
                             \in (IF size = FileSize(file) THEN {"OK"} ELSE {"OK", "NOT_ENOUGH_DATA"})
    BY DEF FeaturesRemain
  <2>1. OwnFile(file)  BY OwnFileIsWritten DEF RecreateInv, HasOwnFile, Kept
  <2>2. size \in Nat \ {0}  BY DEF ContainerInv
  <2> QED BY <2>1, <2>2, OwnFileRemains
<1> QED BY InitImpliesInv, NextKeepsInv, InitRecreates, NextRecreates, <1>1, PTL DEF Spec

\* Whatever is edited in whatever order, WebPMuxCreate takes the file that
\* WebPMuxAssemble writes, and assembling what it makes of it gives the same file
\* again (AssembledIsRecreated).
THEOREM AssembledAlwaysIsRecreated == Spec => []AssembledIsRecreated
<1>1. ContainerInv /\ RecreateInv => AssembledIsRecreated
  <2> SUFFICES ASSUME RecreateInv, HasOwnFile
               PROVE  MuxCreate(file) # NULL /\ Assembled(MuxCreate(file)).file = file
    BY DEF AssembledIsRecreated
  <2>1. PICK w : Kept(w) /\ file = FileOf(w)  BY DEF RecreateInv, HasOwnFile
  <2>2. MuxCreate(file) = Recreated(w)  BY <2>1, WrittenIsRecreated DEF Kept
  <2> QED BY <2>1, <2>2, CreatedIsRegular, RecreatedIsAssembled
<1> QED BY InitImpliesInv, NextKeepsInv, InitRecreates, NextRecreates, <1>1, PTL DEF Spec
=============================================================================
