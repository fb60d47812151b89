-------------------------- MODULE AnimEncoderProofs --------------------------
(***************************************************************************)
(* For all options and any frames and durations: the key frames of the      *)
(* output keep the distances that the options ask for, whether calls fail   *)
(* or not; and as long as no call fails, the frames that wait fit in the    *)
(* array, every canvas is shown as long as the timestamps say, and every    *)
(* sub-frame finds the canvas that was assumed when it was encoded.         *)
(***************************************************************************)
EXTENDS AnimEncoder, SequenceTheorems, FiniteSetTheorems, TLAPS

-----------------------------------------------------------------------------
(* The records of the model.  Of the encoder and of the muxer only the       *)
(* fields matter.                                                            *)

Disposal == {"NONE", "BACKGROUND"}
Rects == {"sub", "key", "other"}
Info == [duration : Nat, dispose : Disposal]
Frame == [canvas : 0 .. 1, isKey : BOOLEAN, sub : Info, key : Info,
          assumes : Disposal, rect : Rects, filler : BOOLEAN]

Encoder(e) ==
  /\ {"cached", "start", "flush", "keyframe", "known", "since", "undecided", "first",
      "gotNull", "rect", "canvas", "inFrames", "pushed", "overrun", "phase"}
       \subseteq DOMAIN e
  /\ e.cached \in Seq(Frame) /\ e.pushed \in Seq(Frame)
  /\ e.start \in Nat /\ e.flush \in Int /\ e.keyframe \in Int /\ e.since \in Nat
  /\ e.known \in BOOLEAN /\ e.undecided \in BOOLEAN /\ e.first \in BOOLEAN
  /\ e.gotNull \in BOOLEAN /\ e.overrun \in BOOLEAN
  /\ e.rect \in Rects /\ e.canvas \in 0 .. 1 /\ e.inFrames \in 0 .. 2
  /\ e.phase \in {"adding", "assembling", "closed"}

Muxer(m) ==
  /\ {"last", "gap", "split", "distances", "late"} \subseteq DOMAIN m
  /\ m.last \in Frame /\ m.gap \in Nat /\ m.split \in BOOLEAN
  /\ m.distances \subseteq Nat /\ m.late \in BOOLEAN

\* What SanitizeEncoderOptions leaves.
Sanitized(o) ==
  /\ o.kmin \in Int /\ o.kmax \in Nat
  /\ o.kmin < o.kmax \/ (o.kmin = 0 /\ o.kmax = 0)

LEMMA SanitizedOptions ==
  ASSUME NEW o \in Options PROVE Sanitized(SanitizeEncoderOptions(o))
<1>1. o \in [kmin : Int, kmax : Int]
  BY OptionsAssumption
<1>2. CASE o.kmax = 1
  BY <1>2 DEF SanitizeEncoderOptions, Sanitized
<1> DEFINE p == IF o.kmax <= 0 THEN NoKeyframes ELSE o
           q == RaiseKmin(p)
<1>3. CASE o.kmax # 1
  <2>1. p \in [kmin : Int, kmax : Int] /\ p.kmax > 1
    BY <1>1, <1>3 DEF NoKeyframes, INT_MAX
  <2> HIDE DEF p
  <2>2. q \in [kmin : Int, kmax : Int] /\ q.kmax = p.kmax /\ q.kmin < q.kmax
    BY <2>1 DEF RaiseKmin
  <2>3. SanitizeEncoderOptions(o) = LimitCache(q)
    BY <1>3 DEF SanitizeEncoderOptions, p
  <2> HIDE DEF q
  <2> QED
    BY <2>1, <2>2, <2>3 DEF LimitCache, MAX_CACHED_FRAMES, Sanitized
<1> QED
  BY <1>2, <1>3

-----------------------------------------------------------------------------
(* Induction on natural numbers, by the pigeonhole principle.                *)

LEMMA Induction ==
  ASSUME NEW S, 0 \in S, \A n \in Nat : n \in S => n + 1 \in S
  PROVE  Nat \subseteq S
<1> SUFFICES ASSUME NEW x \in Nat, x \notin S PROVE FALSE
  OBVIOUS
<1> DEFINE A == S \cap 0 .. x
           B == A \ {0}
           next == [n \in A |-> n + 1]
<1>1. IsFiniteSet(A)
  <2>1. IsFiniteSet(0 .. x)
    BY FS_Interval
  <2> QED
    BY <2>1, FS_Subset
<1>2. IsFiniteSet(B) /\ Cardinality(B) = Cardinality(A) - 1 /\ Cardinality(A) \in Nat
  <2>1. 0 \in A
    OBVIOUS
  <2> HIDE DEF A
  <2> QED
    BY <1>1, <2>1, FS_RemoveElement, FS_CardinalityType
<1>3. next \in [A -> B]
  <2> SUFFICES ASSUME NEW n \in A PROVE n + 1 \in B
    OBVIOUS
  <2> QED
    OBVIOUS
<1>4. ~ (\E a, b \in A : a # b /\ next[a] = next[b])
  OBVIOUS
<1> HIDE DEF A, B, next
<1> QED
  BY <1>1, <1>2, <1>3, <1>4, FS_PigeonHole

-----------------------------------------------------------------------------
(* What the muxer has after some frames.                                     *)

Muxed(m, frames) == FoldLeft(MuxFrame, m, frames)

LEMMA MaxOfPrefix ==
  ASSUME NEW n \in Nat, NEW s \in SUBSET (1 .. n), s # {}
  PROVE  /\ Max(s) \in s /\ \A x \in s : x <= Max(s)
         /\ n \in s => Max(s) = n
<1> DEFINE HasMax(t) == \E x \in t : \A y \in t : x >= y
           S == { k \in Nat : \A t \in SUBSET (1 .. k) : t # {} => HasMax(t) }
<1>1. 0 \in S
  <2>1. \A t \in SUBSET (1 .. 0) : t = {}
    OBVIOUS
  <2> QED
    BY <2>1
<1>2. ASSUME NEW k \in Nat, k \in S PROVE k + 1 \in S
  <2> SUFFICES ASSUME NEW t \in SUBSET (1 .. k + 1), t # {} PROVE HasMax(t)
    OBVIOUS
  <2>1. CASE k + 1 \in t
    BY <2>1
  <2>2. CASE k + 1 \notin t
    <3>1. t \in SUBSET (1 .. k)
      BY <2>2
    <3> QED
      BY <1>2, <3>1
  <2> QED
    BY <2>1, <2>2
<1> HIDE DEF S
<1>3. Nat \subseteq S
  BY <1>1, <1>2, Induction
<1>4. HasMax(s)
  BY <1>3 DEF S
<1>5. Max(s) \in s /\ \A x \in s : Max(s) >= x
  BY <1>4 DEF Max
<1>6. \A x \in s : x \in 1 .. n
  OBVIOUS
<1> HIDE DEF HasMax
<1>7. \A x \in s : x <= Max(s)
  BY <1>5, <1>6
<1>8. ASSUME n \in s PROVE Max(s) = n
  <2>1. Max(s) \in 1 .. n
    BY <1>5, <1>6
  <2>2. n <= Max(s)
    BY <1>7, <1>8
  <2> QED
    BY <2>1, <2>2
<1> QED
  BY <1>5, <1>7, <1>8

\* The recursive function of FoldLeft, and that it exists.
Folding(m, frames, n, it) ==
  [s \in SUBSET (1 .. n) |-> IF s = {} THEN m
                             ELSE MuxFrame(it[s \ {Max(s)}], frames[Max(s)])]

LEMMA FoldExists ==
  ASSUME NEW m, NEW frames, NEW n \in Nat
  PROVE  \E it : it = Folding(m, frames, n, it)
<1> DEFINE S == { k \in Nat : \E it : it = Folding(m, frames, k, it) }
<1>1. 0 \in S
  <2>1. [s \in SUBSET (1 .. 0) |-> m] = Folding(m, frames, 0,
                                       [s \in SUBSET (1 .. 0) |-> m])
    <3>1. \A s \in SUBSET (1 .. 0) : s = {}
      OBVIOUS
    <3> QED
      BY <3>1 DEF Folding
  <2> QED
    BY <2>1
<1>2. ASSUME NEW k \in Nat, k \in S PROVE k + 1 \in S
  <2>1. PICK it : it = Folding(m, frames, k, it)
    BY <1>2
  <2> DEFINE more == [s \in SUBSET (1 .. k + 1) |->
                        IF k + 1 \in s THEN MuxFrame(it[s \ {k + 1}], frames[k + 1])
                        ELSE it[s]]
  <2>2. ASSUME NEW s \in SUBSET (1 .. k + 1)
        PROVE  more[s] = IF s = {} THEN m
                         ELSE MuxFrame(more[s \ {Max(s)}], frames[Max(s)])
    <3>1. \A t \in SUBSET (1 .. k) :
            it[t] = IF t = {} THEN m ELSE MuxFrame(it[t \ {Max(t)}], frames[Max(t)])
      BY <2>1 DEF Folding
    <3>2. CASE k + 1 \in s
      <4>1. Max(s) = k + 1
        BY <3>2, MaxOfPrefix
      <4>2. s \ {k + 1} \in SUBSET (1 .. k)
        OBVIOUS
      <4>3. more[s \ {k + 1}] = it[s \ {k + 1}]
        BY <4>2
      <4> QED
        BY <3>2, <4>1, <4>3
    <3>3. CASE k + 1 \notin s
      <4>1. s \in SUBSET (1 .. k)
        BY <3>3
      <4>2. more[s] = it[s]
        BY <3>3
      <4>3. \A x : more[s \ {x}] = it[s \ {x}]
        BY <3>3
      <4> QED
        BY <3>1, <4>1, <4>2, <4>3
    <3> QED
      BY <3>2, <3>3
  <2>3. more = Folding(m, frames, k + 1, more)
    <3> HIDE DEF more
    <3>1. more = [s \in SUBSET (1 .. k + 1) |-> more[s]]
      BY DEF more
    <3> QED
      BY <2>2, <3>1 DEF Folding
  <2>4. \E f : f = Folding(m, frames, k + 1, f)
    <3> HIDE DEF more
    <3> QED
      BY <2>3
  <2> QED
    BY <2>4
<1> HIDE DEF S
<1>3. Nat \subseteq S
  BY <1>1, <1>2, Induction
<1> QED
  BY <1>3 DEF S

\* v[k]: what the muxer has after k of the frames.
Muxes(v, m, frames, n) ==
  v[0] = m /\ \A k \in 1 .. n : v[k] = MuxFrame(v[k - 1], frames[k])

LEMMA MuxedInSteps ==
  ASSUME NEW m, NEW frames, NEW n \in Nat, DOMAIN frames = 1 .. n
  PROVE  \E v : Muxes(v, m, frames, n) /\ Muxed(m, frames) = v[n]
<1> DEFINE it == CHOOSE it : it = Folding(m, frames, n, it)
           v == [k \in 0 .. n |-> it[1 .. k]]
<1>1. it = Folding(m, frames, n, it)
  BY FoldExists
<1>2. Muxed(m, frames) = it[1 .. n]
  BY DEF Muxed, FoldLeft, MapThenFoldSet, Folding
<1> HIDE DEF it
<1>3. \A s \in SUBSET (1 .. n) :
        it[s] = IF s = {} THEN m ELSE MuxFrame(it[s \ {Max(s)}], frames[Max(s)])
  BY <1>1 DEF Folding
<1>4. v[0] = m
  <2>1. 1 .. 0 = {} /\ {} \in SUBSET (1 .. n)
    OBVIOUS
  <2>2. v[0] = it[{}]
    BY <2>1
  <2> QED
    BY <1>3, <2>1, <2>2
<1>5. ASSUME NEW k \in 1 .. n PROVE v[k] = MuxFrame(v[k - 1], frames[k])
  <2>1. 1 .. k \in SUBSET (1 .. n) /\ 1 .. k # {} /\ k \in 1 .. k /\ k \in Nat
    OBVIOUS
  <2>2. Max(1 .. k) = k
    BY <2>1, MaxOfPrefix
  <2>3. (1 .. k) \ {k} = 1 .. k - 1
    OBVIOUS
  <2>4. v[k] = it[1 .. k] /\ v[k - 1] = it[1 .. k - 1]
    OBVIOUS
  <2> HIDE DEF v
  <2> QED
    BY <1>3, <2>1, <2>2, <2>3, <2>4
<1>6. Muxed(m, frames) = v[n]
  BY <1>2
<1> QED
  BY <1>4, <1>5, <1>6 DEF Muxes

LEMMA MuxesAgree ==
  ASSUME NEW m, NEW f, NEW g, NEW n \in Nat, \A k \in 1 .. n : f[k] = g[k],
         NEW v, NEW w, Muxes(v, m, f, n), Muxes(w, m, g, n)
  PROVE  v[n] = w[n]
<1> DEFINE S == { k \in Nat : k <= n => v[k] = w[k] }
<1>1. 0 \in S
  BY DEF Muxes
<1>2. ASSUME NEW k \in Nat, k \in S PROVE k + 1 \in S
  <2> SUFFICES ASSUME k + 1 <= n PROVE v[k + 1] = w[k + 1]
    OBVIOUS
  <2>1. v[k] = w[k] /\ k + 1 \in 1 .. n /\ (k + 1) - 1 = k
    BY <1>2
  <2> QED
    BY <2>1 DEF Muxes
<1> HIDE DEF S
<1>3. Nat \subseteq S
  BY <1>1, <1>2, Induction
<1> QED
  BY <1>3 DEF S

LEMMA MuxNothing == \A m : Muxed(m, << >>) = m
<1> TAKE m
<1>1. DOMAIN << >> = 1 .. 0
  OBVIOUS
<1>2. PICK v : Muxes(v, m, << >>, 0) /\ Muxed(m, << >>) = v[0]
  BY <1>1, MuxedInSteps
<1> QED
  BY <1>2 DEF Muxes

LEMMA MuxMore ==
  ASSUME NEW m, NEW S, NEW s \in Seq(S), NEW f \in S
  PROVE  Muxed(m, Append(s, f)) = MuxFrame(Muxed(m, s), f)
<1> DEFINE n == Len(s)
           t == Append(s, f)
<1>1. /\ n \in Nat /\ DOMAIN s = 1 .. n /\ DOMAIN t = 1 .. n + 1
      /\ t[n + 1] = f /\ \A k \in 1 .. n : t[k] = s[k]
  OBVIOUS
<1> HIDE DEF n, t
<1>2. PICK v : Muxes(v, m, s, n) /\ Muxed(m, s) = v[n]
  BY <1>1, MuxedInSteps
<1>3. PICK w : Muxes(w, m, t, n + 1) /\ Muxed(m, t) = w[n + 1]
  BY <1>1, MuxedInSteps
<1>4. Muxes(w, m, t, n)
  BY <1>1, <1>3 DEF Muxes
<1>5. v[n] = w[n]
  BY <1>1, <1>2, <1>4, MuxesAgree
<1>6. w[n + 1] = MuxFrame(w[n], f)
  BY <1>1, <1>3 DEF Muxes
<1> QED
  BY <1>2, <1>3, <1>5, <1>6 DEF t

-----------------------------------------------------------------------------
(* What some frames show.                                                    *)

Part(f) == [t \in 1 .. Chosen(f).duration |-> f.canvas]

\* v[k]: what k of the frames show.
Shows(v, frames, n) ==
  v[0] = << >> /\ \A k \in 1 .. n : v[k] = v[k - 1] \o Part(frames[k])

LEMMA PartIsSeq ==
  ASSUME NEW f \in Frame
  PROVE  /\ Part(f) \in Seq(0 .. 1)
         /\ Chosen(f).duration \in Nat /\ Len(Part(f)) = Chosen(f).duration
<1>1. Chosen(f).duration \in Nat /\ f.canvas \in 0 .. 1
  BY DEF Chosen, Frame, Info
<1> QED
  BY <1>1 DEF Part

\* The recursive function of FlattenSeq, and that it exists.
Flattening(seqs, n, v) ==
  [i \in 1 .. n |-> IF i = 1 THEN seqs[i] ELSE v[i - 1] \o seqs[i]]

LEMMA FlattenExists ==
  ASSUME NEW seqs, NEW n \in Nat
  PROVE  \E v : v = Flattening(seqs, n, v)
<1> DEFINE S == { k \in Nat : \E v : v = Flattening(seqs, k, v) }
<1>1. 0 \in S
  <2>1. << >> = Flattening(seqs, 0, << >>)
    BY DEF Flattening
  <2> QED
    BY <2>1
<1>2. ASSUME NEW k \in Nat, k \in S PROVE k + 1 \in S
  <2>1. PICK v : v = Flattening(seqs, k, v)
    BY <1>2
  <2> DEFINE more == [i \in 1 .. k + 1 |->
                        IF i <= k THEN v[i]
                        ELSE IF i = 1 THEN seqs[i] ELSE v[i - 1] \o seqs[i]]
  <2>2. ASSUME NEW i \in 1 .. k + 1
        PROVE  more[i] = IF i = 1 THEN seqs[i] ELSE more[i - 1] \o seqs[i]
    <3>1. \A l \in 1 .. k : v[l] = IF l = 1 THEN seqs[l] ELSE v[l - 1] \o seqs[l]
      BY <2>1 DEF Flattening
    <3>2. i # 1 => i - 1 \in 1 .. k /\ more[i - 1] = v[i - 1]
      OBVIOUS
    <3>3. i <= k => more[i] = v[i] /\ i \in 1 .. k
      OBVIOUS
    <3>4. ~ i <= k => more[i] = IF i = 1 THEN seqs[i] ELSE v[i - 1] \o seqs[i]
      OBVIOUS
    <3> HIDE DEF more
    <3> QED
      BY <3>1, <3>2, <3>3, <3>4
  <2>3. more = Flattening(seqs, k + 1, more)
    <3> HIDE DEF more
    <3>1. more = [i \in 1 .. k + 1 |-> more[i]]
      BY DEF more
    <3> QED
      BY <2>2, <3>1 DEF Flattening
  <2>4. \E f : f = Flattening(seqs, k + 1, f)
    <3> HIDE DEF more
    <3> QED
      BY <2>3
  <2> QED
    BY <2>4
<1> HIDE DEF S
<1>3. Nat \subseteq S
  BY <1>1, <1>2, Induction
<1> QED
  BY <1>3 DEF S

LEMMA ShownInSteps ==
  ASSUME NEW s \in Seq(Frame)
  PROVE  \E v : Shows(v, s, Len(s)) /\ Shown(s) = v[Len(s)]
<1> DEFINE n == Len(s)
           seqs == [i \in 1 .. n |-> Part(s[i])]
           f == CHOOSE f : f = Flattening(seqs, n, f)
           v == [k \in 0 .. n |-> IF k = 0 THEN << >> ELSE f[k]]
<1>1. n \in Nat /\ \A i \in 1 .. n : s[i] \in Frame
  OBVIOUS
<1>2. f = Flattening(seqs, n, f)
  BY <1>1, FlattenExists
<1>3. Shown(s) = IF n = 0 THEN seqs ELSE f[n]
  <2>1. Shown(s) = FlattenSeq(seqs)
    BY DEF Shown, Part
  <2>2. Len(seqs) = n
    BY <1>1
  <2> HIDE DEF seqs, n
  <2> QED
    BY <2>1, <2>2 DEF FlattenSeq, Flattening
<1> HIDE DEF f
<1>4. \A i \in 1 .. n : f[i] = IF i = 1 THEN seqs[i] ELSE f[i - 1] \o seqs[i]
  <2> HIDE DEF seqs, n
  <2> QED
    BY <1>2 DEF Flattening
<1>5. ASSUME NEW k \in 1 .. n PROVE v[k] = v[k - 1] \o Part(s[k])
  <2>1. seqs[k] = Part(s[k]) /\ Part(s[k]) \in Seq(0 .. 1)
    BY <1>1, PartIsSeq
  <2>2. v[k] = f[k] /\ k \in Nat
    BY <1>1
  <2>3. CASE k = 1
    <3>1. v[k - 1] = << >> /\ f[k] = seqs[k]
      BY <1>1, <1>4, <2>3
    <3>2. << >> \o Part(s[k]) = Part(s[k])
      BY <2>1
    <3> HIDE DEF v, seqs
    <3> QED
      BY <2>1, <2>2, <3>1, <3>2
  <2>4. CASE k # 1
    <3>1. v[k - 1] = f[k - 1]
      BY <1>1, <2>4
    <3>2. f[k] = f[k - 1] \o seqs[k]
      <4> HIDE DEF seqs
      <4> QED
        BY <1>4, <2>4
    <3> HIDE DEF v, seqs
    <3> QED
      BY <2>1, <2>2, <3>1, <3>2
  <2> QED
    BY <2>3, <2>4
<1>6. v[0] = << >>
  BY <1>1
<1>7. Shown(s) = v[n]
  <2>1. CASE n = 0
    <3>1. seqs = << >>
      BY <2>1
    <3> QED
      BY <1>3, <1>6, <2>1, <3>1
  <2>2. CASE n # 0
    BY <1>1, <1>3, <2>2
  <2> QED
    BY <2>1, <2>2
<1> HIDE DEF v
<1> QED
  BY <1>5, <1>6, <1>7 DEF Shows

\* The first n frames show the same.
SameParts(s, t, n) == \A k \in 1 .. n : Part(s[k]) = Part(t[k])

LEMMA ShowsAgree ==
  ASSUME NEW s, NEW t, NEW n \in Nat, SameParts(s, t, n),
         NEW v, NEW w, Shows(v, s, n), Shows(w, t, n)
  PROVE  v[n] = w[n]
<1> DEFINE S == { k \in Nat : k <= n => v[k] = w[k] }
<1>1. 0 \in S
  BY DEF Shows
<1>2. ASSUME NEW k \in Nat, k \in S PROVE k + 1 \in S
  <2> SUFFICES ASSUME k + 1 <= n PROVE v[k + 1] = w[k + 1]
    OBVIOUS
  <2>1. v[k] = w[k] /\ k + 1 \in 1 .. n /\ (k + 1) - 1 = k
    BY <1>2
  <2> QED
    BY <2>1 DEF Shows, SameParts
<1> HIDE DEF S
<1>3. Nat \subseteq S
  BY <1>1, <1>2, Induction
<1> QED
  BY <1>3 DEF S

LEMMA ShownSame ==
  ASSUME NEW s \in Seq(Frame), NEW t \in Seq(Frame), Len(s) = Len(t),
         \A k \in 1 .. Len(s) : Part(s[k]) = Part(t[k])
  PROVE  Shown(s) = Shown(t)
<1> DEFINE n == Len(s)
<1>1. PICK v : Shows(v, s, n) /\ Shown(s) = v[n]
  BY ShownInSteps
<1>2. PICK w : Shows(w, t, n) /\ Shown(t) = w[n]
  <2>1. PICK x : Shows(x, t, Len(t)) /\ Shown(t) = x[Len(t)]
    BY ShownInSteps
  <2> QED
    BY <2>1
<1>3. n \in Nat /\ SameParts(s, t, n)
  BY DEF SameParts
<1> HIDE DEF n
<1>4. v[n] = w[n]
  BY <1>1, <1>2, <1>3, ShowsAgree
<1> QED
  BY <1>1, <1>2, <1>4

LEMMA ShownNothing == Shown(<< >>) = << >>
<1>1. << >> \in Seq(Frame) /\ Len(<< >>) = 0
  OBVIOUS
<1>2. PICK v : Shows(v, << >>, 0) /\ Shown(<< >>) = v[0]
  BY <1>1, ShownInSteps
<1> QED
  BY <1>2 DEF Shows

LEMMA ShownMore ==
  ASSUME NEW s \in Seq(Frame), NEW f \in Frame
  PROVE  Shown(Append(s, f)) = Shown(s) \o Part(f)
<1> DEFINE n == Len(s)
           t == Append(s, f)
<1>1. /\ n \in Nat /\ t \in Seq(Frame) /\ Len(t) = n + 1
      /\ t[n + 1] = f /\ \A k \in 1 .. n : t[k] = s[k]
  OBVIOUS
<1> HIDE DEF n, t
<1>2. PICK v : Shows(v, s, n) /\ Shown(s) = v[n]
  BY <1>1, ShownInSteps DEF n
<1>3. PICK w : Shows(w, t, n + 1) /\ Shown(t) = w[n + 1]
  BY <1>1, ShownInSteps
<1>4. Shows(w, t, n)
  <2>1. \A k \in 1 .. n : k \in 1 .. n + 1
    BY <1>1
  <2> QED
    BY <1>3, <2>1 DEF Shows
<1>5. v[n] = w[n]
  <2>1. SameParts(s, t, n)
    BY <1>1 DEF SameParts
  <2> QED
    BY <1>1, <1>2, <1>4, <2>1, ShowsAgree
<1>6. w[n + 1] = w[n] \o Part(f)
  <2>1. n + 1 \in 1 .. n + 1 /\ (n + 1) - 1 = n
    BY <1>1
  <2>2. w[n + 1] = w[(n + 1) - 1] \o Part(t[n + 1])
    BY <1>3, <2>1 DEF Shows
  <2> QED
    BY <1>1, <2>1, <2>2
<1> QED
  BY <1>2, <1>3, <1>5, <1>6 DEF t

LEMMA ShownIsSeq == \A s \in Seq(Frame) : Shown(s) \in Seq(0 .. 1)
<1> DEFINE S == { n \in Nat : \A s \in Seq(Frame) : Len(s) = n => Shown(s) \in Seq(0 .. 1) }
<1>1. 0 \in S
  <2>1. \A s \in Seq(Frame) : Len(s) = 0 => s = << >>
    BY EmptySeq
  <2> QED
    BY <2>1, ShownNothing
<1>2. ASSUME NEW n \in Nat, n \in S PROVE n + 1 \in S
  <2> SUFFICES ASSUME NEW s \in Seq(Frame), Len(s) = n + 1 PROVE Shown(s) \in Seq(0 .. 1)
    OBVIOUS
  <2>1. PICK t \in Seq(Frame), f \in Frame : s = Append(t, f)
    <3>1. s # << >>
      OBVIOUS
    <3> QED
      BY <3>1, SequenceEmptyOrAppend
  <2>2. Len(t) = n
    BY <2>1
  <2>3. Shown(t) \in Seq(0 .. 1)
    BY <1>2, <2>2
  <2>4. Part(f) \in Seq(0 .. 1)
    BY PartIsSeq
  <2>5. Shown(s) = Shown(t) \o Part(f)
    BY <2>1, ShownMore
  <2> QED
    BY <2>3, <2>4, <2>5
<1> HIDE DEF S
<1>3. Nat \subseteq S
  BY <1>1, <1>2, Induction
<1> QED
  BY <1>3 DEF S

LEMMA ShownConcat ==
  \A s, t \in Seq(Frame) : Shown(s \o t) = Shown(s) \o Shown(t)
<1> SUFFICES ASSUME NEW s \in Seq(Frame)
             PROVE  \A t \in Seq(Frame) : Shown(s \o t) = Shown(s) \o Shown(t)
  OBVIOUS
<1> DEFINE S == { n \in Nat : \A t \in Seq(Frame) :
                    Len(t) = n => Shown(s \o t) = Shown(s) \o Shown(t) }
<1>1. 0 \in S
  <2>1. ASSUME NEW t \in Seq(Frame), Len(t) = 0
        PROVE  Shown(s \o t) = Shown(s) \o Shown(t)
    <3>1. t = << >> /\ s \o << >> = s
      BY <2>1, EmptySeq, ConcatEmptySeq
    <3>2. Shown(s) \o << >> = Shown(s)
      BY ShownIsSeq, ConcatEmptySeq
    <3> QED
      BY <3>1, <3>2, ShownNothing
  <2> QED
    BY <2>1
<1>2. ASSUME NEW n \in Nat, n \in S PROVE n + 1 \in S
  <2> SUFFICES ASSUME NEW u \in Seq(Frame), Len(u) = n + 1
               PROVE  Shown(s \o u) = Shown(s) \o Shown(u)
    OBVIOUS
  <2>1. PICK t \in Seq(Frame), f \in Frame : u = Append(t, f)
    <3>1. u # << >>
      OBVIOUS
    <3> QED
      BY <3>1, SequenceEmptyOrAppend
  <2>2. Len(t) = n
    BY <2>1
  <2>3. Shown(s \o t) = Shown(s) \o Shown(t)
    BY <1>2, <2>2
  <2>4. s \o u = Append(s \o t, f) /\ s \o t \in Seq(Frame)
    BY <2>1
  <2>5. Shown(s \o u) = (Shown(s) \o Shown(t)) \o Part(f)
    BY <2>3, <2>4, ShownMore
  <2>6. Shown(u) = Shown(t) \o Part(f)
    BY <2>1, ShownMore
  <2>7. /\ Shown(s) \in Seq(0 .. 1) /\ Shown(t) \in Seq(0 .. 1)
        /\ Part(f) \in Seq(0 .. 1)
    BY ShownIsSeq, PartIsSeq
  <2>8. (Shown(s) \o Shown(t)) \o Part(f) = Shown(s) \o (Shown(t) \o Part(f))
    BY <2>7, ConcatAssociative
  <2> QED
    BY <2>5, <2>6, <2>8
<1> HIDE DEF S
<1>3. Nat \subseteq S
  BY <1>1, <1>2, Induction
<1> QED
  BY <1>3 DEF S

-----------------------------------------------------------------------------
(* What the operations do to the fields of a frame and of the encoder.       *)

LEMMA LongerFields ==
  ASSUME NEW f \in Frame, NEW d \in Nat
  PROVE  /\ Longer(f, d) \in Frame
         /\ Longer(f, d).isKey = f.isKey /\ Longer(f, d).filler = f.filler
         /\ Longer(f, d).canvas = f.canvas
         /\ Longer(f, d).assumes = f.assumes /\ Longer(f, d).rect = f.rect
         /\ Longer(f, d).sub.duration = f.sub.duration + d
         /\ Longer(f, d).key.duration = f.sub.duration + d
         /\ Longer(f, d).sub.dispose = f.sub.dispose
         /\ Longer(f, d).key.dispose = f.key.dispose
<1>1. f.sub \in Info /\ f.key \in Info
  BY DEF Frame
<1> DEFINE sub == [f.sub EXCEPT !.duration = f.sub.duration + d]
           key == [f.key EXCEPT !.duration = f.sub.duration + d]
           g == [f EXCEPT !.sub = sub]
<1>2. /\ sub \in Info /\ sub.duration = f.sub.duration + d
      /\ sub.dispose = f.sub.dispose
  BY <1>1 DEF Info
<1>3. /\ key \in Info /\ key.duration = f.sub.duration + d
      /\ key.dispose = f.key.dispose
  BY <1>1 DEF Info
<1>4. Longer(f, d) = [f EXCEPT !.sub = sub, !.key = key]
  BY DEF Longer, Frame
<1> HIDE DEF sub, key
<1>5. g \in Frame
  BY <1>2 DEF Frame
<1>6. [f EXCEPT !.sub = sub, !.key = key] = [g EXCEPT !.key = key]
  BY DEF Frame
<1>7. [g EXCEPT !.key = key] \in Frame
  <2> HIDE DEF g
  <2> QED
    BY <1>3, <1>5 DEF Frame
<1>8. Longer(f, d) \in Frame
  BY <1>4, <1>6, <1>7
<1> QED
  BY <1>2, <1>3, <1>4, <1>8 DEF Frame

\* What NewFrame makes.
IsNew(f, c, dispose, rect) ==
  /\ f \in Frame /\ f.isKey = FALSE /\ f.filler = FALSE /\ f.canvas = c
  /\ f.assumes = dispose /\ f.rect = rect /\ f.sub = NewInfo /\ f.key = NewInfo

LEMMA NewFrameFields ==
  ASSUME NEW c \in 0 .. 1, NEW dispose \in Disposal, NEW rect \in Rects
  PROVE  IsNew(NewFrame(c, dispose, rect), c, dispose, rect)
BY DEF IsNew, NewFrame, NewInfo, Frame, Info, Disposal

\* Everything of the encoder but the cached frames and its fate is the same.
SameState(p, e) ==
  /\ p.start = e.start /\ p.flush = e.flush /\ p.keyframe = e.keyframe
  /\ p.known = e.known /\ p.since = e.since /\ p.undecided = e.undecided
  /\ p.first = e.first /\ p.gotNull = e.gotNull /\ p.rect = e.rect
  /\ p.canvas = e.canvas /\ p.inFrames = e.inFrames /\ p.pushed = e.pushed
  /\ p.phase = e.phase

LEMMA OverrunFields ==
  ASSUME NEW e, Encoder(e)
  PROVE  /\ Encoder(Overrun(e)) /\ Overrun(e).overrun
         /\ SameState(Overrun(e), e) /\ Overrun(e).cached = e.cached
BY DEF Encoder, Overrun, SameState

LEMMA LongerLast ==
  ASSUME NEW e, Encoder(e), Len(e.cached) > 0, NEW d \in Nat
  PROVE  LET n == Len(e.cached)
             p == [e EXCEPT !.cached[n] = Longer(e.cached[n], d)]
         IN  /\ Encoder(p) /\ SameState(p, e) /\ p.overrun = e.overrun
             /\ p.cached = [e.cached EXCEPT ![n] = Longer(e.cached[n], d)]
<1> DEFINE n == Len(e.cached)
           g == Longer(e.cached[n], d)
<1>1. e.cached \in Seq(Frame) /\ n \in 1 .. Len(e.cached)
  BY DEF Encoder
<1>2. e.cached[n] \in Frame
  BY <1>1
<1>3. g \in Frame
  BY <1>2, LongerFields
<1> HIDE DEF g, n
<1>4. [e.cached EXCEPT ![n] = g] \in Seq(Frame)
  BY <1>1, <1>3, ExceptSeq
<1> DEFINE p == [e EXCEPT !.cached[n] = g]
<1>5. p.cached = [e.cached EXCEPT ![n] = g] /\ SameState(p, e)
      /\ p.overrun = e.overrun /\ DOMAIN p = DOMAIN e
  BY DEF Encoder, SameState
<1>6. Encoder(p)
  <2> HIDE DEF p
  <2> QED
    BY <1>4, <1>5 DEF Encoder, SameState
<1> QED
  BY <1>5, <1>6 DEF g, n

\* The frame that AddFiller adds.
Filler(e, d) == [NewFrame(e.canvas, "NONE", "sub") EXCEPT !.filler = TRUE,
                                                          !.sub.duration = d]

IsFiller(f, e, d) ==
  /\ f \in Frame /\ f.isKey = FALSE /\ f.filler = TRUE /\ f.canvas = e.canvas
  /\ f.assumes = "NONE" /\ f.rect = "sub"
  /\ f.sub.duration = d /\ f.sub.dispose = "NONE" /\ f.key.dispose = "NONE"

LEMMA FillerFrame ==
  ASSUME NEW e, Encoder(e), NEW d \in Nat
  PROVE  IsFiller(Filler(e, d), e, d)
<1> DEFINE g == NewFrame(e.canvas, "NONE", "sub")
           f == [g EXCEPT !.filler = TRUE, !.sub.duration = d]
<1>1. /\ g \in Frame /\ g.isKey = FALSE /\ g.canvas = e.canvas /\ g.assumes = "NONE"
      /\ g.rect = "sub" /\ g.sub = NewInfo /\ g.key = NewInfo
  <2>1. IsNew(g, e.canvas, "NONE", "sub")
    BY NewFrameFields DEF Encoder, Disposal, Rects
  <2> QED
    BY <2>1 DEF IsNew
<1> HIDE DEF g
<1>2. /\ f.isKey = FALSE /\ f.filler = TRUE /\ f.canvas = e.canvas
      /\ f.assumes = "NONE" /\ f.rect = "sub"
      /\ f.sub.duration = d /\ f.sub.dispose = "NONE" /\ f.key.dispose = "NONE"
  BY <1>1 DEF Frame, Info, NewInfo
<1> DEFINE h == [g EXCEPT !.filler = TRUE]
<1>3. h \in Frame /\ f = [h EXCEPT !.sub.duration = d]
  BY <1>1 DEF Frame
<1> HIDE DEF h, f
<1>4. [h EXCEPT !.sub.duration = d] \in Frame
  BY <1>3 DEF Frame, Info
<1>5. f = Filler(e, d)
  BY DEF Filler, f, g
<1> QED
  BY <1>2, <1>3, <1>4, <1>5 DEF IsFiller

\* The encoder e with a filler added.
Filled(p, e, d) ==
  /\ Encoder(p) /\ p.cached = Append(e.cached, Filler(e, d))
  /\ p.since = e.since + 1 /\ p.flush = Len(e.cached)
  /\ p.undecided = FALSE /\ p.rect = "sub"
  /\ p.start = e.start /\ p.keyframe = e.keyframe /\ p.known = e.known
  /\ p.first = e.first /\ p.gotNull = e.gotNull /\ p.canvas = e.canvas
  /\ p.inFrames = e.inFrames /\ p.pushed = e.pushed
  /\ p.overrun = e.overrun /\ p.phase = e.phase

LEMMA FillerFields ==
  ASSUME NEW e, Encoder(e), NEW d \in Nat
  PROVE  Filled(AddFiller(e, d), e, d)
<1>1. AddFiller(e, d) = [e EXCEPT !.cached = Append(e.cached, Filler(e, d)),
                                  !.since = e.since + 1, !.flush = Len(e.cached),
                                  !.undecided = FALSE, !.rect = "sub"]
  BY DEF AddFiller, Filler
<1>2. /\ Append(e.cached, Filler(e, d)) \in Seq(Frame) /\ Len(e.cached) \in Int
      /\ e.since + 1 \in Nat
  <2>1. Filler(e, d) \in Frame
    BY FillerFrame DEF IsFiller
  <2> QED
    BY <2>1 DEF Encoder
<1> QED
  BY <1>1, <1>2 DEF Encoder, Rects, Filled

\* The encoder e once its first k frames have gone to the muxer.
Pushes(p, e, k) ==
  /\ Encoder(p)
  /\ p.cached = SubSeq(e.cached, k + 1, Len(e.cached))
  /\ Len(p.cached) = Len(e.cached) - k
  /\ \A i \in 1 .. Len(e.cached) - k : p.cached[i] = e.cached[i + k]
  /\ p.pushed = e.pushed \o SubSeq(e.cached, 1, k)
  /\ p.start = e.start + k /\ p.flush = e.flush - k
  /\ p.keyframe = KeyframeAfter(e, k)
  /\ p.known = e.known /\ p.since = e.since /\ p.undecided = e.undecided
  /\ p.first = e.first /\ p.gotNull = e.gotNull /\ p.rect = e.rect
  /\ p.canvas = e.canvas /\ p.inFrames = e.inFrames
  /\ p.overrun = e.overrun /\ p.phase = e.phase

LEMMA PushFields ==
  ASSUME NEW e, Encoder(e), NEW k \in 0 .. Len(e.cached)
  PROVE  Pushes(PushFrames(e, k), e, k)
<1>1. /\ e.cached \in Seq(Frame) /\ e.pushed \in Seq(Frame) /\ e.start \in Nat
      /\ e.flush \in Int /\ e.keyframe \in Int
  BY DEF Encoder
<1>2. KeyframeAfter(e, k) \in Int
  BY <1>1 DEF KeyframeAfter, KEYFRAME_NONE
<1> DEFINE s == SubSeq(e.cached, k + 1, Len(e.cached))
<1>3. /\ s \in Seq(Frame) /\ e.pushed \o SubSeq(e.cached, 1, k) \in Seq(Frame)
      /\ Len(s) = Len(e.cached) - k
      /\ \A i \in 1 .. Len(e.cached) - k : s[i] = e.cached[i + k]
  BY <1>1
<1>4. PushFrames(e, k).cached = s
  BY DEF PushFrames, Encoder
<1>5. Encoder(PushFrames(e, k))
  BY <1>1, <1>2, <1>3 DEF PushFrames, Encoder
<1> HIDE DEF s
<1>6. /\ Len(PushFrames(e, k).cached) = Len(e.cached) - k
      /\ \A i \in 1 .. Len(e.cached) - k : PushFrames(e, k).cached[i] = e.cached[i + k]
  BY <1>3, <1>4
<1> QED
  BY <1>1, <1>2, <1>3, <1>4, <1>5, <1>6 DEF PushFrames, Encoder, s, Pushes

LEMMA FlushFields ==
  ASSUME NEW e, Encoder(e), e.flush \in 0 .. Len(e.cached)
  PROVE  LET p == PushFrames(e, e.flush)
             q == FlushFrames(e)
         IN  /\ Encoder(q) /\ q.cached = p.cached /\ q.pushed = p.pushed
             /\ q.start = IF Len(p.cached) = 1 THEN 0 ELSE p.start
             /\ q.flush = p.flush /\ q.keyframe = p.keyframe
             /\ q.known = p.known /\ q.since = p.since /\ q.undecided = p.undecided
             /\ q.first = p.first /\ q.gotNull = p.gotNull /\ q.rect = p.rect
             /\ q.canvas = p.canvas /\ q.inFrames = p.inFrames
             /\ q.overrun = p.overrun /\ q.phase = p.phase
<1> DEFINE p == PushFrames(e, e.flush)
<1>1. Encoder(p)
  BY PushFields DEF Pushes
<1>2. FlushFrames(e) = IF Len(p.cached) = 1 THEN [p EXCEPT !.start = 0] ELSE p
  BY DEF FlushFrames
<1> HIDE DEF p
<1> QED
  BY <1>1, <1>2 DEF Encoder, p

\* f is g with another disposal.
Redisposed(f, g) ==
  /\ f \in Frame /\ f.isKey = g.isKey /\ f.filler = g.filler /\ f.canvas = g.canvas
  /\ f.assumes = g.assumes /\ f.rect = g.rect
  /\ f.sub.duration = g.sub.duration /\ f.key.duration = g.key.duration

LEMMA RedisposedFrame ==
  ASSUME NEW g \in Frame, NEW dispose \in Disposal
  PROVE  LET sub  == [g EXCEPT !.sub.dispose = dispose]
             key  == [g EXCEPT !.key.dispose = dispose]
             both == [g EXCEPT !.sub.dispose = dispose, !.key.dispose = dispose]
         IN  /\ Redisposed(sub, g) /\ sub.sub.dispose = dispose
             /\ Redisposed(key, g) /\ key.key.dispose = dispose
             /\ Redisposed(both, g) /\ both.sub.dispose = dispose
             /\ both.key.dispose = dispose
<1> DEFINE s == [g.sub EXCEPT !.dispose = dispose]
           k == [g.key EXCEPT !.dispose = dispose]
<1>1. s \in Info /\ s.dispose = dispose /\ s.duration = g.sub.duration
  BY DEF Frame, Info
<1>2. k \in Info /\ k.dispose = dispose /\ k.duration = g.key.duration
  BY DEF Frame, Info
<1>3. /\ [g EXCEPT !.sub.dispose = dispose] = [g EXCEPT !.sub = s]
      /\ [g EXCEPT !.key.dispose = dispose] = [g EXCEPT !.key = k]
      /\ [g EXCEPT !.sub.dispose = dispose, !.key.dispose = dispose]
           = [[g EXCEPT !.sub = s] EXCEPT !.key = k]
  BY DEF Frame
<1> HIDE DEF s, k
<1>4. [g EXCEPT !.sub = s] \in Frame /\ [g EXCEPT !.key = k] \in Frame
  BY <1>1, <1>2 DEF Frame
<1> DEFINE h == [g EXCEPT !.sub = s]
<1>5. [h EXCEPT !.key = k] \in Frame
  <2>1. h \in Frame
    BY <1>4
  <2> HIDE DEF h
  <2> QED
    BY <1>2, <2>1 DEF Frame
<1>6. /\ Redisposed([g EXCEPT !.sub = s], g) /\ [g EXCEPT !.sub = s].sub = s
      /\ Redisposed([g EXCEPT !.key = k], g) /\ [g EXCEPT !.key = k].key = k
  BY <1>1, <1>2, <1>4 DEF Redisposed, Frame
<1>7. /\ Redisposed([h EXCEPT !.key = k], g)
      /\ [h EXCEPT !.key = k].sub = s /\ [h EXCEPT !.key = k].key = k
  BY <1>1, <1>2, <1>5 DEF Redisposed, Frame
<1> QED
  BY <1>1, <1>2, <1>3, <1>6, <1>7

LEMMA SetPreviousFields ==
  ASSUME NEW e, Encoder(e), Len(e.cached) > 0, NEW dispose \in Disposal
  PROVE  LET n == Len(e.cached)
             p == SetPreviousDisposeMethod(e, dispose)
         IN  /\ Encoder(p) /\ SameState(p, e) /\ p.overrun = e.overrun
             /\ p.cached \in Seq(Frame) /\ Len(p.cached) = n
             /\ \A i \in 1 .. n - 1 : p.cached[i] = e.cached[i]
             /\ Redisposed(p.cached[n], e.cached[n])
             /\ Chosen(p.cached[n]).dispose = dispose
             /\ e.undecided => /\ p.cached[n].sub.dispose = dispose
                               /\ p.cached[n].key.dispose = dispose
<1> DEFINE n == Len(e.cached)
           g == e.cached[n]
           f == IF e.undecided
                  THEN [g EXCEPT !.sub.dispose = dispose, !.key.dispose = dispose]
                ELSE IF g.isKey THEN [g EXCEPT !.key.dispose = dispose]
                ELSE [g EXCEPT !.sub.dispose = dispose]
           p == SetPreviousDisposeMethod(e, dispose)
<1>1. e.cached \in Seq(Frame) /\ n \in 1 .. Len(e.cached) /\ g \in Frame
  BY DEF Encoder
<1>2. /\ Redisposed(f, g) /\ Chosen(f).dispose = dispose
      /\ e.undecided => f.sub.dispose = dispose /\ f.key.dispose = dispose
  <2> HIDE DEF g, n
  <2> DEFINE sub  == [g EXCEPT !.sub.dispose = dispose]
             key  == [g EXCEPT !.key.dispose = dispose]
             both == [g EXCEPT !.sub.dispose = dispose, !.key.dispose = dispose]
  <2>1. /\ Redisposed(sub, g) /\ sub.sub.dispose = dispose
        /\ Redisposed(key, g) /\ key.key.dispose = dispose
        /\ Redisposed(both, g) /\ both.sub.dispose = dispose
        /\ both.key.dispose = dispose
    BY <1>1, RedisposedFrame
  <2>2. f = IF e.undecided THEN both ELSE IF g.isKey THEN key ELSE sub
    OBVIOUS
  <2> HIDE DEF sub, key, both, f
  <2> QED
    BY <2>1, <2>2 DEF Redisposed, Chosen
<1>3. p.cached = [e.cached EXCEPT ![n] = f] /\ SameState(p, e) /\ p.overrun = e.overrun
      /\ DOMAIN p = DOMAIN e
  BY <1>1 DEF SetPreviousDisposeMethod, Encoder, SameState
<1>4. f \in Frame
  BY <1>2 DEF Redisposed
<1> HIDE DEF f, g
<1>5. /\ p.cached \in Seq(Frame) /\ Len(p.cached) = n /\ p.cached[n] = f
      /\ \A i \in 1 .. n - 1 : p.cached[i] = e.cached[i]
  <2> HIDE DEF p
  <2> QED
    BY <1>1, <1>3, <1>4, ExceptSeq
<1>6. Encoder(p)
  <2> HIDE DEF p
  <2> QED
    BY <1>3, <1>5 DEF Encoder, SameState
<1> HIDE DEF p
<1> QED
  BY <1>2, <1>3, <1>5, <1>6 DEF p, g

\* CacheSubFrame: the last frame gets its disposal, and a frame follows.
LEMMA SubFrameFields ==
  ASSUME NEW e, Encoder(e), Len(e.cached) > 0, NEW c \in 0 .. 1, NEW dispose \in Disposal
  PROVE  LET n == Len(e.cached)
             p == CacheSubFrame(e, c, dispose)
         IN  /\ Encoder(p) /\ Len(p.cached) = n + 1
             /\ \A i \in 1 .. n - 1 : p.cached[i] = e.cached[i]
             /\ Redisposed(p.cached[n], e.cached[n])
             /\ Chosen(p.cached[n]).dispose = dispose
             /\ e.undecided => /\ p.cached[n].sub.dispose = dispose
                               /\ p.cached[n].key.dispose = dispose
             /\ p.cached[n + 1] = NewFrame(c, dispose, e.rect)
             /\ p.since = e.since + 1 /\ p.rect = "sub"
             /\ p.start = e.start /\ p.flush = e.flush /\ p.keyframe = e.keyframe
             /\ p.known = e.known /\ p.undecided = e.undecided /\ p.first = e.first
             /\ p.gotNull = e.gotNull /\ p.canvas = e.canvas
             /\ p.inFrames = e.inFrames /\ p.pushed = e.pushed
             /\ p.overrun = e.overrun /\ p.phase = e.phase
<1> DEFINE n == Len(e.cached)
           q == SetPreviousDisposeMethod(e, dispose)
           f == NewFrame(c, dispose, e.rect)
           p == CacheSubFrame(e, c, dispose)
<1>1. /\ Encoder(q) /\ SameState(q, e) /\ q.overrun = e.overrun
      /\ q.cached \in Seq(Frame) /\ Len(q.cached) = n
      /\ \A i \in 1 .. n - 1 : q.cached[i] = e.cached[i]
      /\ Redisposed(q.cached[n], e.cached[n])
      /\ Chosen(q.cached[n]).dispose = dispose
      /\ e.undecided => /\ q.cached[n].sub.dispose = dispose
                        /\ q.cached[n].key.dispose = dispose
  BY SetPreviousFields
<1>2. f \in Frame
  <2>1. IsNew(f, c, dispose, e.rect)
    BY NewFrameFields DEF Encoder
  <2> QED
    BY <2>1 DEF IsNew
<1>3. p = [q EXCEPT !.cached = Append(q.cached, f), !.since = e.since + 1, !.rect = "sub"]
  BY DEF CacheSubFrame
<1>4. e.cached \in Seq(Frame) /\ n \in Nat /\ n > 0
  BY DEF Encoder
<1> HIDE DEF q, f, p, n
<1>5. Append(q.cached, f) \in Seq(Frame) /\ e.since + 1 \in Nat
  BY <1>1, <1>2 DEF Encoder
<1>6. /\ Len(Append(q.cached, f)) = n + 1 /\ Append(q.cached, f)[n + 1] = f
      /\ \A i \in 1 .. n : Append(q.cached, f)[i] = q.cached[i]
  BY <1>1, <1>2, <1>4
<1>7. Encoder(p)
  BY <1>1, <1>3, <1>5 DEF Encoder, Rects
<1>8. /\ p.cached = Append(q.cached, f) /\ p.since = e.since + 1 /\ p.rect = "sub"
      /\ p.start = e.start /\ p.flush = e.flush /\ p.keyframe = e.keyframe
      /\ p.known = e.known /\ p.undecided = e.undecided /\ p.first = e.first
      /\ p.gotNull = e.gotNull /\ p.canvas = e.canvas
      /\ p.inFrames = e.inFrames /\ p.pushed = e.pushed
      /\ p.overrun = e.overrun /\ p.phase = e.phase
  BY <1>1, <1>3 DEF Encoder, SameState
<1>9. /\ Len(p.cached) = n + 1 /\ p.cached[n + 1] = f /\ p.cached[n] = q.cached[n]
      /\ \A i \in 1 .. n - 1 : p.cached[i] = e.cached[i]
  BY <1>1, <1>4, <1>6, <1>8
<1> QED
  BY <1>1, <1>7, <1>8, <1>9 DEF p, f, n

\* The frame that CacheFirstFrame caches.
FirstFrame(c) == [NewFrame(c, "NONE", "sub") EXCEPT !.isKey = TRUE]

IsFirst(p, f, e, c) ==
  /\ f \in Frame /\ f.isKey = TRUE /\ f.filler = FALSE /\ f.canvas = c
  /\ f.sub = NewInfo /\ f.key = NewInfo
  /\ Encoder(p) /\ p.cached = << f >>
  /\ p.flush = 0 /\ p.since = 0 /\ p.undecided = FALSE /\ p.rect = "key"
  /\ p.start = e.start /\ p.keyframe = e.keyframe /\ p.known = e.known
  /\ p.first = e.first /\ p.gotNull = e.gotNull /\ p.canvas = e.canvas
  /\ p.inFrames = e.inFrames /\ p.pushed = e.pushed
  /\ p.overrun = e.overrun /\ p.phase = e.phase

LEMMA FirstFrameFields ==
  ASSUME NEW e, Encoder(e), NEW c \in 0 .. 1
  PROVE  IsFirst(CacheFirstFrame(e, c), FirstFrame(c), e, c)
<1> DEFINE g == NewFrame(c, "NONE", "sub")
           f == FirstFrame(c)
           p == CacheFirstFrame(e, c)
<1>1. /\ g \in Frame /\ g.filler = FALSE /\ g.canvas = c /\ g.sub = NewInfo
      /\ g.key = NewInfo
  <2>1. "NONE" \in Disposal /\ "sub" \in Rects
    BY DEF Disposal, Rects
  <2>2. IsNew(g, c, "NONE", "sub")
    BY <2>1, NewFrameFields
  <2> QED
    BY <2>2 DEF IsNew
<1>2. /\ f \in Frame /\ f.isKey = TRUE /\ f.filler = FALSE /\ f.canvas = c
      /\ f.sub = NewInfo /\ f.key = NewInfo
  <2> HIDE DEF g
  <2>1. f = [g EXCEPT !.isKey = TRUE]
    BY DEF FirstFrame, g
  <2> HIDE DEF f
  <2> QED
    BY <1>1, <2>1 DEF Frame
<1>3. p = [e EXCEPT !.cached = << f >>, !.flush = 0, !.since = 0, !.undecided = FALSE,
                    !.rect = "key"]
  BY DEF CacheFirstFrame, FirstFrame
<1> HIDE DEF f, p
<1>4. << f >> \in Seq(Frame)
  BY <1>2
<1>5. Encoder(p)
  BY <1>3, <1>4 DEF Encoder, Rects
<1>6. /\ p.cached = << f >> /\ p.flush = 0 /\ p.since = 0 /\ p.undecided = FALSE
      /\ p.rect = "key"
      /\ p.start = e.start /\ p.keyframe = e.keyframe /\ p.known = e.known
      /\ p.first = e.first /\ p.gotNull = e.gotNull /\ p.canvas = e.canvas
      /\ p.inFrames = e.inFrames /\ p.pushed = e.pushed
      /\ p.overrun = e.overrun /\ p.phase = e.phase
  BY <1>3 DEF Encoder
<1> QED
  BY <1>2, <1>5, <1>6 DEF IsFirst, p, f

\* f is g, chosen as key frame or not.
Rechosen(f, g, isKey) ==
  /\ f \in Frame /\ f.isKey = isKey /\ f.filler = g.filler /\ f.canvas = g.canvas
  /\ f.assumes = g.assumes /\ f.rect = g.rect /\ f.sub = g.sub /\ f.key = g.key

LEMMA RechosenFrame ==
  ASSUME NEW g \in Frame, NEW isKey \in BOOLEAN
  PROVE  Rechosen([g EXCEPT !.isKey = isKey], g, isKey)
BY DEF Rechosen, Frame

\* PickKeyFrame: the last frame is the candidate instead of the one before.
LEMMA PickFields ==
  ASSUME NEW e, Encoder(e), e.keyframe \in -1 .. Len(e.cached) - 2
  PROVE  LET n == Len(e.cached)
             p == PickKeyFrame(e)
         IN  /\ Encoder(p) /\ Len(p.cached) = n
             /\ \A i \in 1 .. n - 1 : i # e.keyframe + 1 => p.cached[i] = e.cached[i]
             /\ e.keyframe # -1 => Rechosen(p.cached[e.keyframe + 1],
                                            e.cached[e.keyframe + 1], FALSE)
             /\ Rechosen(p.cached[n], e.cached[n], TRUE)
             /\ p.undecided = TRUE /\ p.keyframe = n - 1 /\ p.known = TRUE
             /\ p.flush = n - 1 /\ p.rect = "key"
             /\ p.since = e.since /\ p.start = e.start /\ p.first = e.first
             /\ p.gotNull = e.gotNull /\ p.canvas = e.canvas
             /\ p.inFrames = e.inFrames /\ p.pushed = e.pushed
             /\ p.overrun = e.overrun /\ p.phase = e.phase
<1> DEFINE n == Len(e.cached)
           j == e.keyframe + 1
           old == [e.cached[j] EXCEPT !.isKey = FALSE]
           s == IF e.keyframe = KEYFRAME_NONE THEN e.cached
                ELSE [e.cached EXCEPT ![j] = old]
           new == [s[n] EXCEPT !.isKey = TRUE]
           t == [s EXCEPT ![n] = new]
           p == PickKeyFrame(e)
<1>1. e.cached \in Seq(Frame) /\ n \in Nat /\ n > 0 /\ j \in 0 .. n - 1
  BY DEF Encoder
<1>2. n = Len(e.cached)
  OBVIOUS
<1> HIDE DEF n
<1>3. /\ s \in Seq(Frame) /\ Len(s) = n
      /\ \A i \in 1 .. n : i # j => s[i] = e.cached[i]
      /\ j # 0 => Rechosen(s[j], e.cached[j], FALSE)
  <2>1. CASE j = 0
    <3>1. s = e.cached
      BY <2>1, <1>1 DEF KEYFRAME_NONE, Encoder
    <3> QED
      BY <1>1, <1>2, <2>1, <3>1
  <2>2. CASE j # 0
    <3>1. j \in 1 .. Len(e.cached) /\ e.cached[j] \in Frame
      BY <1>1, <1>2, <2>2
    <3>2. Rechosen(old, e.cached[j], FALSE)
      BY <3>1, RechosenFrame
    <3>3. s = [e.cached EXCEPT ![j] = old]
      BY <2>2, <1>1 DEF KEYFRAME_NONE, Encoder
    <3>4. old \in Frame
      BY <3>2 DEF Rechosen
    <3> HIDE DEF s, old
    <3>5. /\ s \in Seq(Frame) /\ Len(s) = n
          /\ \A i \in 1 .. n : s[i] = IF i = j THEN old ELSE e.cached[i]
      BY <1>1, <1>2, <3>1, <3>3, <3>4, ExceptSeq
    <3> HIDE DEF j
    <3>6. s[j] = old /\ \A i \in 1 .. n : i # j => s[i] = e.cached[i]
      BY <1>2, <3>1, <3>5
    <3> QED
      BY <3>2, <3>5, <3>6
  <2> QED
    BY <2>1, <2>2
<1> HIDE DEF s
<1>4. n \in 1 .. Len(s) /\ s[n] \in Frame /\ s[n] = e.cached[n] /\ n # j
  BY <1>1, <1>3
<1>5. Rechosen(new, e.cached[n], TRUE)
  BY <1>4, RechosenFrame
<1>6. new \in Frame
  BY <1>5 DEF Rechosen
<1>7. /\ t \in Seq(Frame) /\ Len(t) = n /\ t[n] = new
      /\ \A i \in 1 .. n - 1 : t[i] = s[i]
  <2> HIDE DEF new
  <2> QED
    BY <1>1, <1>3, <1>4, <1>6, ExceptSeq
<1>8. p = [e EXCEPT !.cached = t, !.undecided = TRUE, !.keyframe = n - 1, !.known = TRUE,
                    !.flush = n - 1, !.rect = "key"]
  BY DEF PickKeyFrame, s, n
<1> HIDE DEF t, p, old, new
<1>9. Encoder(p)
  BY <1>1, <1>7, <1>8 DEF Encoder, Rects
<1>10. /\ p.cached = t /\ p.undecided = TRUE /\ p.keyframe = n - 1 /\ p.known = TRUE
       /\ p.flush = n - 1 /\ p.rect = "key"
       /\ p.since = e.since /\ p.start = e.start /\ p.first = e.first
       /\ p.gotNull = e.gotNull /\ p.canvas = e.canvas
       /\ p.inFrames = e.inFrames /\ p.pushed = e.pushed
       /\ p.overrun = e.overrun /\ p.phase = e.phase
  BY <1>8 DEF Encoder
<1> HIDE DEF j
<1>11. /\ \A i \in 1 .. n - 1 : i # j => p.cached[i] = e.cached[i]
       /\ j # 0 => Rechosen(p.cached[j], e.cached[j], FALSE)
       /\ Rechosen(p.cached[n], e.cached[n], TRUE)
  <2>1. \A i \in 1 .. n - 1 : i \in 1 .. n
    BY <1>1
  <2>2. p.cached[n] = new /\ \A i \in 1 .. n - 1 : p.cached[i] = s[i]
    BY <1>7, <1>10
  <2>3. j # 0 => j \in 1 .. n - 1
    BY <1>1
  <2> QED
    BY <1>3, <1>5, <2>1, <2>2, <2>3
<1>12. e.keyframe # -1 => j # 0
  BY DEF Encoder, j
<1> QED
  BY <1>7, <1>9, <1>10, <1>11, <1>12 DEF n, p, j

LEMMA CloseFields ==
  ASSUME NEW e, Encoder(e), NEW kmax \in Int, options.kmax = kmax
  PROVE  LET p == CloseInterval(e)
             closed == e.since >= kmax
         IN  /\ Encoder(p) /\ p.cached = e.cached
             /\ p.flush = IF closed THEN Len(e.cached) - 1 ELSE e.flush
             /\ p.since = IF closed THEN 0 ELSE e.since
             /\ p.keyframe = IF closed THEN -1 ELSE e.keyframe
             /\ p.known = IF closed THEN FALSE ELSE e.known
             /\ p.undecided = e.undecided /\ p.start = e.start /\ p.first = e.first
             /\ p.gotNull = e.gotNull /\ p.canvas = e.canvas /\ p.rect = e.rect
             /\ p.inFrames = e.inFrames /\ p.pushed = e.pushed
             /\ p.overrun = e.overrun /\ p.phase = e.phase
<1> DEFINE p == CloseInterval(e)
<1>1. e.since \in Nat /\ e.cached \in Seq(Frame) /\ Len(e.cached) - 1 \in Int
  BY DEF Encoder
<1>2. CASE e.since < kmax
  <2>1. p = e /\ ~ e.since >= kmax
    BY <1>1, <1>2 DEF CloseInterval
  <2> HIDE DEF p
  <2> QED
    BY <2>1 DEF p
<1>3. CASE ~ e.since < kmax
  <2>1. e.since >= kmax
    BY <1>1, <1>3
  <2>2. p = [e EXCEPT !.flush = Len(e.cached) - 1, !.since = 0, !.keyframe = -1,
                      !.known = FALSE]
    BY <1>3 DEF CloseInterval, KEYFRAME_NONE
  <2> HIDE DEF p
  <2>3. Encoder(p)
    BY <1>1, <2>2 DEF Encoder
  <2>4. /\ p.cached = e.cached /\ p.flush = Len(e.cached) - 1 /\ p.since = 0
        /\ p.keyframe = -1 /\ p.known = FALSE
        /\ p.undecided = e.undecided /\ p.start = e.start /\ p.first = e.first
        /\ p.gotNull = e.gotNull /\ p.canvas = e.canvas /\ p.rect = e.rect
        /\ p.inFrames = e.inFrames /\ p.pushed = e.pushed
        /\ p.overrun = e.overrun /\ p.phase = e.phase
    BY <2>2 DEF Encoder
  <2> QED
    BY <2>1, <2>3, <2>4 DEF p
<1> QED
  BY <1>2, <1>3

-----------------------------------------------------------------------------
(* Key frames.  x is the place of a frame that is not counted as key frame:   *)
(* the candidate, which may still lose to a later frame.                      *)

KeyAt(s, x, i)   == s[i].isKey /\ i # x
PlainAt(s, x, i) == ~ s[i].filler /\ (i = x \/ ~ s[i].isKey)

Started(m) == m.last # NoFrame /\ ~ m.split
Nothing(m) == m.last = NoFrame /\ ~ m.split

\* After frame i of those that wait behind m, there are g frames since the last key
\* frame, and no filler among them.
Run(m, s, x, i, g) ==
  \/ /\ g \in 0 .. i - 1 /\ KeyAt(s, x, i - g)
     /\ \A l \in i - g + 1 .. i : PlainAt(s, x, l)
  \/ /\ Started(m) /\ g = m.gap + i
     /\ \A l \in 1 .. i : PlainAt(s, x, l)

LEMMA RunSame ==
  ASSUME NEW m, NEW s, NEW x, NEW t, NEW y, NEW i \in Nat, NEW g \in Nat,
         \A l \in 1 .. i : /\ KeyAt(s, x, l) => KeyAt(t, y, l)
                           /\ PlainAt(s, x, l) => PlainAt(t, y, l),
         Run(m, s, x, i, g)
  PROVE  Run(m, t, y, i, g)
<1>1. CASE /\ g \in 0 .. i - 1 /\ KeyAt(s, x, i - g)
           /\ \A l \in i - g + 1 .. i : PlainAt(s, x, l)
  <2>1. i - g \in 1 .. i /\ \A l \in i - g + 1 .. i : l \in 1 .. i
    BY <1>1
  <2> QED
    BY <1>1, <2>1 DEF Run
<1>2. CASE /\ Started(m) /\ g = m.gap + i
           /\ \A l \in 1 .. i : PlainAt(s, x, l)
  BY <1>2 DEF Run
<1> QED
  BY <1>1, <1>2 DEF Run

\* A run of which the last frame is known.
LEMMA RunEnds ==
  ASSUME NEW m, Muxer(m), NEW s, NEW x, NEW i \in Nat, NEW g \in Nat,
         Run(m, s, x, i + 1, g)
  PROVE  /\ KeyAt(s, x, i + 1) => g = 0
         /\ PlainAt(s, x, i + 1) => g - 1 \in Nat /\ Run(m, s, x, i, g - 1)
         /\ KeyAt(s, x, i + 1) \/ PlainAt(s, x, i + 1)
<1>1. m.gap \in Nat
  BY DEF Muxer
<1>2. CASE /\ g \in 0 .. i /\ KeyAt(s, x, (i + 1) - g)
           /\ \A l \in (i + 1) - g + 1 .. i + 1 : PlainAt(s, x, l)
  <2>1. CASE g = 0
    <3>1. KeyAt(s, x, i + 1)
      BY <1>2, <2>1
    <3> QED
      BY <2>1, <3>1 DEF KeyAt, PlainAt
  <2>2. CASE g # 0
    <3>1. i + 1 \in (i + 1) - g + 1 .. i + 1 /\ g - 1 \in 0 .. i - 1
          /\ (i + 1) - g = i - (g - 1)
          /\ \A l \in i - (g - 1) + 1 .. i : l \in (i + 1) - g + 1 .. i + 1
      BY <1>2, <2>2
    <3>2. PlainAt(s, x, i + 1) /\ KeyAt(s, x, i - (g - 1))
          /\ \A l \in i - (g - 1) + 1 .. i : PlainAt(s, x, l)
      BY <1>2, <3>1
    <3>3. Run(m, s, x, i, g - 1)
      BY <3>1, <3>2 DEF Run
    <3>4. g - 1 \in Nat
      BY <2>2
    <3> QED
      BY <3>2, <3>3, <3>4 DEF KeyAt, PlainAt
  <2> QED
    BY <2>1, <2>2
<1>3. CASE /\ Started(m) /\ g = m.gap + (i + 1)
           /\ \A l \in 1 .. i + 1 : PlainAt(s, x, l)
  <2>1. i + 1 \in 1 .. i + 1 /\ g - 1 \in Nat /\ g - 1 = m.gap + i
        /\ \A l \in 1 .. i : l \in 1 .. i + 1
    BY <1>1, <1>3
  <2>2. PlainAt(s, x, i + 1) /\ Run(m, s, x, i, g - 1)
    BY <1>3, <2>1 DEF Run
  <2> QED
    BY <2>1, <2>2 DEF KeyAt, PlainAt
<1>4. 0 .. (i + 1) - 1 = 0 .. i
  OBVIOUS
<1> QED
  BY <1>2, <1>3, <1>4 DEF Run

\* With a key frame that only plain frames follow there is one run.
LEMMA RunFromKey ==
  ASSUME NEW m, Muxer(m), NEW s, NEW x, NEW n \in Nat, NEW j \in 1 .. n,
         KeyAt(s, x, j), \A l \in j + 1 .. n : ~ KeyAt(s, x, l),
         NEW g \in Nat, Run(m, s, x, n, g)
  PROVE  g = n - j /\ \A l \in j + 1 .. n : PlainAt(s, x, l)
<1>1. CASE /\ g \in 0 .. n - 1 /\ KeyAt(s, x, n - g)
           /\ \A l \in n - g + 1 .. n : PlainAt(s, x, l)
  <2>1. ~ n - g > j
    BY <1>1
  <2>2. ~ j >= n - g + 1
    BY <1>1 DEF KeyAt, PlainAt
  <2> QED
    BY <1>1, <2>1, <2>2
<1>2. CASE \A l \in 1 .. n : PlainAt(s, x, l)
  BY <1>2 DEF KeyAt, PlainAt
<1> QED
  BY <1>1, <1>2 DEF Run

-----------------------------------------------------------------------------
(* Frames that are pushed.                                                    *)

LEMMA MuxFrameFields ==
  ASSUME NEW m, Muxer(m), NEW f \in Frame
  PROVE  LET p == MuxFrame(m, f) IN
         /\ Muxer(p) /\ p.last = f /\ p.late = m.late
         /\ p.gap = IF f.isKey THEN 0 ELSE m.gap + 1
         /\ p.split = IF f.isKey THEN FALSE ELSE m.split \/ f.filler
         /\ p.distances = IF f.isKey /\ Started(m) THEN m.distances \union {m.gap + 1}
                          ELSE m.distances
<1> DEFINE p == MuxFrame(m, f)
<1>1. /\ DOMAIN p = DOMAIN m /\ p.last = f /\ p.late = m.late
      /\ p.gap = IF f.isKey THEN 0 ELSE m.gap + 1
      /\ p.split = IF f.isKey THEN FALSE ELSE m.split \/ f.filler
      /\ p.distances = IF f.isKey /\ Started(m) THEN m.distances \union {m.gap + 1}
                       ELSE m.distances
  BY DEF MuxFrame, Muxer, Started
<1> HIDE DEF p
<1>2. f.isKey \in BOOLEAN /\ f.filler \in BOOLEAN
  BY DEF Frame
<1>3. Muxer(p)
  <2>1. p.gap \in Nat /\ p.distances \subseteq Nat
    BY <1>1 DEF Muxer
  <2>2. p.split \in BOOLEAN
    BY <1>1, <1>2 DEF Muxer
  <2> QED
    BY <1>1, <2>1, <2>2 DEF Muxer
<1> QED
  BY <1>1, <1>3 DEF p

\* The distances there may be between two key frames: what KeyFrameSpacing says, and
\* how far beyond kmax they are at most.
Spaces(o) ==
  { k \in Nat : /\ k >= o.kmin
                /\ o.kmax = 0 => k = 1
                /\ o.kmax > 0 => k <= 2 * o.kmax - o.kmin - 1 }

\* The frames pushed, and those that wait, have the right distances.
Spaced(o, m, s) ==
  /\ m.distances \subseteq Spaces(o)
  /\ \A i \in 0 .. Len(s) - 1, g \in Nat :
       Run(m, s, 0, i, g) /\ s[i + 1].isKey => g + 1 \in Spaces(o)

\* The first of all frames is a key frame.
FirstIsKey(m, s, keyframe) ==
  Nothing(m) /\ Len(s) > 0 => s[1].isKey /\ keyframe # 0

LEMMA PrefixMore ==
  ASSUME NEW s \in Seq(Frame), NEW k \in Nat, k + 1 <= Len(s)
  PROVE  /\ SubSeq(s, 1, k + 1) = Append(SubSeq(s, 1, k), s[k + 1])
         /\ SubSeq(s, 1, k) \in Seq(Frame) /\ s[k + 1] \in Frame
OBVIOUS

\* The muxer m once the first k frames of s have been pushed.
Passed(p, o, m, s, k) ==
  /\ Muxer(p) /\ p.distances \subseteq Spaces(o) /\ p.late = m.late
  /\ Started(p) => Run(m, s, 0, k, p.gap)
  /\ Nothing(p) => k = 0
  /\ k = 0 => p = m
  /\ k > 0 => p.last = s[k]

LEMMA PushedRun ==
  ASSUME NEW o, NEW m, Muxer(m), NEW s \in Seq(Frame), NEW keyframe,
         Spaced(o, m, s), FirstIsKey(m, s, keyframe), NEW k \in 0 .. Len(s)
  PROVE  Passed(Muxed(m, SubSeq(s, 1, k)), o, m, s, k)
<1> DEFINE p(n) == Muxed(m, SubSeq(s, 1, n))
           Good(n) == /\ Muxer(p(n)) /\ p(n).distances \subseteq Spaces(o)
                      /\ p(n).late = m.late
                      /\ Started(p(n)) => Run(m, s, 0, n, p(n).gap)
                      /\ Nothing(p(n)) => n = 0
                      /\ n = 0 => p(n) = m
                      /\ n > 0 => p(n).last = s[n]
           S == { n \in Nat : n <= Len(s) => Good(n) }
<1>1. 0 \in S
  <2>1. p(0) = m
    <3>1. SubSeq(s, 1, 0) = << >>
      OBVIOUS
    <3> QED
      BY <3>1, MuxNothing
  <2>2. Started(m) => Run(m, s, 0, 0, m.gap)
    BY DEF Run, Muxer
  <2> HIDE DEF p
  <2>3. m.distances \subseteq Spaces(o)
    BY DEF Spaced
  <2> QED
    BY <2>1, <2>2, <2>3
<1>2. ASSUME NEW n \in Nat, n \in S PROVE n + 1 \in S
  <2> SUFFICES ASSUME n + 1 <= Len(s) PROVE Good(n + 1)
    OBVIOUS
  <2> DEFINE a == p(n)
             b == p(n + 1)
             f == s[n + 1]
  <2>1. Good(n) /\ f \in Frame
    BY <1>2
  <2>2. b = MuxFrame(a, f)
    <3>1. /\ SubSeq(s, 1, n + 1) = Append(SubSeq(s, 1, n), s[n + 1])
          /\ SubSeq(s, 1, n) \in Seq(Frame) /\ s[n + 1] \in Frame
      BY PrefixMore
    <3> DEFINE u == SubSeq(s, 1, n)
    <3>2. u \in Seq(Frame) /\ f \in Frame
      BY <3>1
    <3> HIDE DEF u, f
    <3>3. Muxed(m, Append(u, f)) = MuxFrame(Muxed(m, u), f)
      BY <3>2, MuxMore
    <3> QED
      BY <3>1, <3>3 DEF u, f
  <2>3. /\ Muxer(a) /\ a.distances \subseteq Spaces(o) /\ a.late = m.late
        /\ Started(a) => Run(m, s, 0, n, a.gap)
        /\ Nothing(a) => n = 0 /\ Nothing(m)
    BY <2>1
  <2> HIDE DEF a, b, f, p, Good
  <2>4. /\ Muxer(b) /\ b.last = f /\ b.late = a.late
        /\ b.gap = IF f.isKey THEN 0 ELSE a.gap + 1
        /\ b.split = IF f.isKey THEN FALSE ELSE a.split \/ f.filler
        /\ b.distances = IF f.isKey /\ Started(a) THEN a.distances \union {a.gap + 1}
                         ELSE a.distances
    BY <2>1, <2>2, <2>3, MuxFrameFields
  <2>5. a.gap \in Nat /\ f.isKey \in BOOLEAN /\ f.filler \in BOOLEAN
    BY <2>1, <2>3 DEF Muxer, Frame
  <2>6. b.distances \subseteq Spaces(o)
    <3>1. CASE f.isKey /\ Started(a)
      <4>1. n \in 0 .. Len(s) - 1
        OBVIOUS
      <4>2. a.gap + 1 \in Spaces(o)
        BY <2>3, <2>5, <3>1, <4>1 DEF Spaced, f
      <4> QED
        BY <2>3, <2>4, <4>2
    <3> QED
      BY <2>3, <2>4, <3>1
  <2>7. ~ Nothing(b)
    <3>1. f = NoFrame => f.filler /\ ~ f.isKey
      <4>1. NoFrame.filler = TRUE /\ NoFrame.isKey = FALSE
        BY DEF NoFrame, NewFrame
      <4> QED
        BY <4>1
    <3> QED
      BY <2>4, <3>1 DEF Nothing
  <2>8. ASSUME Started(b) PROVE Run(m, s, 0, n + 1, b.gap)
    <3>1. CASE f.isKey
      <4>1. /\ b.gap = 0 /\ 0 \in 0 .. (n + 1) - 1 /\ KeyAt(s, 0, (n + 1) - 0)
            /\ \A l \in (n + 1) - 0 + 1 .. n + 1 : FALSE
        BY <2>4, <3>1 DEF KeyAt, f
      <4> QED
        BY <4>1 DEF Run
    <3>2. CASE ~ f.isKey
      <4>1. ~ a.split /\ ~ f.filler /\ b.gap = a.gap + 1
        BY <2>4, <3>2, <2>8 DEF Started
      <4>2. ~ Nothing(a)
        BY <2>3, <3>2 DEF FirstIsKey, f
      <4>3. Run(m, s, 0, n, a.gap)
        BY <2>3, <4>1, <4>2 DEF Started, Nothing
      <4>4. PlainAt(s, 0, n + 1)
        BY <3>2, <4>1 DEF PlainAt, f
      <4>5. CASE /\ a.gap \in 0 .. n - 1 /\ KeyAt(s, 0, n - a.gap)
                 /\ \A l \in n - a.gap + 1 .. n : PlainAt(s, 0, l)
        <5>1. /\ a.gap + 1 \in 0 .. (n + 1) - 1 /\ (n + 1) - (a.gap + 1) = n - a.gap
              /\ \A l \in (n + 1) - (a.gap + 1) + 1 .. n + 1 :
                   l = n + 1 \/ l \in n - a.gap + 1 .. n
          BY <2>5, <4>5
        <5> QED
          BY <4>1, <4>4, <4>5, <5>1 DEF Run
      <4>6. CASE /\ Started(m) /\ a.gap = m.gap + n
                 /\ \A l \in 1 .. n : PlainAt(s, 0, l)
        <5>1. /\ a.gap + 1 = m.gap + (n + 1)
              /\ \A l \in 1 .. n + 1 : l = n + 1 \/ l \in 1 .. n
          BY <4>6 DEF Muxer
        <5> QED
          BY <4>1, <4>4, <4>6, <5>1 DEF Run
      <4> QED
        BY <4>3, <4>5, <4>6 DEF Run
    <3> QED
      BY <2>5, <3>1, <3>2
  <2>9. n + 1 > 0 /\ ~ (n + 1 = 0)
    OBVIOUS
  <2> QED
    BY <2>3, <2>4, <2>6, <2>7, <2>8, <2>9 DEF Good, b, f
<1> HIDE DEF S
<1>3. Nat \subseteq S
  BY <1>1, <1>2, Induction
<1> HIDE DEF Good
<1>4. Good(k)
  BY <1>3 DEF S
<1> QED
  BY <1>4 DEF Good, Passed

\* What is left behind k pushed frames has the runs it had.
LEMMA RunBehind ==
  ASSUME NEW m, Muxer(m), NEW p, Muxer(p), NEW s, NEW t, NEW n \in Nat,
         NEW k \in 0 .. n, \A l \in 1 .. n - k : t[l] = s[l + k],
         NEW x \in Int, NEW y \in Int, (x = 0 /\ y = 0) \/ (x > k /\ y = x - k),
         Started(p) => Run(m, s, 0, k, p.gap),
         NEW i \in 0 .. n - k, NEW g \in Nat, Run(p, t, y, i, g)
  PROVE  Run(m, s, x, i + k, g)
<1>1. \A l \in 1 .. n - k : /\ KeyAt(t, y, l) => KeyAt(s, x, l + k)
                            /\ PlainAt(t, y, l) => PlainAt(s, x, l + k)
  BY DEF KeyAt, PlainAt
<1>2. CASE /\ g \in 0 .. i - 1 /\ KeyAt(t, y, i - g)
           /\ \A l \in i - g + 1 .. i : PlainAt(t, y, l)
  <2>1. /\ g \in 0 .. (i + k) - 1 /\ i - g \in 1 .. n - k /\ (i - g) + k = (i + k) - g
        /\ \A l \in (i + k) - g + 1 .. i + k :
             l - k \in i - g + 1 .. i /\ l - k \in 1 .. n - k /\ (l - k) + k = l
    BY <1>2
  <2>2. KeyAt(s, x, (i + k) - g)
    BY <1>1, <1>2, <2>1
  <2>3. \A l \in (i + k) - g + 1 .. i + k : PlainAt(s, x, l)
    BY <1>1, <1>2, <2>1
  <2> QED
    BY <2>1, <2>2, <2>3 DEF Run
<1>3. CASE /\ Started(p) /\ g = p.gap + i
           /\ \A l \in 1 .. i : PlainAt(t, y, l)
  <2>1. p.gap \in Nat /\ m.gap \in Nat
    BY DEF Muxer
  <2>2. \A l \in k + 1 .. i + k : PlainAt(s, x, l)
    <3>1. \A l \in k + 1 .. i + k : l - k \in 1 .. i /\ l - k \in 1 .. n - k
                                    /\ (l - k) + k = l
      OBVIOUS
    <3> QED
      BY <1>1, <1>3, <3>1
  <2>3. \A l \in 1 .. k : /\ KeyAt(s, 0, l) => KeyAt(s, x, l)
                          /\ PlainAt(s, 0, l) => PlainAt(s, x, l)
    BY DEF KeyAt, PlainAt
  <2>4. CASE /\ p.gap \in 0 .. k - 1 /\ KeyAt(s, 0, k - p.gap)
             /\ \A l \in k - p.gap + 1 .. k : PlainAt(s, 0, l)
    <3>1. /\ g \in 0 .. (i + k) - 1 /\ (i + k) - g = k - p.gap /\ k - p.gap \in 1 .. k
          /\ \A l \in (i + k) - g + 1 .. i + k :
               \/ l \in k + 1 .. i + k
               \/ l \in k - p.gap + 1 .. k /\ l \in 1 .. k
      BY <1>3, <2>1, <2>4
    <3>2. KeyAt(s, x, (i + k) - g)
      BY <2>3, <2>4, <3>1
    <3>3. \A l \in (i + k) - g + 1 .. i + k : PlainAt(s, x, l)
      BY <2>2, <2>3, <2>4, <3>1
    <3> QED
      BY <3>1, <3>2, <3>3 DEF Run
  <2>5. CASE /\ Started(m) /\ p.gap = m.gap + k
             /\ \A l \in 1 .. k : PlainAt(s, 0, l)
    <3>1. g = m.gap + (i + k)
          /\ \A l \in 1 .. i + k : l \in 1 .. k \/ l \in k + 1 .. i + k
      BY <1>3, <2>1, <2>5
    <3>2. \A l \in 1 .. i + k : PlainAt(s, x, l)
      BY <2>2, <2>3, <2>5, <3>1
    <3> QED
      BY <2>5, <3>1, <3>2 DEF Run
  <2> QED
    BY <1>3, <2>4, <2>5 DEF Run
<1> QED
  BY <1>2, <1>3 DEF Run

-----------------------------------------------------------------------------
(* The encoder and its candidate.                                             *)

Candidate(e) ==
  /\ e.keyframe \in -1 .. Len(e.cached) - 1
  /\ e.keyframe # -1 => e.cached[e.keyframe + 1].isKey

Base(o, m, e) ==
  /\ Encoder(e) /\ Muxer(m) /\ Sanitized(o) /\ Candidate(e)
  /\ Spaced(o, m, e.cached) /\ FirstIsKey(m, e.cached, e.keyframe)

\* What can be flushed: the candidate only if it is followed by a filler.
NoFillerAfter(s, j) == \A l \in j + 1 .. Len(s) : ~ s[l].filler
Flushing(m, e) ==
  /\ e.first => Len(e.cached) = 0 /\ e.since = 0 /\ ~ e.known /\ ~ Started(m)
  /\ Len(e.cached) = 0 => e.first /\ e.flush = 0
  /\ Len(e.cached) > 0 => e.flush \in 0 .. Len(e.cached) - 1
  /\ e.flush > e.keyframe /\ e.keyframe # -1 => ~ NoFillerAfter(e.cached, e.keyframe + 1)

\* How long the encoder may go on after the frame it has chosen as key frame.
Waits(o) == IF o.kmax = 0 THEN 0 ELSE o.kmax - o.kmin - 1

\* count_since_key_frame_ counts from the end of an interval, g from its key frame.
Counts(o, e, since, g) ==
  /\ since <= g /\ g - since <= Waits(o)
  /\ since < o.kmax \/ since = 0
  /\ e.keyframe = -1 => ~ e.known

\* The candidate is the key frame of the interval, and comes late enough.
Waiting(o, e, s, since) ==
  e.keyframe # -1 =>
    /\ since - (Len(s) - (e.keyframe + 1)) > o.kmin
    /\ \A l \in e.keyframe + 2 .. Len(s) : ~ s[l].isKey

Interval(o, m, e) ==
  /\ Flushing(m, e)
  /\ e.known => e.since > o.kmin
  /\ e.keyframe # -1 => e.known
  /\ \A g \in Nat : Run(m, e.cached, e.keyframe + 1, Len(e.cached), g)
                      => Counts(o, e, e.since, g)
  /\ Waiting(o, e, e.cached, e.since)
  /\ e.keyframe # -1 /\ NoFillerAfter(e.cached, e.keyframe + 1) => e.since < o.kmax

\* The same kinds of frames.
SameKinds(s, t, n) == \A l \in 1 .. n : s[l].isKey = t[l].isKey /\ s[l].filler = t[l].filler

LEMMA RunKinds ==
  ASSUME NEW m, NEW s, NEW t, NEW n \in Nat, SameKinds(s, t, n), NEW x,
         NEW i \in 0 .. n, NEW g \in Nat, Run(m, s, x, i, g)
  PROVE  Run(m, t, x, i, g)
<1>1. \A l \in 1 .. i : /\ KeyAt(s, x, l) => KeyAt(t, x, l)
                        /\ PlainAt(s, x, l) => PlainAt(t, x, l)
  BY DEF SameKinds, KeyAt, PlainAt
<1> QED
  BY <1>1, RunSame

\* Longer durations and other disposals.
LEMMA KeptBase ==
  ASSUME NEW o, NEW m, NEW e, Base(o, m, e), NEW p, Encoder(p),
         Len(p.cached) = Len(e.cached), SameKinds(p.cached, e.cached, Len(e.cached)),
         p.keyframe = e.keyframe
  PROVE  Base(o, m, p)
<1> DEFINE n == Len(e.cached)
           s == e.cached
           t == p.cached
<1>1. n \in Nat /\ e.keyframe \in Int
  BY DEF Base, Encoder
<1>2. SameKinds(t, s, n) /\ Len(t) = n /\ Len(s) = n
  OBVIOUS
<1> HIDE DEF n
<1>3. \A l \in 1 .. n : t[l].isKey = s[l].isKey
  BY <1>2 DEF SameKinds
<1>4. Candidate(p)
  BY <1>1, <1>2, <1>3 DEF Base, Candidate
<1>5. FirstIsKey(m, t, p.keyframe)
  BY <1>1, <1>2, <1>3 DEF Base, FirstIsKey
<1>6. Spaced(o, m, t)
  <2> SUFFICES ASSUME NEW i \in 0 .. n - 1, NEW g \in Nat, Run(m, t, 0, i, g),
                      t[i + 1].isKey
               PROVE  g + 1 \in Spaces(o)
    BY <1>2 DEF Base, Spaced
  <2>1. i \in 0 .. n /\ i + 1 \in 1 .. n
    BY <1>1
  <2>2. Run(m, s, 0, i, g)
    BY <1>1, <1>2, <2>1, RunKinds
  <2> QED
    BY <1>2, <1>3, <2>1, <2>2 DEF Base, Spaced
<1> QED
  BY <1>4, <1>5, <1>6 DEF Base

LEMMA KeptInterval ==
  ASSUME NEW o, NEW m, NEW e, Base(o, m, e), Interval(o, m, e), NEW p, Encoder(p),
         Len(p.cached) = Len(e.cached), SameKinds(p.cached, e.cached, Len(e.cached)),
         p.keyframe = e.keyframe, p.flush = e.flush, p.known = e.known,
         p.since = e.since, p.first = e.first
  PROVE  Interval(o, m, p)
<1> DEFINE n == Len(e.cached)
           s == e.cached
           t == p.cached
           j == e.keyframe + 1
<1>1. n \in Nat /\ e.keyframe \in Int /\ e.keyframe >= -1
  BY DEF Base, Encoder, Candidate
<1>2. SameKinds(t, s, n) /\ Len(t) = n /\ Len(s) = n
  OBVIOUS
<1> HIDE DEF n
<1>3. \A l \in 1 .. n : t[l].isKey = s[l].isKey /\ t[l].filler = s[l].filler
  BY <1>2 DEF SameKinds
<1>4. NoFillerAfter(t, j) <=> NoFillerAfter(s, j)
  <2>1. \A l \in j + 1 .. n : l \in 1 .. n
    BY <1>1
  <2> QED
    BY <1>2, <1>3, <2>1 DEF NoFillerAfter
<1>5. Flushing(m, p)
  BY <1>2, <1>4 DEF Interval, Flushing
<1>6. Waiting(o, p, t, p.since)
  <2>1. \A l \in e.keyframe + 2 .. n : l \in 1 .. n
    BY <1>1
  <2> QED
    BY <1>2, <1>3, <2>1 DEF Interval, Waiting
<1>7. ASSUME NEW g \in Nat, Run(m, t, j, n, g) PROVE Counts(o, p, p.since, g)
  <2>1. n \in 0 .. n
    BY <1>1
  <2>2. Run(m, s, j, n, g)
    BY <1>1, <1>2, <1>7, <2>1, RunKinds
  <2> QED
    BY <1>2, <2>2 DEF Interval, Counts
<1> QED
  BY <1>2, <1>4, <1>5, <1>6, <1>7 DEF Interval

LEMMA KeptByLonger ==
  ASSUME NEW o, NEW m, NEW e, Base(o, m, e), Len(e.cached) > 0, NEW d \in Nat
  PROVE  LET p == [e EXCEPT !.cached[Len(e.cached)]
                               = Longer(e.cached[Len(e.cached)], d)]
         IN  Base(o, m, p) /\ (Interval(o, m, e) => Interval(o, m, p))
<1> DEFINE n == Len(e.cached)
           p == [e EXCEPT !.cached[n] = Longer(e.cached[n], d)]
<1>1. /\ Encoder(p) /\ SameState(p, e)
      /\ p.cached = [e.cached EXCEPT ![n] = Longer(e.cached[n], d)]
  BY LongerLast DEF Base
<1>2. e.cached \in Seq(Frame) /\ n \in 1 .. Len(e.cached) /\ e.cached[n] \in Frame
  BY DEF Base, Encoder
<1>3. /\ Longer(e.cached[n], d) \in Frame
      /\ Longer(e.cached[n], d).isKey = e.cached[n].isKey
      /\ Longer(e.cached[n], d).filler = e.cached[n].filler
  BY <1>2, LongerFields
<1> HIDE DEF p
<1>4. Len(p.cached) = n /\ \A l \in 1 .. n : p.cached[l] =
        IF l = n THEN Longer(e.cached[n], d) ELSE e.cached[l]
  BY <1>1, <1>2, <1>3
<1>5. SameKinds(p.cached, e.cached, n)
  BY <1>3, <1>4 DEF SameKinds
<1>6. Base(o, m, p)
  BY <1>1, <1>4, <1>5, KeptBase DEF SameState
<1>7. ASSUME Interval(o, m, e) PROVE Interval(o, m, p)
  BY <1>1, <1>4, <1>5, <1>7, KeptInterval DEF SameState
<1> QED
  BY <1>6, <1>7 DEF p

LEMMA SpacedMore ==
  ASSUME NEW o, NEW m, NEW s, NEW t, NEW n \in Nat, Len(s) = n, Len(t) = n + 1,
         SameKinds(t, s, n), ~ t[n + 1].isKey, Spaced(o, m, s)
  PROVE  Spaced(o, m, t)
<1> SUFFICES ASSUME NEW i \in 0 .. n, NEW g \in Nat, Run(m, t, 0, i, g), t[i + 1].isKey
             PROVE  g + 1 \in Spaces(o)
  BY DEF Spaced
<1>1. i \in 0 .. n - 1 /\ i + 1 \in 1 .. n
  OBVIOUS
<1>2. Run(m, s, 0, i, g)
  BY RunKinds
<1> QED
  BY <1>1, <1>2 DEF Spaced, SameKinds

\* A frame of which the key-frame encoding is not chosen follows.
LEMMA BaseMore ==
  ASSUME NEW o, NEW m, NEW e, Base(o, m, e), Len(e.cached) > 0,
         NEW p, Encoder(p), Len(p.cached) = Len(e.cached) + 1,
         SameKinds(p.cached, e.cached, Len(e.cached)), p.keyframe = e.keyframe,
         ~ p.cached[Len(e.cached) + 1].isKey
  PROVE  Base(o, m, p)
<1> DEFINE n == Len(e.cached)
<1>1. n \in Nat /\ n > 0 /\ e.keyframe \in -1 .. n - 1
  BY DEF Base, Encoder, Candidate
<1>2. Len(p.cached) = n + 1 /\ SameKinds(p.cached, e.cached, n) /\ Len(e.cached) = n
      /\ ~ p.cached[n + 1].isKey
  OBVIOUS
<1> HIDE DEF n
<1>3. \A l \in 1 .. n : p.cached[l].isKey = e.cached[l].isKey
  BY <1>2 DEF SameKinds
<1>4. Candidate(p)
  <2>1. e.keyframe # -1 => e.keyframe + 1 \in 1 .. n
    BY <1>1
  <2> QED
    BY <1>1, <1>2, <1>3, <2>1 DEF Base, Candidate
<1>5. FirstIsKey(m, p.cached, p.keyframe)
  BY <1>1, <1>2, <1>3 DEF Base, FirstIsKey
<1>6. Spaced(o, m, p.cached)
  BY <1>1, <1>2, SpacedMore DEF Base
<1> QED
  BY <1>4, <1>5, <1>6 DEF Base

\* IncreasePreviousDuration adds a filler.
LEMMA KeptByFiller ==
  ASSUME NEW o, NEW m, NEW e, Base(o, m, e), Len(e.cached) > 0, NEW d \in Nat
  PROVE  LET p == AddFiller(e, d) IN
         /\ Base(o, m, p) /\ (Interval(o, m, e) => Interval(o, m, p))
<1> DEFINE n == Len(e.cached)
           s == e.cached
           p == AddFiller(e, d)
           t == p.cached
           j == e.keyframe + 1
           f == Filler(e, d)
<1>1. /\ f \in Frame /\ f.isKey = FALSE /\ f.filler = TRUE
      /\ Encoder(p) /\ t = Append(s, f)
      /\ p.since = e.since + 1 /\ p.flush = n /\ p.keyframe = e.keyframe
      /\ p.known = e.known /\ p.first = e.first
  <2>1. Encoder(e)
    BY DEF Base
  <2>2. f \in Frame /\ f.isKey = FALSE /\ f.filler = TRUE
    <3>1. IsFiller(f, e, d)
      BY <2>1, FillerFrame
    <3> QED
      BY <2>1, <3>1 DEF IsFiller
  <2> HIDE DEF f
  <2>3. /\ Encoder(p) /\ t = Append(s, f)
        /\ p.since = e.since + 1 /\ p.flush = n /\ p.keyframe = e.keyframe
        /\ p.known = e.known /\ p.first = e.first
    <3>1. Filled(p, e, d)
      BY <2>1, FillerFields DEF f
    <3> QED
      BY <2>1, <3>1 DEF Filled, f
  <2> QED
    BY <2>2, <2>3
<1> HIDE DEF p, f
<1>2. s \in Seq(Frame) /\ n \in Nat /\ n > 0 /\ e.keyframe \in -1 .. n - 1 /\ e.since \in Nat
  BY DEF Base, Encoder, Candidate
<1>3. /\ Len(t) = n + 1 /\ t[n + 1] = f
      /\ \A l \in 1 .. n : t[l] = s[l]
  BY <1>1, <1>2
<1>4. SameKinds(t, s, n) /\ ~ t[n + 1].isKey /\ t[n + 1].filler
  BY <1>1, <1>3 DEF SameKinds
<1>5. Base(o, m, p)
  BY <1>1, <1>3, <1>4, BaseMore
<1>6. ASSUME Interval(o, m, e) PROVE Interval(o, m, p)
  <2>1. ~ NoFillerAfter(t, j)
    <3>1. n + 1 \in j + 1 .. Len(t)
      BY <1>2, <1>3
    <3> QED
      BY <1>4, <3>1 DEF NoFillerAfter
  <2>2. Flushing(m, p)
    BY <1>1, <1>2, <1>3, <1>6, <2>1 DEF Interval, Flushing
  <2>3. ASSUME NEW g \in Nat, Run(m, t, j, n + 1, g) PROVE FALSE
    <3>1. KeyAt(t, j, n + 1) \/ PlainAt(t, j, n + 1)
      BY <1>2, <2>3, RunEnds DEF Base
    <3> QED
      BY <1>4, <3>1 DEF KeyAt, PlainAt
  <2>4. Waiting(o, p, t, p.since)
    <3> SUFFICES ASSUME e.keyframe # -1
                 PROVE  /\ p.since - ((n + 1) - j) > o.kmin
                        /\ \A l \in j + 1 .. n + 1 : ~ t[l].isKey
      <4>1. e.keyframe + 2 = j + 1
        BY <1>2
      <4> HIDE DEF j
      <4> QED
        BY <1>1, <1>3, <4>1 DEF Waiting, j
    <3>1. e.since - (n - j) > o.kmin /\ \A l \in j + 1 .. n : ~ s[l].isKey
      <4>1. e.keyframe + 2 = j + 1
        BY <1>2
      <4> HIDE DEF j
      <4> QED
        BY <1>6, <4>1 DEF Interval, Waiting, j
    <3>2. p.since - ((n + 1) - j) > o.kmin
      <4>1. p.since - ((n + 1) - j) = e.since - (n - j)
        <5>1. p.since = e.since + 1 /\ e.since \in Int /\ n \in Int /\ j \in Int
          BY <1>1, <1>2
        <5> HIDE DEF j
        <5> QED
          BY <5>1
      <4> QED
        BY <3>1, <4>1
    <3>3. \A l \in j + 1 .. n + 1 : l = n + 1 \/ (l \in j + 1 .. n /\ l \in 1 .. n)
      BY <1>2
    <3> QED
      BY <1>3, <1>4, <3>1, <3>2, <3>3
  <2>5. p.known => p.since > o.kmin
    BY <1>1, <1>2, <1>6 DEF Interval, Base, Sanitized
  <2>6. p.keyframe # -1 => p.known
    BY <1>1, <1>6 DEF Interval
  <2> QED
    BY <1>1, <1>3, <2>1, <2>2, <2>3, <2>4, <2>5, <2>6 DEF Interval
<1> QED
  BY <1>5, <1>6 DEF p

\* PushFrames, where m becomes what the muxer has then.
LEMMA KeptByPush ==
  ASSUME NEW o, NEW m, NEW e, Base(o, m, e), NEW k \in 0 .. Len(e.cached)
  PROVE  LET p == PushFrames(e, k)
             q == Muxed(m, SubSeq(e.cached, 1, k))
         IN  /\ Base(o, q, p) /\ q.late = m.late
             /\ k = 0 => q = m
             /\ k > 0 => q.last = e.cached[k]
             /\ Interval(o, m, e) /\ k <= e.flush => Interval(o, q, p)
<1> DEFINE n == Len(e.cached)
           s == e.cached
           p == PushFrames(e, k)
           q == Muxed(m, SubSeq(s, 1, k))
           t == p.cached
           j == e.keyframe + 1
<1>1. /\ s \in Seq(Frame) /\ n \in Nat /\ e.keyframe \in -1 .. n - 1 /\ e.since \in Nat
      /\ e.flush \in Int /\ k \in 0 .. n
  BY DEF Base, Encoder, Candidate
<1>2. /\ Encoder(p) /\ Len(t) = n - k /\ \A l \in 1 .. n - k : t[l] = s[l + k]
      /\ p.flush = e.flush - k /\ p.keyframe = KeyframeAfter(e, k)
      /\ p.known = e.known /\ p.since = e.since /\ p.first = e.first
  <2>1. Pushes(p, e, k)
    BY PushFields DEF Base
  <2> QED
    BY <2>1 DEF Pushes, Base
<1>3. /\ Muxer(q) /\ q.distances \subseteq Spaces(o) /\ q.late = m.late
      /\ Started(q) => Run(m, s, 0, k, q.gap)
      /\ Nothing(q) => k = 0
      /\ k = 0 => q = m
      /\ k > 0 => q.last = s[k]
  <2>1. Muxer(m) /\ Spaced(o, m, s) /\ FirstIsKey(m, s, e.keyframe)
    BY DEF Base
  <2>2. k \in 0 .. Len(s)
    BY <1>1
  <2>3. s \in Seq(Frame)
    BY <1>1
  <2> HIDE DEF s, n, p, t
  <2> QED
    <3>1. Passed(q, o, m, s, k)
      BY <2>1, <2>2, <2>3, PushedRun
    <3> QED
      BY <3>1 DEF Passed
<1>4. Muxer(m) /\ Len(s) = n
  BY DEF Base
<1> HIDE DEF p, q, n
<1>5. p.keyframe = IF e.keyframe < k THEN -1 ELSE e.keyframe - k
  BY <1>1, <1>2 DEF KeyframeAfter, KEYFRAME_NONE
<1>6. \A i \in 0 .. n - k, g \in Nat : Run(q, t, 0, i, g) => Run(m, s, 0, i + k, g)
  <2> SUFFICES ASSUME NEW i \in 0 .. n - k, NEW g \in Nat, Run(q, t, 0, i, g)
               PROVE  Run(m, s, 0, i + k, g)
    OBVIOUS
  <2>1. /\ n \in Nat /\ k \in 0 .. n /\ \A l \in 1 .. n - k : t[l] = s[l + k]
        /\ Started(q) => Run(m, s, 0, k, q.gap)
    BY <1>1, <1>2, <1>3
  <2> HIDE DEF s, t
  <2> QED
    <3>1. 0 \in Int /\ i \in 0 .. n - k
      OBVIOUS
    <3> QED
      BY <1>3, <1>4, <2>1, <3>1, RunBehind
<1>7. Spaced(o, q, t)
  <2> SUFFICES ASSUME NEW i \in 0 .. (n - k) - 1, NEW g \in Nat, Run(q, t, 0, i, g),
                      t[i + 1].isKey
               PROVE  g + 1 \in Spaces(o)
    BY <1>2, <1>3 DEF Spaced
  <2>1. i \in 0 .. n - k /\ i + 1 \in 1 .. n - k /\ i + k \in 0 .. n - 1
        /\ (i + 1) + k = (i + k) + 1
    <3>1. n \in Nat /\ k \in 0 .. n
      BY <1>1
    <3> QED
      BY <3>1
  <2>2. Run(m, s, 0, i + k, g) /\ s[(i + k) + 1].isKey
    BY <1>2, <1>6, <2>1
  <2>3. Spaced(o, m, s)
    BY DEF Base
  <2> HIDE DEF s
  <2> QED
    BY <1>4, <2>1, <2>2, <2>3 DEF Spaced
<1>8. Candidate(p)
  <2>1. CASE e.keyframe < k
    BY <1>1, <1>2, <1>5, <2>1 DEF Candidate
  <2>2. CASE ~ e.keyframe < k
    <3>1. /\ p.keyframe = e.keyframe - k /\ p.keyframe \in 0 .. (n - k) - 1
          /\ p.keyframe + 1 \in 1 .. n - k /\ (p.keyframe + 1) + k = e.keyframe + 1
          /\ e.keyframe # -1
      <4>1. p.keyframe = e.keyframe - k
        BY <1>5, <2>2
      <4>2. n \in Nat /\ k \in 0 .. n /\ e.keyframe \in -1 .. n - 1
        BY <1>1
      <4> QED
        BY <2>2, <4>1, <4>2
    <3>2. s[e.keyframe + 1].isKey
      BY <3>1 DEF Base, Candidate
    <3> QED
      <4>1. t[p.keyframe + 1] = s[e.keyframe + 1]
        BY <1>2, <3>1
      <4> QED
        BY <1>2, <3>1, <3>2, <4>1 DEF Candidate
  <2> QED
    BY <2>1, <2>2
<1>9. FirstIsKey(q, t, p.keyframe)
  <2> SUFFICES ASSUME Nothing(q), Len(t) > 0 PROVE t[1].isKey /\ p.keyframe # 0
    BY DEF FirstIsKey
  <2>1. k = 0 /\ q = m /\ n > 0
    BY <1>1, <1>2, <1>3
  <2>2. s[1].isKey /\ e.keyframe # 0
    BY <1>4, <2>1 DEF Base, FirstIsKey
  <2>3. t[1] = s[1] /\ p.keyframe = e.keyframe
    BY <1>1, <1>2, <1>5, <2>1
  <2> QED
    BY <2>2, <2>3
<1>10. Base(o, q, p)
  BY <1>2, <1>3, <1>7, <1>8, <1>9 DEF Base
<1>11. ASSUME Interval(o, m, e), k <= e.flush PROVE Interval(o, q, p)
  <2>1. CASE n = 0
    <3>1. k = 0 /\ q = m /\ e.flush = 0 /\ e.first /\ ~ e.known /\ e.since = 0
          /\ ~ Started(m) /\ e.keyframe = -1
      BY <1>1, <1>3, <1>4, <1>11, <2>1 DEF Interval, Flushing
    <3>2. Len(t) = 0 /\ p.flush = 0 /\ p.keyframe = -1
      BY <1>1, <1>2, <1>5, <2>1, <3>1
    <3>3. Flushing(q, p)
      <4>1. p.first /\ ~ p.known /\ p.since = 0 /\ ~ Started(q)
        BY <1>2, <3>1
      <4>2. ~ (p.flush > p.keyframe /\ p.keyframe # -1)
        BY <3>2
      <4> QED
        BY <3>2, <4>1, <4>2 DEF Flushing
    <3>4. ASSUME NEW g \in Nat, Run(q, t, p.keyframe + 1, Len(t), g) PROVE FALSE
      BY <3>1, <3>2, <3>4 DEF Run
    <3> QED
      BY <1>2, <3>1, <3>2, <3>3, <3>4 DEF Interval, Waiting
  <2>2. CASE n > 0
    <3>1. e.flush \in 0 .. n - 1 /\ Len(t) = n - k /\ n - k > 0 /\ ~ e.first
      BY <1>1, <1>2, <1>4, <1>11, <2>2 DEF Interval, Flushing
    <3>2. CASE e.keyframe < k
      <4>1. p.keyframe = -1
        BY <1>5, <3>2
      <4>2. ASSUME NEW g \in Nat, Run(q, t, 0, n - k, g) PROVE Counts(o, p, p.since, g)
        <5>1. Run(m, s, 0, n, g)
          <6>1. n - k \in 0 .. n - k /\ (n - k) + k = n
            BY <1>1
          <6> QED
            BY <1>6, <4>2, <6>1
        <5>2. CASE e.keyframe = -1
          <6>1. Run(m, s, e.keyframe + 1, n, g)
            BY <5>1, <5>2
          <6> QED
            BY <1>2, <1>4, <1>11, <4>1, <5>2, <6>1 DEF Interval, Counts
        <5>3. CASE e.keyframe # -1
          <6>1. s[j].isKey /\ j \in 1 .. n
            BY <1>1, <5>3 DEF Base, Candidate
          <6>2. \A l \in j + 1 .. n : ~ s[l].isKey
            BY <1>1, <1>4, <1>11, <5>3 DEF Interval, Waiting
          <6>3. KeyAt(s, 0, j) /\ \A l \in j + 1 .. n : ~ KeyAt(s, 0, l)
            BY <6>1, <6>2 DEF KeyAt
          <6>4. \A l \in j + 1 .. n : PlainAt(s, 0, l)
            BY <1>1, <1>4, <5>1, <6>1, <6>3, RunFromKey
          <6>5. NoFillerAfter(s, j)
            BY <1>4, <6>4 DEF NoFillerAfter, PlainAt
          <6>6. e.flush > e.keyframe
            BY <1>1, <1>11, <3>2
          <6> QED
            BY <1>11, <5>3, <6>5, <6>6 DEF Interval, Flushing
        <5> QED
          BY <5>2, <5>3
      <4>3. Flushing(q, p)
        BY <1>1, <1>2, <1>11, <3>1, <4>1 DEF Flushing
      <4> QED
        BY <1>2, <1>11, <3>1, <4>1, <4>2, <4>3 DEF Interval, Waiting
    <3>3. CASE ~ e.keyframe < k
      <4>1. p.keyframe = e.keyframe - k /\ p.keyframe + 1 = j - k /\ j > k /\ j \in Int
            /\ e.keyframe # -1 /\ j - k \in Int
        BY <1>1, <1>5, <3>3
      <4>2. \A g \in Nat : Run(q, t, j - k, n - k, g) => Run(m, s, j, n, g)
        <5>1. n - k \in 0 .. n - k /\ (n - k) + k = n
          BY <1>1
        <5>2. \A g \in Nat : Run(q, t, j - k, n - k, g) => Run(m, s, j, (n - k) + k, g)
          <6> SUFFICES ASSUME NEW g \in Nat, Run(q, t, j - k, n - k, g)
                       PROVE  Run(m, s, j, (n - k) + k, g)
            OBVIOUS
          <6> HIDE DEF s, t, j
          <6> QED
            BY <1>1, <1>2, <1>3, <1>4, <4>1, <5>1, RunBehind
        <5> QED
          BY <5>1, <5>2
      <4>3. ASSUME NEW g \in Nat, Run(q, t, p.keyframe + 1, n - k, g)
            PROVE  Counts(o, p, p.since, g)
        BY <1>2, <1>4, <1>11, <4>1, <4>2, <4>3 DEF Interval, Counts
      <4>4. NoFillerAfter(t, j - k) => NoFillerAfter(s, j)
        <5>1. \A l \in j + 1 .. n : l - k \in (j - k) + 1 .. n - k /\ l - k \in 1 .. n - k
                                    /\ (l - k) + k = l
          BY <1>1, <4>1
        <5> QED
          <6> HIDE DEF t, s
          <6> QED
            BY <1>2, <1>4, <5>1 DEF NoFillerAfter
      <4>5. Waiting(o, p, t, p.since)
        <5>1. e.since - (n - j) > o.kmin /\ \A l \in j + 1 .. n : ~ s[l].isKey
          BY <1>1, <1>4, <1>11, <4>1 DEF Interval, Waiting
        <5>2. p.since - ((n - k) - (p.keyframe + 1)) > o.kmin
          BY <1>1, <1>2, <4>1, <5>1
        <5>3. \A l \in p.keyframe + 2 .. n - k :
                l \in 1 .. n - k /\ l + k \in j + 1 .. n
          BY <1>1, <4>1
        <5>4. \A l \in p.keyframe + 2 .. n - k : ~ t[l].isKey
          BY <1>2, <5>1, <5>3
        <5> QED
          BY <1>2, <5>2, <5>4 DEF Waiting
      <4>6. Flushing(q, p)
        <5>1. e.flush > e.keyframe => ~ NoFillerAfter(s, j)
          BY <1>11, <4>1 DEF Interval, Flushing
        <5>2. p.flush > p.keyframe => e.flush > e.keyframe
          BY <1>1, <1>2, <4>1
        <5>3. ~ NoFillerAfter(s, j) => ~ NoFillerAfter(t, p.keyframe + 1)
          BY <4>1, <4>4
        <5>4. p.flush \in 0 .. (n - k) - 1
          BY <1>1, <1>2, <1>11, <3>1
        <5> QED
          BY <1>2, <3>1, <5>1, <5>2, <5>3, <5>4 DEF Flushing
      <4>7. NoFillerAfter(t, p.keyframe + 1) => p.since < o.kmax
        BY <1>2, <1>11, <4>1, <4>4 DEF Interval
      <4> QED
        BY <1>2, <1>11, <3>1, <4>1, <4>3, <4>5, <4>6, <4>7 DEF Interval
    <3> QED
      BY <3>2, <3>3
  <2> QED
    BY <1>1, <2>1, <2>2
<1> QED
  BY <1>3, <1>10, <1>11 DEF p, q

\* The first frame is cached.
LEMMA KeptByFirst ==
  ASSUME NEW o, NEW m, NEW e, Base(o, m, e), Interval(o, m, e), e.first,
         NEW p, Encoder(p), Len(p.cached) = 1, p.cached[1].isKey, p.flush = 0,
         p.since = 0, p.keyframe = e.keyframe, p.known = e.known, p.first = FALSE
  PROVE  Base(o, m, p) /\ Interval(o, m, p)
<1> DEFINE t == p.cached
<1>1. Len(e.cached) = 0 /\ ~ e.known /\ ~ Started(m)
  BY DEF Interval, Flushing
<1>2. Muxer(m) /\ Sanitized(o) /\ e.keyframe = -1
  BY <1>1 DEF Base, Candidate
<1>3. Spaced(o, m, t)
  <2>1. \A i \in 0 .. 1 - 1, g \in Nat : ~ Run(m, t, 0, i, g)
    BY <1>1 DEF Run
  <2> QED
    BY <2>1 DEF Base, Spaced
<1>4. Base(o, m, p)
  BY <1>2, <1>3 DEF Base, Candidate, FirstIsKey
<1>5. Waits(o) >= 0
  BY <1>2 DEF Sanitized, Waits
<1>6. ASSUME NEW g \in Nat, Run(m, t, 0, 1, g) PROVE Counts(o, p, 0, g)
  <2>1. KeyAt(t, 0, 0 + 1)
    BY DEF KeyAt
  <2>2. Run(m, t, 0, 0 + 1, g) /\ 0 \in Nat
    <3>1. 0 + 1 = 1
      OBVIOUS
    <3> QED
      BY <1>6, <3>1
  <2> HIDE DEF t
  <2>3. g = 0
    BY <1>2, <1>6, <2>1, <2>2, RunEnds
  <2> QED
    BY <1>1, <1>2, <1>5, <2>3 DEF Counts
<1>7. Flushing(m, p)
  BY <1>2 DEF Flushing
<1> QED
  BY <1>1, <1>2, <1>4, <1>6, <1>7 DEF Interval, Waiting

\* A frame t[n + 1] follows the n frames of s; only as a sub-frame, or as the
\* candidate instead of frame j.
NextKinds(t, s, n) ==
  Len(t) = n + 1 /\ SameKinds(t, s, n) /\ ~ t[n + 1].isKey /\ ~ t[n + 1].filler

PickedKinds(t, s, n, j) ==
  /\ Len(t) = n + 1 /\ t[n + 1].isKey /\ ~ t[n + 1].filler
  /\ \A l \in 1 .. n : /\ t[l].filler = s[l].filler
                       /\ t[l].isKey <=> s[l].isKey /\ l # j

LEMMA NextRun ==
  ASSUME NEW o, NEW m, NEW e, Base(o, m, e), Interval(o, m, e),
         NEW t, NextKinds(t, e.cached, Len(e.cached)),
         NEW g \in Nat, Run(m, t, e.keyframe + 1, Len(e.cached) + 1, g)
  PROVE  g - 1 \in Nat /\ Counts(o, e, e.since, g - 1)
<1> DEFINE n == Len(e.cached)
           s == e.cached
           j == e.keyframe + 1
<1>1. n \in Nat /\ Muxer(m) /\ n \in 0 .. n
  BY DEF Base, Encoder
<1>2. ~ KeyAt(t, j, n + 1) /\ SameKinds(t, s, n)
  BY DEF NextKinds, KeyAt
<1>3. Run(m, t, j, n + 1, g)
  OBVIOUS
<1> HIDE DEF n, j, s
<1>4. PlainAt(t, j, n + 1)
  BY <1>1, <1>2, <1>3, RunEnds
<1>5. g - 1 \in Nat /\ Run(m, t, j, n, g - 1)
  BY <1>1, <1>3, <1>4, RunEnds
<1>6. Run(m, s, j, n, g - 1)
  BY <1>1, <1>2, <1>5, RunKinds
<1> QED
  BY <1>5, <1>6 DEF Interval, n, s, j

\* Before kmin.
LEMMA KeptByEarly ==
  ASSUME NEW o, NEW m, NEW e, Base(o, m, e), Interval(o, m, e), Len(e.cached) > 0,
         e.since + 1 <= o.kmin,
         NEW p, Encoder(p), NextKinds(p.cached, e.cached, Len(e.cached)),
         p.keyframe = e.keyframe, p.known = e.known, p.since = e.since + 1,
         p.first = e.first, p.flush = Len(e.cached)
  PROVE  Base(o, m, p) /\ Interval(o, m, p)
<1> DEFINE n == Len(e.cached)
<1>1. n \in Nat /\ n > 0 /\ e.since \in Nat /\ Sanitized(o) /\ Len(p.cached) = n + 1
  BY DEF Base, Encoder, NextKinds
<1>2. ~ e.known
  BY <1>1 DEF Interval, Sanitized
<1>3. e.keyframe = -1 /\ ~ e.first
  BY <1>1, <1>2 DEF Interval, Flushing
<1>4. Base(o, m, p)
  BY BaseMore DEF NextKinds
<1>5. ASSUME NEW g \in Nat, Run(m, p.cached, 0, n + 1, g) PROVE Counts(o, p, p.since, g)
  <2>1. g - 1 \in Nat /\ Counts(o, e, e.since, g - 1)
    <3>1. e.keyframe + 1 = 0
      BY <1>3
    <3>2. Run(m, p.cached, e.keyframe + 1, n + 1, g)
      BY <1>5, <3>1
    <3> QED
      BY <3>2, NextRun
  <2>2. e.since <= g - 1 /\ (g - 1) - e.since <= Waits(o) /\ Waits(o) \in Int
    BY <1>1, <2>1 DEF Counts, Waits, Sanitized
  <2>3. p.since < o.kmax
    BY <1>1 DEF Sanitized
  <2>4. p.since <= g /\ g - p.since <= Waits(o)
    BY <1>1, <2>2
  <2> QED
    BY <1>2, <2>3, <2>4 DEF Counts
<1>6. Flushing(m, p)
  BY <1>1, <1>3 DEF Flushing
<1> QED
  BY <1>1, <1>2, <1>3, <1>4, <1>5, <1>6 DEF Interval, Waiting

\* After kmin, when the candidate remains.
LEMMA KeptByOther ==
  ASSUME NEW o, NEW m, NEW e, Base(o, m, e), Interval(o, m, e), Len(e.cached) > 0,
         e.known, e.since + 1 < o.kmax,
         NEW p, Encoder(p), NextKinds(p.cached, e.cached, Len(e.cached)),
         p.keyframe = e.keyframe, p.known = e.known, p.since = e.since + 1,
         p.first = e.first, p.flush = e.flush
  PROVE  Base(o, m, p) /\ Interval(o, m, p)
<1> DEFINE n == Len(e.cached)
           s == e.cached
           t == p.cached
           j == e.keyframe + 1
<1>1. /\ n \in Nat /\ n > 0 /\ e.since \in Nat /\ Sanitized(o) /\ Len(t) = n + 1
      /\ j \in 0 .. n /\ Len(s) = n
  BY DEF Base, Encoder, NextKinds, Candidate
<1>2. e.flush \in 0 .. n - 1 /\ ~ e.first
  BY <1>1 DEF Interval, Flushing
<1>3. Base(o, m, p)
  BY BaseMore DEF NextKinds
<1>4. ASSUME NEW g \in Nat, Run(m, t, j, n + 1, g) PROVE Counts(o, p, p.since, g)
  <2>1. g - 1 \in Nat /\ Counts(o, e, e.since, g - 1)
    BY <1>4, NextRun
  <2>2. e.since <= g - 1 /\ (g - 1) - e.since <= Waits(o) /\ Waits(o) \in Int
    BY <1>1, <2>1 DEF Counts, Waits, Sanitized
  <2>3. p.since <= g /\ g - p.since <= Waits(o)
    BY <1>1, <2>2
  <2> QED
    BY <2>1, <2>3 DEF Counts
<1>5. /\ \A l \in 1 .. n : t[l].isKey = s[l].isKey /\ t[l].filler = s[l].filler
      /\ ~ t[n + 1].isKey /\ ~ t[n + 1].filler
  BY DEF NextKinds, SameKinds
<1>6. NoFillerAfter(t, j) => NoFillerAfter(s, j)
  <2>1. \A l \in j + 1 .. n : l \in 1 .. n /\ l \in j + 1 .. n + 1
    BY <1>1
  <2> HIDE DEF t, s, n, j
  <2> QED
    BY <1>1, <1>5, <2>1 DEF NoFillerAfter
<1>7. Flushing(m, p)
  <2>1. p.flush \in 0 .. (n + 1) - 1
    BY <1>1, <1>2
  <2> QED
    BY <1>1, <1>2, <1>6, <2>1 DEF Interval, Flushing
<1>8. Waiting(o, p, t, p.since)
  <2> SUFFICES ASSUME e.keyframe # -1
               PROVE  /\ p.since - ((n + 1) - j) > o.kmin
                      /\ \A l \in e.keyframe + 2 .. n + 1 : ~ t[l].isKey
    BY <1>1 DEF Waiting
  <2>1. e.since - (n - j) > o.kmin /\ \A l \in e.keyframe + 2 .. n : ~ s[l].isKey
    BY <1>1 DEF Interval, Waiting
  <2>2. p.since - ((n + 1) - j) > o.kmin
    <3>1. p.since = e.since + 1 /\ o.kmin \in Int /\ e.since \in Int /\ n \in Int /\ j \in Int
      BY <1>1 DEF Sanitized
    <3> HIDE DEF n, j
    <3> QED
      BY <2>1, <3>1
  <2>3. \A l \in e.keyframe + 2 .. n + 1 :
          l = n + 1 \/ (l \in e.keyframe + 2 .. n /\ l \in 1 .. n)
    <3>1. e.keyframe \in Int /\ e.keyframe >= -1
      BY DEF Base, Encoder, Candidate
    <3> HIDE DEF n
    <3> QED
      BY <1>1, <3>1
  <2> QED
    BY <1>5, <2>1, <2>2, <2>3
<1>9. p.since > o.kmin
  BY <1>1 DEF Interval, Sanitized
<1>10. e.keyframe # -1 => p.known
  OBVIOUS
<1> QED
  BY <1>1, <1>3, <1>4, <1>7, <1>8, <1>9, <1>10 DEF Interval

\* After kmin, when the frame becomes the candidate.
LEMMA PickedRuns ==
  ASSUME NEW o, NEW m, NEW e, Base(o, m, e), Interval(o, m, e), Len(e.cached) > 0,
         e.since + 1 > o.kmin,
         NEW t, PickedKinds(t, e.cached, Len(e.cached), e.keyframe + 1)
  PROVE  /\ \A g \in Nat : Run(m, t, 0, Len(e.cached), g) => Counts(o, e, e.since, g)
         /\ Spaced(o, m, t)
         /\ Nothing(m) => t[1].isKey
<1> DEFINE n == Len(e.cached)
           s == e.cached
           j == e.keyframe + 1
<1>1. /\ n \in Nat /\ n > 0 /\ e.since \in Nat /\ Sanitized(o) /\ j \in 0 .. n
      /\ e.keyframe \in Int /\ e.keyframe >= -1
  BY DEF Base, Encoder, Candidate
<1>2. /\ Len(t) = n + 1 /\ t[n + 1].isKey
      /\ \A l \in 1 .. n : /\ t[l].filler = s[l].filler
                           /\ t[l].isKey <=> s[l].isKey /\ l # j
  BY DEF PickedKinds
<1>3. ASSUME NEW g \in Nat, Run(m, t, 0, n, g) PROVE Counts(o, e, e.since, g)
  <2> HIDE DEF n, s, j
  <2>1. \A l \in 1 .. n : /\ KeyAt(t, 0, l) => KeyAt(s, j, l)
                          /\ PlainAt(t, 0, l) => PlainAt(s, j, l)
    BY <1>2 DEF KeyAt, PlainAt
  <2>2. Run(m, s, j, n, g)
    BY <1>1, <1>3, <2>1, RunSame
  <2> QED
    BY <2>2 DEF Interval, n, s, j
<1>4. ASSUME NEW i \in 0 .. n, NEW g \in Nat, Run(m, t, 0, i, g), t[i + 1].isKey
      PROVE  g + 1 \in Spaces(o)
  <2>1. CASE i = n
    <3>1. Counts(o, e, e.since, g)
      BY <1>3, <1>4, <2>1
    <3>2. /\ e.since <= g /\ g - e.since <= Waits(o) /\ (e.since < o.kmax \/ e.since = 0)
          /\ o.kmin \in Int /\ o.kmax \in Nat
      BY <1>1, <3>1 DEF Counts, Sanitized
    <3>3. o.kmax > 0 => Waits(o) = o.kmax - o.kmin - 1
      BY <3>2 DEF Waits
    <3>4. g + 1 >= o.kmin
      BY <1>1, <3>2
    <3>5. o.kmax > 0 => g + 1 <= 2 * o.kmax - o.kmin - 1
      BY <1>1, <3>2, <3>3
    <3>6. o.kmax = 0 => g + 1 = 1
      <4>1. o.kmax = 0 => Waits(o) = 0 /\ e.since = 0
        BY <1>1, <3>2 DEF Waits
      <4> QED
        BY <1>1, <3>2, <4>1
    <3> QED
      BY <3>4, <3>5, <3>6 DEF Spaces
  <2>2. CASE i # n
    <3>1. i \in 0 .. n - 1 /\ i + 1 \in 1 .. n /\ i \in 0 .. Len(s) - 1
      BY <1>1, <2>2
    <3>2. s[i + 1].isKey /\ i + 1 # j
      <4> HIDE DEF s, j
      <4> QED
        BY <1>2, <1>4, <3>1
    <3>3. j = 0 \/ i + 1 < j
      <4>1. e.keyframe # -1 => \A l \in e.keyframe + 2 .. n : ~ s[l].isKey
        BY DEF Interval, Waiting
      <4>2. i + 1 > j => i + 1 \in e.keyframe + 2 .. n
        BY <1>1, <3>1
      <4>3. e.keyframe = -1 => j = 0
        BY <1>1
      <4> HIDE DEF s, j
      <4> QED
        BY <1>1, <3>1, <3>2, <4>1, <4>2, <4>3
    <3>4. \A l \in 1 .. i : l \in 1 .. n /\ l # j
      <4> HIDE DEF j
      <4> QED
        BY <1>1, <3>1, <3>3
    <3>5. \A l \in 1 .. i : /\ KeyAt(t, 0, l) => KeyAt(s, 0, l)
                            /\ PlainAt(t, 0, l) => PlainAt(s, 0, l)
      <4> HIDE DEF s, j, n
      <4> QED
        BY <1>2, <3>4 DEF KeyAt, PlainAt
    <3>6. Run(m, s, 0, i, g)
      <4>1. i \in Nat
        BY <3>1
      <4> HIDE DEF s, j, n
      <4> QED
        BY <1>4, <3>5, <4>1, RunSame
    <3> QED
      BY <3>1, <3>2, <3>6 DEF Base, Spaced
  <2> QED
    BY <2>1, <2>2
<1>5. Spaced(o, m, t)
  <2>1. 0 .. Len(t) - 1 = 0 .. n
    BY <1>1, <1>2
  <2>2. m.distances \subseteq Spaces(o)
    BY DEF Base, Spaced
  <2> QED
    BY <1>4, <2>1, <2>2 DEF Spaced
<1>6. ASSUME Nothing(m) PROVE t[1].isKey
  <2>1. s[1].isKey /\ e.keyframe # 0
    BY <1>1, <1>6 DEF Base, FirstIsKey
  <2>2. 1 \in 1 .. n /\ 1 # j
    BY <1>1, <2>1
  <2> HIDE DEF s, j, n
  <2> QED
    BY <1>2, <2>1, <2>2
<1> QED
  BY <1>3, <1>5, <1>6

LEMMA KeptByPicked ==
  ASSUME NEW o, NEW m, NEW e, Base(o, m, e), Interval(o, m, e), Len(e.cached) > 0,
         e.since + 1 > o.kmin, e.since + 1 < o.kmax,
         NEW p, Encoder(p),
         PickedKinds(p.cached, e.cached, Len(e.cached), e.keyframe + 1),
         p.keyframe = Len(e.cached), p.known, p.since = e.since + 1,
         p.first = e.first, p.flush = Len(e.cached)
  PROVE  Base(o, m, p) /\ Interval(o, m, p)
<1> DEFINE n == Len(e.cached)
           t == p.cached
<1>1. n \in Nat /\ n > 0 /\ e.since \in Nat /\ Sanitized(o) /\ Muxer(m)
  BY DEF Base, Encoder
<1>2. Len(t) = n + 1 /\ t[n + 1].isKey /\ ~ t[n + 1].filler /\ ~ e.first
  BY <1>1 DEF PickedKinds, Interval, Flushing
<1>3. /\ \A g \in Nat : Run(m, t, 0, n, g) => Counts(o, e, e.since, g)
      /\ Spaced(o, m, t)
      /\ Nothing(m) => t[1].isKey
  BY PickedRuns
<1>4. Base(o, m, p)
  BY <1>1, <1>2, <1>3 DEF Base, Candidate, FirstIsKey
<1>5. ASSUME NEW g \in Nat, Run(m, t, n + 1, n + 1, g) PROVE Counts(o, p, p.since, g)
  <2>1. PlainAt(t, n + 1, n + 1)
    BY <1>2 DEF PlainAt
  <2>2. g - 1 \in Nat /\ Run(m, t, n + 1, n, g - 1)
    <3> HIDE DEF n, t
    <3> QED
      BY <1>1, <1>5, <2>1, RunEnds
  <2>3. \A l \in 1 .. n : /\ KeyAt(t, n + 1, l) => KeyAt(t, 0, l)
                          /\ PlainAt(t, n + 1, l) => PlainAt(t, 0, l)
    <3>1. \A l \in 1 .. n : l # n + 1 /\ l # 0
      BY <1>1
    <3> HIDE DEF n, t
    <3> QED
      BY <3>1 DEF KeyAt, PlainAt
  <2>4. Run(m, t, 0, n, g - 1)
    <3> HIDE DEF n, t
    <3> QED
      BY <1>1, <2>2, <2>3, RunSame
  <2>5. Counts(o, e, e.since, g - 1)
    BY <1>3, <2>2, <2>4
  <2>6. e.since <= g - 1 /\ (g - 1) - e.since <= Waits(o) /\ Waits(o) \in Int
    BY <1>1, <2>5 DEF Counts, Waits, Sanitized
  <2>7. p.since <= g /\ g - p.since <= Waits(o)
    BY <1>1, <2>6
  <2>8. p.keyframe # -1
    BY <1>1
  <2> QED
    BY <2>7, <2>8 DEF Counts
<1>6. Flushing(m, p)
  <2>1. p.flush \in 0 .. (n + 1) - 1 /\ ~ p.flush > p.keyframe
    BY <1>1
  <2> QED
    BY <1>1, <1>2, <2>1 DEF Flushing
<1>7. Waiting(o, p, t, p.since)
  <2>1. p.since - ((n + 1) - (n + 1)) > o.kmin /\ \A l \in n + 2 .. n + 1 : FALSE
    BY <1>1 DEF Sanitized
  <2> QED
    BY <1>2, <2>1 DEF Waiting
<1> QED
  BY <1>2, <1>4, <1>5, <1>6, <1>7 DEF Interval

\* After kmax.
LEMMA KeptByClosed ==
  ASSUME NEW o, NEW m, NEW e, Base(o, m, e), Interval(o, m, e), Len(e.cached) > 0,
         e.since + 1 > o.kmin,
         NEW p, Encoder(p),
         \/ NextKinds(p.cached, e.cached, Len(e.cached)) /\ e.known
         \/ PickedKinds(p.cached, e.cached, Len(e.cached), e.keyframe + 1),
         p.keyframe = -1, ~ p.known, p.since = 0,
         p.first = e.first, p.flush = Len(e.cached)
  PROVE  Base(o, m, p) /\ Interval(o, m, p)
<1> DEFINE n == Len(e.cached)
           s == e.cached
           t == p.cached
           j == e.keyframe + 1
<1>1. /\ n \in Nat /\ n > 0 /\ e.since \in Nat /\ Sanitized(o) /\ Muxer(m)
      /\ j \in 0 .. n /\ e.keyframe \in Int /\ e.keyframe >= -1 /\ Len(s) = n
  BY DEF Base, Encoder, Candidate
<1>2. Len(t) = n + 1 /\ ~ e.first
  BY <1>1 DEF PickedKinds, NextKinds, Interval, Flushing
<1>3. Waits(o) \in Nat
  BY <1>1 DEF Waits, Sanitized
<1>4. Spaced(o, m, t) /\ (Nothing(m) => t[1].isKey)
  <2>1. CASE NextKinds(t, s, n)
    <3>1. SameKinds(t, s, n) /\ ~ t[n + 1].isKey /\ 1 \in 1 .. n
      BY <1>1, <2>1 DEF NextKinds
    <3>2. Nothing(m) => s[1].isKey
      BY <1>1 DEF Base, FirstIsKey
    <3>3. Spaced(o, m, s)
      BY DEF Base
    <3> HIDE DEF t, s, n
    <3>4. Spaced(o, m, t)
      BY <1>1, <1>2, <3>1, <3>3, SpacedMore
    <3> QED
      BY <3>1, <3>2, <3>4 DEF SameKinds
  <2>2. CASE PickedKinds(t, s, n, j)
    BY <2>2, PickedRuns
  <2> QED
    BY <2>1, <2>2
<1>5. Base(o, m, p)
  BY <1>1, <1>2, <1>4 DEF Base, Candidate, FirstIsKey
<1>6. ASSUME NEW g \in Nat, Run(m, t, 0, n + 1, g) PROVE g <= Waits(o)
  <2>1. CASE PickedKinds(t, s, n, j)
    <3>1. KeyAt(t, 0, n + 1)
      BY <1>1, <2>1 DEF PickedKinds, KeyAt
    <3>2. g = 0
      <4> HIDE DEF n, t
      <4> QED
        BY <1>1, <1>6, <3>1, RunEnds
    <3> QED
      BY <1>3, <3>2
  <2>2. CASE NextKinds(t, s, n) /\ e.known /\ e.keyframe = -1
    <3>1. Run(m, t, e.keyframe + 1, n + 1, g)
      <4>1. e.keyframe + 1 = 0
        BY <2>2
      <4> QED
        BY <1>6, <4>1
    <3>2. Counts(o, e, e.since, g - 1)
      BY <2>2, <3>1, NextRun
    <3> QED
      BY <2>2, <3>2 DEF Counts
  <2>3. CASE NextKinds(t, s, n) /\ e.keyframe # -1
    <3>1. /\ \A l \in 1 .. n : t[l].isKey = s[l].isKey /\ t[l].filler = s[l].filler
          /\ ~ t[n + 1].isKey /\ ~ t[n + 1].filler
      BY <2>3 DEF NextKinds, SameKinds
    <3>2. /\ e.since - (n - j) > o.kmin /\ \A l \in j + 1 .. n : ~ s[l].isKey
          /\ s[j].isKey /\ j \in 1 .. n
      <4>1. e.keyframe + 2 = j + 1
        BY <1>1
      <4>2. j \in 1 .. n
        BY <1>1, <2>3
      <4> HIDE DEF j
      <4> QED
        BY <2>3, <4>1, <4>2 DEF Interval, Waiting, Base, Candidate, j
    <3> HIDE DEF j, t, s, n
    <3>3. \A l \in j + 1 .. n + 1 : l = n + 1 \/ (l \in 1 .. n /\ l \in j + 1 .. n)
      BY <1>1
    <3>4. KeyAt(t, 0, j) /\ (\A l \in j + 1 .. n + 1 : ~ KeyAt(t, 0, l))
      <4>1. t[j].isKey = s[j].isKey /\ j # 0
        <5>1. j \in 1 .. n /\ j # 0
          BY <3>2
        <5>2. t[j].isKey = s[j].isKey
          BY <3>1, <5>1, Zenon
        <5> QED
          BY <5>1, <5>2
      <4>2. KeyAt(t, 0, j)
        BY <3>2, <4>1 DEF KeyAt
      <4>3. \A l \in j + 1 .. n + 1 : ~ t[l].isKey
        BY <3>1, <3>2, <3>3
      <4> QED
        BY <4>2, <4>3 DEF KeyAt
    <3>5. g = (n + 1) - j /\ \A l \in j + 1 .. n + 1 : PlainAt(t, 0, l)
      <4>1. n + 1 \in Nat /\ j \in 1 .. n + 1
        BY <1>1, <3>2
      <4> QED
        <5> DEFINE k == n + 1
        <5>1. k \in Nat /\ j \in 1 .. k /\ Run(m, t, 0, k, g)
          BY <1>6, <4>1
        <5>2. KeyAt(t, 0, j) /\ \A l \in j + 1 .. k : ~ KeyAt(t, 0, l)
          BY <3>4
        <5> HIDE DEF k
        <5>3. g = k - j /\ \A l \in j + 1 .. k : PlainAt(t, 0, l)
          BY <1>1, <5>1, <5>2, RunFromKey
        <5> QED
          BY <5>3 DEF k
    <3>6. NoFillerAfter(s, j)
      <4>1. \A l \in j + 1 .. n : l \in 1 .. n /\ l \in j + 1 .. n + 1
        BY <1>1
      <4> QED
        BY <1>1, <3>1, <3>5, <4>1 DEF NoFillerAfter, PlainAt
    <3>7. e.since < o.kmax
      BY <2>3, <3>6 DEF Interval, s, j
    <3> QED
      BY <1>1, <3>2, <3>5, <3>7 DEF Waits, Sanitized
  <2> QED
    BY <2>1, <2>2, <2>3
<1>7. \A g \in Nat : Run(m, t, 0, n + 1, g) => Counts(o, p, 0, g)
  BY <1>3, <1>6 DEF Counts
<1>8. Flushing(m, p)
  <2>1. p.flush \in 0 .. (n + 1) - 1
    BY <1>1
  <2> QED
    BY <1>1, <1>2, <2>1 DEF Flushing
<1> QED
  BY <1>2, <1>5, <1>7, <1>8 DEF Interval, Waiting

-----------------------------------------------------------------------------
(* CacheNextFrame.                                                            *)

\* The frame is cached as a sub-frame.
SubFrame(e, c, dispose) == [CacheSubFrame(e, c, dispose) EXCEPT !.undecided = FALSE]

\* What q is then.
IsSubFrame(q, e, c, dispose) ==
  LET n == Len(e.cached) IN
  /\ Encoder(q) /\ Len(q.cached) = n + 1
  /\ \A i \in 1 .. n - 1 : q.cached[i] = e.cached[i]
  /\ Redisposed(q.cached[n], e.cached[n])
  /\ Chosen(q.cached[n]).dispose = dispose
  /\ e.undecided => q.cached[n].sub.dispose = dispose /\ q.cached[n].key.dispose = dispose
  /\ q.cached[n + 1] = NewFrame(c, dispose, e.rect)
  /\ q.since = e.since + 1 /\ q.rect = "sub" /\ q.undecided = FALSE
  /\ q.start = e.start /\ q.flush = e.flush /\ q.keyframe = e.keyframe
  /\ q.known = e.known /\ q.first = e.first
  /\ q.gotNull = e.gotNull /\ q.canvas = e.canvas
  /\ q.inFrames = e.inFrames /\ q.pushed = e.pushed
  /\ q.overrun = e.overrun /\ q.phase = e.phase

LEMMA DecidedFields ==
  ASSUME NEW e, Encoder(e), Len(e.cached) > 0, NEW c \in 0 .. 1, NEW dispose \in Disposal
  PROVE  IsSubFrame(SubFrame(e, c, dispose), e, c, dispose)
<1> DEFINE n == Len(e.cached)
           r == CacheSubFrame(e, c, dispose)
           q == [r EXCEPT !.undecided = FALSE]
<1>1. /\ Encoder(r) /\ Len(r.cached) = n + 1
      /\ \A i \in 1 .. n - 1 : r.cached[i] = e.cached[i]
      /\ Redisposed(r.cached[n], e.cached[n])
      /\ Chosen(r.cached[n]).dispose = dispose
      /\ e.undecided => /\ r.cached[n].sub.dispose = dispose
                        /\ r.cached[n].key.dispose = dispose
      /\ r.cached[n + 1] = NewFrame(c, dispose, e.rect)
      /\ r.since = e.since + 1 /\ r.rect = "sub"
      /\ r.start = e.start /\ r.flush = e.flush /\ r.keyframe = e.keyframe
      /\ r.known = e.known /\ r.first = e.first
      /\ r.gotNull = e.gotNull /\ r.canvas = e.canvas
      /\ r.inFrames = e.inFrames /\ r.pushed = e.pushed
      /\ r.overrun = e.overrun /\ r.phase = e.phase
  BY SubFrameFields
<1> HIDE DEF r
<1>2. Encoder(q)
  BY <1>1 DEF Encoder
<1>3. /\ q.cached = r.cached /\ q.undecided = FALSE
      /\ q.since = r.since /\ q.rect = r.rect
      /\ q.start = r.start /\ q.flush = r.flush /\ q.keyframe = r.keyframe
      /\ q.known = r.known /\ q.first = r.first
      /\ q.gotNull = r.gotNull /\ q.canvas = r.canvas
      /\ q.inFrames = r.inFrames /\ q.pushed = r.pushed
      /\ q.overrun = r.overrun /\ q.phase = r.phase
  BY <1>1 DEF Encoder
<1>4. q = SubFrame(e, c, dispose)
  BY DEF SubFrame, r
<1> HIDE DEF q, n
<1> QED
  BY <1>1, <1>2, <1>3, <1>4 DEF IsSubFrame, n

Early(o, e) == e.since + 1 <= o.kmin
Picks(o, e, picked) == ~ Early(o, e) /\ (picked \/ ~ e.known)
Closes(o, e) == ~ Early(o, e) /\ e.since + 1 >= o.kmax

\* What p is if q is the encoder with the new sub-frame.
IsNext(p, q, o, e, picked) ==
  LET n == Len(e.cached)
      picks == Picks(o, e, picked)
      closes == Closes(o, e)
  IN  /\ Encoder(p) /\ Len(p.cached) = n + 1
      /\ ~ picks => p.cached = q.cached
      /\ picks => /\ \A i \in 1 .. n : i # e.keyframe + 1 => p.cached[i] = q.cached[i]
                  /\ e.keyframe # -1 => Rechosen(p.cached[e.keyframe + 1],
                                                 q.cached[e.keyframe + 1], FALSE)
                  /\ Rechosen(p.cached[n + 1], q.cached[n + 1], TRUE)
      /\ p.flush = IF Early(o, e) \/ picks \/ closes THEN n ELSE e.flush
      /\ p.since = IF closes THEN 0 ELSE e.since + 1
      /\ p.keyframe = IF closes THEN -1 ELSE IF picks THEN n ELSE e.keyframe
      /\ p.known = IF closes THEN FALSE ELSE IF picks THEN TRUE ELSE e.known
      /\ p.undecided = picks
      /\ p.rect = IF picks THEN "key" ELSE "sub"
      /\ p.start = e.start /\ p.first = e.first
      /\ p.gotNull = e.gotNull /\ p.canvas = e.canvas
      /\ p.inFrames = e.inFrames /\ p.pushed = e.pushed
      /\ p.overrun = e.overrun /\ p.phase = e.phase

LEMMA NextFields ==
  ASSUME NEW m, NEW e, Base(options, m, e), Len(e.cached) > 0,
         NEW c \in 0 .. 1, NEW dispose \in Disposal, NEW picked \in BOOLEAN
  PROVE  IsNext(CacheNextFrame(e, c, dispose, picked), SubFrame(e, c, dispose),
                options, e, picked)
<1> DEFINE n == Len(e.cached)
           q == SubFrame(e, c, dispose)
           p == CacheNextFrame(e, c, dispose, picked)
           o == options
<1>1. /\ Encoder(e) /\ n \in Nat /\ n > 0 /\ e.since \in Nat /\ Sanitized(o)
      /\ e.keyframe \in -1 .. n - 1 /\ e.known \in BOOLEAN
  BY DEF Base, Encoder, Candidate
<1>2. /\ Encoder(q) /\ Len(q.cached) = n + 1
      /\ q.since = e.since + 1 /\ q.rect = "sub" /\ q.undecided = FALSE
      /\ q.start = e.start /\ q.flush = e.flush /\ q.keyframe = e.keyframe
      /\ q.known = e.known /\ q.first = e.first
      /\ q.gotNull = e.gotNull /\ q.canvas = e.canvas
      /\ q.inFrames = e.inFrames /\ q.pushed = e.pushed
      /\ q.overrun = e.overrun /\ q.phase = e.phase
  <2>1. IsSubFrame(q, e, c, dispose)
    BY <1>1, DecidedFields
  <2> HIDE DEF q
  <2> QED
    BY <2>1 DEF IsSubFrame
<1>3. p = IF Early(o, e) THEN [q EXCEPT !.flush = n]
          ELSE CloseInterval(IF picked \/ ~ e.known THEN PickKeyFrame(q) ELSE q)
  <2>1. q.since <= o.kmin <=> Early(o, e)
    BY <1>2 DEF Early
  <2> QED
    BY <2>1 DEF CacheNextFrame, SubFrame, Early
<1> HIDE DEF n, q, p
<1>4. CASE Early(o, e)
  <2>1. p = [q EXCEPT !.flush = n] /\ ~ Picks(o, e, picked) /\ ~ Closes(o, e)
    BY <1>3, <1>4 DEF Picks, Closes
  <2>2. Encoder(p)
    BY <1>1, <1>2, <2>1 DEF Encoder
  <2>3. /\ p.cached = q.cached /\ p.flush = n /\ p.since = q.since /\ p.rect = q.rect
        /\ p.undecided = q.undecided /\ p.keyframe = q.keyframe
        /\ p.start = q.start /\ p.known = q.known /\ p.first = q.first
        /\ p.gotNull = q.gotNull /\ p.canvas = q.canvas
        /\ p.inFrames = q.inFrames /\ p.pushed = q.pushed
        /\ p.overrun = q.overrun /\ p.phase = q.phase
    BY <1>2, <2>1 DEF Encoder
  <2> DEFINE picks == Picks(o, e, picked)
             closes == Closes(o, e)
  <2>4. picks = FALSE /\ closes = FALSE
    BY <1>4 DEF Picks, Closes
  <2> HIDE DEF picks, closes
  <2>5. p.since = (IF closes THEN 0 ELSE e.since + 1)
        /\ p.flush = (IF Early(o, e) \/ picks \/ closes THEN n ELSE e.flush)
        /\ p.keyframe = (IF closes THEN -1 ELSE IF picks THEN n ELSE e.keyframe)
    BY <1>2, <1>4, <2>3, <2>4
  <2>6. p.known = (IF closes THEN FALSE ELSE IF picks THEN TRUE ELSE e.known)
    BY <1>2, <2>3, <2>4
  <2>7. p.undecided = picks
    BY <1>2, <2>3, <2>4
  <2>8. p.rect = (IF picks THEN "key" ELSE "sub")
    BY <1>2, <2>3, <2>4
  <2> QED
    BY <1>2, <2>2, <2>3, <2>4, <2>5, <2>6, <2>7, <2>8 DEF IsNext, picks, closes, n, p, q
<1>5. CASE ~ Early(o, e)
  <2> DEFINE r == IF picked \/ ~ e.known THEN PickKeyFrame(q) ELSE q
             picks == Picks(o, e, picked)
  <2>1. p = CloseInterval(r) /\ (picks <=> picked \/ ~ e.known)
    BY <1>3, <1>5 DEF Picks
  <2>2. /\ Encoder(r) /\ Len(r.cached) = n + 1
        /\ r.keyframe = (IF picks THEN n ELSE q.keyframe)
        /\ r.flush = (IF picks THEN n ELSE q.flush)
        /\ r.known = (IF picks THEN TRUE ELSE q.known)
        /\ r.undecided = picks /\ r.rect = (IF picks THEN "key" ELSE "sub")
        /\ r.since = q.since /\ r.start = q.start /\ r.first = q.first
        /\ r.gotNull = q.gotNull /\ r.canvas = q.canvas
        /\ r.inFrames = q.inFrames /\ r.pushed = q.pushed
        /\ r.overrun = q.overrun /\ r.phase = q.phase
        /\ ~ picks => r.cached = q.cached
        /\ picks => /\ \A i \in 1 .. n : i # e.keyframe + 1 => r.cached[i] = q.cached[i]
                    /\ e.keyframe # -1 => Rechosen(r.cached[e.keyframe + 1],
                                           q.cached[e.keyframe + 1], FALSE)
                    /\ Rechosen(r.cached[n + 1], q.cached[n + 1], TRUE)
    <3>1. CASE picks
      <4>1. r = PickKeyFrame(q)
        BY <2>1, <3>1
      <4>2. q.keyframe \in -1 .. Len(q.cached) - 2
        BY <1>1, <1>2
      <4> DEFINE k == Len(q.cached)
      <4>3. /\ Encoder(r) /\ Len(r.cached) = k
            /\ \A i \in 1 .. k - 1 : i # q.keyframe + 1 => r.cached[i] = q.cached[i]
            /\ q.keyframe # -1 => Rechosen(r.cached[q.keyframe + 1],
                                           q.cached[q.keyframe + 1], FALSE)
            /\ Rechosen(r.cached[k], q.cached[k], TRUE)
            /\ r.undecided = TRUE /\ r.keyframe = k - 1 /\ r.known = TRUE
            /\ r.flush = k - 1 /\ r.rect = "key"
            /\ r.since = q.since /\ r.start = q.start /\ r.first = q.first
            /\ r.gotNull = q.gotNull /\ r.canvas = q.canvas
            /\ r.inFrames = q.inFrames /\ r.pushed = q.pushed
            /\ r.overrun = q.overrun /\ r.phase = q.phase
        <5> HIDE DEF r
        <5> QED
          BY <1>2, <4>1, <4>2, PickFields
      <4> HIDE DEF r, picks, k
      <4>4. k = n + 1 /\ k - 1 = n
        BY <1>1, <1>2 DEF k
      <4> QED
        BY <1>2, <3>1, <4>3, <4>4
    <3>2. CASE ~ picks
      <4>1. r = q
        BY <2>1, <3>2
      <4>2. picks = FALSE
        BY <3>2 DEF Picks
      <4> HIDE DEF r, picks
      <4> QED
        BY <1>2, <4>1, <4>2
    <3> QED
      BY <3>1, <3>2
  <2> DEFINE closes == Closes(o, e)
  <2> HIDE DEF r
  <2>3. /\ Encoder(p) /\ p.cached = r.cached
        /\ p.flush = (IF closes THEN n ELSE r.flush)
        /\ p.since = (IF closes THEN 0 ELSE r.since)
        /\ p.keyframe = (IF closes THEN -1 ELSE r.keyframe)
        /\ p.known = (IF closes THEN FALSE ELSE r.known)
        /\ p.undecided = r.undecided /\ p.start = r.start /\ p.first = r.first
        /\ p.gotNull = r.gotNull /\ p.canvas = r.canvas /\ p.rect = r.rect
        /\ p.inFrames = r.inFrames /\ p.pushed = r.pushed
        /\ p.overrun = r.overrun /\ p.phase = r.phase
    <3>1. (r.since >= o.kmax <=> closes) /\ Len(r.cached) - 1 = n /\ o.kmax \in Int
      BY <1>1, <1>2, <1>5, <2>2 DEF Closes, Sanitized
    <3> HIDE DEF closes
    <3> QED
      BY <2>1, <2>2, <3>1, CloseFields
  <2> HIDE DEF picks, closes
  <2>4. p.since = (IF closes THEN 0 ELSE e.since + 1)
        /\ p.flush = (IF Early(o, e) \/ picks \/ closes THEN n ELSE e.flush)
        /\ p.keyframe = (IF closes THEN -1 ELSE IF picks THEN n ELSE e.keyframe)
    BY <1>2, <1>5, <2>2, <2>3
  <2>5. p.known = (IF closes THEN FALSE ELSE IF picks THEN TRUE ELSE e.known)
    BY <1>2, <2>2, <2>3
  <2>6. p.undecided = picks
    BY <2>2, <2>3
  <2>7. p.rect = (IF picks THEN "key" ELSE "sub")
    BY <2>2, <2>3
  <2> QED
    BY <1>2, <2>2, <2>3, <2>4, <2>5, <2>6, <2>7 DEF IsNext, picks, closes, n, p, q
<1> QED
  BY <1>4, <1>5

LEMMA KeptByNext ==
  ASSUME NEW m, NEW e, Base(options, m, e), Interval(options, m, e), Len(e.cached) > 0,
         NEW c \in 0 .. 1, NEW dispose \in Disposal, NEW picked \in BOOLEAN
  PROVE  LET p == CacheNextFrame(e, c, dispose, picked) IN
         Base(options, m, p) /\ Interval(options, m, p)
<1> DEFINE n == Len(e.cached)
           s == e.cached
           q == SubFrame(e, c, dispose)
           p == CacheNextFrame(e, c, dispose, picked)
           o == options
           j == e.keyframe + 1
<1>1. /\ Encoder(e) /\ n \in Nat /\ n > 0 /\ e.since \in Nat /\ Sanitized(o)
      /\ j \in 0 .. n /\ s \in Seq(Frame) /\ e.keyframe \in Int /\ j = e.keyframe + 1
  BY DEF Base, Encoder, Candidate
<1>2. /\ Len(q.cached) = n + 1
      /\ \A i \in 1 .. n - 1 : q.cached[i] = e.cached[i]
      /\ Redisposed(q.cached[n], e.cached[n])
      /\ q.cached[n + 1] = NewFrame(c, dispose, e.rect)
  <2>1. Encoder(e) /\ Len(e.cached) > 0
    BY <1>1
  <2> QED
    <3>1. IsSubFrame(q, e, c, dispose)
      BY <2>1, DecidedFields
    <3> HIDE DEF q
    <3> QED
      BY <3>1 DEF IsSubFrame
<1>3. /\ Encoder(p) /\ Len(p.cached) = n + 1
      /\ ~ Picks(o, e, picked) => p.cached = q.cached
      /\ Picks(o, e, picked) =>
           /\ \A i \in 1 .. n : i # j => p.cached[i] = q.cached[i]
           /\ e.keyframe # -1 => Rechosen(p.cached[j], q.cached[j], FALSE)
           /\ Rechosen(p.cached[n + 1], q.cached[n + 1], TRUE)
      /\ p.flush = (IF Early(o, e) \/ Picks(o, e, picked) \/ Closes(o, e) THEN n
                    ELSE e.flush)
      /\ p.since = (IF Closes(o, e) THEN 0 ELSE e.since + 1)
      /\ p.keyframe = (IF Closes(o, e) THEN -1 ELSE IF Picks(o, e, picked) THEN n
                       ELSE e.keyframe)
      /\ p.known = (IF Closes(o, e) THEN FALSE ELSE IF Picks(o, e, picked) THEN TRUE
                    ELSE e.known)
      /\ p.first = e.first
  <2>1. IsNext(p, q, o, e, picked)
    BY <1>1, NextFields
  <2> HIDE DEF p, q
  <2> QED
    BY <2>1 DEF IsNext
<1>4. /\ NewFrame(c, dispose, e.rect).isKey = FALSE
      /\ NewFrame(c, dispose, e.rect).filler = FALSE
  <2>1. IsNew(NewFrame(c, dispose, e.rect), c, dispose, e.rect)
    BY <1>1, NewFrameFields DEF Encoder
  <2> QED
    BY <2>1 DEF IsNew
<1> HIDE DEF p, q, n, s, j
<1>5. NextKinds(q.cached, s, n)
  <2>1. \A i \in 1 .. n : i \in 1 .. n - 1 \/ i = n
    BY <1>1
  <2>2. \A i \in 1 .. n : /\ q.cached[i].isKey = s[i].isKey
                          /\ q.cached[i].filler = s[i].filler
    BY <1>2, <2>1, Zenon DEF Redisposed, s, n
  <2> QED
    BY <1>2, <1>4, <2>2 DEF NextKinds, SameKinds
<1>6. ASSUME Picks(o, e, picked) PROVE PickedKinds(p.cached, s, n, j)
  <2>1. \A i \in 1 .. n : /\ q.cached[i].isKey = s[i].isKey
                          /\ q.cached[i].filler = s[i].filler
    BY <1>5 DEF NextKinds, SameKinds
  <2>2. p.cached[n + 1].isKey /\ ~ p.cached[n + 1].filler
    BY <1>2, <1>3, <1>4, <1>6 DEF Rechosen
  <2>3. ASSUME NEW i \in 1 .. n, i # j
        PROVE  p.cached[i].isKey = s[i].isKey /\ p.cached[i].filler = s[i].filler
    BY <1>3, <1>6, <2>1, <2>3, Zenon
  <2>4. ASSUME j \in 1 .. n
        PROVE  p.cached[j].isKey = FALSE /\ p.cached[j].filler = s[j].filler
    <3>1. e.keyframe # -1
      BY <1>1, <2>4
    <3>2. Rechosen(p.cached[j], q.cached[j], FALSE)
      BY <1>3, <1>6, <3>1
    <3>3. q.cached[j].filler = s[j].filler
      BY <2>1, <2>4, Zenon
    <3> QED
      BY <3>2, <3>3 DEF Rechosen
  <2>5. ASSUME NEW l \in 1 .. n
        PROVE  /\ p.cached[l].filler = s[l].filler
               /\ p.cached[l].isKey <=> s[l].isKey /\ l # j
    BY <2>3, <2>4, <2>5, Zenon
  <2> QED
    BY <1>3, <2>2, <2>5 DEF PickedKinds
<1>7. o.kmin \in Int /\ o.kmax \in Nat
  BY <1>1 DEF Sanitized
<1>8. CASE Early(o, e)
  <2>1. ~ Picks(o, e, picked) /\ ~ Closes(o, e) /\ e.since + 1 <= o.kmin
    BY <1>8 DEF Picks, Closes, Early
  <2>2. /\ NextKinds(p.cached, s, n) /\ p.flush = n /\ p.since = e.since + 1
        /\ p.keyframe = e.keyframe /\ p.known = e.known /\ p.first = e.first
    BY <1>3, <1>5, <1>8, <2>1, Zenon
  <2> QED
    BY <1>3, <2>1, <2>2, KeptByEarly DEF p, n, s
<1>9. CASE ~ Early(o, e) /\ Closes(o, e)
  <2>1. e.since + 1 > o.kmin /\ (~ Picks(o, e, picked) => e.known)
    BY <1>1, <1>7, <1>9 DEF Picks, Early
  <2>2. \/ NextKinds(p.cached, s, n) /\ e.known
        \/ PickedKinds(p.cached, s, n, j)
    BY <1>3, <1>5, <1>6, <2>1
  <2>3. p.keyframe = -1 /\ ~ p.known /\ p.since = 0 /\ p.first = e.first /\ p.flush = n
    BY <1>3, <1>9
  <2> QED
    BY <1>3, <2>1, <2>2, <2>3, KeptByClosed DEF p, n, s, j
<1>10. CASE ~ Early(o, e) /\ ~ Closes(o, e)
  <2>1. e.since + 1 > o.kmin /\ e.since + 1 < o.kmax
    BY <1>1, <1>7, <1>10 DEF Early, Closes
  <2>2. CASE Picks(o, e, picked)
    <3>1. /\ p.keyframe = n /\ p.known /\ p.since = e.since + 1 /\ p.first = e.first
          /\ p.flush = n
      BY <1>3, <1>10, <2>2
    <3>2. PickedKinds(p.cached, s, n, j)
      BY <1>6, <2>2
    <3> QED
      BY <1>3, <2>1, <3>1, <3>2, KeptByPicked DEF p, n, s, j
  <2>3. CASE ~ Picks(o, e, picked)
    <3>1. e.known
      BY <1>10, <2>3 DEF Picks
    <3>2. /\ p.keyframe = e.keyframe /\ p.since = e.since + 1
          /\ p.flush = e.flush /\ p.cached = q.cached
      BY <1>3, <1>10, <2>3
    <3>3. p.known = e.known /\ p.first = e.first
      BY <1>3, <1>10, <2>3, Zenon
    <3>4. NextKinds(p.cached, s, n)
      BY <1>5, <3>2
    <3> QED
      BY <1>3, <2>1, <3>1, <3>2, <3>3, <3>4, KeptByOther DEF p, n, s
  <2> QED
    BY <2>2, <2>3
<1> QED
  BY <1>8, <1>9, <1>10

-----------------------------------------------------------------------------
(* The operations of the encoder.  m is what the muxer has before the call,   *)
(* and the frames that the call has pushed come after that.                   *)

LEMMA MuxConcat ==
  ASSUME NEW m, NEW s \in Seq(Frame), NEW t \in Seq(Frame)
  PROVE  Muxed(m, s \o t) = Muxed(Muxed(m, s), t)
<1> DEFINE S == { n \in Nat : \A u \in Seq(Frame) :
                    Len(u) = n => Muxed(m, s \o u) = Muxed(Muxed(m, s), u) }
<1>1. 0 \in S
  <2>1. ASSUME NEW u \in Seq(Frame), Len(u) = 0
        PROVE  Muxed(m, s \o u) = Muxed(Muxed(m, s), u)
    <3>1. u = << >> /\ s \o << >> = s
      BY <2>1, EmptySeq, ConcatEmptySeq
    <3> QED
      BY <3>1, MuxNothing
  <2> QED
    BY <2>1
<1>2. ASSUME NEW n \in Nat, n \in S PROVE n + 1 \in S
  <2> SUFFICES ASSUME NEW u \in Seq(Frame), Len(u) = n + 1
               PROVE  Muxed(m, s \o u) = Muxed(Muxed(m, s), u)
    OBVIOUS
  <2>1. PICK v \in Seq(Frame), f \in Frame : u = Append(v, f)
    <3>1. u # << >>
      OBVIOUS
    <3> QED
      BY <3>1, SequenceEmptyOrAppend
  <2>2. Len(v) = n
    BY <2>1
  <2>3. Muxed(m, s \o v) = Muxed(Muxed(m, s), v)
    BY <1>2, <2>2
  <2>4. s \o u = Append(s \o v, f) /\ s \o v \in Seq(Frame)
    BY <2>1
  <2>5. Muxed(m, s \o u) = MuxFrame(Muxed(m, s \o v), f)
    <3> DEFINE w == s \o v
    <3>1. w \in Seq(Frame) /\ f \in Frame /\ s \o u = Append(w, f)
      BY <2>4
    <3> HIDE DEF w
    <3>2. Muxed(m, Append(w, f)) = MuxFrame(Muxed(m, w), f)
      BY <3>1, MuxMore
    <3> QED
      BY <3>1, <3>2 DEF w
  <2>6. Muxed(Muxed(m, s), u) = MuxFrame(Muxed(Muxed(m, s), v), f)
    BY <2>1, MuxMore
  <2> QED
    BY <2>3, <2>5, <2>6
<1> HIDE DEF S
<1>3. Nat \subseteq S
  BY <1>1, <1>2, Induction
<1>4. Len(t) \in Nat
  OBVIOUS
<1> QED
  BY <1>3, <1>4 DEF S

\* Of the muxer only the last frames matter.
LEMMA KeptBySameMux ==
  ASSUME NEW o, NEW m, NEW e, Base(o, m, e), NEW q, Muxer(q), q.last = m.last,
         q.gap = m.gap, q.split = m.split, q.distances \subseteq Spaces(o)
  PROVE  Base(o, q, e) /\ (Interval(o, m, e) => Interval(o, q, e))
<1>1. (Started(q) <=> Started(m)) /\ (Nothing(q) <=> Nothing(m))
  BY DEF Started, Nothing
<1>2. \A x, i, g : Run(q, e.cached, x, i, g) <=> Run(m, e.cached, x, i, g)
  BY <1>1 DEF Run
<1>3. Base(o, q, e)
  BY <1>1, <1>2 DEF Base, Spaced, FirstIsKey
<1>4. ASSUME Interval(o, m, e) PROVE Interval(o, q, e)
  <2>1. Flushing(q, e)
    BY <1>1, <1>4 DEF Interval, Flushing
  <2> QED
    BY <1>2, <1>4, <2>1 DEF Interval
<1> QED
  BY <1>3, <1>4

Live(e) == e.phase = "adding" /\ ~ e.overrun
Behind(m, e) == Muxed(m, e.pushed)
Kept(o, m, e) ==
  Base(o, Behind(m, e), e) /\ (Live(e) => Interval(o, Behind(m, e), e))

\* Only what does not matter differs.
LEMMA KeptSameKinds ==
  ASSUME NEW o, NEW m, NEW e, Kept(o, m, e), NEW p, Encoder(p),
         Len(p.cached) = Len(e.cached), SameKinds(p.cached, e.cached, Len(e.cached)),
         p.pushed = e.pushed, p.keyframe = e.keyframe, Live(p) => Live(e),
         Live(p) => p.flush = e.flush /\ p.known = e.known /\ p.since = e.since
                    /\ p.first = e.first
  PROVE  Kept(o, m, p)
<1>1. Behind(m, p) = Behind(m, e)
  BY DEF Behind
<1>2. Base(o, Behind(m, p), p)
  BY <1>1, KeptBase DEF Kept
<1>3. ASSUME Live(p) PROVE Interval(o, Behind(m, p), p)
  BY <1>1, <1>3, KeptInterval DEF Kept
<1> QED
  BY <1>2, <1>3 DEF Kept

LEMMA KeptSame ==
  ASSUME NEW o, NEW m, NEW e, Kept(o, m, e), NEW p, Encoder(p), p.cached = e.cached,
         p.pushed = e.pushed, p.keyframe = e.keyframe, Live(p) => Live(e),
         Live(p) => p.flush = e.flush /\ p.known = e.known /\ p.since = e.since
                    /\ p.first = e.first
  PROVE  Kept(o, m, p)
<1>1. SameKinds(p.cached, e.cached, Len(e.cached)) /\ Len(p.cached) = Len(e.cached)
  BY DEF SameKinds
<1> QED
  BY <1>1, KeptSameKinds

LEMMA KeptByOverrun ==
  ASSUME NEW o, NEW m, NEW e, Kept(o, m, e) PROVE Kept(o, m, Overrun(e))
<1>1. Encoder(e)
  BY DEF Kept, Base
<1>2. /\ Encoder(Overrun(e)) /\ Overrun(e).overrun
      /\ SameState(Overrun(e), e) /\ Overrun(e).cached = e.cached
  BY <1>1, OverrunFields
<1>3. ~ Live(Overrun(e))
  BY <1>2 DEF Live
<1> QED
  BY <1>2, <1>3, KeptSame DEF SameState

\* IncreasePreviousDuration.
IncreaseResult(e, d, p) ==
  \/ p = Overrun(e)
  \/ /\ ~ TooLong(e, d) /\ ~ OutOfArray(e, Len(e.cached) - 1)
     /\ p = [e EXCEPT !.cached[Len(e.cached)] = Longer(e.cached[Len(e.cached)], d)]
  \/ ~ OutOfArray(e, Len(e.cached)) /\ TooLong(e, d) /\ p = AddFiller(e, d)

LEMMA IncreaseResults ==
  \A e, d : IncreaseResult(e, d, IncreasePreviousDuration(e, d))
BY DEF IncreasePreviousDuration, IncreaseResult

LEMMA KeptByIncrease ==
  ASSUME NEW o, NEW m, NEW e, Kept(o, m, e), Len(e.cached) > 0, NEW d \in Nat
  PROVE  LET p == IncreasePreviousDuration(e, d) IN
         Kept(o, m, p) /\ p.phase = e.phase /\ p.first = e.first
<1> DEFINE p == IncreasePreviousDuration(e, d)
           a == [e EXCEPT !.cached[Len(e.cached)] = Longer(e.cached[Len(e.cached)], d)]
           b == Behind(m, e)
<1>1. IncreaseResult(e, d, p)
  BY IncreaseResults
<1> HIDE DEF p
<1>2. Encoder(e) /\ Base(o, b, e) /\ (Live(e) => Interval(o, b, e))
  BY DEF Kept, Base
<1>3. CASE p = Overrun(e)
  <2>1. p.phase = e.phase /\ p.first = e.first
    BY <1>2, <1>3, OverrunFields DEF SameState
  <2> QED
    BY <1>3, <2>1, KeptByOverrun DEF p
<1>4. CASE p = a
  <2> HIDE DEF b
  <2>1. SameState(a, e) /\ a.overrun = e.overrun
    BY <1>2, LongerLast
  <2>2. Base(o, b, a) /\ (Interval(o, b, e) => Interval(o, b, a))
    BY <1>2, KeptByLonger
  <2> HIDE DEF a
  <2>3. Behind(m, a) = b /\ (Live(a) <=> Live(e)) /\ a.phase = e.phase
        /\ a.first = e.first
    BY <2>1 DEF Behind, SameState, Live, b
  <2> QED
    BY <1>2, <1>4, <2>2, <2>3 DEF Kept, p
<1>5. CASE p = AddFiller(e, d)
  <2> HIDE DEF b
  <2>1. /\ p.first = e.first /\ p.pushed = e.pushed
        /\ p.overrun = e.overrun /\ p.phase = e.phase
    BY <1>2, <1>5, FillerFields DEF Filled
  <2>2. Base(o, b, p) /\ (Interval(o, b, e) => Interval(o, b, p))
    BY <1>2, <1>5, KeptByFiller
  <2>3. Behind(m, p) = b /\ (Live(p) <=> Live(e))
    BY <2>1 DEF Behind, Live, b
  <2> QED
    BY <1>2, <2>1, <2>2, <2>3 DEF Kept, p
<1> QED
  BY <1>1, <1>3, <1>4, <1>5 DEF IncreaseResult

LEMMA BaseByPushing ==
  ASSUME NEW o, NEW m, NEW e, Base(o, Behind(m, e), e), NEW k \in 0 .. Len(e.cached)
  PROVE  LET p == PushFrames(e, k) IN
         /\ Base(o, Behind(m, p), p)
         /\ Behind(m, p) = Muxed(Behind(m, e), SubSeq(e.cached, 1, k))
<1> DEFINE p == PushFrames(e, k)
           b == Behind(m, e)
           s == SubSeq(e.cached, 1, k)
<1>1. Encoder(e) /\ Base(o, b, e)
  BY DEF Base
<1>2. Base(o, Muxed(b, s), p)
  <2> HIDE DEF b
  <2> QED
    BY <1>1, KeptByPush
<1>3. p.pushed = e.pushed \o s
  BY <1>1, PushFields DEF Pushes
<1>4. s \in Seq(Frame) /\ e.pushed \in Seq(Frame)
  BY <1>1 DEF Encoder
<1>5. Muxed(m, e.pushed \o s) = Muxed(b, s)
  <2> HIDE DEF s
  <2> QED
    BY <1>4, MuxConcat DEF Behind
<1> HIDE DEF p, s, b
<1>6. Behind(m, p) = Muxed(b, s)
  BY <1>3, <1>5 DEF Behind
<1> QED
  BY <1>2, <1>6 DEF p, b, s

LEMMA KeptByPushing ==
  ASSUME NEW o, NEW m, NEW e, Kept(o, m, e), NEW k \in 0 .. Len(e.cached),
         Live(e) => k <= e.flush
  PROVE  Kept(o, m, PushFrames(e, k))
<1> DEFINE p == PushFrames(e, k)
           b == Behind(m, e)
<1>1. Encoder(e) /\ Base(o, b, e) /\ (Live(e) => Interval(o, b, e))
  BY DEF Kept, Base
<1>2. Base(o, Behind(m, p), p) /\ Behind(m, p) = Muxed(b, SubSeq(e.cached, 1, k))
  BY <1>1, BaseByPushing
<1>3. p.overrun = e.overrun /\ p.phase = e.phase
  BY <1>1, PushFields DEF Pushes
<1>4. ASSUME Live(p) PROVE Interval(o, Muxed(b, SubSeq(e.cached, 1, k)), p)
  <2>1. Live(e)
    <3> HIDE DEF p
    <3> QED
      BY <1>3, <1>4 DEF Live
  <2>2. Interval(o, b, e) /\ k <= e.flush
    BY <1>1, <2>1
  <2> HIDE DEF b
  <2> QED
    BY <1>1, <2>2, KeptByPush
<1> QED
  BY <1>2, <1>4 DEF Kept

LEMMA KeptByFlush ==
  ASSUME NEW o, NEW m, NEW e, Kept(o, m, e), e.flush \in 0 .. Len(e.cached)
  PROVE  LET q == FlushFrames(e) IN
         /\ Kept(o, m, q) /\ q.phase = e.phase /\ q.first = e.first
         /\ q.overrun = e.overrun
<1> DEFINE p == PushFrames(e, e.flush)
           q == FlushFrames(e)
<1>1. Encoder(e) /\ e.flush <= e.flush
  BY DEF Kept, Base, Encoder
<1>2. Kept(o, m, p)
  BY <1>1, KeptByPushing
<1>3. /\ p.phase = e.phase /\ p.first = e.first /\ p.overrun = e.overrun
  BY <1>1, PushFields DEF Pushes
<1>4. /\ Encoder(q) /\ q.cached = p.cached /\ q.pushed = p.pushed
      /\ q.flush = p.flush /\ q.keyframe = p.keyframe
      /\ q.known = p.known /\ q.since = p.since
      /\ q.first = p.first /\ q.overrun = p.overrun /\ q.phase = p.phase
  BY <1>1, FlushFields
<1> HIDE DEF p, q
<1>5. Live(q) => Live(p)
  BY <1>4 DEF Live
<1>6. Kept(o, m, q)
  BY <1>2, <1>4, <1>5, KeptSame
<1> QED
  BY <1>3, <1>4, <1>6 DEF q

LEMMA FlushInRange ==
  ASSUME NEW o, NEW m, NEW e, Kept(o, m, e), Live(e)
  PROVE  e.flush \in 0 .. Len(e.cached) /\ (~ e.first => Len(e.cached) > 0)
<1>1. e.cached \in Seq(Frame) /\ Flushing(Behind(m, e), e)
  BY DEF Kept, Base, Encoder, Interval
<1> QED
  BY <1>1 DEF Flushing

\* Everything but the canvas, the counter and is_first_frame_.
SameRest(p, e) ==
  /\ p.cached = e.cached /\ p.start = e.start /\ p.flush = e.flush
  /\ p.keyframe = e.keyframe /\ p.known = e.known /\ p.since = e.since
  /\ p.undecided = e.undecided /\ p.gotNull = e.gotNull /\ p.rect = e.rect
  /\ p.pushed = e.pushed /\ p.overrun = e.overrun /\ p.phase = e.phase

Rest(p, e, first, c) ==
  Encoder(p) /\ SameRest(p, e) /\ p.first = first /\ p.canvas = c

LEMMA CountedFields ==
  ASSUME NEW e, Encoder(e), NEW c \in 0 .. 1
  PROVE  /\ Rest(Counted(e), e, e.first, e.canvas)
         /\ Rest([Counted(e) EXCEPT !.canvas = c], e, e.first, c)
         /\ Rest([Counted(e) EXCEPT !.first = FALSE, !.canvas = c], e, FALSE, c)
<1> DEFINE q == Counted(e)
<1>1. Encoder(q) /\ SameRest(q, e) /\ q.first = e.first /\ q.canvas = e.canvas
  BY DEF Counted, Encoder, SameRest
<1> HIDE DEF q
<1>2. Rest([q EXCEPT !.canvas = c], e, e.first, c)
  BY <1>1 DEF Encoder, SameRest, Rest
<1>3. Rest([q EXCEPT !.first = FALSE, !.canvas = c], e, FALSE, c)
  BY <1>1 DEF Encoder, SameRest, Rest
<1> QED
  BY <1>1, <1>2, <1>3 DEF Rest, q

\* CacheFrame.
CacheResult(e, c, dispose, picked, p) ==
  \/ p = Overrun(e)
  \/ /\ ~ e.overrun /\ ~ OutOfArray(e, Len(e.cached))
     /\ \/ /\ e.first
           /\ p = [Counted(CacheFirstFrame(e, c)) EXCEPT !.first = FALSE, !.canvas = c]
        \/ ~ e.first /\ c = e.canvas /\ p = Counted(e)
        \/ /\ ~ e.first /\ c # e.canvas
           /\ p = [Counted(CacheNextFrame(e, c, dispose, picked)) EXCEPT !.canvas = c]

LEMMA CacheResults ==
  \A e, c, dispose, picked :
    CacheResult(e, c, dispose, picked, CacheFrame(e, c, dispose, picked))
BY DEF CacheFrame, CacheResult

LEMMA KeptByCache ==
  ASSUME NEW m, NEW e, Kept(options, m, e), e.phase = "adding",
         NEW c \in 0 .. 1, NEW dispose \in Disposal, NEW picked \in BOOLEAN
  PROVE  LET p == CacheFrame(e, c, dispose, picked) IN
         Kept(options, m, p) /\ p.phase = "adding"
<1> DEFINE p == CacheFrame(e, c, dispose, picked)
           b == Behind(m, e)
           o == options
<1>1. CacheResult(e, c, dispose, picked, p)
  BY CacheResults
<1> HIDE DEF p
<1>2. Encoder(e) /\ Base(o, b, e) /\ (Live(e) => Interval(o, b, e))
  BY DEF Kept, Base
<1>3. CASE p = Overrun(e)
  <2>1. p.phase = e.phase
    BY <1>2, <1>3, OverrunFields DEF SameState
  <2> QED
    BY <1>3, <2>1, KeptByOverrun DEF p
<1>4. ASSUME e.first, ~ e.overrun,
             p = [Counted(CacheFirstFrame(e, c)) EXCEPT !.first = FALSE, !.canvas = c]
      PROVE  Kept(options, m, p) /\ p.phase = "adding"
  <2> DEFINE q == CacheFirstFrame(e, c)
             f == FirstFrame(c)
  <2>1. /\ f.isKey = TRUE
        /\ Encoder(q) /\ q.cached = << f >>
        /\ q.flush = 0 /\ q.since = 0
        /\ q.keyframe = e.keyframe /\ q.known = e.known
        /\ q.pushed = e.pushed /\ q.overrun = e.overrun /\ q.phase = e.phase
    <3>1. IsFirst(q, f, e, c)
      BY <1>2, FirstFrameFields
    <3> HIDE DEF q, f
    <3> QED
      BY <3>1 DEF IsFirst
  <2> HIDE DEF q, f
  <2>2. Encoder(p) /\ SameRest(p, q) /\ p.first = FALSE
    <3>1. Rest(p, q, FALSE, c)
      BY <1>4, <2>1, CountedFields DEF q
    <3> QED
      BY <3>1 DEF Rest
  <2>3. Interval(o, b, e)
    BY <1>2, <1>4 DEF Live
  <2>4. Len(p.cached) = 1 /\ p.cached[1].isKey /\ p.flush = 0
        /\ p.since = 0 /\ p.keyframe = e.keyframe /\ p.known = e.known
        /\ p.pushed = e.pushed /\ p.phase = e.phase
    BY <2>1, <2>2 DEF SameRest
  <2> HIDE DEF b
  <2>5. Base(o, b, p) /\ Interval(o, b, p)
    BY <1>2, <1>4, <2>2, <2>3, <2>4, KeptByFirst
  <2>6. Behind(m, p) = b
    BY <2>4 DEF Behind, b
  <2> QED
    BY <2>4, <2>5, <2>6 DEF Kept
<1>5. CASE p = Counted(e)
  <2>1. Encoder(p) /\ SameRest(p, e) /\ p.first = e.first
    BY <1>2, <1>5, CountedFields DEF Rest
  <2>2. Live(p) <=> Live(e)
    BY <2>1 DEF Live, SameRest
  <2> QED
    <3>1. /\ p.cached = e.cached /\ p.pushed = e.pushed /\ p.keyframe = e.keyframe
          /\ p.flush = e.flush /\ p.known = e.known /\ p.since = e.since
          /\ p.phase = e.phase
      BY <2>1 DEF SameRest
    <3>2. Kept(options, m, p)
      BY <2>1, <2>2, <3>1, KeptSame
    <3> QED
      BY <3>1, <3>2 DEF p
<1>6. ASSUME ~ e.first, ~ e.overrun,
             p = [Counted(CacheNextFrame(e, c, dispose, picked)) EXCEPT !.canvas = c]
      PROVE  Kept(options, m, p) /\ p.phase = "adding"
  <2> DEFINE q == CacheNextFrame(e, c, dispose, picked)
             r == SubFrame(e, c, dispose)
  <2>1. Live(e)
    BY <1>6 DEF Live
  <2>2. Interval(o, b, e) /\ Len(e.cached) > 0
    BY <1>2, <1>6, <2>1, FlushInRange
  <2>3. IsNext(q, r, o, e, picked)
    <3> HIDE DEF q, r
    <3>1. IsNext(CacheNextFrame(e, c, dispose, picked), SubFrame(e, c, dispose),
                 options, e, picked)
      BY <1>2, <2>2, NextFields
    <3> QED
      BY <3>1 DEF q, r
  <2>4. Base(o, b, q) /\ Interval(o, b, q)
    <3> HIDE DEF b
    <3> QED
      BY <1>2, <2>2, KeptByNext
  <2>5. q.pushed = e.pushed /\ q.overrun = e.overrun /\ q.phase = e.phase
    <3> HIDE DEF q, r
    <3> QED
      BY <2>3 DEF IsNext
  <2> HIDE DEF q
  <2>6. Behind(m, q) = b
    BY <2>5 DEF Behind
  <2>7. Kept(o, m, q) /\ Encoder(q)
    BY <2>4, <2>6 DEF Kept, Base
  <2>8. Encoder(p) /\ SameRest(p, q) /\ p.first = q.first
    BY <1>6, <2>7, CountedFields DEF q, Rest
  <2>9. Live(p) <=> Live(q)
    BY <2>8 DEF Live, SameRest
  <2>10. Kept(o, m, p)
    BY <2>7, <2>8, <2>9, KeptSame DEF SameRest
  <2> QED
    BY <2>5, <2>8, <2>10 DEF SameRest
<1> QED
  BY <1>1, <1>3, <1>4, <1>5, <1>6 DEF CacheResult, p

\* What a call does before it caches a frame.
LEMMA KeptByReady ==
  ASSUME NEW m, Kept(options, m, enc), Live(enc), NEW d \in Nat
  PROVE  /\ Kept(options, m, Increased(d)) /\ Increased(d).phase = "adding"
         /\ Increased(d).first = enc.first
         /\ Kept(options, m, Ready(d)) /\ Ready(d).phase = "adding"
         /\ Ready(d).first = enc.first
<1> DEFINE e == Increased(d)
           r == Ready(d)
<1>1. Kept(options, m, e) /\ e.phase = enc.phase /\ e.first = enc.first
  <2>1. CASE enc.first
    BY <2>1 DEF Increased
  <2>2. CASE ~ enc.first
    <3>1. Len(enc.cached) > 0
      BY <2>2, FlushInRange
    <3>2. e = IncreasePreviousDuration(enc, d)
      BY <2>2 DEF Increased
    <3> HIDE DEF e
    <3> QED
      BY <3>1, <3>2, KeptByIncrease
  <2> QED
    BY <2>1, <2>2
<1>2. enc.phase = "adding"
  BY DEF Live
<1>3. r = IF IsFull(e) /\ ~ e.overrun THEN FlushFrames(e) ELSE e
  BY DEF Ready
<1> HIDE DEF e, r
<1>4. Kept(options, m, r) /\ r.phase = e.phase /\ r.first = e.first
  <2>1. CASE IsFull(e) /\ ~ e.overrun
    <3>1. e.flush \in 0 .. Len(e.cached)
      BY <1>1, <1>2, <2>1, FlushInRange DEF Live
    <3> QED
      BY <1>1, <1>3, <2>1, <3>1, KeptByFlush
  <2>2. CASE ~ (IsFull(e) /\ ~ e.overrun)
    BY <1>1, <1>3, <2>2
  <2> QED
    BY <2>1, <2>2
<1> QED
  BY <1>1, <1>2, <1>4 DEF e, r

-----------------------------------------------------------------------------
(* The distances of key frames, in every state.                               *)

Cleared == [mux EXCEPT !.distances = {}]

KeyFrames ==
  /\ enc.pushed = << >>
  /\ Base(options, mux, enc)
  /\ Live(enc) => Interval(options, mux, enc)

LEMMA ClearedFields ==
  ASSUME Muxer(mux)
  PROVE  /\ Muxer(Cleared) /\ Cleared.last = mux.last /\ Cleared.gap = mux.gap
         /\ Cleared.split = mux.split /\ Cleared.distances = {}
         /\ Cleared.late = mux.late
BY DEF Cleared, Muxer

LEMMA KeptAtStart ==
  ASSUME KeyFrames PROVE Kept(options, Cleared, enc)
<1>1. Muxer(mux) /\ Base(options, mux, enc) /\ (Live(enc) => Interval(options, mux, enc))
  BY DEF KeyFrames, Base
<1>2. /\ Muxer(Cleared) /\ Cleared.last = mux.last /\ Cleared.gap = mux.gap
      /\ Cleared.split = mux.split /\ Cleared.distances \subseteq Spaces(options)
  BY <1>1, ClearedFields
<1> DEFINE m == Cleared
<1> HIDE DEF m
<1>3. /\ Base(options, m, enc)
      /\ Interval(options, mux, enc) => Interval(options, m, enc)
  BY <1>1, <1>2, KeptBySameMux DEF m
<1>4. Behind(m, enc) = m
  BY MuxNothing DEF Behind, KeyFrames
<1> QED
  BY <1>1, <1>3, <1>4 DEF Kept, m

LEMMA FinishFields ==
  ASSUME NEW e, Encoder(e), NEW m, Muxer(m), NEW late \in BOOLEAN
  PROVE  LET p == [e EXCEPT !.pushed = << >>]
             q == [m EXCEPT !.late = late]
         IN  /\ Encoder(p) /\ p.pushed = << >> /\ p.cached = e.cached
             /\ p.start = e.start /\ p.flush = e.flush /\ p.keyframe = e.keyframe
             /\ p.known = e.known /\ p.since = e.since /\ p.undecided = e.undecided
             /\ p.first = e.first /\ p.gotNull = e.gotNull /\ p.rect = e.rect
             /\ p.canvas = e.canvas /\ p.overrun = e.overrun /\ p.phase = e.phase
             /\ Muxer(q) /\ q.last = m.last /\ q.gap = m.gap /\ q.split = m.split
             /\ q.distances = m.distances /\ q.late = late
BY DEF Encoder, Muxer

LEMMA KeptAtEnd ==
  ASSUME NEW e, NEW shown, Kept(options, Cleared, e), Finish(e, shown), mux.late \in BOOLEAN
  PROVE  KeyFrames'
<1> DEFINE m == Behind(Cleared, e)
           late == mux.late \/ ~ IsPrefix(Shown(e.pushed), due \o shown)
           p == [e EXCEPT !.pushed = << >>]
           q == [m EXCEPT !.late = late]
<1>1. enc' = p /\ mux' = q /\ options' = options
  BY DEF Finish, Behind, Muxed, Cleared
<1>2. late \in BOOLEAN
  OBVIOUS
<1>3. Base(options, m, e) /\ (Live(e) => Interval(options, m, e)) /\ Encoder(e) /\ Muxer(m)
  BY DEF Kept, Base
<1> HIDE DEF m, late
<1>4. /\ Encoder(p) /\ p.pushed = << >> /\ p.cached = e.cached
      /\ p.flush = e.flush /\ p.keyframe = e.keyframe
      /\ p.known = e.known /\ p.since = e.since
      /\ p.first = e.first /\ p.overrun = e.overrun /\ p.phase = e.phase
      /\ Muxer(q) /\ q.last = m.last /\ q.gap = m.gap /\ q.split = m.split
      /\ q.distances = m.distances
  BY <1>2, <1>3, FinishFields
<1> HIDE DEF p, q
<1>5. SameKinds(p.cached, e.cached, Len(e.cached)) /\ Len(p.cached) = Len(e.cached)
  BY <1>4 DEF SameKinds
<1>6. Base(options, m, p)
  BY <1>3, <1>4, <1>5, KeptBase
<1>7. Interval(options, m, e) => Interval(options, m, p)
  BY <1>3, <1>4, <1>5, KeptInterval
<1>8. q.distances \subseteq Spaces(options)
  BY <1>3, <1>4 DEF Base, Spaced
<1>9. Base(options, q, p) /\ (Interval(options, m, p) => Interval(options, q, p))
  BY <1>4, <1>6, <1>8, KeptBySameMux
<1>10. Live(p) => Interval(options, q, p)
  BY <1>3, <1>4, <1>7, <1>9 DEF Live
<1> QED
  BY <1>1, <1>4, <1>9, <1>10 DEF KeyFrames

\* What the choices of a call range over.
LEMMA DurationTypes == Durations \subseteq Nat /\ Averages \subseteq Nat
BY BoundsAssumption DEF Durations, Averages

LEMMA DisposalTypes == \A e : Disposals(e) \subseteq Disposal
BY DEF Disposals, Disposal

LEMMA OutcomeTypes ==
  ASSUME NEW e, NEW c, NEW x \in Outcomes(e, c)
  PROVE  x[1] \in Disposal /\ x[2] \in BOOLEAN
<1>1. CASE x = <<"NONE", TRUE>>
  BY <1>1 DEF Disposal
<1>2. CASE x \in Disposals(e) \X BOOLEAN
  BY <1>2, DisposalTypes
<1>3. x = <<"NONE", TRUE>> \/ x \in Disposals(e) \X BOOLEAN
  <2>1. x \in Disposals(e) \X {TRUE} => x \in Disposals(e) \X BOOLEAN
    OBVIOUS
  <2> QED
    BY <2>1 DEF Outcomes
<1> QED
  BY <1>1, <1>2, <1>3

LEMMA KeptByCached ==
  ASSUME NEW m, Kept(options, m, enc), Live(enc), NEW d \in Nat, NEW c \in 0 .. 1,
         NEW e \in Cached(d, c)
  PROVE  Kept(options, m, e) /\ e.phase = "adding"
<1>1. PICK x \in Outcomes(Ready(d), c) : e = CacheFrame(Ready(d), c, x[1], x[2])
  BY DEF Cached
<1>2. x[1] \in Disposal /\ x[2] \in BOOLEAN
  BY OutcomeTypes
<1>3. Kept(options, m, Ready(d)) /\ Ready(d).phase = "adding"
  BY KeptByReady
<1> QED
  BY <1>1, <1>2, <1>3, KeptByCache

\* The calls of Assemble.
LEMMA KeptByLast ==
  ASSUME NEW m, Kept(options, m, enc), NEW d \in Averages, ~ enc.overrun
  PROVE  LET e == BeforeLastFlush(d) IN
         /\ e.overrun => Kept(options, m, e)
         /\ Base(options, Behind(m, e), e) /\ e.flush = Len(e.cached)
<1> DEFINE r == IF NeedsAverage THEN IncreasePreviousDuration(enc, d) ELSE enc
           e == BeforeLastFlush(d)
<1>1. Kept(options, m, r)
  <2>1. CASE NeedsAverage
    <3>1. Len(enc.cached) > 0 /\ d \in Nat
      BY <2>1, DurationTypes DEF NeedsAverage
    <3> QED
      BY <2>1, <3>1, KeptByIncrease
  <2>2. CASE ~ NeedsAverage
    BY <2>2
  <2> QED
    BY <2>1, <2>2
<1>2. e = [r EXCEPT !.flush = Len(r.cached)]
  BY DEF BeforeLastFlush
<1> HIDE DEF r, e
<1>3. Encoder(r)
  BY <1>1 DEF Kept, Base
<1>4. /\ Encoder(e) /\ e.cached = r.cached /\ e.pushed = r.pushed
      /\ e.keyframe = r.keyframe /\ e.overrun = r.overrun /\ e.flush = Len(r.cached)
  BY <1>2, <1>3 DEF Encoder
<1>5. SameKinds(e.cached, r.cached, Len(r.cached)) /\ Behind(m, e) = Behind(m, r)
  BY <1>4 DEF SameKinds, Behind
<1>6. Base(options, Behind(m, e), e)
  BY <1>1, <1>4, <1>5, KeptBase DEF Kept
<1>7. e.overrun => Kept(options, m, e)
  BY <1>6 DEF Kept, Live
<1> QED
  BY <1>4, <1>6, <1>7 DEF e

\* The encoder is no longer adding frames, so that no interval is counted.
LEMMA KeptByPhase ==
  ASSUME NEW m, NEW e, Base(options, Behind(m, e), e), NEW phase \in {"assembling", "closed"}
  PROVE  Kept(options, m, [e EXCEPT !.phase = phase])
<1> DEFINE p == [e EXCEPT !.phase = phase]
<1>1. Encoder(e)
  BY DEF Base
<1>2. /\ Encoder(p) /\ p.cached = e.cached /\ p.pushed = e.pushed
      /\ p.keyframe = e.keyframe /\ p.phase # "adding"
  BY <1>1 DEF Encoder
<1> HIDE DEF p
<1>3. SameKinds(p.cached, e.cached, Len(e.cached)) /\ Behind(m, p) = Behind(m, e)
  BY <1>2 DEF SameKinds, Behind
<1>4. Base(options, Behind(m, p), p)
  BY <1>2, <1>3, KeptBase
<1>5. ~ Live(p)
  BY <1>2 DEF Live
<1> QED
  BY <1>4, <1>5 DEF Kept, p

LEMMA BaseByFlush ==
  ASSUME NEW o, NEW m, NEW e, Base(o, Behind(m, e), e), e.flush = Len(e.cached)
  PROVE  LET q == FlushFrames(e) IN Base(o, Behind(m, q), q)
<1> DEFINE p == PushFrames(e, e.flush)
           q == FlushFrames(e)
<1>1. Encoder(e) /\ e.flush \in 0 .. Len(e.cached)
  BY DEF Base, Encoder
<1>2. Base(o, Behind(m, p), p)
  BY <1>1, BaseByPushing
<1>3. /\ Encoder(q) /\ q.cached = p.cached /\ q.pushed = p.pushed
      /\ q.keyframe = p.keyframe
  BY <1>1, FlushFields
<1> HIDE DEF p, q
<1>4. SameKinds(q.cached, p.cached, Len(p.cached)) /\ Behind(m, q) = Behind(m, p)
  BY <1>3 DEF SameKinds, Behind
<1> QED
  BY <1>2, <1>3, <1>4, KeptBase DEF q

LEMMA InitKeyFrames == Init => KeyFrames
<1> SUFFICES ASSUME Init PROVE KeyFrames
  OBVIOUS
<1>1. Sanitized(options)
  BY SanitizedOptions DEF Init
<1>2. NoFrame \in Frame
  <2>1. NewFrame(0, "NONE", "sub") \in Frame
    <3>1. IsNew(NewFrame(0, "NONE", "sub"), 0, "NONE", "sub")
      BY NewFrameFields DEF Disposal, Rects
    <3> QED
      BY <3>1 DEF IsNew
  <2> HIDE DEF NewFrame
  <2> QED
    BY <2>1 DEF NoFrame, Frame
<1>3. Muxer(mux) /\ mux.distances = {} /\ ~ Started(mux)
  BY <1>2 DEF Init, Muxer, Started
<1>4. << >> \in Seq(Frame) /\ Len(<< >>) = 0
  OBVIOUS
<1>5. Encoder(enc)
  BY <1>4 DEF Init, Encoder, Rects, KEYFRAME_NONE
<1>6. /\ enc.cached = << >> /\ enc.pushed = << >> /\ enc.keyframe = -1 /\ enc.flush = 0
      /\ enc.known = FALSE /\ enc.since = 0 /\ enc.first = TRUE
  BY DEF Init, KEYFRAME_NONE
<1>7. Candidate(enc) /\ FirstIsKey(mux, enc.cached, enc.keyframe)
      /\ Spaced(options, mux, enc.cached)
  BY <1>3, <1>4, <1>6 DEF Candidate, FirstIsKey, Spaced
<1>8. ASSUME NEW g \in Nat, Run(mux, enc.cached, 0, 0, g) PROVE FALSE
  BY <1>3, <1>8 DEF Run
<1>9. Flushing(mux, enc)
  BY <1>3, <1>4, <1>6 DEF Flushing
<1>10. Interval(options, mux, enc)
  BY <1>4, <1>6, <1>8, <1>9 DEF Interval, Waiting
<1> QED
  BY <1>1, <1>3, <1>5, <1>6, <1>7, <1>10 DEF KeyFrames, Base

LEMMA NextKeyFrames == KeyFrames /\ [Next]_vars => KeyFrames'
<1> SUFFICES ASSUME KeyFrames, [Next]_vars PROVE KeyFrames'
  OBVIOUS
<1> DEFINE m == Cleared
           o == options
<1> HIDE DEF m
<1>1. Kept(o, m, enc)
  BY KeptAtStart DEF m
<1>2. /\ enc.phase \in {"adding", "assembling", "closed"} /\ mux.late \in BOOLEAN
      /\ Encoder(enc)
  BY DEF KeyFrames, Base, Encoder, Muxer
<1>3. ASSUME NEW e, NEW shown, Kept(o, m, e), Finish(e, shown) PROVE KeyFrames'
  BY <1>2, <1>3, KeptAtEnd DEF m
<1>4. ASSUME Adding PROVE Live(enc)
  BY <1>4 DEF Adding, Live
<1>5. \A d \in Durations : d \in Nat
  BY DurationTypes
<1>6. ASSUME NEW d \in Durations, NEW c \in 0 .. 1, Add(c, d) PROVE KeyFrames'
  <2>1. PICK e \in Cached(d, c) :
          Finish(IF e.overrun THEN e ELSE FlushFrames(e), Unchanging(d))
    BY <1>6 DEF Add
  <2>2. Kept(o, m, e) /\ e.phase = "adding"
    BY <1>1, <1>4, <1>5, <1>6, KeptByCached DEF Add
  <2>3. ASSUME ~ e.overrun PROVE Kept(o, m, FlushFrames(e))
    <3>1. e.flush \in 0 .. Len(e.cached)
      BY <2>2, <2>3, FlushInRange DEF Live
    <3> QED
      BY <2>2, <3>1, KeptByFlush
  <2> QED
    BY <1>3, <2>1, <2>2, <2>3
<1>7. ASSUME NEW d \in Durations, AddNull(d) PROVE KeyFrames'
  <2> DEFINE e == Ready(d)
             p == [e EXCEPT !.gotNull = TRUE]
  <2>1. Kept(o, m, e)
    BY <1>1, <1>4, <1>5, <1>7, KeptByReady DEF AddNull
  <2>2. Finish(p, Unchanging(d))
    BY <1>7 DEF AddNull
  <2> HIDE DEF e
  <2>3. Encoder(e)
    BY <2>1 DEF Kept, Base
  <2>4. /\ Encoder(p) /\ p.cached = e.cached /\ p.pushed = e.pushed
        /\ p.keyframe = e.keyframe /\ p.flush = e.flush /\ p.known = e.known
        /\ p.since = e.since /\ p.first = e.first /\ p.phase = e.phase
        /\ p.overrun = e.overrun
    BY <2>3 DEF Encoder
  <2> HIDE DEF p
  <2>5. Live(p) => Live(e)
    BY <2>4 DEF Live
  <2>6. Kept(o, m, p)
    BY <2>1, <2>4, <2>5, KeptSame
  <2> QED
    BY <1>3, <2>2, <2>6
<1>8. ASSUME NEW d \in Durations, AddFillerFails(d) PROVE KeyFrames'
  BY <1>1, <1>3, <1>8 DEF AddFillerFails, Fails
<1>9. ASSUME NEW d \in Durations, AddFrameFails(d) PROVE KeyFrames'
  <2>1. Kept(o, m, Ready(d))
    BY <1>1, <1>4, <1>5, <1>9, KeptByReady DEF AddFrameFails
  <2> QED
    BY <1>3, <1>9, <2>1 DEF AddFrameFails, Fails
<1>10. ASSUME NEW d \in Durations, AddKeyFrameFails(d) PROVE KeyFrames'
  <2> DEFINE e == Ready(d)
  <2>1. Kept(o, m, e) /\ e.phase = "adding" /\ e.first = enc.first
    BY <1>1, <1>4, <1>5, <1>10, KeptByReady DEF AddKeyFrameFails
  <2>2. PICK dispose \in Disposals(e) :
          Finish([SetPreviousDisposeMethod(e, dispose) EXCEPT !.rect = "other"], << >>)
    BY <1>10 DEF AddKeyFrameFails, Fails
  <2>3. ~ enc.first /\ ~ e.overrun /\ dispose \in Disposal
    BY <1>10, DisposalTypes DEF AddKeyFrameFails
  <2> HIDE DEF e
  <2> DEFINE q == SetPreviousDisposeMethod(e, dispose)
             p == [q EXCEPT !.rect = "other"]
             n == Len(e.cached)
  <2>4. Len(e.cached) > 0 /\ Encoder(e) /\ n \in Nat
    BY <2>1, <2>3, FlushInRange DEF Live, Kept, Base, Encoder
  <2>5. /\ Encoder(q) /\ SameState(q, e) /\ q.overrun = e.overrun
        /\ q.cached \in Seq(Frame) /\ Len(q.cached) = n
        /\ \A i \in 1 .. n - 1 : q.cached[i] = e.cached[i]
        /\ Redisposed(q.cached[n], e.cached[n])
    BY <2>3, <2>4, SetPreviousFields
  <2> HIDE DEF q
  <2>6. Encoder(p) /\ p.cached = q.cached /\ p.overrun = q.overrun
        /\ p.flush = q.flush /\ p.keyframe = q.keyframe /\ p.known = q.known
        /\ p.since = q.since /\ p.first = q.first /\ p.pushed = q.pushed
        /\ p.phase = q.phase
    BY <2>5 DEF Encoder, Rects
  <2>7. SameKinds(p.cached, e.cached, n) /\ Len(p.cached) = n
    <3>1. \A i \in 1 .. n : i \in 1 .. n - 1 \/ i = n
      BY <2>4
    <3> HIDE DEF p, n
    <3> QED
      BY <2>5, <2>6, <3>1, Zenon DEF SameKinds, Redisposed
  <2> HIDE DEF p
  <2>8. Live(p) => Live(e)
    BY <2>5, <2>6 DEF Live, SameState
  <2>9. Kept(o, m, p)
    <3>1. /\ p.pushed = e.pushed /\ p.keyframe = e.keyframe /\ p.flush = e.flush
          /\ p.known = e.known /\ p.since = e.since /\ p.first = e.first
      BY <2>5, <2>6 DEF SameState
    <3> QED
      BY <2>1, <2>6, <2>7, <2>8, <3>1, KeptSameKinds
  <2> QED
    BY <1>3, <2>2, <2>9 DEF p, q
<1>11. ASSUME NEW d \in Durations, NEW c \in 0 .. 1, AddPushFails(c, d) PROVE KeyFrames'
  <2>1. Live(enc) /\ size \in Int
    BY <1>4, <1>11 DEF AddPushFails, size, KeyFrames, Base, Sanitized
  <2>2. ASSUME NEW e, NEW k \in 0 .. size, Kept(o, m, e), e.phase = "adding",
               ~ e.overrun, k < e.flush, Fails(PushFrames(e, k))
        PROVE  KeyFrames'
    <3>1. e.flush \in 0 .. Len(e.cached) /\ Encoder(e)
      BY <2>2, FlushInRange DEF Live, Kept, Base
    <3>2. k \in 0 .. Len(e.cached) /\ k <= e.flush
      BY <2>1, <2>2, <3>1 DEF Encoder
    <3>3. Kept(o, m, PushFrames(e, k))
      BY <2>2, <3>2, KeptByPushing
    <3> QED
      BY <1>3, <2>2, <3>3 DEF Fails
  <2>3. Kept(o, m, Increased(d)) /\ Increased(d).phase = "adding"
    BY <1>1, <1>5, <2>1, KeptByReady
  <2>4. \A e \in Cached(d, c) : Kept(o, m, e) /\ e.phase = "adding"
    BY <1>1, <1>5, <2>1, KeptByCached
  <2> QED
    BY <1>11, <2>2, <2>3, <2>4 DEF AddPushFails
<1>12. ASSUME Assemble PROVE KeyFrames'
  <2>1. PICK d \in Averages :
          LET e == BeforeLastFlush(d) IN
          Finish(IF e.overrun THEN e
                 ELSE [FlushFrames(e) EXCEPT !.phase = "closed"], Unchanging(d))
    BY <1>12 DEF Assemble
  <2>2. ~ enc.overrun
    BY <1>12 DEF Assemble, Open
  <2> DEFINE e == BeforeLastFlush(d)
  <2>3. /\ e.overrun => Kept(o, m, e)
        /\ Base(o, Behind(m, e), e) /\ e.flush = Len(e.cached)
    BY <1>1, <2>2, KeptByLast
  <2> HIDE DEF e
  <2>4. Kept(o, m, [FlushFrames(e) EXCEPT !.phase = "closed"])
    BY <2>3, BaseByFlush, KeptByPhase
  <2>5. Finish(IF e.overrun THEN e
               ELSE [FlushFrames(e) EXCEPT !.phase = "closed"], Unchanging(d))
    BY <2>1 DEF e
  <2> QED
    BY <1>3, <2>3, <2>4, <2>5
<1>13. ASSUME AssembleFails PROVE KeyFrames'
  <2>1. PICK d \in Averages :
          LET e == BeforeLastFlush(d) IN
          \E k \in 0 .. Len(e.cached) :
            ~ e.overrun /\ Fails([PushFrames(e, k) EXCEPT !.phase = "assembling"])
    BY <1>13 DEF AssembleFails
  <2>2. ~ enc.overrun
    BY <1>13 DEF AssembleFails, Open
  <2> DEFINE e == BeforeLastFlush(d)
  <2>3. Base(o, Behind(m, e), e)
    BY <1>1, <2>2, KeptByLast
  <2>4. PICK k \in 0 .. Len(e.cached) :
          Finish([PushFrames(e, k) EXCEPT !.phase = "assembling"], << >>)
    BY <2>1 DEF Fails
  <2> HIDE DEF e
  <2>5. Kept(o, m, [PushFrames(e, k) EXCEPT !.phase = "assembling"])
    BY <2>3, BaseByPushing, KeptByPhase
  <2> QED
    BY <1>3, <2>4, <2>5
<1>14. ASSUME UNCHANGED vars PROVE KeyFrames'
  BY <1>14 DEF vars, KeyFrames
<1> QED
  BY <1>6, <1>7, <1>8, <1>9, <1>10, <1>11, <1>12, <1>13, <1>14 DEF Next, Terminated

\* keyframe_ always designates a cached frame chosen as key frame, and without split
\* frames in between, key frames of the output are at least kmin frames apart, and next
\* to each other if all frames are to be key frames, whichever calls fail: however
\* frames are flushed, dropped or replaced as candidate (CacheFrame and FlushFrames).
THEOREM KeyFramesAreSpaced == SafeSpec => []KeyFrameSpacing
<1>1. KeyFrames => KeyFrameSpacing
  BY DEF KeyFrames, Base, Candidate, Encoder, Spaced, Spaces, KeyFrameSpacing, KEYFRAME_NONE
<1> QED
  BY <1>1, InitKeyFrames, NextKeyFrames, PTL DEF SafeSpec

-----------------------------------------------------------------------------
(* The array, as long as no call fails.                                       *)

\* The frames that wait fit between kmin and the next frame.
Fit(o, e) ==
  /\ e.since <= o.kmin \/ e.since >= o.kmax => e.start = 0 /\ Len(e.cached) = 1
  /\ e.since > o.kmin => e.start + Len(e.cached) <= e.since - o.kmin

\* They will when the flush has been done.
Room(o, e) ==
  /\ e.flush \in 0 .. Len(e.cached) - 1
  /\ e.flush = Len(e.cached) - 1 \/ Fit(o, e)

Grown(o, e) == e.known => e.start + Len(e.cached) <= e.since - o.kmin

LEMMA SizeBounds ==
  ASSUME Sanitized(options)
  PROVE  size \in Nat /\ size >= 2 /\ size >= options.kmax - options.kmin + 1
BY DEF size, Sanitized

LEMMA FitsInArray ==
  ASSUME NEW e, Encoder(e), Sanitized(options), Fit(options, e)
  PROVE  /\ e.start + Len(e.cached) < size
         /\ e.start + Len(e.cached) + 1 < size \/ (e.start = 0 /\ Len(e.cached) = 1)
<1> DEFINE n == Len(e.cached)
<1>1. n \in Nat /\ e.start \in Nat /\ e.since \in Nat
  BY DEF Encoder
<1>2. size \in Nat /\ size >= 2 /\ size >= options.kmax - options.kmin + 1
  BY SizeBounds
<1>3. options.kmin \in Int /\ options.kmax \in Int
  BY DEF Sanitized
<1>4. /\ e.since <= options.kmin \/ e.since >= options.kmax => e.start = 0 /\ n = 1
      /\ e.since > options.kmin => e.start + n <= e.since - options.kmin
  BY DEF Fit
<1> HIDE DEF n
<1>5. /\ e.start + n < size
      /\ e.start + n + 1 < size \/ (e.start = 0 /\ n = 1)
  BY <1>1, <1>2, <1>3, <1>4
<1> QED
  BY <1>5 DEF n

LEMMA FlushMakesFit ==
  ASSUME NEW o, Sanitized(o), NEW e, Encoder(e), Room(o, e)
  PROVE  LET q == FlushFrames(e) IN
         /\ q.flush = 0 /\ Fit(o, q) /\ q.overrun = e.overrun /\ q.first = e.first
         /\ q.gotNull = e.gotNull /\ q.phase = e.phase /\ q.known = e.known
         /\ q.since = e.since /\ Len(q.cached) > 0
         /\ q.start + Len(q.cached) <= e.start + Len(e.cached)
<1> DEFINE n == Len(e.cached)
           k == e.flush
           p == PushFrames(e, k)
           q == FlushFrames(e)
<1>1. /\ n \in Nat /\ e.start \in Nat /\ e.since \in Nat /\ k \in 0 .. n - 1
      /\ k \in 0 .. Len(e.cached) /\ o.kmin \in Int /\ o.kmax \in Int
  BY DEF Encoder, Room, Sanitized
<1>2. /\ Len(p.cached) = n - k /\ p.start = e.start + k /\ p.flush = k - k
      /\ p.since = e.since /\ p.overrun = e.overrun /\ p.first = e.first
      /\ p.gotNull = e.gotNull /\ p.phase = e.phase /\ p.known = e.known
  <2>1. Pushes(p, e, k)
    BY <1>1, PushFields
  <2> QED
    BY <1>1, <2>1 DEF Pushes
<1>3. /\ q.cached = p.cached /\ q.start = (IF Len(p.cached) = 1 THEN 0 ELSE p.start)
      /\ q.flush = p.flush /\ q.since = p.since /\ q.overrun = p.overrun
      /\ q.first = p.first /\ q.gotNull = p.gotNull /\ q.phase = p.phase
      /\ q.known = p.known
  BY <1>1, FlushFields
<1> HIDE DEF p, q
<1>4. /\ Len(q.cached) = n - k /\ q.start = (IF n - k = 1 THEN 0 ELSE e.start + k)
      /\ q.since = e.since /\ q.flush = 0
  BY <1>1, <1>2, <1>3
<1>5. k = n - 1 \/ Fit(o, e)
  BY DEF Room
<1>6. Fit(o, q)
  <2> DEFINE s == e.since
             t == e.start
  <2>1. n \in Nat /\ t \in Nat /\ s \in Nat /\ k \in 0 .. n - 1
    BY <1>1
  <2>2. \/ k = n - 1
        \/ /\ s <= o.kmin \/ s >= o.kmax => t = 0 /\ n = 1
           /\ s > o.kmin => t + n <= s - o.kmin
    BY <1>5 DEF Fit
  <2>3. /\ Len(q.cached) = n - k /\ q.start = (IF n - k = 1 THEN 0 ELSE t + k)
        /\ q.since = s
    BY <1>4
  <2> HIDE DEF s, t, n, k
  <2> QED
    BY <1>1, <2>1, <2>2, <2>3 DEF Fit
<1>7. Len(q.cached) > 0 /\ q.start + Len(q.cached) <= e.start + n
  BY <1>1, <1>4
<1> QED
  BY <1>2, <1>3, <1>4, <1>6, <1>7 DEF q

LEMMA RoomByIncrease ==
  ASSUME NEW e, Encoder(e), Sanitized(options), Len(e.cached) > 0, ~ e.overrun,
         e.flush = 0, Fit(options, e), e.known => e.since > options.kmin, NEW d \in Nat
  PROVE  LET p == IncreasePreviousDuration(e, d) IN
         /\ ~ p.overrun /\ Room(options, p) /\ Grown(options, p)
         /\ p.start + Len(p.cached) < size \/ Len(p.cached) = size
<1> DEFINE n == Len(e.cached)
           o == options
           p == IncreasePreviousDuration(e, d)
           a == [e EXCEPT !.cached[n] = Longer(e.cached[n], d)]
<1>1. /\ n \in Nat /\ n > 0 /\ e.start \in Nat /\ e.since \in Nat /\ e.cached \in Seq(Frame)
      /\ o.kmin \in Int /\ o.kmax \in Int
  BY DEF Encoder, Sanitized
<1>2. size \in Nat /\ size >= 2
  BY SizeBounds
<1>3. /\ e.start + n < size
      /\ e.start + n + 1 < size \/ (e.start = 0 /\ n = 1)
  BY FitsInArray
<1>4. ~ OutOfArray(e, n - 1) /\ ~ OutOfArray(e, n)
  BY <1>1, <1>2, <1>3 DEF OutOfArray
<1>5. p = IF ~ TooLong(e, d) THEN a ELSE AddFiller(e, d)
  BY <1>4 DEF IncreasePreviousDuration
<1>6. e.known => e.start + n <= e.since - o.kmin
  BY <1>1 DEF Fit
<1>7. CASE p = a
  <2>1. /\ SameState(a, e) /\ a.overrun = e.overrun
        /\ a.cached = [e.cached EXCEPT ![n] = Longer(e.cached[n], d)]
    BY LongerLast
  <2>2. Len(a.cached) = n
    BY <1>1, <2>1
  <2> HIDE DEF a, p, n
  <2>3. Fit(o, p)
    BY <1>7, <2>1, <2>2 DEF Fit, SameState, n
  <2>4. Room(o, p) /\ Grown(o, p)
    BY <1>1, <1>6, <1>7, <2>1, <2>2, <2>3 DEF Room, Grown, SameState
  <2> QED
    BY <1>3, <1>7, <2>1, <2>2, <2>4 DEF SameState, p
<1>8. CASE p = AddFiller(e, d)
  <2>1. /\ p.cached = Append(e.cached, Filler(e, d))
        /\ p.since = e.since + 1 /\ p.flush = n /\ p.start = e.start
        /\ p.known = e.known /\ p.overrun = e.overrun
    <3>1. Filled(p, e, d)
      BY <1>8, FillerFields
    <3> QED
      BY <1>8, <3>1 DEF Filled
  <2> HIDE DEF p
  <2>2. Len(p.cached) = n + 1
    BY <1>1, <2>1
  <2>3. Room(o, p)
    BY <1>1, <2>1, <2>2 DEF Room
  <2>4. Grown(o, p)
    BY <1>1, <1>6, <2>1, <2>2 DEF Grown
  <2>5. p.start + (n + 1) < size \/ n + 1 = size
    BY <1>1, <1>2, <1>3, <2>1
  <2> QED
    BY <2>1, <2>2, <2>3, <2>4, <2>5 DEF p
<1> HIDE DEF a, p
<1> QED
  BY <1>5, <1>7, <1>8 DEF p

\* The array has room for one more frame.
Smooth(o, e) ==
  /\ ~ e.overrun
  /\ e.first => e.start = 0
  /\ ~ e.first => Room(o, e) /\ Grown(o, e) /\ e.start + Len(e.cached) < size

LEMMA RoomByReady ==
  ASSUME Encoder(enc), Sanitized(options), ~ enc.overrun, enc.first => enc.start = 0,
         ~ enc.first => /\ Len(enc.cached) > 0 /\ enc.flush = 0 /\ Fit(options, enc)
                        /\ enc.known => enc.since > options.kmin,
         NEW d \in Nat, Encoder(Increased(d)), Increased(d).first = enc.first
  PROVE  Smooth(options, Ready(d)) /\ ~ Increased(d).overrun
<1> DEFINE e == Increased(d)
           r == Ready(d)
           o == options
<1>1. r = IF IsFull(e) /\ ~ e.overrun THEN FlushFrames(e) ELSE e
  BY DEF Ready
<1>2. CASE enc.first
  <2>1. e = enc
    BY <1>2 DEF Increased
  <2> HIDE DEF e, r
  <2>2. r = enc
    BY <1>1, <1>2, <2>1 DEF IsFull
  <2> QED
    BY <1>2, <2>1, <2>2 DEF Smooth, r, e
<1>3. CASE ~ enc.first
  <2>1. e = IncreasePreviousDuration(enc, d)
    BY <1>3 DEF Increased
  <2> HIDE DEF e, r
  <2>2. /\ ~ e.overrun /\ Room(o, e) /\ Grown(o, e)
        /\ e.start + Len(e.cached) < size \/ Len(e.cached) = size
    BY <1>3, <2>1, RoomByIncrease
  <2>3. CASE Len(e.cached) = size
    <3> DEFINE q == FlushFrames(e)
    <3>1. r = q
      BY <1>1, <1>3, <2>2, <2>3 DEF IsFull, e
    <3>2. Encoder(e) /\ Encoder(q)
      <4>1. e.flush \in 0 .. Len(e.cached)
        BY <2>2 DEF Room, Encoder, e
      <4> QED
        BY <4>1, FlushFields DEF e
    <3>3. /\ q.flush = 0 /\ Fit(o, q) /\ q.overrun = e.overrun /\ q.first = e.first
          /\ q.known = e.known /\ q.since = e.since /\ Len(q.cached) > 0
          /\ q.start + Len(q.cached) <= e.start + Len(e.cached)
      BY <2>2, <3>2, FlushMakesFit
    <3> HIDE DEF q
    <3>4. q.start + Len(q.cached) < size
      BY <3>2, <3>3, FitsInArray
    <3>5. q.start \in Nat /\ q.since \in Nat /\ Len(q.cached) \in Nat
      BY <3>2 DEF Encoder
    <3>6. Grown(o, q)
      <4>1. e.start \in Nat /\ e.since \in Nat /\ Len(e.cached) \in Nat /\ o.kmin \in Int
        BY <3>2 DEF Encoder, Sanitized
      <4> QED
        BY <2>2, <3>3, <3>5, <4>1 DEF Grown
    <3>7. Room(o, q)
      BY <3>3, <3>5 DEF Room
    <3> QED
      BY <1>3, <2>2, <3>1, <3>3, <3>4, <3>6, <3>7 DEF Smooth, e, r
  <2>4. CASE Len(e.cached) # size
    BY <1>1, <1>3, <2>2, <2>4 DEF IsFull, Smooth, e, r
  <2> QED
    BY <2>3, <2>4
<1> QED
  BY <1>2, <1>3

LEMMA RoomByCache ==
  ASSUME NEW m, NEW e, Base(options, m, e), Smooth(options, e),
         e.first => Len(e.cached) = 0, ~ e.first => Len(e.cached) > 0,
         NEW c \in 0 .. 1, NEW dispose \in Disposal, NEW picked \in BOOLEAN
  PROVE  LET p == CacheFrame(e, c, dispose, picked) IN
         ~ p.overrun /\ ~ p.first /\ Encoder(p) /\ Room(options, p)
<1> DEFINE p == CacheFrame(e, c, dispose, picked)
           n == Len(e.cached)
           o == options
<1>1. /\ Encoder(e) /\ n \in Nat /\ e.start \in Nat /\ e.since \in Nat /\ Sanitized(o)
      /\ o.kmin \in Int /\ o.kmax \in Int
  BY DEF Base, Encoder, Sanitized
<1>2. ~ OutOfArray(e, n)
  <2>1. size \in Nat /\ size >= 2
    BY <1>1, SizeBounds
  <2>2. e.start + n < size
    BY <2>1 DEF Smooth
  <2> HIDE DEF n
  <2> QED
    BY <1>1, <2>1, <2>2 DEF OutOfArray
<1>3. ~ e.overrun
  BY DEF Smooth
<1>4. CASE e.first
  <2> DEFINE q == CacheFirstFrame(e, c)
             f == FirstFrame(c)
  <2>1. p = [Counted(q) EXCEPT !.first = FALSE, !.canvas = c]
    BY <1>2, <1>3, <1>4 DEF CacheFrame
  <2>2. Encoder(q) /\ q.cached = << f >> /\ q.flush = 0 /\ q.overrun = e.overrun
    <3>1. IsFirst(q, f, e, c)
      BY <1>1, FirstFrameFields
    <3> HIDE DEF q, f
    <3> QED
      BY <3>1 DEF IsFirst
  <2> HIDE DEF p, q, f
  <2>3. Rest(p, q, FALSE, c)
    BY <2>1, <2>2, CountedFields
  <2>4. Len(<< f >>) = 1
    OBVIOUS
  <2>5. Len(p.cached) = 1 /\ p.flush = 0
    BY <2>2, <2>3, <2>4 DEF Rest, SameRest
  <2>6. Encoder(p) /\ ~ p.first /\ ~ p.overrun
    BY <1>3, <2>2, <2>3 DEF Rest, SameRest
  <2> QED
    BY <2>5, <2>6 DEF Room, p
<1>5. CASE ~ e.first /\ c = e.canvas
  <2>1. p = Counted(e)
    BY <1>2, <1>3, <1>5 DEF CacheFrame
  <2> HIDE DEF p
  <2>2. Rest(p, e, e.first, e.canvas)
    BY <1>1, <2>1, CountedFields
  <2>3. Room(o, p)
    BY <1>5, <2>2 DEF Rest, SameRest, Smooth, Room, Fit
  <2> QED
    BY <1>3, <1>5, <2>2, <2>3 DEF Rest, SameRest, p
<1>6. CASE ~ e.first /\ c # e.canvas
  <2> DEFINE q == CacheNextFrame(e, c, dispose, picked)
             r == SubFrame(e, c, dispose)
  <2>1. p = [Counted(q) EXCEPT !.canvas = c]
    BY <1>2, <1>3, <1>6 DEF CacheFrame
  <2>2. IsNext(q, r, o, e, picked)
    <3>1. n > 0
      BY <1>6
    <3> QED
      BY <3>1, NextFields
  <2> HIDE DEF p, q, r
  <2>3. /\ Encoder(q) /\ Len(q.cached) = n + 1 /\ q.start = e.start
        /\ q.flush = (IF Early(o, e) \/ Picks(o, e, picked) \/ Closes(o, e) THEN n
                      ELSE e.flush)
        /\ q.since = (IF Closes(o, e) THEN 0 ELSE e.since + 1)
        /\ q.first = e.first /\ q.overrun = e.overrun
    BY <2>2 DEF IsNext
  <2>4. Rest(p, q, q.first, c)
    BY <2>1, <2>3, CountedFields
  <2>5. /\ Encoder(p) /\ ~ p.first /\ ~ p.overrun
    BY <1>3, <1>6, <2>3, <2>4 DEF Rest, SameRest
  <2>6. p.cached = q.cached /\ p.start = q.start /\ p.since = q.since /\ p.flush = q.flush
    BY <2>4 DEF Rest, SameRest
  <2>7. CASE Early(o, e) \/ Picks(o, e, picked) \/ Closes(o, e)
    <3>1. p.flush = n /\ Len(p.cached) = n + 1
      BY <2>3, <2>6, <2>7
    <3> QED
      BY <1>1, <2>5, <3>1 DEF Room, p
  <2>8. CASE ~ Early(o, e) /\ ~ Picks(o, e, picked) /\ ~ Closes(o, e)
    <3>1. e.since + 1 > o.kmin /\ e.since + 1 < o.kmax
      BY <1>1, <2>8 DEF Early, Closes
    <3>2. e.known
      BY <2>8 DEF Picks
    <3>3. e.start + n <= e.since - o.kmin /\ e.flush \in 0 .. n - 1
      BY <1>6, <3>2 DEF Smooth, Grown, Room
    <3>4. p.flush = e.flush /\ p.start = e.start /\ p.since = e.since + 1
          /\ Len(p.cached) = n + 1
      BY <2>3, <2>6, <2>8
    <3> HIDE DEF n
    <3>5. Fit(o, p)
      <4>1. /\ p.start + Len(p.cached) <= p.since - o.kmin
            /\ p.since > o.kmin /\ ~ p.since >= o.kmax
        <5>1. n \in Nat /\ e.start \in Nat /\ e.since \in Nat
              /\ o.kmin \in Int /\ o.kmax \in Int
          BY <1>1
        <5>2. e.start + (n + 1) <= (e.since + 1) - o.kmin
          BY <3>3, <5>1
        <5> QED
          BY <3>1, <3>4, <5>1, <5>2
      <4>2. ~ p.since <= o.kmin
        BY <1>1, <3>1, <3>4
      <4> QED
        BY <4>1, <4>2 DEF Fit
    <3>6. Room(o, p)
      BY <1>1, <3>3, <3>4, <3>5 DEF Room
    <3> QED
      BY <2>5, <3>6 DEF p
  <2> QED
    BY <2>7, <2>8
<1> QED
  BY <1>4, <1>5, <1>6

\* In every state.
Slots ==
  /\ failures \in Nat
  /\ NoFailure =>
       /\ enc.phase # "assembling" /\ ~ enc.overrun
       /\ Adding => /\ enc.first => enc.start = 0
                    /\ ~ enc.first => enc.flush = 0 /\ Fit(options, enc)

\* A call that fails is counted.
LEMMA Failing ==
  ASSUME failures \in Nat, NEW e, Fails(e) PROVE failures' \in Nat /\ ~ NoFailure'
BY DEF Fails, NoFailure

\* What is known when frames may be added.
LEMMA SlotsWhenAdding ==
  ASSUME KeyFrames, Slots, NoFailure, Adding, NEW d \in Nat
  PROVE  /\ Kept(options, Cleared, Ready(d)) /\ Ready(d).phase = "adding"
         /\ Smooth(options, Ready(d)) /\ ~ Ready(d).overrun
         /\ Ready(d).first = enc.first
         /\ Ready(d).first => Len(Ready(d).cached) = 0
         /\ ~ Ready(d).first => Len(Ready(d).cached) > 0
<1> DEFINE m == Cleared
<1> HIDE DEF m
<1>1. Kept(options, m, enc) /\ Live(enc)
  BY KeptAtStart DEF Adding, Live, m
<1>2. Base(options, mux, enc) /\ Interval(options, mux, enc)
  BY <1>1 DEF KeyFrames
<1>3. /\ Kept(options, m, Ready(d)) /\ Ready(d).phase = "adding"
      /\ Ready(d).first = enc.first
      /\ Kept(options, m, Increased(d)) /\ Increased(d).first = enc.first
  BY <1>1, KeptByReady
<1>4. Encoder(enc) /\ Sanitized(options) /\ Encoder(Increased(d))
  BY <1>2, <1>3 DEF Kept, Base
<1>5. ~ enc.first => Len(enc.cached) > 0
  BY <1>1, FlushInRange
<1>6. Smooth(options, Ready(d))
  <2>1. enc.known => enc.since > options.kmin
    BY <1>2 DEF Interval
  <2>2. /\ ~ enc.overrun
        /\ enc.first => enc.start = 0
        /\ ~ enc.first => enc.flush = 0 /\ Fit(options, enc)
    BY DEF Slots
  <2> QED
    BY <1>3, <1>4, <1>5, <2>1, <2>2, RoomByReady
<1>7. Live(Ready(d))
  BY <1>3, <1>6 DEF Live, Smooth
<1>8. Interval(options, Behind(m, Ready(d)), Ready(d))
  BY <1>3, <1>7 DEF Kept
<1>9. Ready(d).first => Len(Ready(d).cached) = 0
  BY <1>8 DEF Interval, Flushing
<1>10. ~ Ready(d).first => Len(Ready(d).cached) > 0
  BY <1>3, <1>7, FlushInRange
<1> QED
  BY <1>3, <1>6, <1>9, <1>10 DEF Smooth, m

LEMMA NextSlots == KeyFrames /\ Slots /\ [Next]_vars => Slots'
<1> SUFFICES ASSUME KeyFrames, Slots, [Next]_vars PROVE Slots'
  OBVIOUS
<1>1. failures \in Nat
  BY DEF Slots
<1>2. Encoder(enc) /\ Muxer(mux) /\ Sanitized(options)
  BY DEF KeyFrames, Base
<1> DEFINE Fine(e) ==
             /\ e.phase # "assembling" /\ ~ e.overrun
             /\ e.phase = "adding" /\ ~ e.gotNull =>
                  /\ e.first => e.start = 0
                  /\ ~ e.first => e.flush = 0 /\ Fit(options, e)
<1>3. ASSUME NEW e, NEW shown, Encoder(e), NoFailure => Fine(e), Finish(e, shown),
             UNCHANGED failures
      PROVE  Slots'
  <2> DEFINE p == [e EXCEPT !.pushed = << >>]
  <2>1. enc' = p /\ options' = options
    BY <1>3 DEF Finish
  <2>2. /\ p.cached = e.cached
        /\ p.start = e.start /\ p.flush = e.flush /\ p.since = e.since
        /\ p.first = e.first /\ p.gotNull = e.gotNull
        /\ p.overrun = e.overrun /\ p.phase = e.phase
    BY <1>3 DEF Encoder
  <2> HIDE DEF p
  <2>3. NoFailure => Fine(p)
    BY <1>3, <2>2 DEF Fit
  <2> QED
    BY <1>1, <1>3, <2>1, <2>3 DEF Slots, NoFailure, Adding
<1>4. ASSUME failures' \in Nat, ~ NoFailure' PROVE Slots'
  BY <1>4 DEF Slots
<1>5. \A d \in Durations : d \in Nat
  BY DurationTypes
<1> HIDE DEF Fine
<1>6. ASSUME NEW d \in Durations, NEW c \in 0 .. 1, Add(c, d) PROVE Slots'
  <2>1. PICK e \in Cached(d, c) :
          Finish(IF e.overrun THEN e ELSE FlushFrames(e), Unchanging(d))
    BY <1>6 DEF Add
  <2>2. Adding /\ UNCHANGED failures
    BY <1>6 DEF Add
  <2>3. Kept(options, Cleared, e)
    BY <1>5, <2>2, KeptAtStart, KeptByCached DEF Adding, Live
  <2> DEFINE f == IF e.overrun THEN e ELSE FlushFrames(e)
  <2>4. ASSUME NoFailure PROVE Fine(f)
    <3>1. PICK x \in Outcomes(Ready(d), c) : e = CacheFrame(Ready(d), c, x[1], x[2])
      BY DEF Cached
    <3>2. x[1] \in Disposal /\ x[2] \in BOOLEAN
      BY OutcomeTypes
    <3> DEFINE r == Ready(d)
    <3>3. /\ Kept(options, Cleared, r) /\ Smooth(options, r)
          /\ r.first => Len(r.cached) = 0
          /\ ~ r.first => Len(r.cached) > 0
      BY <1>5, <2>2, <2>4, SlotsWhenAdding
    <3> HIDE DEF r
    <3>4. ~ e.overrun /\ ~ e.first /\ Encoder(e) /\ Room(options, e)
      BY <3>1, <3>2, <3>3, RoomByCache DEF Kept, r
    <3>5. e.phase = "adding"
      BY <1>5, <2>2, KeptAtStart, KeptByCached DEF Adding, Live
    <3> DEFINE q == FlushFrames(e)
    <3>6. /\ q.flush = 0 /\ Fit(options, q) /\ q.overrun = e.overrun /\ q.first = e.first
          /\ q.phase = e.phase
      BY <1>2, <3>4, FlushMakesFit
    <3>7. f = q
      BY <3>4
    <3> HIDE DEF q, f
    <3> QED
      BY <3>4, <3>5, <3>6, <3>7 DEF Fine
  <2>5. Encoder(f)
    <3>1. CASE e.overrun
      BY <2>3, <3>1 DEF Kept, Base
    <3>2. CASE ~ e.overrun
      <4>1. e.phase = "adding"
        BY <1>5, <2>2, KeptAtStart, KeptByCached DEF Adding, Live
      <4>2. e.flush \in 0 .. Len(e.cached)
        BY <2>3, <3>2, <4>1, FlushInRange DEF Live
      <4> QED
        BY <2>3, <3>2, <4>2, KeptByFlush DEF Kept, Base
    <3> QED
      BY <3>1, <3>2
  <2> HIDE DEF f
  <2> QED
    BY <1>3, <2>1, <2>2, <2>4, <2>5 DEF f
<1>7. ASSUME NEW d \in Durations, AddNull(d) PROVE Slots'
  <2> DEFINE r == Ready(d)
             p == [r EXCEPT !.gotNull = TRUE]
  <2>1. Adding /\ UNCHANGED failures /\ Finish(p, Unchanging(d))
    BY <1>7 DEF AddNull
  <2>2. Kept(options, Cleared, r) /\ r.phase = "adding"
    BY <1>5, <2>1, KeptAtStart, KeptByReady DEF Adding, Live
  <2>3. NoFailure => ~ r.overrun
    BY <1>5, <2>1, SlotsWhenAdding
  <2> HIDE DEF r
  <2>4. Encoder(r)
    BY <2>2 DEF Kept, Base
  <2>5. Encoder(p) /\ p.gotNull = TRUE /\ p.phase = r.phase /\ p.overrun = r.overrun
    BY <2>4 DEF Encoder
  <2> HIDE DEF p
  <2>6. NoFailure => Fine(p)
    BY <2>2, <2>3, <2>5 DEF Fine
  <2> QED
    BY <1>3, <2>1, <2>5, <2>6
<1>8. ASSUME NEW d \in Durations,
             AddFillerFails(d) \/ AddFrameFails(d) \/ AddKeyFrameFails(d)
      PROVE  Slots'
  BY <1>1, <1>4, <1>8, Failing DEF AddFillerFails, AddFrameFails, AddKeyFrameFails
<1>9. ASSUME NEW d \in Durations, NEW c \in 0 .. 1, AddPushFails(c, d) PROVE Slots'
  BY <1>1, <1>4, <1>9, Failing DEF AddPushFails
<1>10. ASSUME AssembleFails PROVE Slots'
  BY <1>1, <1>4, <1>10, Failing DEF AssembleFails
<1>11. ASSUME Assemble PROVE Slots'
  <2>1. PICK d \in Averages :
          LET e == BeforeLastFlush(d) IN
          Finish(IF e.overrun THEN e
                 ELSE [FlushFrames(e) EXCEPT !.phase = "closed"], Unchanging(d))
    BY <1>11 DEF Assemble
  <2>2. ~ enc.overrun /\ enc.phase # "closed" /\ UNCHANGED failures /\ d \in Nat
    BY <1>11, DurationTypes DEF Assemble, Open
  <2> DEFINE e == BeforeLastFlush(d)
             q == FlushFrames(e)
             p == [q EXCEPT !.phase = "closed"]
             f == IF e.overrun THEN e ELSE p
  <2>3. Base(options, Behind(Cleared, e), e) /\ e.flush = Len(e.cached)
    BY <2>2, KeptAtStart, KeptByLast
  <2>4. NoFailure => ~ e.overrun
    <3> SUFFICES ASSUME NoFailure PROVE ~ e.overrun
      OBVIOUS
    <3> DEFINE r == IncreasePreviousDuration(enc, d)
    <3>1. enc.phase = "adding"
      BY <1>2, <2>2 DEF Slots, Encoder
    <3>2. ASSUME NeedsAverage PROVE Encoder(r) /\ ~ r.overrun
      <4>1. Adding /\ Live(enc) /\ Len(enc.cached) > 0
        BY <2>2, <3>1, <3>2 DEF NeedsAverage, Adding, Live
      <4>2. Interval(options, mux, enc)
        BY <4>1 DEF KeyFrames
      <4>3. ~ enc.first /\ (enc.known => enc.since > options.kmin)
        BY <4>1, <4>2 DEF Interval, Flushing
      <4>4. enc.flush = 0 /\ Fit(options, enc)
        BY <4>1, <4>3 DEF Slots
      <4>5. ~ r.overrun
        BY <1>2, <2>2, <4>1, <4>3, <4>4, RoomByIncrease
      <4>6. Kept(options, Cleared, r)
        BY <2>2, <4>1, KeptAtStart, KeptByIncrease
      <4> QED
        BY <4>5, <4>6 DEF Kept, Base
    <3> DEFINE s == IF NeedsAverage THEN r ELSE enc
    <3>3. Encoder(s) /\ ~ s.overrun
      BY <1>2, <2>2, <3>2
    <3>4. e = [s EXCEPT !.flush = Len(s.cached)]
      BY DEF BeforeLastFlush
    <3> HIDE DEF e, s
    <3>5. e.overrun = s.overrun
      BY <3>3, <3>4 DEF Encoder
    <3> QED
      BY <3>3, <3>5
  <2>5. Finish(f, Unchanging(d))
    BY <2>1
  <2> HIDE DEF e
  <2>6. Base(options, Behind(Cleared, q), q) /\ q.overrun = e.overrun
    <3>1. Encoder(e) /\ e.flush \in 0 .. Len(e.cached)
      BY <2>3 DEF Base, Encoder
    <3> DEFINE g == PushFrames(e, e.flush)
    <3>2. Pushes(g, e, e.flush)
      BY <3>1, PushFields
    <3>3. q.overrun = g.overrun
      BY <3>1, FlushFields
    <3>4. Base(options, Behind(Cleared, q), q)
      BY <2>3, BaseByFlush
    <3> QED
      BY <3>2, <3>3, <3>4 DEF Pushes
  <2> HIDE DEF q
  <2>7. Encoder(q) /\ Encoder(e)
    BY <2>3, <2>6 DEF Base
  <2>8. Encoder(p) /\ p.phase = "closed" /\ p.overrun = q.overrun
    BY <2>7 DEF Encoder
  <2> HIDE DEF p
  <2>9. NoFailure => Fine(f)
    BY <2>4, <2>6, <2>8 DEF Fine
  <2>10. Encoder(f)
    BY <2>7, <2>8
  <2> HIDE DEF f
  <2> QED
    BY <1>3, <2>2, <2>5, <2>9, <2>10
<1>12. ASSUME UNCHANGED vars PROVE Slots'
  BY <1>12 DEF vars, Slots, NoFailure, Adding
<1> QED
  BY <1>6, <1>7, <1>8, <1>9, <1>10, <1>11, <1>12 DEF Next, Terminated

\* As long as no call fails, the frames that wait fit in the array, fillers included:
\* the assertion of GetFrame holds for all options, durations and picked key frames.
THEOREM SlotsAlwaysSuffice == SafeSpec => []SlotsSuffice
<1>1. Init => KeyFrames /\ Slots
  <2>1. Init => Slots
    BY DEF Init, Slots, Adding
  <2> QED
    BY <2>1, InitKeyFrames
<1>2. KeyFrames /\ Slots /\ [Next]_vars => (KeyFrames /\ Slots)'
  BY NextKeyFrames, NextSlots
<1>3. Slots => SlotsSuffice
  BY DEF Slots, SlotsSuffice
<1> QED
  BY <1>1, <1>2, <1>3, PTL DEF SafeSpec

-----------------------------------------------------------------------------
(* As long as no call fails, everything is shown as long as it should be.    *)

\* The duration of a frame fits in the container, and is the same for the encoding
\* that is chosen now and for the one that may be chosen instead.
Even(f) ==
  /\ f.sub.duration < MaxDuration
  /\ f.isKey => f.key.duration = f.sub.duration

\* The last frame is the one whose duration the next call gives.
Sound(e) ==
  /\ \A i \in 1 .. Len(e.cached) : Even(e.cached[i])
  /\ Len(e.cached) > 0 => e.cached[Len(e.cached)].canvas = e.canvas

\* w is what has been asked for.
Timed(w, e) == Sound(e) /\ w = Shown(e.pushed) \o Shown(e.cached)

Lasting(e, d) == [t \in 1 .. d |-> e.canvas]

LEMMA LastingFields ==
  ASSUME NEW e, Encoder(e), NEW d \in Nat
  PROVE  Lasting(e, d) \in Seq(0 .. 1) /\ Len(Lasting(e, d)) = d
         /\ (d = 0 => Lasting(e, d) = << >>)
<1>1. e.canvas \in 0 .. 1
  BY DEF Encoder
<1>2. Lasting(e, d) \in Seq(0 .. 1) /\ Len(Lasting(e, d)) = d
  BY <1>1 DEF Lasting
<1>3. ASSUME d = 0 PROVE Lasting(e, d) = << >>
  <2> DEFINE v == Lasting(e, d)
  <2>1. v \in Seq(0 .. 1) /\ Len(v) = 0
    BY <1>2, <1>3
  <2> HIDE DEF v
  <2>2. v = << >>
    BY <2>1, EmptySeq
  <2> QED
    BY <2>2 DEF v
<1> QED
  BY <1>2, <1>3

LEMMA TimedTypes ==
  ASSUME NEW e, Encoder(e)
  PROVE  /\ Shown(e.pushed) \in Seq(0 .. 1) /\ Shown(e.cached) \in Seq(0 .. 1)
         /\ Shown(e.pushed) \o Shown(e.cached) \in Seq(0 .. 1)
<1>1. Shown(e.pushed) \in Seq(0 .. 1) /\ Shown(e.cached) \in Seq(0 .. 1)
  BY ShownIsSeq DEF Encoder
<1> QED
  BY <1>1, ConcatProperties

LEMMA PartOfEven ==
  ASSUME NEW f \in Frame, Even(f)
  PROVE  Part(f) = [t \in 1 .. f.sub.duration |-> f.canvas]
BY DEF Part, Chosen, Even

\* A frame goes on.
LEMMA PartOfLonger ==
  ASSUME NEW e, Encoder(e), NEW f \in Frame, f.canvas = e.canvas, Even(f), NEW d \in Nat,
         f.sub.duration + d < MaxDuration
  PROVE  Even(Longer(f, d)) /\ Part(Longer(f, d)) = Part(f) \o Lasting(e, d)
<1> DEFINE g == Longer(f, d)
           k == f.sub.duration
<1>1. /\ g \in Frame /\ g.canvas = f.canvas
      /\ g.sub.duration = k + d /\ g.key.duration = k + d
  BY LongerFields
<1>2. k \in Nat
  BY DEF Frame, Info
<1> HIDE DEF g, k
<1>3. Even(g)
  BY <1>1 DEF Even, k
<1>4. Part(g) = [t \in 1 .. k + d |-> e.canvas]
  BY <1>1, <1>3, PartOfEven
<1>5. Part(f) = [t \in 1 .. k |-> e.canvas]
  BY PartOfEven DEF k
<1>6. e.canvas \in 0 .. 1
  BY DEF Encoder
<1>7. [t \in 1 .. k + d |-> e.canvas]
        = [t \in 1 .. k |-> e.canvas] \o [t \in 1 .. d |-> e.canvas]
  <2> DEFINE a == [t \in 1 .. k |-> e.canvas]
             b == [t \in 1 .. d |-> e.canvas]
             u == [t \in 1 .. k + d |-> e.canvas]
  <2>1. /\ a \in Seq(0 .. 1) /\ Len(a) = k /\ \A t \in 1 .. k : a[t] = e.canvas
        /\ b \in Seq(0 .. 1) /\ Len(b) = d /\ \A t \in 1 .. d : b[t] = e.canvas
    BY <1>2, <1>6
  <2>2. /\ u \in Seq(0 .. 1) /\ Len(u) = k + d /\ \A t \in 1 .. k + d : u[t] = e.canvas
    BY <1>2, <1>6
  <2> HIDE DEF a, b, u
  <2>3. /\ a \o b \in Seq(0 .. 1) /\ Len(a \o b) = k + d
        /\ \A t \in 1 .. k + d : (a \o b)[t] = IF t <= k THEN a[t] ELSE b[t - k]
    <3>1. /\ a \o b \in Seq(0 .. 1) /\ Len(a \o b) = Len(a) + Len(b)
          /\ \A t \in 1 .. Len(a) + Len(b) :
               (a \o b)[t] = IF t <= Len(a) THEN a[t] ELSE b[t - Len(a)]
      BY <2>1, ConcatProperties
    <3> QED
      BY <2>1, <3>1
  <2>4. \A t \in 1 .. k + d : (a \o b)[t] = u[t]
    BY <1>2, <2>1, <2>2, <2>3
  <2>5. u = a \o b
    BY <2>2, <2>3, <2>4, SeqEqual
  <2> QED
    BY <2>5 DEF a, b, u
<1> QED
  BY <1>3, <1>4, <1>5, <1>7 DEF g, Lasting

LEMMA TimedByIncrease ==
  ASSUME NEW e, Encoder(e), Len(e.cached) > 0, NEW d \in Nat, d < MaxDuration,
         NEW w, Timed(w, e), ~ IncreasePreviousDuration(e, d).overrun
  PROVE  Timed(w \o Lasting(e, d), IncreasePreviousDuration(e, d))
<1> DEFINE n == Len(e.cached)
           p == IncreasePreviousDuration(e, d)
           x == Shown(e.pushed)
<1>1. /\ n \in Nat /\ n > 0 /\ e.cached \in Seq(Frame)
      /\ \A i \in 1 .. n : Even(e.cached[i]) /\ e.cached[i] \in Frame
      /\ e.cached[n].canvas = e.canvas /\ w = x \o Shown(e.cached)
  BY DEF Encoder, Timed, Sound
<1>2. /\ x \in Seq(0 .. 1) /\ Shown(e.cached) \in Seq(0 .. 1)
      /\ Lasting(e, d) \in Seq(0 .. 1)
  BY TimedTypes, LastingFields
<1>3. IncreaseResult(e, d, p)
  BY IncreaseResults
<1>4. ~ p.overrun
  OBVIOUS
<1> HIDE DEF p
<1>5. CASE p = Overrun(e)
  BY <1>4, <1>5, OverrunFields
<1>6. ASSUME Sound(p), p.pushed = e.pushed,
             Shown(p.cached) = Shown(e.cached) \o Lasting(e, d)
      PROVE  Timed(w \o Lasting(e, d), p)
  <2>1. (x \o Shown(e.cached)) \o Lasting(e, d) = x \o (Shown(e.cached) \o Lasting(e, d))
    BY <1>2, ConcatAssociative
  <2> QED
    BY <1>1, <1>6, <2>1 DEF Timed
<1>7. CASE /\ ~ TooLong(e, d)
           /\ p = [e EXCEPT !.cached[n] = Longer(e.cached[n], d)]
  <2> DEFINE f == e.cached[n]
             g == Longer(f, d)
             s == SubSeq(e.cached, 1, n - 1)
  <2>1. /\ SameState(p, e) /\ p.cached = [e.cached EXCEPT ![n] = g] /\ Encoder(p)
    BY <1>7, LongerLast
  <2>2. f \in Frame /\ Even(f) /\ f.canvas = e.canvas
    BY <1>1
  <2>3. f.sub.duration + d < MaxDuration
    <3>1. Last(e.cached) = f
      BY DEF Last
    <3>2. f.sub.duration \in Nat
      BY <2>2 DEF Frame, Info
    <3> HIDE DEF f
    <3> QED
      BY <1>7, <3>1, <3>2, BoundsAssumption DEF TooLong
  <2> HIDE DEF f
  <2>4. Even(g) /\ Part(g) = Part(f) \o Lasting(e, d)
    BY <2>2, <2>3, PartOfLonger
  <2>5. g \in Frame /\ g.canvas = e.canvas
    BY <2>2, LongerFields
  <2> HIDE DEF g
  <2>6. s \in Seq(Frame) /\ e.cached = Append(s, f) /\ p.cached = Append(s, g)
    <3>1. s \in Seq(Frame) /\ Len(s) = n - 1 /\ \A i \in 1 .. n - 1 : s[i] = e.cached[i]
      BY <1>1
    <3>2. /\ p.cached \in Seq(Frame) /\ Len(p.cached) = n
          /\ \A i \in 1 .. n : p.cached[i] = IF i = n THEN g ELSE e.cached[i]
      BY <1>1, <2>1, <2>5, ExceptSeq
    <3> HIDE DEF s
    <3>3. /\ Append(s, f) \in Seq(Frame) /\ Len(Append(s, f)) = n
          /\ \A i \in 1 .. n : Append(s, f)[i] = IF i = n THEN f ELSE s[i]
      BY <1>1, <2>2, <3>1
    <3>4. /\ Append(s, g) \in Seq(Frame) /\ Len(Append(s, g)) = n
          /\ \A i \in 1 .. n : Append(s, g)[i] = IF i = n THEN g ELSE s[i]
      BY <1>1, <2>5, <3>1
    <3>5. \A i \in 1 .. n : i # n => i \in 1 .. n - 1
      BY <1>1
    <3>6. \A i \in 1 .. n : e.cached[i] = Append(s, f)[i]
      BY <3>1, <3>3, <3>5 DEF f
    <3>7. \A i \in 1 .. n : p.cached[i] = Append(s, g)[i]
      BY <3>1, <3>2, <3>4, <3>5
    <3>8. e.cached = Append(s, f)
      BY <1>1, <3>3, <3>6, SeqEqual
    <3>9. p.cached = Append(s, g)
      BY <3>2, <3>4, <3>7, SeqEqual
    <3> QED
      BY <3>1, <3>8, <3>9
  <2> HIDE DEF s
  <2>7. Shown(p.cached) = Shown(e.cached) \o Lasting(e, d)
    <3>1. Shown(e.cached) = Shown(s) \o Part(f) /\ Shown(p.cached) = Shown(s) \o Part(g)
      BY <2>2, <2>5, <2>6, ShownMore
    <3>2. Shown(s) \in Seq(0 .. 1) /\ Part(f) \in Seq(0 .. 1)
      BY <2>2, <2>6, ShownIsSeq, PartIsSeq
    <3>3. (Shown(s) \o Part(f)) \o Lasting(e, d) = Shown(s) \o (Part(f) \o Lasting(e, d))
      <4>1. Lasting(e, d) \in Seq(0 .. 1)
        BY <1>2
      <4> QED
        BY <3>2, <4>1, ConcatAssociative
    <3> QED
      BY <2>4, <3>1, <3>3
  <2>8. Sound(p)
    <3>1. /\ Len(p.cached) = n
          /\ \A i \in 1 .. n : p.cached[i] = IF i = n THEN g ELSE e.cached[i]
      BY <1>1, <2>1, <2>5, ExceptSeq
    <3>2. p.cached[n] = g
      BY <1>1, <3>1
    <3>3. \A i \in 1 .. n : Even(p.cached[i])
      BY <1>1, <2>4, <3>1
    <3>4. p.canvas = e.canvas
      BY <2>1 DEF SameState
    <3>5. g.canvas = p.canvas
      BY <1>1, <2>2, <2>5, <3>4
    <3> QED
      BY <3>1, <3>2, <3>3, <3>5 DEF Sound
  <2> QED
    BY <1>6, <2>1, <2>7, <2>8 DEF SameState, p
<1>8. CASE p = AddFiller(e, d)
  <2> DEFINE f == Filler(e, d)
  <2>1. /\ Encoder(p) /\ p.cached = Append(e.cached, f) /\ p.canvas = e.canvas
        /\ p.pushed = e.pushed
    <3>1. Filled(p, e, d)
      BY <1>8, FillerFields
    <3> QED
      BY <1>8, <3>1 DEF Filled
  <2>2. /\ f \in Frame /\ f.isKey = FALSE /\ f.filler = TRUE /\ f.canvas = e.canvas
        /\ f.assumes = "NONE" /\ f.rect = "sub"
        /\ f.sub.duration = d /\ f.sub.dispose = "NONE" /\ f.key.dispose = "NONE"
    <3>1. IsFiller(f, e, d)
      BY FillerFrame
    <3> QED
      BY <3>1 DEF IsFiller
  <2> HIDE DEF f
  <2>3. Even(f) /\ Part(f) = Lasting(e, d)
    <3>1. Even(f)
      BY <2>2 DEF Even
    <3> QED
      BY <2>2, <3>1, PartOfEven DEF Lasting
  <2>4. Shown(p.cached) = Shown(e.cached) \o Lasting(e, d)
    BY <1>1, <2>1, <2>2, <2>3, ShownMore
  <2>5. Sound(p)
    <3>1. /\ Len(p.cached) = n + 1
          /\ \A i \in 1 .. n + 1 : p.cached[i] = IF i = n + 1 THEN f ELSE e.cached[i]
      BY <1>1, <2>1, <2>2
    <3>2. p.cached[n + 1] = f
      <4>1. n + 1 \in 1 .. n + 1
        BY <1>1
      <4> QED
        BY <3>1, <4>1
    <3>3. \A i \in 1 .. n + 1 : i # n + 1 => i \in 1 .. n
      BY <1>1
    <3>4. \A i \in 1 .. n + 1 : Even(p.cached[i])
      BY <1>1, <2>3, <3>1, <3>3
    <3> QED
      BY <2>1, <2>2, <3>1, <3>2, <3>4 DEF Sound
  <2> QED
    BY <1>6, <2>1, <2>4, <2>5 DEF p
<1> QED
  BY <1>3, <1>5, <1>7, <1>8 DEF IncreaseResult, p

\* What is pushed is shown before what is still cached.
LEMMA TimedByPush ==
  ASSUME NEW e, Encoder(e), NEW k \in 0 .. Len(e.cached), NEW w, Timed(w, e)
  PROVE  Timed(w, PushFrames(e, k))
<1> DEFINE n == Len(e.cached)
           p == PushFrames(e, k)
           a == SubSeq(e.cached, 1, k)
           b == SubSeq(e.cached, k + 1, n)
<1>1. /\ n \in Nat /\ k \in 0 .. n /\ e.cached \in Seq(Frame) /\ e.pushed \in Seq(Frame)
      /\ Sound(e) /\ w = Shown(e.pushed) \o Shown(e.cached)
  BY DEF Encoder, Timed
<1>2. /\ p.cached = b /\ Len(p.cached) = n - k /\ p.pushed = e.pushed \o a
      /\ \A i \in 1 .. n - k : p.cached[i] = e.cached[i + k]
      /\ p.canvas = e.canvas
  <2>1. Pushes(p, e, k)
    BY PushFields
  <2> QED
    BY <2>1 DEF Pushes
<1>3. a \in Seq(Frame) /\ b \in Seq(Frame) /\ e.cached = a \o b
  <2>1. a \in Seq(Frame) /\ b \in Seq(Frame)
    BY <1>1
  <2>2. SubSeq(e.cached, 1, k) \o SubSeq(e.cached, k + 1, n) = SubSeq(e.cached, 1, n)
    <3>1. 1 \in 1 .. Len(e.cached) + 1 /\ k \in 1 - 1 .. Len(e.cached) /\ n \in k .. Len(e.cached)
      BY <1>1
    <3> QED
      BY <1>1, <3>1, ConcatAdjacentSubSeq
  <2>3. SubSeq(e.cached, 1, n) = e.cached
    BY <1>1, SubSeqFull
  <2> QED
    BY <2>1, <2>2, <2>3
<1> HIDE DEF p, a, b
<1>4. w = Shown(p.pushed) \o Shown(p.cached)
  <2>1. Shown(e.cached) = Shown(a) \o Shown(b)
    BY <1>3, ShownConcat
  <2>2. Shown(p.pushed) = Shown(e.pushed) \o Shown(a)
    BY <1>1, <1>2, <1>3, ShownConcat
  <2>3. /\ Shown(e.pushed) \in Seq(0 .. 1) /\ Shown(a) \in Seq(0 .. 1)
        /\ Shown(b) \in Seq(0 .. 1)
    BY <1>1, <1>3, ShownIsSeq
  <2>4. (Shown(e.pushed) \o Shown(a)) \o Shown(b) = Shown(e.pushed) \o (Shown(a) \o Shown(b))
    BY <2>3, ConcatAssociative
  <2> QED
    BY <1>1, <1>2, <2>1, <2>2, <2>4
<1>5. Sound(p)
  <2>1. \A i \in 1 .. n : Even(e.cached[i])
    BY <1>1 DEF Sound
  <2>2. \A i \in 1 .. n - k : i + k \in 1 .. n
    BY <1>1
  <2>3. \A i \in 1 .. n - k : Even(p.cached[i])
    BY <1>2, <2>1, <2>2
  <2>4. ASSUME n - k > 0 PROVE p.cached[n - k].canvas = e.canvas
    <3>1. n - k \in 1 .. n - k /\ (n - k) + k = n /\ n > 0
      BY <1>1, <2>4
    <3>2. e.cached[n].canvas = e.canvas
      BY <1>1, <3>1 DEF Sound
    <3> QED
      BY <1>2, <3>1, <3>2
  <2> QED
    BY <1>2, <2>3, <2>4 DEF Sound
<1> QED
  BY <1>4, <1>5 DEF Timed, p

LEMMA TimedSame ==
  ASSUME NEW e, NEW p, NEW w, Timed(w, e), p.cached = e.cached, p.pushed = e.pushed,
         p.canvas = e.canvas
  PROVE  Timed(w, p)
BY DEF Timed, Sound

LEMMA TimedByFlush ==
  ASSUME NEW e, Encoder(e), e.flush \in 0 .. Len(e.cached), NEW w, Timed(w, e)
  PROVE  Timed(w, FlushFrames(e))
<1> DEFINE p == PushFrames(e, e.flush)
           q == FlushFrames(e)
<1>1. Timed(w, p)
  BY TimedByPush
<1>2. q.cached = p.cached /\ q.pushed = p.pushed /\ q.canvas = p.canvas
  BY FlushFields
<1> HIDE DEF p, q
<1> QED
  BY <1>1, <1>2, TimedSame DEF q

\* A new frame has no duration yet.
LEMMA NewIsEmpty ==
  ASSUME NEW f \in Frame, f.sub = NewInfo, f.key = NewInfo
  PROVE  Even(f) /\ Part(f) = << >>
<1>1. NewInfo.duration = 0 /\ 0 < MaxDuration
  BY BoundsAssumption DEF NewInfo
<1>2. Even(f)
  BY <1>1 DEF Even
<1>3. Part(f) \in Seq(0 .. 1) /\ Len(Part(f)) = 0
  BY <1>1, PartIsSeq DEF Chosen
<1>4. Part(f) = << >>
  BY <1>3, EmptySeq
<1> QED
  BY <1>2, <1>4

\* The encoding that is chosen makes no difference.
LEMMA SamePart ==
  ASSUME NEW f \in Frame, NEW g \in Frame, Even(g), f.canvas = g.canvas,
         f.sub.duration = g.sub.duration, f.key.duration = g.key.duration,
         f.isKey => g.isKey
  PROVE  Even(f) /\ Part(f) = Part(g)
<1>1. Even(f)
  BY DEF Even
<1> QED
  BY <1>1, PartOfEven

LEMMA ShownWithEmpty ==
  ASSUME NEW s \in Seq(Frame), NEW t \in Seq(Frame), Len(t) = Len(s) + 1,
         \A i \in 1 .. Len(s) : Part(t[i]) = Part(s[i]), Part(t[Len(t)]) = << >>
  PROVE  Shown(t) = Shown(s)
<1> DEFINE n == Len(s)
           u == SubSeq(t, 1, n)
           f == t[n + 1]
<1>1. n \in Nat /\ Len(t) = n + 1 /\ f \in Frame
  OBVIOUS
<1>2. u \in Seq(Frame) /\ Len(u) = n /\ \A i \in 1 .. n : u[i] = t[i]
  BY <1>1
<1> HIDE DEF u
<1>3. t = Append(u, f)
  <2>1. /\ Append(u, f) \in Seq(Frame) /\ Len(Append(u, f)) = n + 1
        /\ \A i \in 1 .. n + 1 : Append(u, f)[i] = IF i = n + 1 THEN f ELSE u[i]
    BY <1>1, <1>2
  <2>2. \A i \in 1 .. n + 1 : i # n + 1 => i \in 1 .. n
    BY <1>1
  <2>3. \A i \in 1 .. n + 1 : t[i] = Append(u, f)[i]
    BY <1>2, <2>1, <2>2
  <2> QED
    BY <1>1, <2>1, <2>3, SeqEqual
<1>4. Shown(t) = Shown(u) \o << >>
  <2>1. Part(f) = << >>
    BY <1>1
  <2> HIDE DEF f
  <2>2. Shown(Append(u, f)) = Shown(u) \o Part(f)
    BY <1>1, <1>2, ShownMore
  <2> QED
    BY <1>3, <2>1, <2>2
<1>5. Shown(u) = Shown(s)
  BY <1>2, ShownSame
<1>6. Shown(u) \o << >> = Shown(u)
  BY <1>2, ShownIsSeq, ConcatEmptySeq
<1> QED
  BY <1>4, <1>5, <1>6

\* CacheFrame.
LastIs(w, p, c) ==
  /\ w = Shown(p.pushed) \o Shown(p.cached)
  /\ \A i \in 1 .. Len(p.cached) : Even(p.cached[i])
  /\ p.cached[Len(p.cached)].canvas = c

LEMMA TimedByNext ==
  ASSUME NEW m, NEW e, Base(options, m, e), Len(e.cached) > 0,
         NEW c \in 0 .. 1, NEW dispose \in Disposal, NEW picked \in BOOLEAN,
         NEW w, Timed(w, e)
  PROVE  LastIs(w, CacheNextFrame(e, c, dispose, picked), c)
<1> DEFINE n == Len(e.cached)
           p == CacheNextFrame(e, c, dispose, picked)
           q == SubFrame(e, c, dispose)
           j == e.keyframe + 1
           picks == Picks(options, e, picked)
<1>1. Encoder(e)
  BY DEF Base
<1>2. IsNext(p, q, options, e, picked)
  BY NextFields
<1>3. IsSubFrame(q, e, c, dispose)
  BY <1>1, DecidedFields
<1> HIDE DEF p, q
<1>4. /\ n \in Nat /\ n > 0 /\ e.cached \in Seq(Frame) /\ j \in 0 .. n
      /\ e.rect \in Rects
  BY DEF Base, Encoder, Candidate
<1>5. /\ Encoder(q) /\ Len(q.cached) = n + 1
      /\ \A i \in 1 .. n - 1 : q.cached[i] = e.cached[i]
      /\ Redisposed(q.cached[n], e.cached[n])
      /\ q.cached[n + 1] = NewFrame(c, dispose, e.rect)
      /\ q.pushed = e.pushed
  BY <1>3 DEF IsSubFrame
<1>6. /\ Encoder(p) /\ Len(p.cached) = n + 1 /\ p.pushed = e.pushed
      /\ ~ picks => p.cached = q.cached
      /\ picks => /\ \A i \in 1 .. n : i # j => p.cached[i] = q.cached[i]
                  /\ j # 0 => Rechosen(p.cached[j], q.cached[j], FALSE)
                  /\ Rechosen(p.cached[n + 1], q.cached[n + 1], TRUE)
  <2>1. /\ Encoder(p) /\ Len(p.cached) = n + 1 /\ p.pushed = e.pushed
        /\ ~ picks => p.cached = q.cached
        /\ picks => /\ \A i \in 1 .. n : i # e.keyframe + 1 => p.cached[i] = q.cached[i]
                    /\ e.keyframe # -1 => Rechosen(p.cached[e.keyframe + 1],
                                                   q.cached[e.keyframe + 1], FALSE)
                    /\ Rechosen(p.cached[n + 1], q.cached[n + 1], TRUE)
    BY <1>2 DEF IsNext
  <2>2. j # 0 => e.keyframe # -1
    OBVIOUS
  <2> HIDE DEF n, picks
  <2> QED
    BY <2>1, <2>2
<1> HIDE DEF picks, j
<1>7. p.cached \in Seq(Frame) /\ q.cached \in Seq(Frame)
  BY <1>5, <1>6 DEF Encoder
<1>8. \A i \in 1 .. n : e.cached[i] \in Frame /\ Even(e.cached[i])
  BY <1>4 DEF Timed, Sound
<1>9. ASSUME NEW i \in 1 .. n
      PROVE  /\ q.cached[i] \in Frame /\ Even(q.cached[i])
             /\ Part(q.cached[i]) = Part(e.cached[i])
  <2>1. CASE i = n
    <3>1. Redisposed(q.cached[i], e.cached[i])
      BY <1>5, <2>1
    <3>2. e.cached[i] \in Frame /\ Even(e.cached[i])
      BY <1>8
    <3> QED
      BY <3>1, <3>2, SamePart DEF Redisposed
  <2>2. CASE i # n
    <3>1. i \in 1 .. n - 1
      BY <1>4, <2>2
    <3> QED
      BY <1>5, <1>8, <3>1
  <2> QED
    BY <2>1, <2>2
<1>10. ASSUME NEW i \in 1 .. n
       PROVE  Even(p.cached[i]) /\ Part(p.cached[i]) = Part(e.cached[i])
  <2>1. CASE p.cached[i] = q.cached[i]
    BY <1>9, <2>1
  <2>2. CASE Rechosen(p.cached[i], q.cached[i], FALSE)
    BY <1>9, <2>2, SamePart DEF Rechosen
  <2>3. p.cached[i] = q.cached[i] \/ Rechosen(p.cached[i], q.cached[i], FALSE)
    <3>1. i = j => j # 0
      BY <1>4
    <3> QED
      BY <1>6, <3>1
  <2> QED
    BY <2>1, <2>2, <2>3
<1>11. /\ q.cached[n + 1] \in Frame /\ q.cached[n + 1].sub = NewInfo
       /\ q.cached[n + 1].key = NewInfo /\ q.cached[n + 1].canvas = c
  <2> DEFINE g == NewFrame(c, dispose, e.rect)
  <2>1. g \in Frame /\ g.sub = NewInfo /\ g.key = NewInfo /\ g.canvas = c
    BY <1>4 DEF NewFrame, NewInfo, Frame, Info, Disposal
  <2> HIDE DEF g
  <2>2. q.cached[n + 1] = g
    BY <1>5 DEF g
  <2> QED
    BY <2>1, <2>2
<1>12. /\ p.cached[n + 1] \in Frame /\ p.cached[n + 1].sub = NewInfo
       /\ p.cached[n + 1].key = NewInfo /\ p.cached[n + 1].canvas = c
  BY <1>6, <1>11 DEF Rechosen
<1>13. Even(p.cached[n + 1]) /\ Part(p.cached[n + 1]) = << >>
  BY <1>12, NewIsEmpty
<1>14. Shown(p.cached) = Shown(e.cached)
  BY <1>4, <1>6, <1>7, <1>10, <1>13, ShownWithEmpty
<1>15. \A i \in 1 .. n + 1 : Even(p.cached[i])
  <2>1. \A i \in 1 .. n + 1 : i # n + 1 => i \in 1 .. n
    BY <1>4
  <2> QED
    BY <1>10, <1>13, <2>1
<1> QED
  BY <1>6, <1>12, <1>14, <1>15 DEF Timed, LastIs, p

LEMMA TimedByCache ==
  ASSUME NEW m, NEW e, Base(options, m, e), NEW w, Timed(w, e),
         e.first => Len(e.cached) = 0, ~ e.first => Len(e.cached) > 0,
         NEW c \in 0 .. 1, NEW dispose \in Disposal, NEW picked \in BOOLEAN,
         ~ CacheFrame(e, c, dispose, picked).overrun
  PROVE  Timed(w, CacheFrame(e, c, dispose, picked))
<1> DEFINE p == CacheFrame(e, c, dispose, picked)
<1>1. CacheResult(e, c, dispose, picked, p) /\ ~ p.overrun
  BY CacheResults
<1> HIDE DEF p
<1>2. Encoder(e) /\ w = Shown(e.pushed) \o Shown(e.cached) /\ Sound(e)
  BY DEF Base, Timed
<1>3. CASE p = Overrun(e)
  BY <1>1, <1>2, <1>3, OverrunFields
<1>4. CASE /\ e.first
           /\ p = [Counted(CacheFirstFrame(e, c)) EXCEPT !.first = FALSE, !.canvas = c]
  <2> DEFINE q == CacheFirstFrame(e, c)
             f == FirstFrame(c)
  <2>1. IsFirst(q, f, e, c)
    BY <1>2, FirstFrameFields
  <2> HIDE DEF q, f
  <2>2. /\ f \in Frame /\ f.canvas = c /\ f.sub = NewInfo /\ f.key = NewInfo
        /\ Encoder(q) /\ q.cached = << f >> /\ q.pushed = e.pushed
    BY <2>1 DEF IsFirst
  <2>3. Rest(p, q, FALSE, c)
    BY <1>4, <2>2, CountedFields DEF q
  <2>4. p.cached = << f >> /\ p.pushed = e.pushed /\ p.canvas = c
    BY <2>2, <2>3 DEF Rest, SameRest
  <2>5. Even(f) /\ Part(f) = << >>
    BY <2>2, NewIsEmpty
  <2>6. Shown(e.cached) = << >>
    <3>1. e.cached = << >>
      BY <1>2, <1>4, EmptySeq DEF Encoder
    <3> QED
      BY <3>1, ShownNothing
  <2>7. Shown(<< f >>) = << >>
    <3>1. << >> \in Seq(Frame) /\ Append(<< >>, f) = << f >>
      BY <2>2
    <3>2. Shown(<< f >>) = Shown(<< >>) \o Part(f)
      BY <2>2, <3>1, ShownMore
    <3>3. << >> \o << >> = << >>
      OBVIOUS
    <3> QED
      BY <2>5, <3>2, <3>3, ShownNothing
  <2>8. Sound(p)
    <3>1. Len(<< f >>) = 1 /\ << f >>[1] = f
      OBVIOUS
    <3>2. \A i \in 1 .. 1 : i = 1
      OBVIOUS
    <3> QED
      BY <2>2, <2>4, <2>5, <3>1, <3>2 DEF Sound
  <2> QED
    BY <1>2, <2>4, <2>6, <2>7, <2>8 DEF Timed, p
<1>5. CASE ~ e.first /\ c = e.canvas /\ p = Counted(e)
  <2>1. Rest(p, e, e.first, e.canvas)
    BY <1>2, <1>5, CountedFields
  <2> QED
    BY <2>1, TimedSame DEF Rest, SameRest, p
<1>6. CASE /\ ~ e.first
           /\ p = [Counted(CacheNextFrame(e, c, dispose, picked)) EXCEPT !.canvas = c]
  <2> DEFINE q == CacheNextFrame(e, c, dispose, picked)
             r == SubFrame(e, c, dispose)
  <2>1. IsNext(q, r, options, e, picked)
    BY <1>6, NextFields
  <2>2. LastIs(w, q, c)
    <3>1. Len(e.cached) > 0
      BY <1>6
    <3> QED
      BY <3>1, TimedByNext
  <2> HIDE DEF q, r
  <2>3. Encoder(q)
    BY <2>1 DEF IsNext
  <2>4. Rest(p, q, q.first, c)
    BY <1>6, <2>3, CountedFields DEF q
  <2> QED
    BY <2>2, <2>4 DEF Rest, SameRest, LastIs, Timed, Sound, p
<1> QED
  BY <1>1, <1>3, <1>4, <1>5, <1>6 DEF CacheResult

LEMMA TimedByReady ==
  ASSUME Kept(options, Cleared, enc), Live(enc), NEW d \in Nat, d < MaxDuration,
         enc.first => d = 0, NEW w, Timed(w, enc), ~ Ready(d).overrun
  PROVE  Timed(w \o Lasting(enc, d), Ready(d))
<1> DEFINE e == Increased(d)
           r == Ready(d)
           v == w \o Lasting(enc, d)
<1>1. /\ Kept(options, Cleared, e) /\ e.phase = "adding"
  BY KeptByReady
<1>2. r = IF IsFull(e) /\ ~ e.overrun THEN FlushFrames(e) ELSE e
  BY DEF Ready
<1>3. Encoder(enc) /\ Encoder(e)
  BY <1>1 DEF Kept, Base
<1>4. w \in Seq(0 .. 1)
  BY <1>3, TimedTypes DEF Timed
<1>5. ~ r.overrun
  OBVIOUS
<1> HIDE DEF r
<1>6. ~ e.overrun
  <2>1. CASE IsFull(e) /\ ~ e.overrun
    BY <2>1
  <2>2. CASE ~ (IsFull(e) /\ ~ e.overrun)
    <3> HIDE DEF e
    <3> QED
      BY <1>2, <1>5, <2>2
  <2> QED
    BY <2>1, <2>2
<1>7. Timed(v, e)
  <2>1. CASE enc.first
    <3>1. e = enc
      BY <2>1 DEF Increased
    <3>2. Lasting(enc, d) = << >>
      BY <1>3, <2>1, LastingFields
    <3>3. v = w
      BY <1>4, <3>2, ConcatEmptySeq
    <3> HIDE DEF e, v
    <3> QED
      BY <3>1, <3>3
  <2>2. CASE ~ enc.first
    <3>1. Len(enc.cached) > 0
      BY <2>2, FlushInRange
    <3>2. e = IncreasePreviousDuration(enc, d)
      BY <2>2 DEF Increased
    <3> HIDE DEF e
    <3> QED
      BY <1>3, <1>6, <3>1, <3>2, TimedByIncrease
  <2> QED
    BY <2>1, <2>2
<1> HIDE DEF e, v
<1>8. CASE IsFull(e) /\ ~ e.overrun
  <2>1. e.flush \in 0 .. Len(e.cached)
    BY <1>1, <1>6, FlushInRange DEF Live
  <2>2. Timed(v, FlushFrames(e))
    BY <1>3, <1>7, <2>1, TimedByFlush
  <2> QED
    BY <1>2, <1>8, <2>2 DEF v, r
<1>9. CASE ~ (IsFull(e) /\ ~ e.overrun)
  BY <1>2, <1>7, <1>9 DEF v, r
<1> QED
  BY <1>8, <1>9

\* What a call has pushed was due; what is cached is due after it.
LEMMA DuePrefix ==
  ASSUME NEW x \in Seq(0 .. 1), NEW y \in Seq(0 .. 1)
  PROVE  /\ IsPrefix(x, x \o y)
         /\ SubSeq(x \o y, Len(x) + 1, Len(x \o y)) = y
<1> DEFINE n == Len(x)
           k == Len(y)
           w == x \o y
<1>1. /\ n \in Nat /\ k \in Nat /\ w \in Seq(0 .. 1) /\ Len(w) = n + k
      /\ \A i \in 1 .. n + k : w[i] = IF i <= n THEN x[i] ELSE y[i - n]
  BY ConcatProperties
<1> HIDE DEF w
<1>2. SubSeq(x, 1, n) = SubSeq(w, 1, n)
  <2>1. /\ SubSeq(x, 1, n) \in Seq(0 .. 1) /\ Len(SubSeq(x, 1, n)) = n
        /\ \A i \in 1 .. n : SubSeq(x, 1, n)[i] = x[i]
    OBVIOUS
  <2>2. /\ SubSeq(w, 1, n) \in Seq(0 .. 1) /\ Len(SubSeq(w, 1, n)) = n
        /\ \A i \in 1 .. n : SubSeq(w, 1, n)[i] = w[i]
    BY <1>1
  <2>3. \A i \in 1 .. n : w[i] = x[i]
    BY <1>1
  <2> DEFINE a == SubSeq(x, 1, n)
             b == SubSeq(w, 1, n)
  <2> HIDE DEF a, b, n
  <2>4. a = b
    BY <2>1, <2>2, <2>3, SeqEqual DEF a, b
  <2> QED
    BY <2>4 DEF a, b
<1>3. SubSeq(w, n + 1, n + k) = y
  <2> DEFINE b == SubSeq(w, n + 1, n + k)
  <2>1. b \in Seq(0 .. 1) /\ Len(b) = k /\ \A i \in 1 .. k : b[i] = w[n + i]
    BY <1>1
  <2>2. \A i \in 1 .. k : w[n + i] = y[i]
    <3>1. \A i \in 1 .. k : n + i \in 1 .. n + k /\ ~ (n + i <= n) /\ (n + i) - n = i
      BY <1>1
    <3> QED
      BY <1>1, <3>1
  <2> HIDE DEF b
  <2>3. b = y
    BY <2>1, <2>2, SeqEqual
  <2> QED
    BY <2>3 DEF b
<1> QED
  BY <1>1, <1>2, <1>3 DEF IsPrefix, w

Times ==
  NoFailure => ~ mux.late /\ due = Shown(enc.cached) /\ Sound(enc)

LEMMA TimedAtStart ==
  ASSUME KeyFrames, Times, NoFailure PROVE Timed(due, enc) /\ ~ mux.late
<1>1. Shown(enc.pushed) = << >> /\ Encoder(enc)
  BY ShownNothing DEF KeyFrames, Base
<1>2. Shown(enc.cached) \in Seq(0 .. 1)
  BY <1>1, TimedTypes
<1>3. << >> \o Shown(enc.cached) = Shown(enc.cached)
  BY <1>2, ConcatEmptySeq
<1> QED
  BY <1>1, <1>3 DEF Timed, Times

LEMMA TimedAtEnd ==
  ASSUME NEW e, NEW shown, Finish(e, shown), UNCHANGED failures, KeyFrames',
         NoFailure => Encoder(e) /\ Timed(due \o shown, e) /\ ~ mux.late
  PROVE  Times'
<1> SUFFICES ASSUME NoFailure PROVE ~ mux'.late /\ due' = Shown(enc'.cached) /\ Sound(enc')
  BY DEF Times, NoFailure, Sound
<1> DEFINE x == Shown(e.pushed)
           y == Shown(e.cached)
           late == mux.late \/ ~ IsPrefix(x, due \o shown)
           m == FoldLeft(MuxFrame, [mux EXCEPT !.distances = {}], e.pushed)
           p == [e EXCEPT !.pushed = << >>]
<1>1. /\ enc' = p
      /\ mux' = [m EXCEPT !.late = late]
      /\ due' = IF late THEN << >> ELSE SubSeq(due \o shown, Len(x) + 1, Len(due \o shown))
  BY DEF Finish
<1>2. due \o shown = x \o y /\ ~ mux.late /\ Sound(e)
  BY DEF Timed
<1>3. x \in Seq(0 .. 1) /\ y \in Seq(0 .. 1)
  BY TimedTypes
<1> HIDE DEF x, y
<1>4. ~ late /\ SubSeq(due \o shown, Len(x) + 1, Len(due \o shown)) = y
  BY <1>2, <1>3, DuePrefix
<1> HIDE DEF late
<1>5. due' = y
  BY <1>1, <1>4
<1>6. p.cached = e.cached /\ p.canvas = e.canvas
  BY DEF Encoder
<1> HIDE DEF p
<1>7. Sound(enc') /\ due' = Shown(enc'.cached)
  BY <1>1, <1>2, <1>5, <1>6 DEF Sound, y
<1>8. mux'.late = late
  <2>1. "late" \in DOMAIN mux'
    BY DEF KeyFrames, Base, Muxer
  <2> HIDE DEF m
  <2> QED
    BY <1>1, <2>1
<1> QED
  BY <1>4, <1>7, <1>8

LEMMA NextTimes == KeyFrames /\ Slots /\ Times /\ [Next]_vars => Times'
<1> SUFFICES ASSUME KeyFrames, Slots, Times, [Next]_vars PROVE Times'
  OBVIOUS
<1>1. KeyFrames' /\ Slots'
  BY NextKeyFrames, NextSlots
<1>2. /\ failures \in Nat /\ Encoder(enc)
      /\ NoFailure => Timed(due, enc) /\ ~ mux.late
  BY TimedAtStart DEF Slots, KeyFrames, Base
<1>3. ASSUME failures' \in Nat, ~ NoFailure' PROVE Times'
  BY <1>3 DEF Times
<1>4. \A d \in Durations : d \in Nat /\ d < MaxDuration /\ (enc.first => d = 0)
  BY BoundsAssumption DEF Durations
<1>5. \A d : Unchanging(d) = Lasting(enc, d)
  BY DEF Unchanging, Lasting
<1>6. ASSUME NEW d \in Durations, Adding, NoFailure
      PROVE  /\ Kept(options, Cleared, Ready(d)) /\ Smooth(options, Ready(d))
             /\ Ready(d).first => Len(Ready(d).cached) = 0
             /\ ~ Ready(d).first => Len(Ready(d).cached) > 0
             /\ Timed(due \o Unchanging(d), Ready(d))
  <2>1. /\ Kept(options, Cleared, Ready(d)) /\ Smooth(options, Ready(d))
        /\ Ready(d).first => Len(Ready(d).cached) = 0
        /\ ~ Ready(d).first => Len(Ready(d).cached) > 0
        /\ ~ Ready(d).overrun
    BY <1>4, <1>6, SlotsWhenAdding
  <2>2. Kept(options, Cleared, enc) /\ Live(enc)
    BY <1>6, KeptAtStart DEF Adding, Live
  <2>3. Timed(due \o Lasting(enc, d), Ready(d))
    BY <1>2, <1>4, <1>6, <2>1, <2>2, TimedByReady
  <2> QED
    BY <1>5, <2>1, <2>3
<1>7. ASSUME NEW d \in Durations, NEW c \in 0 .. 1, Add(c, d) PROVE Times'
  <2>1. PICK e \in Cached(d, c) :
          Finish(IF e.overrun THEN e ELSE FlushFrames(e), Unchanging(d))
    BY <1>7 DEF Add
  <2>2. Adding /\ UNCHANGED failures
    BY <1>7 DEF Add
  <2> DEFINE f == IF e.overrun THEN e ELSE FlushFrames(e)
  <2>3. ASSUME NoFailure PROVE Encoder(f) /\ Timed(due \o Unchanging(d), f)
    <3> DEFINE r == Ready(d)
               w == due \o Unchanging(d)
    <3>1. PICK x \in Outcomes(r, c) : e = CacheFrame(r, c, x[1], x[2])
      BY DEF Cached
    <3>2. x[1] \in Disposal /\ x[2] \in BOOLEAN
      BY OutcomeTypes
    <3>3. /\ Base(options, Behind(Cleared, r), r) /\ Smooth(options, r) /\ Timed(w, r)
          /\ r.first => Len(r.cached) = 0
          /\ ~ r.first => Len(r.cached) > 0
      BY <1>6, <2>2, <2>3 DEF Kept
    <3> HIDE DEF r, w
    <3>4. ~ e.overrun /\ Encoder(e) /\ Room(options, e)
      BY <3>1, <3>2, <3>3, RoomByCache
    <3>5. Timed(w, e)
      BY <3>1, <3>2, <3>3, <3>4, TimedByCache
    <3>6. e.flush \in 0 .. Len(e.cached)
      BY <3>4 DEF Room, Encoder
    <3>7. Encoder(FlushFrames(e)) /\ Timed(w, FlushFrames(e))
      BY <3>4, <3>5, <3>6, FlushFields, TimedByFlush
    <3> QED
      BY <3>4, <3>7 DEF w
  <2> HIDE DEF f
  <2> QED
    BY <1>1, <1>2, <2>1, <2>2, <2>3, TimedAtEnd DEF f
<1>8. ASSUME NEW d \in Durations, AddNull(d) PROVE Times'
  <2> DEFINE r == Ready(d)
             p == [r EXCEPT !.gotNull = TRUE]
  <2>1. Adding /\ UNCHANGED failures /\ Finish(p, Unchanging(d))
    BY <1>8 DEF AddNull
  <2>2. ASSUME NoFailure PROVE Encoder(p) /\ Timed(due \o Unchanging(d), p)
    <3>1. Encoder(r) /\ Timed(due \o Unchanging(d), r)
      BY <1>6, <2>1, <2>2 DEF Kept, Base
    <3> HIDE DEF r
    <3>2. Encoder(p) /\ p.cached = r.cached /\ p.pushed = r.pushed /\ p.canvas = r.canvas
      BY <3>1 DEF Encoder
    <3> HIDE DEF p
    <3> QED
      BY <3>1, <3>2, TimedSame
  <2> HIDE DEF p
  <2> QED
    BY <1>1, <1>2, <2>1, <2>2, TimedAtEnd
<1>9. ASSUME NEW d \in Durations,
             AddFillerFails(d) \/ AddFrameFails(d) \/ AddKeyFrameFails(d)
      PROVE  Times'
  BY <1>2, <1>3, <1>9, Failing DEF AddFillerFails, AddFrameFails, AddKeyFrameFails
<1>10. ASSUME NEW d \in Durations, NEW c \in 0 .. 1, AddPushFails(c, d) PROVE Times'
  BY <1>2, <1>3, <1>10, Failing DEF AddPushFails
<1>11. ASSUME AssembleFails PROVE Times'
  BY <1>2, <1>3, <1>11, Failing DEF AssembleFails
<1>12. ASSUME Assemble PROVE Times'
  <2>1. PICK d \in Averages :
          LET e == BeforeLastFlush(d) IN
          Finish(IF e.overrun THEN e
                 ELSE [FlushFrames(e) EXCEPT !.phase = "closed"], Unchanging(d))
    BY <1>12 DEF Assemble
  <2>2. UNCHANGED failures /\ d \in Nat /\ (~ NeedsAverage => d = 0) /\ d < MaxDuration
    BY <1>12, BoundsAssumption DEF Assemble, Averages
  <2> DEFINE s == IF NeedsAverage THEN IncreasePreviousDuration(enc, d) ELSE enc
             e == [s EXCEPT !.flush = Len(s.cached)]
             q == FlushFrames(e)
             p == [q EXCEPT !.phase = "closed"]
             f == IF e.overrun THEN e ELSE p
             w == due \o Unchanging(d)
  <2>3. Finish(f, Unchanging(d))
    BY <2>1 DEF BeforeLastFlush
  <2>4. Encoder(s)
    <3>1. ASSUME NeedsAverage PROVE Encoder(IncreasePreviousDuration(enc, d))
      <4>1. Len(enc.cached) > 0 /\ Kept(options, Cleared, enc)
        BY <3>1, KeptAtStart DEF NeedsAverage
      <4> QED
        BY <2>2, <4>1, KeptByIncrease DEF Kept, Base
    <3> QED
      BY <1>2, <3>1
  <2>5. ASSUME NoFailure, ~ s.overrun PROVE Timed(w, s)
    <3>1. CASE NeedsAverage
      <4>1. s = IncreasePreviousDuration(enc, d) /\ Len(enc.cached) > 0
        BY <3>1 DEF NeedsAverage
      <4> HIDE DEF s
      <4>2. Timed(due \o Lasting(enc, d), s)
        BY <1>2, <2>2, <2>5, <4>1, TimedByIncrease
      <4> QED
        BY <1>5, <4>2
    <3>2. CASE ~ NeedsAverage
      <4>1. s = enc /\ Lasting(enc, d) = << >>
        BY <1>2, <2>2, <3>2, LastingFields
      <4> HIDE DEF s
      <4>2. due \in Seq(0 .. 1)
        BY <1>2, <2>5, TimedTypes DEF Timed
      <4>3. w = due
        BY <1>5, <4>1, <4>2, ConcatEmptySeq
      <4> HIDE DEF w
      <4> QED
        BY <1>2, <2>5, <4>1, <4>3
    <3> QED
      BY <3>1, <3>2
  <2> HIDE DEF s, w
  <2>6. /\ Encoder(e) /\ e.cached = s.cached /\ e.pushed = s.pushed /\ e.canvas = s.canvas
        /\ e.overrun = s.overrun /\ e.flush = Len(e.cached)
    BY <2>4 DEF Encoder
  <2> HIDE DEF e
  <2>7. ASSUME NoFailure PROVE ~ e.overrun
    <3>1. enc' = [f EXCEPT !.pushed = << >>]
      BY <2>3 DEF Finish
    <3>2. ~ enc'.overrun
      BY <1>1, <2>2, <2>7 DEF Slots, NoFailure
    <3>3. CASE e.overrun
      <4>1. f = e
        BY <3>3
      <4> HIDE DEF f
      <4>2. enc'.overrun = e.overrun
        BY <2>6, <3>1, <4>1 DEF Encoder
      <4> QED
        BY <3>2, <3>3, <4>2
    <3> QED
      BY <3>3
  <2>8. e.flush \in 0 .. Len(e.cached)
    BY <2>6 DEF Encoder
  <2>9. Encoder(q)
    BY <2>6, <2>8, FlushFields
  <2>10. ASSUME NoFailure PROVE Timed(w, q)
    <3>1. Timed(w, s)
      BY <2>5, <2>6, <2>7, <2>10
    <3>2. Timed(w, e)
      BY <2>6, <3>1, TimedSame
    <3> QED
      BY <2>6, <2>8, <3>2, TimedByFlush
  <2> HIDE DEF q
  <2>11. Encoder(p) /\ p.cached = q.cached /\ p.pushed = q.pushed /\ p.canvas = q.canvas
    BY <2>9 DEF Encoder
  <2> HIDE DEF p
  <2>12. NoFailure => Encoder(f) /\ Timed(w, f)
    BY <2>7, <2>10, <2>11, TimedSame
  <2> HIDE DEF f
  <2> QED
    BY <1>1, <1>2, <2>2, <2>3, <2>12, TimedAtEnd DEF w
<1>13. ASSUME UNCHANGED vars PROVE Times'
  BY <1>13 DEF vars, Times, NoFailure, Sound
<1> QED
  BY <1>7, <1>8, <1>9, <1>10, <1>11, <1>12, <1>13 DEF Next, Terminated

\* As long as no call fails, what goes to the muxer, followed by what is cached, shows
\* every canvas exactly as long as the timestamps say, and no frame lasts longer than
\* the container can say, however frames are merged, split, chosen and flushed.
THEOREM TimelineIsKept == SafeSpec => []TimelineKept
<1>1. Init => KeyFrames /\ Slots /\ Times
  <2>1. Init => Slots
    BY DEF Init, Slots, Adding
  <2>2. Init => Times
    BY ShownNothing DEF Init, Times, Sound
  <2> QED
    BY <2>1, <2>2, InitKeyFrames
<1>2. KeyFrames /\ Slots /\ Times /\ [Next]_vars => (KeyFrames /\ Slots /\ Times)'
  BY NextKeyFrames, NextSlots, NextTimes
<1>3. KeyFrames /\ Times => TimelineKept
  <2>1. ASSUME KeyFrames, Sound(enc), NEW f \in ToSet(enc.cached)
        PROVE  f.sub.duration < MaxDuration
    <3>1. enc.cached \in Seq(Frame)
      BY <2>1 DEF KeyFrames, Base, Encoder
    <3>2. PICK i \in 1 .. Len(enc.cached) : f = enc.cached[i]
      BY <2>1, <3>1 DEF ToSet
    <3> QED
      BY <2>1, <3>2 DEF Sound, Even
  <2> QED
    BY <2>1 DEF Times, TimelineKept
<1> QED
  BY <1>1, <1>2, <1>3, PTL DEF SafeSpec

-----------------------------------------------------------------------------
(* As long as no call fails, sub-frames find the canvas they assume.         *)

\* Neither encoding of f clears anything.
Plain(f) == f.sub.dispose = "NONE" /\ f.key.dispose = "NONE"

\* The frames fit, after the one pushed last; what may still change clears nothing.
Matched(last, e) ==
  LET n == Len(e.cached) IN
  /\ e.first => n = 0 /\ last = NoFrame
  /\ last # NoFrame /\ n > 0 => Fits(last, e.cached[1])
  /\ \A i \in 1 .. n - 1 : Fits(e.cached[i], e.cached[i + 1])
  /\ n > 0 => Plain(e.cached[n])
  /\ e.keyframe # -1 => Plain(e.cached[e.keyframe + 1])
  /\ ~ e.undecided /\ n > 0 => e.rect = ChosenRect(e.cached[n]) /\ e.keyframe + 1 # n

LEMMA FitsSame ==
  ASSUME NEW f, NEW g, NEW h, NEW k, Fits(g, k),
         h.assumes = k.assumes, h.rect = k.rect, f.isKey = g.isKey,
         f.sub.dispose = g.sub.dispose, f.key.dispose = g.key.dispose
  PROVE  Fits(f, h)
BY DEF Fits, Chosen, ChosenRect

\* Another encoding of a frame that clears nothing is chosen.
LEMMA FitsPlain ==
  ASSUME NEW f, NEW g, NEW h, NEW k, Fits(g, k), Plain(g), Plain(f),
         h.assumes = k.assumes
  PROVE  Fits(f, h)
<1>1. Chosen(g).dispose = "NONE" /\ Chosen(f).dispose = "NONE"
  BY DEF Chosen, Plain
<1>2. h.assumes = "NONE"
  BY <1>1 DEF Fits
<1> QED
  BY <1>1, <1>2 DEF Fits

LEMMA MatchedSame ==
  ASSUME NEW last, NEW e, NEW p, Matched(last, e), p.cached = e.cached, p.first = e.first,
         p.keyframe = e.keyframe, p.undecided = e.undecided, p.rect = e.rect
  PROVE  Matched(last, p)
BY DEF Matched

LEMMA MatchedByIncrease ==
  ASSUME NEW e, Encoder(e), Candidate(e), Len(e.cached) > 0, NEW d \in Nat,
         NEW last, Matched(last, e)
  PROVE  Matched(last, IncreasePreviousDuration(e, d))
<1> DEFINE n == Len(e.cached)
           p == IncreasePreviousDuration(e, d)
           j == e.keyframe + 1
<1>1. /\ n \in Nat /\ n > 0 /\ e.cached \in Seq(Frame) /\ j \in 0 .. n /\ e.keyframe = j - 1
      /\ \A i \in 1 .. n : e.cached[i] \in Frame
  BY DEF Encoder, Candidate
<1>2. /\ ~ e.first
      /\ last # NoFrame => Fits(last, e.cached[1])
      /\ \A i \in 1 .. n - 1 : Fits(e.cached[i], e.cached[i + 1])
      /\ Plain(e.cached[n]) /\ (j # 0 => Plain(e.cached[j]))
      /\ ~ e.undecided => e.rect = ChosenRect(e.cached[n]) /\ j # n
  BY <1>1 DEF Matched
<1>3. IncreaseResult(e, d, p)
  BY IncreaseResults
<1> HIDE DEF p, j
<1>4. CASE p = Overrun(e)
  BY <1>4, OverrunFields, MatchedSame DEF SameState, p
<1>5. CASE p = [e EXCEPT !.cached[n] = Longer(e.cached[n], d)]
  <2> DEFINE f == e.cached[n]
             g == Longer(f, d)
  <2>1. /\ SameState(p, e) /\ p.cached = [e.cached EXCEPT ![n] = g] /\ Encoder(p)
    BY <1>5, LongerLast
  <2>2. f \in Frame
    BY <1>1
  <2> HIDE DEF f
  <2>3. /\ g \in Frame /\ g.isKey = f.isKey /\ g.assumes = f.assumes /\ g.rect = f.rect
        /\ g.sub.dispose = f.sub.dispose /\ g.key.dispose = f.key.dispose
    BY <2>2, LongerFields
  <2> HIDE DEF g
  <2>4. /\ Len(p.cached) = n
        /\ \A i \in 1 .. n : p.cached[i] = IF i = n THEN g ELSE e.cached[i]
    BY <1>1, <2>1, <2>3, ExceptSeq
  <2> DEFINE Alike(a, b) == /\ a.isKey = b.isKey /\ a.assumes = b.assumes
                            /\ a.rect = b.rect /\ a.sub.dispose = b.sub.dispose
                            /\ a.key.dispose = b.key.dispose
  <2>5. \A i \in 1 .. n : Alike(p.cached[i], e.cached[i])
    BY <2>3, <2>4 DEF f
  <2>6. ASSUME NEW i \in 1 .. n - 1 PROVE Fits(p.cached[i], p.cached[i + 1])
    <3>1. i \in 1 .. n /\ i + 1 \in 1 .. n
      BY <1>1
    <3>2. Fits(e.cached[i], e.cached[i + 1])
      BY <1>2
    <3>3. Alike(p.cached[i], e.cached[i]) /\ Alike(p.cached[i + 1], e.cached[i + 1])
      BY <2>5, <3>1
    <3> QED
      BY <3>2, <3>3, FitsSame
  <2>7. 1 \in 1 .. n /\ n \in 1 .. n
    BY <1>1
  <2>8. last # NoFrame => Fits(last, p.cached[1])
    BY <1>2, <2>5, <2>7, FitsSame
  <2>9. Plain(p.cached[n]) /\ (j # 0 => Plain(p.cached[j]))
    <3>1. j # 0 => j \in 1 .. n
      BY <1>1
    <3> QED
      BY <1>2, <2>5, <2>7, <3>1 DEF Plain
  <2>10. ChosenRect(p.cached[n]) = ChosenRect(e.cached[n])
    BY <2>5, <2>7 DEF ChosenRect
  <2>11. /\ p.first = e.first /\ p.keyframe = j - 1 /\ p.undecided = e.undecided
         /\ p.rect = e.rect
    BY <1>1, <2>1 DEF SameState
  <2> HIDE DEF n
  <2>12. (j - 1) + 1 = j /\ (j - 1 # -1 => j # 0)
    BY <1>1
  <2> QED
    BY <1>2, <2>4, <2>6, <2>8, <2>9, <2>10, <2>11, <2>12 DEF Matched, p
<1>6. CASE p = AddFiller(e, d)
  <2> DEFINE f == Filler(e, d)
  <2>1. /\ Encoder(p) /\ p.cached = Append(e.cached, f) /\ p.undecided = FALSE
        /\ p.rect = "sub" /\ p.keyframe = j - 1 /\ p.first = e.first
    <3>1. Filled(p, e, d)
      BY <1>1, <1>6, FillerFields
    <3> QED
      BY <1>1, <1>6, <3>1 DEF Filled
  <2>2. /\ f \in Frame /\ f.isKey = FALSE /\ f.filler = TRUE /\ f.canvas = e.canvas
        /\ f.assumes = "NONE" /\ f.rect = "sub"
        /\ f.sub.duration = d /\ f.sub.dispose = "NONE" /\ f.key.dispose = "NONE"
    <3>1. IsFiller(f, e, d)
      BY FillerFrame
    <3> QED
      BY <3>1 DEF IsFiller
  <2> HIDE DEF f
  <2>3. /\ Len(p.cached) = n + 1 /\ p.cached[n + 1] = f
        /\ \A i \in 1 .. n : p.cached[i] = e.cached[i]
    BY <1>1, <2>1, <2>2
  <2>4. Fits(e.cached[n], f)
    BY <1>2, <2>2 DEF Fits, Plain, Chosen
  <2>5. ASSUME NEW i \in 1 .. n PROVE Fits(p.cached[i], p.cached[i + 1])
    <3>1. CASE i = n
      BY <1>1, <2>3, <2>4, <3>1
    <3>2. CASE i # n
      <4>1. i \in 1 .. n - 1 /\ i + 1 \in 1 .. n
        BY <1>1, <3>2
      <4> QED
        BY <1>2, <2>3, <4>1
    <3> QED
      BY <3>1, <3>2
  <2>6. Plain(f) /\ ChosenRect(f) = "sub"
    BY <2>2 DEF Plain, ChosenRect
  <2>7. /\ 1 \in 1 .. n /\ (j # 0 => j \in 1 .. n) /\ (j - 1) + 1 = j
        /\ (j - 1 # -1 => j # 0) /\ j # n + 1 /\ (n + 1) - 1 = n
    BY <1>1
  <2> HIDE DEF n
  <2>8. Matched(last, p)
    BY <1>2, <2>1, <2>3, <2>5, <2>6, <2>7 DEF Matched
  <2> QED
    BY <2>8 DEF p
<1> QED
  BY <1>3, <1>4, <1>5, <1>6 DEF IncreaseResult, p

LEMMA MatchedByPush ==
  ASSUME NEW o, NEW m, NEW e, Base(o, Behind(m, e), e), NEW k \in 0 .. Len(e.cached),
         Matched(Behind(m, e).last, e)
  PROVE  LET p == PushFrames(e, k) IN Matched(Behind(m, p).last, p)
<1> DEFINE n == Len(e.cached)
           p == PushFrames(e, k)
           b == Behind(m, e)
           x == Behind(m, p)
           j == e.keyframe + 1
<1>1. /\ Encoder(e) /\ Muxer(b) /\ Spaced(o, b, e.cached)
      /\ FirstIsKey(b, e.cached, e.keyframe)
      /\ n \in Nat /\ k \in 0 .. n /\ e.cached \in Seq(Frame)
      /\ j \in 0 .. n /\ e.keyframe = j - 1
  BY DEF Base, Encoder, Candidate
<1> Encoder(e)
  BY <1>1
<1>2. x = Muxed(b, SubSeq(e.cached, 1, k))
  BY BaseByPushing
<1>3. /\ Len(p.cached) = n - k
      /\ \A i \in 1 .. n - k : p.cached[i] = e.cached[i + k]
      /\ p.keyframe = KeyframeAfter(e, k) /\ p.undecided = e.undecided
      /\ p.first = e.first /\ p.rect = e.rect
  <2>1. Pushes(p, e, k)
    BY PushFields
  <2> QED
    BY <2>1 DEF Pushes
<1>4. /\ e.first => n = 0 /\ b.last = NoFrame
      /\ b.last # NoFrame /\ n > 0 => Fits(b.last, e.cached[1])
      /\ \A i \in 1 .. n - 1 : Fits(e.cached[i], e.cached[i + 1])
      /\ n > 0 => Plain(e.cached[n])
      /\ j # 0 => Plain(e.cached[j])
      /\ ~ e.undecided /\ n > 0 => e.rect = ChosenRect(e.cached[n]) /\ j # n
  BY <1>1 DEF Matched
<1> HIDE DEF b, x, p, j
<1>5. (k = 0 => x = b) /\ (k > 0 => x.last = e.cached[k])
  <2>1. Passed(Muxed(b, SubSeq(e.cached, 1, k)), o, b, e.cached, k)
    BY <1>1, PushedRun
  <2> QED
    BY <1>2, <2>1 DEF Passed
<1> DEFINE l == p.keyframe + 1
<1>6. l = (IF j - k < 0 THEN 0 ELSE j - k) /\ p.keyframe = l - 1 /\ l \in Int
  BY <1>1, <1>3 DEF KeyframeAfter, KEYFRAME_NONE
<1> HIDE DEF l, n
<1>7. p.first => n - k = 0 /\ x.last = NoFrame
  BY <1>1, <1>3, <1>4, <1>5
<1>8. ASSUME x.last # NoFrame, n - k > 0 PROVE Fits(x.last, p.cached[1])
  <2>1. 1 \in 1 .. n - k /\ n > 0
    BY <1>1, <1>8
  <2>2. CASE k = 0
    BY <1>3, <1>4, <1>5, <1>8, <2>1, <2>2
  <2>3. CASE k > 0
    <3>1. k \in 1 .. n - 1 /\ 1 + k = k + 1
      BY <1>1, <1>8, <2>3
    <3> QED
      BY <1>3, <1>4, <1>5, <2>1, <2>3, <3>1
  <2> QED
    BY <1>1, <2>2, <2>3
<1>9. ASSUME NEW i \in 1 .. (n - k) - 1 PROVE Fits(p.cached[i], p.cached[i + 1])
  <2>1. /\ i \in 1 .. n - k /\ i + 1 \in 1 .. n - k /\ i + k \in 1 .. n - 1
        /\ (i + 1) + k = (i + k) + 1
    BY <1>1
  <2> QED
    BY <1>3, <1>4, <2>1
<1>10. ASSUME n - k > 0 PROVE p.cached[n - k] = e.cached[n] /\ n > 0
  <2>1. n - k \in 1 .. n - k /\ (n - k) + k = n /\ n > 0
    BY <1>1, <1>10
  <2> QED
    BY <1>3, <2>1
<1>11. ASSUME l # 0 PROVE Plain(p.cached[l])
  <2>1. l \in 1 .. n - k /\ l + k = j /\ j # 0
    BY <1>1, <1>6, <1>11
  <2> QED
    BY <1>3, <1>4, <2>1
<1>12. ASSUME ~ p.undecided, n - k > 0
       PROVE  p.rect = ChosenRect(p.cached[n - k]) /\ l # n - k
  <2>1. j # n
    BY <1>3, <1>4, <1>10, <1>12
  <2>2. l # n - k
    BY <1>1, <1>6, <1>12, <2>1
  <2> QED
    BY <1>3, <1>4, <1>10, <1>12, <2>2
<1>13. (l - 1) + 1 = l /\ (l - 1 # -1 => l # 0)
  BY <1>6
<1>14. Matched(x.last, p)
  BY <1>3, <1>4, <1>6, <1>7, <1>8, <1>9, <1>10, <1>11, <1>12, <1>13 DEF Matched
<1> QED
  BY <1>14 DEF x, p

LEMMA MatchedByFlush ==
  ASSUME NEW o, NEW m, NEW e, Base(o, Behind(m, e), e), e.flush \in 0 .. Len(e.cached),
         Matched(Behind(m, e).last, e)
  PROVE  LET q == FlushFrames(e) IN Matched(Behind(m, q).last, q)
<1> DEFINE p == PushFrames(e, e.flush)
           q == FlushFrames(e)
<1>1. Encoder(e)
  BY DEF Base
<1>2. Matched(Behind(m, p).last, p)
  BY MatchedByPush
<1>3. /\ q.cached = p.cached /\ q.pushed = p.pushed /\ q.keyframe = p.keyframe
      /\ q.undecided = p.undecided /\ q.first = p.first /\ q.rect = p.rect
  BY <1>1, FlushFields
<1> HIDE DEF p, q
<1>4. Behind(m, q) = Behind(m, p)
  BY <1>3 DEF Behind
<1> QED
  BY <1>2, <1>3, <1>4, MatchedSame DEF q

\* CacheFrame.  Background is tried as disposal only if nothing is undecided.
LEMMA MatchedByNext ==
  ASSUME NEW m, NEW e, Base(options, m, e), Len(e.cached) > 0,
         NEW c \in 0 .. 1, NEW dispose \in Disposal, NEW picked \in BOOLEAN,
         e.undecided => dispose = "NONE", NEW last, Matched(last, e)
  PROVE  Matched(last, CacheNextFrame(e, c, dispose, picked))
<1> DEFINE n == Len(e.cached)
           p == CacheNextFrame(e, c, dispose, picked)
           q == SubFrame(e, c, dispose)
           g == NewFrame(c, dispose, e.rect)
           j == e.keyframe + 1
           l == p.keyframe + 1
           picks == Picks(options, e, picked)
           closes == Closes(options, e)
<1>1. Encoder(e)
  BY DEF Base
<1>2. IsNext(p, q, options, e, picked)
  BY NextFields
<1>3. IsSubFrame(q, e, c, dispose)
  BY <1>1, DecidedFields
<1> HIDE DEF p, q
<1>4. /\ n \in Nat /\ n > 0 /\ e.cached \in Seq(Frame) /\ j \in 0 .. n /\ e.keyframe = j - 1
      /\ e.rect \in Rects
  BY DEF Base, Encoder, Candidate
<1>5. /\ ~ e.first
      /\ last # NoFrame => Fits(last, e.cached[1])
      /\ \A i \in 1 .. n - 1 : Fits(e.cached[i], e.cached[i + 1])
      /\ Plain(e.cached[n])
      /\ j # 0 => Plain(e.cached[j])
      /\ ~ e.undecided => e.rect = ChosenRect(e.cached[n]) /\ j # n
  BY <1>4 DEF Matched
<1>6. /\ g.isKey = FALSE /\ g.assumes = dispose /\ g.rect = e.rect
      /\ g.sub = NewInfo /\ g.key = NewInfo /\ NewInfo.dispose = "NONE"
  BY DEF NewFrame, NewInfo
<1>7. /\ Encoder(q) /\ Len(q.cached) = n + 1
      /\ \A i \in 1 .. n - 1 : q.cached[i] = e.cached[i]
      /\ Redisposed(q.cached[n], e.cached[n])
      /\ Chosen(q.cached[n]).dispose = dispose
      /\ e.undecided => q.cached[n].sub.dispose = dispose /\ q.cached[n].key.dispose = dispose
      /\ q.cached[n + 1] = g
  BY <1>3 DEF IsSubFrame
<1>8. /\ Encoder(p) /\ Len(p.cached) = n + 1
      /\ ~ picks => p.cached = q.cached
      /\ picks => /\ \A i \in 1 .. n : i # e.keyframe + 1 => p.cached[i] = q.cached[i]
                  /\ e.keyframe # -1 => Rechosen(p.cached[e.keyframe + 1],
                                                 q.cached[e.keyframe + 1], FALSE)
                  /\ Rechosen(p.cached[n + 1], q.cached[n + 1], TRUE)
      /\ p.keyframe = IF closes THEN -1 ELSE IF picks THEN n ELSE e.keyframe
      /\ p.undecided = picks
      /\ p.rect = IF picks THEN "key" ELSE "sub"
      /\ p.first = e.first
  BY <1>2 DEF IsNext
<1> HIDE DEF g, picks, closes
<1>9. /\ \A i \in 1 .. n : p.cached[i] = q.cached[i]
                           \/ (i = j /\ Rechosen(p.cached[i], q.cached[i], FALSE))
      /\ IF picks THEN Rechosen(p.cached[n + 1], g, TRUE) ELSE p.cached[n + 1] = g
      /\ p.keyframe = l - 1
      /\ l = (IF closes THEN 0 ELSE IF picks THEN n + 1 ELSE j)
  <2>1. \A i \in 1 .. n : i # j => p.cached[i] = q.cached[i]
    BY <1>8
  <2>2. ASSUME j # 0
        PROVE  p.cached[j] = q.cached[j] \/ Rechosen(p.cached[j], q.cached[j], FALSE)
    <3>1. e.keyframe # -1
      BY <2>2
    <3>2. CASE picks
      BY <1>8, <3>1, <3>2
    <3>3. CASE ~ picks
      BY <1>8, <3>3
    <3> QED
      BY <3>2, <3>3
  <2>3. p.keyframe = l - 1 /\ l = (IF closes THEN 0 ELSE IF picks THEN n + 1 ELSE j)
    BY <1>4, <1>8
  <2>4. IF picks THEN Rechosen(p.cached[n + 1], g, TRUE) ELSE p.cached[n + 1] = g
    BY <1>7, <1>8
  <2>5. \A i \in 1 .. n : i = j => j # 0
    BY <1>4
  <2> HIDE DEF j, l, n
  <2>6. ASSUME NEW i \in 1 .. n
        PROVE  p.cached[i] = q.cached[i] \/ (i = j /\ Rechosen(p.cached[i], q.cached[i], FALSE))
    <3>1. CASE i = j
      BY <2>2, <2>5, <3>1
    <3>2. CASE i # j
      BY <2>1, <3>2
    <3> QED
      BY <3>1, <3>2
  <2> QED
    BY <2>3, <2>4, <2>6
<1> HIDE DEF j, l, n
<1>10. \A i \in 1 .. n : q.cached[i].assumes = e.cached[i].assumes
                         /\ q.cached[i].rect = e.cached[i].rect
  <2>1. \A i \in 1 .. n : i = n \/ i \in 1 .. n - 1
    BY <1>4
  <2> QED
    BY <1>7, <2>1 DEF Redisposed
<1>11. ASSUME j # 0 PROVE Plain(q.cached[j])
  <2>1. CASE j = n
    BY <1>5, <1>7, <2>1, <1>11 DEF Plain
  <2>2. CASE j # n
    <3>1. j \in 1 .. n - 1
      BY <1>4, <1>11, <2>2
    <3> QED
      BY <1>5, <1>7, <1>11, <3>1
  <2> QED
    BY <2>1, <2>2
<1>12. ASSUME NEW i \in 1 .. n PROVE Fits(q.cached[i], q.cached[i + 1])
  <2>1. CASE i = n
    <3>1. ChosenRect(q.cached[n]) = ChosenRect(e.cached[n])
      BY <1>7 DEF Redisposed, ChosenRect
    <3>2. dispose = "BACKGROUND" => ~ e.undecided
      OBVIOUS
    <3>3. dispose = "BACKGROUND" => e.rect = ChosenRect(q.cached[n])
      BY <1>5, <3>1, <3>2
    <3> QED
      BY <1>6, <1>7, <2>1, <3>3 DEF Fits
  <2>2. CASE i # n
    <3>1. i \in 1 .. n - 1 /\ i + 1 \in 1 .. n
      BY <1>4, <2>2
    <3>2. q.cached[i] = e.cached[i] /\ Fits(e.cached[i], e.cached[i + 1])
      BY <1>5, <1>7, <3>1
    <3>3. /\ q.cached[i + 1].assumes = e.cached[i + 1].assumes
          /\ q.cached[i + 1].rect = e.cached[i + 1].rect
      BY <1>10, <3>1
    <3> QED
      BY <3>2, <3>3 DEF Fits
  <2> QED
    BY <2>1, <2>2
<1>13. \A i \in 1 .. n + 1 : p.cached[i].assumes = q.cached[i].assumes
                             /\ p.cached[i].rect = q.cached[i].rect
  <2>1. \A i \in 1 .. n + 1 : i = n + 1 \/ i \in 1 .. n
    BY <1>4
  <2> QED
    BY <1>7, <1>9, <2>1 DEF Rechosen
<1>14. ASSUME NEW i \in 1 .. n PROVE Fits(p.cached[i], p.cached[i + 1])
  <2>1. /\ p.cached[i + 1].assumes = q.cached[i + 1].assumes
        /\ p.cached[i + 1].rect = q.cached[i + 1].rect
    <3>1. i + 1 \in 1 .. n + 1
      BY <1>4
    <3> QED
      BY <1>13, <3>1
  <2>2. CASE p.cached[i] = q.cached[i]
    BY <1>12, <2>1, <2>2 DEF Fits
  <2>3. CASE i = j /\ Rechosen(p.cached[i], q.cached[i], FALSE)
    <3>1. i # 0
      BY <1>4
    <3>2. Plain(q.cached[i])
      BY <1>11, <2>3, <3>1
    <3>3. Plain(p.cached[i])
      BY <2>3, <3>2 DEF Plain, Rechosen
    <3> QED
      BY <1>12, <2>1, <3>2, <3>3, FitsPlain
  <2> QED
    BY <1>9, <2>2, <2>3
<1>15. last # NoFrame => Fits(last, p.cached[1])
  <2>1. 1 \in 1 .. n /\ 1 \in 1 .. n + 1
    BY <1>4
  <2>2. p.cached[1].assumes = e.cached[1].assumes /\ p.cached[1].rect = e.cached[1].rect
    BY <1>10, <1>13, <2>1
  <2> QED
    BY <1>5, <2>2 DEF Fits
<1>16. Plain(p.cached[n + 1])
  BY <1>6, <1>9 DEF Plain, Rechosen
<1>17. ASSUME l # 0 PROVE Plain(p.cached[l])
  <2>1. CASE picks
    BY <1>9, <1>16, <1>17, <2>1
  <2>2. CASE ~ picks
    <3>1. l = j /\ j # 0
      BY <1>9, <1>17, <2>2
    <3> QED
      BY <1>8, <1>11, <2>2, <3>1
  <2> QED
    BY <2>1, <2>2
<1>18. ASSUME ~ picks PROVE p.rect = ChosenRect(p.cached[n + 1]) /\ l # n + 1
  <2>1. l = 0 \/ l = j
    BY <1>9, <1>18
  <2>2. l # n + 1
    BY <1>4, <2>1
  <2> QED
    BY <1>6, <1>8, <1>9, <1>18, <2>2 DEF ChosenRect
<1>19. /\ (n + 1) - 1 = n /\ (l - 1) + 1 = l /\ (l - 1 # -1 => l # 0)
  BY <1>4, <1>9
<1>20. Matched(last, p)
  BY <1>5, <1>8, <1>9, <1>14, <1>15, <1>16, <1>17, <1>18, <1>19 DEF Matched
<1> QED
  BY <1>20 DEF p

LEMMA MatchedByCache ==
  ASSUME NEW m, NEW e, Base(options, m, e), NEW last, Matched(last, e),
         ~ e.first => Len(e.cached) > 0,
         NEW c \in 0 .. 1, NEW dispose \in Disposal, NEW picked \in BOOLEAN,
         ~ e.first /\ c # e.canvas /\ e.undecided => dispose = "NONE"
  PROVE  Matched(last, CacheFrame(e, c, dispose, picked))
<1> DEFINE p == CacheFrame(e, c, dispose, picked)
<1>1. CacheResult(e, c, dispose, picked, p)
  BY CacheResults
<1> HIDE DEF p
<1>2. Encoder(e) /\ e.keyframe \in -1 .. Len(e.cached) - 1
  BY DEF Base, Candidate
<1>3. CASE p = Overrun(e)
  BY <1>2, <1>3, OverrunFields, MatchedSame DEF SameState, p
<1>4. CASE /\ e.first
           /\ p = [Counted(CacheFirstFrame(e, c)) EXCEPT !.first = FALSE, !.canvas = c]
  <2> DEFINE q == CacheFirstFrame(e, c)
             f == FirstFrame(c)
  <2>1. IsFirst(q, f, e, c)
    BY <1>2, FirstFrameFields
  <2> HIDE DEF q, f
  <2>2. /\ f \in Frame /\ f.isKey = TRUE /\ f.sub = NewInfo /\ f.key = NewInfo
        /\ Encoder(q) /\ q.cached = << f >> /\ q.keyframe = e.keyframe /\ q.rect = "key"
    BY <2>1 DEF IsFirst
  <2>3. Rest(p, q, FALSE, c)
    BY <1>4, <2>2, CountedFields DEF q
  <2>4. p.cached = << f >> /\ p.keyframe = e.keyframe /\ p.rect = "key" /\ p.first = FALSE
    BY <2>2, <2>3 DEF Rest, SameRest
  <2>5. last = NoFrame /\ e.keyframe = -1
    BY <1>2, <1>4 DEF Matched
  <2>6. Plain(f) /\ ChosenRect(f) = "key"
    BY <2>2 DEF Plain, ChosenRect, NewInfo
  <2>7. Len(<< f >>) = 1 /\ << f >>[1] = f /\ 1 .. 1 - 1 = {}
    OBVIOUS
  <2>8. Matched(last, p)
    BY <2>4, <2>5, <2>6, <2>7 DEF Matched
  <2> QED
    BY <2>8 DEF p
<1>5. CASE ~ e.first /\ c = e.canvas /\ p = Counted(e)
  <2>1. Rest(p, e, e.first, e.canvas)
    BY <1>2, <1>5, CountedFields
  <2> QED
    BY <2>1, MatchedSame DEF Rest, SameRest, p
<1>6. CASE /\ ~ e.first /\ c # e.canvas
           /\ p = [Counted(CacheNextFrame(e, c, dispose, picked)) EXCEPT !.canvas = c]
  <2> DEFINE q == CacheNextFrame(e, c, dispose, picked)
             r == SubFrame(e, c, dispose)
  <2>1. IsNext(q, r, options, e, picked)
    BY <1>6, NextFields
  <2>2. Matched(last, q)
    BY <1>6, MatchedByNext
  <2> HIDE DEF q, r
  <2>3. Encoder(q)
    BY <2>1 DEF IsNext
  <2>4. Rest(p, q, q.first, c)
    BY <1>6, <2>3, CountedFields DEF q
  <2> QED
    BY <2>2, <2>4, MatchedSame DEF Rest, SameRest, p
<1> QED
  BY <1>1, <1>3, <1>4, <1>5, <1>6 DEF CacheResult

\* Increasing durations and caching push nothing.
LEMMA PushedByIncrease ==
  ASSUME NEW e, Encoder(e), Len(e.cached) > 0, NEW d \in Nat
  PROVE  IncreasePreviousDuration(e, d).pushed = e.pushed
<1> DEFINE p == IncreasePreviousDuration(e, d)
<1>1. IncreaseResult(e, d, p)
  BY IncreaseResults
<1> HIDE DEF p
<1>2. CASE p = Overrun(e)
  BY <1>2, OverrunFields DEF SameState, p
<1>3. CASE p = [e EXCEPT !.cached[Len(e.cached)] = Longer(e.cached[Len(e.cached)], d)]
  <2>1. SameState(p, e)
    BY <1>3, LongerLast
  <2> QED
    BY <2>1 DEF SameState, p
<1>4. CASE p = AddFiller(e, d)
  BY <1>4, FillerFields DEF p, Filled
<1> QED
  BY <1>1, <1>2, <1>3, <1>4 DEF IncreaseResult

LEMMA PushedByCache ==
  ASSUME NEW m, NEW e, Base(options, m, e), ~ e.first => Len(e.cached) > 0,
         NEW c \in 0 .. 1, NEW dispose \in Disposal, NEW picked \in BOOLEAN
  PROVE  CacheFrame(e, c, dispose, picked).pushed = e.pushed
<1> DEFINE p == CacheFrame(e, c, dispose, picked)
<1>1. CacheResult(e, c, dispose, picked, p) /\ Encoder(e)
  BY CacheResults DEF Base
<1> HIDE DEF p
<1>2. CASE p = Overrun(e)
  BY <1>1, <1>2, OverrunFields DEF SameState, p
<1>3. CASE p = [Counted(CacheFirstFrame(e, c)) EXCEPT !.first = FALSE, !.canvas = c]
  <2> DEFINE q == CacheFirstFrame(e, c)
             f == FirstFrame(c)
  <2>1. IsFirst(q, f, e, c)
    BY <1>1, FirstFrameFields
  <2> HIDE DEF q, f
  <2>2. Encoder(q) /\ q.pushed = e.pushed
    BY <2>1 DEF IsFirst
  <2>3. Rest(p, q, FALSE, c)
    BY <1>3, <2>2, CountedFields DEF q
  <2> QED
    BY <2>2, <2>3 DEF Rest, SameRest, p
<1>4. CASE p = Counted(e)
  <2>1. Rest(p, e, e.first, e.canvas)
    BY <1>1, <1>4, CountedFields
  <2> QED
    BY <2>1 DEF Rest, SameRest, p
<1>5. CASE /\ ~ e.first
           /\ p = [Counted(CacheNextFrame(e, c, dispose, picked)) EXCEPT !.canvas = c]
  <2> DEFINE q == CacheNextFrame(e, c, dispose, picked)
             r == SubFrame(e, c, dispose)
  <2>1. IsNext(q, r, options, e, picked)
    BY <1>5, NextFields
  <2> HIDE DEF q, r
  <2>2. Encoder(q) /\ q.pushed = e.pushed
    BY <2>1 DEF IsNext
  <2>3. Rest(p, q, q.first, c)
    BY <1>5, <2>2, CountedFields DEF q
  <2> QED
    BY <2>2, <2>3 DEF Rest, SameRest, p
<1> QED
  BY <1>1, <1>2, <1>3, <1>4, <1>5 DEF CacheResult

\* What is known of the encoder within a call that does not fail.
Match(e) == Matched(Behind(Cleared, e).last, e)

LEMMA MatchedByReady ==
  ASSUME Kept(options, Cleared, enc), Live(enc), NEW d \in Nat, Match(enc)
  PROVE  Match(Ready(d))
<1> DEFINE e == Increased(d)
           r == Ready(d)
           m == Cleared
<1> HIDE DEF m
<1>1. /\ Kept(options, m, e) /\ e.phase = "adding"
  BY KeptByReady DEF m
<1>2. r = IF IsFull(e) /\ ~ e.overrun THEN FlushFrames(e) ELSE e
  BY DEF Ready
<1>3. Encoder(enc) /\ Candidate(enc) /\ Base(options, Behind(m, e), e)
  BY <1>1 DEF Kept, Base
<1> HIDE DEF r
<1>4. Match(e)
  <2>1. CASE enc.first
    BY <2>1 DEF Increased
  <2>2. CASE ~ enc.first
    <3>1. Len(enc.cached) > 0
      BY <2>2, FlushInRange
    <3>2. e = IncreasePreviousDuration(enc, d)
      BY <2>2 DEF Increased
    <3> HIDE DEF e
    <3>3. Behind(m, e) = Behind(m, enc)
      BY <1>3, <3>1, <3>2, PushedByIncrease DEF Behind
    <3>4. Matched(Behind(m, enc).last, e)
      BY <1>3, <3>1, <3>2, MatchedByIncrease DEF Match, m
    <3> QED
      BY <3>3, <3>4 DEF Match, m
  <2> QED
    BY <2>1, <2>2
<1> HIDE DEF e
<1>5. CASE IsFull(e) /\ ~ e.overrun
  <2>1. e.flush \in 0 .. Len(e.cached)
    BY <1>1, <1>5, FlushInRange DEF Live
  <2>2. Match(FlushFrames(e))
    BY <1>3, <1>4, <2>1, MatchedByFlush DEF Match, m
  <2> QED
    BY <1>2, <1>5, <2>2 DEF r
<1>6. CASE ~ (IsFull(e) /\ ~ e.overrun)
  BY <1>2, <1>4, <1>6 DEF r
<1> QED
  BY <1>5, <1>6

Matches == NoFailure => Matched(mux.last, enc)

LEMMA MatchedAtStart ==
  ASSUME KeyFrames, Matches, NoFailure PROVE Match(enc)
<1>1. Muxer(mux) /\ enc.pushed = << >>
  BY DEF KeyFrames, Base
<1>2. Behind(Cleared, enc) = Cleared
  BY <1>1, MuxNothing DEF Behind
<1>3. Cleared.last = mux.last
  BY <1>1, ClearedFields
<1> QED
  BY <1>2, <1>3 DEF Match, Matches

LEMMA MatchedAtEnd ==
  ASSUME NEW e, NEW shown, Finish(e, shown), UNCHANGED failures,
         NoFailure => Base(options, Behind(Cleared, e), e) /\ Match(e)
  PROVE  Matches'
<1> SUFFICES ASSUME NoFailure PROVE Matched(mux'.last, enc')
  BY DEF Matches, NoFailure, Matched
<1> DEFINE m == Behind(Cleared, e)
           late == mux.late \/ ~ IsPrefix(Shown(e.pushed), due \o shown)
           p == [e EXCEPT !.pushed = << >>]
           q == [m EXCEPT !.late = late]
<1>1. enc' = p /\ mux' = q
  BY DEF Finish, Behind, Muxed, Cleared
<1>2. Encoder(e) /\ Muxer(m) /\ late \in BOOLEAN /\ Matched(m.last, e)
  BY DEF Base, Match
<1> HIDE DEF m, late
<1>3. /\ p.cached = e.cached /\ p.keyframe = e.keyframe /\ p.undecided = e.undecided
      /\ p.first = e.first /\ p.rect = e.rect /\ q.last = m.last
  BY <1>2, FinishFields
<1> HIDE DEF p, q
<1>4. Matched(q.last, p)
  BY <1>2, <1>3, MatchedSame
<1> QED
  BY <1>1, <1>4

\* Background is tried only if nothing is undecided.
LEMMA OutcomeDisposal ==
  ASSUME NEW e, NEW c, NEW x \in Outcomes(e, c), ~ e.first /\ c # e.canvas /\ e.undecided
  PROVE  x[1] = "NONE"
<1>1. Disposals(e) = {"NONE"}
  BY DEF Disposals, dispose_bg_possible
<1>2. CASE x = <<"NONE", TRUE>>
  BY <1>2
<1>3. CASE x \in Disposals(e) \X (IF e.known THEN BOOLEAN ELSE {TRUE})
  BY <1>1, <1>3
<1> QED
  BY <1>2, <1>3 DEF Outcomes

LEMMA NextMatches == KeyFrames /\ Slots /\ Matches /\ [Next]_vars => Matches'
<1> SUFFICES ASSUME KeyFrames, Slots, Matches, [Next]_vars PROVE Matches'
  OBVIOUS
<1> DEFINE m == Cleared
<1> HIDE DEF m
<1>1. /\ failures \in Nat /\ Encoder(enc) /\ Candidate(enc) /\ Kept(options, m, enc)
      /\ NoFailure => Match(enc)
  BY KeptAtStart, MatchedAtStart DEF Slots, KeyFrames, Base, m
<1>2. ASSUME failures' \in Nat, ~ NoFailure' PROVE Matches'
  BY <1>2 DEF Matches
<1>3. \A d \in Durations : d \in Nat
  BY DurationTypes
<1>4. ASSUME NEW d \in Durations, Adding, NoFailure
      PROVE  /\ Kept(options, m, Ready(d)) /\ Smooth(options, Ready(d))
             /\ Ready(d).first => Len(Ready(d).cached) = 0
             /\ ~ Ready(d).first => Len(Ready(d).cached) > 0
             /\ Match(Ready(d))
  <2>1. /\ Kept(options, m, Ready(d)) /\ Smooth(options, Ready(d))
        /\ Ready(d).first => Len(Ready(d).cached) = 0
        /\ ~ Ready(d).first => Len(Ready(d).cached) > 0
    BY <1>3, <1>4, SlotsWhenAdding DEF m
  <2>2. Live(enc)
    BY <1>4 DEF Adding, Live
  <2>3. Match(Ready(d))
    BY <1>1, <1>3, <1>4, <2>2, MatchedByReady DEF m
  <2> QED
    BY <2>1, <2>3
<1>5. ASSUME NEW d \in Durations, NEW c \in 0 .. 1, Add(c, d) PROVE Matches'
  <2>1. PICK e \in Cached(d, c) :
          Finish(IF e.overrun THEN e ELSE FlushFrames(e), Unchanging(d))
    BY <1>5 DEF Add
  <2>2. Adding /\ UNCHANGED failures
    BY <1>5 DEF Add
  <2> DEFINE f == IF e.overrun THEN e ELSE FlushFrames(e)
  <2>3. ASSUME NoFailure PROVE Base(options, Behind(m, f), f) /\ Match(f)
    <3> DEFINE r == Ready(d)
    <3>1. PICK x \in Outcomes(r, c) : e = CacheFrame(r, c, x[1], x[2])
      BY DEF Cached
    <3>2. x[1] \in Disposal /\ x[2] \in BOOLEAN
      BY OutcomeTypes
    <3>3. ~ r.first /\ c # r.canvas /\ r.undecided => x[1] = "NONE"
      BY OutcomeDisposal
    <3>4. /\ Base(options, Behind(m, r), r) /\ Smooth(options, r) /\ Match(r)
          /\ r.first => Len(r.cached) = 0
          /\ ~ r.first => Len(r.cached) > 0
      BY <1>4, <2>2, <2>3 DEF Kept
    <3>5. Kept(options, m, e)
      BY <1>1, <1>3, <2>2, KeptByCached DEF Adding, Live
    <3> HIDE DEF r
    <3>6. ~ e.overrun /\ Encoder(e) /\ Room(options, e)
      BY <3>1, <3>2, <3>4, RoomByCache
    <3>7. e.pushed = r.pushed
      BY <3>1, <3>2, <3>4, PushedByCache
    <3>8. Matched(Behind(m, r).last, e)
      BY <3>1, <3>2, <3>3, <3>4, MatchedByCache DEF Match, m
    <3>9. Match(e)
      BY <3>7, <3>8 DEF Match, Behind, m
    <3>10. e.flush \in 0 .. Len(e.cached)
      BY <3>6 DEF Room, Encoder
    <3>11. Kept(options, m, FlushFrames(e))
      BY <3>5, <3>10, KeptByFlush
    <3>12. Match(FlushFrames(e))
      BY <3>5, <3>9, <3>10, MatchedByFlush DEF Match, Kept, m
    <3> QED
      BY <3>6, <3>11, <3>12 DEF Kept
  <2> HIDE DEF f
  <2> QED
    BY <1>1, <2>1, <2>2, <2>3, MatchedAtEnd DEF f, m
<1>6. ASSUME NEW d \in Durations, AddNull(d) PROVE Matches'
  <2> DEFINE r == Ready(d)
             p == [r EXCEPT !.gotNull = TRUE]
  <2>1. Adding /\ UNCHANGED failures /\ Finish(p, Unchanging(d))
    BY <1>6 DEF AddNull
  <2>2. ASSUME NoFailure PROVE Base(options, Behind(m, p), p) /\ Match(p)
    <3>1. Base(options, Behind(m, r), r) /\ Match(r) /\ Encoder(r)
      BY <1>4, <2>1, <2>2 DEF Kept, Base
    <3> HIDE DEF r
    <3>2. /\ Encoder(p) /\ p.cached = r.cached /\ p.pushed = r.pushed
          /\ p.keyframe = r.keyframe /\ p.undecided = r.undecided /\ p.first = r.first
          /\ p.rect = r.rect
      BY <3>1 DEF Encoder
    <3> HIDE DEF p
    <3>3. Behind(m, p) = Behind(m, r)
      BY <3>2 DEF Behind
    <3>4. SameKinds(p.cached, r.cached, Len(r.cached)) /\ Len(p.cached) = Len(r.cached)
      BY <3>2 DEF SameKinds
    <3>5. Base(options, Behind(m, p), p)
      BY <3>1, <3>2, <3>3, <3>4, KeptBase
    <3>6. Match(p)
      BY <3>1, <3>2, <3>3, MatchedSame DEF Match, m
    <3> QED
      BY <3>5, <3>6
  <2> HIDE DEF p
  <2> QED
    BY <1>1, <2>1, <2>2, MatchedAtEnd DEF m
<1>7. ASSUME NEW d \in Durations,
             AddFillerFails(d) \/ AddFrameFails(d) \/ AddKeyFrameFails(d)
      PROVE  Matches'
  BY <1>1, <1>2, <1>7, Failing DEF AddFillerFails, AddFrameFails, AddKeyFrameFails
<1>8. ASSUME NEW d \in Durations, NEW c \in 0 .. 1, AddPushFails(c, d) PROVE Matches'
  BY <1>1, <1>2, <1>8, Failing DEF AddPushFails
<1>9. ASSUME AssembleFails PROVE Matches'
  BY <1>1, <1>2, <1>9, Failing DEF AssembleFails
<1>10. ASSUME Assemble PROVE Matches'
  <2>1. PICK d \in Averages :
          LET e == BeforeLastFlush(d) IN
          Finish(IF e.overrun THEN e
                 ELSE [FlushFrames(e) EXCEPT !.phase = "closed"], Unchanging(d))
    BY <1>10 DEF Assemble
  <2>2. UNCHANGED failures /\ d \in Nat /\ ~ enc.overrun
    BY <1>10, DurationTypes DEF Assemble, Open
  <2> DEFINE s == IF NeedsAverage THEN IncreasePreviousDuration(enc, d) ELSE enc
             e == BeforeLastFlush(d)
             q == FlushFrames(e)
             p == [q EXCEPT !.phase = "closed"]
             f == IF e.overrun THEN e ELSE p
  <2>3. Finish(f, Unchanging(d))
    BY <2>1
  <2>4. Encoder(s) /\ (NoFailure => Match(s))
    <3>1. CASE NeedsAverage
      <4>1. Len(enc.cached) > 0
        BY <3>1 DEF NeedsAverage
      <4> DEFINE t == IncreasePreviousDuration(enc, d)
      <4>2. Encoder(t)
        BY <1>1, <2>2, <4>1, KeptByIncrease DEF Kept, Base
      <4>3. Behind(m, t) = Behind(m, enc)
        BY <1>1, <2>2, <4>1, PushedByIncrease DEF Behind
      <4>4. NoFailure => Matched(Behind(m, enc).last, t)
        BY <1>1, <2>2, <4>1, MatchedByIncrease DEF Match, m
      <4> HIDE DEF t
      <4>5. NoFailure => Match(t)
        BY <4>3, <4>4 DEF Match, m
      <4> QED
        BY <3>1, <4>2, <4>5 DEF t
    <3>2. CASE ~ NeedsAverage
      BY <1>1, <3>2
    <3> QED
      BY <3>1, <3>2
  <2>5. e = [s EXCEPT !.flush = Len(s.cached)]
    BY DEF BeforeLastFlush
  <2>6. Base(options, Behind(m, e), e) /\ e.flush = Len(e.cached)
    BY <1>1, <2>2, KeptByLast
  <2> HIDE DEF s, e
  <2>7. /\ Encoder(e) /\ e.cached = s.cached /\ e.pushed = s.pushed
        /\ e.keyframe = s.keyframe /\ e.undecided = s.undecided /\ e.first = s.first
        /\ e.rect = s.rect /\ e.flush \in 0 .. Len(e.cached)
    BY <2>4, <2>5, <2>6 DEF Encoder
  <2>8. NoFailure => Match(e)
    <3>1. Behind(m, e) = Behind(m, s)
      BY <2>7 DEF Behind
    <3> QED
      BY <2>4, <2>7, <3>1, MatchedSame DEF Match, m
  <2>9. NoFailure => Match(q)
    BY <2>6, <2>7, <2>8, MatchedByFlush DEF Match, m
  <2>10. Base(options, Behind(m, q), q)
    BY <2>6, BaseByFlush
  <2> HIDE DEF q
  <2>11. Encoder(q)
    BY <2>10 DEF Base
  <2>12. /\ p.cached = q.cached /\ p.pushed = q.pushed /\ p.keyframe = q.keyframe
         /\ p.undecided = q.undecided /\ p.first = q.first /\ p.rect = q.rect
    BY <2>11 DEF Encoder
  <2>13. Base(options, Behind(m, p), p)
    BY <2>10, KeptByPhase DEF Kept
  <2> HIDE DEF p
  <2>14. NoFailure => Match(p)
    <3>1. Behind(m, p) = Behind(m, q)
      BY <2>12 DEF Behind
    <3> QED
      BY <2>9, <2>12, <3>1, MatchedSame DEF Match, m
  <2>15. NoFailure => Base(options, Behind(m, f), f) /\ Match(f)
    BY <2>6, <2>8, <2>13, <2>14
  <2> HIDE DEF f
  <2> QED
    BY <2>2, <2>3, <2>15, MatchedAtEnd DEF m
<1>11. ASSUME UNCHANGED vars PROVE Matches'
  BY <1>11 DEF vars, Matches, NoFailure, Matched
<1> QED
  BY <1>5, <1>6, <1>7, <1>8, <1>9, <1>10, <1>11 DEF Next, Terminated

\* As long as no call fails, the frame before a sub-frame has the disposal, and clears the
\* rectangle, that were assumed when the sub-frame was encoded, whichever encodings are
\* chosen since and whatever has been pushed.
THEOREM SubFramesFit == SafeSpec => []DisposalAsAssumed
<1>1. Init => KeyFrames /\ Slots /\ Matches
  <2>1. Init => Slots
    BY DEF Init, Slots, Adding
  <2>2. Init => Matches
    BY DEF Init, Matches, Matched, KEYFRAME_NONE
  <2> QED
    BY <2>1, <2>2, InitKeyFrames
<1>2. KeyFrames /\ Slots /\ Matches /\ [Next]_vars => (KeyFrames /\ Slots /\ Matches)'
  BY NextKeyFrames, NextSlots, NextMatches
<1>3. KeyFrames /\ Matches => DisposalAsAssumed
  <2> SUFFICES ASSUME KeyFrames, Matches, NoFailure
               PROVE  LET frames == IF mux.last = NoFrame THEN enc.cached
                                    ELSE << mux.last >> \o enc.cached
                      IN  \A i \in 1 .. Len(frames) - 1 : Fits(frames[i], frames[i + 1])
    BY DEF DisposalAsAssumed
  <2> DEFINE n == Len(enc.cached)
             t == << mux.last >> \o enc.cached
  <2>1. n \in Nat /\ enc.cached \in Seq(Frame) /\ mux.last \in Frame
    BY DEF KeyFrames, Base, Encoder, Muxer
  <2>2. /\ mux.last # NoFrame /\ n > 0 => Fits(mux.last, enc.cached[1])
        /\ \A i \in 1 .. n - 1 : Fits(enc.cached[i], enc.cached[i + 1])
    BY DEF Matches, Matched
  <2>3. CASE mux.last = NoFrame
    BY <2>2, <2>3
  <2>4. CASE mux.last # NoFrame
    <3>1. /\ Len(t) = n + 1 /\ t[1] = mux.last
          /\ \A i \in 2 .. n + 1 : t[i] = enc.cached[i - 1]
      BY <2>1
    <3> HIDE DEF n, t
    <3>2. ASSUME NEW i \in 1 .. n PROVE Fits(t[i], t[i + 1])
      <4>1. CASE i = 1
        <5>1. 2 \in 2 .. n + 1 /\ 2 - 1 = 1 /\ n > 0 /\ i + 1 = 2
          BY <2>1, <4>1
        <5> QED
          BY <2>2, <2>4, <3>1, <4>1, <5>1
      <4>2. CASE i # 1
        <5>1. /\ i \in 2 .. n + 1 /\ i + 1 \in 2 .. n + 1 /\ i - 1 \in 1 .. n - 1
              /\ (i + 1) - 1 = (i - 1) + 1
          BY <2>1, <4>2
        <5> QED
          BY <2>2, <3>1, <5>1
      <4> QED
        BY <4>1, <4>2
    <3>3. (n + 1) - 1 = n
      BY <2>1
    <3> QED
      BY <2>4, <3>1, <3>2, <3>3 DEF t
  <2> QED
    BY <2>3, <2>4
<1> QED
  BY <1>1, <1>2, <1>3, PTL DEF SafeSpec
=============================================================================
