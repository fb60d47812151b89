---------------------------- MODULE MCLossyStream ----------------------------
EXTENDS LossyStream

Repeated(s, n) == [i \in 1 .. n |-> s[((i - 1) % Len(s)) + 1]]

\* Even odds; the extremes; and odds at which an overflow reaches a byte behind which
\* another one has been delayed.
MCSchedules ==
  { Repeated(<< 128 >>, 9), Repeated(<< 0, 255 >>, 9), Repeated(<< 1, 128, 255 >>, 9),
    Repeated(<< 5, 100 >>, 11) }

\* Tables in which neighbours differ, so that a wrong index is noticed.
Mixed(n) == 1 + ((n * 97 + (n \div 7) * 31) % 255)
MCBModesProba == [ab \in (1 .. 10) \X (1 .. 10) |->
                    [i \in 1 .. 9 |-> Mixed(90 * ab[1] + 9 * ab[2] + i)]]
ModeIndex(m) == CHOOSE i \in 1 .. 10 : BModes[i] = m
MCModesProba == [ab \in ToSet(BModes) \X ToSet(BModes) |->
                   MCBModesProba[ModeIndex(ab[1]), ModeIndex(ab[2])]]
MCCoeffsProba0 == [t \in (0 .. 3) \X (0 .. 7) \X (0 .. 2) \X (0 .. 10) |->
                     Mixed(264 * t[1] + 33 * t[2] + 11 * t[3] + t[4])]
MCIds == << <<0, 1, 0, 0>>, <<1, 0, 0, 2>>, <<3, 0, 0, 0>>, <<3, 6, 2, 3>> >>
MCCoeffsUpdateProba == [id \in ToSet(MCIds) |-> 100 + 50 * id[1]]

-----------------------------------------------------------------------------
\* The coefficients given by f, the others are zero.
Block(f)  == f @@ EmptyBlock
Nothing   == [i \in 1 .. 24 |-> EmptyBlock]
One       == Block(1 :> 1)
Uniform(m) == [i \in 1 .. 16 |-> m]

I16(mode, dc, blocks) == [segment |-> 0, i16 |-> TRUE, modes |-> << mode >>, uv |-> "DC",
                          dc |-> dc, blocks |-> blocks]
I4(modes, uv, blocks) == [segment |-> 0, i16 |-> FALSE, modes |-> modes, uv |-> uv,
                          dc |-> EmptyBlock, blocks |-> blocks]

\* What macroblocks can do to the contexts of those below and to the right.
Kinds == << I16("DC", Block(0 :> 5), Nothing),
            I16("TM", EmptyBlock, Nothing),
            I4(Uniform("LD"), "TM", Nothing),
            I4(Uniform("VE"), "HE", [i \in 1 .. 24 |-> IF i % 3 = 0 THEN One ELSE EmptyBlock]),
            I16("HE", EmptyBlock, [i \in 1 .. 24 |-> IF i % 5 = 1 THEN One ELSE EmptyBlock]) >>

\* Modes in a pattern, where each is next to others.
Pattern(a, b, c) == [i \in 1 .. 16 |->
                       BModes[1 + ((a + b * (i % 4) + c * (i \div 4)) % 10)]]

Header0 == [quantizer |-> << 20, 20, 20, 20 >>, filter_strength |-> << 0, 0, 0, 0 >>,
            simple |-> FALSE, level |-> 12, sharpness |-> 0, i4x4_lf_delta |-> 0, log2_parts |-> 0,
            base_q0 |-> 20, dq |-> << 0, 0, 0, -2, 3 >>, use_skip |-> TRUE, skip_p |-> 100,
            coeffs |-> [id \in ToSet(MCIds) |-> MCCoeffsProba0[id]]]
Frame(w, h, mbs) == [mb_w |-> w, h |-> h, num_segments |-> 1, cut |-> FALSE, mbs |-> mbs]

\* The i-th of combinations of choices, each of which changes with every stride of i.
Pick(s, i, stride) == s[1 + ((i \div stride) % Len(s))]

\* All neighbourhoods of a kind of macroblock: in a row, in a column and in a square, with
\* and without skip, in one partition and in two.
Neighbours == [i \in 1 .. 900 |->
  Frame(Pick(<< 1, 2, 4 >>, i, 1),
        [Header0 EXCEPT !.use_skip = Pick(<< TRUE, FALSE >>, i, 3),
                        !.log2_parts = Pick(<< 0, 1 >>, i, 3)],
        << Pick(Kinds, i, 6), Pick(Kinds, i, 30), Kinds[Pick(<< 1, 3, 4 >>, i, 150)],
           Kinds[Pick(<< 4, 5 >>, i, 450)] >>)]

\* Every category of values at every end of its range, first, last and behind others.
Values == << 1, -2, 3, -4, 5, 6, -7, 8, 9, 10, -11, 18, 19, -34, 35, 66, -67, 2047, -2048 >>
Levels == [i \in 1 .. 95 |->
  LET n == Pick(<< 0, 1, 5, 14, 15 >>, i, 1)
      v == Pick(Values, i, 5)
      Of(j) == IF j = 2 THEN Block((n :> v) @@ (15 :> -v))
               ELSE IF j = 20 THEN Block((0 :> 1) @@ (n :> -v)) ELSE EmptyBlock
  IN  Frame(1, Header0, << I4(Uniform("DC"), "VE", [j \in 1 .. 24 |-> Of(j)]) >>)]

Modes == [i \in 1 .. 80 |->
  LET a == i % 10
      b == Pick(<< 1, 3 >>, i, 10)
      c == Pick(<< 2, 7 >>, i, 20)
  IN  Frame(2, Header0, << I4(Pattern(a, b, c), "VE", Nothing),
                           I16(Pick(<< "DC", "VE" >>, i, 40), EmptyBlock, Nothing),
                           I4(Pattern(b, c, a), "TM", Nothing), I4(Pattern(c, a, b), "DC", Nothing) >>)]

\* Segments, also such that the map is not worth it.
Segmented(s, n, kinds) ==
  [mb_w |-> 4, num_segments |-> n, cut |-> FALSE,
   h |-> [Header0 EXCEPT !.quantizer = << 20, 30, 0, 127 >>, !.filter_strength = << 63, 0, 1, 20 >>],
   mbs |-> [i \in 1 .. Len(s) |-> [Kinds[kinds[i]] EXCEPT !.segment = s[i]]]]
Segments ==
  [i \in 1 .. 16 |-> Segmented(<< i % 2, (i \div 2) % 2, i % 2, (i \div 4) % 2 >>,
                               Pick(<< 2, 4 >>, i, 8), << 4, 2, 1, 3 >>)]
    \o << Segmented(<< 0, 1, 2, 3 >>, 4, << 2, 2, 2, 2 >>), Segmented(<< 3, 3, 3, 3 >>, 4, << 2, 1, 2, 1 >>),
          Segmented(<< 2, 0, 2, 2 >>, 4, << 4, 2, 3, 1 >>), Segmented(<< 2, 3, 2, 3 >>, 4, << 4, 2, 3, 1 >>) >>

\* One macroblock of another segment among so many that its probability is rounded away.
Rare == [Segmented([i \in 1 .. 520 |-> IF i = 7 THEN 1 ELSE 0], 2, [i \in 1 .. 520 |-> 2])
           EXCEPT !.mb_w = 1]

Headers == [i \in 1 .. 96 |->
  LET l == Pick(<< 0, 1, 37 >>, i, 1)
      d == Pick(<< 0, 1, -20, 63 >>, i, 3)
  IN  Frame(1, [Header0 EXCEPT !.simple = Pick(<< TRUE, FALSE >>, i, 12), !.level = l,
                               !.sharpness = 7 - (l % 8), !.i4x4_lf_delta = d,
                               !.dq = << d % 15, -4, 4, 15, -15 >>,
                               !.log2_parts = Pick(<< 0, 1, 2, 3 >>, i, 24), !.skip_p = 249 * (l % 2),
                               !.coeffs = [id \in ToSet(MCIds) |-> IF id[1] = 3 THEN 200 + l
                                                                   ELSE MCCoeffsProba0[id]]],
            << Kinds[4], Kinds[1], Kinds[2] >>)]

\* Files that have not arrived.
Busy == I4(Uniform("HU"), "VE", [i \in 1 .. 24 |-> IF i \in {1, 9, 24} THEN Block((0 :> 67) @@ (3 :> -9))
                                                   ELSE One])
Cuts == [i \in 1 .. 8 |->
  [Frame(Pick(<< 1, 2 >>, i, 1), [Header0 EXCEPT !.log2_parts = Pick(<< 0, 1 >>, i, 2),
                                                 !.use_skip = Pick(<< TRUE, FALSE >>, i, 4)],
         << Kinds[4], Kinds[2], Busy, Kinds[5] >>) EXCEPT !.cut = TRUE]]

MCFrames == Neighbours \o Levels \o Modes \o Segments \o << Rare >> \o Headers \o Cuts
=============================================================================
