----------------------------- MODULE MCContainer -----------------------------
EXTENDS Container

Bitstream(img, alpha) == [img |-> img, alpha |-> alpha]

\* Opaque, with an ALPH chunk, and lossless with an ALPH chunk that is ignored;
\* sizes even and odd.
MCBitstreams ==
  { Bitstream(Image("VP8", 2, 2, FALSE, 1), Missing),
    Bitstream(Image("VP8", 1, 3, FALSE, 1), << Data("ALPH", 1) >>),
    Bitstream(Image("VP8L", 2, 2, TRUE, 1), << Data("ALPH", 1) >>) }

MCChunks == { Data("ICCP", 1), Data("UNK1", 2), Data("UNK2", 1) }

\* Files from elsewhere: a first chunk and two others in any order, or four of an
\* animation; among them an image that is no image (it needs more than it has) and
\* ANMF chunks that end where their image ends, later, and outside the canvas.
AnimationBodies ==
  { Image("VP8", 2, 2, FALSE, 1), Data("ALPH", 1), Data("UNKN", 1), ANMF(8, 0, 2),
    ANMF(11, 2, 2) }

Bodies ==
  AnimationBodies \cup
  { Image("VP8", 1, 3, FALSE, 1), Image("VP8L", 2, 2, TRUE, 1), Image("VP8", 2, 2, FALSE, 5),
    Data("ICCP", 2), ANIM(0), ANMF(8, 2, 2) }

\* Still images with several alpha chunks, others among them.
StillBodies ==
  { Image("VP8", 2, 2, FALSE, 1), Image("VP8L", 2, 2, FALSE, 1), Data("ALPH", 1),
    Data("ALPH", 2), Data("UNKN", 1) }

Lists(bodies, max) == UNION { [1 .. n -> bodies] : n \in 0 .. max }

Firsts ==
  { << VP8X(flags, 2) >> :
      flags \in { {}, {"ALPHA"}, {"ANIMATION", "ALPHA"}, {"ICCP"} } }
    \cup { << VP8X({"ANIMATION"}, 4), ANIM(0) >> }
    \cup { << c >> : c \in { b \in Bodies : b.tag \in ImageTags } }

ChunkLists ==
  { first \o others : first \in Firsts, others \in Lists(Bodies, 2) }
    \cup { << VP8X({"ANIMATION"}, 4), ANIM(0) >> \o others :
             others \in Lists(AnimationBodies, 4) }
    \cup { << VP8X({"ALPHA"}, 2) >> \o others : others \in [1 .. 4 -> StillBodies] }

\* The RIFF chunk may end before the last chunk of the file does, or later.
MCFiles ==
  { [chunks |-> chunks, riff_end |-> RIFF_HEADER_SIZE + ListSize(chunks) - cut] :
      chunks \in ChunkLists, cut \in { -2, 0, 1, 4 } }
=============================================================================
