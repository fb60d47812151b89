--------------------------------- MODULE Riff ---------------------------------
(***************************************************************************)
(* The container: a RIFF header and a sequence of chunks (sizes and tags of *)
(* src/webp/format_constants.h).  A file is                                 *)
(*   riff_end: the position where the RIFF chunk says that it ends,         *)
(*   chunks:   [tag, size, v], v being what is read from the payload.       *)
(* The chunks of a frame follow the fields of its ANMF chunk and are listed *)
(* behind it; "size" of an ANMF chunk covers them.  Widths and horizontal   *)
(* offsets stand for both dimensions, which are treated alike everywhere.   *)
(***************************************************************************)
EXTENDS Integers, Sequences, SequencesExt

CONSTANTS
  CHUNK_HEADER_SIZE, RIFF_HEADER_SIZE,                  \* 8, 12
  VP8X_CHUNK_SIZE, ANIM_CHUNK_SIZE, ANMF_CHUNK_SIZE     \* 10, 6, 16

ASSUME SizeAssumption ==
  /\ { CHUNK_HEADER_SIZE, RIFF_HEADER_SIZE, VP8X_CHUNK_SIZE, ANIM_CHUNK_SIZE,
       ANMF_CHUNK_SIZE } \subseteq Nat \ {0}
  /\ CHUNK_HEADER_SIZE % 2 = 0 /\ ANMF_CHUNK_SIZE % 2 = 0

ImageTags == {"VP8", "VP8L"}
Metadata  == {"ICCP", "EXIF", "XMP"}

Padded(size) == size + (size % 2)

\* What a chunk takes in the file before the next one of the list.
DiskSize(c) ==
  CHUNK_HEADER_SIZE + IF c.tag = "ANMF" THEN ANMF_CHUNK_SIZE ELSE Padded(c.size)

ListSize(cs)  == FoldLeft(LAMBDA n, c : n + DiskSize(c), 0, cs)
Offset(cs, i) == RIFF_HEADER_SIZE + ListSize(SubSeq(cs, 1, i - 1))
FileSize(f)   == RIFF_HEADER_SIZE + ListSize(f.chunks)

\* The chunk of the file that starts at a position.
ChunkAt(f, at) ==
  f.chunks[CHOOSE i \in 1 .. Len(f.chunks) : Offset(f.chunks, i) = at]

\* What may be in a file.  A width is read as 24 bits and 1 is added; that of an image
\* is not 0, or WebPGetFeatures refuses it.
Flags       == Metadata \cup {"ALPHA", "ANIMATION"}
CanvasChunk == [tag : {"VP8X"}, size : Nat, v : [flags : SUBSET Flags, width : Nat \ {0}]]
FrameChunk  == [tag : {"ANMF"}, size : Nat, v : [x : Nat, width : Nat \ {0}]]
ImageChunk  == [tag : ImageTags, size : Nat,
                v : [width : Nat \ {0}, has_alpha : BOOLEAN, need : Nat]]
PlainTags   == {"ALPH", "ANIM"} \cup Metadata \cup (STRING \ ({"VP8X", "ANMF"} \cup ImageTags))
PlainChunk  == [tag : PlainTags, size : Nat, v : [data : Nat] \cup [loop_count : Nat]]
AnyChunk    == CanvasChunk \cup FrameChunk \cup ImageChunk \cup PlainChunk
File        == [chunks : Seq(AnyChunk), riff_end : Nat]

\* flags: some of Metadata, "ALPHA", "ANIMATION".
VP8X(flags, width) == [tag |-> "VP8X", size |-> VP8X_CHUNK_SIZE,
                       v |-> [flags |-> flags, width |-> width]]
ANIM(loop_count)   == [tag |-> "ANIM", size |-> ANIM_CHUNK_SIZE,
                       v |-> [loop_count |-> loop_count]]
ANMF(size, x, width) == [tag |-> "ANMF", size |-> size, v |-> [x |-> x, width |-> width]]
\* Features are known once "need" units of the payload are there.
Image(tag, size, width, has_alpha, need) ==
  [tag |-> tag, size |-> size,
   v |-> [width |-> width, has_alpha |-> has_alpha, need |-> need]]
Data(tag, size) == [tag |-> tag, size |-> size, v |-> [data |-> size]]
=============================================================================
