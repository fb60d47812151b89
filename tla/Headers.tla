------------------------------- MODULE Headers -------------------------------
(***************************************************************************)
(* What the decoder finds of an image before it decodes it                  *)
(* (ParseHeadersInternal of src/dec/webp_dec.c).  It is called on a file,   *)
(* of which only the beginning may be there, and on the frames the demuxer  *)
(* gives, which have no RIFF header.  The input is                          *)
(*   riff_size: what the RIFF header says, 0 if there is none,              *)
(*   chunks, size: what follows, and how much there is in all.              *)
(*                                                                         *)
(* Left out: MAX_CHUNK_PAYLOAD, MAX_IMAGE_AREA and raw image data without a *)
(* chunk header.  An image whose chunk is smaller than its header and first *)
(* partition ("need") is an error if it is lossy, and read beyond its end   *)
(* if it is lossless.  ANMF chunks are not walked over: a list of chunks    *)
(* that has any is for GetFeatures only, which stops before them if the     *)
(* file is flagged as an animation.                                         *)
(***************************************************************************)
EXTENDS Riff, FiniteSetsExt

TAG_SIZE == RIFF_HEADER_SIZE - CHUNK_HEADER_SIZE

\* The first n units of a file.
Prefix(f, n) == [riff_size |-> f.riff_end - CHUNK_HEADER_SIZE, chunks |-> f.chunks, size |-> n]

\* What is behind the chunks before the i-th: data_size when data points to it.
Left(in, i) ==
  in.size - ListSize(SubSeq(in.chunks, 1, i - 1))
    - IF in.riff_size = 0 THEN 0 ELSE RIFF_HEADER_SIZE

ParseRIFF(in, have_all_data) ==
  IF in.riff_size = 0 THEN "OK"
  ELSE IF in.riff_size < TAG_SIZE + CHUNK_HEADER_SIZE THEN "BITSTREAM_ERROR"
  ELSE IF have_all_data /\ in.riff_size > in.size - CHUNK_HEADER_SIZE THEN "NOT_ENOUGH_DATA"
  ELSE "OK"

StartsWith(in, tag) == in.chunks[1].tag = tag

\* A VP8X chunk makes sense in a RIFF chunk only.
ParseVP8XHeader(in) ==
  IF Left(in, 1) < CHUNK_HEADER_SIZE THEN "NOT_ENOUGH_DATA"
  ELSE IF ~ StartsWith(in, "VP8X") THEN "OK"
  ELSE IF in.chunks[1].size # VP8X_CHUNK_SIZE THEN "BITSTREAM_ERROR"
  ELSE IF Left(in, 1) < CHUNK_HEADER_SIZE + VP8X_CHUNK_SIZE THEN "NOT_ENOUGH_DATA"
  ELSE IF in.riff_size = 0 THEN "BITSTREAM_ERROR"
  ELSE "OK"

-----------------------------------------------------------------------------
(* ParseOptionalChunks: where its loop stops, from the first chunk on.      *)

TotalSize(in, first, i) ==
  TAG_SIZE + CHUNK_HEADER_SIZE + VP8X_CHUNK_SIZE + ListSize(SubSeq(in.chunks, first, i))

\* Variant: a chunk that ends where the RIFF chunk ends is refused.
OutOfRiff_AtEnd(in, first, i) == in.riff_size > 0 /\ TotalSize(in, first, i) >= in.riff_size

OutOfRiff(in, first, i) == in.riff_size > 0 /\ TotalSize(in, first, i) > in.riff_size
IsImage(in, i) == in.chunks[i].tag \in ImageTags

Stops(in, first, i) ==
  \/ i > Len(in.chunks) \/ Left(in, i) < CHUNK_HEADER_SIZE
  \/ OutOfRiff(in, first, i) \/ IsImage(in, i) \/ Left(in, i) < DiskSize(in.chunks[i])

StopAt(in, first) == Min({ i \in first .. Len(in.chunks) + 1 : Stops(in, first, i) })

\* The loop has stopped at the i-th chunk.
ParseOptionalChunks(in, first, i) ==
  IF i > Len(in.chunks) \/ Left(in, i) < CHUNK_HEADER_SIZE THEN "NOT_ENOUGH_DATA"
  ELSE IF OutOfRiff(in, first, i) THEN "BITSTREAM_ERROR"
  ELSE IF IsImage(in, i) THEN "OK" ELSE "NOT_ENOUGH_DATA"

\* alpha_data: the last ALPH chunk that was skipped, 0 if there is none.
AlphaData(in, first, i) == Max({0} \cup { j \in first .. i - 1 : in.chunks[j].tag = "ALPH" })

-----------------------------------------------------------------------------
\* ParseVP8Header and the first bytes of the image.  What is not an image is
\* taken for the header of one, and is none.
ParseVP8Header(in, i, have_all_data) ==
  LET minimal_size == TAG_SIZE + CHUNK_HEADER_SIZE
      c == in.chunks[i]
  IN  IF i > Len(in.chunks) \/ Left(in, i) < CHUNK_HEADER_SIZE THEN "NOT_ENOUGH_DATA"
      ELSE IF c.tag \notin ImageTags THEN "BITSTREAM_ERROR"
      ELSE IF in.riff_size >= minimal_size /\ c.size > in.riff_size - minimal_size
      THEN "BITSTREAM_ERROR"
      ELSE IF have_all_data /\ c.size > Left(in, i) - CHUNK_HEADER_SIZE THEN "NOT_ENOUGH_DATA"
      ELSE IF Left(in, i) - CHUNK_HEADER_SIZE < c.v.need THEN "NOT_ENOUGH_DATA"
      ELSE IF c.tag = "VP8" /\ c.size < c.v.need THEN "BITSTREAM_ERROR"
      ELSE "OK"

\* What is known when the header ends with a status; the image and the alpha data
\* are places in the list of chunks, 0 if unknown.
Known(status, width, has_alpha, image, alpha) ==
  [status |-> status, width |-> width, has_alpha |-> has_alpha, image |-> image, alpha |-> alpha]
Nothing(status) == Known(status, 0, FALSE, 0, 0)

\* Variant: any image whose header is incomplete has features.
FeaturesOfCanvas_Any(status, found_vp8x, headers) == status = "NOT_ENOUGH_DATA" /\ ~ headers

\* With the canvas known, missing data are no reason to give no features.
FeaturesOfCanvas(status, found_vp8x, headers) ==
  status = "NOT_ENOUGH_DATA" /\ found_vp8x /\ ~ headers

\* What stands before the optional chunks.
FirstHeaders(in, have_all_data) ==
  IF in.size < RIFF_HEADER_SIZE THEN "NOT_ENOUGH_DATA"
  ELSE IF ParseRIFF(in, have_all_data) # "OK" THEN ParseRIFF(in, have_all_data)
  ELSE ParseVP8XHeader(in)

HasFlag(in, flag) == StartsWith(in, "VP8X") /\ flag \in in.chunks[1].v.flags

\* The image is the i-th chunk, or the headers end there with a status.  A lossless
\* image replaces the flag of the canvas.
AtImage(in, headers, i, alpha, status) ==
  LET found_vp8x == StartsWith(in, "VP8X")
      canvas     == in.chunks[1].v
      img        == in.chunks[i]
      own        == IF img.tag = "VP8L" THEN img.v.has_alpha ELSE HasFlag(in, "ALPHA")
  IN  IF status = "OK" /\ found_vp8x /\ canvas.width # img.v.width THEN Nothing("BITSTREAM_ERROR")
      ELSE IF status = "OK" THEN Known("OK", img.v.width, own \/ alpha # 0, i, alpha)
      ELSE IF FeaturesOfCanvas(status, found_vp8x, headers)
      THEN Known("OK", IF found_vp8x THEN canvas.width ELSE 0, HasFlag(in, "ALPHA") \/ alpha # 0, 0, 0)
      ELSE Nothing(status)

ThenImage(in, headers, have_all_data, i, alpha, status) ==
  AtImage(in, headers, i, alpha,
          IF status = "OK" THEN ParseVP8Header(in, i, have_all_data) ELSE status)

BehindOptional(in, headers, have_all_data, first, i) ==
  ThenImage(in, headers, have_all_data, i, AlphaData(in, first, i), ParseOptionalChunks(in, first, i))

\* headers: the caller wants to decode, not only to know the features.
ParseHeadersInternal(in, headers, have_all_data) ==
  LET status == FirstHeaders(in, have_all_data)
      first  == IF StartsWith(in, "VP8X") THEN 2 ELSE 1
  IN  IF status # "OK" THEN Nothing(status)
      ELSE IF HasFlag(in, "ANIMATION") /\ ~ headers
      THEN Known("OK", in.chunks[1].v.width, HasFlag(in, "ALPHA"), 0, 0)
      ELSE IF StartsWith(in, "VP8X") \/ (in.riff_size = 0 /\ StartsWith(in, "ALPH"))
      THEN BehindOptional(in, headers, have_all_data, first, StopAt(in, first))
      ELSE ThenImage(in, headers, have_all_data, first, 0, "OK")

GetFeatures(in) == ParseHeadersInternal(in, FALSE, FALSE)

\* Animations are for WebPAnimDecoder; the flag counts once it has been read.
NoAnimation(r, has_animation) ==
  IF r.status \in {"OK", "NOT_ENOUGH_DATA"} /\ has_animation THEN Nothing("UNSUPPORTED_FEATURE")
  ELSE r
WebPParseHeaders(in, have_all_data) ==
  NoAnimation(ParseHeadersInternal(in, TRUE, have_all_data),
              FirstHeaders(in, have_all_data) = "OK" /\ HasFlag(in, "ANIMATION"))

\* GetFramePayload (src/demux/demux.c): the part of a file from the first to the
\* last chunk of a frame, which are given by their places.
FramePayload(f, alpha, image, size) ==
  [riff_size |-> 0, chunks |-> SubSeq(f.chunks, IF alpha = 0 THEN image ELSE alpha, image),
   size |-> size]
=============================================================================
