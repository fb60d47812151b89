-------------------------------- MODULE Demux --------------------------------
(***************************************************************************)
(* WebPDemuxPartial (src/demux/demux.c): the user gets a file bit by bit    *)
(* and calls the demuxer after each one with all there is.  Every call      *)
(* parses from the beginning; what it gives must fit what the calls before  *)
(* it gave.  One step of the model is one chunk.                            *)
(*                                                                         *)
(* Left out: the limits MAX_CHUNK_PAYLOAD and MAX_IMAGE_AREA, the values    *)
(* that are only copied (duration, dispose and blend methods, background    *)
(* colour, loop count), and failing allocations.                            *)
(***************************************************************************)
EXTENDS Riff

VARIABLES
  file,      \* what is being received
  size,      \* how much of it the user has
  pc,        \* wait (for the user), master, chunks, store, stored, finish
  dmux,      \* the demuxer of this call
  status,    \* of the parser: OK, NEED_MORE_DATA, ERROR
  frame,     \* StoreFrame: the frame being read, and for whom
  res,       \* the demuxer given to the user last
  kept       \* history: what a call gave agreed with the call before

dvars == <<size, pc, dmux, status, frame, res, kept>>

MinOf(a, b) == IF a < b THEN a ELSE b

\* What a call may read of a file of which n units are there (buf_, end_).
MemBuffer(f, n) ==
  [chunks |-> f.chunks, riff_end |-> f.riff_end, end |-> MinOf(n, f.riff_end)]

Mem == MemBuffer(file, size)

NoData == [offset |-> 0, size |-> 0]
NewFrame == [x |-> 0, width |-> 0, has_alpha |-> FALSE, frame_num |-> 0,
             complete |-> FALSE, image |-> NoData, alpha |-> NoData]

\* start_ of the memory buffer; anim_chunks of ParseVP8XChunks.
InitDemux ==
  [state |-> "PARSING_HEADER", is_ext_format |-> FALSE, flags |-> {}, width |-> -1,
   num_frames |-> 0, frames |-> << >>, chunks |-> << >>,
   start |-> RIFF_HEADER_SIZE, anim_chunks |-> 0]

\* What a call gives that returns no demuxer.
Without(state) == [InitDemux EXCEPT !.state = state]

\* f: the frame, for: who reads it, num: its number, from, payload: where its
\* chunks start and how much they may take.
NoFrame == [f |-> NewFrame, for |-> "none", num |-> 0, from |-> 0, payload |-> 0]

DemuxInit ==
  /\ size = 0 /\ pc = "wait" /\ status = "OK" /\ kept = TRUE /\ frame = NoFrame
  /\ dmux = Without("PARSING_HEADER") /\ res = Without("PARSING_HEADER")

\* Nothing of the next file is there yet.
NextFile ==
  /\ size' = 0 /\ pc' = "wait" /\ status' = "OK" /\ kept' = TRUE /\ frame' = NoFrame
  /\ dmux' = Without("PARSING_HEADER") /\ res' = Without("PARSING_HEADER")

-----------------------------------------------------------------------------
MemDataSize(m, d)      == m.end - d.start
SizeIsInvalid(m, d, s) == s > m.riff_end - d.start
AtRiffEnd(m, d)        == d.start = m.riff_end
Partial(m)             == m.end < m.riff_end
Skip(d, s)             == [d EXCEPT !.start = @ + s]
IsAnimation(d)         == "ANIMATION" \in d.flags

\* Where a call is: the next step of the parser, its status, the demuxer d and the
\* frame f being read.
At(step, s, d, f) == [pc |-> step, status |-> s, dmux |-> d, frame |-> f]

Becomes(p) == pc' = p.pc /\ status' = p.status /\ dmux' = p.dmux /\ frame' = p.frame

\* The parser is done with this call.
Stop(s, d, f) == At("finish", s, d, f)

\* The end of the loop in ParseVP8XChunks.  Where the data ends, an error, too,
\* becomes a want of data.
EndOfChunk(m, s, d, f) ==
  LET more == ~ AtRiffEnd(m, d) /\ MemDataSize(m, d) < CHUNK_HEADER_SIZE
      s1   == IF more THEN "NEED_MORE_DATA" ELSE s
  IN  At(IF AtRiffEnd(m, d) \/ s1 # "OK" THEN "finish" ELSE "chunks", s1, d, f)

-----------------------------------------------------------------------------
\* What the user may rely on in a file that is still arriving: errors are final;
\* the canvas and the features stay the same once they are known, so do complete
\* frames and chunks that are all there, and more of them may come.
Usable(d) == d.state \in {"PARSED_HEADER", "DONE"}

Fits(old, new) ==
  /\ old.state = "ERROR" => new.state = "ERROR"
  /\ old.state = "DONE" => new.state = "DONE"
  /\ Usable(old) =>
       /\ Usable(new)
       /\ new.width = old.width /\ new.flags = old.flags
       /\ IsPrefix(old.chunks, new.chunks)
       /\ Len(old.frames) <= Len(new.frames)
       /\ \A i \in 1 .. Len(old.frames) :
            old.frames[i].complete => new.frames[i] = old.frames[i]

\* The user is given d.
Give(d) == res' = d /\ kept' = (kept /\ Fits(res, d))

\* One more unit of the file arrives: WebPDemuxInternal up to ReadHeader.
Receive ==
  /\ pc = "wait" /\ size < FileSize(file)
  /\ size' = size + 1
  /\ IF size' < RIFF_HEADER_SIZE + CHUNK_HEADER_SIZE
     THEN Give(Without("PARSING_HEADER")) /\ UNCHANGED <<pc, status, dmux, frame>>
     ELSE IF file.riff_end < 2 * CHUNK_HEADER_SIZE   \* ReadHeader refuses riff_size
     THEN Give(Without("ERROR")) /\ UNCHANGED <<pc, status, dmux, frame>>
     ELSE Becomes(At("master", "OK", InitDemux, NoFrame)) /\ UNCHANGED <<res, kept>>
  /\ UNCHANGED file

\* StoreFrame is called for a frame of which some is known already.
StartFrame(m, d, f) ==
  IF MemDataSize(m, d) < CHUNK_HEADER_SIZE \/ MemDataSize(m, d) < f.payload
  THEN At("stored", "NEED_MORE_DATA", d, f)
  ELSE At("store", "OK", d, f)

\* ParseSingleImage up to StoreFrame; there is a chunk header.
SingleImage(m, d, f) ==
  IF d.frames # << >> \/ SizeIsInvalid(m, d, CHUNK_HEADER_SIZE) THEN Stop("ERROR", d, f)
  ELSE StartFrame(m, d, [f |-> NewFrame, for |-> "image", num |-> 1,
                         from |-> d.start, payload |-> 0])

\* ParseVP8X up to the chunks.
ParseVP8X(m, d, f) ==
  LET c  == ChunkAt(m, d.start)
      s  == Padded(c.size)
      d1 == [Skip(d, CHUNK_HEADER_SIZE) EXCEPT !.is_ext_format = TRUE]
      d2 == [Skip(d1, s) EXCEPT !.flags = c.v.flags, !.width = c.v.width,
                                !.state = "PARSED_HEADER"]
  IN  IF c.size < VP8X_CHUNK_SIZE \/ SizeIsInvalid(m, d1, s) THEN Stop("ERROR", d1, f)
      ELSE IF MemDataSize(m, d1) < s THEN Stop("NEED_MORE_DATA", d1, f)
      ELSE IF SizeIsInvalid(m, d2, CHUNK_HEADER_SIZE) THEN Stop("ERROR", d2, f)
      ELSE IF MemDataSize(m, d2) < CHUNK_HEADER_SIZE THEN Stop("NEED_MORE_DATA", d2, f)
      ELSE At("chunks", "OK", d2, f)

\* kMasterChunks.
ParseMaster(m, d, f) ==
  LET tag == ChunkAt(m, d.start).tag
  IN  IF tag \in ImageTags THEN SingleImage(m, d, f)
      ELSE IF tag = "VP8X" THEN ParseVP8X(m, d, f)
      ELSE Stop("ERROR", d, f)

\* A chunk that ParseVP8XChunks skips, and stores if the user may want it; d is
\* behind its header.
OtherChunk(m, c, d, f, store) ==
  LET stored == Append(d.chunks, [offset |-> d.start - CHUNK_HEADER_SIZE,
                                  size   |-> CHUNK_HEADER_SIZE + c.size])
  IN  IF Padded(c.size) > MemDataSize(m, d) THEN EndOfChunk(m, "NEED_MORE_DATA", d, f)
      ELSE EndOfChunk(m, "OK", [Skip(d, Padded(c.size))
                                  EXCEPT !.chunks = IF store THEN stored ELSE @], f)

AnimChunk(m, c, d, f) ==
  IF Padded(c.size) < ANIM_CHUNK_SIZE THEN Stop("ERROR", d, f)
  ELSE IF d.anim_chunks > 0 THEN OtherChunk(m, c, d, f, FALSE)
  ELSE IF MemDataSize(m, d) < Padded(c.size) THEN EndOfChunk(m, "NEED_MORE_DATA", d, f)
  ELSE EndOfChunk(m, "OK", [Skip(d, Padded(c.size)) EXCEPT !.anim_chunks = 1], f)

\* ParseAnimationFrame up to StoreFrame.
AnimationFrame(m, c, d, f) ==
  IF d.anim_chunks = 0 THEN Stop("ERROR", d, f)
  ELSE IF SizeIsInvalid(m, d, ANMF_CHUNK_SIZE) \/ Padded(c.size) < ANMF_CHUNK_SIZE
  THEN EndOfChunk(m, "ERROR", d, f)
  ELSE IF MemDataSize(m, d) < ANMF_CHUNK_SIZE THEN EndOfChunk(m, "NEED_MORE_DATA", d, f)
  ELSE StartFrame(m, Skip(d, ANMF_CHUNK_SIZE),
         [f |-> [NewFrame EXCEPT !.x = c.v.x, !.width = c.v.width],
          for |-> "animation", num |-> d.num_frames + 1,
          from |-> d.start + ANMF_CHUNK_SIZE, payload |-> Padded(c.size) - ANMF_CHUNK_SIZE])

\* ParseVP8XChunks: the next chunk.
ParseChunk(m, d0, f) ==
  LET c == ChunkAt(m, d0.start)
      d == Skip(d0, CHUNK_HEADER_SIZE)
  IN  IF SizeIsInvalid(m, d, Padded(c.size)) \/ c.tag = "VP8X" THEN Stop("ERROR", d, f)
      ELSE CASE c.tag \in ImageTags \cup {"ALPH"} ->
                  IF d.anim_chunks > 0 \/ IsAnimation(d) THEN Stop("ERROR", d, f)
                  ELSE SingleImage(m, d0, f)
             [] c.tag = "ANMF" -> AnimationFrame(m, c, d, f)
             [] c.tag = "ANIM" -> AnimChunk(m, c, d, f)
             [] OTHER ->
                  OtherChunk(m, c, d, f, c.tag \in Metadata => c.tag \in d.flags)

-----------------------------------------------------------------------------
(* StoreFrame: the next chunk of a frame.                                   *)

\* The end of its loop.
EndOfFramePart(m, s, done, d, f) ==
  LET more == ~ AtRiffEnd(m, d) /\ MemDataSize(m, d) < CHUNK_HEADER_SIZE
      s1   == IF more THEN "NEED_MORE_DATA" ELSE s
  IN  At(IF done \/ AtRiffEnd(m, d) \/ s1 # "OK" THEN "stored" ELSE "store", s1, d, f)

FrameGivenUp(s, d, f) == At("stored", s, d, f)

\* Variant: a frame counts as complete when its image has begun.
SetFrameInfo_Complete(f, c, part, complete) ==
  [f EXCEPT !.f.image = part, !.f.width = c.v.width, !.f.has_alpha = @ \/ c.v.has_alpha,
            !.f.frame_num = f.num, !.f.complete = TRUE]

SetFrameInfo(f, c, part, complete) ==
  [f EXCEPT !.f.image = part, !.f.width = c.v.width, !.f.has_alpha = @ \/ c.v.has_alpha,
            !.f.frame_num = f.num, !.f.complete = complete]

SetAlpha(f, part) ==
  [f EXCEPT !.f.alpha = part, !.f.has_alpha = TRUE, !.f.frame_num = f.num]

StorePart(m, d0, f) ==
  LET c         == ChunkAt(m, d0.start)
      d         == Skip(d0, CHUNK_HEADER_SIZE)
      available == MinOf(Padded(c.size), MemDataSize(m, d))
      s         == IF Padded(c.size) > MemDataSize(m, d) THEN "NEED_MORE_DATA" ELSE "OK"
      part      == [offset |-> d0.start, size |-> CHUNK_HEADER_SIZE + available]
      is_alpha  == c.tag = "ALPH" /\ f.f.alpha = NoData
      is_image  == c.tag \in ImageTags /\ f.f.image = NoData
  IN  IF \/ SizeIsInvalid(m, d, Padded(c.size))
         \/ c.tag = "VP8L" /\ f.f.alpha # NoData
      THEN FrameGivenUp("ERROR", d, f)
      ELSE IF is_alpha
      THEN EndOfFramePart(m, s, FALSE, Skip(d, available), SetAlpha(f, part))
      ELSE IF is_image /\ available < c.v.need    \* WebPGetFeatures
      THEN FrameGivenUp(IF s = "OK" THEN "ERROR" ELSE s, d, f)
      ELSE IF is_image
      THEN EndOfFramePart(m, s, FALSE, Skip(d, available), SetFrameInfo(f, c, part, s = "OK"))
      ELSE EndOfFramePart(m, s, TRUE, d0, f)

AddFrame(d, f, n) == [d EXCEPT !.frames = Append(@, f), !.num_frames = n]

\* ParseSingleImage after StoreFrame.
ImageStored(m, s, d0, f0) ==
  LET unflagged == "ALPHA" \notin d0.flags /\ f0.f.alpha # NoData
      f == [f0.f EXCEPT !.alpha = IF unflagged THEN NoData ELSE @,
                        !.has_alpha = @ /\ ~ unflagged]
      d == IF d0.is_ext_format \/ f.width = 0 THEN d0
           ELSE [d0 EXCEPT !.state = "PARSED_HEADER", !.width = f.width,
                           !.flags = @ \cup (IF f.has_alpha THEN {"ALPHA"} ELSE {})]
      added == IF s = "ERROR" THEN d0 ELSE AddFrame(d, f, 1)
  IN  IF d0.is_ext_format THEN EndOfChunk(m, s, added, f0) ELSE Stop(s, added, f0)

\* Variant: a frame may take more than its ANMF chunk.
Overrun_Never(d, f) == FALSE

\* The chunks of the frame reach further than its ANMF chunk.
Overrun(d, f) == d.start - f.from > f.payload

\* ParseAnimationFrame after StoreFrame.
AnimationFrameStored(m, s, d, f) ==
  IF s = "ERROR" \/ Overrun(d, f) THEN EndOfChunk(m, "ERROR", d, f)
  ELSE EndOfChunk(m, s,
         IF IsAnimation(d) /\ f.f.frame_num > 0
         THEN AddFrame(d, f.f, d.num_frames + 1) ELSE d, f)

FrameStored(m, s, d, f) ==
  IF f.for = "image" THEN ImageStored(m, s, d, f) ELSE AnimationFrameStored(m, s, d, f)

-----------------------------------------------------------------------------
(* The end of WebPDemuxInternal.                                            *)

CheckFrameBounds(f, exact, width) ==
  IF exact THEN f.x = 0 /\ f.width = width ELSE f.x + f.width <= width

\* There are no frames after an incomplete one.
FollowsComplete(d, i) == i = 1 \/ d.frames[i - 1].complete

IsValidFrame(d, state, i) ==
  LET f == d.frames[i]
  IN  /\ IsAnimation(d) \/ f.frame_num <= 1
      /\ f.complete \/ state # "DONE"
      /\ f.alpha # NoData /\ (f.complete \/ f.image # NoData)
           => f.alpha.offset <= f.image.offset
      /\ FollowsComplete(d, i)
      /\ f.width > 0 => CheckFrameBounds(f, ~ IsAnimation(d), d.width)

IsValidExtendedFormat(d, state) ==
  \/ state = "PARSING_HEADER"
  \/ /\ state = "DONE" => d.frames # << >>
     /\ \A i \in 1 .. Len(d.frames) : IsValidFrame(d, state, i)

IsValidSimpleFormat(d, state) ==
  state = "PARSING_HEADER" \/ (d.width > 0 /\ d.frames[1].width > 0)

IsValid(d, state) ==
  IF d.is_ext_format THEN IsValidExtendedFormat(d, state) ELSE IsValidSimpleFormat(d, state)

\* kMasterChunks has a parser for the first chunk.
HasParser(m) == ChunkAt(m, RIFF_HEADER_SIZE).tag \in ImageTags \cup {"VP8X"}

\* What the call gives.  Without a parser there is no demuxer either, but the state is
\* the one InitDemux has set.
Given(m, s, d) ==
  LET state == IF s = "OK" THEN "DONE" ELSE d.state
      error == \/ s = "ERROR"
               \/ s = "NEED_MORE_DATA" /\ ~ Partial(m)
               \/ ~ IsValid(d, state)
  IN  IF ~ error THEN [d EXCEPT !.state = state]
      ELSE Without(IF HasParser(m) THEN "ERROR" ELSE "PARSING_HEADER")

-----------------------------------------------------------------------------
\* The parser goes on.
Parse(step, p) == pc = step /\ Becomes(p) /\ UNCHANGED <<file, size, res, kept>>

Master     == Parse("master", ParseMaster(Mem, dmux, frame))
Chunk      == Parse("chunks", ParseChunk(Mem, dmux, frame))
StoreFrame == Parse("store", StorePart(Mem, dmux, frame))
Stored     == Parse("stored", FrameStored(Mem, status, dmux, frame))

Finish ==
  /\ pc = "finish"
  /\ Give(Given(Mem, status, dmux))
  /\ pc' = "wait"
  /\ UNCHANGED <<file, size, status, dmux, frame>>

DemuxNext == Receive \/ Master \/ Chunk \/ StoreFrame \/ Stored \/ Finish

-----------------------------------------------------------------------------
EndOf(part) == part.offset + part.size

\* Where a frame starts in the file.
FirstPart(f) == IF f.alpha = NoData THEN f.image ELSE f.alpha

\* The parts that a frame has are inside the payload of the j-th chunk.
InChunk(f, j) ==
  LET start == Offset(file.chunks, j) + CHUNK_HEADER_SIZE
  IN  /\ FirstPart(f).offset >= start + ANMF_CHUNK_SIZE
      /\ EndOf(f.image) <= start + Padded(file.chunks[j].size)

\* What IsValidExtendedFormat checks is what a caller relies on, for any file,
\* cut anywhere: frames are numbered from 1 without a gap, only the last one is
\* incomplete and none is once the file is done; they are inside the canvas; their
\* data are inside the RIFF chunk, in the order of the frames, alpha before image,
\* and inside an ANMF chunk at whose offset they are shown if this is an animation.
FramesAreSound ==
  Usable(res) =>
    \A i \in 1 .. Len(res.frames) :
      LET f == res.frames[i]
      IN  /\ f.frame_num = i \/ (f.frame_num = 0 /\ res.state # "DONE")
          /\ i < Len(res.frames) \/ res.state = "DONE" => f.complete
          /\ f.x + f.width <= res.width
          /\ f.alpha # NoData /\ f.image # NoData => EndOf(f.alpha) <= f.image.offset
          /\ EndOf(f.image) <= file.riff_end
          /\ i > 1 => FirstPart(f).offset > EndOf(res.frames[i - 1].image)
          /\ IsAnimation(res) =>
               \E j \in 1 .. Len(file.chunks) :
                 /\ file.chunks[j].tag = "ANMF" /\ file.chunks[j].v.x = f.x
                 /\ InChunk(f, j)

\* An ALPH chunk that follows an image takes its alpha away when the file has no
\* alpha flag.
AlphaAfterImage ==
  \E i \in 2 .. Len(file.chunks) :
    file.chunks[i].tag = "ALPH" /\ file.chunks[i - 1].tag \in ImageTags

\* WebPDemuxPartial parses from the beginning each time, yet what it gave for less
\* of the file remains true for more of it, up to the whole (Fits).  In a file that
\* turns out to be malformed an error may come, and may be forgotten again.
WhatWasGivenRemains ==
  pc = "wait" /\ size = FileSize(file) /\ res.state = "DONE" => kept \/ AlphaAfterImage
=============================================================================
