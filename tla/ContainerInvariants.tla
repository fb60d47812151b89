------------------------- MODULE ContainerInvariants -------------------------
(***************************************************************************)
(* What ContainerProofs says of the states of Container: where the parser  *)
(* of the demuxer is and what it has, how calls on more and more of a file *)
(* go, what objects and files of WebPMux look like; and the invariants     *)
(* made of these, ContainerInv, RemainInv and RecreateInv.                 *)
(***************************************************************************)
EXTENDS Container

-----------------------------------------------------------------------------
(* Folds over sequences, of which the model has four.                        *)

\* Sizes of chunks are summed up, the chunks of images are joined, chunks are read
\* into a mux object, and those that have another tag are kept.
Sum == [op |-> "sum", tag |-> ""]
Emit == [op |-> "emit", tag |-> ""]
Create == [op |-> "create", tag |-> ""]
Drop(tag) == [op |-> "without", tag |-> tag]

FoldStep(kind, a, c) ==
  CASE kind.op = "sum"     -> a + DiskSize(c)
    [] kind.op = "emit"    -> a \o Emitted(c)
    [] kind.op = "create"  -> ReadChunk(a, c)
    [] kind.op = "without" -> IF c.tag = kind.tag THEN a ELSE Append(a, c)

\* The recursive function of FoldLeft.
Folding(kind, base, s, n, it) ==
  [t \in SUBSET (1 .. n) |-> IF t = {} THEN base
                             ELSE FoldStep(kind, it[t \ {Max(t)}], s[Max(t)])]

\* v[k]: what the fold has after k elements.
Folds(kind, v, base, s, n) ==
  v[0] = base /\ \A k \in 1 .. n : v[k] = FoldStep(kind, v[k - 1], s[k])

\* The images of a mux object as chunks.
EmittedAll(images) == FoldLeft(LAMBDA s, i : s \o Emitted(i), << >>, images)

-----------------------------------------------------------------------------
(* Where the chunks of a file are.                                           *)

\* v[k]: what k chunks take.
Sums(v, cs) ==
  /\ v[0] = 0
  /\ \A k \in 1 .. Len(cs) : v[k] = v[k - 1] + DiskSize(cs[k])
  /\ \A k \in 0 .. Len(cs) : v[k] \in Nat
  /\ \A k \in 1 .. Len(cs) + 1 : Offset(cs, k) = RIFF_HEADER_SIZE + v[k - 1]
  /\ ListSize(cs) = v[Len(cs)]

\* The chunks follow one another.
Layout(cs) ==
  /\ Offset(cs, 1) = RIFF_HEADER_SIZE
  /\ \A k \in 1 .. Len(cs) : Offset(cs, k + 1) = Offset(cs, k) + DiskSize(cs[k])
  /\ \A k \in 1 .. Len(cs) + 1 : Offset(cs, k) \in Nat /\ Offset(cs, k) >= RIFF_HEADER_SIZE
  /\ \A i, j \in 1 .. Len(cs) + 1 : i < j => Offset(cs, i) < Offset(cs, j)

-----------------------------------------------------------------------------
(* The parser of the demuxer, in a buffer m.                                 *)

Part == [offset : Nat, size : Nat]
Frame == [x : Nat, width : Nat, has_alpha : BOOLEAN, frame_num : Nat, complete : BOOLEAN,
          image : Part, alpha : Part]
States == {"PARSING_HEADER", "PARSED_HEADER"}
Statuses == {"OK", "NEED_MORE_DATA", "ERROR"}
Demuxer == [state : States, is_ext_format : BOOLEAN, flags : SUBSET Flags, width : Int,
            num_frames : Nat, frames : Seq(Frame), chunks : Seq(Part), start : Nat,
            anim_chunks : Nat]
FrameRead == [f : Frame, for : {"none", "image", "animation"}, num : Nat, from : Nat,
              payload : Nat]
ParserState == [pc : {"master", "chunks", "store", "stored", "finish"}, status : Statuses,
                dmux : Demuxer, frame : FrameRead]

\* What is read is in the file and in the RIFF chunk.
Buffer(m) ==
  /\ m.chunks \in Seq(AnyChunk) /\ m.riff_end \in Nat /\ m.end \in Nat
  /\ m.end <= m.riff_end /\ m.end <= RIFF_HEADER_SIZE + ListSize(m.chunks)

\* A chunk or the file starts or ends here.
Boundary(m, at) == \E k \in 1 .. Len(m.chunks) + 1 : at = Offset(m.chunks, k)

Apart(a, b) == EndOf(a) <= b.offset \/ EndOf(b) <= a.offset

\* The parts that a frame has do not overlap and are between two places.
Placed(m, f, from, to) ==
  /\ f.image # NoData => f.image.offset >= from /\ f.image.size > 0
  /\ f.alpha # NoData => f.alpha.offset >= from /\ f.alpha.size > 0
  /\ EndOf(f.image) <= to /\ EndOf(f.alpha) <= to /\ EndOf(f.image) <= m.riff_end
  /\ f.image # NoData /\ f.alpha # NoData => Apart(f.alpha, f.image)

InFrameChunk(m, f, j) ==
  LET start == Offset(m.chunks, j) + CHUNK_HEADER_SIZE
  IN  /\ m.chunks[j].tag = "ANMF" /\ m.chunks[j].v.x = f.x
      /\ FirstPart(f).offset >= start + ANMF_CHUNK_SIZE
      /\ EndOf(f.image) <= start + Padded(m.chunks[j].size)

SoundFrame(m, d, i) ==
  LET f == d.frames[i]
  IN  /\ f.frame_num = i \/ (f.frame_num = 0 /\ ~ f.complete)
      /\ Placed(m, f, 0, d.start)
      /\ i > 1 => FirstPart(f).offset > EndOf(d.frames[i - 1].image)
      /\ f.width = 0 => f.x = 0
      /\ IsAnimation(d) => \E j \in 1 .. Len(m.chunks) : InFrameChunk(m, f, j)

\* The frames that were added so far.
Sound(m, d) ==
  /\ d.num_frames = Len(d.frames)
  /\ ~ IsAnimation(d) => Len(d.frames) <= 1
  /\ \A i \in 1 .. Len(d.frames) : SoundFrame(m, d, i)

\* Behind a VP8X chunk, and in a file without one.
Extended(d) == d.is_ext_format /\ d.state = "PARSED_HEADER" /\ d.width >= 0
Simple(d)   == ~ d.is_ext_format /\ d.state = "PARSING_HEADER" /\ d.flags = {}

\* Whose chunks the frame is made of.
ReadFor(m, d, r) ==
  \/ /\ r.for = "image"
     /\ ~ IsAnimation(d) /\ d.frames = << >> /\ r.f.x = 0
     /\ r.f.width > 0 => r.f.image # NoData
     /\ Extended(d) \/ Simple(d)
  \/ /\ r.for = "animation"
     /\ Extended(d)
     /\ \E j \in 1 .. Len(m.chunks) :
          /\ m.chunks[j].tag = "ANMF" /\ m.chunks[j].v.x = r.f.x
          /\ r.from = Offset(m.chunks, j) + CHUNK_HEADER_SIZE + ANMF_CHUNK_SIZE
          /\ r.payload = Padded(m.chunks[j].size) - ANMF_CHUNK_SIZE

\* The frame that StoreFrame reads.
Reading(m, s, d, r) ==
  /\ r.num = Len(d.frames) + 1
  /\ r.from <= d.start /\ Placed(m, r.f, r.from, d.start)
  /\ \/ r.f.frame_num = r.num /\ FirstPart(r.f) # NoData
     \/ r.f.frame_num = 0 /\ r.f.image = NoData
  /\ r.f.complete => r.f.image # NoData
  /\ s = "OK" /\ r.f.image # NoData => r.f.complete
  /\ r.f.width = 0 => r.f.x = 0
  /\ \A i \in 1 .. Len(d.frames) : EndOf(d.frames[i].image) < r.from
  /\ ReadFor(m, d, r)

\* What a call is going to give, unless there was an error.
Final(s, d) ==
  \/ d.is_ext_format /\ (s = "OK" \/ Usable(d) => d.width >= 0)
  \/ /\ ~ d.is_ext_format /\ ~ IsAnimation(d) /\ Len(d.frames) = 1
     /\ d.frames[1].alpha = NoData /\ d.frames[1].x = 0
     /\ d.frames[1].width > 0 => d.frames[1].width = d.width
     /\ d.frames[1].width = 0 => d.state = "PARSING_HEADER"
     /\ s = "OK" /\ d.frames[1].width > 0 => d.frames[1].complete

ParserInv(m, p) ==
  /\ p \in ParserState
  /\ Sound(m, p.dmux)
  /\ p.pc = "master" => p.dmux = InitDemux /\ Len(m.chunks) >= 1
  /\ p.pc \in {"chunks", "store"} =>
       /\ p.status = "OK"
       /\ Boundary(m, p.dmux.start) /\ p.dmux.start + CHUNK_HEADER_SIZE <= m.end
  /\ p.pc = "chunks" => Extended(p.dmux)
  /\ p.pc \in {"store", "stored"} => Reading(m, p.status, p.dmux, p.frame)
  /\ p.pc = "stored" /\ p.status = "OK" => Boundary(m, p.dmux.start)
  /\ p.pc = "finish" /\ p.status # "ERROR" => Final(p.status, p.dmux)

-----------------------------------------------------------------------------
(* What the steps up to StoreFrame make.                                     *)

\* The demuxer behind the header and behind the payload of the VP8X chunk c.
BehindHeader(d) == [Skip(d, CHUNK_HEADER_SIZE) EXCEPT !.is_ext_format = TRUE]
BehindVP8X(d, c) ==
  [Skip(BehindHeader(d), Padded(c.size)) EXCEPT
     !.flags = c.v.flags, !.width = c.v.width, !.state = "PARSED_HEADER"]

\* What ParseAnimationFrame gives to StoreFrame.
ReadOf(c, d) ==
  [f |-> [NewFrame EXCEPT !.x = c.v.x, !.width = c.v.width],
   for |-> "animation", num |-> d.num_frames + 1,
   from |-> d.start + ANMF_CHUNK_SIZE, payload |-> Padded(c.size) - ANMF_CHUNK_SIZE]

-----------------------------------------------------------------------------
(* What becomes of the frame.                                                *)

\* Of a frame with an alpha part that the flags do not announce the part is dropped.
Unflagged(d, r) == "ALPHA" \notin d.flags /\ r.f.alpha # NoData
Shown(d, r) == [r.f EXCEPT !.alpha = IF Unflagged(d, r) THEN NoData ELSE @,
                           !.has_alpha = @ /\ ~ Unflagged(d, r)]

-----------------------------------------------------------------------------
(* What a call gives.                                                        *)

\* FramesAreSound of the demuxer g, made of the file or of what is there of it.
SoundGiven(m, g, i) ==
  LET f == g.frames[i]
  IN  /\ f.frame_num = i \/ (f.frame_num = 0 /\ g.state # "DONE")
      /\ i < Len(g.frames) \/ g.state = "DONE" => f.complete
      /\ f.x + f.width <= g.width
      /\ f.alpha # NoData /\ f.image # NoData => EndOf(f.alpha) <= f.image.offset
      /\ EndOf(f.image) <= m.riff_end
      /\ i > 1 => FirstPart(f).offset > EndOf(g.frames[i - 1].image)
      /\ IsAnimation(g) => \E j \in 1 .. Len(m.chunks) : InFrameChunk(m, f, j)

-----------------------------------------------------------------------------
(* The mux object and its files.                                             *)

\* An image has all of its header, and a lossless one has no alpha of its own.
AlphaChunk == { c \in AnyChunk : c.tag = "ALPH" }
WholeImage == { c \in ImageChunk : c.v.need <= c.size }
ImageRec == { i \in [header : Seq(FrameChunk), alpha : Seq(AlphaChunk), img : WholeImage,
                     unknown : Seq(AnyChunk)] : i.img.tag = "VP8L" => i.alpha = Missing }

\* What is in a list has its tag, and is no part of an image.
Listed(n) == { c \in AnyChunk : ListOf(c.tag) = n /\ c.tag \notin ImageTags \cup {"ALPH", "ANMF"} }
Lists == { l \in [ListNames -> Seq(AnyChunk)] : \A n \in ListNames : l[n] \in Seq(Listed(n)) }
MuxObject == [images : Seq(ImageRec), list : Lists, width : Int]

-----------------------------------------------------------------------------
(* What WebPMuxCreate reads.                                                 *)

ImageInRead == [header : Seq(FrameChunk), alpha : Seq(AlphaChunk), img : Seq(ImageChunk),
                unknown : Seq(AnyChunk)]

ReadState == [mux : MuxObject, wpi : ImageInRead, partial : BOOLEAN, at : Int, anmf : Int,
              failed : BOOLEAN]

\* The image that is being read can become one of the mux object.
IsComplete(w) ==
  w.img # << >> /\ w.img[1] \in WholeImage /\ (w.img[1].tag = "VP8L" => w.alpha = Missing)

\* A frame that is not partial has its image.
Reader == { s \in ReadState : s.anmf # 0 /\ ~ s.partial /\ ~ s.failed => IsComplete(s.wpi) }

\* An ALPH chunk, in a frame or not.
AlphaRead(s, c) ==
  [s EXCEPT !.wpi.alpha = << c >>, !.partial = TRUE,
            !.failed = s.failed \/ s.wpi.alpha # Missing]

-----------------------------------------------------------------------------
(* The invariant of FramesAreSound.                                          *)

Pc == {"wait", "master", "chunks", "store", "stored", "finish"}

\* The frames that the user has.
GivenAreSound(f, d) == Usable(d) => \A i \in 1 .. Len(d.frames) : SoundGiven(f, d, i)

ContainerInv ==
  /\ mux \in MuxObject /\ file \in File
  /\ size \in Nat /\ size <= FileSize(file) /\ pc \in Pc /\ frame \in FrameRead
  /\ file = NoFile => pc = "wait" /\ size = 0 /\ ~ Usable(res)
  /\ pc # "wait" => ParserInv(Mem, At(pc, status, dmux, frame))
  /\ GivenAreSound(file, res)

-----------------------------------------------------------------------------
(* What a call gives of less of a file and what another gives of more of it: *)
(* two runs of the parser, which do the same until the first wants data.     *)

\* A call goes on.
Step(m, p) ==
  CASE p.pc = "master" -> ParseMaster(m, p.dmux, p.frame)
    [] p.pc = "chunks" -> ParseChunk(m, p.dmux, p.frame)
    [] p.pc = "store"  -> StorePart(m, p.dmux, p.frame)
    [] p.pc = "stored" -> FrameStored(m, p.status, p.dmux, p.frame)
    [] p.pc = "finish" -> p

\* A call that is at p gets to q, now or later.
Leads(m, p, q) ==
  \A S : p \in S /\ (\A x \in S : Step(m, x) \in S) => q \in S

-----------------------------------------------------------------------------
(* There is more in n than in m.                                             *)

More(m, n) ==
  /\ Buffer(m) /\ Buffer(n) /\ m.end <= n.end
  /\ n.chunks = m.chunks /\ n.riff_end = m.riff_end

\* How much of the payload of c is there.
Available(m, c, d) == MinOf(Padded(c.size), MemDataSize(m, d))
IsThere(m, c, d)   == IF Padded(c.size) > MemDataSize(m, d) THEN "NEED_MORE_DATA" ELSE "OK"
PartOf(m, c, d0) ==
  [offset |-> d0.start,
   size |-> CHUNK_HEADER_SIZE + Available(m, c, Skip(d0, CHUNK_HEADER_SIZE))]

\* What StorePart does with c.
Refused(m, c, d, f) ==
  SizeIsInvalid(m, d, Padded(c.size)) \/ (c.tag = "VP8L" /\ f.f.alpha # NoData)
IsAlphaPart(c, f) == c.tag = "ALPH" /\ f.f.alpha = NoData
IsImagePart(c, f) == c.tag \in ImageTags /\ f.f.image = NoData

\* The frame goes on, or ends before this chunk.
FrameGoesOn(m, s, d, f) == EndOfFramePart(m, s, FALSE, d, f)
FrameEnds(m, s, d, f)   == EndOfFramePart(m, s, TRUE, d, f)

ImageSet(m, f, c, d0, s) == SetFrameInfo(f, c, PartOf(m, c, d0), s = "OK")
AlphaSet(m, f, c, d0)    == SetAlpha(f, PartOf(m, c, d0))

-----------------------------------------------------------------------------
(* What a step may change of what the user sees.                             *)

\* All but the chunks.
SameLook(d, e) ==
  /\ e.state = d.state /\ e.is_ext_format = d.is_ext_format /\ e.width = d.width
  /\ e.flags = d.flags /\ e.frames = d.frames /\ e.num_frames = d.num_frames

\* Chunks that the user can ask for.
IsKept(c, d) ==
  /\ c.tag \notin ImageTags \cup {"ALPH", "ANMF", "ANIM"}
  /\ c.tag \in Metadata => c.tag \in d.flags

ChunkPart(c, d) ==
  [offset |-> d.start - CHUNK_HEADER_SIZE, size |-> CHUNK_HEADER_SIZE + c.size]

IsOfImage(c) == c.tag \in ImageTags \cup {"ALPH"}

\* The frame of a single image, and an ANMF chunk, of which nothing has been read.
FreshImage(d) ==
  [f |-> NewFrame, for |-> "image", num |-> 1, from |-> d.start, payload |-> 0]

IsFresh(r) == r.f.frame_num = 0 /\ r.f.image = NoData /\ r.f.alpha = NoData /\ ~ r.f.complete

\* The chunks when c is stored, if it is to be and all of it is there.
StoredChunks(m, c, d, store) ==
  IF store = TRUE /\ ~ Padded(c.size) > MemDataSize(m, d)
  THEN Append(d.chunks, ChunkPart(c, d))
  ELSE d.chunks

\* The same frame, read further.
SameFrame(r, q) ==
  q.for = r.for /\ q.num = r.num /\ q.from = r.from /\ q.payload = r.payload

-----------------------------------------------------------------------------
(* What the user would see if the parser stopped here.                       *)

WithImage(d, r) ==
  AddFrame(IF d.is_ext_format \/ Shown(d, r).width = 0 THEN d
           ELSE [d EXCEPT !.state = "PARSED_HEADER", !.width = Shown(d, r).width,
                          !.flags = @ \cup (IF Shown(d, r).has_alpha THEN {"ALPHA"} ELSE {})],
           Shown(d, r), 1)

WithFrame(d, r) ==
  IF IsAnimation(d) /\ r.f.complete THEN AddFrame(d, r.f, d.num_frames + 1) ELSE d

View(p) ==
  IF p.pc \notin {"store", "stored"} THEN p.dmux
  ELSE IF p.frame.for = "image" THEN WithImage(p.dmux, p.frame)
  ELSE WithFrame(p.dmux, p.frame)

\* A frame of an animation that was read is going to be added if it is complete, and is
\* empty otherwise.
Settled(p) ==
  p.pc = "stored" /\ p.frame.for = "animation" =>
    /\ ~ Overrun(p.dmux, p.frame)
    /\ IsAnimation(p.dmux) /\ p.frame.f.frame_num > 0 => p.frame.f.complete

\* What remains true of what the user sees.
Grows(a, b) ==
  Usable(a) =>
    /\ Usable(b) /\ b.width = a.width /\ b.flags = a.flags
    /\ b.is_ext_format = a.is_ext_format
    /\ Len(a.chunks) <= Len(b.chunks)
    /\ \A i \in 1 .. Len(a.chunks) : b.chunks[i] = a.chunks[i]
    /\ Len(a.frames) <= Len(b.frames)
    /\ \A i \in 1 .. Len(a.frames) :
         /\ a.frames[i].complete => b.frames[i] = a.frames[i]
         /\ a.frames[i].width > 0 => /\ b.frames[i].width = a.frames[i].width
                                     /\ b.frames[i].x = a.frames[i].x

\* A frame that was read further.
FrameLater(f, g) ==
  /\ f.complete => g = f
  /\ f.image # NoData => /\ g.image # NoData /\ g.x = f.x /\ g.width = f.width
                         /\ g.has_alpha = f.has_alpha /\ g.alpha = f.alpha

-----------------------------------------------------------------------------
(* Calls that do not end well.                                               *)

InAnimation(p) == p.pc \in {"store", "stored"} /\ p.frame.for = "animation"

\* The frame will not get more.
NothingFollows(p) ==
  p.pc = "stored" \/ p.dmux.start + CHUNK_HEADER_SIZE - p.frame.from > p.frame.payload

IsBroken(p) ==
  /\ InAnimation(p) /\ IsAnimation(p.dmux) /\ p.frame.f.frame_num > 0
  /\ ~ p.frame.f.complete /\ NothingFollows(p)

HasBrokenFrame(d) == d.is_ext_format /\ \E i \in 1 .. Len(d.frames) : ~ d.frames[i].complete

Doomed(p) ==
  \/ p.pc \in {"stored", "finish"} /\ p.status # "OK"
  \/ InAnimation(p) /\ Overrun(p.dmux, p.frame)
  \/ IsBroken(p)
  \/ HasBrokenFrame(p.dmux)

\* A call that gives the whole file.
EndsWell(q) == q.pc = "finish" /\ q.status = "OK" /\ IsValid(q.dmux, "DONE")

-----------------------------------------------------------------------------
(* What holds of a call besides, if no ALPH chunk follows an image.          *)

AlphaAfter(m) ==
  \E i \in 2 .. Len(m.chunks) :
    m.chunks[i].tag = "ALPH" /\ m.chunks[i - 1].tag \in ImageTags

PartsInOrder(f) == f.alpha # NoData /\ f.image # NoData => f.alpha.offset <= f.image.offset

InOrder(m, p) ==
  /\ \A i \in 1 .. Len(p.dmux.frames) : PartsInOrder(p.dmux.frames[i])
  /\ p.pc \in {"store", "stored"} => PartsInOrder(p.frame.f)
  /\ p.pc = "store" /\ p.frame.f.image # NoData => ChunkAt(m, p.dmux.start).tag # "ALPH"

\* A frame is only read when all of its ANMF chunk is there.
IsWhole(m, p) ==
  p.pc = "store" /\ p.frame.for = "animation" => p.frame.from + p.frame.payload <= m.end

PathInv(m, p) == ParserInv(m, p) /\ InOrder(m, p) /\ IsWhole(m, p)

-----------------------------------------------------------------------------
(* A call that has less to read than a call that ends well: it goes the same *)
(* way, or it stops for want of data.                                        *)

\* No frame of an animation is incomplete.
AllComplete(d) == IsAnimation(d) => \A i \in 1 .. Len(d.frames) : d.frames[i].complete

\* A call that had to stop for want of data.
Diverged(m, x) ==
  /\ x.status = "NEED_MORE_DATA" /\ x.pc \in {"stored", "finish"} /\ PathInv(m, x)
  /\ Settled(x) /\ AllComplete(View(x)) /\ Partial(m)

\* Between a call and the next one that has more data.  Once the first has stopped, all
\* that is seen of the second has grown from what the first has seen.
Abreast(m, n, F, q, x, y) ==
  /\ PathInv(F, y) /\ PathInv(n, y) /\ PathInv(m, y) /\ Leads(F, y, q) /\ Leads(m, y, x)

Ahead(m, n, F, q, x, y) ==
  /\ Diverged(m, x) /\ Grows(x.dmux, View(y)) /\ PathInv(n, y)
  /\ (PathInv(F, y) /\ Leads(F, y, q)) \/ Diverged(n, y)

-----------------------------------------------------------------------------
(* The calls of a user who gets a file bit by bit, and the invariant of      *)
(* WhatWasGivenRemains.                                                      *)

Begin     == At("master", "OK", InitDemux, NoFrame)
FirstSize == RIFF_HEADER_SIZE + CHUNK_HEADER_SIZE
Refuses(f) == f.riff_end < 2 * CHUNK_HEADER_SIZE

\* A call on the buffer m ends at x.
EndsAt(m, x) == Leads(m, Begin, x) /\ x.pc = "finish"

\* What the user has when there are n units of the file.
Result(f, n, g) ==
  \/ n < FirstSize /\ g = Without("PARSING_HEADER")
  \/ n >= FirstSize /\ Refuses(f) /\ g = Without("ERROR")
  \/ /\ n >= FirstSize /\ ~ Refuses(f)
     /\ \E x : EndsAt(MemBuffer(f, n), x) /\ g = Given(MemBuffer(f, n), x.status, x.dmux)

\* All of the file is accepted.
IsFine(f) == \E q : EndsAt(MemBuffer(f, FileSize(f)), q) /\ EndsWell(q)

Called ==
  /\ size >= FirstSize /\ ~ Refuses(file) /\ Result(file, size - 1, res)
  /\ Leads(Mem, Begin, At(pc, status, dmux, frame))

RemainInv ==
  /\ pc = "wait" => Result(file, size, res)
  /\ pc # "wait" => Called
  /\ size = 0 => kept
  /\ IsFine(file) /\ ~ AlphaAfterImage => kept

-----------------------------------------------------------------------------
(* A file that WebPMuxAssemble wrote.                                        *)

\* The VP8X chunk of a mux object that is written.
FlagsOf(m)  == Features(m) \cup (IF MuxHasAlpha(m) THEN {"ALPHA"} ELSE {})
CanvasOf(m) == IF m.width # 0 THEN m.width ELSE GetAdjustedCanvasSize(m)

Written(m) ==
  /\ m \in MuxObject /\ m.images # << >> /\ MuxValidate(m)
  /\ m.width = 0 \/ GetAdjustedCanvasSize(m) <= m.width
  /\ m.list["VP8X"] = IF Features(m) = {} /\ m.list["unknown"] = << >> THEN << >>
                      ELSE << VP8X(FlagsOf(m), CanvasOf(m)) >>

-----------------------------------------------------------------------------
(* What stands in it.                                                        *)

\* The k-th chunk is c, and those before it are in S.
StandsAt(cs, k, c, S) ==
  cs \in Seq(AnyChunk) /\ k \in 1 .. Len(cs) /\ cs[k] = c /\ \A j \in 1 .. k - 1 : cs[j] \in S

\* What is before the image of a file that is no animation.
Before(m) == { c \in AnyChunk : c.tag \notin ImageTags /\ (c.tag = "ALPH" => "ALPHA" \in FlagsOf(m)) }

-----------------------------------------------------------------------------
(* The three kinds of files.                                                 *)

IsListed(f) == f.chunks \in Seq(AnyChunk) /\ f.chunks # << >> /\ f.riff_end = FileSize(f)

\* An image alone.
SingleFile(f) == IsListed(f) /\ f.chunks[1] \in WholeImage

CanvasFile(f) ==
  IsListed(f) /\ f.chunks[1] \in CanvasChunk /\ f.chunks[1].size = VP8X_CHUNK_SIZE

AnimationFile(f) == CanvasFile(f) /\ "ANIMATION" \in f.chunks[1].v.flags /\ HasFrames(f)

\* The k-th chunk is the image of a canvas, which says truly whether it has alpha.
StillFile(f, k) ==
  LET canvas == f.chunks[1].v
      img    == f.chunks[k]
  IN  /\ CanvasFile(f) /\ "ANIMATION" \notin canvas.flags
      /\ k \in 2 .. Len(f.chunks) /\ img \in WholeImage /\ img.v.width = canvas.width
      /\ \A j \in 2 .. k - 1 :
           /\ f.chunks[j].tag \notin ImageTags
           /\ f.chunks[j].tag = "ALPH" => "ALPHA" \in canvas.flags
      /\ img.tag = "VP8L" => (img.v.has_alpha <=> "ALPHA" \in canvas.flags)

\* What WebPMuxAssemble writes.
OwnFile(f) == SingleFile(f) \/ AnimationFile(f) \/ \E k : StillFile(f, k)

-----------------------------------------------------------------------------
(* What ParseHeadersInternal finds in the beginning of one.                  *)

\* What a header says, if it says anything.
Says(r, says, width, has_alpha) ==
  /\ r.status = says
  /\ says = "OK" => r.width = width /\ r.has_alpha \in BOOLEAN /\ (r.has_alpha <=> has_alpha)

-----------------------------------------------------------------------------
(* WebPMuxCreate takes what WebPMuxAssemble wrote.                           *)

\* From s, the loop of WebPMuxCreate gets to t over some chunks.
Reads(s, cs, t) == \E v : Folds(Create, v, s, cs, Len(cs)) /\ t = v[Len(cs)]

\* The image being read, which has its header and perhaps its alpha.
Wpi(hd, al) == [header |-> hd, alpha |-> al, img |-> Missing, unknown |-> << >>]

\* The loop is in an image, or between two.
InImage(m, hd, al, at, end) ==
  { s \in Reader : /\ ~ s.failed /\ s.mux = m /\ s.wpi = Wpi(hd, al)
                   /\ s.at = at /\ s.anmf = end }

Idle(m, at) == { s \in InImage(m, Missing, Missing, at, 0) : ~ s.partial }

\* The image being read, when all of it is there, and as one of the mux object.
Full(hd, al, c)    == [header |-> hd, alpha |-> al, img |-> << c >>, unknown |-> << >>]
ImageOf(hd, al, c) == [header |-> hd, alpha |-> al, img |-> c, unknown |-> << >>]

Pushing(m, i) == [m EXCEPT !.images = Append(m.images, i)]

\* A chunk goes to its list, and that of the canvas says how wide it is.
Listing(m, n, c) == [[m EXCEPT !.list[n] = Append(m.list[n], c)]
                       EXCEPT !.width = CanvasAfter(m.width, c)]

-----------------------------------------------------------------------------
(* Whatever of a mux object is written comes back.                           *)

\* The chunks make q of m, wherever they are.
Takes(m, cs, q) ==
  \A a \in Nat : \A s \in Idle(m, a) : \E b \in Nat : \E t \in Idle(q, b) : Reads(s, cs, t)

\* An image as it is in a mux object that was made by its functions.
Regular(i) ==
  /\ i \in ImageRec /\ i.unknown = Missing /\ Len(i.alpha) <= 1 /\ Len(i.header) <= 1
  /\ i.header # Missing => i.header[1].size = ANMF_CHUNK_SIZE

\* The chunks of an image behind its header, if it has one, and their size.
Body(i)     == i.alpha \o << i.img >>
BodySize(i) == (IF i.alpha = Missing THEN 0 ELSE DiskSize(i.alpha[1])) + DiskSize(i.img)

\* What has been taken of a mux object: the lists of some names, and images.
Some(m, names, images, width) ==
  [images |-> images, list |-> [n \in ListNames |-> IF n \in names THEN m.list[n] ELSE << >>],
   width |-> width]

\* The canvas of a file, which WebPMuxCreate takes over.
CanvasIn(m)  == IF m.list["VP8X"] = << >> THEN 0 ELSE m.list["VP8X"][1].v.width
Recreated(m) == [m EXCEPT !.width = CanvasIn(m)]

AllRegular(m) == \A k \in 1 .. Len(m.images) : Regular(m.images[k])

-----------------------------------------------------------------------------
(* The object that WebPMuxCreate makes of it, and its file.                  *)

\* What WebPMuxAssemble wrote, after its clean-up.
Kept(w) ==
  /\ Written(w) /\ AllRegular(w)
  /\ NumFrames(w) = 1 => w.width \notin {0, WidthOf(w.images[1])}

-----------------------------------------------------------------------------
(* The invariant of AssembledIsRecreated and FeaturesRemain.                 *)

\* The images of the mux object are those that its functions make, and its file is
\* one that WebPMuxAssemble wrote of such images.
RecreateInv ==
  /\ AllRegular(mux)
  /\ own /\ file # NoFile => \E w : Kept(w) /\ file = FileOf(w)
=============================================================================
