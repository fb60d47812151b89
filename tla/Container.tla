------------------------------ MODULE Container ------------------------------
(***************************************************************************)
(* Files written and read: a WebPMux object is edited and assembled, and    *)
(* the file is given bit by bit to WebPDemuxPartial.  Then the user goes on *)
(* editing, either the same object or one that WebPMuxCreate makes of the   *)
(* file.  Files that come from elsewhere, well-formed or not, are read,     *)
(* too.                                                                     *)
(***************************************************************************)
EXTENDS Demux, Mux, Headers, FiniteSets

CONSTANTS
  Bitstreams,   \* what images and frames are made of: [img, alpha]
  Offsets,      \* of frames
  Chunks,       \* what WebPMuxSetChunk is given
  Tags,         \* of chunks that are deleted
  Widths,       \* of canvases; 0: as large as the images
  MaxImages,    \* bound of the images of a mux object
  Files         \* from elsewhere

\* MuxImageFinalize refuses an image whose header is not all there, and
\* WebPMuxSetChunk the chunks that images are made of (IsWPI).
ASSUME ContainerAssumption ==
  /\ Bitstreams \subseteq [img : ImageChunk, alpha : Seq(PlainChunk)]
  /\ \A b \in Bitstreams :
       /\ b.img.v.need <= b.img.size /\ Len(b.alpha) <= 1
       /\ \A k \in 1 .. Len(b.alpha) : b.alpha[k].tag = "ALPH"
  /\ Chunks \subseteq { c \in AnyChunk : c.tag \notin ImageTags \cup {"ALPH", "ANMF"} }
  /\ Files \subseteq File
  /\ Offsets \subseteq Nat /\ Widths \subseteq Nat /\ MaxImages \in Nat

VARIABLE own    \* the file is the mux object's

vars == <<mux, own, file, dvars>>

Init ==
  /\ DemuxInit
  /\ mux = EmptyMux
  /\ \/ own = TRUE /\ file = NoFile
     \/ own = FALSE /\ file \in Files

-----------------------------------------------------------------------------
Editing == own /\ file = NoFile

Edit ==
  /\ Editing
  /\ \/ \E b \in Bitstreams : SetImage(b)
     \/ SetBadImage
     \/ Len(mux.images) < MaxImages /\ \E b \in Bitstreams, x \in Offsets : PushFrame(b, x)
     \/ \E nth \in 0 .. MaxImages : DeleteFrame(nth)
     \/ \E c \in Chunks : SetChunk(c)
     \/ \E t \in Tags : DeleteChunk(t)
     \/ SetAnimationParams(0)
     \/ \E width \in Widths : SetCanvasSize(width)
  /\ UNCHANGED <<own, file, dvars>>

WebPMuxAssemble ==
  /\ Editing
  /\ mux' = Assembled(mux).mux
  /\ file' = Assembled(mux).file
  /\ UNCHANGED <<own, dvars>>

Read == file # NoFile /\ DemuxNext /\ UNCHANGED <<mux, own>>

\* The file is read; the user goes on with the object or with one made of the file.
EditAgain ==
  /\ own /\ file # NoFile /\ pc = "wait" /\ size = FileSize(file)
  /\ mux' \in { mux, MuxCreate(file) }
  /\ file' = NoFile
  /\ NextFile
  /\ UNCHANGED own

\* All of a file from elsewhere is read.
Terminated == ~ own /\ pc = "wait" /\ size = FileSize(file) /\ UNCHANGED vars

Next == Edit \/ WebPMuxAssemble \/ Read \/ EditAgain \/ Terminated

Spec == Init /\ [][Next]_vars

-----------------------------------------------------------------------------
HasOwnFile == own /\ file # NoFile

\* The single frame of the mux object reaches beyond the canvas.
OutsideCanvas(m) ==
  Len(m.images) = 1 /\ m.width # 0 /\ Extent(m) > m.width

\* A frame of the demuxer is an image of the mux object.
SameImage(f, i) ==
  /\ f.width = WidthOf(i) /\ f.x = XOf(i) /\ f.has_alpha = HasAlpha(i)
  /\ ChunkAt(file, f.image.offset) = i.img
  /\ IF i.alpha = Missing THEN f.alpha = NoData
     ELSE f.alpha # NoData /\ ChunkAt(file, f.alpha.offset) = i.alpha[1]

\* WebPMuxAssemble and WebPDemuxPartial agree: whatever was edited in whatever
\* order, no part of a file that the first wrote is an error for the second, and
\* all of it shows the images and the canvas of the mux object.  The exception is
\* a single frame beyond the canvas, which WebPMuxAssemble does not notice.
AssembledIsRead ==
  HasOwnFile /\ pc = "wait" /\ ~ OutsideCanvas(mux) =>
    /\ res.state # "ERROR"
    /\ size = FileSize(file) =>
         /\ res.state = "DONE"
         /\ Len(res.frames) = Len(mux.images)
         /\ \A i \in 1 .. Len(mux.images) : SameImage(res.frames[i], mux.images[i])
         /\ res.width = IF mux.width = 0 THEN Extent(mux) ELSE mux.width

\* A user who does not have the object any more loses nothing: WebPMuxCreate takes
\* every file of WebPMuxAssemble, and assembling it again gives the same file.
AssembledIsRecreated ==
  LET Again(m) == m # NULL /\ Assembled(m).file = file
  IN  HasOwnFile => Again(MuxCreate(file))

-----------------------------------------------------------------------------
(* The decoder and the demuxer read the same file.                          *)

HasFrames(f) == \E i \in 1 .. Len(f.chunks) : f.chunks[i].tag = "ANMF"

Remains(before, now) ==
  /\ now.status \in {"OK", "NOT_ENOUGH_DATA"}
  /\ before.status = "OK" =>
       now.status = "OK" /\ now.width = before.width /\ now.has_alpha = before.has_alpha

\* What WebPGetFeatures says of the beginning of a file that WebPMuxAssemble wrote
\* does not change any more when the rest arrives; and the incremental decoder,
\* which asks for the headers again and again, finds no error in it until it finds
\* the image.
FeaturesRemain ==
  HasOwnFile /\ pc = "wait" /\ size > 0 /\ ~ OutsideCanvas(mux) =>
    /\ Remains(GetFeatures(Prefix(file, size - 1)), GetFeatures(Prefix(file, size)))
    /\ ~ HasFrames(file) =>
         WebPParseHeaders(Prefix(file, size), FALSE).status
           \in (IF size = FileSize(file) THEN {"OK"} ELSE {"OK", "NOT_ENOUGH_DATA"})

\* The place of the chunk that a part of a frame is, 0 if it has none.
PlaceOf(part) ==
  IF part = NoData THEN 0
  ELSE CHOOSE i \in 1 .. Len(file.chunks) : Offset(file.chunks, i) = part.offset

\* Every complete frame of the demuxer can be given to the decoder, which finds the
\* same picture in it.
FramesAreDecodable ==
  LET Same(f, alpha, r) == /\ r.status = "OK" /\ r.width = f.width /\ r.has_alpha = f.has_alpha
                           /\ r.alpha # 0 <=> alpha # 0
      Payload(f) == FramePayload(file, PlaceOf(f.alpha), PlaceOf(f.image),
                                 EndOf(f.image) - FirstPart(f).offset)
  IN  pc = "wait" /\ Usable(res) /\ ~ AlphaAfterImage =>
        \A n \in 1 .. Len(res.frames) :
          res.frames[n].complete /\ res.frames[n].image # NoData =>
            Same(res.frames[n], PlaceOf(res.frames[n].alpha),
                 WebPParseHeaders(Payload(res.frames[n]), TRUE))

\* If the demuxer accepts the whole of a file that is no animation, so does the
\* decoder, and takes the same image.
ImageIsDecodable ==
  LET Same(f, r) == /\ r.status = "OK" /\ r.image = PlaceOf(f.image) /\ r.width = res.width
                    /\ "ALPHA" \in res.flags => r.alpha = PlaceOf(f.alpha)
  IN  pc = "wait" /\ res.state = "DONE" /\ ~ Partial(Mem) /\ ~ HasFrames(file) =>
        Same(res.frames[1], WebPParseHeaders(Prefix(file, size), TRUE))

\* Two parsers that know nothing of each other agree: the decoder finds in what the
\* demuxer hands over, and in the file itself, what the demuxer has found.
ParsersAgree == FramesAreDecodable /\ ImageIsDecodable
=============================================================================
