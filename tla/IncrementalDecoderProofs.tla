---------------------- MODULE IncrementalDecoderProofs ----------------------
(***************************************************************************)
(* For every file, however it is cut into pieces, and whatever fails:       *)
(* between two calls no row job runs, the intra modes of a row are parsed   *)
(* once, and every pointer that is kept from one call to the next points to *)
(* the unit of the file it should.  A valid file is decoded, unless the     *)
(* system or the user's callbacks fail it.                                  *)
(***************************************************************************)
EXTENDS IncrementalDecoder, FiniteSetTheorems, TLAPS

-----------------------------------------------------------------------------
(* Where the caller and the row job are.                                    *)

Headers == {"WEBP_HEADER", "VP8_HEADER", "VP8_PARTS0", "VP8L_HEADER", "VP8L_DATA"}

Places ==
  /\ pc \in {"idle", "decode", "exit", "exited", "deleted"}
  /\ state \in Headers \cup {"VP8_DATA", "DONE", "ERROR"}

\* A row job runs only while the frame is being decoded, in a call.
JobInCall ==
  /\ job \in Int
  /\ ~ Idle => file.mt /\ state = "VP8_DATA" /\ pc \in {"decode", "exit"}

Rows == mb_y \in Nat /\ last_mb_y \in Int /\ ModesParsedOnce

Control == Places /\ JobInCall /\ Rows

LEMMA InitControl == Init => Control
BY DEF Init, Control, Places, Headers, JobInCall, Idle, Rows, ModesParsedOnce

LEMMA NextControl == Control /\ [Next]_vars => Control'
<1> SUFFICES ASSUME Control, [Next]_vars PROVE Control'
  OBVIOUS
<1> USE DEF Control, Places, Headers, JobInCall, Idle, Rows, ModesParsedOnce,
            Return, Fail, Decoding, InRow, RowParsed,
            api, mem, alphas, tokens, intra, worker
<1>1. CASE Feed
  <2>1. ASSUME NEW n \in 0 .. MaxAppend, AppendInPlace(n) PROVE Control'
    BY <2>1 DEF AppendInPlace, DoRemap, RemapTokens
  <2>2. ASSUME NEW n \in 0 .. MaxAppend, AppendRealloc(n) PROVE Control'
    BY <2>2 DEF AppendRealloc
  <2>3. ASSUME NEW n \in 0 .. MaxAppend, AppendNoMemory(n) PROVE Control'
    BY <2>3 DEF AppendNoMemory
  <2>4. ASSUME NEW n \in 1 .. Total, NEW moved \in BOOLEAN, Update(n, moved)
        PROVE  Control'
    BY <2>4 DEF Update
  <2> QED  BY <1>1, <2>1, <2>2, <2>3, <2>4 DEF Feed
<1>2. CASE Suspended
  BY <1>2 DEF Suspended
<1>3. CASE HeaderFails
  BY <1>3 DEF HeaderFails
<1>4. CASE NewDecoderFails
  BY <1>4 DEF NewDecoderFails
<1>5. CASE DecodeWebPHeaders \/ DecodeVP8FrameHeader \/ DecodePartition0
  BY <1>5 DEF DecodeWebPHeaders, DecodeVP8FrameHeader, DecodePartition0
<1>6. CASE FrameFails
  BY <1>6 DEF FrameFails
<1>7. CASE ParseIntraModes
  BY <1>7 DEF ParseIntraModes, ModesMissing
<1>8. CASE DecodeMB
  BY <1>8 DEF DecodeMB
<1>9. CASE StarvedError \/ Starved
  BY <1>9 DEF StarvedError, Starved, SuspendWhenIdle
<1>10. CASE LaunchRow
  BY <1>10 DEF LaunchRow
<1>11. CASE ProcessRowInline
  BY <1>11 DEF ProcessRowInline
<1>12. CASE ProcessRowFails
  BY <1>12 DEF ProcessRowFails
<1>13. CASE FrameDecoded
  BY <1>13 DEF FrameDecoded
<1>14. CASE ExitCritical \/ Exited
  BY <1>14 DEF ExitCritical, Exited
<1>15. CASE DecodeVP8LHeader \/ DecodeVP8LData
  BY <1>15 DEF DecodeVP8LHeader, DecodeVP8LData
<1>16. CASE JobEnds
  BY <1>16 DEF JobEnds
<1>17. CASE Delete \/ UNCHANGED vars
  BY <1>17 DEF Delete, vars
<1> QED
  BY <1>1, <1>2, <1>3, <1>4, <1>5, <1>6, <1>7, <1>8, <1>9, <1>10, <1>11, <1>12,
     <1>13, <1>14, <1>15, <1>16, <1>17 DEF Next, DecodeSteps, Deleted


-----------------------------------------------------------------------------
(* The window start_ .. end_ on the file.                                   *)

Window ==
  /\ file \in Files
  /\ mode \in {"NONE", "APPEND", "MAP"}
  /\ start \in Int /\ end \in Int /\ org \in Int
  /\ fed = org + end
  /\ mode = "NONE" => state = "WEBP_HEADER" /\ pc \in {"idle", "deleted"}
  /\ mode # "APPEND" => org = 0

\* The headers are read in place; nothing of the frame has been read then.
BeforeFrame ==
  /\ state = "WEBP_HEADER" => start = 0 /\ org = 0 /\ alpha = NoPtr
  /\ state \in Headers \ {"WEBP_HEADER"} => org + start = file.payload
  /\ state \in {"VP8_HEADER", "VP8_PARTS0", "VP8_DATA"} => ~ file.lossless
  /\ state \in {"VP8L_HEADER", "VP8L_DATA"} => file.lossless
  /\ state \in Headers => start >= 0 /\ modes = 0 /\ alphaBr = NoPtr

Pointers == [at : {"none", "cur", "old", "part0"}, i : Int]
Readers  == [at : {"none", "cur", "old"}, i : Int, e : Int]

\* What was released is behind every partition's reader, so that sliding the
\* buffer to start_, or to the alpha data before it, loses nothing.
InWindow ==
  /\ alpha \in Pointers /\ alphaBr \in Pointers /\ br \in Pointers
  /\ io.i \in Int
  /\ parts \in [Partitions -> Readers]
  /\ readTo \in [Partitions -> Int]
  /\ state = "VP8_DATA" =>
       \A p \in Partitions : readTo[p] > AlphaAt /\ parts[p].i >= start

IInv == Control /\ Window /\ BeforeFrame /\ InWindow /\ PointersTrackFile

LEMMA PartsAfterHeaders ==
  ASSUME file \in Files, NEW p \in Nat
  PROVE  /\ last_part \in Partitions
         /\ PartAt(p) \in Int
         /\ PartAt(p) >= file.payload + Part0Size
         /\ file.payload \in Int /\ file.payload > 2
         /\ Part0Size \in Int /\ Part0Size > 2
<1> DEFINE Before == { y \in 0 .. file.rows - 1 : PartOf(y) < p }
<1>1. IsFile(file)
  BY FilesAssumption
<1>2. /\ file.rows \in Nat /\ file.rows > 0 /\ file.parts \in Nat /\ file.parts > 0
      /\ file.width * MbSize \in Nat /\ file.payload \in Nat /\ file.payload > 2
  BY <1>1, SizesAssumption DEF IsFile
<1>3. Cardinality(Before) \in Nat
  <2>1. IsFiniteSet(0 .. file.rows - 1)
    <3>1. 0 \in Int /\ file.rows - 1 \in Int
      BY <1>2
    <3> QED  BY <3>1, FS_Interval
  <2>2. IsFiniteSet(Before)
    BY <2>1, FS_Subset
  <2> QED  BY <2>2, FS_CardinalityType
<1>4. file.width * MbSize * Cardinality(Before) \in Nat
  BY <1>2, <1>3
<1> HIDE DEF Before
<1>5. PartAt(p) = PartsAt + p + file.width * MbSize * Cardinality(Before)
  BY DEF PartAt, Before
<1> QED
  BY <1>2, <1>4, <1>5 DEF PartsAt, Part0Size, last_part, Partitions

\* Where things are in the file depends on the file only.
LEMMA PlacesInFile ==
  ASSUME UNCHANGED file
  PROVE  /\ last_part' = last_part /\ Partitions' = Partitions
         /\ \A p : PartAt(p)' = PartAt(p)
BY DEF last_part, Partitions, PartAt, PartsAt, Part0Size, PartOf

LEMMA InitIInv == Init => IInv
<1> SUFFICES ASSUME Init PROVE IInv
  OBVIOUS
<1>1. Control
  BY InitControl
<1>2. Window /\ BeforeFrame /\ InWindow
  BY DEF Init, Window, BeforeFrame, Headers, InWindow, Pointers, Readers, NoPtr,
         NoReader
<1>3. PointersTrackFile
  BY DEF Init, PointersTrackFile, NeedCompressedAlpha
<1> QED
  BY <1>1, <1>2, <1>3 DEF IInv

\* A step that moves no pointer.
LEMMA Kept ==
  ASSUME IInv, Control',
         UNCHANGED <<file, start, end, org, fed, io, alphas, br, parts, readTo,
                     modes>>,
         state' = state \/ (state' \in {"DONE", "ERROR"} /\ mode # "NONE"),
         mode' = mode \/ (mode = "NONE" /\ mode' \in {"APPEND", "MAP"}),
         pc' \in {"idle", "deleted"} \/ pc \notin {"idle", "deleted"}
  PROVE  IInv'
<1>1. Window' /\ BeforeFrame'
  BY DEF IInv, Window, BeforeFrame, Headers, alphas
<1>2. /\ Partitions' = Partitions /\ last_part' = last_part
      /\ \A p : PartAt(p)' = PartAt(p)
  BY PlacesInFile
<1>3. InWindow'
  BY <1>2 DEF IInv, InWindow, alphas, Pointers, Readers, AlphaAt, Headers
<1>4. PointersTrackFile'
  BY <1>2
  DEF IInv, PointersTrackFile, Window, BeforeFrame, NeedCompressedAlpha, alphas, AlphaAt
<1> QED
  BY <1>1, <1>3, <1>4 DEF IInv

-----------------------------------------------------------------------------
(* A call of WebPIAppend or WebPIUpdate.                                    *)

LEMMA ShiftedPointer ==
  ASSUME NEW q \in Pointers, NEW d \in Int
  PROVE  /\ Shift(q, d) \in Pointers /\ Stale(q) \in Pointers
         /\ q.at = "cur" => Shift(q, d) = [at |-> "cur", i |-> q.i + d]
         /\ q.at # "cur" => Stale(q) = q
BY DEF Pointers, Shift, Stale, Ptr

LEMMA ShiftedReader ==
  ASSUME parts \in [Partitions -> Readers], NEW p \in Partitions,
         NEW moved \in BOOLEAN, NEW d \in Int, end' \in Int
  PROVE  LET r == RemapPart(p, moved, d) IN
         /\ r \in Readers
         /\ parts[p].at = "cur" =>
              r = [at |-> "cur", i |-> parts[p].i + d,
                   e |-> IF p = last_part THEN end' ELSE parts[p].e + d]
BY DEF Readers, RemapPart, Reader

LEMMA ShiftedParts ==
  ASSUME IInv, NEW moved \in BOOLEAN, NEW d \in Int, end' \in Int,
         DoRemap(moved, d), state = "VP8_DATA", NEW p \in Partitions
  PROVE  /\ parts'[p].at = "cur" /\ parts'[p].i = parts[p].i + d
         /\ parts'[p].e = IF p = last_part THEN end' ELSE parts[p].e + d
<1>1. parts[p].at = "cur"
  BY DEF IInv, PointersTrackFile
<1>2. parts'[p] = RemapPart(p, moved, d)
  BY DEF DoRemap, RemapTokens, IInv, BeforeFrame
<1> QED
  BY <1>1, <1>2, ShiftedReader DEF IInv, InWindow

\* The buffer is slid by -d, to what is still needed: the index of every
\* pointer changes by d.
LEMMA Remapped ==
  ASSUME IInv, Control', NEW moved \in BOOLEAN, NEW d \in {0, - OldBase},
         UNCHANGED <<file, state, alphaDone, readTo, modes>>,
         mode' \in {"APPEND", "MAP"}, mode \in {"NONE", mode'},
         start' = start + d, end' \in Int, org' = org - d, fed' = org' + end',
         mode' = "MAP" => d = 0,
         mode' = "APPEND" => moved \/ d = 0,
         state \notin {"DONE", "ERROR"},
         DoRemap(moved, d)
  PROVE  IInv'
<1>1. /\ Partitions' = Partitions /\ last_part' = last_part
      /\ \A p : PartAt(p)' = PartAt(p)
  BY PlacesInFile
<1>2. d \in Int /\ - OldBase \in Int
  BY DEF IInv, Window, InWindow, Pointers, OldBase
<1>3. state = "WEBP_HEADER" => d = 0
  BY DEF IInv, BeforeFrame, OldBase, NeedCompressedAlpha
<1>4. Window' /\ io'.i \in Int
  BY <1>2, <1>3 DEF IInv, Window, BeforeFrame, DoRemap
<1>5. BeforeFrame' /\ org' + start' = org + start
  <2>1. alphaBr = NoPtr /\ NeedCompressedAlpha => alphaBr' = NoPtr
    BY DEF DoRemap, RemapAlpha
  <2>2. alphaBr = NoPtr => alphaBr' = NoPtr
    BY <2>1 DEF DoRemap, RemapAlpha, Stale, NoPtr
  <2>3. state \in Headers => start' >= 0
    <3>1. file.payload > 2 /\ file.payload \in Int
      BY PartsAfterHeaders DEF IInv, Window
    <3> QED
      BY <1>2, <1>3, <3>1
      DEF IInv, Window, BeforeFrame, OldBase, Headers, PointersTrackFile, AlphaAt,
          InWindow, Pointers
  <2> QED
    BY <1>2, <1>3, <2>2, <2>3 DEF IInv, Window, BeforeFrame, DoRemap, Headers
<1>6. CASE state = "WEBP_HEADER"
  <2>1. UNCHANGED <<br, parts, alphas>>
    BY <1>6 DEF DoRemap, alphas
  <2>2. InWindow'
    BY <1>1, <1>4, <1>6, <2>1
    DEF IInv, InWindow, Pointers, Readers, AlphaAt, alphas
  <2>3. PointersTrackFile'
    BY <1>1, <1>6, <2>1
    DEF PointersTrackFile, NeedCompressedAlpha, alphas
  <2> QED
    BY <1>4, <1>5, <2>2, <2>3 DEF IInv
<1>7. CASE state # "WEBP_HEADER" /\ file.lossless
  <2>1. UNCHANGED <<parts, alphas>> /\ br' = Ptr(start')
    BY <1>7 DEF DoRemap, alphas
  <2>2. state # "VP8_DATA"
    BY <1>7 DEF IInv, BeforeFrame
  <2>3. InWindow'
    BY <1>1, <1>2, <1>4, <2>1, <2>2
    DEF IInv, InWindow, Window, Pointers, Readers, AlphaAt, alphas, Ptr
  <2>4. PointersTrackFile'
    <3>1. io' = [at |-> "cur", i |-> start', size |-> end' - start']
      BY DEF DoRemap
    <3>2. state' # "VP8_DATA" /\ ~ NeedCompressedAlpha'
      BY <1>7, <2>2 DEF NeedCompressedAlpha
    <3>3. state' \in Headers \ {"WEBP_HEADER"} =>
            /\ io'.at = "cur" /\ org' + io'.i = file'.payload
            /\ io'.i + io'.size = end'
      BY <1>4, <1>5, <3>1 DEF Window, BeforeFrame, Headers
    <3>4. state' = "VP8L_DATA" => br'.at = "cur" /\ org' + br'.i = file'.payload
      BY <1>5, <2>1 DEF BeforeFrame, Headers, Ptr
    <3> QED
      BY <3>2, <3>3, <3>4 DEF PointersTrackFile, Headers
  <2> QED
    BY <1>4, <1>5, <2>3, <2>4 DEF IInv
<1>8. CASE state # "WEBP_HEADER" /\ ~ file.lossless
  <2>1. RemapTokens(moved, d) /\ RemapAlpha(moved, d)
    BY <1>8 DEF DoRemap
  <2>2. ASSUME state = "VP8_DATA", NEW p \in Partitions
        PROVE  /\ parts'[p].at = "cur" /\ parts'[p].i = parts[p].i + d
               /\ parts'[p].e = IF p = last_part THEN end' ELSE parts[p].e + d
    BY <1>2, <2>2, ShiftedParts
  <2>3. InWindow'
    <3>1. alpha' \in Pointers
      BY <1>2, <2>1, ShiftedPointer DEF RemapAlpha, IInv, InWindow
    <3>2. alphaBr' \in Pointers
      <4>1. \A i \in Int : Ptr(i + 1) \in Pointers /\ NoPtr \in Pointers
        BY DEF Ptr, NoPtr, Pointers
      <4>2. alpha'.i \in Int
        BY <3>1 DEF Pointers
      <4> QED
        BY <2>1, <4>1, <4>2, ShiftedPointer DEF RemapAlpha, IInv, InWindow
    <3>3. br' \in Pointers
      BY <1>2, <2>1, ShiftedPointer DEF RemapTokens, IInv, InWindow
    <3>4. parts' \in [Partitions -> Readers]
      BY <1>2, <2>1, ShiftedReader DEF RemapTokens, IInv, InWindow
    <3>5. ASSUME state = "VP8_DATA", NEW p \in Partitions
          PROVE  readTo[p] > AlphaAt /\ parts'[p].i >= start'
      <4>1. parts[p] \in Readers /\ readTo[p] > AlphaAt /\ parts[p].i >= start
        BY <3>5 DEF IInv, InWindow
      <4>2. parts[p].i \in Int
        BY <4>1 DEF Readers
      <4>3. parts'[p].i = parts[p].i + d
        BY <2>2, <3>5
      <4> QED  BY <1>2, <4>1, <4>2, <4>3 DEF IInv, Window
    <3> QED
      BY <1>1, <1>4, <3>1, <3>2, <3>3, <3>4, <3>5 DEF IInv, InWindow
  <2>4. ASSUME NeedCompressedAlpha'
        PROVE  /\ alpha'.at = "cur" /\ alpha'.i >= 0 /\ org' + alpha'.i = AlphaAt
               /\ alphaBr' # NoPtr =>
                    alphaBr'.at = "cur" /\ org' + alphaBr'.i = AlphaAt + 1
    <3>1. NeedCompressedAlpha
      BY <2>1, <2>4 DEF RemapAlpha, NeedCompressedAlpha, Stale, NoPtr
    <3>2. /\ alpha.at = "cur" /\ alpha.i >= 0 /\ org + alpha.i = AlphaAt
          /\ d \in {0, - alpha.i} /\ alpha.i \in Int
      BY <3>1 DEF IInv, PointersTrackFile, OldBase, InWindow, Pointers
    <3>3. alpha' = [at |-> "cur", i |-> alpha.i + d]
      BY <1>2, <2>1, <3>1, <3>2, ShiftedPointer DEF RemapAlpha, IInv, InWindow
    <3>4. alphaBr' \in {NoPtr, Ptr(alpha.i + d + 1)}
      BY <2>1, <3>1, <3>3 DEF RemapAlpha
    <3> QED
      BY <1>2, <3>2, <3>3, <3>4 DEF IInv, Window, Ptr, AlphaAt
  <2>5. ASSUME state = "VP8_DATA"
        PROVE  IF mode' = "APPEND" THEN br' = [at |-> "part0", i |-> modes]
               ELSE br'.at = "cur" /\ org' + br'.i = file.payload + 2 + modes
    <3>1. mode = mode'
      BY <2>5 DEF IInv, Window
    <3>2. CASE mode = "APPEND"
      <4>1. br = [at |-> "part0", i |-> modes]
        BY <2>5, <3>2 DEF IInv, PointersTrackFile
      <4> QED
        BY <2>1, <3>1, <3>2, <4>1, ShiftedPointer DEF RemapTokens, IInv, InWindow
    <3>3. CASE mode = "MAP"
      <4>1. br.at = "cur" /\ org + br.i = file.payload + 2 + modes /\ br.i \in Int
        BY <2>5, <3>3 DEF IInv, PointersTrackFile, InWindow, Pointers
      <4>2. br' = [at |-> "cur", i |-> br.i + d] /\ d = 0
        BY <1>2, <2>1, <3>1, <3>3, <4>1, ShiftedPointer DEF RemapTokens, IInv, InWindow
      <4> QED
        BY <3>1, <3>3, <4>1, <4>2 DEF IInv, Window
    <3> QED
      BY <3>1, <3>2, <3>3
  <2>6. ASSUME state = "VP8_DATA", NEW p \in Partitions
        PROVE  /\ parts'[p].at = "cur" /\ parts'[p].i >= 0
               /\ org' + parts'[p].i = readTo[p]
               /\ org' + parts'[p].e = IF p = last_part THEN fed' ELSE PartAt(p + 1)
    <3>1. parts[p] \in Readers /\ readTo[p] > AlphaAt /\ parts[p].i >= start
      BY <2>6 DEF IInv, InWindow
    <3>2. parts[p].i \in Int /\ parts[p].e \in Int
      BY <3>1 DEF Readers
    <3>3. /\ parts[p].i >= 0 /\ org + parts[p].i = readTo[p]
          /\ org + parts[p].e = IF p = last_part THEN fed ELSE PartAt(p + 1)
      BY <2>6 DEF IInv, PointersTrackFile
    <3>4. d = 0 \/ d = - start \/ org + (- d) = AlphaAt
      BY DEF OldBase, IInv, PointersTrackFile, Window, InWindow, Pointers
    <3>5. parts[p].i + d >= 0
      BY <1>2, <3>1, <3>2, <3>3, <3>4 DEF IInv, Window, AlphaAt
    <3> QED
      BY <1>2, <2>2, <2>6, <3>2, <3>3, <3>5 DEF IInv, Window
  <2>7. PointersTrackFile'
    <3>1. io' = [at |-> "cur", i |-> start', size |-> end' - start']
      BY DEF DoRemap
    <3> QED
      BY <1>1, <1>2, <1>4, <1>5, <1>8, <2>4, <2>5, <2>6, <3>1
      DEF PointersTrackFile, Window, BeforeFrame, Headers
  <2> QED
    BY <1>4, <1>5, <2>3, <2>7 DEF IInv
<1> QED
  BY <1>6, <1>7, <1>8

LEMMA NextFeed == IInv /\ Control' /\ Feed => IInv'
<1> SUFFICES ASSUME IInv, Control', Feed PROVE IInv'
  OBVIOUS
<1> USE DEF MayFeed, tokens, intra, alphas
<1>1. start \in Int /\ end \in Int /\ org \in Int /\ fed = org + end
  BY DEF IInv, Window
<1>2. OldBase \in Int
  BY DEF IInv, Window, InWindow, Pointers, OldBase
<1>3. ASSUME NEW n \in 0 .. MaxAppend, AppendInPlace(n) PROVE IInv'
  <2>1. n \in Int /\ 0 \in {0, - OldBase} /\ FALSE \in BOOLEAN
    BY <1>3, SizesAssumption
  <2>2. /\ start' = start + 0 /\ end' \in Int /\ org' = org - 0
        /\ fed' = org' + end'
    BY <1>1, <1>3, <2>1 DEF AppendInPlace
  <2>3. /\ mode' = "APPEND" /\ mode \in {"NONE", mode'} /\ DoRemap(FALSE, 0)
        /\ UNCHANGED <<file, state, alphaDone, readTo, modes>>
        /\ state \notin {"DONE", "ERROR"}
    BY <1>3 DEF AppendInPlace
  <2> QED
    BY <2>1, <2>2, <2>3, Remapped
<1>4. ASSUME NEW n \in 0 .. MaxAppend, AppendRealloc(n) PROVE IInv'
  <2>1. n \in Int /\ TRUE \in BOOLEAN
    BY <1>4, SizesAssumption
  <2>2. /\ start' = start - OldBase /\ end' = (end - OldBase) + n
        /\ org' = org + OldBase /\ fed' = fed + n /\ DoRemap(TRUE, start' - start)
    BY <1>4 DEF AppendRealloc
  <2>3. start' - start = - OldBase
    BY <1>1, <1>2, <2>2
  <2>4. /\ start' = start + (- OldBase) /\ end' \in Int /\ org' = org - (- OldBase)
        /\ fed' = org' + end'
    BY <1>1, <1>2, <2>1, <2>2
  <2>5. DoRemap(TRUE, - OldBase)
    BY <2>2, <2>3
  <2>6. /\ mode' = "APPEND" /\ mode \in {"NONE", mode'}
        /\ UNCHANGED <<file, state, alphaDone, readTo, modes>>
        /\ state \notin {"DONE", "ERROR"}
    BY <1>4 DEF AppendRealloc
  <2> QED
    BY <2>1, <2>4, <2>5, <2>6, Remapped
<1>5. ASSUME NEW n \in 0 .. MaxAppend, AppendNoMemory(n) PROVE IInv'
  BY <1>5, Kept DEF AppendNoMemory
<1>6. ASSUME NEW n \in 1 .. Total, NEW moved \in BOOLEAN, Update(n, moved)
      PROVE  IInv'
  <2>1. CASE n < cap
    BY <1>6, <2>1, Kept DEF Update, api
  <2>2. CASE ~ (n < cap)
    <3>1. n \in Int /\ 0 \in {0, - OldBase} /\ org = 0
      BY <1>6, <2>2 DEF Update, IInv, Window
    <3>2. /\ start' = start + 0 /\ end' \in Int /\ org' = org - 0
          /\ fed' = org' + end'
      BY <1>1, <1>6, <2>2, <3>1 DEF Update
    <3>3. /\ mode' = "MAP" /\ mode \in {"NONE", mode'} /\ DoRemap(moved, 0)
          /\ UNCHANGED <<file, state, alphaDone, readTo, modes>>
          /\ state \notin {"DONE", "ERROR"}
      BY <1>6, <2>2 DEF Update
    <3> QED
      BY <3>1, <3>2, <3>3, Remapped
  <2> QED
    BY <2>1, <2>2
<1> QED
  BY <1>3, <1>4, <1>5, <1>6 DEF Feed

-----------------------------------------------------------------------------
(* The steps of IDecode, and of the row job.                                *)

LEMMA NextQuiet ==
  ASSUME IInv, Control',
         \/ Suspended \/ HeaderFails \/ NewDecoderFails \/ FrameFails
         \/ StarvedError \/ Starved \/ LaunchRow \/ ProcessRowFails
         \/ FrameDecoded \/ ExitCritical \/ Exited \/ DecodeVP8LData
         \/ Delete \/ UNCHANGED vars
  PROVE  IInv'
<1> USE DEF Return, Fail, Decoding, InRow, RowParsed, api, mem, tokens, intra,
            worker
<1>1. mode = "NONE" => pc \in {"idle", "deleted"}
  BY DEF IInv, Window
<1>2. CASE Suspended
  BY <1>1, <1>2, Kept DEF Suspended
<1>3. CASE HeaderFails
  BY <1>1, <1>3, Kept DEF HeaderFails
<1>4. CASE NewDecoderFails
  BY <1>1, <1>4, Kept DEF NewDecoderFails
<1>5. CASE FrameFails
  BY <1>1, <1>5, Kept DEF FrameFails
<1>6. CASE StarvedError
  BY <1>1, <1>6, Kept DEF StarvedError
<1>7. CASE Starved
  BY <1>1, <1>7, Kept DEF Starved
<1>8. CASE LaunchRow
  BY <1>1, <1>8, Kept DEF LaunchRow
<1>9. CASE ProcessRowFails
  BY <1>1, <1>9, Kept DEF ProcessRowFails
<1>10. CASE FrameDecoded
  BY <1>1, <1>10, Kept DEF FrameDecoded
<1>11. CASE ExitCritical
  BY <1>1, <1>11, Kept DEF ExitCritical
<1>12. CASE Exited
  BY <1>1, <1>12, Kept DEF Exited
<1>13. CASE DecodeVP8LData
  BY <1>1, <1>13, Kept DEF DecodeVP8LData
<1>14. CASE Delete
  BY <1>1, <1>14, Kept DEF Delete
<1>15. CASE UNCHANGED vars
  BY <1>1, <1>15, Kept DEF vars
<1> QED
  BY <1>2, <1>3, <1>4, <1>5, <1>6, <1>7, <1>8, <1>9, <1>10, <1>11, <1>12, <1>13,
     <1>14, <1>15

\* FinishRow opens the alpha stream or completes the plane.
LEMMA NextEmitRow ==
  ASSUME IInv, Control', NEW y, EmitRow(y),
         UNCHANGED <<file, state, mem, io, parts, readTo, intra>>, pc' = pc,
         state = "VP8_DATA"
  PROVE  IInv'
<1> USE DEF mem, intra
<1>1. /\ Partitions' = Partitions /\ last_part' = last_part
      /\ \A p : PartAt(p)' = PartAt(p)
  BY PlacesInFile
<1>2. Window' /\ BeforeFrame'
  BY DEF IInv, Window, BeforeFrame, Headers, EmitRow
<1>3. alpha' = alpha /\ alphaBr' \in {alphaBr, NoPtr, Ptr(alpha.i + 1)}
  BY DEF EmitRow
<1>4. InWindow'
  <2>1. alpha.i \in Int
    BY DEF IInv, InWindow, Pointers
  <2>2. NoPtr \in Pointers /\ Ptr(alpha.i + 1) \in Pointers
    BY <2>1 DEF NoPtr, Ptr, Pointers
  <2>3. alphaBr' \in Pointers
    BY <1>3, <2>2 DEF IInv, InWindow
  <2> QED
    BY <1>1, <1>3, <2>3 DEF IInv, InWindow, AlphaAt
<1>5. NeedCompressedAlpha' => NeedCompressedAlpha
  BY <1>3 DEF EmitRow, NeedCompressedAlpha
<1>6. PointersTrackFile'
  <2>1. ASSUME NeedCompressedAlpha'
        PROVE  /\ alpha'.at = "cur" /\ alpha'.i >= 0 /\ org' + alpha'.i = AlphaAt
               /\ alphaBr' # NoPtr =>
                    alphaBr'.at = "cur" /\ org' + alphaBr'.i = AlphaAt + 1
    <3>1. /\ alpha.at = "cur" /\ alpha.i >= 0 /\ org + alpha.i = AlphaAt
          /\ alphaBr # NoPtr => alphaBr.at = "cur" /\ org + alphaBr.i = AlphaAt + 1
          /\ alpha.i \in Int
      BY <1>5, <2>1 DEF IInv, PointersTrackFile, InWindow, Pointers
    <3> QED
      BY <1>3, <3>1 DEF Ptr, AlphaAt, IInv, Window
  <2> QED
    BY <1>1, <2>1 DEF IInv, PointersTrackFile
<1> QED
  BY <1>2, <1>4, <1>6 DEF IInv

LEMMA NextHeaders ==
  ASSUME IInv, Control', DecodeWebPHeaders \/ DecodeVP8FrameHeader \/ DecodeVP8LHeader
  PROVE  IInv'
<1> USE DEF Decoding, tokens, api, mem, alphas, worker, Ptr
<1>1. /\ Partitions' = Partitions /\ last_part' = last_part
      /\ \A p : PartAt(p)' = PartAt(p)
  BY PlacesInFile DEF DecodeWebPHeaders, DecodeVP8FrameHeader, DecodeVP8LHeader
<1>2. file.payload \in Int /\ file.payload > 2
  BY PartsAfterHeaders DEF IInv, Window
<1>3. CASE DecodeWebPHeaders
  <2>1. /\ start = 0 /\ org = 0 /\ alpha = NoPtr /\ alphaBr = NoPtr /\ modes = 0
        /\ mode # "NONE"
    BY <1>3 DEF DecodeWebPHeaders, IInv, BeforeFrame, Headers, Window
  <2>2. Window' /\ BeforeFrame'
    BY <1>2, <1>3, <2>1
    DEF DecodeWebPHeaders, IInv, Window, BeforeFrame, Headers, intra
  <2>3. alpha' \in {NoPtr, Ptr(AlphaAt)}
    BY <1>3, <2>1 DEF DecodeWebPHeaders, AlphaAt
  <2>4. InWindow'
    BY <1>1, <1>3, <2>3
    DEF DecodeWebPHeaders, IInv, InWindow, intra, Pointers, NoPtr, AlphaAt
  <2>5. PointersTrackFile'
    BY <1>2, <1>3, <2>1, <2>3
    DEF DecodeWebPHeaders, IInv, PointersTrackFile, Window, NoPtr, AlphaAt,
        NeedCompressedAlpha
  <2> QED
    BY <2>2, <2>4, <2>5 DEF IInv
<1>4. CASE DecodeVP8FrameHeader
  <2>1. org + start = file.payload /\ ~ file.lossless /\ modes = 0 /\ alphaBr = NoPtr
    BY <1>4 DEF DecodeVP8FrameHeader, IInv, BeforeFrame, Headers
  <2>2. Window' /\ BeforeFrame'
    BY <1>4, <2>1
    DEF DecodeVP8FrameHeader, IInv, Window, BeforeFrame, Headers, intra
  <2>3. InWindow'
    BY <1>1, <1>4 DEF DecodeVP8FrameHeader, IInv, Window, InWindow, intra, AlphaAt
  <2>4. PointersTrackFile'
    BY <1>4, <2>1
    DEF DecodeVP8FrameHeader, IInv, PointersTrackFile, Window, NeedCompressedAlpha,
        AlphaAt, MemDataSize
  <2> QED
    BY <2>2, <2>3, <2>4 DEF IInv
<1>5. CASE DecodeVP8LHeader
  <2>1. /\ org + start = file.payload /\ file.lossless /\ modes = 0 /\ alphaBr = NoPtr
        /\ org + io.i = file.payload
    BY <1>5 DEF DecodeVP8LHeader, IInv, BeforeFrame, Headers, PointersTrackFile
  <2>2. Window' /\ BeforeFrame'
    BY <1>5, <2>1
    DEF DecodeVP8LHeader, IInv, Window, BeforeFrame, Headers
  <2>3. InWindow'
    <3>1. Ptr(io.i) \in Pointers
      BY DEF IInv, InWindow, Pointers
    <3> QED
      BY <1>1, <1>5, <3>1 DEF DecodeVP8LHeader, IInv, InWindow, Pointers, AlphaAt
  <2>4. PointersTrackFile'
    BY <1>5, <2>1
    DEF DecodeVP8LHeader, PointersTrackFile, NeedCompressedAlpha
  <2> QED
    BY <2>2, <2>3, <2>4 DEF IInv
<1> QED
  BY <1>3, <1>4, <1>5

LEMMA NextPartition0 == IInv /\ Control' /\ DecodePartition0 => IInv'
<1> SUFFICES ASSUME IInv, Control', DecodePartition0 PROVE IInv'
  OBVIOUS
<1> USE DEF Decoding, api, alphas, worker, Ptr, Reader
<1>1. /\ Partitions' = Partitions /\ last_part' = last_part
      /\ \A p : PartAt(p)' = PartAt(p)
  BY PlacesInFile DEF DecodePartition0
<1>2. /\ file.payload \in Int /\ file.payload > 2 /\ Part0Size \in Int /\ Part0Size > 2
      /\ \A p \in Nat : PartAt(p) \in Int /\ PartAt(p) >= file.payload + Part0Size
  BY PartsAfterHeaders DEF IInv, Window
<1>3. /\ org + start = file.payload /\ ~ file.lossless /\ modes = 0 /\ alphaBr = NoPtr
      /\ start \in Int /\ org \in Int /\ end \in Int /\ fed = org + end
      /\ mode \in {"APPEND", "MAP"} /\ Partitions \subseteq Nat
  BY DEF DecodePartition0, IInv, BeforeFrame, Headers, Window, Partitions
<1>4. Window' /\ BeforeFrame'
  BY <1>2, <1>3 DEF DecodePartition0, IInv, Window, BeforeFrame, Headers
<1>5. ASSUME NEW p \in Partitions
      PROVE  /\ parts'[p] \in Readers /\ parts'[p].at = "cur"
             /\ parts'[p].i = start + PartAt(p) - file.payload
             /\ parts'[p].e = IF p = last_part THEN end
                              ELSE start + PartAt(p + 1) - file.payload
             /\ readTo'[p] = PartAt(p)
  BY <1>2, <1>3, <1>5 DEF DecodePartition0, Readers
<1>6. InWindow'
  <2>1. /\ parts' \in [Partitions -> Readers] /\ readTo' \in [Partitions -> Int]
        /\ br' \in Pointers
    BY <1>2, <1>3, <1>5 DEF DecodePartition0, Pointers
  <2>2. start' = start + Part0Size - 2
    BY DEF DecodePartition0
  <2>3. ASSUME NEW p \in Partitions
        PROVE  readTo'[p] > AlphaAt /\ parts'[p].i >= start'
    BY <1>2, <1>3, <1>5, <2>2 DEF AlphaAt
  <2> QED
    BY <1>1, <2>1, <2>3 DEF DecodePartition0, IInv, InWindow, AlphaAt
<1>7. PointersTrackFile'
  <2>1. ASSUME NEW p \in Partitions
        PROVE  /\ parts'[p].at = "cur" /\ parts'[p].i >= 0
               /\ org + parts'[p].i = readTo'[p]
               /\ org + parts'[p].e = IF p = last_part THEN fed ELSE PartAt(p + 1)
    <3>1. start >= 0
      BY DEF DecodePartition0, IInv, BeforeFrame, Headers
    <3> QED
      BY <1>2, <1>3, <1>5, <2>1, <3>1
  <2>2. IF mode = "APPEND" THEN br' = [at |-> "part0", i |-> modes]
        ELSE br'.at = "cur" /\ org + br'.i = file.payload + 2 + modes
    BY <1>2, <1>3 DEF DecodePartition0
  <2> QED
    BY <1>1, <1>3, <2>1, <2>2
    DEF DecodePartition0, PointersTrackFile, NeedCompressedAlpha, IInv
<1> QED
  BY <1>4, <1>6, <1>7 DEF IInv

LEMMA NextParseIntraModes == IInv /\ Control' /\ ParseIntraModes => IInv'
<1> SUFFICES ASSUME IInv, Control', ParseIntraModes PROVE IInv'
  OBVIOUS
<1> USE DEF Decoding, api, mem, alphas, tokens, worker
<1>1. /\ Partitions' = Partitions /\ last_part' = last_part
      /\ \A p : PartAt(p)' = PartAt(p)
  BY PlacesInFile DEF ParseIntraModes
<1>2. state = "VP8_DATA" /\ modes \in Int /\ modes' = modes + 1
  BY DEF ParseIntraModes, IInv, Control, Rows, ModesParsedOnce
<1>3. br \in Pointers /\ br' = [at |-> br.at, i |-> br.i + 1] /\ file.payload \in Int
  BY PartsAfterHeaders DEF ParseIntraModes, IInv, InWindow, Window
<1>4. Window' /\ BeforeFrame'
  BY <1>2 DEF ParseIntraModes, IInv, Window, BeforeFrame, Headers
<1>5. InWindow'
  BY <1>1, <1>3 DEF ParseIntraModes, IInv, InWindow, Pointers, AlphaAt
<1>6. IF mode = "APPEND" THEN br' = [at |-> "part0", i |-> modes']
      ELSE br'.at = "cur" /\ org + br'.i = file.payload + 2 + modes'
  BY <1>2, <1>3 DEF IInv, PointersTrackFile, Window, Pointers
<1>7. PointersTrackFile'
  BY <1>1, <1>2, <1>6
  DEF ParseIntraModes, IInv, PointersTrackFile, NeedCompressedAlpha, AlphaAt
<1> QED
  BY <1>4, <1>5, <1>7 DEF IInv

LEMMA NextDecodeMB == IInv /\ Control' /\ DecodeMB => IInv'
<1> SUFFICES ASSUME IInv, Control', DecodeMB PROVE IInv'
  OBVIOUS
<1> USE DEF Decoding, InRow, api, intra, alphas, worker
<1> DEFINE p == PartOf(mb_y)
<1>1. /\ Partitions' = Partitions /\ last_part' = last_part
      /\ \A q : PartAt(q)' = PartAt(q)
  BY PlacesInFile DEF DecodeMB
<1>2. state = "VP8_DATA" /\ MbSize \in Nat
  BY SizesAssumption DEF DecodeMB
<1>3. p \in Partitions /\ (last_part = 0 => Partitions = {p})
  <2>1. file.parts \in Nat /\ file.parts > 0 /\ mb_y \in Nat
    BY FilesAssumption DEF IInv, Window, IsFile, Control, Rows
  <2>2. p \in 0 .. file.parts - 1
    BY <2>1 DEF PartOf
  <2> QED
    BY <2>1, <2>2 DEF Partitions, last_part
<1> HIDE DEF p
<1>4. /\ parts[p] \in Readers /\ parts[p].at = "cur" /\ parts[p].i >= start
      /\ parts[p].i \in Int /\ parts[p].e \in Int /\ parts[p].i >= 0
      /\ readTo[p] > AlphaAt /\ readTo[p] \in Int /\ org + parts[p].i = readTo[p]
  BY <1>2, <1>3 DEF IInv, InWindow, PointersTrackFile, Readers
<1>5. /\ parts' = [parts EXCEPT ![p] = Reader(parts[p].i + MbSize, parts[p].e)]
      /\ readTo' = [readTo EXCEPT ![p] = readTo[p] + MbSize]
      /\ start' = IF last_part = 0 THEN parts'[p].i ELSE start
  BY DEF DecodeMB, p
<1>6. /\ parts'[p].at = "cur" /\ parts'[p].i = parts[p].i + MbSize
      /\ parts'[p].e = parts[p].e /\ readTo'[p] = readTo[p] + MbSize
      /\ \A q \in Partitions \ {p} : parts'[q] = parts[q] /\ readTo'[q] = readTo[q]
  BY <1>3, <1>5 DEF Reader, IInv, InWindow
<1>7. Window' /\ BeforeFrame'
  BY <1>2, <1>4, <1>5, <1>6 DEF DecodeMB, IInv, Window, BeforeFrame, Headers
<1>8. InWindow'
  <2>1. Reader(parts[p].i + MbSize, parts[p].e) \in Readers
    BY <1>2, <1>4 DEF Reader, Readers
  <2>2. parts' \in [Partitions -> Readers] /\ readTo' \in [Partitions -> Int]
    BY <1>2, <1>3, <1>4, <1>5, <2>1 DEF IInv, InWindow
  <2>3. ASSUME NEW q \in Partitions
        PROVE  readTo'[q] > AlphaAt /\ parts'[q].i >= start'
    <3>1. CASE q = p
      BY <1>2, <1>4, <1>5, <1>6, <3>1 DEF IInv, Window, AlphaAt
    <3>2. CASE q # p
      BY <1>2, <1>3, <1>5, <1>6, <3>2 DEF IInv, InWindow
    <3> QED
      BY <3>1, <3>2
  <2> QED
    BY <1>1, <2>2, <2>3 DEF DecodeMB, IInv, InWindow, AlphaAt
<1>9. PointersTrackFile'
  <2>1. ASSUME NEW q \in Partitions
        PROVE  /\ parts'[q].at = "cur" /\ parts'[q].i >= 0
               /\ org + parts'[q].i = readTo'[q]
               /\ org + parts'[q].e = IF q = last_part THEN fed ELSE PartAt(q + 1)
    <3>1. CASE q = p
      BY <1>2, <1>3, <1>4, <1>6, <3>1 DEF IInv, PointersTrackFile, Window
    <3>2. CASE q # p
      BY <1>2, <1>6, <3>2 DEF IInv, PointersTrackFile
    <3> QED
      BY <3>1, <3>2
  <2> QED
    BY <1>1, <1>2, <2>1
    DEF DecodeMB, IInv, PointersTrackFile, NeedCompressedAlpha, AlphaAt
<1> QED
  BY <1>7, <1>8, <1>9 DEF IInv

LEMMA NextIInv == IInv /\ [Next]_vars => IInv'
<1> SUFFICES ASSUME IInv, [Next]_vars PROVE IInv'
  OBVIOUS
<1>1. Control'
  BY NextControl DEF IInv
<1>2. CASE Feed
  BY <1>1, <1>2, NextFeed
<1>3. CASE ParseIntraModes \/ DecodeMB \/ DecodePartition0
  BY <1>1, <1>3, NextParseIntraModes, NextDecodeMB, NextPartition0
<1>4. CASE DecodeWebPHeaders \/ DecodeVP8FrameHeader \/ DecodeVP8LHeader
  BY <1>1, <1>4, NextHeaders
<1>5. CASE ProcessRowInline
  BY <1>1, <1>5, NextEmitRow
  DEF ProcessRowInline, RowParsed, InRow, Decoding, api
<1>6. CASE JobEnds
  <2>1. CASE EmitRow(job)
    BY <1>1, <1>6, <2>1, NextEmitRow
    DEF JobEnds, api, tokens, IInv, Control, JobInCall
  <2>2. CASE ~ EmitRow(job)
    BY <1>1, <1>6, <2>2, Kept DEF JobEnds, api, mem, tokens, intra, IInv, Window
  <2> QED
    BY <2>1, <2>2
<1>7. CASE \/ Suspended \/ HeaderFails \/ NewDecoderFails \/ FrameFails
           \/ StarvedError \/ Starved \/ LaunchRow \/ ProcessRowFails
           \/ FrameDecoded \/ ExitCritical \/ Exited \/ DecodeVP8LData
           \/ Delete \/ UNCHANGED vars
  BY <1>1, <1>7, NextQuiet
<1> QED
  BY <1>2, <1>3, <1>4, <1>5, <1>6, <1>7 DEF Next, DecodeSteps, Deleted

-----------------------------------------------------------------------------
(* What the decoder relies on.                                              *)

LEMMA Invariance == SafeSpec => []IInv
BY InitIInv, NextIInv, PTL DEF SafeSpec

\* Whichever way a file is fed, and wherever the buffer moves or slides to, each
\* pointer kept between two calls points into the present buffer, at the unit of
\* the file it should (DoRemap in idec_dec.c).
THEOREM PointersOnFile == SafeSpec => []PointersTrackFile
<1>1. IInv => PointersTrackFile
  BY DEF IInv
<1> QED
  BY <1>1, Invariance, PTL

\* A row that is left for lack of data and resumed by a later call has its intra
\* modes parsed once (last_mb_y_ in DecodeRemaining).
THEOREM IntraModesOnce == SafeSpec => []ModesParsedOnce
<1>1. IInv => ModesParsedOnce
  BY DEF IInv, Control, Rows
<1> QED
  BY <1>1, Invariance, PTL

\* No row job runs while the user may free or move the data it reads: each way
\* out of IDecode syncs the worker first.
THEOREM NoJobBetweenCalls == SafeSpec => []WorkerIdleBetweenCalls
<1>1. IInv => WorkerIdleBetweenCalls
  BY DEF IInv, Control, JobInCall, WorkerIdleBetweenCalls
<1> QED
  BY <1>1, Invariance, PTL

-----------------------------------------------------------------------------
(* The callbacks follow FrameOutput.                                        *)

\* Rows emitted, and the row in flight, are the rows that were parsed, unless an
\* error was reported.
RowsCounted ==
  /\ rows \in Nat /\ mb_y \in 0 .. file.rows
  /\ Idle => rows <= mb_y /\ (hadError \/ rows = mb_y)
  /\ ~ Idle => rows < mb_y /\ (hadError \/ rows + 1 = mb_y)

\* Main is in VP8ExitCritical or back from it; OK means that all rows were parsed.
Exits ==
  /\ pc \in {"exit", "exited"} => state = "VP8_DATA" /\ (ret = "OK" => mb_y = file.rows)
  /\ pc = "exited" => Idle
  /\ state \in {"DONE", "ERROR"} => pc \in {"idle", "deleted"}

PhaseOfState ==
  /\ file.lossless \/ state \in Headers => phase = "new"
  /\ state = "VP8_DATA" =>
       phase = IF pc \in {"exited", "deleted"} THEN "closed" ELSE "open"

OInv == IInv /\ RowsCounted /\ Exits /\ PhaseOfState

LEMMA InitOInv == Init => OInv
<1> SUFFICES ASSUME Init PROVE OInv
  OBVIOUS
<1>1. IInv
  BY InitIInv
<1>2. file.rows \in Nat
  BY FilesAssumption DEF Init, IsFile
<1> QED
  BY <1>1, <1>2 DEF OInv, RowsCounted, Exits, PhaseOfState, Init, Idle, Headers

LEMMA NextOInv == OInv /\ [Next]_vars => OInv'
<1> SUFFICES ASSUME OInv, [Next]_vars PROVE OInv'
  OBVIOUS
<1>1. IInv'
  BY NextIInv DEF OInv
<1>2. /\ Places /\ JobInCall /\ BeforeFrame /\ file.rows \in Nat
  BY FilesAssumption DEF OInv, IInv, Control, Window, IsFile
<1>3. RowsCounted /\ Exits /\ PhaseOfState
  BY DEF OInv
<1> USE DEF Places, Headers, JobInCall, BeforeFrame, Idle, RowsCounted, Exits,
            PhaseOfState, Return, Fail, Decoding, InRow, RowParsed,
            api, mem, alphas, tokens, intra, worker
<1>4. CASE Feed
  <2>1. ASSUME NEW n \in 0 .. MaxAppend, AppendInPlace(n)
        PROVE  (RowsCounted /\ Exits /\ PhaseOfState)'
    BY <1>2, <1>3, <2>1 DEF AppendInPlace, MayFeed
  <2>2. ASSUME NEW n \in 0 .. MaxAppend, AppendRealloc(n)
        PROVE  (RowsCounted /\ Exits /\ PhaseOfState)'
    BY <1>2, <1>3, <2>2 DEF AppendRealloc, MayFeed
  <2>3. ASSUME NEW n \in 0 .. MaxAppend, AppendNoMemory(n)
        PROVE  (RowsCounted /\ Exits /\ PhaseOfState)'
    BY <1>2, <1>3, <2>3 DEF AppendNoMemory, MayFeed
  <2>4. ASSUME NEW n \in 1 .. Total, NEW moved \in BOOLEAN, Update(n, moved)
        PROVE  (RowsCounted /\ Exits /\ PhaseOfState)'
    BY <1>2, <1>3, <2>4 DEF Update, MayFeed
  <2> QED  BY <1>1, <1>4, <2>1, <2>2, <2>3, <2>4 DEF Feed, OInv
<1>5. CASE Suspended \/ HeaderFails \/ NewDecoderFails
  BY <1>1, <1>2, <1>3, <1>5 DEF Suspended, HeaderFails, NewDecoderFails, OInv
<1>6. CASE DecodeWebPHeaders \/ DecodeVP8FrameHeader \/ DecodePartition0
  BY <1>1, <1>2, <1>3, <1>6
  DEF DecodeWebPHeaders, DecodeVP8FrameHeader, DecodePartition0, OInv
<1>7. CASE FrameFails \/ ParseIntraModes \/ DecodeMB
  BY <1>1, <1>2, <1>3, <1>7 DEF FrameFails, ParseIntraModes, DecodeMB, OInv
<1>8. CASE StarvedError \/ Starved
  BY <1>1, <1>2, <1>3, <1>8 DEF StarvedError, Starved, OInv
<1>9. CASE LaunchRow
  BY <1>1, <1>2, <1>3, <1>9 DEF LaunchRow, OInv
<1>10. CASE ProcessRowInline
  BY <1>1, <1>2, <1>3, <1>10 DEF ProcessRowInline, EmitRow, OInv
<1>11. CASE ProcessRowFails \/ FrameDecoded
  BY <1>1, <1>2, <1>3, <1>11 DEF ProcessRowFails, FrameDecoded, OInv
<1>12. CASE ExitCritical \/ Exited
  BY <1>1, <1>2, <1>3, <1>12 DEF ExitCritical, Exited, Teardown, OInv
<1>13. CASE DecodeVP8LHeader \/ DecodeVP8LData
  BY <1>1, <1>2, <1>3, <1>13 DEF DecodeVP8LHeader, DecodeVP8LData, OInv
<1>14. CASE JobEnds
  <2>1. /\ job' = -1 /\ ~ Idle /\ UNCHANGED <<file, pc, ret, state, mb_y, phase>>
        /\ \/ rows' = rows + 1 /\ hadError' = hadError
           \/ rows' = rows /\ hadError' = TRUE
    BY <1>14 DEF JobEnds, EmitRow
  <2>2. RowsCounted'
    BY <1>2, <1>3, <2>1
  <2>3. Exits' /\ PhaseOfState'
    BY <1>2, <1>3, <2>1
  <2> QED
    BY <1>1, <2>2, <2>3 DEF OInv
<1>15. CASE Delete \/ UNCHANGED vars
  BY <1>1, <1>2, <1>3, <1>15 DEF Delete, vars, OInv
<1> QED
  BY <1>4, <1>5, <1>6, <1>7, <1>8, <1>9, <1>10, <1>11, <1>12, <1>13, <1>14, <1>15
  DEF Next, DecodeSteps, Deleted

LEMMA OutputInvariance == SafeSpec => []OInv
BY InitOInv, NextOInv, PTL DEF SafeSpec

\* setup() is called once, put() for every row in order, and teardown() once, also
\* when a call is suspended, fails, or the decoder is deleted between two calls.
THEOREM KeepsProtocol == SafeSpec => ImplementsFrameOutput
<1>1. Init => Protocol!Init
  <2> SUFFICES ASSUME Init PROVE Protocol!Init
    OBVIOUS
  <2>1. file.rows \in Nat
    BY FilesAssumption DEF Init, IsFile
  <2> QED
    BY <2>1 DEF Init, Protocol!Init
<1>2. OInv /\ [Next]_vars => [Protocol!Next]_Protocol!vars
  <2> SUFFICES ASSUME OInv, [Next]_vars PROVE [Protocol!Next]_Protocol!vars
    OBVIOUS
  <2>1. /\ Places /\ JobInCall /\ BeforeFrame /\ file.rows \in Nat
        /\ RowsCounted /\ Exits /\ PhaseOfState
    BY FilesAssumption DEF OInv, IInv, Control, Window, IsFile
  <2> USE DEF Protocol!vars, Protocol!Next, Places, Headers, BeforeFrame, Idle,
              PhaseOfState, Return, Decoding, api, worker
  <2>2. CASE HeaderFails
    BY <2>1, <2>2 DEF HeaderFails, Fail, Protocol!SetupFails
  <2>3. CASE DecodePartition0
    BY <2>1, <2>3 DEF DecodePartition0, Protocol!Setup
  <2>4. ASSUME NEW y, EmitRow(y), UNCHANGED <<file, state, phase>>,
               state = "VP8_DATA", phase = "open", rows < file.rows
        PROVE  Protocol!Next
    <3>1. Protocol!Put(1)
      BY <2>1, <2>4 DEF EmitRow, RowsCounted, Protocol!Put
    <3>2. 1 \in 1 .. file.rows
      BY <2>1, <2>4 DEF RowsCounted
    <3> QED
      BY <3>1, <3>2
  <2>5. CASE ProcessRowInline
    <3>1. rows < file.rows /\ phase = "open"
      BY <2>1, <2>5 DEF ProcessRowInline, RowParsed, InRow, RowsCounted, JobInCall
    <3> QED
      BY <2>4, <2>5, <3>1 DEF ProcessRowInline, RowParsed, InRow
  <2>6. CASE JobEnds
    <3>1. rows < file.rows /\ phase = "open" /\ state = "VP8_DATA"
      BY <2>1, <2>6 DEF JobEnds, RowsCounted, JobInCall
    <3>2. CASE EmitRow(job)
      BY <2>4, <2>6, <3>1, <3>2 DEF JobEnds
    <3>3. CASE ~ EmitRow(job)
      BY <2>6, <3>3 DEF JobEnds
    <3> QED
      BY <3>2, <3>3
  <2>7. CASE ExitCritical
    BY <2>1, <2>7 DEF ExitCritical, Teardown, Exits, Protocol!Teardown
  <2>8. CASE Exited
    <3>1. /\ phase = "closed" /\ state = "VP8_DATA" /\ ~ file.lossless
          /\ UNCHANGED <<file, phase, rows>>
      BY <2>1, <2>8 DEF Exited, Exits
    <3>2. CASE state' = "DONE"
      <4>1. rows = file.rows
        BY <2>1, <2>8, <3>2 DEF Exited, Exits, RowsCounted
      <4>2. Protocol!Return("ok")
        BY <2>1, <3>1, <3>2, <4>1 DEF Protocol!Return
      <4> QED
        BY <4>2
    <3>3. CASE state' = "ERROR"
      <4>1. Protocol!Return("failed")
        BY <2>1, <3>1, <3>3 DEF Protocol!Return
      <4> QED
        BY <4>1
    <3> QED
      BY <2>8, <3>2, <3>3 DEF Exited
  <2>9. CASE Delete
    BY <2>1, <2>9 DEF Delete, Exits, Protocol!Teardown
  <2>10. CASE DecodeVP8LData
    BY <2>1, <2>10 DEF DecodeVP8LData
  <2>11. ASSUME UNCHANGED <<file, phase, rows>>,
                state' = state \/ {state, state'} \cap {"DONE", "ERROR"} = {}
         PROVE  UNCHANGED Protocol!vars
    BY <2>11
  <2>12. CASE Feed
    BY <2>11, <2>12
    DEF Feed, AppendInPlace, AppendRealloc, AppendNoMemory, Update
  <2>13. CASE \/ Suspended \/ NewDecoderFails \/ DecodeWebPHeaders
              \/ DecodeVP8FrameHeader \/ DecodeVP8LHeader
    BY <2>11, <2>13
    DEF Suspended, NewDecoderFails, DecodeWebPHeaders, DecodeVP8FrameHeader,
        DecodeVP8LHeader
  <2>14. CASE FrameFails \/ StarvedError \/ Starved \/ ProcessRowFails
    BY <2>11, <2>14
    DEF FrameFails, StarvedError, Starved, ProcessRowFails, Fail, InRow, RowParsed
  <2>15. CASE ParseIntraModes \/ DecodeMB \/ LaunchRow \/ FrameDecoded
    BY <2>11, <2>15 DEF ParseIntraModes, DecodeMB, LaunchRow, FrameDecoded
  <2>16. CASE UNCHANGED vars
    BY <2>11, <2>16 DEF vars
  <2> QED
    BY <2>2, <2>3, <2>5, <2>6, <2>7, <2>8, <2>9, <2>10, <2>12, <2>13, <2>14, <2>15,
       <2>16 DEF Next, DecodeSteps, Deleted
<1> QED
  BY <1>1, <1>2, OutputInvariance, PTL
  DEF SafeSpec, ImplementsFrameOutput, Protocol!SafeSpec

-----------------------------------------------------------------------------
(* A valid file, and all of it: the decoder neither fails nor waits.        *)

\* Of the rows below n, those of partition p out of k, and those of the ones before.
RowsOf(k, p, n)   == Cardinality({ y \in 0 .. n - 1 : y % k = p })
RowsUpTo(k, p, n) == Cardinality({ y \in 0 .. n - 1 : y % k < p })

LEMMA FiniteRows ==
  ASSUME NEW n \in Nat, NEW S, S \subseteq 0 .. n - 1
  PROVE  IsFiniteSet(S) /\ Cardinality(S) \in Nat
<1>1. IsFiniteSet(0 .. n - 1)
  <2>1. 0 \in Int /\ n - 1 \in Int
    OBVIOUS
  <2> QED
    BY <2>1, FS_Interval
<1> QED
  BY <1>1, FS_Subset, FS_CardinalityType

\* One more row is one more of the partition whose turn it is.
Turn(k, p, n) == IF n % k = p THEN 1 ELSE 0

LEMMA RowsGrow ==
  ASSUME NEW k \in Nat, k > 0, NEW p \in Nat, NEW n \in Nat
  PROVE  /\ RowsOf(k, p, n) \in Nat /\ RowsUpTo(k, p, n) \in Nat
         /\ RowsOf(k, p, 0) = 0 /\ RowsUpTo(k, 0, n) = 0
         /\ RowsOf(k, p, n + 1) = RowsOf(k, p, n) + Turn(k, p, n)
<1> DEFINE S == { y \in 0 .. n - 1 : y % k = p }
           T == { y \in 0 .. (n + 1) - 1 : y % k = p }
           U == { y \in 0 .. n - 1 : y % k < p }
<1>1. IsFiniteSet(S) /\ Cardinality(S) \in Nat /\ Cardinality(U) \in Nat
  <2>1. S \subseteq 0 .. n - 1 /\ U \subseteq 0 .. n - 1
    OBVIOUS
  <2> HIDE DEF S, U
  <2> QED
    BY <2>1, FiniteRows
<1>2. { y \in 0 .. 0 - 1 : y % k = p } = {} /\ { y \in 0 .. n - 1 : y % k < 0 } = {}
  OBVIOUS
<1>3. T = (IF n % k = p THEN S \cup {n} ELSE S) /\ n \notin S
  <2>1. \A y : y \in 0 .. (n + 1) - 1 <=> y \in 0 .. n - 1 \/ y = n
    OBVIOUS
  <2> QED
    BY <2>1
<1>4. Cardinality(T) = Cardinality(S) + (IF n % k = p THEN 1 ELSE 0)
  <2> HIDE DEF S, T
  <2>1. Cardinality(S \cup {n}) = Cardinality(S) + 1
    BY <1>1, <1>3, FS_AddElement
  <2> QED
    BY <1>1, <1>3, <2>1
<1> QED
  BY <1>1, <1>2, <1>4, FS_EmptySet DEF RowsOf, RowsUpTo, Turn

\* A row still to come is not counted yet.
LEMMA RowsLeft ==
  ASSUME NEW k \in Nat, k > 0, NEW n \in Nat, NEW m \in 0 .. n - 1
  PROVE  RowsOf(k, m % k, m) + 1 <= RowsOf(k, m % k, n)
<1> DEFINE p == m % k
           S == { y \in 0 .. (m + 1) - 1 : y % k = p }
           T == { y \in 0 .. n - 1 : y % k = p }
<1>1. m \in Nat /\ p \in Nat
  OBVIOUS
<1>2. S \subseteq T /\ T \subseteq 0 .. n - 1
  OBVIOUS
<1>3. Cardinality(S) <= Cardinality(T)
  <2> HIDE DEF S, T
  <2> QED
    BY <1>2, FiniteRows, FS_Subset
<1>4. RowsOf(k, p, m + 1) = RowsOf(k, p, m) + 1 /\ RowsOf(k, p, m) \in Nat
  <2> HIDE DEF p
  <2>1. m % k = p
    BY DEF p
  <2> QED
    BY <1>1, <2>1, RowsGrow DEF Turn
<1> QED
  BY <1>3, <1>4 DEF RowsOf

LEMMA RowsAdd ==
  ASSUME NEW k \in Nat, k > 0, NEW p \in Nat, NEW n \in Nat
  PROVE  RowsUpTo(k, p + 1, n) = RowsUpTo(k, p, n) + RowsOf(k, p, n)
<1> DEFINE S == { y \in 0 .. n - 1 : y % k = p }
           T == { y \in 0 .. n - 1 : y % k < p }
           U == { y \in 0 .. n - 1 : y % k < p + 1 }
<1>1. IsFiniteSet(S) /\ IsFiniteSet(T)
  <2>1. S \subseteq 0 .. n - 1 /\ T \subseteq 0 .. n - 1
    OBVIOUS
  <2> HIDE DEF S, T
  <2> QED
    BY <2>1, FiniteRows
<1>2. U = T \cup S /\ T \cap S = {}
  <2>1. \A y \in 0 .. n - 1 : y % k \in Int
    OBVIOUS
  <2> QED
    BY <2>1
<1>3. Cardinality(U) = Cardinality(T) + Cardinality(S)
  <2>1. Cardinality(T \cup S) = Cardinality(T) + Cardinality(S) - Cardinality(T \cap S)
    <3> HIDE DEF S, T
    <3> QED
      BY <1>1, FS_Union
  <2>2. Cardinality(T \cap S) = 0
    BY <1>2, FS_EmptySet
  <2>3. Cardinality(T) \in Nat /\ Cardinality(S) \in Nat
    BY <1>1, FS_CardinalityType
  <2> HIDE DEF S, T, U
  <2> QED
    BY <1>2, <2>1, <2>2, <2>3
<1> QED
  BY <1>3 DEF RowsOf, RowsUpTo

\* The units of a row of macroblocks.
RowSize == file.width * MbSize

LEMMA SizesOfFile ==
  ASSUME file \in Files
  PROVE  /\ RowSize \in Nat /\ MbSize \in Nat /\ MbSize > 0 /\ MaxMbSize >= MbSize + 2
         /\ MaxMbSize \in Nat
         /\ file.rows \in Nat /\ file.width \in Nat /\ file.parts \in Nat
         /\ file.width > 0 /\ file.parts > 0 /\ file.payload \in Nat /\ file.payload > 2
         /\ PartsAt \in Nat /\ PartsAt = file.payload + 2 + file.rows + last_part
         /\ last_part \in Nat /\ last_part + 1 = file.parts
         /\ \A n \in Nat : RowSize * n \in Nat /\ RowSize * (n + 1) = RowSize * n + RowSize
         /\ \A m, n \in Nat : m + 1 <= n => RowSize * m + RowSize <= RowSize * n
<1>1. /\ MbSize \in Nat /\ MbSize > 0 /\ MaxMbSize >= MbSize + 2 /\ MaxMbSize \in Nat
      /\ file.rows \in Nat /\ file.width \in Nat /\ file.parts \in Nat
      /\ file.width > 0 /\ file.parts > 0 /\ file.payload \in Nat /\ file.payload > 2
  BY FilesAssumption, SizesAssumption, MaxMbAssumption DEF IsFile
<1>2. RowSize \in Nat
  BY <1>1 DEF RowSize
<1>3. ASSUME NEW n \in Nat
      PROVE  RowSize * n \in Nat /\ RowSize * (n + 1) = RowSize * n + RowSize
  BY <1>2
<1>4. ASSUME NEW m \in Nat, NEW n \in Nat, m + 1 <= n
      PROVE  RowSize * m + RowSize <= RowSize * n
  <2>1. PICK d \in Nat : n = (m + 1) + d
    <3>1. n - (m + 1) \in Nat /\ n = (m + 1) + (n - (m + 1))
      BY <1>4
    <3> QED
      BY <3>1
  <2>2. RowSize * n = RowSize * (m + 1) + RowSize * d /\ RowSize * d \in Nat
    BY <1>2, <2>1
  <2> QED
    BY <1>3, <2>2
<1> QED
  BY <1>1, <1>2, <1>3, <1>4 DEF PartsAt, Part0Size, last_part

\* Where partition p starts; it ends where the next one does.
LEMMA PartitionSize ==
  ASSUME file \in Files, NEW p \in Nat
  PROVE  /\ PartAt(p) = PartsAt + p + RowSize * RowsUpTo(file.parts, p, file.rows)
         /\ PartAt(p) \in Nat
         /\ PartAt(p + 1) = PartAt(p) + 1 + RowSize * RowsOf(file.parts, p, file.rows)
<1>1. \A q : PartAt(q) = PartsAt + q + RowSize * RowsUpTo(file.parts, q, file.rows)
  BY DEF PartAt, RowSize, RowsUpTo, PartOf
<1>2. /\ RowsUpTo(file.parts, p, file.rows) \in Nat
      /\ RowsOf(file.parts, p, file.rows) \in Nat
      /\ RowsUpTo(file.parts, p + 1, file.rows)
           = RowsUpTo(file.parts, p, file.rows) + RowsOf(file.parts, p, file.rows)
  <2>1. file.parts \in Nat /\ file.parts > 0 /\ file.rows \in Nat
    BY SizesOfFile
  <2> QED
    BY <2>1, RowsGrow, RowsAdd
<1>3. RowSize \in Nat /\ PartsAt \in Nat
  BY SizesOfFile
<1>4. RowSize * RowsUpTo(file.parts, p + 1, file.rows)
        = RowSize * RowsUpTo(file.parts, p, file.rows)
            + RowSize * RowsOf(file.parts, p, file.rows)
      /\ RowSize * RowsUpTo(file.parts, p, file.rows) \in Nat
      /\ RowSize * RowsOf(file.parts, p, file.rows) \in Nat
  BY <1>2, <1>3
<1>5. PartAt(p) = PartsAt + p + RowSize * RowsUpTo(file.parts, p, file.rows)
      /\ PartAt(p + 1)
           = PartsAt + (p + 1) + RowSize * RowsUpTo(file.parts, p + 1, file.rows)
  BY <1>1
<1> QED
  BY <1>3, <1>4, <1>5

\* What has been read of each partition, and what start_ has not released yet.
UnitsRead ==
  /\ mb_x \in 0 .. file.width
  /\ state \in Headers => mb_x = 0
  /\ state = "VP8_DATA" =>
       \A p \in Partitions :
         readTo[p] = PartAt(p) + RowSize * RowsOf(file.parts, p, mb_y)
                       + (IF mb_y < file.rows /\ PartOf(mb_y) = p THEN mb_x * MbSize ELSE 0)
  /\ state = "VP8_DATA" /\ last_part = 0 => parts[0].i <= start + 2

\* Nothing but the file or the system makes a call fail, or a call made with all of
\* the file return for lack of data.
Fine ==
  /\ hadError => injected
  /\ ~ injected /\ ~ file.bad =>
       /\ state # "ERROR"
       /\ pc \in {"exit", "exited"} => ret = "OK"
       /\ pc = "idle" /\ ret = "SUSPENDED" => fed # Total

VInv == OInv /\ UnitsRead /\ Fine

LEMMA InitVInv == Init => VInv
<1> SUFFICES ASSUME Init PROVE VInv
  OBVIOUS
<1>1. OInv /\ file \in Files
  BY InitOInv DEF Init
<1>2. file.width \in Nat
  BY <1>1, SizesOfFile
<1>3. UnitsRead
  BY <1>2 DEF Init, UnitsRead
<1>4. Total # 0
  <2>1. file.parts \in Nat /\ file.payload \in Nat /\ RowSize \in Nat /\ PartsAt \in Nat
        /\ PartsAt > 0
    <3>1. /\ file.parts \in Nat /\ file.payload \in Nat /\ RowSize \in Nat
          /\ PartsAt \in Nat /\ PartsAt = file.payload + 2 + file.rows + last_part
          /\ file.rows \in Nat /\ last_part \in Nat
      BY <1>1, SizesOfFile
    <3> QED
      BY <3>1
  <2>2. PartAt(file.parts) > 0 /\ PartAt(file.parts) \in Nat
    <3>1. file.parts > 0 /\ file.rows \in Nat
      BY <1>1, SizesOfFile
    <3>2. RowsUpTo(file.parts, file.parts, file.rows) \in Nat
      BY <2>1, <3>1, RowsGrow
    <3>3. RowSize * RowsUpTo(file.parts, file.parts, file.rows) \in Nat
      BY <2>1, <3>2
    <3> QED
      BY <1>1, <2>1, <3>3, PartitionSize
  <2> QED
    BY <2>1, <2>2 DEF Total
<1> QED
  BY <1>1, <1>3, <1>4 DEF VInv, Fine, Init

\* A step that reads no token and keeps the buffer.
LEMMA UnitsKept ==
  ASSUME VInv, UNCHANGED <<file, mb_x>>,
         state' = "VP8_DATA" =>
           state = "VP8_DATA" /\ UNCHANGED <<mb_y, readTo, parts, start>>,
         state' \in Headers => state \in Headers
  PROVE  UnitsRead'
<1>1. /\ Partitions' = Partitions /\ last_part' = last_part
      /\ \A p : PartAt(p)' = PartAt(p)
  BY PlacesInFile
<1>2. RowSize' = RowSize /\ \A y : PartOf(y)' = PartOf(y)
  BY DEF RowSize, PartOf
<1> QED
  BY <1>1, <1>2 DEF VInv, UnitsRead, Headers, PartOf

\* Sliding the buffer moves the reader with what is released before it.
LEMMA FeedUnits == VInv /\ Feed => UnitsRead'
<1> SUFFICES ASSUME VInv, Feed PROVE UnitsRead'
  OBVIOUS
<1> USE DEF tokens, intra, alphas
<1>1. /\ UNCHANGED <<file, mb_x, mb_y, readTo, state>> /\ IInv
      /\ start \in Int /\ end \in Int
  BY DEF Feed, AppendInPlace, AppendRealloc, AppendNoMemory, Update, VInv, OInv, IInv,
         Window
<1>2. ASSUME state = "VP8_DATA", last_part = 0 PROVE parts'[0].i <= start' + 2
  <2>1. 0 \in Partitions
    BY <1>2 DEF Partitions
  <2>2. parts[0].i <= start + 2 /\ parts[0].i \in Int
    BY <1>1, <1>2, <2>1 DEF VInv, UnitsRead, IInv, InWindow, Readers
  <2>3. ASSUME NEW moved \in BOOLEAN, NEW d \in Int, DoRemap(moved, d), end' \in Int,
               start' = start + d
        PROVE  parts'[0].i <= start' + 2
    <3>1. parts'[0].i = parts[0].i + d
      BY <1>1, <1>2, <2>1, <2>3, ShiftedParts
    <3> QED
      BY <1>1, <2>2, <2>3, <3>1
  <2>4. ASSUME NEW n \in 0 .. MaxAppend, AppendInPlace(n)
        PROVE  parts'[0].i <= start' + 2
    <3>1. n \in Int
      BY SizesAssumption
    <3>2. end' = end + n /\ start' = start /\ DoRemap(FALSE, 0)
      BY <2>4 DEF AppendInPlace
    <3>3. end' \in Int /\ start' = start + 0 /\ FALSE \in BOOLEAN /\ 0 \in Int
      BY <1>1, <3>1, <3>2
    <3> QED
      BY <2>3, <3>2, <3>3
  <2>5. ASSUME NEW n \in 0 .. MaxAppend, AppendRealloc(n)
        PROVE  parts'[0].i <= start' + 2
    <3>1. n \in Int
      BY SizesAssumption
    <3>2. OldBase \in Int
      BY <1>1 DEF IInv, Window, InWindow, Pointers, OldBase
    <3>3. start' = start - OldBase /\ end' = (end - OldBase) + n
          /\ DoRemap(TRUE, start' - start)
      BY <2>5 DEF AppendRealloc
    <3>4. end' \in Int /\ start' - start \in Int /\ start' = start + (start' - start)
      BY <1>1, <3>1, <3>2, <3>3
    <3> QED
      BY <2>3, <3>3, <3>4
  <2>6. ASSUME NEW n \in 0 .. MaxAppend, AppendNoMemory(n)
        PROVE  parts'[0].i <= start' + 2
    BY <2>2, <2>6 DEF AppendNoMemory
  <2>7. ASSUME NEW n \in 1 .. Total, NEW moved \in BOOLEAN, Update(n, moved)
        PROVE  parts'[0].i <= start' + 2
    <3>1. CASE n < cap
      BY <2>2, <2>7, <3>1 DEF Update
    <3>2. CASE ~ (n < cap)
      <4>1. n \in Int /\ 0 \in Int
        OBVIOUS
      <4>2. end' \in Int /\ start' = start + 0 /\ DoRemap(moved, 0)
        BY <1>1, <2>7, <3>2, <4>1 DEF Update
      <4> QED
        BY <2>3, <4>1, <4>2
    <3> QED
      BY <3>1, <3>2
  <2> QED
    BY <2>4, <2>5, <2>6, <2>7 DEF Feed
<1>3. /\ Partitions' = Partitions /\ last_part' = last_part
      /\ \A p : PartAt(p)' = PartAt(p)
  BY <1>1, PlacesInFile
<1>4. RowSize' = RowSize /\ PartOf(mb_y)' = PartOf(mb_y)
  BY <1>1 DEF RowSize, PartOf
<1> QED
  BY <1>1, <1>2, <1>3, <1>4 DEF VInv, UnitsRead

\* The partitions are laid out and nothing of them is read.
LEMMA PartitionUnits == VInv /\ DecodePartition0 => UnitsRead'
<1> SUFFICES ASSUME VInv, DecodePartition0 PROVE UnitsRead'
  OBVIOUS
<1>1. /\ UNCHANGED <<file, mb_x, mb_y>> /\ state' = "VP8_DATA"
      /\ mb_x = 0 /\ file \in Files /\ modes = 0 /\ start \in Int
  BY DEF DecodePartition0, Decoding, VInv, UnitsRead, Headers, OInv, IInv, Window,
         BeforeFrame
<1>2. mb_y = 0
  BY <1>1 DEF VInv, OInv, IInv, Control, Rows, ModesParsedOnce
<1>3. /\ Partitions' = Partitions /\ last_part' = last_part
      /\ \A p : PartAt(p)' = PartAt(p)
  BY <1>1, PlacesInFile
<1>4. RowSize' = RowSize /\ MbSize \in Nat /\ RowSize \in Nat /\ file.width \in Nat
      /\ file.parts \in Nat /\ file.parts > 0 /\ file.rows \in Nat
  BY <1>1, SizesOfFile DEF RowSize
<1>5. ASSUME NEW p \in Partitions
      PROVE  readTo'[p] = PartAt(p) + RowSize * RowsOf(file.parts, p, 0)
            + (IF mb_y < file.rows /\ PartOf(mb_y) = p THEN mb_x * MbSize ELSE 0)
  <2>1. p \in Nat
    BY DEF Partitions
  <2>2. RowsOf(file.parts, p, 0) = 0 /\ PartAt(p) \in Nat
    BY <1>1, <1>4, <2>1, RowsGrow, PartitionSize
  <2>3. readTo'[p] = PartAt(p)
    BY DEF DecodePartition0
  <2> QED
    BY <1>1, <1>4, <2>2, <2>3
<1>6. ASSUME last_part = 0
      PROVE  parts'[0].i <= start' + 2
  <2>1. 0 \in Partitions /\ 0 \in Nat
    BY <1>6 DEF Partitions
  <2>2. parts'[0].i = start + PartAt(0) - file.payload /\ start' = start + Part0Size - 2
    BY <2>1 DEF DecodePartition0, Reader
  <2>3. RowsUpTo(file.parts, 0, file.rows) = 0
    BY <1>4, <2>1, RowsGrow
  <2>4. PartAt(0) = PartsAt
    BY <1>1, <1>4, <2>1, <2>3, PartitionSize, SizesOfFile
  <2>5. PartsAt = file.payload + Part0Size /\ Part0Size \in Nat /\ file.payload \in Nat
    BY <1>1, <1>4, <1>6, SizesOfFile DEF PartsAt, Part0Size
  <2> QED
    BY <1>1, <2>2, <2>4, <2>5
<1>7. PartOf(mb_y)' = PartOf(mb_y)
  BY <1>1 DEF PartOf
<1> QED
  BY <1>1, <1>2, <1>3, <1>4, <1>5, <1>6, <1>7 DEF VInv, UnitsRead, Headers

\* The partition of the row being decoded.
LEMMA RowsPartition ==
  ASSUME VInv
  PROVE  /\ file \in Files /\ file.parts \in Nat /\ file.parts > 0 /\ mb_y \in Nat
         /\ PartOf(mb_y) \in Partitions /\ PartOf(mb_y) \in Nat
         /\ PartOf(mb_y) = mb_y % file.parts
         /\ last_part = 0 => PartOf(mb_y) = 0 /\ Partitions = {0}
<1>1. file \in Files /\ file.parts \in Nat /\ file.parts > 0 /\ mb_y \in Nat
  BY SizesOfFile DEF VInv, OInv, IInv, Window, Control, Rows
<1>2. PartOf(mb_y) \in 0 .. file.parts - 1
  BY <1>1 DEF PartOf
<1> QED
  BY <1>1, <1>2 DEF PartOf, Partitions, last_part

\* A macroblock is read.
LEMMA MbUnits == VInv /\ DecodeMB => UnitsRead'
<1> SUFFICES ASSUME VInv, DecodeMB PROVE UnitsRead'
  OBVIOUS
<1> DEFINE p == PartOf(mb_y)
<1>1. /\ UNCHANGED <<file, mb_y, state>> /\ state = "VP8_DATA" /\ mb_x' = mb_x + 1
      /\ mb_x < file.width /\ mb_y < file.rows /\ mb_x \in Nat
      /\ mb_x' \in 0 .. file.width
  <2>1. file.width \in Nat
    BY RowsPartition, SizesOfFile
  <2> QED
    BY <2>1 DEF DecodeMB, InRow, Decoding, VInv, UnitsRead
<1>2. p \in Partitions /\ (last_part = 0 => p = 0) /\ file \in Files
  BY RowsPartition
<1>3. /\ Partitions' = Partitions /\ last_part' = last_part
      /\ (\A q : PartAt(q)' = PartAt(q)) /\ RowSize' = RowSize
      /\ PartOf(mb_y)' = PartOf(mb_y)
  BY <1>1, PlacesInFile DEF RowSize, PartOf
<1> HIDE DEF p
<1>4. /\ readTo' = [readTo EXCEPT ![p] = readTo[p] + MbSize]
      /\ start' = IF last_part = 0 THEN parts'[p].i ELSE start
      /\ parts'[p].i = parts[p].i + MbSize /\ readTo \in [Partitions -> Int]
      /\ parts[p].i \in Int
  BY <1>2 DEF DecodeMB, p, Reader, VInv, OInv, IInv, InWindow, Readers
<1>5. MbSize \in Nat /\ mb_x' * MbSize = mb_x * MbSize + MbSize /\ mb_x * MbSize \in Nat
  BY <1>1, SizesAssumption
<1>6. ASSUME NEW q \in Partitions
      PROVE  readTo'[q] = PartAt(q) + RowSize * RowsOf(file.parts, q, mb_y)
                            + (IF p = q THEN mb_x' * MbSize ELSE 0)
  <2>1. readTo[q] = PartAt(q) + RowSize * RowsOf(file.parts, q, mb_y)
                      + (IF p = q THEN mb_x * MbSize ELSE 0)
    BY <1>1, <1>6 DEF VInv, UnitsRead, p
  <2>2. PartAt(q) + RowSize * RowsOf(file.parts, q, mb_y) \in Nat
    <3>1. q \in Nat /\ file.parts \in Nat /\ file.parts > 0 /\ mb_y \in Nat
      BY <1>6, RowsPartition DEF Partitions
    <3>2. RowsOf(file.parts, q, mb_y) \in Nat /\ RowSize \in Nat /\ PartAt(q) \in Nat
      BY <1>2, <3>1, RowsGrow, SizesOfFile, PartitionSize
    <3> QED
      BY <3>2
  <2>3. CASE q = p
    BY <1>2, <1>4, <1>5, <2>1, <2>2, <2>3
  <2>4. CASE q # p
    BY <1>2, <1>4, <2>1, <2>4
  <2> QED
    BY <2>3, <2>4
<1>7. last_part = 0 => parts'[0].i <= start' + 2
  BY <1>2, <1>4, <1>5
<1> QED
  BY <1>1, <1>3, <1>6, <1>7 DEF UnitsRead, Headers, p

\* A row is parsed.
LEMMA RowUnits ==
  ASSUME VInv, RowParsed, UNCHANGED <<file, state, readTo, parts, start>>,
         mb_y' = mb_y + 1, mb_x' = 0
  PROVE  UnitsRead'
<1>1. state = "VP8_DATA" /\ mb_x = file.width /\ mb_y < file.rows
  BY DEF RowParsed, InRow, Decoding
<1>2. /\ Partitions' = Partitions /\ last_part' = last_part
      /\ (\A q : PartAt(q)' = PartAt(q)) /\ RowSize' = RowSize
  BY PlacesInFile DEF RowSize
<1>3. file \in Files /\ file.parts \in Nat /\ file.parts > 0 /\ mb_y \in Nat
      /\ file.width \in Nat /\ RowSize \in Nat /\ MbSize \in Nat
      /\ PartOf(mb_y) = mb_y % file.parts
  BY RowsPartition, SizesOfFile
<1>4. ASSUME NEW q \in Partitions
      PROVE  readTo[q] = PartAt(q) + RowSize * RowsOf(file.parts, q, mb_y + 1)
  <2>1. q \in Nat
    BY DEF Partitions
  <2>2. RowsOf(file.parts, q, mb_y) \in Nat /\ PartAt(q) \in Nat
        /\ RowsOf(file.parts, q, mb_y + 1)
             = RowsOf(file.parts, q, mb_y) + (IF mb_y % file.parts = q THEN 1 ELSE 0)
    <3>1. PartAt(q) \in Nat
      BY <1>3, <2>1, PartitionSize
    <3>2. file.parts \in Nat /\ file.parts > 0 /\ mb_y \in Nat
      BY <1>3
    <3>3. /\ RowsOf(file.parts, q, mb_y) \in Nat
          /\ RowsOf(file.parts, q, mb_y + 1)
               = RowsOf(file.parts, q, mb_y) + Turn(file.parts, q, mb_y)
      BY <2>1, <3>2, RowsGrow
    <3> QED
      BY <3>1, <3>3 DEF Turn
  <2>3. readTo[q] = PartAt(q) + RowSize * RowsOf(file.parts, q, mb_y)
                      + (IF mb_y % file.parts = q THEN RowSize ELSE 0)
    BY <1>1, <1>3, <1>4 DEF VInv, UnitsRead, RowSize
  <2>4. RowSize * (RowsOf(file.parts, q, mb_y) + 1)
          = RowSize * RowsOf(file.parts, q, mb_y) + RowSize
        /\ RowSize * RowsOf(file.parts, q, mb_y) \in Nat
    BY <1>3, <2>2
  <2>5. CASE mb_y % file.parts = q
    BY <1>3, <2>2, <2>3, <2>4, <2>5
  <2>6. CASE mb_y % file.parts # q
    BY <1>3, <2>2, <2>3, <2>4, <2>6
  <2> QED
    BY <2>5, <2>6
<1>5. ASSUME NEW q \in Partitions
      PROVE  readTo'[q] = PartAt(q) + RowSize * RowsOf(file.parts, q, mb_y')
               + (IF mb_y' < file.rows /\ PartOf(mb_y)' = q THEN mb_x' * MbSize ELSE 0)
  <2>1. mb_x' * MbSize = 0
    BY <1>3
  <2>2. PartAt(q) + RowSize * RowsOf(file.parts, q, mb_y + 1) \in Int
    <3>1. readTo[q] \in Int
      BY DEF VInv, OInv, IInv, InWindow
    <3> QED
      BY <1>4, <3>1
  <2> QED
    BY <1>4, <2>1, <2>2
<1>6. last_part = 0 => parts[0].i <= start + 2
  BY <1>1 DEF VInv, UnitsRead
<1> QED
  BY <1>1, <1>2, <1>3, <1>5, <1>6 DEF UnitsRead, Headers

\* The tokens of a macroblock that is still to be read lie in its partition.
LEMMA TokensInPartition ==
  ASSUME VInv, InRow, mb_x < file.width
  PROVE  LET p == PartOf(mb_y) IN
         /\ readTo[p] + MbSize < PartAt(p + 1)
         /\ org + parts[p].i = readTo[p]
         /\ org + parts[p].e = IF p = last_part THEN fed ELSE PartAt(p + 1)
         /\ p \in Partitions /\ PartAt(p + 1) \in Nat
         /\ parts[p].i \in Int /\ parts[p].e \in Int
<1> DEFINE p == PartOf(mb_y)
           k == file.parts
<1>1. state = "VP8_DATA" /\ mb_y < file.rows /\ mb_x \in 0 .. file.width
  BY DEF InRow, Decoding, VInv, UnitsRead
<1>2. /\ file \in Files /\ k \in Nat /\ k > 0 /\ mb_y \in Nat /\ p \in Partitions
      /\ p \in Nat /\ p = mb_y % k
  BY RowsPartition
<1>3. /\ file.rows \in Nat /\ file.width \in Nat /\ MbSize \in Nat /\ RowSize \in Nat
      /\ MbSize > 0
      /\ \A m, n \in Nat : m + 1 <= n => RowSize * m + RowSize <= RowSize * n
      /\ \A n \in Nat : RowSize * n \in Nat
  BY <1>2, SizesOfFile
<1>4. /\ RowsOf(k, p, mb_y) \in Nat /\ RowsOf(k, p, file.rows) \in Nat
      /\ RowsOf(k, p, mb_y) + 1 <= RowsOf(k, p, file.rows)
  <2>1. RowsOf(k, p, mb_y) \in Nat /\ RowsOf(k, p, file.rows) \in Nat
    BY <1>2, <1>3, RowsGrow
  <2>2. mb_y \in 0 .. file.rows - 1
    BY <1>1, <1>2, <1>3
  <2>3. RowsOf(k, mb_y % k, mb_y) + 1 <= RowsOf(k, mb_y % k, file.rows)
    BY <1>2, <1>3, <2>2, RowsLeft
  <2> QED
    BY <1>2, <2>1, <2>3
<1>5. /\ PartAt(p) \in Nat
      /\ PartAt(p + 1) = PartAt(p) + 1 + RowSize * RowsOf(k, p, file.rows)
  BY <1>2, PartitionSize
<1>6. readTo[p] = PartAt(p) + RowSize * RowsOf(k, p, mb_y) + mb_x * MbSize
  <2>1. readTo[p] = PartAt(p) + RowSize * RowsOf(k, p, mb_y)
                      + (IF mb_y < file.rows /\ PartOf(mb_y) = p THEN mb_x * MbSize ELSE 0)
    BY <1>1, <1>2 DEF VInv, UnitsRead
  <2> QED
    BY <1>1, <2>1
<1>7. mb_x * MbSize + MbSize <= RowSize /\ mb_x * MbSize \in Nat
  <2>1. PICK d \in Nat : file.width = (mb_x + 1) + d
    <3>1. file.width - (mb_x + 1) \in Nat
          /\ file.width = (mb_x + 1) + (file.width - (mb_x + 1))
      BY <1>1, <1>3
    <3> QED
      BY <3>1
  <2>2. file.width * MbSize = mb_x * MbSize + MbSize + d * MbSize /\ d * MbSize \in Nat
        /\ mb_x * MbSize \in Nat
    BY <1>1, <1>3, <2>1
  <2> QED
    BY <1>3, <2>2 DEF RowSize
<1>8. /\ RowSize * RowsOf(k, p, mb_y) + RowSize <= RowSize * RowsOf(k, p, file.rows)
      /\ RowSize * RowsOf(k, p, mb_y) \in Nat /\ RowSize * RowsOf(k, p, file.rows) \in Nat
  BY <1>3, <1>4
<1>9. readTo[p] + MbSize < PartAt(p + 1) /\ PartAt(p + 1) \in Nat
  BY <1>3, <1>5, <1>6, <1>7, <1>8
<1>10. /\ org + parts[p].i = readTo[p]
       /\ org + parts[p].e = IF p = last_part THEN fed ELSE PartAt(p + 1)
       /\ parts[p].i \in Int /\ parts[p].e \in Int
  BY <1>1, <1>2 DEF VInv, OInv, IInv, PointersTrackFile, InWindow, Readers
<1> QED
  BY <1>2, <1>9, <1>10

\* A valid macroblock only waits for data, and never for data that is there.
LEMMA StarvedWaits ==
  ASSUME VInv, InRow, mb_x < file.width, ~ Enough, ~ file.bad
  PROVE  fed # Total /\ ~ TooMuchData
<1> DEFINE p == PartOf(mb_y)
<1>1. /\ readTo[p] + MbSize < PartAt(p + 1) /\ org + parts[p].i = readTo[p]
      /\ org + parts[p].e = IF p = last_part THEN fed ELSE PartAt(p + 1)
      /\ PartAt(p + 1) \in Nat /\ parts[p].i \in Int /\ parts[p].e \in Int
  BY TokensInPartition
<1>2. /\ file \in Files /\ (last_part = 0 => p = 0) /\ p \in Nat
      /\ start \in Int /\ end \in Int /\ org \in Int /\ fed = org + end
  BY RowsPartition DEF VInv, OInv, IInv, Window
<1>3. /\ MbSize \in Nat /\ MaxMbSize >= MbSize + 2 /\ MaxMbSize \in Nat
      /\ last_part + 1 = file.parts /\ file.parts \in Nat /\ last_part \in Nat
  BY <1>2, SizesOfFile
<1>4. parts[p].i + MbSize > parts[p].e
  <2>1. ~ Corrupted
    BY DEF Corrupted
  <2> QED
    BY <1>1, <1>3, <2>1 DEF Enough
<1>5. p = last_part
  BY <1>1, <1>2, <1>3, <1>4
<1>6. ~ file.lossless
  BY DEF InRow, Decoding, VInv, OInv, IInv, BeforeFrame
<1>7. fed < PartAt(file.parts) /\ Total = PartAt(file.parts)
  BY <1>1, <1>2, <1>3, <1>4, <1>5, <1>6 DEF Total
<1>8. last_part = 0 => parts[0].i <= start + 2
  BY DEF InRow, Decoding, VInv, UnitsRead
<1>9. ASSUME last_part = 0 PROVE end - start <= MaxMbSize
  <2>1. parts[p].i <= start + 2 /\ parts[p].e = end
    BY <1>1, <1>2, <1>5, <1>8, <1>9
  <2> QED
    BY <1>1, <1>2, <1>3, <1>4, <2>1
<1>10. fed # Total
  BY <1>1, <1>2, <1>5, <1>7
<1>11. ~ TooMuchData
  BY <1>2, <1>3, <1>9 DEF TooMuchData, MemDataSize
<1> QED
  BY <1>10, <1>11

\* A call that is suspended before the frame has not been given all of the file.
LEMMA SuspendedWaits == VInv /\ Suspended => fed # Total
<1> SUFFICES ASSUME VInv, Suspended PROVE fed # Total
  OBVIOUS
<1>1. /\ file \in Files /\ start \in Int /\ end \in Int /\ org \in Int /\ fed = org + end
      /\ state = "WEBP_HEADER" => start = 0 /\ org = 0
      /\ state \in Headers \ {"WEBP_HEADER"} => org + start = file.payload
      /\ state \in {"VP8_HEADER", "VP8_PARTS0"} => ~ file.lossless
      /\ state \in {"VP8L_HEADER", "VP8L_DATA"} => file.lossless
  BY DEF VInv, OInv, IInv, Window, BeforeFrame
<1>2. /\ file.payload \in Nat /\ file.payload > 2 /\ last_part \in Nat
      /\ last_part + 1 = file.parts /\ file.parts \in Nat /\ file.rows \in Nat
      /\ file.parts > 0 /\ RowSize \in Nat
      /\ PartsAt \in Nat /\ PartsAt = file.payload + 2 + file.rows + last_part
  BY <1>1, SizesOfFile
<1>3. /\ PartAt(last_part) \in Nat /\ PartAt(last_part) >= PartsAt
      /\ PartAt(last_part) + 1 <= PartAt(file.parts) /\ PartAt(file.parts) \in Nat
  <2>1. /\ RowsUpTo(file.parts, last_part, file.rows) \in Nat
        /\ RowsOf(file.parts, last_part, file.rows) \in Nat
    BY <1>2, RowsGrow
  <2>2. /\ PartAt(last_part)
             = PartsAt + last_part + RowSize * RowsUpTo(file.parts, last_part, file.rows)
        /\ PartAt(last_part) \in Nat
        /\ PartAt(last_part + 1) = PartAt(last_part) + 1
             + RowSize * RowsOf(file.parts, last_part, file.rows)
    BY <1>1, <1>2, PartitionSize
  <2>3. /\ RowSize * RowsUpTo(file.parts, last_part, file.rows) \in Nat
        /\ RowSize * RowsOf(file.parts, last_part, file.rows) \in Nat
    BY <1>2, <2>1
  <2> QED
    BY <1>2, <2>2, <2>3
<1>4. Total \in Nat /\ Total > file.payload
      /\ (~ file.lossless => Total = PartAt(file.parts))
  BY <1>2, <1>3 DEF Total
<1>5. CASE state = "WEBP_HEADER" /\ MemDataSize < file.payload
  BY <1>1, <1>2, <1>4, <1>5 DEF MemDataSize
<1>6. CASE state = "VP8_HEADER" /\ MemDataSize < 1
  BY <1>1, <1>2, <1>4, <1>6 DEF MemDataSize, Headers
<1>7. CASE state = "VP8_PARTS0" /\ MemDataSize < PartAt(last_part) + 1 - file.payload
  BY <1>1, <1>2, <1>3, <1>4, <1>7 DEF MemDataSize, Headers
<1>8. CASE state \in {"VP8L_HEADER", "VP8L_DATA"} /\ MemDataSize < Total - file.payload
  BY <1>1, <1>2, <1>4, <1>8 DEF MemDataSize, Headers
<1> QED
  BY <1>5, <1>6, <1>7, <1>8 DEF Suspended

LEMMA NextFine == VInv /\ [Next]_vars => Fine'
<1> SUFFICES ASSUME VInv, [Next]_vars PROVE Fine'
  OBVIOUS
<1>1. file' = file
  BY DEF Next, DecodeSteps, Feed, AppendInPlace, AppendRealloc, AppendNoMemory, Update,
         Suspended, HeaderFails, NewDecoderFails, DecodeWebPHeaders,
         DecodeVP8FrameHeader, DecodePartition0, FrameFails, ParseIntraModes, DecodeMB,
         StarvedError, Starved, LaunchRow, ProcessRowInline, ProcessRowFails,
         FrameDecoded, ExitCritical, Exited, DecodeVP8LHeader, DecodeVP8LData, JobEnds,
         Delete, Deleted, vars
<1>2. Total' = Total
  BY <1>1 DEF Total, PartAt, PartsAt, Part0Size, PartOf, last_part
<1>3. Fine /\ Exits
  BY DEF VInv, OInv
<1> USE DEF Fine, Exits, Return, Fail, Decoding, worker, api, mem
<1>4. CASE Feed
  <2>1. ASSUME NEW n \in 0 .. MaxAppend, AppendInPlace(n) PROVE Fine'
    BY <1>1, <1>2, <1>3, <2>1 DEF AppendInPlace
  <2>2. ASSUME NEW n \in 0 .. MaxAppend, AppendRealloc(n) PROVE Fine'
    BY <1>1, <1>2, <1>3, <2>2 DEF AppendRealloc
  <2>3. ASSUME NEW n \in 0 .. MaxAppend, AppendNoMemory(n) PROVE Fine'
    BY <1>1, <1>2, <1>3, <2>3 DEF AppendNoMemory, MayFeed
  <2>4. ASSUME NEW n \in 1 .. Total, NEW moved \in BOOLEAN, Update(n, moved) PROVE Fine'
    BY <1>1, <1>2, <1>3, <2>4 DEF Update, MayFeed
  <2> QED
    BY <1>4, <2>1, <2>2, <2>3, <2>4 DEF Feed
<1>5. CASE Suspended
  BY <1>1, <1>2, <1>3, <1>5, SuspendedWaits DEF Suspended
<1>6. CASE HeaderFails \/ FrameFails \/ ProcessRowFails
  BY <1>6 DEF HeaderFails, FrameFails, ProcessRowFails
<1>7. CASE NewDecoderFails \/ DecodeWebPHeaders \/ DecodeVP8FrameHeader \/ DecodePartition0
  BY <1>1, <1>2, <1>3, <1>7
  DEF NewDecoderFails, DecodeWebPHeaders, DecodeVP8FrameHeader, DecodePartition0
<1>8. CASE ParseIntraModes \/ DecodeMB
  BY <1>1, <1>2, <1>3, <1>8 DEF ParseIntraModes, DecodeMB, InRow
<1>9. CASE StarvedError
  BY <1>1, <1>3, <1>9, StarvedWaits DEF StarvedError
<1>10. CASE Starved
  BY <1>1, <1>2, <1>3, <1>10, StarvedWaits DEF Starved, InRow
<1>11. CASE LaunchRow \/ ProcessRowInline
  <2>1. UNCHANGED <<pc, ret, state, fed, hadError, injected>>
    BY <1>11 DEF LaunchRow, ProcessRowInline
  <2> QED
    BY <1>1, <1>2, <1>3, <2>1
<1>12. CASE FrameDecoded \/ ExitCritical
  BY <1>1, <1>2, <1>3, <1>12 DEF FrameDecoded, ExitCritical
<1>13. CASE Exited
  BY <1>1, <1>2, <1>3, <1>13 DEF Exited
<1>14. CASE DecodeVP8LHeader \/ DecodeVP8LData
  BY <1>1, <1>2, <1>3, <1>14 DEF DecodeVP8LHeader, DecodeVP8LData
<1>15. CASE JobEnds
  <2>1. /\ UNCHANGED <<pc, ret, state, fed>>
        /\ UNCHANGED <<hadError, injected>> \/ injected' = TRUE
    BY <1>15 DEF JobEnds
  <2>2. CASE UNCHANGED <<hadError, injected>>
    BY <1>1, <1>2, <1>3, <2>1, <2>2
  <2>3. CASE injected' = TRUE
    BY <2>3
  <2> QED
    BY <2>1, <2>2, <2>3
<1>16. CASE Delete
  BY <1>1, <1>2, <1>3, <1>16 DEF Delete
<1>17. CASE UNCHANGED vars
  BY <1>1, <1>2, <1>3, <1>17 DEF vars
<1> QED
  BY <1>4, <1>5, <1>6, <1>7, <1>8, <1>9, <1>10, <1>11, <1>12, <1>13, <1>14, <1>15,
     <1>16, <1>17 DEF Next, DecodeSteps, Deleted

LEMMA NextVInv == VInv /\ [Next]_vars => VInv'
<1> SUFFICES ASSUME VInv, [Next]_vars PROVE VInv'
  OBVIOUS
<1>1. OInv' /\ Fine'
  BY NextOInv, NextFine DEF VInv
<1> SUFFICES UnitsRead'
  BY <1>1 DEF VInv
<1>2. CASE Feed
  BY <1>2, FeedUnits
<1>3. CASE DecodePartition0
  BY <1>3, PartitionUnits
<1>4. CASE DecodeMB
  BY <1>4, MbUnits
<1>5. CASE LaunchRow \/ ProcessRowInline
  BY <1>5, RowUnits DEF LaunchRow, ProcessRowInline, mem
<1>6. CASE \/ Suspended \/ HeaderFails \/ NewDecoderFails \/ DecodeWebPHeaders
           \/ DecodeVP8FrameHeader \/ FrameFails \/ ParseIntraModes \/ StarvedError
  BY <1>6, UnitsKept
  DEF Suspended, HeaderFails, NewDecoderFails, DecodeWebPHeaders, DecodeVP8FrameHeader,
      FrameFails, ParseIntraModes, StarvedError, Fail, Decoding, InRow, mem, tokens,
      Headers, Return
<1>7. CASE \/ Starved \/ ProcessRowFails \/ FrameDecoded \/ ExitCritical \/ Exited
           \/ DecodeVP8LHeader \/ DecodeVP8LData \/ JobEnds \/ Delete
           \/ UNCHANGED vars
  BY <1>7, UnitsKept
  DEF Starved, ProcessRowFails, FrameDecoded, ExitCritical, Exited, DecodeVP8LHeader,
      DecodeVP8LData, JobEnds, Delete, Fail, Decoding, InRow, RowParsed, mem, tokens,
      vars, Headers, Return
<1> QED
  BY <1>1, <1>2, <1>3, <1>4, <1>5, <1>6, <1>7 DEF Next, DecodeSteps, Deleted

\* A valid file is decoded however it is cut into pieces: unless the system or the
\* user's callbacks fail it, no call reports an error, and a call made with all of the
\* file does not ask for more (the tests of DecodeRemaining and of idec_dec.c on what
\* is left of the data, and what MAX_MB_SIZE allows for).
THEOREM ValidFileSucceeds == SafeSpec => []ValidFileIsDecoded
<1>1. VInv => ValidFileIsDecoded
  BY DEF VInv, Fine, ValidFileIsDecoded
<1> QED
  BY <1>1, InitVInv, NextVInv, PTL DEF SafeSpec

=============================================================================
