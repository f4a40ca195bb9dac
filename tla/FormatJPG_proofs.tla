------------------------------ MODULE FormatJPG_proofs ------------------------------
(***************************************************************************)
(* What FormatJPG claims of a profile on its way through a JPEG file, for  *)
(* every length, marker size, marker count and every edit of the file.     *)
(***************************************************************************)
EXTENDS FormatJPG, TLAPS

-----------------------------------------------------------------------------
(* The pieces of a profile of n bytes *)

\* How many of n bytes the first k markers hold.
Sent(n, k) == Lesser(n, k * MaxData)

\* Chunks, of a profile of n bytes.
Pieces(n) == IF (n \div MaxData) * MaxData = n THEN n \div MaxData ELSE (n \div MaxData) + 1

\* Marker s of those written.
PieceAt(n, s) ==
  [icc |-> TRUE, seq |-> Byte(s), num |-> Byte(Pieces(n)),
   from |-> Sent(n, s - 1), length |-> Sent(n, s) - Sent(n, s - 1)]

\* Division by the size of a marker rounds down.
LEMMA Division ==
  ASSUME NEW n \in Nat
  PROVE  /\ n \div MaxData \in Nat
         /\ (n \div MaxData) * MaxData <= n
         /\ n < ((n \div MaxData) + 1) * MaxData
BY FormatJPGAssumption

\* Multiples of the size of a marker are ordered like what they are multiples of.
LEMMA Multiples ==
  ASSUME NEW a \in Nat, NEW c \in Nat
  PROVE  /\ a * MaxData \in Nat
         /\ (a + 1) * MaxData = a * MaxData + MaxData
         /\ a < c <=> a * MaxData < c * MaxData
         /\ a < c => (a + 1) * MaxData <= c * MaxData
BY FormatJPGAssumption

\* One more marker holds what is left, up to its size.
LEMMA SentNext ==
  ASSUME NEW n \in Nat, NEW k \in Nat
  PROVE  /\ Sent(n, k) \in 0 .. n
         /\ Sent(n, 0) = 0
         /\ Sent(n, k + 1) = Sent(n, k) + Lesser(n - Sent(n, k), MaxData)
         /\ Lesser(n - Sent(n, k), MaxData) \in 0 .. MaxData
<1>1. k * MaxData \in Nat /\ (k + 1) * MaxData = k * MaxData + MaxData /\ 0 * MaxData = 0
  BY Multiples, FormatJPGAssumption
<1> QED
  BY <1>1, FormatJPGAssumption DEF Sent, Lesser

LEMMA SentNat ==
  ASSUME NEW n \in Nat
  PROVE  \A k \in Nat : Sent(n, k) \in Nat
<1> SUFFICES ASSUME NEW k \in Nat
             PROVE  Sent(n, k) \in Nat
  OBVIOUS
<1>1. Sent(n, k) \in 0 .. n
  BY SentNext
<1> QED
  BY <1>1

\* The pieces are as many as it takes to hold all.
LEMMA PiecesHoldAll ==
  ASSUME NEW n \in Nat, NEW k \in Nat
  PROVE  /\ Pieces(n) \in Nat
         /\ Sent(n, Pieces(n)) = n
         /\ Sent(n, k) = n <=> k >= Pieces(n)
<1> DEFINE d == n \div MaxData
<1>1. d \in Nat /\ d * MaxData <= n /\ n < (d + 1) * MaxData
  BY Division
<1>2. /\ k * MaxData \in Nat /\ d * MaxData \in Nat
      /\ (d + 1) * MaxData = d * MaxData + MaxData
      /\ d < k => (d + 1) * MaxData <= k * MaxData
      /\ k < d => k * MaxData < d * MaxData
  BY <1>1, Multiples
<1>3. Pieces(n) = IF d * MaxData = n THEN d ELSE d + 1
  BY DEF Pieces
<1> HIDE DEF d
<1>4. Pieces(n) \in Nat
  BY <1>1, <1>3
<1>5. CASE d * MaxData = n
  BY <1>1, <1>2, <1>3, <1>5, FormatJPGAssumption DEF Sent, Lesser
<1>6. CASE d * MaxData # n
  <2>1. Pieces(n) = d + 1
    BY <1>3, <1>6
  <2>2. Sent(n, d + 1) = n
    BY <1>1, <1>2, FormatJPGAssumption DEF Sent, Lesser
  <2>3. CASE k > d
    BY <1>1, <1>2, <2>1, <2>2, <2>3, FormatJPGAssumption DEF Sent, Lesser
  <2>4. CASE k <= d
    <3>1. k * MaxData < n
      BY <1>1, <1>2, <1>6, <2>4
    <3> QED
      BY <1>1, <1>2, <2>1, <2>2, <2>4, <3>1 DEF Sent, Lesser
  <2> QED
    BY <1>1, <2>3, <2>4
<1> QED
  BY <1>5, <1>6

\* Every byte is in one of the pieces.
LEMMA ByteInPiece ==
  ASSUME NEW n \in Nat, NEW i \in 0 .. (n - 1)
  PROVE  \E s \in 1 .. Pieces(n) : Sent(n, s - 1) <= i /\ i < Sent(n, s)
<1> DEFINE d == i \div MaxData
<1>1. i \in Nat /\ d \in Nat /\ d * MaxData <= i /\ i < (d + 1) * MaxData
  BY Division
<1> HIDE DEF d
<1>2. /\ d * MaxData \in Nat
      /\ (d + 1) * MaxData = d * MaxData + MaxData
  BY <1>1, Multiples
<1>3. Sent(n, d) <= i /\ i < Sent(n, d + 1)
  BY <1>1, <1>2, FormatJPGAssumption DEF Sent, Lesser
<1>4. ~(d >= Pieces(n))
  BY <1>1, <1>3, PiecesHoldAll
<1>5. d + 1 \in 1 .. Pieces(n) /\ (d + 1) - 1 = d
  BY <1>1, <1>4, PiecesHoldAll
<1> QED
  BY <1>3, <1>5

\* A number that a byte can hold is written as it is; one more is written as 0.
LEMMA ByteHolds ==
  /\ \A s \in 0 .. ByteMax : Byte(s) = s
  /\ Byte(ByteMax + 1) = 0
  /\ \A s \in Nat : Byte(s) \in 0 .. ByteMax
BY FormatJPGAssumption DEF Byte

-----------------------------------------------------------------------------
(* The inductive invariant *)

\* Markers are numbered by a byte without loss.
Fits == Pieces(length) <= ByteMax

\* The writer has written what it does not have left; until another program has
\* its turn the file is what was written, and no more than its markers after that.
FileInv ==
  /\ left = length - Sent(length, cur_marker - 1)
  /\ cur_marker - 1 <= Pieces(length)
  /\ pc \notin {"pack", "write", "done"} => left = 0
  /\ pc \in {"pack", "write"} => ~edited
  /\ pc \in {"pack", "write", "file"} => at = 0
  /\ ~edited => Len(markers) = cur_marker - 1
  /\ ~edited => \A i \in DOMAIN markers : markers[i] = PieceAt(length, i)
  /\ \A i \in DOMAIN markers : markers[i].icc =>
       \E s \in 1 .. Pieces(length) : markers[i] = PieceAt(length, s)

Scanning == pc \in {"pack", "write", "file", "scan", "sum"}

\* What the first pass noted is what it saw.
ScanInv ==
  /\ num_markers \in {0, Byte(Pieces(length))}
  /\ pc = "scan" => \A i \in 1 .. at : markers[i].icc =>
       num_markers # 0 /\ markers[i].seq \in SeqNos /\ marker_present[markers[i].seq]
  /\ pc \in {"sum", "fill"} => num_markers # 0 /\ \A i \in DOMAIN markers :
       markers[i].icc => markers[i].seq \in SeqNos /\ marker_present[markers[i].seq]
  /\ Scanning => \A s \in SeqNos : marker_present[s] =>
       \E i \in 1 .. at : markers[i].icc /\ markers[i].seq = s
  /\ \A s \in SeqNos : marker_present[s] =>
       /\ s <= num_markers
       /\ \E i \in DOMAIN markers :
            markers[i].icc /\ markers[i].seq = s /\ data_length[s] = markers[i].length

\* The offsets of the pieces that were summed up.
SumInv ==
  /\ seq_no - 1 <= num_markers
  /\ pc \in {"pack", "write", "file", "scan"} => seq_no = 1
  /\ \A s \in 1 .. (seq_no - 1) : marker_present[s]
  /\ pc = "sum" => at = Len(markers)
  /\ pc = "fill" => seq_no > num_markers
  /\ Fits =>
       /\ total_length = Sent(length, seq_no - 1)
       /\ \A s \in 1 .. (seq_no - 1) : data_offset[s] = Sent(length, s - 1)

\* The markers that were gone through are in the buffer, where they belong.
FillInv ==
  Fits /\ pc = "fill" =>
    /\ total_length = length
    /\ DOMAIN icc_data = 0 .. (length - 1)
    /\ \A i \in DOMAIN icc_data : icc_data[i] \in {i, Unset}
    /\ \A j \in 1 .. at : markers[j].icc =>
         \A i \in DOMAIN icc_data :
           markers[j].from <= i /\ i < markers[j].from + markers[j].length => icc_data[i] = i

FoundInv ==
  /\ found => pc \in {"parse", "image", "rows", "done"}
  /\ pc = "parse" => found
  /\ found => (Fits /\ Whole) \/ (edited /\ ~Fits)

LiveInv ==
  /\ pc \in {"fill", "parse"} => live = {"iccData"}
  /\ pc \in {"pack", "write", "file", "scan", "sum"} => live = {}
  /\ pc = "image" => live \subseteq {"profile"}
  /\ pc = "rows" => live = {"image"}
  /\ pc # "done" => returned = "nothing"
  /\ OnlyImageKept

IInv == TypeOK /\ FileInv /\ ScanInv /\ SumInv /\ FillInv /\ FoundInv /\ LiveInv

\* A marker of the file, when it holds a piece.
LEMMA MarkerIsPiece ==
  ASSUME TypeOK, FileInv, NEW i \in DOMAIN markers, markers[i].icc
  PROVE  /\ length \in Nat /\ Pieces(length) \in Nat
         /\ \E s \in 1 .. Pieces(length) : markers[i] = PieceAt(length, s)
         /\ markers[i].num = Byte(Pieces(length))
         /\ Fits => /\ markers[i].seq \in 1 .. Pieces(length)
                    /\ markers[i] = PieceAt(length, markers[i].seq)
                    /\ markers[i].num = Pieces(length)
<1>1. length \in Nat /\ Pieces(length) \in Nat
  BY PiecesHoldAll, FormatJPGAssumption DEF TypeOK
<1>2. PICK s \in 1 .. Pieces(length) : markers[i] = PieceAt(length, s)
  BY DEF FileInv
<1>3. markers[i].num = Byte(Pieces(length)) /\ markers[i].seq = Byte(s)
  BY <1>2 DEF PieceAt
<1>4. Fits => Byte(s) = s /\ Byte(Pieces(length)) = Pieces(length)
  BY <1>1, ByteHolds, FormatJPGAssumption DEF Fits
<1> QED
  BY <1>1, <1>2, <1>3, <1>4

-----------------------------------------------------------------------------
(* Every step keeps it *)

LEMMA InitInv == Init => IInv
<1> SUFFICES ASSUME Init PROVE IInv
  OBVIOUS
<1>1. length \in Nat
  BY FormatJPGAssumption DEF Init
<1>2. TypeOK
  <2>1. left \in 0 .. length /\ at \in 0 .. Len(markers) /\ markers \in Seq(Markers)
    BY <1>1 DEF Init
  <2>2. num_markers \in 0 .. ByteMax /\ seq_no \in 1 .. (ByteMax + 1)
    BY FormatJPGAssumption DEF Init
  <2>3. data_length \in [SeqNos -> 0 .. MaxData]
    BY FormatJPGAssumption DEF Init
  <2>4. marker_present \in [SeqNos -> BOOLEAN] /\ data_offset \in [SeqNos -> Nat]
    BY DEF Init
  <2>5. edited \in BOOLEAN /\ found \in BOOLEAN
    BY DEF Init
  <2> QED
    BY <2>1, <2>2, <2>3, <2>4, <2>5 DEF Init, TypeOK
<1>3. FileInv
  BY <1>1, SentNext, PiecesHoldAll DEF Init, FileInv
<1>4. ScanInv
  BY DEF Init, ScanInv, Scanning, SeqNos
<1>5. SumInv
  BY <1>1, SentNext DEF Init, SumInv
<1>6. FillInv /\ FoundInv /\ LiveInv
  BY DEF Init, FillInv, FoundInv, LiveInv, OnlyImageKept
<1> QED
  BY <1>2, <1>3, <1>4, <1>5, <1>6 DEF IInv

\* The next marker written is the next piece.
LEMMA PieceWritten ==
  ASSUME TypeOK, FileInv, pc = "write", left > 0
  PROVE  /\ Piece = PieceAt(length, cur_marker)
         /\ Piece \in Markers
         /\ cur_marker \in 1 .. Pieces(length)
         /\ left - Piece.length = length - Sent(length, cur_marker)
         /\ left - Piece.length \in 0 .. length
<1> DEFINE k == cur_marker - 1
<1>1. length \in Nat /\ k \in Nat /\ k + 1 = cur_marker /\ left \in 0 .. length
  BY FormatJPGAssumption DEF TypeOK
<1>2. left = length - Sent(length, k)
  BY DEF FileInv
<1> HIDE DEF k
<1>3. /\ Sent(length, k) \in 0 .. length
      /\ Sent(length, k + 1) = Sent(length, k) + Lesser(length - Sent(length, k), MaxData)
      /\ Sent(length, k + 1) \in 0 .. length
      /\ Lesser(length - Sent(length, k), MaxData) \in 0 .. MaxData
  <2>1. k + 1 \in Nat
    BY <1>1
  <2> QED
    BY <1>1, <2>1, SentNext
<1>4. length - Sent(length, k) = left /\ length - left = Sent(length, k)
  BY <1>1, <1>2, <1>3
<1>5. Sent(length, cur_marker) - Sent(length, k) = Lesser(left, MaxData)
  BY <1>1, <1>3, <1>4, FormatJPGAssumption
<1>6. Chunks = Pieces(length)
  BY DEF Chunks, Pieces
<1>7. Piece = PieceAt(length, cur_marker)
  BY <1>4, <1>5, <1>6 DEF Piece, PieceAt, k
<1>8. Piece \in Markers
  BY <1>1, <1>3, <1>4, <1>6, ByteHolds, PiecesHoldAll DEF Piece, Markers
<1>9. cur_marker \in 1 .. Pieces(length)
  <2>1. Sent(length, k) # length
    BY <1>1, <1>2
  <2> QED
    BY <1>1, <2>1, PiecesHoldAll
<1> QED
  BY <1>1, <1>3, <1>4, <1>5, <1>7, <1>8, <1>9 DEF Piece

LEMMA TypeStep ==
  ASSUME TypeOK, FileInv, [Next]_vars
  PROVE  TypeOK'
<1> USE DEF TypeOK
<1>1. CASE WriteMarker
  BY <1>1, PieceWritten DEF WriteMarker, passVars
<1>2. CASE Edit
  <2>1. PICK n \in 0 .. MaxMarkers : markers' \in [1 .. n -> Range(markers) \cup {Foreign}]
    BY <1>2 DEF Edit
  <2>2. Range(markers) \cup {Foreign} \subseteq Markers
    <3>1. Foreign \in Markers
      BY FormatJPGAssumption DEF Foreign, Markers
    <3>2. Range(markers) \subseteq Markers
      BY DEF Range
    <3> QED
      BY <3>1, <3>2
  <2>3. markers' \in Seq(Markers) /\ at = 0
    BY <1>2, <2>1, <2>2, FormatJPGAssumption DEF FileInv, Edit
  <2> QED
    BY <1>2, <2>3 DEF Edit, writerVars, passVars
<1>3. CASE ScanMarker
  <2>1. Marker \in Markers
    BY <1>3 DEF ScanMarker, Marker
  <2>2. NumSaid \in 0 .. ByteMax /\ Marker.length \in 0 .. MaxData
    BY <2>1 DEF NumSaid, Markers
  <2> QED
    <3>1. at' \in 0 .. Len(markers')
      BY <1>3 DEF ScanMarker
    <3>2. data_length' \in [SeqNos -> 0 .. MaxData] /\ marker_present' \in [SeqNos -> BOOLEAN]
      BY <1>3, <2>2 DEF ScanMarker
    <3> QED
      BY <1>3, <2>2, <3>1, <3>2 DEF ScanMarker, writerVars
<1>4. CASE ScanForeign \/ ScanRefuses \/ ScanDone
  <2>1. at' \in 0 .. Len(markers')
    BY <1>4 DEF ScanForeign, ScanRefuses, ScanDone
  <2> QED
    BY <1>4, <2>1 DEF ScanForeign, ScanRefuses, ScanDone, writerVars, passVars
<1>5. CASE SumMarker
  <2>1. seq_no \in SeqNos /\ seq_no + 1 \in 1 .. (ByteMax + 1)
    BY <1>5, FormatJPGAssumption DEF SumMarker, SeqNos
  <2>2. data_length[seq_no] \in Nat /\ total_length + data_length[seq_no] \in Nat
    BY <2>1, FormatJPGAssumption
  <2> QED
    BY <1>5, <2>1, <2>2 DEF SumMarker, writerVars
<1>6. CASE SumRefuses \/ Allocate
  <2>1. at' \in 0 .. Len(markers')
    BY <1>6 DEF SumRefuses, Allocate
  <2> QED
    BY <1>6, <2>1 DEF SumRefuses, Allocate, writerVars, passVars
<1>7. CASE Fill \/ FillDone
  <2>1. at' \in 0 .. Len(markers')
    BY <1>7 DEF Fill, FillDone
  <2> QED
    BY <1>7, <2>1 DEF Fill, FillDone, writerVars, passVars
<1>8. CASE PackFails \/ Pack \/ WriteDone \/ HeaderFails \/ Override \/ ReadProfile
  BY <1>8 DEF PackFails, Pack, WriteDone, HeaderFails, Override, ReadProfile, writerVars, passVars
<1>9. CASE ParseFails \/ Parse \/ CreateImage \/ ReadRows \/ RowsFail
  BY <1>9 DEF ParseFails, Parse, AfterParse, CreateImage, ReadRows, RowsFail, writerVars, passVars
<1>10. CASE UNCHANGED vars
  BY <1>10 DEF vars, writerVars, passVars
<1> QED
  BY <1>1, <1>2, <1>3, <1>4, <1>5, <1>6, <1>7, <1>8, <1>9, <1>10 DEF Next, Ended

LEMMA FileStep ==
  ASSUME TypeOK, FileInv, [Next]_vars
  PROVE  FileInv'
<1>1. CASE WriteMarker
  <2>1. /\ Piece = PieceAt(length, cur_marker) /\ cur_marker \in 1 .. Pieces(length)
        /\ left' = length' - Sent(length', cur_marker) /\ cur_marker' = cur_marker + 1
        /\ length' = length /\ markers' = Append(markers, Piece) /\ ~edited'
        /\ pc' = "write" /\ at' = 0
    BY <1>1, PieceWritten DEF WriteMarker, FileInv
  <2>2. cur_marker' - 1 = cur_marker
    BY <2>1
  <2>3. Len(markers) = cur_marker - 1 /\ \A i \in DOMAIN markers : markers[i] = PieceAt(length, i)
    BY <1>1 DEF FileInv, WriteMarker
  <2>4. Len(markers') = cur_marker /\ DOMAIN markers' = 1 .. cur_marker
    BY <2>1, <2>3 DEF TypeOK
  <2>5. \A i \in DOMAIN markers' : markers'[i] = PieceAt(length', i)
    BY <2>1, <2>3, <2>4 DEF TypeOK
  <2>6. \A i \in DOMAIN markers' : i \in 1 .. Pieces(length')
    <3>1. Pieces(length) \in Nat
      BY PiecesHoldAll, FormatJPGAssumption DEF TypeOK
    <3> QED
      BY <2>1, <2>4, <3>1
  <2> QED
    BY <2>1, <2>2, <2>4, <2>5, <2>6 DEF FileInv
<1>2. CASE Edit
  <2>1. PICK n \in 0 .. MaxMarkers : markers' \in [1 .. n -> Range(markers) \cup {Foreign}]
    BY <1>2 DEF Edit
  <2>2. \A i \in DOMAIN markers' :
          markers'[i].icc => \E s \in 1 .. Pieces(length) : markers'[i] = PieceAt(length, s)
    BY <2>1 DEF Range, Foreign, FileInv
  <2> QED
    BY <1>2, <2>2 DEF FileInv, Edit, writerVars
<1>3. CASE ScanMarker \/ ScanForeign \/ ScanRefuses \/ ScanDone
  BY <1>3 DEF FileInv, ScanMarker, ScanForeign, ScanRefuses, ScanDone, writerVars, passVars
<1>4. CASE SumMarker \/ SumRefuses \/ Allocate \/ Fill \/ FillDone
  BY <1>4 DEF FileInv, SumMarker, SumRefuses, Allocate, Fill, FillDone, writerVars, passVars
<1>5. CASE PackFails \/ Pack \/ WriteDone \/ HeaderFails \/ Override \/ ReadProfile
  BY <1>5 DEF FileInv, PackFails, Pack, WriteDone, HeaderFails, Override, ReadProfile, writerVars, passVars
<1>6. CASE ParseFails \/ Parse \/ CreateImage \/ ReadRows \/ RowsFail
  BY <1>6 DEF FileInv, ParseFails, Parse, AfterParse, CreateImage, ReadRows, RowsFail, writerVars, passVars
<1>7. CASE UNCHANGED vars
  BY <1>7 DEF FileInv, vars, writerVars, passVars
<1> QED
  BY <1>1, <1>2, <1>3, <1>4, <1>5, <1>6, <1>7 DEF Next, Ended

LEMMA ScanStep ==
  ASSUME TypeOK, FileInv, ScanInv, [Next]_vars
  PROVE  ScanInv'
<1>1. CASE WriteMarker \/ Edit
  <2>1. Scanning /\ at = 0 /\ \A s \in SeqNos : ~marker_present[s]
    BY <1>1 DEF WriteMarker, Edit, Scanning, FileInv, ScanInv
  <2> QED
    BY <1>1, <2>1 DEF WriteMarker, Edit, ScanInv, Scanning, writerVars, passVars
<1>2. CASE ScanMarker
  <2> DEFINE i == at + 1
  <2>1. /\ i \in DOMAIN markers /\ at \in Nat /\ at' = i /\ markers[i].icc
        /\ markers' = markers /\ length' = length /\ pc' = pc /\ pc = "scan"
    <3>1. at \in Nat /\ at < Len(markers) /\ markers \in Seq(Markers)
      BY <1>2 DEF TypeOK, ScanMarker
    <3>2. i \in DOMAIN markers
      BY <3>1
    <3> QED
      BY <1>2, <3>1, <3>2 DEF ScanMarker, Marker, writerVars
  <2>2. markers[i] \in Markers /\ markers[i].num = Byte(Pieces(length))
    BY <2>1, MarkerIsPiece DEF TypeOK
  <2>3. /\ num_markers' = NumSaid /\ NumSaid = markers[i].num
        /\ markers[i].seq > 0 /\ markers[i].seq <= NumSaid
        /\ marker_present' = [marker_present EXCEPT ![markers[i].seq] = TRUE]
        /\ data_length' = [data_length EXCEPT ![markers[i].seq] = markers[i].length]
    BY <1>2 DEF ScanMarker, Consistent, Marker
  <2>4. markers[i].seq \in SeqNos /\ num_markers' # 0
    BY <2>2, <2>3, FormatJPGAssumption DEF Markers, SeqNos
  <2> HIDE DEF i
  <2>5. num_markers' \in {0, Byte(Pieces(length'))}
    BY <2>1, <2>2, <2>3
  <2>6. \A j \in 1 .. at' : j = i \/ j \in 1 .. at
    BY <2>1 DEF i
  <2>7. \A j \in 1 .. at' : markers'[j].icc =>
          num_markers' # 0 /\ markers'[j].seq \in SeqNos /\ marker_present'[markers'[j].seq]
    BY <2>1, <2>3, <2>4, <2>6 DEF ScanInv, TypeOK
  <2>8. ASSUME NEW s \in SeqNos, marker_present'[s]
        PROVE  /\ \E j \in 1 .. at' : markers'[j].icc /\ markers'[j].seq = s
               /\ s <= num_markers'
               /\ \E j \in DOMAIN markers' :
                    markers'[j].icc /\ markers'[j].seq = s /\ data_length'[s] = markers'[j].length
    <3>1. CASE s = markers[i].seq
      <4>1. i \in 1 .. at'
        BY <2>1 DEF i
      <4>2. data_length'[s] = markers[i].length
        BY <2>3, <2>4, <3>1 DEF TypeOK
      <4> QED
        BY <2>1, <2>3, <3>1, <4>1, <4>2
    <3>2. CASE s # markers[i].seq
      <4>1. marker_present[s] /\ data_length'[s] = data_length[s]
        BY <2>3, <2>8, <3>2 DEF TypeOK
      <4>2. PICK j \in 1 .. at : markers[j].icc /\ markers[j].seq = s
        BY <2>1, <4>1 DEF ScanInv, Scanning
      <4>3. j \in 1 .. at'
        BY <2>1 DEF i
      <4>4. num_markers # 0
        BY <2>1, <4>2 DEF ScanInv
      <4>5. num_markers' = num_markers
        BY <2>3, <4>4 DEF NumSaid
      <4> QED
        BY <2>1, <4>1, <4>2, <4>3, <4>5 DEF ScanInv
    <3> QED
      BY <3>1, <3>2
  <2>9. pc' = "scan"
    BY <2>1
  <2> QED
    BY <2>5, <2>7, <2>8, <2>9 DEF ScanInv
<1>3. CASE ScanForeign
  <2>1. at \in Nat /\ at' = at + 1 /\ ~markers[at + 1].icc
    BY <1>3 DEF ScanForeign, Marker, TypeOK
  <2>2. \A j \in 1 .. at' : j = at + 1 \/ j \in 1 .. at
    BY <2>1
  <2>3. \A j \in 1 .. at : j \in 1 .. at'
    BY <2>1
  <2> QED
    BY <1>3, <2>1, <2>2, <2>3 DEF ScanForeign, ScanInv, Scanning, writerVars, passVars
<1>4. CASE ScanDone
  <2>1. DOMAIN markers = 1 .. at
    BY <1>4 DEF ScanDone, TypeOK
  <2> QED
    BY <1>4, <2>1 DEF ScanDone, ScanInv, Scanning, writerVars, passVars
<1>5. CASE ReadProfile
  <2>1. 1 .. at = {}
    BY <1>5 DEF ReadProfile, FileInv
  <2> QED
    BY <1>5, <2>1 DEF ReadProfile, ScanInv, Scanning, writerVars, passVars
<1>6. CASE SumMarker \/ SumRefuses \/ Allocate
  BY <1>6 DEF SumMarker, SumRefuses, Allocate, ScanInv, Scanning, writerVars, passVars
<1>7. CASE Fill \/ FillDone \/ ScanRefuses
  BY <1>7 DEF Fill, FillDone, ScanRefuses, ScanInv, Scanning, writerVars, passVars
<1>8. CASE PackFails \/ Pack \/ WriteDone \/ HeaderFails \/ Override
  BY <1>8 DEF PackFails, Pack, WriteDone, HeaderFails, Override, ScanInv, Scanning, writerVars, passVars
<1>9. CASE ParseFails \/ Parse \/ CreateImage \/ ReadRows \/ RowsFail
  BY <1>9 DEF ParseFails, Parse, CreateImage, ReadRows, RowsFail, ScanInv, Scanning, writerVars, passVars
<1>10. CASE UNCHANGED vars
  BY <1>10 DEF vars, ScanInv, Scanning, writerVars, passVars
<1> QED
  BY <1>1, <1>2, <1>3, <1>4, <1>5, <1>6, <1>7, <1>8, <1>9, <1>10 DEF Next, Ended

LEMMA SumStep ==
  ASSUME TypeOK, FileInv, ScanInv, SumInv, [Next]_vars
  PROVE  SumInv'
<1>1. CASE ScanMarker
  <2>1. seq_no = 1 /\ seq_no' = 1 /\ total_length' = total_length /\ length' = length
        /\ pc' = "scan"
    BY <1>1 DEF ScanMarker, SumInv, writerVars
  <2>2. num_markers' \in Nat
    BY <1>1, TypeStep DEF TypeOK
  <2> QED
    BY <2>1, <2>2 DEF SumInv, Fits
<1>2. CASE SumMarker
  <2> DEFINE s == seq_no
  <2>1. /\ s \in SeqNos /\ s <= num_markers /\ marker_present[s] /\ seq_no' = s + 1
        /\ num_markers' = num_markers /\ marker_present' = marker_present
        /\ total_length' = total_length + data_length[s]
        /\ data_offset' = [data_offset EXCEPT ![s] = total_length]
        /\ length' = length /\ pc' = "sum" /\ at' = at /\ markers' = markers
        /\ pc = "sum" /\ num_markers \in Nat /\ s \in Nat \ {0}
    BY <1>2, FormatJPGAssumption DEF SumMarker, Present, TypeOK, SeqNos, writerVars
  <2> HIDE DEF s
  <2>2. seq_no' - 1 = s /\ seq_no - 1 = s - 1
    BY <2>1 DEF s
  <2>3. \A t \in 1 .. (seq_no' - 1) : t = s \/ t \in 1 .. (seq_no - 1)
    BY <2>1, <2>2
  <2>4. PICK i \in DOMAIN markers :
          markers[i].icc /\ markers[i].seq = s /\ data_length[s] = markers[i].length
    BY <2>1 DEF ScanInv
  <2>5. ASSUME Fits
        PROVE  /\ total_length' = Sent(length, s)
               /\ \A t \in 1 .. (seq_no' - 1) : data_offset'[t] = Sent(length, t - 1)
    <3>1. length \in Nat /\ markers[i] = PieceAt(length, s)
      BY <2>4, <2>5, MarkerIsPiece
    <3>2. data_length[s] = Sent(length, s) - Sent(length, s - 1)
      BY <2>4, <3>1 DEF PieceAt
    <3>3. total_length = Sent(length, s - 1)
      BY <2>2, <2>5 DEF SumInv
    <3>4. Sent(length, s) \in Nat /\ Sent(length, s - 1) \in Nat
      <4>1. s - 1 \in Nat
        BY <2>1
      <4>2. \A k \in Nat : Sent(length, k) \in Nat
        BY <3>1, SentNat
      <4> QED
        BY <2>1, <4>1, <4>2
    <3>5. total_length' = Sent(length, s)
      BY <2>1, <3>2, <3>3, <3>4
    <3>6. \A t \in 1 .. (seq_no - 1) : t \in SeqNos /\ t # s
      <4>1. seq_no - 1 = s - 1 /\ s \in 1 .. ByteMax /\ ByteMax \in Nat
        BY <2>1, <2>2, FormatJPGAssumption DEF SeqNos
      <4>2. \A t \in 1 .. (s - 1) : t \in 1 .. ByteMax /\ t # s
        BY <4>1
      <4> QED
        BY <4>1, <4>2 DEF SeqNos
    <3>7. \A t \in 1 .. (seq_no' - 1) : data_offset'[t] = Sent(length, t - 1)
      BY <2>1, <2>3, <2>5, <3>3, <3>6 DEF SumInv, TypeOK
    <3> QED
      BY <3>5, <3>7
  <2>6. Fits' <=> Fits
    BY <2>1 DEF Fits
  <2>7. \A t \in 1 .. (seq_no' - 1) : marker_present'[t]
    BY <2>1, <2>3 DEF SumInv
  <2>8. at' = Len(markers')
    BY <2>1 DEF SumInv
  <2> QED
    BY <2>1, <2>2, <2>5, <2>6, <2>7, <2>8 DEF SumInv
<1>3. CASE ScanDone \/ ScanForeign \/ ScanRefuses \/ Edit \/ WriteMarker
  BY <1>3 DEF ScanDone, ScanForeign, ScanRefuses, Edit, WriteMarker, SumInv, Fits, writerVars, passVars
<1>4. CASE Allocate \/ SumRefuses \/ Fill \/ FillDone
  BY <1>4 DEF Allocate, SumRefuses, Fill, FillDone, SumInv, Fits, writerVars, passVars
<1>5. CASE PackFails \/ Pack \/ WriteDone \/ HeaderFails \/ Override \/ ReadProfile
  BY <1>5 DEF PackFails, Pack, WriteDone, HeaderFails, Override, ReadProfile, SumInv, Fits, writerVars, passVars
<1>6. CASE ParseFails \/ Parse \/ CreateImage \/ ReadRows \/ RowsFail
  BY <1>6 DEF ParseFails, Parse, CreateImage, ReadRows, RowsFail, SumInv, Fits, writerVars, passVars
<1>7. CASE UNCHANGED vars
  BY <1>7 DEF vars, SumInv, Fits, writerVars, passVars
<1> QED
  BY <1>1, <1>2, <1>3, <1>4, <1>5, <1>6, <1>7 DEF Next, Ended

LEMMA FillStep ==
  ASSUME TypeOK, FileInv, ScanInv, SumInv, FillInv, [Next]_vars
  PROVE  FillInv'
<1>1. CASE Allocate
  <2>1. /\ length' = length /\ total_length' = total_length /\ at' = 0
        /\ icc_data' = [i \in 0 .. (total_length - 1) |-> Unset]
        /\ seq_no > num_markers /\ num_markers # 0
    BY <1>1 DEF Allocate, ScanInv, writerVars
  <2>2. 1 .. at' = {}
    BY <2>1
  <2>3. ASSUME Fits
        PROVE  total_length = length
    <3>1. length \in Nat /\ Pieces(length) \in Nat
      BY PiecesHoldAll, FormatJPGAssumption DEF TypeOK
    <3>2. num_markers = Pieces(length)
      BY <2>1, <2>3, <3>1, ByteHolds, FormatJPGAssumption DEF ScanInv, Fits
    <3>3. seq_no - 1 \in Nat /\ seq_no - 1 >= Pieces(length)
      BY <2>1, <3>1, <3>2 DEF TypeOK
    <3>4. total_length = Sent(length, seq_no - 1)
      BY <2>3 DEF SumInv
    <3>5. Sent(length, seq_no - 1) = length
      BY <3>1, <3>3, PiecesHoldAll
    <3> QED
      BY <3>4, <3>5
  <2> QED
    BY <2>1, <2>2, <2>3 DEF FillInv, Fits
<1>2. CASE Fill
  <2> SUFFICES ASSUME Fits
               PROVE  FillInv'
    BY <1>2 DEF Fill, FillInv, Fits, writerVars
  <2> DEFINE j == at + 1
  <2>1. /\ j \in DOMAIN markers /\ at \in Nat /\ at' = j /\ markers' = markers
        /\ total_length' = total_length /\ length' = length /\ pc = "fill" /\ pc' = "fill"
    <3>1. at \in Nat /\ at < Len(markers) /\ markers \in Seq(Markers)
      BY <1>2 DEF TypeOK, Fill
    <3>2. j \in DOMAIN markers
      BY <3>1
    <3> QED
      BY <1>2, <3>1, <3>2 DEF Fill, writerVars
  <2>2. icc_data' = IF markers[j].icc THEN Filled(markers[j]) ELSE icc_data
    BY <1>2 DEF Fill, Marker
  <2>3. \A k \in 1 .. at' : k = j \/ k \in 1 .. at
    BY <2>1
  <2>4. /\ total_length = length
        /\ DOMAIN icc_data = 0 .. (length - 1)
        /\ \A i \in DOMAIN icc_data : icc_data[i] \in {i, Unset}
        /\ \A k \in 1 .. at : markers[k].icc =>
             \A i \in DOMAIN icc_data :
               markers[k].from <= i /\ i < markers[k].from + markers[k].length => icc_data[i] = i
    BY <2>1 DEF FillInv
  <2> HIDE DEF j
  <2>5. CASE ~markers[j].icc
    BY <2>1, <2>2, <2>3, <2>4, <2>5 DEF FillInv
  <2>6. CASE markers[j].icc
    <3> DEFINE m == markers[j]
               s == markers[j].seq
    <3>1. /\ s \in 1 .. Pieces(length) /\ m = PieceAt(length, s) /\ m.num = Pieces(length)
          /\ length \in Nat /\ Pieces(length) \in Nat
      BY <2>1, <2>6, MarkerIsPiece
    <3>2. s \in SeqNos /\ marker_present[s] /\ num_markers # 0
      BY <2>1, <2>6 DEF ScanInv
    <3>3. num_markers = Pieces(length)
      BY <3>1, <3>2, ByteHolds, FormatJPGAssumption DEF ScanInv, Fits
    <3>4. s \in 1 .. (seq_no - 1)
      BY <2>1, <3>1, <3>3 DEF SumInv, TypeOK
    <3>5. data_offset[s] = Sent(length, s - 1)
      BY <3>4 DEF SumInv
    <3>6. data_length[s] = Sent(length, s) - Sent(length, s - 1)
      <4>1. PICK i \in DOMAIN markers :
              markers[i].icc /\ markers[i].seq = s /\ data_length[s] = markers[i].length
        BY <3>2 DEF ScanInv
      <4>2. markers[i] = PieceAt(length, s)
        BY <4>1, MarkerIsPiece
      <4> QED
        BY <4>1, <4>2 DEF PieceAt
    <3>7. m.from = Sent(length, s - 1) /\ m.length = Sent(length, s) - Sent(length, s - 1)
      BY <3>1 DEF PieceAt
    <3>8. m.from \in Nat /\ m.length \in Int
      <4>1. s \in Nat /\ s - 1 \in Nat
        BY <3>1
      <4>2. \A k \in Nat : Sent(length, k) \in Nat
        BY <3>1, SentNat
      <4> QED
        BY <3>7, <4>1, <4>2
    <3>9. data_offset[s] = m.from /\ data_length[s] = m.length
      BY <3>5, <3>6, <3>7
    <3>10. icc_data' = [i \in DOMAIN icc_data |->
              IF i >= m.from /\ i < m.from + m.length THEN m.from + (i - m.from) ELSE icc_data[i]]
      BY <2>2, <2>6, <3>9 DEF Filled
    <3> HIDE DEF m, s
    <3>11. \A i \in DOMAIN icc_data : i \in Int
      BY <2>4, <3>1
    <3>12. /\ DOMAIN icc_data' = DOMAIN icc_data
           /\ \A i \in DOMAIN icc_data' :
                icc_data'[i] = IF i >= m.from /\ i < m.from + m.length THEN i ELSE icc_data[i]
      BY <3>8, <3>10, <3>11
    <3>13. \A k \in 1 .. at' : markers'[k].icc => \A i \in DOMAIN icc_data' :
             markers'[k].from <= i /\ i < markers'[k].from + markers'[k].length => icc_data'[i] = i
      <4>1. ASSUME NEW k \in 1 .. at', markers'[k].icc, NEW i \in DOMAIN icc_data',
                   markers'[k].from <= i, i < markers'[k].from + markers'[k].length
            PROVE  icc_data'[i] = i
        <5>1. CASE k = j
          BY <2>1, <3>8, <3>11, <3>12, <4>1, <5>1 DEF m
        <5>2. CASE k \in 1 .. at
          BY <2>1, <2>4, <3>12, <4>1, <5>2
        <5> QED
          BY <2>3, <5>1, <5>2
      <4> QED
        BY <4>1
    <3> QED
      BY <2>1, <2>4, <3>12, <3>13 DEF FillInv
  <2> QED
    BY <2>5, <2>6
<1>3. CASE pc' # "fill"
  BY <1>3 DEF FillInv
<1>4. CASE UNCHANGED vars
  BY <1>4 DEF vars, FillInv, Fits, writerVars, passVars
<1>5. CASE WriteMarker \/ Edit \/ ScanForeign \/ ScanMarker \/ SumMarker
  BY <1>3, <1>5 DEF WriteMarker, Edit, ScanForeign, ScanMarker, SumMarker
<1>6. CASE PackFails \/ Pack \/ WriteDone \/ HeaderFails \/ Override \/ ReadProfile
  BY <1>3, <1>6 DEF PackFails, Pack, WriteDone, HeaderFails, Override, ReadProfile
<1>7. CASE ScanRefuses \/ ScanDone \/ SumRefuses \/ FillDone
  BY <1>3, <1>7 DEF ScanRefuses, ScanDone, SumRefuses, FillDone
<1>8. CASE ParseFails \/ Parse \/ CreateImage \/ ReadRows \/ RowsFail
  BY <1>3, <1>8 DEF ParseFails, Parse, CreateImage, ReadRows, RowsFail
<1> QED
  BY <1>1, <1>2, <1>4, <1>5, <1>6, <1>7, <1>8 DEF Next, Ended

\* The buffer holds the profile when the last pass is through.
LEMMA FilledIsWhole ==
  ASSUME TypeOK, FileInv, ScanInv, SumInv, FillInv, Fits, FillDone
  PROVE  Whole
<1>1. /\ length \in Nat /\ Pieces(length) \in Nat
      /\ total_length = length /\ DOMAIN icc_data = 0 .. (length - 1)
      /\ \A j \in DOMAIN markers : markers[j].icc =>
           \A i \in DOMAIN icc_data :
             markers[j].from <= i /\ i < markers[j].from + markers[j].length => icc_data[i] = i
  <2>1. length \in Nat /\ Pieces(length) \in Nat
    BY PiecesHoldAll, FormatJPGAssumption DEF TypeOK
  <2>2. pc = "fill" /\ DOMAIN markers = 1 .. at
    BY DEF TypeOK, FillDone
  <2> QED
    BY <2>1, <2>2 DEF FillInv
<1>2. num_markers = Pieces(length) /\ seq_no - 1 >= Pieces(length)
  BY <1>1, ByteHolds, FormatJPGAssumption DEF ScanInv, SumInv, FillDone, Fits, TypeOK
<1>3. ASSUME NEW i \in 0 .. (length - 1)
      PROVE  icc_data[i] = i
  <2>1. PICK s \in 1 .. Pieces(length) : Sent(length, s - 1) <= i /\ i < Sent(length, s)
    BY <1>1, ByteInPiece
  <2>2. s \in 1 .. (seq_no - 1) /\ s \in SeqNos
    BY <1>1, <1>2, FormatJPGAssumption DEF TypeOK, SeqNos, Fits
  <2>3. PICK j \in DOMAIN markers : markers[j].icc /\ markers[j].seq = s
    BY <2>2 DEF SumInv, ScanInv
  <2>4. markers[j] = PieceAt(length, s)
    BY <2>3, MarkerIsPiece
  <2>5. markers[j].from = Sent(length, s - 1)
        /\ markers[j].length = Sent(length, s) - Sent(length, s - 1)
    BY <2>4 DEF PieceAt
  <2>6. Sent(length, s - 1) \in Nat /\ Sent(length, s) \in Nat
    <3>1. s \in Nat /\ s - 1 \in Nat
      BY <1>1
    <3>2. \A k \in Nat : Sent(length, k) \in Nat
      BY <1>1, SentNat
    <3> QED
      BY <3>1, <3>2
  <2>7. markers[j].from <= i /\ i < markers[j].from + markers[j].length
    BY <1>1, <2>1, <2>5, <2>6
  <2> QED
    BY <1>1, <2>3, <2>7
<1> QED
  BY <1>1, <1>3 DEF Whole

\* A file as it was written, of more markers than a byte counts, is not read to the end.
LEMMA OverflowIsNoticed ==
  ASSUME TypeOK, FileInv, ScanInv, pc = "fill", ~Fits
  PROVE  edited
<1> SUFFICES ASSUME ~edited PROVE FALSE
  BY DEF TypeOK
<1>1. length \in Nat /\ Pieces(length) \in Nat /\ cur_marker - 1 \in Nat
  BY PiecesHoldAll, FormatJPGAssumption DEF TypeOK
<1>2. left = 0 /\ left = length - Sent(length, cur_marker - 1) /\ Len(markers) = cur_marker - 1
  BY DEF FileInv
<1>3. Sent(length, cur_marker - 1) = length
  <2>1. Sent(length, cur_marker - 1) \in Nat
    BY <1>1, SentNext
  <2> QED
    BY <1>1, <1>2, <2>1
<1>4. Len(markers) >= Pieces(length)
  BY <1>1, <1>2, <1>3, PiecesHoldAll
<1>5. ByteMax + 1 \in DOMAIN markers
  BY <1>1, <1>4, FormatJPGAssumption DEF Fits, TypeOK
<1>6. markers[ByteMax + 1] = PieceAt(length, ByteMax + 1)
  BY <1>5 DEF FileInv
<1>7. markers[ByteMax + 1].icc /\ markers[ByteMax + 1].seq = 0
  BY <1>6, ByteHolds DEF PieceAt
<1>8. markers[ByteMax + 1].seq \in SeqNos
  BY <1>5, <1>7 DEF ScanInv
<1> QED
  BY <1>7, <1>8, FormatJPGAssumption DEF SeqNos

LEMMA FoundStep ==
  ASSUME TypeOK, FileInv, ScanInv, SumInv, FillInv, FoundInv, [Next]_vars
  PROVE  FoundInv'
<1>1. CASE FillDone
  <2>1. /\ pc = "fill" /\ pc' = "parse" /\ found'
        /\ edited' = edited /\ length' = length
        /\ total_length' = total_length /\ icc_data' = icc_data
    BY <1>1 DEF FillDone, writerVars, passVars
  <2>2. (Fits /\ Whole) \/ (edited /\ ~Fits)
    BY <1>1, <2>1, FilledIsWhole, OverflowIsNoticed
  <2>3. (Fits' <=> Fits) /\ (Whole' <=> Whole)
    BY <2>1 DEF Fits, Whole
  <2> QED
    BY <2>1, <2>2, <2>3 DEF FoundInv
<1>2. CASE WriteMarker \/ Edit \/ ScanForeign \/ ScanMarker \/ SumMarker
  BY <1>2 DEF WriteMarker, Edit, ScanForeign, ScanMarker, SumMarker, FoundInv
<1>3. CASE PackFails \/ Pack \/ WriteDone \/ HeaderFails \/ Override \/ ReadProfile
  BY <1>3 DEF PackFails, Pack, WriteDone, HeaderFails, Override, ReadProfile, FoundInv
<1>4. CASE ScanRefuses \/ ScanDone \/ SumRefuses \/ Allocate \/ Fill
  BY <1>4 DEF ScanRefuses, ScanDone, SumRefuses, Allocate, Fill, FoundInv
<1>5. CASE ParseFails \/ Parse \/ CreateImage \/ ReadRows \/ RowsFail
  BY <1>5 DEF ParseFails, Parse, CreateImage, ReadRows, RowsFail, FoundInv, Fits, Whole,
              writerVars, passVars
<1>6. CASE UNCHANGED vars
  BY <1>6 DEF vars, FoundInv, Fits, Whole, writerVars, passVars
<1> QED
  BY <1>1, <1>2, <1>3, <1>4, <1>5, <1>6 DEF Next, Ended

LEMMA LiveStep ==
  ASSUME FoundInv, LiveInv, [Next]_vars
  PROVE  LiveInv'
<1> USE DEF LiveInv, OnlyImageKept
<1>1. CASE WriteMarker \/ Edit \/ ScanForeign \/ ScanMarker \/ SumMarker
  BY <1>1 DEF WriteMarker, Edit, ScanForeign, ScanMarker, SumMarker
<1>2. CASE PackFails \/ Pack \/ WriteDone \/ HeaderFails \/ Override \/ ReadProfile
  BY <1>2 DEF PackFails, Pack, WriteDone, HeaderFails, Override, ReadProfile
<1>3. CASE ScanRefuses \/ ScanDone \/ SumRefuses
  BY <1>3 DEF ScanRefuses, ScanDone, SumRefuses
<1>4. CASE Allocate \/ Fill \/ FillDone
  BY <1>4 DEF Allocate, Fill, FillDone
<1>5. CASE ParseFails
  BY <1>5 DEF ParseFails, FoundInv
<1>6. CASE Parse
  BY <1>6 DEF Parse, AfterParse
<1>7. CASE CreateImage \/ ReadRows \/ RowsFail
  BY <1>7 DEF CreateImage, ReadRows, RowsFail
<1>8. CASE UNCHANGED vars
  BY <1>8 DEF vars
<1> QED
  BY <1>1, <1>2, <1>3, <1>4, <1>5, <1>6, <1>7, <1>8 DEF Next, Ended

LEMMA StepInv == IInv /\ [Next]_vars => IInv'
BY TypeStep, FileStep, ScanStep, SumStep, FillStep, FoundStep, LiveStep DEF IInv

-----------------------------------------------------------------------------
(* Theorems *)

\* The invariant holds in every reachable state.
THEOREM Invariance == Spec => []IInv
BY InitInv, StepInv, PTL DEF Spec

\* No pass of the reader ever leaves the arrays that are indexed by marker numbers.
THEOREM TypeCorrect == Spec => []TypeOK
<1>1. IInv => TypeOK
  BY DEF IInv
<1> QED
  BY <1>1, Invariance, PTL

\* Whatever other programs did to the markers, a profile that is found is the one that
\* was written, unless it has more pieces than a byte counts and the file was edited.
THEOREM FoundProfileIsWritten == Spec => []FoundIsWritten
<1>1. IInv => FoundIsWritten
  <2> SUFFICES ASSUME IInv, found, ~Whole
               PROVE  edited /\ Chunks > ByteMax
    BY DEF FoundIsWritten
  <2>1. edited /\ ~(Pieces(length) <= ByteMax)
    BY DEF IInv, FoundInv, Fits
  <2>2. Chunks = Pieces(length)
    BY DEF Chunks, Pieces
  <2>3. Pieces(length) \in Nat
    BY PiecesHoldAll, FormatJPGAssumption DEF IInv, TypeOK
  <2> QED
    BY <2>1, <2>2, <2>3, FormatJPGAssumption
<1> QED
  BY <1>1, Invariance, PTL

\* What the reader holds when it returns is the image, but for the two known leaks.
THEOREM ReaderKeepsImageOnly == Spec => []OnlyImageKept
<1>1. IInv => OnlyImageKept
  BY DEF IInv, LiveInv
<1> QED
  BY <1>1, Invariance, PTL

\* With every marker there once, no pass refuses the file.
LEMMA CompleteIsNotRefused ==
  ASSUME IInv, Complete
  PROVE  ~ScanRefuses /\ ~SumRefuses
<1>1. /\ length \in Nat /\ Pieces(length) \in Nat /\ Chunks = Pieces(length)
      /\ Pieces(length) \in SeqNos
      /\ TypeOK /\ FileInv /\ ScanInv /\ SumInv
  BY PiecesHoldAll, FormatJPGAssumption DEF IInv, TypeOK, Complete, Chunks, Pieces
<1>2. Fits /\ Byte(Pieces(length)) = Pieces(length)
  BY <1>1, ByteHolds, FormatJPGAssumption DEF Fits, SeqNos
<1>3. ASSUME ScanRefuses
      PROVE  FALSE
  <2>1. /\ at \in Nat /\ markers \in Seq(Markers) /\ pc = "scan" /\ at <= Len(markers)
        /\ \/ at < Len(markers) /\ Marker.icc /\ ~Consistent
           \/ at = Len(markers) /\ num_markers = 0
    BY <1>1, <1>3 DEF ScanRefuses, TypeOK
  <2>2. CASE at < Len(markers) /\ Marker.icc /\ ~Consistent
    <3> DEFINE i == at + 1
    <3>1. i \in DOMAIN markers /\ markers[i].icc /\ Marker = markers[i]
      BY <2>1, <2>2 DEF Marker
    <3> HIDE DEF i
    <3>2. markers[i].seq \in 1 .. Pieces(length) /\ markers[i].num = Pieces(length)
      BY <1>1, <1>2, <3>1, MarkerIsPiece
    <3>3. NumSaid = Pieces(length)
      BY <1>1, <1>2, <3>1, <3>2 DEF NumSaid, ScanInv
    <3>4. markers[i].seq \in SeqNos /\ marker_present[markers[i].seq]
      BY <1>1, <1>2, <2>2, <3>1, <3>2, <3>3, FormatJPGAssumption DEF Consistent, SeqNos, Fits
    <3>5. PICK j \in 1 .. at : markers[j].icc /\ markers[j].seq = markers[i].seq
      BY <1>1, <2>1, <3>4 DEF ScanInv, Scanning
    <3>6. j \in DOMAIN markers /\ j # i
      BY <2>1 DEF i
    <3> QED
      BY <3>1, <3>5, <3>6 DEF Complete
  <2>3. CASE at = Len(markers) /\ num_markers = 0
    <3>1. PICK i \in DOMAIN markers : markers[i].icc /\ markers[i].seq = 1
      BY <1>1, FormatJPGAssumption DEF Complete, SeqNos
    <3>2. i \in 1 .. at
      BY <2>1, <2>3
    <3> QED
      BY <1>1, <2>1, <2>3, <3>1, <3>2 DEF ScanInv
  <2> QED
    BY <2>1, <2>2, <2>3
<1>4. ASSUME SumRefuses
      PROVE  FALSE
  <2>1. /\ pc = "sum" /\ num_markers # 0
        /\ \/ seq_no <= num_markers /\ ~marker_present[seq_no]
           \/ seq_no > num_markers /\ total_length = 0
    BY <1>1, <1>4 DEF SumRefuses, ScanInv, Present
  <2>2. num_markers = Pieces(length) /\ seq_no \in Nat \ {0}
    BY <1>1, <1>2, <2>1, FormatJPGAssumption DEF ScanInv, TypeOK
  <2>3. CASE seq_no <= num_markers /\ ~marker_present[seq_no]
    <3>1. seq_no \in 1 .. Chunks
      BY <1>1, <2>2, <2>3
    <3>2. PICK i \in DOMAIN markers : markers[i].icc /\ markers[i].seq = seq_no
      BY <3>1 DEF Complete
    <3> QED
      BY <1>1, <2>1, <2>3, <3>2 DEF ScanInv
  <2>4. CASE seq_no > num_markers /\ total_length = 0
    <3>1. seq_no - 1 \in Nat /\ seq_no - 1 >= Pieces(length)
      BY <1>1, <2>2, <2>4
    <3>2. total_length = length
      <4>1. Sent(length, seq_no - 1) = length
        BY <1>1, <3>1, PiecesHoldAll
      <4> QED
        BY <1>1, <1>2, <4>1 DEF SumInv
    <3>3. Sent(length, 0) = 0
      BY <1>1, SentNext
    <3>4. 0 >= Pieces(length)
      BY <1>1, <2>4, <3>2, <3>3, PiecesHoldAll
    <3> QED
      BY <1>1, <3>4 DEF SeqNos
  <2> QED
    BY <2>1, <2>3, <2>4
<1> QED
  BY <1>3, <1>4

\* A file that has every marker once, in whatever order and among others, is not refused.
THEOREM CompleteProfileIsFound == Spec => CompleteIsFound
<1>1. IInv => [Complete => ~ScanRefuses /\ ~SumRefuses]_vars
  BY CompleteIsNotRefused
<1> QED
  BY <1>1, Invariance, PTL DEF CompleteIsFound

=============================================================================
