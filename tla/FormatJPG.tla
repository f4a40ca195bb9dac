-------------------------------- MODULE FormatJPG --------------------------------
(***************************************************************************)
(* lib/src/format_jpg.c: an ICC profile goes into a JPEG file in pieces,   *)
(* one per APP2 marker, and is put together again by the reader.  Between  *)
(* the two, other programs may reorder, drop or repeat markers and add     *)
(* their own.  Pixels are left out: what they become is in module Image.   *)
(*                                                                         *)
(* A byte of the profile stands for its own position, so that a profile is *)
(* right when byte i of it is i.                                           *)
(***************************************************************************)
EXTENDS Integers, Sequences, Functions

CONSTANTS ByteMax,      \* 255, the largest marker number
          MaxData,      \* MAX_DATA_BYTES_IN_MARKER
          Lengths,      \* profile sizes enumerated
          MaxMarkers,   \* bound of the markers in an edited file
          Unset         \* a byte of a new buffer

ASSUME FormatJPGAssumption ==
  /\ ByteMax \in Nat \ {0}
  /\ MaxData \in Nat \ {0}
  /\ Lengths \subseteq Nat
  /\ MaxMarkers \in Nat
  /\ Unset \notin Nat

VARIABLES pc,
          length,        \* rawProfile.size, 0 when it is not to be written
          left,          \* icc_data_len of the writer
          cur_marker,
          markers,       \* the markers of the file, in order
          edited,        \* another program rewrote the file
          at,            \* the markers the current pass of the reader is done with
          num_markers, marker_present, data_length, data_offset,
          seq_no, total_length,
          icc_data,      \* the reassembled profile, a function of positions
          found,         \* what read_icc_profile returned
          live,          \* allocations of the reader that are not freed
          returned       \* what the reader returned

writerVars == <<length, left, cur_marker>>
passVars   == <<num_markers, marker_present, data_length, data_offset, seq_no, total_length, icc_data>>
vars == <<pc, writerVars, markers, edited, at, passVars, found, live, returned>>

SeqNos == 1 .. ByteMax

Init ==
  /\ pc = "pack"
  /\ length \in Lengths
  /\ left = length
  /\ cur_marker = 1
  /\ markers = <<>>
  /\ edited = FALSE
  /\ at = 0
  /\ num_markers = 0
  /\ marker_present = [s \in SeqNos |-> FALSE]
  /\ data_length = [s \in SeqNos |-> 0]
  /\ data_offset = [s \in SeqNos |-> 0]
  /\ seq_no = 1 /\ total_length = 0
  /\ icc_data = <<>>
  /\ found = FALSE
  /\ live = {}
  /\ returned = "nothing"

-----------------------------------------------------------------------------
(* clFormatWriteJPG and write_icc_profile *)

\* Mutant: the numbers of a marker are wider than a byte.
Word(n) == n % (ByteMax + 2)

Byte(n) == n % (ByteMax + 1)    \* jpeg_write_m_byte

Lesser(m, n) == IF m < n THEN m ELSE n

\* Rounding up, of course.
Chunks == IF (length \div MaxData) * MaxData = length THEN length \div MaxData
                                                       ELSE (length \div MaxData) + 1

\* clProfilePack fails: nothing is written.
PackFails ==
  /\ pc = "pack"
  /\ pc' = "done"
  /\ UNCHANGED <<writerVars, markers, edited, at, passVars, found, live, returned>>

Pack ==
  /\ pc = "pack"
  /\ pc' = "write"
  /\ UNCHANGED <<writerVars, markers, edited, at, passVars, found, live, returned>>

\* The next marker: its number, how many there are, and its bytes of the profile.
Piece ==
  [icc |-> TRUE, seq |-> Byte(cur_marker), num |-> Byte(Chunks),
   from |-> length - left, length |-> Lesser(left, MaxData)]

WriteMarker ==
  /\ pc = "write" /\ left > 0
  /\ markers' = Append(markers, Piece)
  /\ left' = left - Piece.length
  /\ cur_marker' = cur_marker + 1
  /\ UNCHANGED <<pc, length, edited, at, passVars, found, live, returned>>

WriteDone ==
  /\ pc = "write" /\ left = 0
  /\ pc' = "file"
  /\ UNCHANGED <<writerVars, markers, edited, at, passVars, found, live, returned>>

-----------------------------------------------------------------------------
(* The file, in the hands of other programs *)

\* An APP2 marker of another kind, which marker_is_icc tells apart.
Foreign == [icc |-> FALSE, seq |-> 0, num |-> 0, from |-> 0, length |-> 0]

\* Markers lost, repeated, reordered and added, in any way.
Edit ==
  /\ pc = "file" /\ ~edited
  /\ \E n \in 0 .. MaxMarkers : markers' \in [1 .. n -> Range(markers) \cup {Foreign}]
  /\ edited' = TRUE
  /\ UNCHANGED <<pc, writerVars, at, passVars, found, live, returned>>

-----------------------------------------------------------------------------
(* clFormatReadJPG *)

\* my_error_exit returns to setjmp while there is no image: a file that is no JPEG.
HeaderFails ==
  /\ pc = "file"
  /\ pc' = "done"
  /\ UNCHANGED <<writerVars, markers, edited, at, passVars, found, live, returned>>

\* The profile given with --iccin is cloned, and the one in the file not looked at.
Override ==
  /\ pc = "file"
  /\ pc' = "image"
  /\ live' = live \cup {"profile"}
  /\ UNCHANGED <<writerVars, markers, edited, at, passVars, found, returned>>

ReadProfile ==
  /\ pc = "file"
  /\ pc' = "scan"
  /\ UNCHANGED <<writerVars, markers, edited, at, passVars, found, live, returned>>

-----------------------------------------------------------------------------
(* read_icc_profile: "This first pass over the saved markers" *)

Marker == markers[at + 1]

ScanForeign ==
  /\ pc = "scan" /\ at < Len(markers)
  /\ ~Marker.icc
  /\ at' = at + 1
  /\ UNCHANGED <<pc, writerVars, markers, edited, passVars, found, live, returned>>

\* The number of markers as the first of them says.
NumSaid == IF num_markers = 0 THEN Marker.num ELSE num_markers

\* Mutant: the markers have to be in the order of their numbers.
ConsistentInOrder ==
  /\ NumSaid = Marker.num
  /\ Marker.seq > 0 /\ Marker.seq <= NumSaid
  /\ ~marker_present[Marker.seq]
  /\ \A s \in 1 .. (Marker.seq - 1) : marker_present[s]

\* Neither inconsistent, nor bogus, nor a duplicate.
Consistent ==
  /\ NumSaid = Marker.num
  /\ Marker.seq > 0 /\ Marker.seq <= NumSaid
  /\ ~marker_present[Marker.seq]

ScanMarker ==
  /\ pc = "scan" /\ at < Len(markers)
  /\ Marker.icc /\ Consistent
  /\ num_markers' = NumSaid
  /\ marker_present' = [marker_present EXCEPT ![Marker.seq] = TRUE]
  /\ data_length' = [data_length EXCEPT ![Marker.seq] = Marker.length]
  /\ at' = at + 1
  /\ UNCHANGED <<pc, writerVars, markers, edited, data_offset, seq_no, total_length, icc_data,
                 found, live, returned>>

ScanRefuses ==
  /\ pc = "scan"
  /\ \/ at < Len(markers) /\ Marker.icc /\ ~Consistent
     \/ at = Len(markers) /\ num_markers = 0
  /\ pc' = "image"
  /\ UNCHANGED <<writerVars, markers, edited, at, passVars, found, live, returned>>

ScanDone ==
  /\ pc = "scan" /\ at = Len(markers) /\ num_markers # 0
  /\ pc' = "sum"
  /\ UNCHANGED <<writerVars, markers, edited, at, passVars, found, live, returned>>

-----------------------------------------------------------------------------
(* "Check for missing markers, count total space needed" *)

\* Mutant: a marker that is missing counts as empty.
PresentOrEmpty(s) == s \in SeqNos

Present(s) == marker_present[s]

SumMarker ==
  /\ pc = "sum" /\ seq_no <= num_markers
  /\ Present(seq_no)
  /\ data_offset' = [data_offset EXCEPT ![seq_no] = total_length]
  /\ total_length' = total_length + data_length[seq_no]
  /\ seq_no' = seq_no + 1
  /\ UNCHANGED <<pc, writerVars, markers, edited, at, num_markers, marker_present, data_length,
                 icc_data, found, live, returned>>

SumRefuses ==
  /\ pc = "sum"
  /\ \/ seq_no <= num_markers /\ ~Present(seq_no)
     \/ seq_no > num_markers /\ total_length = 0
  /\ pc' = "image"
  /\ UNCHANGED <<writerVars, markers, edited, at, passVars, found, live, returned>>

Allocate ==
  /\ pc = "sum" /\ seq_no > num_markers /\ total_length > 0
  /\ icc_data' = [i \in 0 .. (total_length - 1) |-> Unset]
  /\ live' = live \cup {"iccData"}
  /\ at' = 0
  /\ pc' = "fill"
  /\ UNCHANGED <<writerVars, markers, edited, num_markers, marker_present, data_length, data_offset,
                 seq_no, total_length, found, returned>>

-----------------------------------------------------------------------------
(* "and fill it in" *)

\* The buffer with the bytes of a marker where the offset of its number says.
Filled(m) ==
  LET start == data_offset[m.seq]
  IN  [i \in DOMAIN icc_data |->
         IF i >= start /\ i < start + data_length[m.seq] THEN m.from + (i - start) ELSE icc_data[i]]

Fill ==
  /\ pc = "fill" /\ at < Len(markers)
  /\ icc_data' = IF Marker.icc THEN Filled(Marker) ELSE icc_data
  /\ at' = at + 1
  /\ UNCHANGED <<pc, writerVars, markers, edited, num_markers, marker_present, data_length,
                 data_offset, seq_no, total_length, found, live, returned>>

FillDone ==
  /\ pc = "fill" /\ at = Len(markers)
  /\ found' = TRUE
  /\ pc' = "parse"
  /\ UNCHANGED <<writerVars, markers, edited, at, passVars, live, returned>>

-----------------------------------------------------------------------------
(* clFormatReadJPG, with what read_icc_profile returned *)

\* "can't parse JPEG embedded ICC profile"
ParseFails ==
  /\ pc = "parse"
  /\ pc' = "done"
  /\ UNCHANGED <<writerVars, markers, edited, at, passVars, found, live, returned>>

\* Mutant: the bytes the profile was parsed from are kept.
AfterParseKept == live \cup {"profile"}

\* The profile is there, its bytes are freed.
AfterParse == (live \cup {"profile"}) \ {"iccData"}

Parse ==
  /\ pc = "parse"
  /\ live' = AfterParse
  /\ pc' = "image"
  /\ UNCHANGED <<writerVars, markers, edited, at, passVars, found, returned>>

\* The image has a clone of the profile, if there is one; the profile is destroyed.
CreateImage ==
  /\ pc = "image"
  /\ live' = (live \ {"profile"}) \cup {"image"}
  /\ pc' = "rows"
  /\ UNCHANGED <<writerVars, markers, edited, at, passVars, found, returned>>

ReadRows ==
  /\ pc = "rows"
  /\ returned' = "image"
  /\ pc' = "done"
  /\ UNCHANGED <<writerVars, markers, edited, at, passVars, found, live>>

\* my_error_exit returns to setjmp after image was assigned.  The variable is not
\* volatile: it may have its value of then, NULL, and the image is not destroyed.
RowsFail ==
  /\ pc = "rows"
  /\ live' \in {live, live \ {"image"}}
  /\ pc' = "done"
  /\ UNCHANGED <<writerVars, markers, edited, at, passVars, found, returned>>

Ended == pc = "done" /\ UNCHANGED vars

Next ==
  \/ PackFails \/ Pack \/ WriteMarker \/ WriteDone
  \/ Edit
  \/ HeaderFails \/ Override \/ ReadProfile
  \/ ScanForeign \/ ScanMarker \/ ScanRefuses \/ ScanDone
  \/ SumMarker \/ SumRefuses \/ Allocate
  \/ Fill \/ FillDone
  \/ ParseFails \/ Parse \/ CreateImage \/ ReadRows \/ RowsFail \/ Ended

Spec == Init /\ [][Next]_vars

-----------------------------------------------------------------------------
(* Properties *)

Markers ==
  [icc : BOOLEAN, seq : 0 .. ByteMax, num : 0 .. ByteMax, from : Nat, length : 0 .. MaxData]

\* Every variable has its type; a pass never runs past the arrays of markers, which
\* MAX_SEQ_NO makes as large as a byte can count.
TypeOK ==
  /\ pc \in {"pack", "write", "file", "scan", "sum", "fill", "parse", "image", "rows", "done"}
  /\ length \in Lengths /\ left \in 0 .. length
  /\ cur_marker \in Nat \ {0}
  /\ markers \in Seq(Markers)
  /\ edited \in BOOLEAN
  /\ at \in 0 .. Len(markers)
  /\ num_markers \in 0 .. ByteMax
  /\ marker_present \in [SeqNos -> BOOLEAN]
  /\ data_length \in [SeqNos -> 0 .. MaxData]
  /\ data_offset \in [SeqNos -> Nat]
  /\ seq_no \in 1 .. (ByteMax + 1)
  /\ total_length \in Nat
  /\ found \in BOOLEAN
  /\ live \subseteq {"iccData", "profile", "image"}
  /\ returned \in {"nothing", "image"}

Whole == /\ total_length = length
         /\ DOMAIN icc_data = 0 .. (length - 1)
         /\ \A i \in DOMAIN icc_data : icc_data[i] = i

\* Whatever became of the markers on the way, a profile that is found is the one that
\* was written: lost, repeated and inconsistent markers are noticed, and the order of
\* the file does not matter.  A profile of more pieces than a byte counts is written
\* all the same; only a file of it that lost markers could be taken for whole.
FoundIsWritten == found => Whole \/ (edited /\ Chunks > ByteMax)

\* "Decoders should use the marker sequence numbers to reassemble the profile, rather
\* than assuming that the APP2 markers appear in the correct sequence": with every
\* marker there once, in whatever order and among others, the profile is never refused.
Complete ==
  /\ Chunks \in SeqNos
  /\ \A s \in 1 .. Chunks : \E i \in DOMAIN markers : markers[i].icc /\ markers[i].seq = s
  /\ \A i, j \in DOMAIN markers :
       markers[i].icc /\ markers[j].icc /\ markers[i].seq = markers[j].seq => i = j

CompleteIsFound == [][Complete => ~ScanRefuses /\ ~SumRefuses]_vars

\* When the reader returns, it holds nothing but the image it returns; but for the bytes
\* of a profile that could not be parsed, and an image whose rows failed.
OnlyImageKept ==
  pc = "done" =>
    /\ returned = "image" => live = {"image"}
    /\ live # {} /\ returned = "nothing" => live = {"image"} \/ (live = {"iccData"} /\ found)
=============================================================================
