----------------------------- MODULE ExifLayout -----------------------------
(***************************************************************************)
(* The APP1 segment of a still (camera3/exynos_exif.c): which attributes a *)
(* still gets and where exynos_exif_create() puts them.  Offsets count from*)
(* the TIFF header, as they do in the segment.  A directory is a count,    *)
(* that many entries of 12 bytes and a link; what does not fit into an     *)
(* entry goes behind the directory and is found by its offset.             *)
(***************************************************************************)
EXTENDS Integers, Sequences, SequencesExt

(* Sizes of Exif.h and of the markers: NUM_SIZE, IFD_SIZE, OFFSET_SIZE, the  *)
(* numbers of entries, APP1 with "Exif" before the TIFF header, and the room *)
(* that is requested beside the thumbnail (EXIF_FILE_SIZE).                 *)
NumSize == 2
IfdSize == 12
OffsetSize == 4
Num0thTiff == 10
Num0thExif == 22
Num0thGps == 10
Num1thTiff == 9
BeforeTiff == 10
ExifFileSize == 28800

-----------------------------------------------------------------------------
(* Attributes: lengths of the strings, and whether there is a position.     *)

(* exynos_exif_attributes_create_gps(): -1 is "not in the list".  Nobody     *)
(* copies the processing method, so that its length stays 0.                *)
HasGps(list) ==
  /\ list.latitude # -1 /\ list.longitude # -1 /\ list.altitude # -1
  /\ list.timestamp > 0 /\ list.method
  /\ list.latitude # 0 /\ list.longitude # 0

Orientation(rotation) ==
  CASE rotation = 90 -> 6 [] rotation = 180 -> 3 [] rotation = 270 -> 8 [] OTHER -> 1

AttributesOf(device, list, rotation, thumbnail) ==
  [maker |-> device.maker, model |-> device.model, software |-> device.software,
   comment |-> 14, method |-> 0, gps |-> HasGps(list),
   orientation |-> Orientation(rotation), thumbnail |-> thumbnail]

-----------------------------------------------------------------------------
(* The entries of each directory: the bytes behind the directory, 0 for one  *)
(* that holds its value itself, and the directory an entry points to.       *)
Entry(bytes) == [bytes |-> bytes, to |-> "none"]
Inline == Entry(0)
Pointer(to) == [bytes |-> 0, to |-> to]

TiffEntries(a) ==
  <<Inline, Inline, Entry(a.maker + 1), Entry(a.model + 1), Inline, Entry(a.software + 1),
    Entry(20), Inline, Pointer("exif")>>
  \o (IF a.gps THEN <<Pointer("gps")>> ELSE << >>)
ExifEntries(a) ==
  <<Entry(8), Entry(8), Inline, Inline, Inline, Entry(20), Entry(20), Entry(8), Entry(8),
    Entry(8), Entry(8), Entry(8), Inline, Inline, Entry(8), Entry(a.comment + 8), Inline,
    Inline, Inline, Inline, Inline, Inline>>
GpsEntries(a) ==
  <<Inline, Inline, Entry(24), Inline, Entry(24), Inline, Entry(8), Entry(24)>>
  \o (IF a.method > 0 THEN <<Entry(a.method + 8)>> ELSE << >>) \o <<Entry(11)>>
ThumbEntries ==
  <<Inline, Inline, Inline, Inline, Entry(8), Entry(8), Inline, Pointer("thumbnail"), Inline>>

(* The numbers that are written in front of them.                           *)
(* Mutant of TiffCount: the number with the GPS pointer.                    *)
TiffCountWithGps(a) == Num0thTiff
TiffCount(a) == IF a.gps THEN Num0thTiff ELSE Num0thTiff - 1
GpsCount(a) == IF a.method = 0 THEN Num0thGps - 1 ELSE Num0thGps

-----------------------------------------------------------------------------
(* The writer: where the next entry goes, where the next data go, the areas  *)
(* written, the pointers, where the directories really are, where their      *)
(* numbers say that they end and where they do.                             *)
DirectorySize(n) == NumSize + n * IfdSize + OffsetSize
Add(w, area) == [w EXCEPT !.areas = Append(@, area)]

Begin(w, name, n) ==
  [Add(w, <<w.offset, NumSize>>) EXCEPT
     !.pointer = w.offset + NumSize, !.offset = w.offset + DirectorySize(n),
     !.directories = @ \cup {<<name, w.offset>>},
     !.ends = @ \cup {w.offset + NumSize + n * IfdSize}]

(* exynos_exif_write_data(): an entry takes 12 bytes, its data follow the    *)
(* offset.  The GPS entry is filled in when its directory is begun.         *)
WriteData(w, e) ==
  LET entry == Add(w, <<w.pointer, IfdSize>>)
      data  == IF e.bytes > 0 THEN Add(entry, <<w.offset, e.bytes>>) ELSE entry IN
  [data EXCEPT !.pointer = @ + IfdSize, !.offset = @ + e.bytes,
               !.pointers = IF e.to \in {"exif", "thumbnail"} THEN @ \cup {<<e.to, w.offset>>} ELSE @]
Link(w) ==
  [Add(w, <<w.pointer, OffsetSize>>) EXCEPT !.links = @ \cup {w.pointer}, !.pointer = @ + OffsetSize]

Directory(w, name, n, entries) == Link(FoldLeft(WriteData, Begin(w, name, n), entries))
PointTo(w, name) == [w EXCEPT !.pointers = @ \cup {<<name, w.offset>>}]

(* exynos_exif_create(): the four directories, the thumbnail behind them.    *)
Layout(a) ==
  LET start == [pointer |-> 8, offset |-> 8, areas |-> << >>, pointers |-> {},
                directories |-> {}, ends |-> {}, links |-> {}]
      exif  == Directory(Directory(start, "tiff", TiffCount(a), TiffEntries(a)),
                         "exif", Num0thExif, ExifEntries(a))
      gps   == IF a.gps THEN Directory(PointTo(exif, "gps"), "gps", GpsCount(a), GpsEntries(a))
               ELSE exif
      thumb == Directory(PointTo(gps, "thumb"), "thumb", Num1thTiff, ThumbEntries) IN
  [Add(thumb, <<thumb.offset, a.thumbnail>>) EXCEPT
     !.directories = @ \cup {<<"thumbnail", thumb.offset>>}, !.offset = @ + a.thumbnail]

ExifSize(layout) == layout.offset + BeforeTiff
(* exif_app1_size: what its two bytes can say.                              *)
App1Size(layout) == (ExifSize(layout) - 2) % 65536

-----------------------------------------------------------------------------
(* A reader finds everything: every pointer hits its directory, every        *)
(* directory ends where its number of entries says, nothing is              *)
(* written over anything else, all of it is inside the memory that was       *)
(* requested and inside the length that the segment gives itself.           *)
Apart(x, y) == x[1] + x[2] <= y[1] \/ y[1] + y[2] <= x[1]
WellFormed(a) ==
  LET made == Layout(a) IN
  /\ { d \in made.directories : d[1] # "tiff" } = made.pointers
  /\ made.links = made.ends
  /\ \A i, j \in DOMAIN made.areas : i < j => Apart(made.areas[i], made.areas[j])
  /\ \A i \in DOMAIN made.areas : made.areas[i][1] + made.areas[i][2] <= made.offset
  /\ ExifSize(made) <= ExifFileSize + a.thumbnail
  /\ App1Size(made) + 2 = ExifSize(made)
=============================================================================
