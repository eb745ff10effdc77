------------------------------ MODULE RegionFile ------------------------------
(***************************************************************************)
(* The region file format as java/world/anvil/region.go writes and reads   *)
(* it: chunk data in whole sectors after the header, and for every slot a  *)
(* location entry of a sector offset and a sector count held in one byte.  *)
(* The region is rewritten as a whole on every save, the slots that are    *)
(* not saved with what reading them gives (flushRegion).                   *)
(*                                                                         *)
(* A chunk is the number of its bytes, compression byte included: chunks   *)
(* of one slot are told apart by their length.                             *)
(***************************************************************************)
EXTENDS Integers

CONSTANTS
  NumSlots,       \* 1024
  SectorSize,     \* 4096
  HeaderSectors,  \* 2
  CountLimit,     \* 256: a location entry keeps the count modulo this
  OffsetLimit,    \* 2^24: and the offset modulo this
  MaxLength       \* bound: bytes of a chunk

ASSUME SizesAssumption ==
  /\ NumSlots \in Nat \ {0} /\ SectorSize \in Nat \ {0} /\ HeaderSectors \in Nat \ {0}
  /\ CountLimit \in Nat \ {0} /\ OffsetLimit \in Nat \ {0} /\ MaxLength \in Nat

Slots == 0 .. NumSlots - 1
Absent == 0
Lengths == 1 .. MaxLength

VARIABLES
  file,  \* [entry: the location table, chunk: which chunk begins at a sector]
  saved  \* [Slots -> lengths] what was saved last in each slot

formatVars == <<file, saved>>

\* The sectors a chunk takes: four bytes of length and the chunk, rounded up.
RoundedDown(len) == (len + 4) \div SectorSize
SectorCount(len) == (len + 4 + SectorSize - 1) \div SectorSize

\* Where slot i would begin, raw being what the slots hold; NumSlots: the file's end.
Layout(raw) ==
  LET sector[i \in 0 .. NumSlots] ==
        IF i = 0 THEN HeaderSectors
        ELSE sector[i - 1] + (IF raw[i - 1] = Absent THEN 0 ELSE SectorCount(raw[i - 1]))
  IN sector

\* writeRegionFile: the location table, and the chunk that begins at a sector.
NoEntry == [offset |-> 0, count |-> 0]
NoChunk == [slot |-> -1, length |-> Absent]

Entry(raw, i) ==
  IF raw[i] = Absent THEN NoEntry
  ELSE [offset |-> Layout(raw)[i] % OffsetLimit, count |-> SectorCount(raw[i]) % CountLimit]

Written(raw) ==
  LET layout == Layout(raw)
      begins(i, s) == raw[i] # Absent /\ layout[i] = s
      chunkAt(s) == IF \E i \in Slots : begins(i, s)
                    THEN LET i == CHOOSE j \in Slots : begins(j, s) IN [slot |-> i, length |-> raw[i]]
                    ELSE NoChunk
  IN [entry |-> [i \in Slots |-> Entry(raw, i)],
      chunk |-> [s \in 0 .. layout[NumSlots] |-> chunkAt(s)]]

\* readRawChunk: what the sectors that slot i points at hold.  Bytes of no chunk and
\* sectors past the end are read errors, which a rewrite takes for an absent slot.
Found(f, i) ==
  LET e == f.entry[i] IN
  IF e.offset < HeaderSectors \/ e.count = 0 \/ e.offset \notin DOMAIN f.chunk THEN NoChunk
  ELSE f.chunk[e.offset]
Read(f, i) == Found(f, i).length

NoChunks == [i \in Slots |-> Absent]

FormatInit == file = Written(NoChunks) /\ saved = NoChunks

\* flushRegion with slot i staged.
ReplacedOnly(f, i, len) == [j \in Slots |-> IF j = i THEN len ELSE Absent]
Rewritten(f, i, len) == [j \in Slots |-> IF j = i THEN len ELSE Read(f, j)]

Save(i, len) ==
  /\ file' = Written(Rewritten(file, i, len))
  /\ saved' = [saved EXCEPT ![i] = len]

FormatNext == \E i \in Slots, len \in Lengths : Save(i, len)

FormatSpec == FormatInit /\ [][FormatNext]_formatVars

---------------------------------------------------------------------------
\* region.go:199: a region file holds every chunk it was given.  Whatever is saved
\* around it, a slot reads as what was saved in it last, and no chunk's bytes run
\* into the header or into the sectors of another.
ReadsBack ==
  \A i \in Slots :
    LET a == file.entry[i] IN
    /\ Read(file, i) = saved[i] /\ Found(file, i).slot \in {i, -1}
    /\ a.count # 0 =>
         /\ a.offset >= HeaderSectors
         /\ \A j \in Slots \ {i} :
              LET b == file.entry[j] IN
              (b.count # 0 /\ a.offset <= b.offset) =>
                a.offset * SectorSize + 4 + Read(file, i) <= b.offset * SectorSize
=============================================================================
