-------------------------- MODULE AnvilStorageProofs --------------------------
(***************************************************************************)
(* Types of the region storage; that neither the disk nor a load ever      *)
(* shows half a region file; that the disk moves forward and what is       *)
(* staged is never lost.  All for one Flush at a time: two that overlap    *)
(* tear the temporary file they share.                                     *)
(***************************************************************************)
EXTENDS AnvilStorage, RegionFile, WellFoundedInduction, TLAPS

OneFlusher == \A f, g \in Flushers : f = g
NoReadErrors == MaxReadErrors = 0

---------------------------------------------------------------------------
(* Types. *)

Column == [Chunks -> Versions]
LoadType ==
  /\ lpc \in [Loaders -> {"idle", "read"}] /\ lchunk \in [Loaders -> Chunks \cup {None}]
  /\ lopen \in [Loaders -> Inodes \cup {None}] /\ lfloor \in [Loaders -> Versions \cup {-1}]
BoundType == writeErrors \in Nat /\ readErrors \in Nat /\ crashes \in Nat
Typed == FileType /\ FlushType /\ LoadType /\ BoundType

LEMMA Columns ==
  /\ Empty \in Column
  /\ \A p, t \in Column : Restored(p, t) \in Column
BY DEF Empty, Column, Versions, Restored

LEMMA DiskValues ==
  ASSUME Typed
  PROVE  /\ \A i \in Inodes, c \in Chunks : ReadSlot(i, c) \in Nat \cup {-1}
         /\ \A c \in Chunks : OnDisk(c) \in Nat \cup {-1}
<1>1. \A i \in Inodes, c \in Chunks : ReadSlot(i, c) \in Nat \cup {-1}
  BY DEF Typed, FileType, ReadSlot, Versions
<1>2. QED
  BY <1>1, RegionAssumption DEF Typed, FileType, OnDisk

LEMMA TypedStep == Typed /\ [Next]_vars => Typed'
<1> SUFFICES ASSUME Typed, [Next]_vars PROVE Typed'
  OBVIOUS
<1> USE DEF Typed, FileType, FlushType, LoadType, BoundType, fileVars, flushVars, loadVars, boundVars
<1>1. ASSUME NEW c \in Chunks, SaveChunk(c) PROVE Typed'
  BY <1>1 DEF SaveChunk, Versions
<1>2. ASSUME NEW f \in Flushers, TakeStage(f) PROVE Typed'
  <2>1. {RegionOf[c] : c \in {d \in Chunks : pending[d] # 0}} \in SUBSET Regions
    BY RegionAssumption
  <2> QED
    BY <1>2, <2>1, Columns DEF TakeStage, Column
<1>3. ASSUME NEW f \in Flushers, NEW r \in Regions, ReadRegion(f, r) PROVE Typed'
  <2>1. PICK dropped \in SUBSET {c \in Chunks : RegionOf[c] = r} :
          /\ IF dropped = {} THEN UNCHANGED readErrors
             ELSE readErrors < MaxReadErrors /\ readErrors' = readErrors + 1
          /\ image' = [image EXCEPT ![f] = Merged(f, r, dropped)]
    BY <1>3 DEF ReadRegion
  <2>2. Merged(f, r, dropped) \in [Chunks -> Versions]
    BY DiskValues DEF Merged, Versions
  <2>3. readErrors' \in Nat
    BY <2>1
  <2> QED
    BY <1>3, <2>1, <2>2, <2>3 DEF ReadRegion
<1>4. ASSUME NEW f \in Flushers, CreateTemp(f) PROVE Typed'
  <2>1. PICK i \in Inodes :
          /\ temp' = [temp EXCEPT ![at[f]] = i] /\ open' = [open EXCEPT ![f] = i]
          /\ body' = [body EXCEPT ![i] = Empty] /\ header' = [header EXCEPT ![i] = Empty]
    BY <1>4 DEF CreateTemp
  <2>2. /\ temp' \in [Regions -> Inodes \cup {None}] /\ open' \in [Flushers -> Inodes \cup {None}]
        /\ body' \in [Inodes -> [Chunks -> Versions]] /\ header' \in [Inodes -> [Chunks -> Versions]]
    BY <2>1, Columns DEF Column
  <2> QED
    BY <1>4, <2>2 DEF CreateTemp
<1>5. ASSUME NEW f \in Flushers, WriteBody(f) \/ WriteHeader(f) \/ Rename(f) PROVE Typed'
  <2>1. CASE WriteBody(f)
    BY <2>1 DEF WriteBody
  <2>2. CASE WriteHeader(f)
    BY <2>2 DEF WriteHeader
  <2>3. CASE Rename(f)
    BY <2>3, Columns DEF Rename, MovedAway, Column
  <2> QED
    BY <1>5, <2>1, <2>2, <2>3
<1>6. ASSUME NEW f \in Flushers, Done(f) PROVE FlushType'
  BY <1>6, Columns DEF Done, Column
<1>7. ASSUME NEW f \in Flushers, FinishFlush(f) PROVE Typed'
  BY <1>6, <1>7 DEF FinishFlush
<1>8. ASSUME NEW f \in Flushers, FlushFails(f) PROVE Typed'
  <2>1. pending' \in [Chunks -> Versions]
    BY <1>8, Columns DEF FlushFails, Column
  <2>2. writeErrors' \in Nat
    BY <1>8 DEF FlushFails
  <2> QED
    BY <1>6, <1>8, <2>1, <2>2 DEF FlushFails
<1>9. ASSUME NEW l \in Loaders, NEW c \in Chunks, OpenRegion(l, c) PROVE Typed'
  BY <1>9, DiskValues, RegionAssumption DEF OpenRegion, Versions
<1>10. ASSUME NEW l \in Loaders, ReadChunk(l) PROVE Typed'
  BY <1>10 DEF ReadChunk, Versions
<1>11. CASE Crash
  <2>1. latest' \in [Chunks -> Versions]
    BY <1>11, DiskValues DEF Crash, Versions
  <2> QED
    BY <1>11, <2>1, Columns DEF Crash, Versions, Column
<1>12. CASE UNCHANGED vars
  BY <1>12 DEF vars
<1>13. QED
  BY <1>1, <1>2, <1>3, <1>4, <1>5, <1>7, <1>8, <1>9, <1>10, <1>11, <1>12 DEF Next, FlushStep

LEMMA AlwaysTyped == Spec => []Typed
<1>1. Init => Typed
  BY Columns DEF Init, Typed, FileType, FlushType, LoadType, BoundType, Column, Versions
<1>2. QED
  BY <1>1, TypedStep, PTL DEF Spec

---------------------------------------------------------------------------
(* Files.  A region file is whole, and so is one a load has open; only the *)
(* temporary file of a region is being written.                            *)

Busy(f) == fpc[f] \in {"create", "body", "header", "rename"}

Apart ==
  \A r, q \in Regions :
    /\ region[r] # None => region[r] # temp[q] /\ (r # q => region[r] # region[q])
    /\ temp[r] # None /\ r # q => temp[r] # temp[q]

Whole(i) == body[i] = header[i]

Writes(f) ==
  /\ Busy(f) => at[f] \in Regions
  /\ fpc[f] \in {"body", "header"} => open[f] \in Inodes /\ open[f] = temp[at[f]]
  /\ fpc[f] = "header" => body[open[f]] = image[f]
  /\ fpc[f] = "rename" =>
       temp[at[f]] \in Inodes /\ body[temp[at[f]]] = image[f] /\ header[temp[at[f]]] = image[f]

Reads(l) ==
  /\ lpc[l] = "read" => lchunk[l] \in Chunks /\ Loaded(l) = lfloor[l]
  /\ lpc[l] = "idle" => lopen[l] = None
  /\ lopen[l] # None => Whole(lopen[l]) /\ \A q \in Regions : lopen[l] # temp[q]

RegionsWhole == \A r \in Regions : region[r] # None => Whole(region[r])

Filed ==
  /\ Apart /\ RegionsWhole
  /\ \A f \in Flushers : Writes(f)
  /\ \A l \in Loaders : Reads(l)

\* A write to the temporary file shows neither in a region file nor in an open one.
LEMMA OnlyScratch ==
  ASSUME Typed, NEW j \in Inodes,
         \A i \in Inodes : i # j => body'[i] = body[i] /\ header'[i] = header[i],
         \A r \in Regions : region[r] # j, \A l \in Loaders : lopen[l] # j,
         UNCHANGED <<region, loadVars>>
  PROVE  /\ RegionsWhole => RegionsWhole'
         /\ \A c \in Chunks : OnDisk(c)' = OnDisk(c)
         /\ \A l \in Loaders : Loaded(l)' = Loaded(l)
         /\ \A l \in Loaders : lopen[l] # None /\ Whole(lopen[l]) => body'[lopen[l]] = header'[lopen[l]]
<1>1. \A r \in Regions : region[r] # None =>
        body'[region[r]] = body[region[r]] /\ header'[region[r]] = header[region[r]]
  BY DEF Typed, FileType
<1>2. \A l \in Loaders : lopen[l] # None =>
        body'[lopen[l]] = body[lopen[l]] /\ header'[lopen[l]] = header[lopen[l]]
  BY DEF Typed, LoadType
<1>3. RegionsWhole => RegionsWhole'
  BY <1>1 DEF RegionsWhole, Whole
<1>4. \A c \in Chunks : OnDisk(c)' = OnDisk(c)
  BY <1>1, RegionAssumption DEF OnDisk, ReadSlot
<1>5. \A l \in Loaders : Loaded(l)' = Loaded(l)
  BY <1>2 DEF Loaded, ReadSlot, loadVars
<1>6. QED
  BY <1>2, <1>3, <1>4, <1>5 DEF Whole

\* Where nothing is written, nothing changes.
LEMMA FilesStay ==
  ASSUME UNCHANGED <<region, body, header>>
  PROVE  /\ RegionsWhole => RegionsWhole'
         /\ \A c \in Chunks : OnDisk(c)' = OnDisk(c)
         /\ UNCHANGED loadVars => \A l \in Loaders : Loaded(l)' = Loaded(l)
BY DEF RegionsWhole, Whole, OnDisk, ReadSlot, Loaded, loadVars

LEMMA LoadsStay ==
  ASSUME Filed, UNCHANGED <<region, temp, body, header, loadVars>>
  PROVE  Apart' /\ RegionsWhole' /\ \A l \in Loaders : Reads(l)'
<1>1. Apart' /\ RegionsWhole'
  BY FilesStay DEF Filed, Apart
<1>2. \A l \in Loaders : Loaded(l)' = Loaded(l)
  BY FilesStay
<1>3. QED
  BY <1>1, <1>2 DEF Filed, Reads, Whole, loadVars

LEMMA CreateFiled ==
  ASSUME Typed, Filed, OneFlusher, NEW f \in Flushers, CreateTemp(f)
  PROVE  Filed' /\ \A c \in Chunks : OnDisk(c)' = OnDisk(c)
<1>1. PICK i \in Inodes :
        /\ IF temp[at[f]] # None THEN i = temp[at[f]] ELSE Fresh(i)
        /\ temp' = [temp EXCEPT ![at[f]] = i] /\ open' = [open EXCEPT ![f] = i]
        /\ body' = [body EXCEPT ![i] = Empty] /\ header' = [header EXCEPT ![i] = Empty]
  BY DEF CreateTemp, Scratch
<1>2. at[f] \in Regions /\ fpc[f] = "create"
  BY DEF Filed, Writes, Busy, CreateTemp
<1>3. i # None
  BY InodesAssumption
<1>4. /\ \A r \in Regions : region[r] # i /\ (r # at[f] => temp[r] # i)
      /\ \A l \in Loaders : lopen[l] # i
  <2>1. CASE temp[at[f]] # None
    BY <1>1, <1>2, <1>3, <2>1 DEF Filed, Apart, Reads
  <2>2. CASE temp[at[f]] = None
    BY <1>1, <1>2, <2>2 DEF Fresh, Referenced
  <2> QED
    BY <2>1, <2>2
<1>5. UNCHANGED <<region, loadVars, at>> /\ fpc' = [fpc EXCEPT ![f] = "body"]
  BY DEF CreateTemp
<1>6. /\ RegionsWhole' /\ \A c \in Chunks : OnDisk(c)' = OnDisk(c)
      /\ \A l \in Loaders : Loaded(l)' = Loaded(l)
      /\ \A l \in Loaders : lopen[l] # None /\ Whole(lopen[l]) => body'[lopen[l]] = header'[lopen[l]]
  <2>1. \A j \in Inodes : j # i => body'[j] = body[j] /\ header'[j] = header[j]
    BY <1>1 DEF Typed, FileType
  <2> QED
    <3>1. RegionsWhole /\ UNCHANGED <<region, loadVars>>
      BY <1>5 DEF Filed
    <3>2. (\A r \in Regions : region[r] # i) /\ \A l \in Loaders : lopen[l] # i
      BY <1>4
    <3> QED
      BY <2>1, <3>1, <3>2, OnlyScratch
<1>7. \A r \in Regions : temp'[r] = IF r = at[f] THEN i ELSE temp[r]
  BY <1>1 DEF Typed, FileType
<1>8. Apart'
  BY <1>4, <1>5, <1>7 DEF Filed, Apart
<1>9. \A l \in Loaders : Reads(l)'
  <2> TAKE l \in Loaders
  <2>1. Reads(l) /\ UNCHANGED <<lpc, lchunk, lopen, lfloor>> /\ Loaded(l)' = Loaded(l)
    BY <1>5, <1>6 DEF Filed, loadVars
  <2>2. lopen[l] # None => body'[lopen[l]] = header'[lopen[l]]
    BY <1>6, <2>1 DEF Reads
  <2>3. lopen[l] # None => \A q \in Regions : lopen[l] # temp'[q]
    BY <1>4, <1>7, <2>1 DEF Reads
  <2> QED
    BY <2>1, <2>2, <2>3 DEF Reads, Whole
<1>10. \A g \in Flushers : Writes(g)'
  <2> SUFFICES Writes(f)'
    BY DEF OneFlusher
  <2>1. fpc'[f] = "body" /\ open'[f] = i /\ temp'[at[f]] = i
    BY <1>1, <1>2, <1>5 DEF Typed, FlushType, FileType
  <2> QED
    BY <1>2, <1>5, <2>1 DEF Writes, Busy
<1>11. QED
  BY <1>6, <1>8, <1>9, <1>10 DEF Filed

\* The writes into the temporary file.
LEMMA WriteFiled ==
  ASSUME Typed, Filed, OneFlusher, NEW f \in Flushers, WriteBody(f) \/ WriteHeader(f)
  PROVE  Filed' /\ \A c \in Chunks : OnDisk(c)' = OnDisk(c)
<1> DEFINE i == open[f]
<1>1. i \in Inodes /\ i = temp[at[f]] /\ at[f] \in Regions /\ fpc[f] \in {"body", "header"}
  BY DEF Filed, Writes, Busy, WriteBody, WriteHeader
<1>2. UNCHANGED <<region, temp, loadVars, at, image>>
  BY DEF WriteBody, WriteHeader
<1>3. \A j \in Inodes : j # i => body'[j] = body[j] /\ header'[j] = header[j]
  BY DEF WriteBody, WriteHeader, Typed, FileType
<1>4. i # None
  BY <1>1, InodesAssumption
<1>5. (\A r \in Regions : region[r] # i) /\ \A l \in Loaders : lopen[l] # i
  BY <1>1, <1>4 DEF Filed, Apart, Reads
<1>6. /\ RegionsWhole' /\ \A c \in Chunks : OnDisk(c)' = OnDisk(c)
      /\ \A l \in Loaders : Loaded(l)' = Loaded(l)
      /\ \A l \in Loaders : lopen[l] # None /\ Whole(lopen[l]) => body'[lopen[l]] = header'[lopen[l]]
  BY <1>1, <1>2, <1>3, <1>5, OnlyScratch DEF Filed
<1>7. Apart' /\ \A l \in Loaders : Reads(l)'
  BY <1>2, <1>6 DEF Filed, Apart, Reads, Whole, loadVars
<1>8. \A g \in Flushers : Writes(g)'
  <2> SUFFICES Writes(f)'
    BY DEF OneFlusher
  <2>1. CASE WriteBody(f)
    <3>1. fpc'[f] = "header" /\ open'[f] = i /\ body'[i] = image[f]
      BY <1>1, <2>1 DEF WriteBody, Typed, FlushType, FileType
    <3> QED
      BY <1>1, <1>2, <3>1 DEF Writes, Busy
  <2>2. CASE WriteHeader(f)
    <3>1. fpc'[f] = "rename" /\ header'[i] = image[f] /\ body'[i] = image[f]
      BY <1>1, <2>2 DEF WriteHeader, Typed, FlushType, FileType, Filed, Writes
    <3> QED
      BY <1>1, <1>2, <3>1 DEF Writes, Busy
  <2> QED
    BY <2>1, <2>2
<1>9. QED
  BY <1>6, <1>7, <1>8 DEF Filed

\* The rename shows what was written of its own region, and of no other.
LEMMA RenameFiled ==
  ASSUME Typed, Filed, OneFlusher, NEW f \in Flushers, Rename(f)
  PROVE  /\ Filed'
         /\ \A c \in Chunks :
              OnDisk(c)' = IF RegionOf[c] = at[f] THEN image[f][c] ELSE OnDisk(c)
<1> DEFINE i == temp[at[f]]
<1>1. at[f] \in Regions /\ i \in Inodes /\ i # None /\ body[i] = image[f] /\ header[i] = image[f]
  BY InodesAssumption DEF Filed, Writes, Busy, Rename
<1>2. UNCHANGED <<body, header, loadVars>>
  BY DEF Rename
<1>3. \A r \in Regions : /\ region'[r] = IF r = at[f] THEN i ELSE region[r]
                         /\ temp'[r] = IF r = at[f] THEN None ELSE temp[r]
  BY DEF Rename, MovedAway, Typed, FileType
<1>4. Apart'
  BY <1>1, <1>3 DEF Filed, Apart
<1>5. RegionsWhole'
  BY <1>1, <1>2, <1>3 DEF Filed, RegionsWhole, Whole
<1>6. \A l \in Loaders : Reads(l)'
  BY <1>1, <1>2, <1>3 DEF Filed, Reads, Whole, Loaded, ReadSlot, loadVars
<1>7. \A g \in Flushers : Writes(g)'
  <2> SUFFICES Writes(f)'
    BY DEF OneFlusher
  <2>1. fpc'[f] = "next"
    BY DEF Rename, Typed, FlushType
  <2> QED
    BY <2>1 DEF Writes, Busy
<1>8. \A c \in Chunks : OnDisk(c)' = IF RegionOf[c] = at[f] THEN image[f][c] ELSE OnDisk(c)
  <2> TAKE c \in Chunks
  <2>1. RegionOf[c] \in Regions /\ image[f][c] \in Nat
    BY RegionAssumption DEF Typed, FlushType, Versions
  <2>2. CASE RegionOf[c] = at[f]
    BY <1>1, <1>2, <1>3, <2>1, <2>2 DEF OnDisk, ReadSlot
  <2>3. CASE RegionOf[c] # at[f]
    BY <1>2, <1>3, <2>1, <2>3 DEF OnDisk, ReadSlot
  <2> QED
    BY <2>2, <2>3
<1>9. QED
  BY <1>4, <1>5, <1>6, <1>7, <1>8 DEF Filed

LEMMA LoadsFiled ==
  ASSUME Typed, Filed, NEW l \in Loaders, ReadChunk(l) \/ \E c \in Chunks : OpenRegion(l, c)
  PROVE  Filed'
<1>1. UNCHANGED <<fileVars, flushVars>>
  BY DEF ReadChunk, OpenRegion
<1>2. Apart' /\ RegionsWhole' /\ \A f \in Flushers : Writes(f)'
  BY <1>1 DEF Filed, Apart, RegionsWhole, Whole, Writes, Busy, fileVars, flushVars
<1>3. ASSUME NEW k \in Loaders, k # l PROVE Reads(k)'
  <2>1. UNCHANGED <<lpc[k], lchunk[k], lopen[k], lfloor[k]>>
    BY <1>3 DEF ReadChunk, OpenRegion, Typed, LoadType
  <2> QED
    BY <1>1, <2>1 DEF Filed, Reads, Whole, Loaded, ReadSlot, fileVars
<1>4. Reads(l)'
  <2>1. CASE ReadChunk(l)
    <3>1. lpc'[l] = "idle" /\ lopen'[l] = None
      BY <2>1 DEF ReadChunk, Typed, LoadType
    <3> QED
      BY <3>1 DEF Reads
  <2>2. ASSUME NEW c \in Chunks, OpenRegion(l, c) PROVE Reads(l)'
    <3>1. /\ lpc'[l] = "read" /\ lchunk'[l] = c /\ lopen'[l] = region[RegionOf[c]]
          /\ lfloor'[l] = OnDisk(c) /\ RegionOf[c] \in Regions
      BY <2>2, RegionAssumption DEF OpenRegion, Typed, LoadType
    <3>2. Loaded(l)' = OnDisk(c)
      BY <1>1, <3>1 DEF Loaded, OnDisk, ReadSlot, fileVars
    <3> QED
      BY <1>1, <3>1, <3>2 DEF Reads, Filed, Apart, RegionsWhole, Whole, fileVars
  <2> QED
    BY <2>1, <2>2
<1>5. QED
  BY <1>2, <1>3, <1>4 DEF Filed

\* What happens in memory alone.
InMemory ==
  \/ \E c \in Chunks : SaveChunk(c)
  \/ \E f \in Flushers : TakeStage(f) \/ FinishFlush(f) \/ FlushFails(f) \/ \E r \in Regions : ReadRegion(f, r)

LEMMA MemoryFiled ==
  ASSUME Typed, Filed, OneFlusher, InMemory
  PROVE  Filed'
<1>1. UNCHANGED <<fileVars, loadVars>>
  BY DEF InMemory, SaveChunk, TakeStage, FinishFlush, FlushFails, ReadRegion
<1>2. Apart' /\ RegionsWhole' /\ \A l \in Loaders : Reads(l)'
  BY <1>1, LoadsStay DEF fileVars
<1>3. ASSUME NEW f \in Flushers PROVE Writes(f)'
  <2>1. CASE UNCHANGED flushVars
    BY <1>1, <2>1 DEF Filed, Writes, Busy, fileVars, flushVars
  <2>2. CASE fpc'[f] \in {"idle", "next"}
    BY <2>2 DEF Writes, Busy
  <2>3. CASE fpc'[f] = "create" /\ at'[f] \in Regions
    BY <2>3 DEF Writes, Busy
  <2>4. ASSUME NEW g \in Flushers, Done(g) PROVE fpc'[f] = "idle"
    BY <2>4 DEF Done, OneFlusher, Typed, FlushType
  <2>5. ASSUME NEW g \in Flushers, TakeStage(g) PROVE fpc'[f] = "next"
    BY <2>5 DEF TakeStage, OneFlusher, Typed, FlushType
  <2>6. ASSUME NEW g \in Flushers, NEW r \in Regions, ReadRegion(g, r)
        PROVE  fpc'[f] = "create" /\ at'[f] \in Regions
    BY <2>6 DEF ReadRegion, OneFlusher, Typed, FlushType
  <2>7. ASSUME NEW c \in Chunks, SaveChunk(c) PROVE UNCHANGED flushVars
    BY <2>7 DEF SaveChunk
  <2> QED
    BY <2>1, <2>2, <2>3, <2>4, <2>5, <2>6, <2>7 DEF InMemory, FinishFlush, FlushFails
<1>4. QED
  BY <1>2, <1>3 DEF Filed

LEMMA CrashFiled == ASSUME Typed, Filed, Crash PROVE Filed'
<1>1. UNCHANGED fileVars /\ fpc' = [f \in Flushers |-> "idle"]
      /\ lpc' = [l \in Loaders |-> "idle"] /\ lopen' = [l \in Loaders |-> None]
  BY DEF Crash
<1>2. Apart' /\ RegionsWhole'
  BY <1>1 DEF Filed, Apart, RegionsWhole, Whole, fileVars
<1>3. (\A f \in Flushers : Writes(f)') /\ \A l \in Loaders : Reads(l)'
  BY <1>1 DEF Writes, Busy, Reads
<1>4. QED
  BY <1>2, <1>3 DEF Filed

LEMMA FiledStep == OneFlusher /\ Typed /\ Filed /\ [Next]_vars => Filed'
<1> SUFFICES ASSUME OneFlusher, Typed, Filed, [Next]_vars PROVE Filed'
  OBVIOUS
<1>1. CASE InMemory
  BY <1>1, MemoryFiled
<1>2. ASSUME NEW f \in Flushers, CreateTemp(f) \/ WriteBody(f) \/ WriteHeader(f) \/ Rename(f)
      PROVE  Filed'
  BY <1>2, CreateFiled, WriteFiled, RenameFiled
<1>3. ASSUME NEW l \in Loaders, ReadChunk(l) \/ \E c \in Chunks : OpenRegion(l, c) PROVE Filed'
  BY <1>3, LoadsFiled
<1>4. CASE Crash
  BY <1>4, CrashFiled
<1>5. CASE UNCHANGED vars
  <2>1. UNCHANGED <<fileVars, loadVars, flushVars>>
    BY <1>5 DEF vars
  <2>2. Apart' /\ RegionsWhole' /\ \A l \in Loaders : Reads(l)'
    BY <2>1, LoadsStay DEF fileVars
  <2>3. \A f \in Flushers : Writes(f)'
    BY <2>1 DEF Filed, Writes, Busy, fileVars, flushVars
  <2> QED
    BY <2>2, <2>3 DEF Filed
<1>6. QED
  BY <1>1, <1>2, <1>3, <1>4, <1>5 DEF Next, FlushStep, InMemory

LEMMA AlwaysFiled == ASSUME OneFlusher PROVE Spec => []Filed
<1>1. Init => Filed
  BY DEF Init, Filed, Apart, RegionsWhole, Whole, Writes, Busy, Reads
<1>2. QED
  BY <1>1, AlwaysTyped, FiledStep, PTL DEF Spec

\* With one flush at a time every variable of the storage has its type, and no file is
\* reached by two names: what a flush truncates and writes is never a region file.
THEOREM AnvilTypeCorrect == ASSUME OneFlusher PROVE Spec => []TypeOK
<1>1. Typed /\ Filed => TypeOK
  BY DEF Typed, LoadType, BoundType, Filed, Apart, TypeOK
<1>2. QED
  BY <1>1, AlwaysTyped, AlwaysFiled, PTL

\* Wherever the process is killed and whatever fails, no region file on disk is half
\* written, and a load reads in full what the file it opened held.
THEOREM NothingIsTorn == ASSUME OneFlusher PROVE Spec => []NeverTorn
<1>1. Typed /\ Filed => NeverTorn
  <2> SUFFICES ASSUME Typed, Filed PROVE NeverTorn
    OBVIOUS
  <2>1. ASSUME NEW c \in Chunks PROVE OnDisk(c) # -1
    <3>1. RegionOf[c] \in Regions
      BY RegionAssumption
    <3>2. region[RegionOf[c]] # None =>
            ReadSlot(region[RegionOf[c]], c) = body[region[RegionOf[c]]][c]
            /\ body[region[RegionOf[c]]][c] \in Nat
      BY <3>1 DEF Filed, RegionsWhole, Whole, ReadSlot, Typed, FileType, Versions
    <3> QED
      BY <3>2 DEF OnDisk
  <2>2. ASSUME NEW l \in Loaders, lpc[l] = "read" PROVE Loaded(l) >= lfloor[l]
    BY <2>2 DEF Filed, Reads, Typed, LoadType, Versions
  <2> QED
    BY <2>1, <2>2 DEF NeverTorn
<1>2. QED
  BY <1>1, AlwaysTyped, AlwaysFiled, PTL

---------------------------------------------------------------------------
(* Versions.  Of each column the disk has the newest that is neither       *)
(* staged nor in the hands of the flush, and what the flush has is at      *)
(* least as new as the disk.                                               *)

Given(f, c) == IF taken[f][c] # 0 THEN taken[f][c] ELSE OnDisk(c)

Held(f, c) ==
  /\ fpc[f] = "idle" => taken[f][c] = 0
  /\ taken[f][c] # 0 =>
       /\ OnDisk(c) <= taken[f][c] /\ taken[f][c] <= latest[c]
       /\ pending[c] = 0 => taken[f][c] = latest[c]
       /\ RegionOf[c] \notin todo[f] => OnDisk(c) = taken[f][c]
  /\ fpc[f] # "idle" => promise[f][c] <= Given(f, c)
  /\ Busy(f) /\ RegionOf[c] = at[f] => image[f][c] = Given(f, c)
  /\ Busy(f) => at[f] \in todo[f]

KeptOf(c) ==
  /\ OnDisk(c) \in Nat /\ OnDisk(c) <= latest[c] /\ pending[c] \in {0, latest[c]}
  /\ \A f \in Flushers : Held(f, c)
  /\ pending[c] = 0 /\ (\A f \in Flushers : taken[f][c] = 0) => OnDisk(c) = latest[c]

Kept == \A c \in Chunks : KeptOf(c)

LEMMA Numbers ==
  ASSUME Typed
  PROVE  \A c \in Chunks :
           /\ latest[c] \in Nat /\ pending[c] \in Nat /\ RegionOf[c] \in Regions
           /\ \A f \in Flushers :
                taken[f][c] \in Nat /\ promise[f][c] \in Nat /\ image[f][c] \in Nat /\ todo[f] \in SUBSET Regions
BY RegionAssumption DEF Typed, FileType, FlushType, Versions

LEMMA SaveKept == ASSUME Typed, Kept, NEW d \in Chunks, SaveChunk(d) PROVE Kept'
<1> SUFFICES ASSUME NEW c \in Chunks PROVE KeptOf(c)'
  BY DEF Kept
<1>1. UNCHANGED <<fileVars, flushVars>>
  BY DEF SaveChunk
<1>2. OnDisk(c)' = OnDisk(c)
  BY <1>1, FilesStay DEF fileVars
<1>3. /\ latest'[c] = IF c = d THEN latest[c] + 1 ELSE latest[c]
      /\ pending'[c] = IF c = d THEN latest[c] + 1 ELSE pending[c]
  BY DEF SaveChunk, Typed, FileType
<1>4. KeptOf(c) /\ latest[c] \in Nat /\ \A f \in Flushers : taken[f][c] \in Nat
  BY Numbers DEF Kept
<1>5. \A f \in Flushers : Held(f, c)'
  BY <1>1, <1>2, <1>3, <1>4 DEF KeptOf, Held, Given, Busy, flushVars
<1>6. QED
  BY <1>1, <1>2, <1>3, <1>4, <1>5 DEF KeptOf, flushVars

LEMMA TakeKept ==
  ASSUME Typed, Kept, OneFlusher, NEW f \in Flushers, TakeStage(f)
  PROVE  Kept'
<1> SUFFICES ASSUME NEW c \in Chunks PROVE KeptOf(c)'
  BY DEF Kept
<1>1. UNCHANGED <<fileVars, latest>> /\ fpc[f] = "idle"
  BY DEF TakeStage
<1>2. OnDisk(c)' = OnDisk(c)
  BY <1>1, FilesStay DEF fileVars
<1>3. /\ taken'[f] = pending /\ promise'[f] = latest /\ fpc'[f] = "next" /\ pending'[c] = 0
      /\ pending[c] # 0 => RegionOf[c] \in todo'[f]
  BY DEF TakeStage, Typed, FlushType, Empty
<1>4. KeptOf(c) /\ latest[c] \in Nat /\ pending[c] \in Nat /\ taken[f][c] = 0
  BY <1>1, Numbers DEF Kept, KeptOf, Held
<1>5. pending[c] = 0 => OnDisk(c) = latest[c]
  BY <1>4 DEF KeptOf, OneFlusher
<1>6. Held(f, c)'
  BY <1>1, <1>2, <1>3, <1>4, <1>5 DEF KeptOf, Held, Given, Busy
<1>7. (\A g \in Flushers : Held(g, c)') /\ \A g \in Flushers : g = f
  BY <1>6 DEF OneFlusher
<1>8. QED
  BY <1>1, <1>2, <1>3, <1>4, <1>5, <1>7 DEF KeptOf

LEMMA ReadKept ==
  ASSUME Typed, Kept, OneFlusher, NoReadErrors, NEW f \in Flushers, NEW r \in Regions, ReadRegion(f, r)
  PROVE  Kept'
<1> SUFFICES ASSUME NEW c \in Chunks PROVE KeptOf(c)'
  BY DEF Kept
<1>1. UNCHANGED <<fileVars, latest, pending, taken, promise, todo>> /\ fpc[f] = "next" /\ r \in todo[f]
  BY DEF ReadRegion
<1>2. OnDisk(c)' = OnDisk(c)
  BY <1>1, FilesStay DEF fileVars
<1>3. at'[f] = r /\ fpc'[f] = "create"
  BY DEF ReadRegion, Typed, FlushType
<1>4. image'[f] = Merged(f, r, {})
  <2>1. PICK dropped \in SUBSET {d \in Chunks : RegionOf[d] = r} :
          /\ IF dropped = {} THEN UNCHANGED readErrors
             ELSE readErrors < MaxReadErrors /\ readErrors' = readErrors + 1
          /\ image' = [image EXCEPT ![f] = Merged(f, r, dropped)]
    BY DEF ReadRegion
  <2>2. dropped = {}
    BY <2>1 DEF NoReadErrors, Typed, BoundType
  <2> QED
    BY <2>1, <2>2 DEF Typed, FlushType
<1>5. KeptOf(c) /\ taken[f][c] \in Nat /\ OnDisk(c) \in Nat
  BY Numbers DEF Kept, KeptOf
<1>6. RegionOf[c] = r => image'[f][c] = Given(f, c)
  BY <1>4, <1>5 DEF Merged, Replaced, Given
<1>7. Held(f, c)'
  BY <1>1, <1>2, <1>3, <1>5, <1>6 DEF KeptOf, Held, Given, Busy
<1>8. (\A g \in Flushers : Held(g, c)') /\ \A g \in Flushers : g = f
  BY <1>7 DEF OneFlusher
<1>9. QED
  BY <1>1, <1>2, <1>5, <1>8 DEF KeptOf

LEMMA WriteKept ==
  ASSUME Typed, Filed, Kept, OneFlusher, NEW f \in Flushers, CreateTemp(f) \/ WriteBody(f) \/ WriteHeader(f)
  PROVE  Kept'
<1> SUFFICES ASSUME NEW c \in Chunks PROVE KeptOf(c)'
  BY DEF Kept
<1>1. UNCHANGED <<latest, pending, taken, promise, todo, image, at>> /\ Busy(f)
  BY DEF CreateTemp, WriteBody, WriteHeader, Busy
<1>2. OnDisk(c)' = OnDisk(c)
  BY CreateFiled, WriteFiled
<1>3. fpc'[f] \in {"body", "header", "rename"}
  BY DEF CreateTemp, WriteBody, WriteHeader, Typed, FlushType
<1>4. KeptOf(c) /\ Held(f, c) /\ fpc[f] # "idle"
  BY <1>1 DEF Kept, KeptOf, Busy
<1>5. Held(f, c)'
  BY <1>1, <1>2, <1>3, <1>4 DEF Held, Given, Busy
<1>6. (\A g \in Flushers : Held(g, c)') /\ \A g \in Flushers : g = f
  BY <1>5 DEF OneFlusher
<1>7. QED
  BY <1>1, <1>2, <1>4, <1>6 DEF KeptOf

LEMMA RenameKept ==
  ASSUME Typed, Filed, Kept, OneFlusher, NEW f \in Flushers, Rename(f)
  PROVE  Kept' /\ \A c \in Chunks : OnDisk(c)' >= OnDisk(c)
<1> SUFFICES ASSUME NEW c \in Chunks PROVE KeptOf(c)' /\ OnDisk(c)' >= OnDisk(c)
  BY DEF Kept
<1>1. UNCHANGED <<latest, pending, taken, promise>> /\ Busy(f)
  BY DEF Rename, Busy
<1>2. OnDisk(c)' = IF RegionOf[c] = at[f] THEN image[f][c] ELSE OnDisk(c)
  BY RenameFiled
<1>3. fpc'[f] = "next" /\ todo'[f] = todo[f] \ {at[f]}
  BY DEF Rename, Typed, FlushType
<1>4. KeptOf(c) /\ Held(f, c) /\ latest[c] \in Nat /\ taken[f][c] \in Nat /\ OnDisk(c) \in Nat
  BY Numbers DEF Kept, KeptOf
<1>5. OnDisk(c)' = (IF RegionOf[c] = at[f] THEN Given(f, c) ELSE OnDisk(c))
  BY <1>1, <1>2, <1>4 DEF Held
<1>6. OnDisk(c)' >= OnDisk(c) /\ OnDisk(c)' \in Nat /\ OnDisk(c)' <= latest[c]
  BY <1>4, <1>5 DEF Held, Given, KeptOf
<1>7. Held(f, c)'
  BY <1>1, <1>3, <1>4, <1>5 DEF Held, Given, Busy
<1>8. (\A g \in Flushers : Held(g, c)') /\ \A g \in Flushers : g = f
  BY <1>7 DEF OneFlusher
<1>9. taken[f][c] = 0 => OnDisk(c)' = OnDisk(c)
  BY <1>5 DEF Given
<1>10. QED
  BY <1>1, <1>4, <1>6, <1>8, <1>9 DEF KeptOf

LEMMA EndKept ==
  ASSUME Typed, Kept, OneFlusher, NEW f \in Flushers, FinishFlush(f) \/ FlushFails(f)
  PROVE  Kept'
<1> SUFFICES ASSUME NEW c \in Chunks PROVE KeptOf(c)'
  BY DEF Kept
<1>1. UNCHANGED <<fileVars, latest>>
  BY DEF FinishFlush, FlushFails
<1>2. OnDisk(c)' = OnDisk(c)
  BY <1>1, FilesStay DEF fileVars
<1>3. fpc'[f] = "idle" /\ taken'[f][c] = 0
  BY DEF FinishFlush, FlushFails, Done, Typed, FlushType, Empty
<1>4. KeptOf(c) /\ Held(f, c) /\ latest[c] \in Nat /\ taken[f][c] \in Nat /\ OnDisk(c) \in Nat
  BY Numbers DEF Kept, KeptOf
<1>5. \A g \in Flushers : g = f
  BY DEF OneFlusher
<1>6. \A g \in Flushers : Held(g, c)'
  BY <1>3, <1>5 DEF Held, Busy
<1>7. CASE FinishFlush(f)
  <2>1. pending' = pending /\ RegionOf[c] \notin todo[f]
    BY <1>7 DEF FinishFlush
  <2> QED
    BY <1>1, <1>2, <1>4, <1>5, <1>6, <2>1 DEF KeptOf, Held
<1>8. CASE FlushFails(f)
  <2>1. pending'[c] = IF pending[c] # 0 THEN pending[c] ELSE taken[f][c]
    BY <1>8 DEF FlushFails, Restored
  <2> QED
    BY <1>1, <1>2, <1>4, <1>5, <1>6, <2>1 DEF KeptOf, Held
<1>9. QED
  BY <1>7, <1>8

LEMMA CrashKept == ASSUME Typed, Kept, Crash PROVE Kept'
<1> SUFFICES ASSUME NEW c \in Chunks PROVE KeptOf(c)'
  BY DEF Kept
<1>1. UNCHANGED fileVars
  BY DEF Crash
<1>2. OnDisk(c)' = OnDisk(c) /\ OnDisk(c) \in Nat
  BY <1>1, FilesStay DEF fileVars, Kept, KeptOf
<1>3. latest'[c] = OnDisk(c) /\ pending'[c] = 0
  BY <1>2 DEF Crash, Empty
<1>4. \A f \in Flushers : fpc'[f] = "idle" /\ taken'[f][c] = 0
  BY DEF Crash, Empty
<1>5. QED
  BY <1>2, <1>3, <1>4 DEF KeptOf, Held, Busy

\* The disk changes by renames alone.
LEMMA KeptStep ==
  ASSUME OneFlusher, NoReadErrors, Typed, Filed, Kept, [Next]_vars
  PROVE  Kept' /\ \A c \in Chunks : OnDisk(c)' >= OnDisk(c)
<1>d. \A c \in Chunks : OnDisk(c) \in Nat
  BY DEF Kept, KeptOf
<1>1. ASSUME NEW c \in Chunks, SaveChunk(c) PROVE Kept' /\ UNCHANGED fileVars
  BY <1>1, SaveKept DEF SaveChunk
<1>2. ASSUME NEW f \in Flushers, TakeStage(f) PROVE Kept' /\ UNCHANGED fileVars
  BY <1>2, TakeKept DEF TakeStage
<1>3. ASSUME NEW f \in Flushers, NEW r \in Regions, ReadRegion(f, r) PROVE Kept' /\ UNCHANGED fileVars
  BY <1>3, ReadKept DEF ReadRegion
<1>4. ASSUME NEW f \in Flushers, CreateTemp(f) \/ WriteBody(f) \/ WriteHeader(f)
      PROVE  Kept' /\ \A c \in Chunks : OnDisk(c)' = OnDisk(c)
  BY <1>4, WriteKept, CreateFiled, WriteFiled
<1>5. ASSUME NEW f \in Flushers, Rename(f) PROVE Kept' /\ \A c \in Chunks : OnDisk(c)' >= OnDisk(c)
  BY <1>5, RenameKept
<1>6. ASSUME NEW f \in Flushers, FinishFlush(f) \/ FlushFails(f) PROVE Kept' /\ UNCHANGED fileVars
  BY <1>6, EndKept DEF FinishFlush, FlushFails
<1>7. CASE UNCHANGED <<pending, latest, fileVars, flushVars>>
  <2>1. \A c \in Chunks : OnDisk(c)' = OnDisk(c)
    BY <1>7, FilesStay DEF fileVars
  <2> QED
    BY <1>7, <1>d, <2>1 DEF Kept, KeptOf, Held, Given, Busy, flushVars
<1>8. ASSUME NEW l \in Loaders, ReadChunk(l) \/ \E c \in Chunks : OpenRegion(l, c)
      PROVE  UNCHANGED <<pending, latest, fileVars, flushVars>>
  BY <1>8 DEF ReadChunk, OpenRegion
<1>9. CASE Crash
  BY <1>9, CrashKept, FilesStay, <1>d DEF Crash, fileVars
<1>10. UNCHANGED fileVars => \A c \in Chunks : OnDisk(c)' >= OnDisk(c)
  BY <1>d, FilesStay DEF fileVars
<1>11. QED
  BY <1>1, <1>2, <1>3, <1>4, <1>5, <1>6, <1>7, <1>8, <1>9, <1>10, <1>d DEF Next, FlushStep, vars

LEMMA AlwaysKept == ASSUME OneFlusher, NoReadErrors PROVE Spec => []Kept
<1>1. Init => Kept
  BY RegionAssumption DEF Init, Kept, KeptOf, Held, Busy, OnDisk, Empty
<1>2. Kept /\ Typed /\ Filed /\ [Next]_vars => Kept'
  BY KeptStep
<1>3. QED
  BY <1>1, <1>2, AlwaysTyped, AlwaysFiled, PTL DEF Spec

\* With one flush at a time, and regions whose columns can be read, the newest version of
\* a column is staged, in the hands of the flush or on disk, whatever fails.
THEOREM NewestAlwaysKept == ASSUME OneFlusher, NoReadErrors PROVE Spec => []NewestIsKept
<1>1. Typed /\ Kept => NewestIsKept
  <2> SUFFICES ASSUME Typed, Kept, NEW c \in Chunks
               PROVE  latest[c] \in {pending[c], OnDisk(c)} \cup {taken[f][c] : f \in Flushers}
    BY DEF NewestIsKept
  <2>1. CASE pending[c] # 0
    BY <2>1 DEF Kept, KeptOf
  <2>2. CASE pending[c] = 0 /\ \A f \in Flushers : taken[f][c] = 0
    BY <2>2 DEF Kept, KeptOf
  <2>3. CASE pending[c] = 0 /\ \E f \in Flushers : taken[f][c] # 0
    BY <2>3 DEF Kept, KeptOf, Held
  <2> QED
    BY <2>1, <2>2, <2>3
<1>2. QED
  BY <1>1, AlwaysTyped, AlwaysKept, PTL

\* No rewrite of a region, however many of its columns are staged, and no kill takes any
\* column back to an older version.
THEOREM DiskAlwaysForward == ASSUME OneFlusher, NoReadErrors PROVE Spec => DiskMovesForward
<1>1. Typed /\ Filed /\ Kept /\ [Next]_vars => [\A c \in Chunks : OnDisk(c)' >= OnDisk(c)]_vars
  BY KeptStep
<1>2. QED
  BY <1>1, AlwaysTyped, AlwaysFiled, AlwaysKept, PTL DEF Spec, DiskMovesForward

\* A flush that returns without error has every column on disk at least as new as it was
\* staged when the flush began, whatever was staged meanwhile.
THEOREM FlushAlwaysCommits == ASSUME OneFlusher, NoReadErrors PROVE Spec => FlushCommits
<1>1. Typed /\ Kept /\ [Next]_vars =>
        [\A f \in Flushers : FinishFlush(f) => \A c \in Chunks : OnDisk(c) >= promise[f][c]]_vars
  <2> SUFFICES ASSUME Typed, Kept, NEW f \in Flushers, FinishFlush(f), NEW c \in Chunks
               PROVE  OnDisk(c) >= promise[f][c]
    OBVIOUS
  <2>1. Held(f, c) /\ fpc[f] = "next" /\ RegionOf[c] \notin todo[f]
    BY DEF Kept, KeptOf, FinishFlush
  <2>2. promise[f][c] \in Nat /\ OnDisk(c) \in Nat /\ taken[f][c] \in Nat
    BY Numbers DEF Kept, KeptOf
  <2> QED
    BY <2>1, <2>2 DEF Held, Given
<1>2. QED
  BY <1>1, AlwaysTyped, AlwaysKept, PTL DEF Spec, FlushCommits
---------------------------------------------------------------------------
(* The format of a region file.  Induction is on a least counterexample. *)

LEMMA LeastNat ==
  ASSUME NEW T \in SUBSET Nat, T # {}
  PROVE  \E m \in T : \A n \in T : m <= n
<1> DEFINE R == {r \in Nat \X Nat : r[1] < r[2]}
<1>1. IsWellFoundedOn(R, Nat)
  BY NatLessThanWellFounded DEF OpToRel
<1>2. PICK m \in T : \A n \in T : <<n, m>> \notin R
  BY <1>1, WFMin
<1>3. ASSUME NEW n \in T PROVE m <= n
  <2>1. <<n, m>> \notin R
    BY <1>2
  <2>2. n \in Nat /\ m \in Nat
    OBVIOUS
  <2> QED
    BY <2>1, <2>2
<1> QED
  BY <1>3

\* A set of numbers that has 0 and with every number the next has them all.
LEMMA NatInduct ==
  ASSUME NEW P, 0 \in P, \A n \in Nat : n \in P => n + 1 \in P
  PROVE  Nat \subseteq P
<1> SUFFICES ASSUME NEW k \in Nat, k \notin P PROVE FALSE
  OBVIOUS
<1> DEFINE bad == {n \in Nat : n \notin P}
<1>1. bad \in SUBSET Nat /\ bad # {}
  OBVIOUS
<1>2. PICK n \in bad : \A m \in bad : n <= m
  BY <1>1, LeastNat
<1>3. n # 0 /\ n \in Nat
  BY <1>2
<1>4. n - 1 \in Nat /\ n - 1 \notin bad
  BY <1>2, <1>3
<1>5. n - 1 \in P /\ (n - 1) + 1 = n
  BY <1>3, <1>4
<1> QED
  BY <1>2, <1>4, <1>5

\* The longest chunk's sectors can be counted in an entry, and a region full of them
\* ends at a sector that an entry can name.
ChunksFit ==
  /\ SectorCount(MaxLength) < CountLimit
  /\ HeaderSectors + NumSlots * SectorCount(MaxLength) < OffsetLimit

Contents == [Slots -> 0 .. MaxLength]

LEMMA Rounding ==
  ASSUME NEW a \in Nat, NEW b \in Nat \ {0}
  PROVE  (a + b - 1) \div b \in Nat /\ a <= ((a + b - 1) \div b) * b
OBVIOUS

LEMMA RoundingGrows ==
  ASSUME NEW a \in Nat, NEW c \in Nat, a <= c, NEW b \in Nat \ {0}
  PROVE  a \div b <= c \div b
OBVIOUS

LEMMA Remains ==
  ASSUME NEW a \in Nat, NEW b \in Nat \ {0}, a < b
  PROVE  a % b = a
OBVIOUS
LEMMA CountIs ==
  /\ SectorCount(MaxLength) \in Nat
  /\ \A len \in 1 .. MaxLength :
       /\ SectorCount(len) \in Nat \ {0} /\ SectorCount(len) <= SectorCount(MaxLength)
       /\ len + 4 <= SectorCount(len) * SectorSize
<1>1. \A len \in 0 .. MaxLength :
        /\ len + 4 \in Nat /\ len + 4 + SectorSize - 1 \in Nat /\ len + 4 + SectorSize - 1 <= MaxLength + 4 + SectorSize - 1
        /\ MaxLength + 4 + SectorSize - 1 \in Nat /\ MaxLength \in 0 .. MaxLength /\ SectorSize \in Nat \ {0}
  BY SizesAssumption
<1>2. \A len \in 0 .. MaxLength :
        SectorCount(len) \in Nat /\ len + 4 <= SectorCount(len) * SectorSize
  BY <1>1, Rounding DEF SectorCount
<1>3. \A len \in 0 .. MaxLength : SectorCount(len) <= SectorCount(MaxLength)
  BY <1>1, RoundingGrows DEF SectorCount
<1>4. \A n \in Nat : n = 0 => n * SectorSize = 0
  BY SizesAssumption
<1>5. \A len \in 1 .. MaxLength : len \in 0 .. MaxLength /\ 0 < len + 4
  BY SizesAssumption
<1>6. \A len \in 1 .. MaxLength : SectorCount(len) # 0
  <2> SUFFICES ASSUME NEW len \in 1 .. MaxLength, SectorCount(len) = 0 PROVE FALSE
    OBVIOUS
  <2>1. SectorCount(len) * SectorSize = 0
    BY <1>4
  <2> QED
    BY <1>2, <1>5, <2>1
<1>7. MaxLength \in 0 .. MaxLength
  BY SizesAssumption
<1> QED
  BY <1>2, <1>3, <1>5, <1>6, <1>7

Size(raw, i) == IF raw[i] = Absent THEN 0 ELSE SectorCount(raw[i])
Starting(g, raw, i) == IF i = 0 THEN HeaderSectors ELSE g[i - 1] + Size(raw, i - 1)

LEMMA LayoutExists ==
  ASSUME NEW raw
  PROVE  Layout(raw) = [i \in 0 .. NumSlots |-> Starting(Layout(raw), raw, i)]
<1> DEFINE good(n) == \E g : g = [k \in 0 .. n |-> Starting(g, raw, k)]
           P == {n \in Nat : good(n)}
<1>1. good(0)
  <2> DEFINE h == [k \in 0 .. 0 |-> HeaderSectors]
  <2>1. h = [k \in 0 .. 0 |-> Starting(h, raw, k)]
    BY SMT DEF Starting
  <2> QED
    BY <2>1
<1>2. ASSUME NEW n \in Nat, good(n) PROVE good(n + 1)
  <2>1. PICK g : g = [k \in 0 .. n |-> Starting(g, raw, k)]
    BY <1>2
  <2> DEFINE h == [k \in 0 .. n + 1 |-> IF k <= n THEN g[k] ELSE Starting(g, raw, k)]
  <2>2. \A j \in 0 .. n : h[j] = g[j] /\ g[j] = Starting(g, raw, j)
    <3>1. \A j \in 0 .. n : g[j] = Starting(g, raw, j)
      BY <2>1
    <3>2. \A j \in 0 .. n : j \in 0 .. n + 1 /\ j <= n
      OBVIOUS
    <3> QED
      BY <3>1, <3>2
  <2>3. ASSUME NEW k \in 0 .. n + 1 PROVE h[k] = Starting(h, raw, k)
    <3>1. k # 0 => k - 1 \in 0 .. n
      OBVIOUS
    <3>2. h[k] = Starting(g, raw, k)
      <4>1. k <= n => k \in 0 .. n
        OBVIOUS
      <4>2. h[k] = IF k <= n THEN g[k] ELSE Starting(g, raw, k)
        OBVIOUS
      <4> HIDE DEF h
      <4> QED
        BY <4>1, <4>2, <2>2
    <3> HIDE DEF h
    <3>3. k # 0 => h[k - 1] = g[k - 1]
      BY <2>2, <3>1
    <3>4. Starting(h, raw, k) = Starting(g, raw, k)
      BY <3>3 DEF Starting
    <3> QED
      BY <3>2, <3>4
  <2>4. h = [k \in 0 .. n + 1 |-> h[k]]
    OBVIOUS
  <2> HIDE DEF h
  <2>5. h = [k \in 0 .. n + 1 |-> Starting(h, raw, k)]
    BY <2>3, <2>4
  <2> QED
    BY <2>5
<1> HIDE DEF good
<1>3. 0 \in P /\ \A n \in Nat : n \in P => n + 1 \in P
  BY <1>1, <1>2
<1> HIDE DEF P
<1>4. Nat \subseteq P
  BY <1>3, NatInduct
<1>5. good(NumSlots)
  BY <1>4, SizesAssumption DEF P
<1>6. PICK g : g = [i \in 0 .. NumSlots |-> Starting(g, raw, i)]
  BY <1>5 DEF good
<1>7. Layout(raw) = CHOOSE x : x = [i \in 0 .. NumSlots |-> Starting(x, raw, i)]
  BY DEF Layout, Starting, Size
<1> QED
  BY <1>6, <1>7

\* Slots follow one another, each behind all sectors of those before it.
LEMMA LayoutGrows ==
  ASSUME NEW raw \in Contents
  PROVE  LET L == Layout(raw) IN
         /\ \A i \in 0 .. NumSlots : L[i] \in Nat /\ L[i] >= HeaderSectors
                                     /\ L[i] <= HeaderSectors + i * SectorCount(MaxLength)
         /\ \A i \in Slots : Size(raw, i) \in Nat /\ Size(raw, i) <= SectorCount(MaxLength)
         /\ \A j \in 0 .. NumSlots : \A i \in Slots : i < j => L[i] + Size(raw, i) <= L[j]
<1> DEFINE L == Layout(raw)
           K == SectorCount(MaxLength)
<1>k. K \in Nat
  BY CountIs
<1>z. \A i \in Slots : Size(raw, i) \in Nat /\ Size(raw, i) <= K
  <2> SUFFICES ASSUME NEW i \in Slots PROVE Size(raw, i) \in Nat /\ Size(raw, i) <= K
    OBVIOUS
  <2>1. raw[i] = 0 \/ raw[i] \in 1 .. MaxLength
    BY SizesAssumption DEF Contents
  <2> HIDE DEF K
  <2> QED
    BY <1>k, <2>1, CountIs DEF Size, Absent, K
<1>l. \A i \in 0 .. NumSlots : L[i] = Starting(L, raw, i)
  BY LayoutExists
<1>s. HeaderSectors \in Nat /\ NumSlots \in Nat
  BY SizesAssumption
<1> HIDE DEF L, K
<1> DEFINE first(n) ==
             n <= NumSlots => /\ L[n] \in Nat /\ L[n] >= HeaderSectors /\ L[n] <= HeaderSectors + n * K
                              /\ \A i \in Slots : i < n => L[i] \in Nat /\ L[i] + Size(raw, i) <= L[n]
           P == {n \in Nat : first(n)}
<1>1. first(0)
  <2>1. L[0] = HeaderSectors /\ 0 * K = 0
    BY <1>l, <1>k, <1>s DEF Starting
  <2> QED
    BY <2>1, <1>s DEF Slots
<1>2. ASSUME NEW n \in Nat, first(n) PROVE first(n + 1)
  <2> SUFFICES ASSUME n + 1 <= NumSlots
               PROVE  /\ L[n + 1] \in Nat /\ L[n + 1] >= HeaderSectors /\ L[n + 1] <= HeaderSectors + (n + 1) * K
                      /\ \A i \in Slots : i < n + 1 => L[i] \in Nat /\ L[i] + Size(raw, i) <= L[n + 1]
    OBVIOUS
  <2>1. n \in Slots /\ n <= NumSlots /\ n + 1 \in 0 .. NumSlots
    BY <1>s DEF Slots
  <2>2. L[n + 1] = L[n] + Size(raw, n)
    BY <1>l, <2>1 DEF Starting
  <2>3. L[n] \in Nat /\ L[n] >= HeaderSectors /\ L[n] <= HeaderSectors + n * K
    BY <1>2, <2>1
  <2>4. Size(raw, n) \in Nat /\ Size(raw, n) <= K
    BY <1>z, <2>1
  <2>5. (n + 1) * K = n * K + K /\ n * K \in Nat
    BY <1>k
  <2>6. \A i \in Slots : i < n + 1 => L[i] \in Nat /\ L[i] + Size(raw, i) <= L[n + 1]
    <3> SUFFICES ASSUME NEW i \in Slots, i < n + 1 PROVE L[i] \in Nat /\ L[i] + Size(raw, i) <= L[n + 1]
      OBVIOUS
    <3>1. CASE i = n
      BY <2>2, <2>3, <2>4, <3>1
    <3>2. CASE i # n
      <4>1. i < n /\ i \in Nat
        BY <3>2, <1>s DEF Slots
      <4>2. L[i] \in Nat /\ L[i] + Size(raw, i) <= L[n]
        BY <1>2, <2>1, <4>1
      <4> QED
        BY <2>2, <2>3, <2>4, <4>2, <1>z
    <3> QED
      BY <3>1, <3>2
  <2> QED
    BY <2>2, <2>3, <2>4, <2>5, <2>6, <1>k, <1>s
<1> HIDE DEF first
<1>3. 0 \in P /\ \A n \in Nat : n \in P => n + 1 \in P
  BY <1>1, <1>2
<1> HIDE DEF P
<1>4. Nat \subseteq P
  BY <1>3, NatInduct
<1>5. \A n \in 0 .. NumSlots : first(n) /\ n <= NumSlots
  BY <1>4, <1>s DEF P
<1> QED
  BY <1>5, <1>z DEF first, L, K
\* What a file that holds raw has for a slot, entry and chunk.
LEMMA WrittenHolds ==
  ASSUME ChunksFit, NEW raw \in Contents, NEW i \in Slots, raw[i] # Absent
  PROVE  /\ Written(raw).entry[i] = [offset |-> Layout(raw)[i], count |-> SectorCount(raw[i])]
         /\ Layout(raw)[i] \in DOMAIN Written(raw).chunk
         /\ Written(raw).chunk[Layout(raw)[i]] = [slot |-> i, length |-> raw[i]]
         /\ Layout(raw)[i] \in Nat /\ Layout(raw)[i] >= HeaderSectors /\ SectorCount(raw[i]) \in Nat \ {0}
<1> DEFINE L == Layout(raw)
           K == SectorCount(MaxLength)
<1>s. HeaderSectors \in Nat /\ NumSlots \in Nat /\ CountLimit \in Nat \ {0} /\ OffsetLimit \in Nat \ {0} /\ MaxLength \in Nat
  BY SizesAssumption
<1>i. i \in 0 .. NumSlots /\ i < NumSlots /\ NumSlots \in 0 .. NumSlots
  BY <1>s DEF Slots
<1>1. SectorCount(raw[i]) \in Nat \ {0} /\ SectorCount(raw[i]) <= K /\ K \in Nat
  <2>1. raw[i] \in 1 .. MaxLength
    BY <1>s DEF Contents, Absent
  <2> QED
    BY <2>1, CountIs
<1>2. /\ L[i] \in Nat /\ L[i] >= HeaderSectors /\ L[i] <= L[NumSlots] /\ L[NumSlots] \in Nat
      /\ L[NumSlots] <= HeaderSectors + NumSlots * K
  <2>1. L[i] + Size(raw, i) <= L[NumSlots] /\ Size(raw, i) \in Nat
    BY <1>i, LayoutGrows
  <2>2. L[i] \in Nat /\ L[NumSlots] \in Nat /\ L[i] >= HeaderSectors /\ L[NumSlots] <= HeaderSectors + NumSlots * K
    BY <1>i, LayoutGrows
  <2> HIDE DEF L, K
  <2> QED
    BY <2>1, <2>2
<1>3. \A j \in Slots : raw[j] # Absent /\ L[j] = L[i] => j = i
  <2> SUFFICES ASSUME NEW j \in Slots, raw[j] # Absent, L[j] = L[i], j # i PROVE FALSE
    OBVIOUS
  <2>1. j \in 0 .. NumSlots /\ j \in Nat /\ i \in Nat
    BY <1>s DEF Slots
  <2>2. raw[j] \in 1 .. MaxLength
    BY <1>s DEF Contents, Absent
  <2>3. Size(raw, j) \in Nat \ {0} /\ Size(raw, i) \in Nat \ {0}
    BY <1>1, <2>2, CountIs DEF Size
  <2>4. (i < j => L[i] + Size(raw, i) <= L[j]) /\ (j < i => L[j] + Size(raw, j) <= L[i])
    BY <1>i, <2>1, LayoutGrows
  <2> HIDE DEF L
  <2> QED
    BY <1>2, <2>1, <2>3, <2>4
<1>4. SectorCount(raw[i]) % CountLimit = SectorCount(raw[i]) /\ L[i] % OffsetLimit = L[i]
  <2>1. K < CountLimit /\ HeaderSectors + NumSlots * K < OffsetLimit /\ HeaderSectors + NumSlots * K \in Nat
    BY <1>1, <1>s DEF ChunksFit
  <2> HIDE DEF L, K
  <2>2. SectorCount(raw[i]) < CountLimit /\ L[i] < OffsetLimit
    BY <1>1, <1>2, <1>s, <2>1
  <2> QED
    BY <1>1, <1>2, <1>s, <2>2, Remains
<1>5. Written(raw).entry[i] = [offset |-> L[i], count |-> SectorCount(raw[i])]
  <2>1. Written(raw).entry[i] = Entry(raw, i)
    BY DEF Written
  <2> QED
    BY <1>4, <2>1 DEF Entry
<1>6. L[i] \in 0 .. L[NumSlots]
  BY <1>2
<1>7. DOMAIN Written(raw).chunk = 0 .. L[NumSlots]
  BY DEF Written
<1>8. Written(raw).chunk[L[i]] = [slot |-> i, length |-> raw[i]]
  <2> DEFINE begins(j) == raw[j] # Absent /\ L[j] = L[i]
             k == CHOOSE j \in Slots : begins(j)
  <2>1. begins(i)
    OBVIOUS
  <2>2. k \in Slots /\ begins(k)
    BY <2>1
  <2>3. k = i
    BY <1>3, <2>2
  <2>4. Written(raw).chunk[L[i]] = [slot |-> k, length |-> raw[k]]
    BY <1>6, <2>1 DEF Written
  <2> QED
    BY <2>3, <2>4
<1> QED
  BY <1>1, <1>2, <1>5, <1>6, <1>7, <1>8

LEMMA WrittenIsFound ==
  ASSUME ChunksFit, NEW raw \in Contents, NEW i \in Slots
  PROVE  /\ Read(Written(raw), i) = raw[i] /\ Found(Written(raw), i).slot \in {i, -1}
         /\ raw[i] = Absent => Written(raw).entry[i] = NoEntry
<1> DEFINE f == Written(raw)
<1>1. CASE raw[i] = Absent
  <2>1. f.entry[i] = NoEntry
    BY <1>1 DEF Written, Entry
  <2>2. Found(f, i) = NoChunk
    BY <2>1 DEF Found, NoEntry
  <2> QED
    BY <1>1, <2>1, <2>2 DEF Read, NoChunk
<1>2. CASE raw[i] # Absent
  <2> DEFINE o == Layout(raw)[i]
             n == SectorCount(raw[i])
  <2>1. /\ f.entry[i] = [offset |-> o, count |-> n] /\ o \in DOMAIN f.chunk
        /\ f.chunk[o] = [slot |-> i, length |-> raw[i]] /\ o \in Nat /\ o >= HeaderSectors /\ n \in Nat \ {0}
    BY <1>2, WrittenHolds
  <2> HIDE DEF f, o, n
  <2>2. f.entry[i].offset = o /\ f.entry[i].count = n
    BY <2>1
  <2>3. Found(f, i) = [slot |-> i, length |-> raw[i]]
    BY <2>1, <2>2, SizesAssumption DEF Found
  <2> QED
    BY <1>2, <2>3 DEF Read, f
<1> QED
  BY <1>1, <1>2

LEMMA WrittenReadsBack ==
  ASSUME ChunksFit, saved \in Contents, file = Written(saved)
  PROVE  ReadsBack
<1> DEFINE L == Layout(saved)
<1> SUFFICES ASSUME NEW i \in Slots
             PROVE  /\ Read(file, i) = saved[i] /\ Found(file, i).slot \in {i, -1}
                    /\ file.entry[i].count # 0 =>
                         /\ file.entry[i].offset >= HeaderSectors
                         /\ \A j \in Slots \ {i} :
                              (file.entry[j].count # 0 /\ file.entry[i].offset <= file.entry[j].offset) =>
                                file.entry[i].offset * SectorSize + 4 + Read(file, i)
                                  <= file.entry[j].offset * SectorSize
  BY DEF ReadsBack
<1>1. Read(file, i) = saved[i] /\ Found(file, i).slot \in {i, -1}
  BY WrittenIsFound
<1>2. \A j \in Slots : saved[j] = Absent => file.entry[j].count = 0
  BY WrittenIsFound DEF NoEntry
<1>3. \A j \in Slots : saved[j] # Absent =>
        file.entry[j].offset = L[j] /\ L[j] \in Nat /\ L[j] >= HeaderSectors
  <2> SUFFICES ASSUME NEW j \in Slots, saved[j] # Absent
               PROVE  file.entry[j].offset = L[j] /\ L[j] \in Nat /\ L[j] >= HeaderSectors
    OBVIOUS
  <2>1. file.entry[j] = [offset |-> L[j], count |-> SectorCount(saved[j])] /\ L[j] \in Nat /\ L[j] >= HeaderSectors
    BY WrittenHolds
  <2> HIDE DEF L
  <2> QED
    BY <2>1
<1>4. ASSUME saved[i] # Absent, NEW j \in Slots \ {i}, saved[j] # Absent, L[i] <= L[j]
      PROVE  L[i] * SectorSize + 4 + saved[i] <= L[j] * SectorSize
  <2> DEFINE n == SectorCount(saved[i])
  <2>1. /\ L[i] \in Nat /\ L[j] \in Nat /\ i \in Nat /\ j \in Nat /\ i # j /\ SectorSize \in Nat
        /\ i \in 0 .. NumSlots /\ j \in 0 .. NumSlots
    BY <1>3, <1>4, SizesAssumption DEF Slots
  <2>2. saved[i] \in 1 .. MaxLength /\ saved[j] \in 1 .. MaxLength
    BY <1>4, SizesAssumption DEF Contents, Absent
  <2>3. n \in Nat \ {0} /\ saved[i] + 4 <= n * SectorSize
    BY <2>2, CountIs
  <2>4. Size(saved, i) = n /\ Size(saved, j) \in Nat \ {0}
    BY <1>4, <2>2, CountIs DEF Size
  <2>5. (i < j => L[i] + n <= L[j]) /\ (j < i => L[j] + Size(saved, j) <= L[i])
    BY <1>4, <2>1, <2>4, LayoutGrows
  <2> HIDE DEF L, n
  <2>6. L[i] + n <= L[j]
    BY <1>4, <2>1, <2>3, <2>4, <2>5
  <2>7. L[i] * SectorSize + n * SectorSize <= L[j] * SectorSize
    <3>1. \A a, b, c, k \in Nat : a + b <= c => a * k + b * k <= c * k
      OBVIOUS
    <3> QED
      BY <2>1, <2>3, <2>6, <3>1
  <2>8. L[i] * SectorSize \in Nat /\ L[j] * SectorSize \in Nat /\ n * SectorSize \in Nat /\ saved[i] \in Nat
    BY <2>1, <2>2, <2>3
  <2>9. \A a, b, c, d \in Nat : (a + b <= c /\ d + 4 <= b) => a + 4 + d <= c
    OBVIOUS
  <2> QED
    BY <2>3, <2>7, <2>8, <2>9
<1> QED
  BY <1>1, <1>2, <1>3, <1>4

\* A region file holds every chunk it was given and none runs into another, whatever is
\* saved around it and in whatever order, for any sizes that an entry can express.
THEOREM RegionReadsBack == ASSUME ChunksFit PROVE FormatSpec => []ReadsBack
<1> DEFINE Inv == saved \in Contents /\ file = Written(saved)
<1>1. FormatInit => Inv
  BY SizesAssumption DEF FormatInit, NoChunks, Contents, Absent
<1>2. Inv /\ [FormatNext]_formatVars => Inv'
  <2> SUFFICES ASSUME Inv, [FormatNext]_formatVars PROVE Inv'
    OBVIOUS
  <2>1. ASSUME NEW i \in Slots, NEW len \in Lengths, Save(i, len) PROVE Inv'
    <3>1. saved' = [saved EXCEPT ![i] = len] /\ saved' \in Contents
      BY <2>1, SizesAssumption DEF Save, Contents, Lengths
    <3>2. \A j \in Slots : Read(file, j) = saved[j]
      BY WrittenIsFound
    <3>3. Rewritten(file, i, len) = saved'
      BY <3>1, <3>2 DEF Rewritten, Contents
    <3> QED
      BY <2>1, <3>1, <3>3 DEF Save
  <2>2. CASE UNCHANGED formatVars
    BY <2>2 DEF formatVars
  <2> QED
    BY <2>1, <2>2 DEF FormatNext
<1>3. Inv => ReadsBack
  BY WrittenReadsBack
<1> QED
  BY <1>1, <1>2, <1>3, PTL DEF FormatSpec
=============================================================================
