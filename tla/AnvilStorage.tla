----------------------------- MODULE AnvilStorage -----------------------------
(***************************************************************************)
(* java/world/anvil/storage.go: SaveChunk stages a column, Flush takes the *)
(* stage, and for every region it touches reads the region file, replaces  *)
(* the staged columns in it, writes the whole to a temporary file and      *)
(* renames that over the region; a failure puts the stage back.  LoadChunk *)
(* reads region files only.  Files are inodes, so that two writers of one  *)
(* temporary path and a reader of a replaced region are what they are.     *)
(*                                                                         *)
(* A column's data is the number of the SaveChunk that staged it.          *)
(***************************************************************************)
EXTENDS Integers, FiniteSets

CONSTANTS
  Chunks, Regions,
  RegionOf,       \* RegionOf[c]: the region file that c is in
  Flushers,       \* goroutines that call Flush
  Loaders,        \* goroutines that call LoadChunk
  Inodes,
  MaxSaves,       \* bound: MaxSaves[c] SaveChunk calls of column c
  MaxWriteErrors, \* bound: failing creations, writes and renames
  MaxReadErrors,  \* bound: failing reads of a region that is being rewritten
  MaxCrashes,     \* bound: process restarts
  None

ASSUME RegionAssumption == RegionOf \in [Chunks -> Regions]
ASSUME InodesAssumption == Inodes \subseteq Nat /\ None \notin Inodes
ASSUME BoundsAssumption ==
  MaxSaves \in [Chunks -> Nat] /\ MaxWriteErrors \in Nat /\ MaxReadErrors \in Nat /\ MaxCrashes \in Nat

Versions == Nat  \* 0: no data

VARIABLES
  pending,  \* Storage.pending
  latest,   \* the last version staged since the process started, or on disk when it did
  region,   \* [Regions -> inode of r.x.z.mca or None]
  temp,     \* [Regions -> inode of r.x.z.mca.tmp or None]
  body,     \* [Inodes -> [Chunks -> Versions]] the data sectors of a file
  header,   \* [Inodes -> [Chunks -> Versions]] the versions its header points at
  fpc, taken, todo, at, image, open, promise,   \* the Flush of each flusher
  lpc, lchunk, lopen,                  \* the LoadChunk of each loader
  lfloor,   \* the version its region file held when it was opened
  writeErrors, readErrors, crashes

flushVars == <<fpc, taken, todo, at, image, open, promise>>
loadVars == <<lpc, lchunk, lopen, lfloor>>
fileVars == <<region, temp, body, header>>
boundVars == <<writeErrors, readErrors, crashes>>
vars == <<pending, latest, fileVars, flushVars, loadVars, boundVars>>

Empty == [c \in Chunks |-> 0]

\* A slot reads as what its header entry points at, if the sectors there are that
\* column's; -1 stands for bytes that belong to no one save.
ReadSlot(i, c) ==
  IF header[i][c] = 0 THEN 0 ELSE IF body[i][c] = header[i][c] THEN body[i][c] ELSE -1

\* What LoadChunk would find.
OnDisk(c) == IF region[RegionOf[c]] = None THEN 0 ELSE ReadSlot(region[RegionOf[c]], c)

Referenced == {region[r] : r \in Regions} \cup {temp[r] : r \in Regions}
              \cup {open[f] : f \in Flushers} \cup {lopen[l] : l \in Loaders}

Fresh(i) == i \in Inodes \ Referenced /\ \A j \in Inodes \ Referenced : i <= j

Init ==
  /\ pending = Empty /\ latest = Empty
  /\ region = [r \in Regions |-> None] /\ temp = [r \in Regions |-> None]
  /\ body = [i \in Inodes |-> Empty] /\ header = [i \in Inodes |-> Empty]
  /\ fpc = [f \in Flushers |-> "idle"] /\ taken = [f \in Flushers |-> Empty]
  /\ todo = [f \in Flushers |-> {}] /\ at = [f \in Flushers |-> None]
  /\ image = [f \in Flushers |-> Empty] /\ open = [f \in Flushers |-> None]
  /\ promise = [f \in Flushers |-> Empty]
  /\ lpc = [l \in Loaders |-> "idle"] /\ lchunk = [l \in Loaders |-> None]
  /\ lopen = [l \in Loaders |-> None] /\ lfloor = [l \in Loaders |-> 0]
  /\ writeErrors = 0 /\ readErrors = 0 /\ crashes = 0

---------------------------------------------------------------------------
SaveChunk(c) ==
  /\ latest[c] < MaxSaves[c]
  /\ latest' = [latest EXCEPT ![c] = @ + 1]
  /\ pending' = [pending EXCEPT ![c] = latest[c] + 1]
  /\ UNCHANGED <<fileVars, flushVars, loadVars, boundVars>>

\* Flush takes the stage, be it empty.
TakeStage(f) ==
  /\ fpc[f] = "idle"
  /\ taken' = [taken EXCEPT ![f] = pending] /\ pending' = Empty
  /\ todo' = [todo EXCEPT ![f] = {RegionOf[c] : c \in {d \in Chunks : pending[d] # 0}}]
  /\ promise' = [promise EXCEPT ![f] = latest]
  /\ fpc' = [fpc EXCEPT ![f] = "next"]
  /\ UNCHANGED <<latest, fileVars, at, image, open, loadVars, boundVars>>

\* The columns of region r that f replaces.
Replaced(f, r) == {c \in Chunks : RegionOf[c] = r /\ taken[f][c] # 0}

\* What goes into the new region file: the staged columns, and the others as read.
\* dropped: the slots whose read failed, which the code takes for absent ones.
StagedOnly(f, r, dropped) == [c \in Chunks |-> IF c \in Replaced(f, r) THEN taken[f][c] ELSE 0]
Merged(f, r, dropped) ==
  [c \in Chunks |->
     IF c \in Replaced(f, r) THEN taken[f][c]
     ELSE IF RegionOf[c] = r /\ c \notin dropped /\ OnDisk(c) > 0 THEN OnDisk(c) ELSE 0]

\* flushRegion snapshots the region file ...
ReadRegion(f, r) ==
  /\ fpc[f] = "next" /\ r \in todo[f]
  /\ \E dropped \in SUBSET {c \in Chunks : RegionOf[c] = r} :
       /\ IF dropped = {} THEN UNCHANGED readErrors
          ELSE readErrors < MaxReadErrors /\ readErrors' = readErrors + 1
       /\ image' = [image EXCEPT ![f] = Merged(f, r, dropped)]
  /\ at' = [at EXCEPT ![f] = r]
  /\ fpc' = [fpc EXCEPT ![f] = "create"]
  /\ UNCHANGED <<pending, latest, fileVars, taken, todo, open, promise, loadVars, writeErrors, crashes>>

\* The file of region r that is written to.
InPlace(r) == region[r]
Scratch(r) == temp[r]

\* ... creates the temporary file, truncating the one that is there ...
CreateTemp(f) ==
  /\ fpc[f] = "create"
  /\ \E i \in Inodes :
       /\ IF Scratch(at[f]) # None THEN i = Scratch(at[f]) ELSE Fresh(i)
       /\ temp' = [temp EXCEPT ![at[f]] = i] /\ open' = [open EXCEPT ![f] = i]
       /\ body' = [body EXCEPT ![i] = Empty] /\ header' = [header EXCEPT ![i] = Empty]
  /\ fpc' = [fpc EXCEPT ![f] = "body"]
  /\ UNCHANGED <<pending, latest, region, taken, todo, at, image, promise, loadVars, boundVars>>

\* ... writes the columns' sectors, then the header that points at them ...
WriteBody(f) ==
  /\ fpc[f] = "body"
  /\ body' = [body EXCEPT ![open[f]] = image[f]]
  /\ fpc' = [fpc EXCEPT ![f] = "header"]
  /\ UNCHANGED <<pending, latest, region, temp, header, taken, todo, at, image, open, promise,
                 loadVars, boundVars>>

WriteHeader(f) ==
  /\ fpc[f] = "header"
  /\ header' = [header EXCEPT ![open[f]] = image[f]]
  /\ open' = [open EXCEPT ![f] = None]
  /\ fpc' = [fpc EXCEPT ![f] = "rename"]
  /\ UNCHANGED <<pending, latest, region, temp, body, taken, todo, at, image, promise, loadVars, boundVars>>

\* The temporary file of r is gone once it is renamed.
MovedAway(t, r) == [t EXCEPT ![r] = None]

\* ... and renames it over the region.
Rename(f) ==
  /\ fpc[f] = "rename" /\ temp[at[f]] # None
  /\ region' = [region EXCEPT ![at[f]] = temp[at[f]]]
  /\ temp' = MovedAway(temp, at[f])
  /\ todo' = [todo EXCEPT ![f] = @ \ {at[f]}]
  /\ at' = [at EXCEPT ![f] = None] /\ image' = [image EXCEPT ![f] = Empty]
  /\ fpc' = [fpc EXCEPT ![f] = "next"]
  /\ UNCHANGED <<pending, latest, body, header, taken, open, promise, loadVars, boundVars>>

\* A flush without regions left returns.
Done(f) ==
  /\ fpc' = [fpc EXCEPT ![f] = "idle"] /\ taken' = [taken EXCEPT ![f] = Empty]
  /\ todo' = [todo EXCEPT ![f] = {}] /\ at' = [at EXCEPT ![f] = None]
  /\ image' = [image EXCEPT ![f] = Empty] /\ open' = [open EXCEPT ![f] = None]
  /\ promise' = [promise EXCEPT ![f] = Empty]

FinishFlush(f) ==
  /\ fpc[f] = "next" /\ todo[f] = {}
  /\ Done(f)
  /\ UNCHANGED <<pending, latest, fileVars, loadVars, boundVars>>

\* restorePending: what a failed Flush had taken is staged again, unless a newer
\* version was staged meanwhile.
TakenDropped(p, t) == p
TakenWins(p, t) == [c \in Chunks |-> IF t[c] # 0 THEN t[c] ELSE p[c]]
Restored(p, t) == [c \in Chunks |-> IF p[c] # 0 THEN p[c] ELSE t[c]]

\* Creating, writing or renaming the temporary file fails (a rename also when
\* another flush of the region has already renamed the file away).
FlushFails(f) ==
  LET renamedAway == fpc[f] = "rename" /\ temp[at[f]] = None IN
  /\ fpc[f] \in {"create", "body", "header", "rename"}
  /\ renamedAway \/ writeErrors < MaxWriteErrors
  /\ writeErrors' = IF renamedAway THEN writeErrors ELSE writeErrors + 1
  /\ pending' = Restored(pending, taken[f])
  /\ Done(f)
  /\ UNCHANGED <<latest, fileVars, loadVars, readErrors, crashes>>

---------------------------------------------------------------------------
(* LoadChunk opens the region file, then reads the slot. *)

OpenRegion(l, c) ==
  /\ lpc[l] = "idle"
  /\ lchunk' = [lchunk EXCEPT ![l] = c]
  /\ lopen' = [lopen EXCEPT ![l] = region[RegionOf[c]]]
  /\ lpc' = [lpc EXCEPT ![l] = "read"]
  /\ lfloor' = [lfloor EXCEPT ![l] = OnDisk(c)]
  /\ UNCHANGED <<pending, latest, fileVars, flushVars, boundVars>>

Loaded(l) == IF lopen[l] = None THEN 0 ELSE ReadSlot(lopen[l], lchunk[l])

ReadChunk(l) ==
  /\ lpc[l] = "read"
  /\ lchunk' = [lchunk EXCEPT ![l] = None] /\ lopen' = [lopen EXCEPT ![l] = None]
  /\ lfloor' = [lfloor EXCEPT ![l] = 0]
  /\ lpc' = [lpc EXCEPT ![l] = "idle"]
  /\ UNCHANGED <<pending, latest, fileVars, flushVars, boundVars>>

---------------------------------------------------------------------------
\* The process is killed and starts again; the files stay as they are.
Crash ==
  /\ crashes < MaxCrashes /\ crashes' = crashes + 1
  /\ pending' = Empty
  /\ latest' = [c \in Chunks |-> IF OnDisk(c) > 0 THEN OnDisk(c) ELSE 0]
  /\ fpc' = [f \in Flushers |-> "idle"] /\ taken' = [f \in Flushers |-> Empty]
  /\ todo' = [f \in Flushers |-> {}] /\ at' = [f \in Flushers |-> None]
  /\ image' = [f \in Flushers |-> Empty] /\ open' = [f \in Flushers |-> None]
  /\ promise' = [f \in Flushers |-> Empty]
  /\ lpc' = [l \in Loaders |-> "idle"] /\ lchunk' = [l \in Loaders |-> None]
  /\ lopen' = [l \in Loaders |-> None] /\ lfloor' = [l \in Loaders |-> 0]
  /\ UNCHANGED <<fileVars, writeErrors, readErrors>>

FlushStep(f) ==
  \/ CreateTemp(f) \/ WriteBody(f) \/ WriteHeader(f) \/ Rename(f) \/ FinishFlush(f)
  \/ \E r \in Regions : ReadRegion(f, r)

Next ==
  \/ \E c \in Chunks : SaveChunk(c)
  \/ \E f \in Flushers : TakeStage(f) \/ FlushStep(f) \/ FlushFails(f)
  \/ \E l \in Loaders, c \in Chunks : OpenRegion(l, c)
  \/ \E l \in Loaders : ReadChunk(l)
  \/ Crash

Spec == Init /\ [][Next]_vars

---------------------------------------------------------------------------
(* Properties. *)

FileType ==
  /\ pending \in [Chunks -> Versions] /\ latest \in [Chunks -> Versions]
  /\ region \in [Regions -> Inodes \cup {None}] /\ temp \in [Regions -> Inodes \cup {None}]
  /\ body \in [Inodes -> [Chunks -> Versions]] /\ header \in [Inodes -> [Chunks -> Versions]]

FlushType ==
  /\ fpc \in [Flushers -> {"idle", "next", "create", "body", "header", "rename"}]
  /\ taken \in [Flushers -> [Chunks -> Versions]] /\ todo \in [Flushers -> SUBSET Regions]
  /\ at \in [Flushers -> Regions \cup {None}] /\ image \in [Flushers -> [Chunks -> Versions]]
  /\ open \in [Flushers -> Inodes \cup {None}] /\ promise \in [Flushers -> [Chunks -> Versions]]

\* Every variable has its type, and no file is reached by two names: what a flush
\* truncates and writes is never the region file that loads read.
TypeOK ==
  /\ FileType /\ FlushType
  /\ \A r, q \in Regions : region[r] # None => region[r] # temp[q] /\ (r # q => region[r] # region[q])
  /\ lpc \in [Loaders -> {"idle", "read"}] /\ lchunk \in [Loaders -> Chunks \cup {None}]
  /\ lopen \in [Loaders -> Inodes \cup {None}]
  /\ lfloor \in [Loaders -> Versions \cup {-1}]
  /\ writeErrors \in Nat /\ readErrors \in Nat /\ crashes \in Nat

\* region.go:137: the temporary file and the rename prevent corruption if the
\* process is killed mid-write: neither the disk nor a load ever shows half a region
\* file, and a load gets at least what the file it opened held.
NeverTorn ==
  /\ \A c \in Chunks : OnDisk(c) # -1
  /\ \A l \in Loaders : lpc[l] = "read" => Loaded(l) >= lfloor[l]

\* Rewriting a region for some of its columns never takes another, or an older
\* version of one, back to the disk.
DiskMovesForward == [][\A c \in Chunks : OnDisk(c)' >= OnDisk(c)]_vars

\* Until the process dies the newest version of a column is staged, in the hands of
\* a Flush, or on disk: a failed Flush gives back what it took, newer stages win.
NewestIsKept ==
  \A c \in Chunks :
    latest[c] \in {pending[c], OnDisk(c)} \cup {taken[f][c] : f \in Flushers}

\* storage.go:18: a Flush that returns without error has committed every write
\* staged before it began.
FlushCommits ==
  [][\A f \in Flushers : FinishFlush(f) => \A c \in Chunks : OnDisk(c) >= promise[f][c]]_vars
=============================================================================
