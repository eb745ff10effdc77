------------------------------ MODULE WorldCache ------------------------------
(***************************************************************************)
(* The chunk cache of core/world/world.go: the map of loaded columns, the  *)
(* in-flight loads that concurrent lookups share, the dirty and flushing   *)
(* sets that pin a column, least-recently-used eviction, and Flush, which  *)
(* stages every dirty column and commits the stage to storage.  Storage is *)
(* seen through core/world/storage.go as java/world/anvil implements it: a *)
(* stage (pending) that a commit takes as a whole and writes to disk.      *)
(*                                                                         *)
(* A column's content is the set of edits applied to it.  An edit is done  *)
(* at most once, so sets of edits tell apart everything the properties     *)
(* speak of: which edits a reader of the column sees, which are on disk.   *)
(***************************************************************************)
EXTENDS Integers, FiniteSets

CONSTANTS
  Keys,         \* column coordinates
  Actors,       \* goroutines that look columns up and edit them
  Flushers,     \* goroutines that call Flush: the tick's autosave, /save-all
  Edits,        \* the edits the actors may make, each at most once
  EditKey,      \* EditKey[e]: the column e is made to
  EditKind,     \* EditKind[e]: the World method that makes it
  Users,        \* Users[k]: the actors that ever look column k up
  MaxCached,    \* maxCachedChunks
  Instances,    \* addresses a *Chunk can have
  MaxFailures,  \* bound: failing writes of a commit
  MaxLoadErrors,\* bound: failing LoadChunk calls
  MaxCrashes,   \* bound: process restarts
  None          \* no instance, no actor, no edit, no data

EditKinds == {"block", "container", "lectern"}

ASSUME KeysAssumption == EditKey \in [Edits -> Keys] /\ Users \in [Keys -> SUBSET Actors]
ASSUME KindAssumption == EditKind \in [Edits -> EditKinds]
ASSUME InstancesAssumption == Instances \subseteq Nat
ASSUME BoundsAssumption ==
  /\ MaxCached \in Nat \ {0}
  /\ MaxFailures \in Nat /\ MaxLoadErrors \in Nat /\ MaxCrashes \in Nat
ASSUME NoneAssumption ==
  /\ None \notin Instances \cup Actors \cup Edits \cup Keys
  /\ \A D \in SUBSET Edits : None # D

Data == (SUBSET Edits) \cup {None}

VARIABLES
  chunks,    \* [Keys -> Instances or None]  World.chunks
  content,   \* [Instances -> SUBSET Edits]  what the *Chunk at an address holds
  dirty,     \* World.dirty
  flushing,  \* World.flushing
  older,     \* <<j, k>> \in older: lastAccess[j] < lastAccess[k]
  inflight,  \* [Keys -> Actors or None]  World.inflight, by its producer
  pc, key, edit, held, generated,  \* the call each actor is in
  fpc, batch, todo, hand, column, taken, towrite, promise,  \* the Flush each flusher is in
  persistent,  \* World.storage is not nil
  pending,   \* the stage of the storage
  disk,      \* what a LoadChunk would find
  accepted,  \* edits whose call has returned and no crash has undone
  started,   \* edits begun
  durable,   \* edits accepted before a Flush that returned without error began
  failures, loadErrors, crashes

cacheVars == <<chunks, content, dirty, flushing, older, inflight>>
actorVars == <<pc, key, edit, held, generated>>
flushVars == <<fpc, batch, todo, hand, column, taken, towrite, promise>>
storeVars == <<persistent, pending, disk>>
historyVars == <<accepted, started, durable>>
boundVars == <<failures, loadErrors, crashes>>
vars == <<cacheVars, actorVars, flushVars, storeVars, historyVars, boundVars>>

Cached == {k \in Keys : chunks[k] # None}

Nothing == [k \in Keys |-> None]

\* The edits a lookup of k would return: the cached instance's, else the disk's.
Visible(k) ==
  IF chunks[k] # None THEN content[chunks[k]]
  ELSE IF disk[k] # None THEN disk[k] ELSE {}

OnDisk == UNION {disk[k] : k \in {j \in Keys : disk[j] # None}}

\* What the garbage collector may not reclaim.
Live == {chunks[k] : k \in Keys} \cup {held[a] : a \in Actors} \cup {hand[f] : f \in Flushers}

\* The address of a new *Chunk.
Fresh(i) == i \in Instances \ Live /\ \A j \in Instances \ Live : i <= j

\* content after a step that wrote c: unreferenced instances are reclaimed.
Collected(c) == [i \in Instances |-> IF i \in Live' THEN c[i] ELSE {}]

---------------------------------------------------------------------------
\* touchChunkLocked
Touched(k, o) == {p \in o : p[1] # k} \cup {<<j, k>> : j \in Keys \ {k}}

\* What keeps trimming off a column: it is dirty, or a Flush has yet to save it.
PinnedDirtyOnly(d, f) == d
Pinned(d, f) == d \cup f

\* The cache with instance i as column k.
NotPutBack(ch, k, i) == ch
PutBack(ch, k, i) == [ch EXCEPT ![k] = i]

\* A miss loads the column itself only if nobody else is loading it.
Unclaimed(k) == inflight[k] = None

\* Flush saves a column of its batch only if the cache still has it.
StillCached(k) == chunks[k] # None

\* restoreDirty: what is dirty when a Flush of the columns b fails.
NotRestored(d, b) == d
RestoreDirty(d, b) == d \cup b

\* What is dirty once a load of k is installed: only a generated column is.
AfterLoad(d, k, isGenerated) == IF isGenerated /\ persistent THEN d \cup {k} ELSE d

\* trimChunksLocked: the columns it evicts from the cache ch, d being dirty or
\* flushing: the least recently used evictable ones, until the cache fits.
Trims(gone, ch, d, o) ==
  LET cached == {k \in Keys : ch[k] # None}
      evictable == cached \ d
      excess == Cardinality(cached) - MaxCached
  IN /\ gone \subseteq evictable
     /\ \A k \in gone, j \in evictable \ gone : <<k, j>> \in o
     /\ IF excess <= 0 THEN gone = {}
        ELSE Cardinality(gone) = excess \/ (Cardinality(gone) < excess /\ gone = evictable)

\* The cache becomes ch less what trimming evicts, the recency o.
Trimmed(ch, d, o) ==
  \E gone \in SUBSET Keys :
    /\ Trims(gone, ch, d, o)
    /\ chunks' = [k \in Keys |-> IF k \in gone THEN None ELSE ch[k]]
    /\ older' = {p \in o : p[1] \notin gone /\ p[2] \notin gone}

---------------------------------------------------------------------------
Init ==
  /\ chunks = Nothing /\ content = [i \in Instances |-> {}]
  /\ dirty = {} /\ flushing = {} /\ older = {} /\ inflight = Nothing
  /\ pc = [a \in Actors |-> "idle"]
  /\ key = [a \in Actors |-> None] /\ edit = [a \in Actors |-> None]
  /\ held = [a \in Actors |-> None] /\ generated = [a \in Actors |-> FALSE]
  /\ fpc = [f \in Flushers |-> "idle"]
  /\ batch = [f \in Flushers |-> {}] /\ todo = [f \in Flushers |-> {}]
  /\ hand = [f \in Flushers |-> None] /\ column = [f \in Flushers |-> None]
  /\ taken = [f \in Flushers |-> Nothing]
  /\ towrite = [f \in Flushers |-> {}] /\ promise = [f \in Flushers |-> {}]
  /\ persistent \in BOOLEAN /\ pending = Nothing /\ disk = Nothing
  /\ accepted = {} /\ started = {} /\ durable = {}
  /\ failures = 0 /\ loadErrors = 0 /\ crashes = 0

---------------------------------------------------------------------------
(* Lookups: Chunk. *)

\* The call of actor a is over.
Return(a) ==
  /\ pc' = [pc EXCEPT ![a] = "idle"] /\ key' = [key EXCEPT ![a] = None]
  /\ edit' = [edit EXCEPT ![a] = None] /\ held' = [held EXCEPT ![a] = None]
  /\ generated' = [generated EXCEPT ![a] = FALSE]

\* A goroutine calls Chunk(k), for itself or (e # None) from a method that edits.
Begin(a, k, e) ==
  /\ pc[a] = "idle" /\ a \in Users[k]
  /\ e # None => e \in Edits \ started /\ EditKey[e] = k
  /\ pc' = [pc EXCEPT ![a] = "lookup"]
  /\ key' = [key EXCEPT ![a] = k] /\ edit' = [edit EXCEPT ![a] = e]
  /\ started' = IF e = None THEN started ELSE started \cup {e}
  /\ UNCHANGED <<cacheVars, held, generated, flushVars, storeVars, accepted, durable, boundVars>>

\* Chunk returns instance i to a: a visit is over, an edit goes on to write it.
Got(a, i) ==
  IF edit[a] = None THEN Return(a)
  ELSE /\ pc' = [pc EXCEPT ![a] = "held"] /\ held' = [held EXCEPT ![a] = i]
       /\ generated' = [generated EXCEPT ![a] = FALSE] /\ UNCHANGED <<key, edit>>

LookupHit(a) ==
  /\ pc[a] = "lookup" /\ chunks[key[a]] # None
  /\ older' = Touched(key[a], older)
  /\ Got(a, chunks[key[a]])
  /\ UNCHANGED <<chunks, content, dirty, flushing, inflight, flushVars, storeVars, historyVars, boundVars>>

LookupWait(a) ==
  /\ pc[a] = "lookup" /\ chunks[key[a]] = None /\ inflight[key[a]] # None
  /\ pc' = [pc EXCEPT ![a] = "wait"]
  /\ UNCHANGED <<cacheVars, key, edit, held, generated, flushVars, storeVars, historyVars, boundVars>>

LookupMiss(a) ==
  /\ pc[a] = "lookup" /\ chunks[key[a]] = None /\ Unclaimed(key[a])
  /\ inflight' = [inflight EXCEPT ![key[a]] = a]
  /\ pc' = [pc EXCEPT ![a] = "load"]
  /\ UNCHANGED <<chunks, content, dirty, flushing, older, key, edit, held, generated, flushVars,
                 storeVars, historyVars, boundVars>>

\* LoadChunk, or else the generator, makes a new instance.
Produce(a, data, isGenerated) ==
  \E i \in Instances :
    /\ Fresh(i)
    /\ content' = [content EXCEPT ![i] = data]
    /\ held' = [held EXCEPT ![a] = i]
    /\ generated' = [generated EXCEPT ![a] = isGenerated]
    /\ pc' = [pc EXCEPT ![a] = "install"]
    /\ UNCHANGED <<chunks, dirty, flushing, older, inflight, key, edit, flushVars, storeVars, historyVars>>

LoadFromDisk(a) ==
  /\ pc[a] = "load" /\ disk[key[a]] # None
  /\ Produce(a, disk[key[a]], FALSE)
  /\ UNCHANGED boundVars

Generate(a) ==
  /\ pc[a] = "load" /\ disk[key[a]] = None
  /\ Produce(a, {}, TRUE)
  /\ UNCHANGED boundVars

\* LoadChunk returns an error: it is logged, and the generator runs.
LoadError(a) ==
  /\ pc[a] = "load" /\ persistent /\ disk[key[a]] # None
  /\ loadErrors < MaxLoadErrors /\ loadErrors' = loadErrors + 1
  /\ Produce(a, {}, TRUE)
  /\ UNCHANGED <<failures, crashes>>

\* Closing ready wakes the lookups that wait for column k; they start over.
NobodyWakes(b, k) == FALSE
Woken(b, k) == pc[b] = "wait" /\ key[b] = k
LooksAgain == "lookup"

\* The producer installs its instance, closes ready and trims.
Install(a) ==
  LET k == key[a]
      d == AfterLoad(dirty, k, generated[a])
      back == IF edit[a] = None THEN "idle" ELSE "held"
  IN /\ pc[a] = "install"
     /\ dirty' = d /\ UNCHANGED flushing
     /\ inflight' = [inflight EXCEPT ![k] = None]
     /\ Trimmed([chunks EXCEPT ![k] = held[a]], Pinned(d, flushing), Touched(k, older))
     /\ pc' = [b \in Actors |-> IF b = a THEN back ELSE IF Woken(b, k) THEN LooksAgain ELSE pc[b]]
     /\ generated' = [generated EXCEPT ![a] = FALSE]
     /\ IF edit[a] = None
        THEN /\ key' = [key EXCEPT ![a] = None] /\ held' = [held EXCEPT ![a] = None]
        ELSE UNCHANGED <<key, held>>
     /\ UNCHANGED <<edit, flushVars, storeVars, historyVars, boundVars>>
     /\ content' = Collected(content)

---------------------------------------------------------------------------
(* Edits: SetBlock, SetContainerItems and their kin. *)

\* The chunk is written with no World lock held.
Mutate(a) ==
  /\ pc[a] = "held"
  /\ content' = [content EXCEPT ![held[a]] = @ \cup {edit[a]}]
  /\ pc' = [pc EXCEPT ![a] = "mark"]
  /\ UNCHANGED <<chunks, dirty, flushing, older, inflight, key, edit, held, generated, flushVars,
                 storeVars, historyVars, boundVars>>

Accept(a) ==
  /\ accepted' = accepted \cup {edit[a]}
  /\ Return(a)
  /\ UNCHANGED <<flushing, inflight, flushVars, storeVars, started, durable, boundVars>>

\* SetBlock and setBlockNoPhysics put the instance they wrote back and trim.
MarkBlock(a) ==
  LET k == key[a] IN
  /\ pc[a] = "mark" /\ EditKind[edit[a]] = "block"
  /\ dirty' = dirty \cup {k}
  /\ Trimmed(PutBack(chunks, k, held[a]), Pinned(dirty \cup {k}, flushing), Touched(k, older))
  /\ Accept(a) /\ content' = Collected(content)

\* SetContainerItems, SetBlockEntity, the sign and pot setters do not trim.
MarkContainer(a) ==
  LET k == key[a] IN
  /\ pc[a] = "mark" /\ EditKind[edit[a]] = "container"
  /\ dirty' = dirty \cup {k}
  /\ chunks' = PutBack(chunks, k, held[a]) /\ older' = Touched(k, older)
  /\ Accept(a) /\ content' = Collected(content)

\* SetLecternPage does not put the instance back.
MarkLectern(a) ==
  /\ pc[a] = "mark" /\ EditKind[edit[a]] = "lectern"
  /\ dirty' = dirty \cup {key[a]} /\ older' = Touched(key[a], older)
  /\ UNCHANGED chunks
  /\ Accept(a) /\ content' = Collected(content)

---------------------------------------------------------------------------
(* Flush. *)

SwapDirty(f) ==
  /\ persistent /\ fpc[f] = "idle"
  /\ batch' = [batch EXCEPT ![f] = dirty] /\ todo' = [todo EXCEPT ![f] = dirty]
  /\ dirty' = {} /\ flushing' = dirty
  /\ promise' = [promise EXCEPT ![f] = accepted]
  /\ fpc' = [fpc EXCEPT ![f] = "scan"]
  /\ UNCHANGED <<chunks, content, older, inflight, actorVars, hand, column, taken, towrite, storeVars,
                 historyVars, boundVars>>

\* The loop over the batch reads a column's pointer under the lock ...
PickChunk(f, k) ==
  /\ fpc[f] = "scan" /\ k \in todo[f] /\ StillCached(k)
  /\ hand' = [hand EXCEPT ![f] = chunks[k]]
  /\ todo' = [todo EXCEPT ![f] = @ \ {k}]
  /\ column' = [column EXCEPT ![f] = k]
  /\ fpc' = [fpc EXCEPT ![f] = "encode"]
  /\ UNCHANGED <<cacheVars, actorVars, batch, taken, towrite, promise, storeVars, historyVars, boundVars>>

\* ... or skips a column that is no longer cached ...
SkipChunk(f, k) ==
  /\ fpc[f] = "scan" /\ k \in todo[f] /\ chunks[k] = None
  /\ todo' = [todo EXCEPT ![f] = @ \ {k}]
  /\ UNCHANGED <<cacheVars, actorVars, fpc, batch, hand, column, taken, towrite, promise, storeVars,
                 historyVars, boundVars>>

\* ... and SaveChunk stages what the instance holds now.
Stage(f) ==
  /\ fpc[f] = "encode"
  /\ pending' = [pending EXCEPT ![column[f]] = content[hand[f]]]
  /\ hand' = [hand EXCEPT ![f] = None] /\ column' = [column EXCEPT ![f] = None]
  /\ fpc' = [fpc EXCEPT ![f] = "scan"]
  /\ UNCHANGED <<chunks, dirty, flushing, older, inflight, actorVars, batch, todo, taken, towrite,
                 promise, persistent, disk, historyVars, boundVars>>
  /\ content' = Collected(content)

\* Storage.Flush takes the stage as a whole ...
TakePending(f) ==
  /\ fpc[f] = "scan" /\ todo[f] = {}
  /\ taken' = [taken EXCEPT ![f] = pending]
  /\ towrite' = [towrite EXCEPT ![f] = {k \in Keys : pending[k] # None}]
  /\ pending' = Nothing
  /\ fpc' = [fpc EXCEPT ![f] = "write"]
  /\ UNCHANGED <<cacheVars, actorVars, batch, todo, hand, column, promise, persistent, disk,
                 historyVars, boundVars>>

\* ... and writes it, column after column.
WriteChunk(f, k) ==
  /\ fpc[f] = "write" /\ k \in towrite[f]
  /\ disk' = [disk EXCEPT ![k] = taken[f][k]]
  /\ towrite' = [towrite EXCEPT ![f] = @ \ {k}]
  /\ UNCHANGED <<cacheVars, actorVars, fpc, batch, todo, hand, column, taken, promise, persistent,
                 pending, historyVars, boundVars>>

EndFlush(f) ==
  /\ fpc' = [fpc EXCEPT ![f] = "idle"] /\ batch' = [batch EXCEPT ![f] = {}]
  /\ todo' = [todo EXCEPT ![f] = {}]
  /\ hand' = [hand EXCEPT ![f] = None] /\ column' = [column EXCEPT ![f] = None]
  /\ taken' = [taken EXCEPT ![f] = Nothing] /\ towrite' = [towrite EXCEPT ![f] = {}]
  /\ promise' = [promise EXCEPT ![f] = {}]

\* A write fails: restorePending keeps what was staged since, restoreDirty the batch.
WriteFails(f) ==
  /\ fpc[f] = "write" /\ towrite[f] # {}
  /\ failures < MaxFailures /\ failures' = failures + 1
  /\ pending' = [k \in Keys |-> IF pending[k] # None THEN pending[k] ELSE taken[f][k]]
  /\ flushing' = {} /\ dirty' = RestoreDirty(dirty, batch[f])
  /\ EndFlush(f)
  /\ UNCHANGED <<chunks, content, older, inflight, actorVars, persistent, disk, historyVars, loadErrors,
                 crashes>>

\* SaveChunk fails: restoreDirty.
StageFails(f) ==
  /\ fpc[f] = "encode"
  /\ failures < MaxFailures /\ failures' = failures + 1
  /\ flushing' = {} /\ dirty' = RestoreDirty(dirty, batch[f])
  /\ EndFlush(f)
  /\ UNCHANGED <<chunks, older, inflight, actorVars, storeVars, historyVars, loadErrors, crashes>>
  /\ content' = Collected(content)

FinishFlush(f) ==
  /\ fpc[f] = "write" /\ towrite[f] = {}
  /\ flushing' = {} /\ UNCHANGED dirty
  /\ Trimmed(chunks, dirty, older)
  /\ durable' = durable \cup promise[f]
  /\ EndFlush(f)
  /\ UNCHANGED <<inflight, actorVars, storeVars, accepted, started, boundVars>>
  /\ content' = Collected(content)

\* Without a storage Flush only trims.
FlushInMemory(f) ==
  /\ ~persistent /\ fpc[f] = "idle"
  /\ Trimmed(chunks, Pinned(dirty, flushing), older)
  /\ UNCHANGED <<dirty, flushing, inflight, actorVars, flushVars, storeVars, historyVars, boundVars>>
  /\ content' = Collected(content)

---------------------------------------------------------------------------
\* The process dies and starts again: only the disk is left.
Crash ==
  /\ crashes < MaxCrashes /\ crashes' = crashes + 1
  /\ chunks' = Nothing /\ content' = [i \in Instances |-> {}]
  /\ dirty' = {} /\ flushing' = {} /\ older' = {} /\ inflight' = Nothing
  /\ pc' = [a \in Actors |-> "idle"]
  /\ key' = [a \in Actors |-> None] /\ edit' = [a \in Actors |-> None]
  /\ held' = [a \in Actors |-> None] /\ generated' = [a \in Actors |-> FALSE]
  /\ fpc' = [f \in Flushers |-> "idle"]
  /\ batch' = [f \in Flushers |-> {}] /\ todo' = [f \in Flushers |-> {}]
  /\ hand' = [f \in Flushers |-> None] /\ column' = [f \in Flushers |-> None]
  /\ taken' = [f \in Flushers |-> Nothing]
  /\ towrite' = [f \in Flushers |-> {}] /\ promise' = [f \in Flushers |-> {}]
  /\ pending' = Nothing /\ accepted' = OnDisk
  /\ UNCHANGED <<persistent, disk, started, durable, failures, loadErrors>>

ActorStep(a) ==
  \/ LookupHit(a) \/ LookupWait(a) \/ LookupMiss(a)
  \/ LoadFromDisk(a) \/ Generate(a) \/ LoadError(a) \/ Install(a)
  \/ Mutate(a) \/ MarkBlock(a) \/ MarkContainer(a) \/ MarkLectern(a)

FlushStep(f) ==
  \/ SwapDirty(f) \/ Stage(f) \/ TakePending(f) \/ FinishFlush(f) \/ WriteFails(f) \/ StageFails(f)
  \/ \E k \in Keys : PickChunk(f, k) \/ SkipChunk(f, k) \/ WriteChunk(f, k)
  \/ FlushInMemory(f)

Next ==
  \/ \E a \in Actors, k \in Keys, e \in Edits \cup {None} : Begin(a, k, e)
  \/ \E a \in Actors : ActorStep(a)
  \/ \E f \in Flushers : FlushStep(f)
  \/ Crash

Spec == Init /\ [][Next]_vars

\* A goroutine that can run runs; the tick's autosave keeps calling Flush.
FairSpec ==
  /\ Spec
  /\ \A a \in Actors : WF_vars(ActorStep(a))
  /\ \A f \in Flushers : WF_vars(FlushStep(f))

---------------------------------------------------------------------------
(* Properties. *)

CacheType ==
  /\ chunks \in [Keys -> Instances \cup {None}] /\ content \in [Instances -> SUBSET Edits]
  /\ dirty \subseteq Keys /\ flushing \subseteq Keys
  /\ older \subseteq Keys \X Keys /\ inflight \in [Keys -> Actors \cup {None}]

\* An actor in a call has a column and, once it writes it, an instance and an edit.
ActorType ==
  /\ pc \in [Actors -> {"idle", "lookup", "wait", "load", "install", "held", "mark"}]
  /\ key \in [Actors -> Keys \cup {None}] /\ edit \in [Actors -> Edits \cup {None}]
  /\ held \in [Actors -> Instances \cup {None}] /\ generated \in [Actors -> BOOLEAN]
  /\ \A a \in Actors :
       /\ pc[a] # "idle" => key[a] \in Keys
       /\ pc[a] \in {"install", "held", "mark"} => held[a] \in Instances
       /\ pc[a] \in {"held", "mark"} => edit[a] \in Edits
       /\ edit[a] # None => key[a] = EditKey[edit[a]]

\* A flusher that encodes has an instance and its column.
FlushType ==
  /\ fpc \in [Flushers -> {"idle", "scan", "encode", "write"}]
  /\ batch \in [Flushers -> SUBSET Keys] /\ todo \in [Flushers -> SUBSET Keys]
  /\ hand \in [Flushers -> Instances \cup {None}] /\ column \in [Flushers -> Keys \cup {None}]
  /\ taken \in [Flushers -> [Keys -> Data]] /\ towrite \in [Flushers -> SUBSET Keys]
  /\ promise \in [Flushers -> SUBSET Edits]
  /\ \A f \in Flushers :
       fpc[f] = "encode" => hand[f] \in Instances /\ column[f] \in Keys

StoreType ==
  /\ persistent \in BOOLEAN /\ pending \in [Keys -> Data] /\ disk \in [Keys -> Data]
  /\ accepted \subseteq Edits /\ started \subseteq Edits /\ durable \subseteq Edits
  /\ failures \in Nat /\ loadErrors \in Nat /\ crashes \in Nat

\* SetLecternPage marks a column dirty that it does not put back: its edits, and
\* the pinning of their columns, are outside of what the cache keeps.
Kept == {e \in Edits : EditKind[e] # "lectern"}
Lecterns == {EditKey[e] : e \in Edits \ Kept}

\* Every variable has its type, and every call the state its step needs.
TypeOK == CacheType /\ ActorType /\ FlushType /\ StoreType

\* world.go:416: dirty chunks are never evicted before they have been persisted:
\* a dirty column, and a column of a Flush that has not finished, is cached.
DirtyPinned ==
  /\ dirty \subseteq Cached \cup Lecterns
  /\ \A f \in Flushers : batch[f] \subseteq Cached \cup Lecterns

\* world.go:1285: eviction can never silently discard player changes: once an
\* edit has returned, a lookup of its column finds it, whatever was evicted,
\* reloaded or saved meanwhile (a column that cannot be read is generated anew).
EditsSurvive == loadErrors = 0 => \A e \in accepted \cap Kept : e \in Visible(EditKey[e])

\* storage.go:18 and world.go:1511: a Flush that returned without error has put
\* on disk every edit accepted before it began, and nothing done later, stale
\* reload, overlapping save, failed save or restart, takes such an edit off it.
FlushedIsDurable == durable \cap Kept \subseteq OnDisk

\* The promise of ChunkStore: the accepted edits that a lookup finds, and those on
\* disk, are seen for good; what a LoadChunk finds is saved.
Store == INSTANCE ChunkStore WITH
  seen <- {e \in accepted : e \in Visible(EditKey[e])} \cup OnDisk, saved <- OnDisk
ImplementsChunkStore == Store!Spec

\* world.go:239: every lookup returns a column: waiting for another goroutine's
\* load, and starting over after it, comes to an end.
LookupReturns == \A a \in Actors : pc[a] = "lookup" ~> pc[a] \in {"idle", "held"}

\* docs/configuration.md:155: with autosaves running every edit reaches the disk,
\* failed writes notwithstanding, until a restart or a column that cannot be read
\* takes it away.
EditsReachDisk ==
  \A e \in Kept :
    (e \in accepted /\ persistent) ~> (e \in OnDisk \/ e \notin accepted \/ loadErrors > 0)
=============================================================================
