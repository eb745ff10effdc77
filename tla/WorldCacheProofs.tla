--------------------------- MODULE WorldCacheProofs ---------------------------
(***************************************************************************)
(* Theorems about WorldCache, for every set of columns, goroutines and     *)
(* edits and every cache size: its types, that nothing unsaved is evicted, *)
(* that no edit is lost, that what a Flush saved stays, and that the cache *)
(* implements ChunkStore.                                                  *)
(***************************************************************************)
EXTENDS WorldCache, TLAPS

USE DEF cacheVars, actorVars, flushVars, storeVars, historyVars, boundVars

---------------------------------------------------------------------------
(* What the helpers return. *)

LEMMA CollectedType ==
  ASSUME NEW c \in [Instances -> SUBSET Edits], content' = Collected(c)
  PROVE  content' \in [Instances -> SUBSET Edits]
BY DEF Collected

LEMMA TrimmedType ==
  ASSUME NEW ch \in [Keys -> Instances \cup {None}], NEW d, NEW o \in SUBSET (Keys \X Keys),
         Trimmed(ch, d, o)
  PROVE  chunks' \in [Keys -> Instances \cup {None}] /\ older' \subseteq Keys \X Keys
BY DEF Trimmed

LEMMA TouchedType ==
  ASSUME NEW k \in Keys, NEW o \in SUBSET (Keys \X Keys)
  PROVE  Touched(k, o) \in SUBSET (Keys \X Keys)
BY DEF Touched

\* A restart finds on disk edits, and nothing else.
LEMMA OnDiskType == TypeOK => OnDisk \subseteq Edits
<1> SUFFICES ASSUME TypeOK, NEW e \in OnDisk PROVE e \in Edits
  OBVIOUS
<1>1. PICK k \in Keys : disk[k] # None /\ e \in disk[k] BY DEF OnDisk
<1>2. disk[k] \in Data BY DEF TypeOK, StoreType
<1> QED BY <1>1, <1>2 DEF Data

---------------------------------------------------------------------------
(* TypeOK: one lemma per action. *)

LEMMA BeginType ==
  ASSUME TypeOK, NEW a \in Actors, NEW k \in Keys, NEW e \in Edits \cup {None}, Begin(a, k, e)
  PROVE  TypeOK'
<1> USE DEF TypeOK, Begin
<1>1. CacheType' BY DEF CacheType
<1>2. ActorType' BY DEF ActorType
<1>3. FlushType' BY DEF FlushType
<1>4. StoreType' BY DEF StoreType
<1> QED BY <1>1, <1>2, <1>3, <1>4

LEMMA LookupHitType ==
  ASSUME TypeOK, NEW a \in Actors, LookupHit(a)
  PROVE  TypeOK'
<1> USE DEF TypeOK, LookupHit
<1>1. CacheType'
  <2>1. key[a] \in Keys BY DEF ActorType
  <2> QED BY <2>1, TouchedType DEF CacheType
<1>2. ActorType'
  <2>1. CASE edit[a] = None
    <3>1. Return(a) BY <2>1 DEF Got
    <3>2. \A b \in Actors : edit'[b] # None => b # a BY <3>1 DEF Return, ActorType
    <3> QED BY <3>1, <3>2 DEF ActorType, Return
  <2>2. CASE edit[a] # None BY <2>2 DEF ActorType, CacheType, Got
  <2> QED BY <2>1, <2>2
<1>3. FlushType' BY DEF FlushType
<1>4. StoreType' BY DEF StoreType
<1> QED BY <1>1, <1>2, <1>3, <1>4

LEMMA InstallType ==
  ASSUME TypeOK, NEW a \in Actors, Install(a)
  PROVE  TypeOK'
<1> USE DEF TypeOK, Install
<1>1. CacheType'
  <2>1. key[a] \in Keys /\ held[a] \in Instances BY DEF ActorType
  <2>2. Touched(key[a], older) \in SUBSET (Keys \X Keys) BY <2>1, TouchedType DEF CacheType
  <2>3. [chunks EXCEPT ![key[a]] = held[a]] \in [Keys -> Instances \cup {None}] BY <2>1 DEF CacheType
  <2>4. chunks' \in [Keys -> Instances \cup {None}] /\ older' \subseteq Keys \X Keys
    BY <2>2, <2>3, TrimmedType
  <2>5. content' \in [Instances -> SUBSET Edits] BY CollectedType DEF CacheType
  <2> QED BY <2>1, <2>4, <2>5 DEF CacheType, AfterLoad
<1>2. ActorType' BY DEF ActorType, Woken, LooksAgain
<1>3. FlushType' BY DEF FlushType
<1>4. StoreType' BY DEF StoreType
<1> QED BY <1>1, <1>2, <1>3, <1>4

LEMMA LookupWaitType ==
  ASSUME TypeOK, NEW a \in Actors, LookupWait(a)
  PROVE  TypeOK'
<1> USE DEF TypeOK, LookupWait
<1>1. CacheType' BY DEF CacheType
<1>2. ActorType' BY DEF ActorType
<1>3. FlushType' BY DEF FlushType
<1>4. StoreType' BY DEF StoreType
<1> QED BY <1>1, <1>2, <1>3, <1>4

LEMMA LookupMissType ==
  ASSUME TypeOK, NEW a \in Actors, LookupMiss(a)
  PROVE  TypeOK'
<1> USE DEF TypeOK, LookupMiss
<1>1. CacheType' BY DEF CacheType
<1>2. ActorType' BY DEF ActorType
<1>3. FlushType' BY DEF FlushType
<1>4. StoreType' BY DEF StoreType
<1> QED BY <1>1, <1>2, <1>3, <1>4

\* LoadChunk's result, or the generator's, becomes an instance.
LEMMA ProduceType ==
  ASSUME TypeOK, NEW a \in Actors, NEW data \in SUBSET Edits, NEW g \in BOOLEAN,
         pc[a] = "load", Produce(a, data, g), failures' \in Nat, loadErrors' \in Nat, crashes' \in Nat
  PROVE  TypeOK'
<1> USE DEF TypeOK, Produce
<1>1. CacheType' BY DEF CacheType, Fresh
<1>2. ActorType' BY DEF ActorType, Fresh
<1>3. FlushType' BY DEF FlushType
<1>4. StoreType' BY DEF StoreType
<1> QED BY <1>1, <1>2, <1>3, <1>4

LEMMA LoadType ==
  ASSUME TypeOK, NEW a \in Actors, LoadFromDisk(a) \/ Generate(a) \/ LoadError(a)
  PROVE  TypeOK'
<1>1. failures \in Nat /\ loadErrors \in Nat /\ crashes \in Nat BY DEF TypeOK, StoreType
<1>2. CASE LoadFromDisk(a)
  <2>1. key[a] \in Keys BY <1>2 DEF LoadFromDisk, TypeOK, ActorType
  <2>2. disk[key[a]] \in Data BY <2>1 DEF TypeOK, StoreType
  <2>3. disk[key[a]] \in SUBSET Edits BY <1>2, <2>2 DEF LoadFromDisk, Data
  <2> QED BY <1>1, <1>2, <2>3, ProduceType DEF LoadFromDisk
<1>3. CASE Generate(a) BY <1>1, <1>3, ProduceType DEF Generate
<1>4. CASE LoadError(a)
  <2>1. pc[a] = "load" /\ Produce(a, {}, TRUE) BY <1>4 DEF LoadError
  <2>2. failures' \in Nat /\ loadErrors' \in Nat /\ crashes' \in Nat BY <1>1, <1>4 DEF LoadError
  <2> QED BY <2>1, <2>2, ProduceType
<1> QED BY <1>2, <1>3, <1>4

LEMMA MutateType ==
  ASSUME TypeOK, NEW a \in Actors, Mutate(a)
  PROVE  TypeOK'
<1> USE DEF TypeOK, Mutate
<1>1. CacheType' BY DEF CacheType, ActorType
<1>2. ActorType' BY DEF ActorType
<1>3. FlushType' BY DEF FlushType
<1>4. StoreType' BY DEF StoreType
<1> QED BY <1>1, <1>2, <1>3, <1>4

\* The last step of an edit, whatever it does to the cache.
LEMMA AcceptType ==
  ASSUME TypeOK, NEW a \in Actors, pc[a] = "mark", Accept(a)
  PROVE  ActorType' /\ FlushType' /\ StoreType'
<1> USE DEF TypeOK, Accept, Return
<1>1. ActorType' BY DEF ActorType
<1>2. FlushType' BY DEF FlushType
<1>3. StoreType' BY DEF StoreType, ActorType
<1> QED BY <1>1, <1>2, <1>3

LEMMA MarkType ==
  ASSUME TypeOK, NEW a \in Actors, MarkBlock(a) \/ MarkContainer(a) \/ MarkLectern(a)
  PROVE  TypeOK'
<1>1. pc[a] = "mark" /\ Accept(a) /\ content' = Collected(content)
  BY DEF MarkBlock, MarkContainer, MarkLectern
<1>2. key[a] \in Keys /\ held[a] \in Instances BY <1>1 DEF TypeOK, ActorType
<1>3. Touched(key[a], older) \in SUBSET (Keys \X Keys) BY <1>2, TouchedType DEF TypeOK, CacheType
<1>4. PutBack(chunks, key[a], held[a]) \in [Keys -> Instances \cup {None}]
  BY <1>2 DEF TypeOK, CacheType, PutBack
<1>5. content' \in [Instances -> SUBSET Edits] BY <1>1, CollectedType DEF TypeOK, CacheType
<1>6. chunks' \in [Keys -> Instances \cup {None}] /\ older' \subseteq Keys \X Keys
  <2>1. CASE MarkBlock(a) BY <2>1, <1>3, <1>4, TrimmedType DEF MarkBlock
  <2>2. CASE MarkContainer(a) BY <2>2, <1>3, <1>4 DEF MarkContainer
  <2>3. CASE MarkLectern(a) BY <2>3, <1>3 DEF MarkLectern, TypeOK, CacheType
  <2> QED BY <2>1, <2>2, <2>3
<1>7. dirty' = dirty \cup {key[a]} /\ UNCHANGED <<flushing, inflight>>
  BY DEF MarkBlock, MarkContainer, MarkLectern, Accept
<1>8. CacheType' BY <1>2, <1>5, <1>6, <1>7 DEF TypeOK, CacheType
<1> QED BY <1>1, <1>8, AcceptType DEF TypeOK

---------------------------------------------------------------------------
(* The steps of a Flush. *)

LEMMA SwapDirtyType ==
  ASSUME TypeOK, NEW f \in Flushers, SwapDirty(f)
  PROVE  TypeOK'
<1> USE DEF TypeOK, SwapDirty
<1>1. CacheType' BY DEF CacheType
<1>2. ActorType' BY DEF ActorType
<1>3. FlushType' BY DEF FlushType, CacheType, StoreType
<1>4. StoreType' BY DEF StoreType
<1> QED BY <1>1, <1>2, <1>3, <1>4

LEMMA PickType ==
  ASSUME TypeOK, NEW f \in Flushers, NEW k \in Keys, PickChunk(f, k) \/ SkipChunk(f, k)
  PROVE  TypeOK'
<1> USE DEF TypeOK
<1>1. CacheType' BY DEF CacheType, PickChunk, SkipChunk
<1>2. ActorType' BY DEF ActorType, PickChunk, SkipChunk
<1>3. FlushType'
  <2>1. CASE PickChunk(f, k) BY <2>1 DEF PickChunk, StillCached, FlushType, CacheType
  <2>2. CASE SkipChunk(f, k) BY <2>2 DEF SkipChunk, FlushType
  <2> QED BY <2>1, <2>2
<1>4. StoreType' BY DEF StoreType, PickChunk, SkipChunk
<1> QED BY <1>1, <1>2, <1>3, <1>4

LEMMA StageType ==
  ASSUME TypeOK, NEW f \in Flushers, Stage(f)
  PROVE  TypeOK'
<1> USE DEF TypeOK, Stage
<1>1. content' \in [Instances -> SUBSET Edits] BY CollectedType DEF CacheType
<1>2. CacheType' BY <1>1 DEF CacheType
<1>3. ActorType' BY DEF ActorType
<1>4. FlushType' BY DEF FlushType
<1>5. StoreType'
  <2>1. content[hand[f]] \in Data BY DEF FlushType, CacheType, Data
  <2> QED BY <2>1 DEF StoreType
<1> QED BY <1>2, <1>3, <1>4, <1>5

LEMMA TakePendingType ==
  ASSUME TypeOK, NEW f \in Flushers, TakePending(f)
  PROVE  TypeOK'
<1> USE DEF TypeOK, TakePending
<1>1. CacheType' BY DEF CacheType
<1>2. ActorType' BY DEF ActorType
<1>3. FlushType' BY DEF FlushType, StoreType
<1>4. StoreType'
  <2>1. pending' \in [Keys -> Data] BY DEF Nothing, Data
  <2> QED BY <2>1 DEF StoreType
<1> QED BY <1>1, <1>2, <1>3, <1>4

LEMMA WriteChunkType ==
  ASSUME TypeOK, NEW f \in Flushers, NEW k \in Keys, WriteChunk(f, k)
  PROVE  TypeOK'
<1> USE DEF TypeOK, WriteChunk
<1>1. CacheType' BY DEF CacheType
<1>2. ActorType' BY DEF ActorType
<1>3. FlushType' BY DEF FlushType
<1>4. StoreType' BY DEF StoreType, FlushType
<1> QED BY <1>1, <1>2, <1>3, <1>4

LEMMA EndFlushType ==
  ASSUME FlushType, NEW f \in Flushers, EndFlush(f)
  PROVE  FlushType'
<1>1. Nothing \in [Keys -> Data] BY DEF Nothing, Data
<1> QED BY <1>1 DEF FlushType, EndFlush

\* Both ways a Flush can fail.
LEMMA FlushFailsType ==
  ASSUME TypeOK, NEW f \in Flushers, WriteFails(f) \/ StageFails(f)
  PROVE  TypeOK'
<1>1. EndFlush(f) /\ UNCHANGED actorVars BY DEF WriteFails, StageFails
<1>2. FlushType' BY <1>1, EndFlushType DEF TypeOK
<1>3. ActorType' BY <1>1 DEF TypeOK, ActorType
<1>4. CacheType'
  <2>1. content' \in [Instances -> SUBSET Edits]
    BY CollectedType DEF WriteFails, StageFails, TypeOK, CacheType
  <2>2. dirty' \subseteq Keys /\ flushing' \subseteq Keys
    BY DEF WriteFails, StageFails, RestoreDirty, TypeOK, CacheType, FlushType
  <2>3. UNCHANGED <<chunks, older, inflight>> BY DEF WriteFails, StageFails
  <2> QED BY <2>1, <2>2, <2>3 DEF TypeOK, CacheType
<1>5. pending' \in [Keys -> Data]
  <2>1. CASE WriteFails(f) BY <2>1 DEF WriteFails, TypeOK, StoreType, FlushType
  <2>2. CASE StageFails(f) BY <2>2 DEF StageFails, TypeOK, StoreType
  <2> QED BY <2>1, <2>2
<1>6. failures' \in Nat BY DEF WriteFails, StageFails, TypeOK, StoreType
<1>7. UNCHANGED <<persistent, disk, accepted, started, durable, loadErrors, crashes>> BY DEF WriteFails, StageFails
<1>8. StoreType' BY <1>5, <1>6, <1>7 DEF TypeOK, StoreType
<1> QED BY <1>2, <1>3, <1>4, <1>8 DEF TypeOK

LEMMA FinishFlushType ==
  ASSUME TypeOK, NEW f \in Flushers, FinishFlush(f)
  PROVE  TypeOK'
<1> USE DEF TypeOK, FinishFlush
<1>1. CacheType'
  <2>1. content' \in [Instances -> SUBSET Edits] BY CollectedType DEF CacheType
  <2>2. chunks' \in [Keys -> Instances \cup {None}] /\ older' \subseteq Keys \X Keys
    BY TrimmedType DEF CacheType
  <2> QED BY <2>1, <2>2 DEF CacheType
<1>2. ActorType' BY DEF ActorType
<1>3. FlushType' BY EndFlushType
<1>4. StoreType' BY DEF StoreType, FlushType
<1> QED BY <1>1, <1>2, <1>3, <1>4

LEMMA FlushInMemoryType ==
  ASSUME TypeOK, NEW f \in Flushers, FlushInMemory(f)
  PROVE  TypeOK'
<1> USE DEF TypeOK, FlushInMemory
<1>1. CacheType'
  <2>1. content' \in [Instances -> SUBSET Edits] BY CollectedType DEF CacheType
  <2>2. chunks' \in [Keys -> Instances \cup {None}] /\ older' \subseteq Keys \X Keys
    BY TrimmedType DEF CacheType
  <2> QED BY <2>1, <2>2 DEF CacheType
<1>2. ActorType' BY DEF ActorType
<1>3. FlushType' BY DEF FlushType
<1>4. StoreType' BY DEF StoreType
<1> QED BY <1>1, <1>2, <1>3, <1>4

---------------------------------------------------------------------------
LEMMA InitType == Init => TypeOK
<1>1. Nothing \in [Keys -> Data] /\ Nothing \in [Keys -> Instances \cup {None}]
      /\ Nothing \in [Keys -> Actors \cup {None}] BY DEF Nothing, Data
<1>2. Init => CacheType BY <1>1 DEF Init, CacheType
<1>3. Init => ActorType BY DEF Init, ActorType
<1>4. Init => FlushType BY <1>1 DEF Init, FlushType
<1>5. Init => StoreType BY <1>1 DEF Init, StoreType
<1> QED BY <1>2, <1>3, <1>4, <1>5 DEF TypeOK

LEMMA CrashType ==
  ASSUME TypeOK, Crash
  PROVE  TypeOK'
<1>1. Nothing \in [Keys -> Data] /\ Nothing \in [Keys -> Instances \cup {None}]
      /\ Nothing \in [Keys -> Actors \cup {None}] BY DEF Nothing, Data
<1>2. CacheType' BY <1>1 DEF Crash, CacheType
<1>3. ActorType' BY DEF Crash, ActorType
<1>4. FlushType' BY <1>1 DEF Crash, FlushType
<1>5. StoreType' BY <1>1, OnDiskType DEF Crash, StoreType, TypeOK
<1> QED BY <1>2, <1>3, <1>4, <1>5 DEF TypeOK

LEMMA NextType ==
  ASSUME TypeOK, [Next]_vars
  PROVE  TypeOK'
<1>1. CASE UNCHANGED vars
  BY <1>1 DEF vars, TypeOK, CacheType, ActorType, FlushType, StoreType
<1>2. ASSUME NEW a \in Actors, NEW k \in Keys, NEW e \in Edits \cup {None}, Begin(a, k, e)
      PROVE TypeOK'
  BY <1>2, BeginType
<1>3. ASSUME NEW a \in Actors, ActorStep(a) PROVE TypeOK'
  BY <1>3, LookupHitType, LookupWaitType, LookupMissType, LoadType, InstallType, MutateType,
     MarkType DEF ActorStep
<1>4. ASSUME NEW f \in Flushers, FlushStep(f) PROVE TypeOK'
  BY <1>4, SwapDirtyType, PickType, StageType, TakePendingType, WriteChunkType, FlushFailsType,
     FinishFlushType, FlushInMemoryType DEF FlushStep
<1>5. CASE Crash BY <1>5, CrashType
<1> QED BY <1>1, <1>2, <1>3, <1>4, <1>5 DEF Next

\* World keeps its maps, and every goroutine inside Chunk, SetBlock or Flush the
\* column and the instance its next step uses.
THEOREM TypeCorrect == Spec => []TypeOK
<1>1. TypeOK /\ [Next]_vars => TypeOK' BY NextType
<1> QED BY InitType, <1>1, PTL DEF Spec

---------------------------------------------------------------------------
(* Pinning.  It takes that Flush calls do not overlap: the flushing set has  *)
(* room for one batch.                                                     *)

OneFlusher == \A f, g \in Flushers : f = g

\* The columns that may be dirty or in a batch.
Pinnable == Cached \cup Lecterns

\* The inductive strengthening: a batch stays in the flushing set while it is saved.
Pinning ==
  /\ dirty \subseteq Pinnable
  /\ flushing \subseteq Pinnable
  /\ \A f \in Flushers : batch[f] \subseteq flushing

\* Trimming keeps the instance of every column it is told is pinned.
LEMMA TrimmedKeeps ==
  ASSUME NEW ch \in [Keys -> Instances \cup {None}], NEW d, NEW o, Trimmed(ch, d, o),
         NEW k \in Keys, k \in d, ch[k] # None
  PROVE  chunks'[k] = ch[k]
BY DEF Trimmed, Trims

LEMMA PutBackCached ==
  ASSUME TypeOK, NEW k \in Keys, NEW i \in Instances
  PROVE  /\ PutBack(chunks, k, i) \in [Keys -> Instances \cup {None}]
         /\ \A j \in Cached \cup {k} : PutBack(chunks, k, i)[j] # None
BY NoneAssumption DEF TypeOK, CacheType, PutBack, Cached

\* A load, and an edit that puts its instance back, leave every pinned column cached.
LEMMA PinningActor ==
  ASSUME TypeOK, Pinning, NEW a \in Actors, ActorStep(a)
  PROVE  Pinning'
<1>1. batch' = batch /\ flushing' = flushing
  BY DEF ActorStep, LookupHit, LookupWait, LookupMiss, LoadFromDisk, Generate, LoadError, Produce,
         Install, Mutate, MarkBlock, MarkContainer, MarkLectern, Accept
<1>2. CASE UNCHANGED <<chunks, dirty>> BY <1>1, <1>2 DEF Pinning, Pinnable, Cached
<1>3. CASE Install(a)
  <2> DEFINE ch == [chunks EXCEPT ![key[a]] = held[a]]
  <2>1. key[a] \in Keys /\ held[a] \in Instances BY <1>3 DEF Install, TypeOK, ActorType
  <2>2. ch \in [Keys -> Instances \cup {None}] /\ \A j \in Cached \cup {key[a]} : ch[j] # None
    BY <2>1, PutBackCached DEF PutBack
  <2>3. dirty' \subseteq Pinnable \cup {key[a]} BY <1>3 DEF Install, AfterLoad, Pinning
  <2>4. PICK o : Trimmed(ch, dirty' \cup flushing, o) BY <1>3 DEF Install, Pinned
  <2>5. \A k \in dirty' \cup flushing : k \in Lecterns \/ (k \in Keys /\ chunks'[k] # None)
    <3> SUFFICES ASSUME NEW k \in dirty' \cup flushing, k \notin Lecterns
                 PROVE  k \in Keys /\ chunks'[k] # None
      OBVIOUS
    <3>1. k \in Cached \cup {key[a]} BY <2>3 DEF Pinning, Pinnable
    <3>2. k \in Keys /\ ch[k] # None BY <2>1, <2>2, <3>1 DEF Cached
    <3> HIDE DEF ch
    <3> QED BY <2>2, <2>4, <3>2, TrimmedKeeps
  <2> QED BY <1>1, <2>5 DEF Pinning, Pinnable, Cached
<1>4. CASE MarkBlock(a)
  <2> DEFINE ch == PutBack(chunks, key[a], held[a])
  <2>1. key[a] \in Keys /\ held[a] \in Instances BY <1>4 DEF MarkBlock, TypeOK, ActorType
  <2>2. ch \in [Keys -> Instances \cup {None}] /\ \A j \in Cached \cup {key[a]} : ch[j] # None
    BY <2>1, PutBackCached
  <2>3. dirty' \subseteq Pinnable \cup {key[a]} BY <1>4 DEF MarkBlock, Pinning
  <2>4. PICK o : Trimmed(ch, dirty' \cup flushing, o) BY <1>4 DEF MarkBlock, Pinned
  <2>5. \A k \in dirty' \cup flushing : k \in Lecterns \/ (k \in Keys /\ chunks'[k] # None)
    <3> SUFFICES ASSUME NEW k \in dirty' \cup flushing, k \notin Lecterns
                 PROVE  k \in Keys /\ chunks'[k] # None
      OBVIOUS
    <3>1. k \in Cached \cup {key[a]} BY <2>3 DEF Pinning, Pinnable
    <3>2. k \in Keys /\ ch[k] # None BY <2>1, <2>2, <3>1 DEF Cached
    <3> HIDE DEF ch
    <3> QED BY <2>2, <2>4, <3>2, TrimmedKeeps
  <2> QED BY <1>1, <2>5 DEF Pinning, Pinnable, Cached
<1>5. CASE MarkContainer(a)
  <2>1. key[a] \in Keys /\ held[a] \in Instances BY <1>5 DEF MarkContainer, TypeOK, ActorType
  <2>2. Cached' = Cached \cup {key[a]} BY <1>5, <2>1, PutBackCached DEF MarkContainer, Cached, PutBack,
    TypeOK, CacheType
  <2> QED BY <1>1, <1>5, <2>2 DEF MarkContainer, Pinning, Pinnable
<1>6. CASE MarkLectern(a)
  <2>1. key[a] \in Lecterns
    BY <1>6, NoneAssumption DEF MarkLectern, Lecterns, Kept, TypeOK, ActorType
  <2> QED BY <1>1, <1>6, <2>1 DEF MarkLectern, Pinning, Pinnable, Cached
<1> QED BY <1>2, <1>3, <1>4, <1>5, <1>6 DEF ActorStep, LookupHit, LookupWait, LookupMiss,
    LoadFromDisk, Generate, LoadError, Produce, Mutate

\* A Flush moves the dirty columns to its batch; ending, it either gives them back
\* or, being the only one, leaves nothing that needs the flushing set.
LEMMA PinningFlush ==
  ASSUME OneFlusher, TypeOK, Pinning, NEW f \in Flushers, FlushStep(f)
  PROVE  Pinning'
<1>1. CASE SwapDirty(f)
  <2>1. \A g \in Flushers : batch'[g] = dirty BY <1>1 DEF SwapDirty, OneFlusher, TypeOK, FlushType
  <2> QED BY <1>1, <2>1 DEF SwapDirty, Pinning, Pinnable, Cached
<1>2. CASE UNCHANGED <<chunks, dirty, flushing, batch>> BY <1>2 DEF Pinning, Pinnable, Cached
<1>3. ASSUME EndFlush(f) PROVE \A g \in Flushers : batch'[g] = {}
  BY <1>3 DEF EndFlush, OneFlusher, TypeOK, FlushType
<1>4. CASE WriteFails(f)
  BY <1>3, <1>4 DEF WriteFails, RestoreDirty, Pinning, Pinnable, Cached
<1>5. CASE StageFails(f)
  BY <1>3, <1>5 DEF StageFails, RestoreDirty, Pinning, Pinnable, Cached
<1>6. CASE FinishFlush(f)
  <2>1. \A k \in dirty : k \in Lecterns \/ chunks'[k] # None
    BY <1>6, TrimmedKeeps DEF FinishFlush, Pinning, Pinnable, Cached, TypeOK, CacheType
  <2> QED BY <1>3, <1>6, <2>1 DEF FinishFlush, Pinning, Pinnable, Cached
<1>7. CASE FlushInMemory(f)
  <2>1. \A k \in dirty \cup flushing : k \in Lecterns \/ chunks'[k] # None
    BY <1>7, TrimmedKeeps DEF FlushInMemory, Pinned, Pinning, Pinnable, Cached, TypeOK, CacheType
  <2> QED BY <1>7, <2>1 DEF FlushInMemory, Pinning, Pinnable, Cached
<1> QED BY <1>1, <1>2, <1>4, <1>5, <1>6, <1>7
    DEF FlushStep, Stage, TakePending, PickChunk, SkipChunk, WriteChunk

\* Dirty chunks are never evicted before they have been persisted (world.go:416),
\* as long as Flush calls do not overlap: but for the columns whose lecterns are
\* turned, whatever else is done to those.
THEOREM DirtyNeverEvicted ==
  ASSUME OneFlusher
  PROVE  Spec => []DirtyPinned
<1>1. Init => Pinning BY DEF Init, Pinning
<1>2. TypeOK /\ Pinning /\ [Next]_vars => Pinning'
  <2> SUFFICES ASSUME TypeOK, Pinning, [Next]_vars PROVE Pinning'
    OBVIOUS
  <2>1. CASE UNCHANGED vars BY <2>1 DEF vars, Pinning, Pinnable, Cached
  <2>2. ASSUME NEW a \in Actors, NEW k \in Keys, NEW e \in Edits \cup {None}, Begin(a, k, e)
        PROVE Pinning'
    BY <2>2 DEF Begin, Pinning, Pinnable, Cached
  <2>3. CASE Crash BY <2>3 DEF Crash, Pinning, Pinnable
  <2> QED BY <2>1, <2>2, <2>3, PinningActor, PinningFlush DEF Next
<1>3. Pinning => DirtyPinned BY DEF Pinning, Pinnable, DirtyPinned
<1> QED BY <1>1, <1>2, <1>3, TypeCorrect, PTL DEF Spec
---------------------------------------------------------------------------
(* Nothing is lost.  It takes, besides, that each column is one goroutine's. *)

OneUser == \A k \in Keys : \A a, b \in Users[k] : a = b

\* The edits begun of column k.
Of(k) == {e \in started : EditKey[e] = k}

\* Instance i is column k to the cache or to the goroutine that looked k up.
At(i, k) == chunks[k] = i \/ \E a \in Actors : held[a] = i /\ key[a] = k

\* What LoadChunk would return of column k.
Stored(k) == IF disk[k] = None THEN {} ELSE disk[k]

\* A column has one instance, and an instance is one column's.
Sole ==
  /\ \A a \in Actors : key[a] # None => a \in Users[key[a]]
  /\ \A a \in Actors : pc[a] \in {"idle", "lookup", "wait", "load"} => held[a] = None
  /\ \A a \in Actors : pc[a] = "idle" => key[a] = None
  /\ \A a \in Actors : pc[a] = "load" => chunks[key[a]] = None
  /\ \A i, j \in Instances, k \in Keys : At(i, k) /\ At(j, k) => i = j
  /\ \A i \in Instances, j, k \in Keys : At(i, j) /\ At(i, k) => j = k

\* Instances are no longer used, never shared: all steps but those that make one.
LEMMA AtShrinks ==
  ASSUME TypeOK, Sole, [Next]_vars,
         \A a \in Actors : ~(LoadFromDisk(a) \/ Generate(a) \/ LoadError(a)),
         NEW i \in Instances, NEW k \in Keys, At(i, k)'
  PROVE  At(i, k)
<1> USE DEF At
<1>0. i # None BY NoneAssumption
<1>1. CASE UNCHANGED <<chunks, held, key>> BY <1>1
<1>2. CASE Crash BY <1>0, <1>2 DEF Crash, Nothing
<1>3. ASSUME NEW a \in Actors, NEW j \in Keys, NEW e \in Edits \cup {None}, Begin(a, j, e) PROVE At(i, k)
  BY <1>0, <1>3 DEF Begin, Sole, TypeOK, ActorType
<1>4. ASSUME NEW a \in Actors, LookupHit(a) PROVE At(i, k)
  <2>1. key[a] \in Keys BY <1>4 DEF LookupHit, TypeOK, ActorType
  <2>2. CASE edit[a] = None BY <1>0, <1>4, <2>1, <2>2 DEF LookupHit, Got, Return, TypeOK, ActorType
  <2>3. CASE edit[a] # None BY <1>0, <1>4, <2>1, <2>3 DEF LookupHit, Got, TypeOK, ActorType
  <2> QED BY <2>2, <2>3
<1>5. ASSUME NEW a \in Actors, Install(a) PROVE At(i, k)
  <2>1. key[a] \in Keys /\ held[a] \in Instances BY <1>5 DEF Install, TypeOK, ActorType
  <2>2. chunks'[k] = i => chunks[k] = i \/ (k = key[a] /\ held[a] = i)
    BY <1>0, <1>5, <2>1 DEF Install, Trimmed, TypeOK, CacheType
  <2>3. \A b \in Actors : held'[b] = i /\ key'[b] = k => held[b] = i /\ key[b] = k
    BY <1>0, <1>5 DEF Install, TypeOK, ActorType
  <2> QED BY <2>1, <2>2, <2>3
<1>6. ASSUME NEW a \in Actors, MarkBlock(a) \/ MarkContainer(a) \/ MarkLectern(a) PROVE At(i, k)
  <2>1. key[a] \in Keys /\ held[a] \in Instances
    BY <1>6 DEF MarkBlock, MarkContainer, MarkLectern, TypeOK, ActorType
  <2>2. chunks'[k] = i => chunks[k] = i \/ (k = key[a] /\ held[a] = i)
    BY <1>0, <1>6, <2>1 DEF MarkBlock, MarkContainer, MarkLectern, Trimmed, PutBack, TypeOK, CacheType
  <2>3. \A b \in Actors : held'[b] = i /\ key'[b] = k => held[b] = i /\ key[b] = k
    BY <1>0, <1>6 DEF MarkBlock, MarkContainer, MarkLectern, Accept, Return, TypeOK, ActorType
  <2> QED BY <2>1, <2>2, <2>3
<1>7. ASSUME NEW f \in Flushers, FlushStep(f) PROVE At(i, k)
  <2>1. UNCHANGED <<held, key>>
    BY <1>7 DEF FlushStep, SwapDirty, Stage, TakePending, FinishFlush, WriteFails, StageFails, PickChunk,
       SkipChunk, WriteChunk, FlushInMemory
  <2>2. chunks'[k] = i => chunks[k] = i
    BY <1>0, <1>7 DEF FlushStep, SwapDirty, Stage, TakePending, FinishFlush, WriteFails, StageFails, PickChunk,
       SkipChunk, WriteChunk, FlushInMemory, Trimmed
  <2> QED BY <2>1, <2>2
<1>8. ASSUME NEW a \in Actors, ActorStep(a) PROVE At(i, k)
  BY <1>1, <1>4, <1>5, <1>6, <1>8 DEF ActorStep, LookupWait, LookupMiss, Mutate
<1> QED BY <1>1, <1>2, <1>3, <1>7, <1>8 DEF Next, vars

\* Who is at column k is its only user.
LEMMA SoleUser ==
  ASSUME OneUser, TypeOK, Sole, NEW a \in Actors, NEW b \in Actors, key[a] # None, key[b] = key[a]
  PROVE  b = a
BY DEF OneUser, Sole, TypeOK, ActorType

\* A load makes an instance nobody else has, of a column nobody else has.
LEMMA ProducedAt ==
  ASSUME OneUser, TypeOK, Sole, NEW a \in Actors, LoadFromDisk(a) \/ Generate(a) \/ LoadError(a)
  PROVE  \E i \in Instances :
           /\ \A k \in Keys : ~At(i, k)
           /\ \A j \in Instances : ~At(j, key[a])
           /\ \A j \in Instances, k \in Keys : At(j, k)' <=> At(j, k) \/ (j = i /\ k = key[a])
           /\ held' = [held EXCEPT ![a] = i]
           /\ \A j \in Instances \ {i} : content'[j] = content[j]
           /\ LoadFromDisk(a) => content'[i] = disk[key[a]]
           /\ ~LoadFromDisk(a) => content'[i] = {}
<1> USE DEF At
<1>1. PICK data, g : Produce(a, data, g) /\ (LoadFromDisk(a) => data = disk[key[a]]) /\ (~LoadFromDisk(a) => data = {})
  BY DEF LoadFromDisk, Generate, LoadError
<1>2. PICK i \in Instances : /\ Fresh(i) /\ content' = [content EXCEPT ![i] = data]
                             /\ held' = [held EXCEPT ![a] = i] /\ UNCHANGED <<chunks, key>>
  BY <1>1 DEF Produce
<1>3. pc[a] = "load" /\ key[a] \in Keys BY DEF LoadFromDisk, Generate, LoadError, TypeOK, ActorType
<1>4. \A k \in Keys : ~At(i, k) BY <1>2 DEF Fresh, Live
<1>5. \A j \in Instances : ~At(j, key[a])
  BY <1>3, SoleUser, NoneAssumption DEF Sole
<1>6. \A j \in Instances, k \in Keys : At(j, k)' <=> At(j, k) \/ (j = i /\ k = key[a])
  BY <1>2, <1>3, NoneAssumption DEF Sole, TypeOK, ActorType
<1>7. content'[i] = data /\ \A j \in Instances \ {i} : content'[j] = content[j]
  BY <1>2 DEF TypeOK, CacheType
<1> HIDE DEF At
<1> QED BY <1>1, <1>2, <1>4, <1>5, <1>6, <1>7

LEMMA SoleStep ==
  ASSUME OneUser, TypeOK, TypeOK', Sole, [Next]_vars
  PROVE  Sole'
<1>1. \A i, j \in Instances, k \in Keys : At(i, k)' /\ At(j, k)' => i = j
  <2>1. ASSUME NEW a \in Actors, LoadFromDisk(a) \/ Generate(a) \/ LoadError(a)
        PROVE  \A i, j \in Instances, k \in Keys : At(i, k)' /\ At(j, k)' => i = j
    BY <2>1, ProducedAt DEF Sole
  <2> QED BY <2>1, AtShrinks DEF Sole
<1>2. \A i \in Instances, j, k \in Keys : At(i, j)' /\ At(i, k)' => j = k
  <2>1. ASSUME NEW a \in Actors, LoadFromDisk(a) \/ Generate(a) \/ LoadError(a)
        PROVE  \A i \in Instances, j, k \in Keys : At(i, j)' /\ At(i, k)' => j = k
    BY <2>1, ProducedAt DEF Sole
  <2> QED BY <2>1, AtShrinks DEF Sole
<1> DEFINE Calls ==
      /\ \A a \in Actors : key[a] # None => a \in Users[key[a]]
      /\ \A a \in Actors : pc[a] \in {"idle", "lookup", "wait", "load"} => held[a] = None
      /\ \A a \in Actors : pc[a] = "idle" => key[a] = None
      /\ \A a \in Actors : pc[a] = "load" => chunks[key[a]] = None
<1>3. Calls BY DEF Sole
<1>4. Calls'
  <2>1. CASE UNCHANGED vars BY <1>3, <2>1 DEF vars
  <2>2. CASE Crash BY <2>2 DEF Crash
  <2>3. ASSUME NEW a \in Actors, NEW j \in Keys, NEW e \in Edits \cup {None}, Begin(a, j, e) PROVE Calls'
    BY <1>3, <2>3 DEF Begin, TypeOK, ActorType
  <2>4. ASSUME NEW f \in Flushers, FlushStep(f) PROVE Calls'
    <3>1. UNCHANGED <<pc, held, key>>
      BY <2>4 DEF FlushStep, SwapDirty, Stage, TakePending, FinishFlush, WriteFails, StageFails, PickChunk,
         SkipChunk, WriteChunk, FlushInMemory
    <3>2. \A k \in Keys : chunks[k] = None => chunks'[k] = None
      BY <2>4 DEF FlushStep, SwapDirty, Stage, TakePending, FinishFlush, WriteFails, StageFails, PickChunk,
         SkipChunk, WriteChunk, FlushInMemory, Trimmed
    <3>3. \A b \in Actors : pc[b] # "idle" => key[b] \in Keys BY DEF TypeOK, ActorType
    <3> QED BY <1>3, <3>1, <3>2, <3>3
  <2>5. ASSUME NEW a \in Actors, ActorStep(a) PROVE Calls'
    <3>1. CASE LookupHit(a)
      <4>1. CASE edit[a] = None BY <1>3, <3>1, <4>1 DEF LookupHit, Got, Return, TypeOK, ActorType
      <4>2. CASE edit[a] # None BY <1>3, <3>1, <4>2 DEF LookupHit, Got, TypeOK, ActorType
      <4> QED BY <4>1, <4>2
    <3>2. CASE LookupWait(a) \/ LookupMiss(a)
      BY <1>3, <3>2 DEF LookupWait, LookupMiss, Unclaimed, TypeOK, ActorType
    <3>3. CASE LoadFromDisk(a) \/ Generate(a) \/ LoadError(a)
      <4>1. PICK i \in Instances : held' = [held EXCEPT ![a] = i] BY <3>3, ProducedAt
      <4>2. pc' = [pc EXCEPT ![a] = "install"] /\ UNCHANGED <<key, chunks>>
        BY <3>3 DEF LoadFromDisk, Generate, LoadError, Produce
      <4> QED BY <1>3, <4>1, <4>2 DEF TypeOK, ActorType
    <3>4. CASE Mutate(a) BY <1>3, <3>4 DEF Mutate, TypeOK, ActorType
    <3>5. CASE Install(a) \/ MarkBlock(a) \/ MarkContainer(a) \/ MarkLectern(a)
      <4>1. pc[a] \in {"install", "mark"} /\ key[a] \in Keys
        BY <3>5 DEF Install, MarkBlock, MarkContainer, MarkLectern, TypeOK, ActorType
      <4>2. \A b \in Actors : key'[b] \in {key[b], None} /\ held'[b] \in {held[b], None}
        BY <3>5 DEF Install, MarkBlock, MarkContainer, MarkLectern, Accept, Return, TypeOK, ActorType
      <4>3. \A b \in Actors \ {a} : key'[b] = key[b] /\ held'[b] = held[b]
                                    /\ (pc'[b] = pc[b] \/ (pc[b] = "wait" /\ pc'[b] = "lookup"))
        BY <3>5 DEF Install, Woken, LooksAgain, MarkBlock, MarkContainer, MarkLectern, Accept, Return,
           TypeOK, ActorType
      <4>4. pc'[a] \in {"idle", "held"} /\ (pc'[a] = "idle" => key'[a] = None /\ held'[a] = None)
        BY <3>5 DEF Install, MarkBlock, MarkContainer, MarkLectern, Accept, Return, TypeOK, ActorType
      <4>5. \A k \in Keys \ {key[a]} : chunks[k] = None => chunks'[k] = None
        BY <3>5, <4>1 DEF Install, MarkBlock, MarkContainer, MarkLectern, Trimmed, PutBack, TypeOK, CacheType
      <4>6. \A b \in Actors \ {a} : pc[b] = "load" => key[b] \in Keys \ {key[a]}
        BY <4>1, SoleUser, NoneAssumption DEF TypeOK, ActorType
      <4> QED BY <1>3, <4>1, <4>2, <4>3, <4>4, <4>5, <4>6
    <3> QED BY <2>5, <3>1, <3>2, <3>3, <3>4, <3>5 DEF ActorStep
  <2> QED BY <2>1, <2>2, <2>3, <2>4, <2>5 DEF Next
<1> QED BY <1>1, <1>2, <1>4 DEF Sole

\* Something of column k is on its way to the disk.
Staged(k) ==
  \/ pending[k] # None
  \/ \E f \in Flushers : taken[f][k] # None \/ (fpc[f] = "encode" /\ column[f] = k)

\* Where a Flush keeps its columns.
Orderly(f) ==
  /\ batch[f] = flushing /\ todo[f] \subseteq batch[f]
  /\ fpc[f] = "idle" => batch[f] = {}
  /\ fpc[f] \in {"idle", "write"} => todo[f] = {}
  /\ fpc[f] # "encode" => column[f] = None
  /\ fpc[f] = "encode" => hand[f] = chunks[column[f]]
  /\ fpc[f] # "write" => taken[f] = Nothing
  /\ fpc[f] = "write" => pending = Nothing
  /\ \A k \in towrite[f] : taken[f][k] # None

\* A column on its way to the disk is pinned, and cached.
Saving ==
  /\ \A f \in Flushers : Orderly(f)
  /\ \A k \in Keys : Staged(k) => k \in dirty \cup flushing /\ chunks[k] # None

\* What lookups and edits do to the cache: a pinned column stays pinned and keeps its instance.
LEMMA ActorKeepsPinned ==
  ASSUME TypeOK, TypeOK', Sole, Sole', NEW a \in Actors, ActorStep(a)
  PROVE  /\ dirty \subseteq dirty' /\ UNCHANGED <<flushing, flushVars, storeVars, durable>>
         /\ \A k \in Keys : chunks[k] # None /\ chunks'[k] # chunks[k] => chunks'[k] = None
         /\ \A k \in Keys : chunks[k] # None /\ chunks'[k] = None => k \notin dirty' \cup flushing
<1>1. CASE LookupHit(a) \/ LookupWait(a) \/ LookupMiss(a) \/ LoadFromDisk(a) \/ Generate(a) \/ LoadError(a) \/ Mutate(a)
  BY <1>1 DEF LookupHit, LookupWait, LookupMiss, LoadFromDisk, Generate, LoadError, Produce, Mutate
<1>2. ASSUME NEW ch, Trimmed(ch, dirty' \cup flushing, Touched(key[a], older)), NEW k \in Keys, ch[k] # None, chunks'[k] = None
      PROVE  k \notin dirty' \cup flushing
  BY <1>2 DEF Trimmed, Trims
<1>3. CASE Install(a) \/ MarkBlock(a) \/ MarkContainer(a) \/ MarkLectern(a)
  <2>1. key[a] \in Keys /\ held[a] \in Instances /\ held[a] # None
    BY <1>3, NoneAssumption DEF Install, MarkBlock, MarkContainer, MarkLectern, TypeOK, ActorType
  <2>2. \A k \in Keys : chunks[k] # None => chunks[k] \in Instances BY DEF TypeOK, CacheType
  <2>3. chunks[key[a]] # None => chunks[key[a]] = held[a] BY <2>1, <2>2 DEF Sole, At
  <2>4. dirty \subseteq dirty' /\ UNCHANGED <<flushing, flushVars, storeVars, durable>>
    BY <1>3 DEF Install, AfterLoad, MarkBlock, MarkContainer, MarkLectern, Accept
  <2> DEFINE ch == [chunks EXCEPT ![key[a]] = held[a]]
  <2>5. \A k \in Keys : chunks[k] # None => ch[k] = chunks[k] BY <2>1, <2>3 DEF TypeOK, CacheType
  <2>6. chunks' = chunks \/ chunks' = ch \/ Trimmed(ch, dirty' \cup flushing, Touched(key[a], older))
    BY <1>3 DEF Install, MarkBlock, MarkContainer, MarkLectern, Pinned, PutBack
  <2>7. \A k \in Keys : chunks'[k] = chunks[k] \/ chunks'[k] = ch[k] \/ chunks'[k] = None
    BY <2>6 DEF Trimmed
  <2> HIDE DEF ch
  <2> QED BY <1>2, <2>4, <2>5, <2>6, <2>7
<1> QED BY <1>1, <1>3 DEF ActorStep

LEMMA SavingActor ==
  ASSUME TypeOK, TypeOK', Sole, Sole', Saving, NEW a \in Actors, ActorStep(a)
  PROVE  Saving'
<1>1. UNCHANGED <<flushing, flushVars, storeVars>> BY ActorKeepsPinned
<1>2. \A k \in Keys : Staged(k)' <=> Staged(k) BY <1>1 DEF Staged
<1>3. \A k \in Keys : Staged(k) => k \in dirty' \cup flushing' /\ chunks'[k] # None /\ chunks'[k] = chunks[k]
  BY ActorKeepsPinned DEF Saving
<1>4. ASSUME NEW f \in Flushers PROVE Orderly(f)'
  <2>1. fpc[f] = "encode" => chunks'[column[f]] = chunks[column[f]]
    BY <1>3 DEF Staged, TypeOK, FlushType
  <2> QED BY <1>1, <2>1 DEF Saving, Orderly
<1> QED BY <1>2, <1>3, <1>4 DEF Saving

\* The batch is the flushing set; what fails or ends leaves both empty.
LEMMA SavingFlush ==
  ASSUME OneFlusher, TypeOK, TypeOK', Saving, NEW f \in Flushers, FlushStep(f)
  PROVE  Saving'
<1>0. \A g \in Flushers : g = f BY DEF OneFlusher
<1>t. FlushType /\ FlushType' BY DEF TypeOK
<1>s. pending \in [Keys -> Data] /\ chunks \in [Keys -> Instances \cup {None}] BY DEF TypeOK, StoreType, CacheType
<1>o. Orderly(f) BY DEF Saving
<1>u. SUFFICES Orderly(f)' /\ \A k \in Keys : Staged(k)' => k \in dirty' \cup flushing' /\ chunks'[k] # None
  BY <1>0 DEF Saving
<1>1. CASE SwapDirty(f)
  <2>1. Orderly(f)' BY <1>1, <1>t, <1>o DEF SwapDirty, Orderly, FlushType
  <2>2. \A k \in Keys : Staged(k)' => Staged(k) BY <1>0, <1>1, <1>t DEF SwapDirty, Staged, FlushType
  <2> QED BY <1>1, <1>o, <2>1, <2>2 DEF SwapDirty, Saving, Orderly
<1>2. ASSUME NEW k \in Keys, PickChunk(f, k) PROVE Orderly(f)' /\ \A j \in Keys : Staged(j)' => j \in dirty' \cup flushing' /\ chunks'[j] # None
  <2>1. Orderly(f)' BY <1>2, <1>t, <1>o DEF PickChunk, Orderly, FlushType
  <2>2. \A j \in Keys : Staged(j)' => Staged(j) \/ j = k BY <1>0, <1>2, <1>t DEF PickChunk, Staged, FlushType
  <2> QED BY <1>2, <1>o, <2>1, <2>2 DEF PickChunk, StillCached, Saving, Orderly
<1>3. ASSUME NEW k \in Keys, SkipChunk(f, k) PROVE Orderly(f)' /\ \A j \in Keys : Staged(j)' => j \in dirty' \cup flushing' /\ chunks'[j] # None
  <2>1. Orderly(f)' BY <1>3, <1>t, <1>o DEF SkipChunk, Orderly, FlushType
  <2>2. \A j \in Keys : Staged(j)' => Staged(j) BY <1>3 DEF SkipChunk, Staged
  <2> QED BY <1>3, <2>1, <2>2 DEF SkipChunk, Saving
<1>4. CASE Stage(f)
  <2>1. Orderly(f)' BY <1>4, <1>t, <1>o DEF Stage, Orderly, FlushType
  <2>2. \A j \in Keys : Staged(j)' => Staged(j)
    BY <1>0, <1>4, <1>t, <1>s DEF Stage, Staged, FlushType
  <2> QED BY <1>4, <2>1, <2>2 DEF Stage, Saving
<1>5. CASE TakePending(f)
  <2>1. Orderly(f)' BY <1>5, <1>t, <1>o DEF TakePending, Orderly, FlushType
  <2>2. \A j \in Keys : Staged(j)' => Staged(j)
    BY <1>0, <1>5, <1>t, <1>s DEF TakePending, Staged, FlushType, Nothing
  <2> QED BY <1>5, <2>1, <2>2 DEF TakePending, Saving
<1>6. ASSUME NEW k \in Keys, WriteChunk(f, k) PROVE Orderly(f)' /\ \A j \in Keys : Staged(j)' => j \in dirty' \cup flushing' /\ chunks'[j] # None
  <2>1. Orderly(f)' BY <1>6, <1>t, <1>o DEF WriteChunk, Orderly, FlushType
  <2>2. \A j \in Keys : Staged(j)' => Staged(j) BY <1>6 DEF WriteChunk, Staged
  <2> QED BY <1>6, <2>1, <2>2 DEF WriteChunk, Saving
<1>7. ASSUME EndFlush(f), flushing' = {} PROVE Orderly(f)' /\ \A g \in Flushers : taken'[g] = Nothing /\ fpc'[g] = "idle"
  BY <1>0, <1>7, <1>t DEF EndFlush, Orderly, FlushType
<1>8. CASE WriteFails(f)
  <2>1. Orderly(f)' BY <1>7, <1>8 DEF WriteFails
  <2>2. \A j \in Keys : Staged(j)' => Staged(j)
    BY <1>7, <1>8, <1>s DEF WriteFails, Staged, Nothing
  <2> QED BY <1>8, <1>o, <2>1, <2>2 DEF WriteFails, RestoreDirty, Saving, Orderly
<1>9. CASE StageFails(f)
  <2>1. Orderly(f)' BY <1>7, <1>9 DEF StageFails
  <2>2. \A j \in Keys : Staged(j)' => Staged(j)
    BY <1>7, <1>9 DEF StageFails, Staged, Nothing
  <2> QED BY <1>9, <1>o, <2>1, <2>2 DEF StageFails, RestoreDirty, Saving, Orderly
<1>10. CASE FinishFlush(f)
  <2>1. Orderly(f)' BY <1>7, <1>10 DEF FinishFlush
  <2>2. \A j \in Keys : ~Staged(j)'
    BY <1>7, <1>10, <1>o DEF FinishFlush, Staged, Nothing, Orderly
  <2> QED BY <2>1, <2>2
<1>11. CASE FlushInMemory(f)
  <2>1. \A j \in Keys : Staged(j)' <=> Staged(j) BY <1>11 DEF FlushInMemory, Staged
  <2>2. \A j \in Keys : Staged(j) => chunks'[j] = chunks[j]
    BY <1>11, <1>s, TrimmedKeeps DEF FlushInMemory, Saving, Pinned
  <2>3. fpc[f] = "idle" BY <1>11 DEF FlushInMemory
  <2>4. Orderly(f)' BY <1>11, <1>o, <2>3 DEF FlushInMemory, Orderly
  <2> QED BY <1>11, <2>1, <2>2, <2>4 DEF FlushInMemory, Saving
<1> QED BY <1>1, <1>2, <1>3, <1>4, <1>5, <1>6, <1>8, <1>9, <1>10, <1>11 DEF FlushStep

LEMMA SavingStep ==
  ASSUME OneFlusher, TypeOK, TypeOK', Sole, Sole', Saving, [Next]_vars
  PROVE  Saving'
<1>1. CASE UNCHANGED vars BY <1>1 DEF vars, Saving, Orderly, Staged
<1>2. ASSUME NEW a \in Actors, NEW k \in Keys, NEW e \in Edits \cup {None}, Begin(a, k, e) PROVE Saving'
  BY <1>2 DEF Begin, Saving, Orderly, Staged
<1>3. CASE Crash
  <2>1. \A f \in Flushers : Orderly(f)' BY <1>3 DEF Crash, Orderly
  <2>2. \A k \in Keys : ~Staged(k)' BY <1>3 DEF Crash, Staged, Nothing
  <2> QED BY <2>1, <2>2 DEF Saving
<1> QED BY <1>1, <1>2, <1>3, SavingActor, SavingFlush DEF Next

\* The versions of column k between its instance and the disk.
Layers(k) == ({pending[k]} \cup {taken[f][k] : f \in Flushers}) \ {None}

\* Each version has all that the one below it has: instance, what is staged, disk.
Layered ==
  /\ \A i \in Instances, k \in Keys : At(i, k) => Stored(k) \subseteq content[i] /\ content[i] \subseteq Of(k)
  /\ \A k \in Keys : Stored(k) \subseteq Of(k)
  /\ \A k \in Keys : \A d \in Layers(k) :
       /\ Stored(k) \subseteq d
       /\ \A i \in Instances : At(i, k) => d \subseteq content[i]

\* Each edit is one call's, and once it has returned nobody's.
Once ==
  /\ accepted \subseteq started
  /\ \A a \in Actors : edit[a] # None => edit[a] \in started /\ edit[a] \notin accepted
  /\ \A a, b \in Actors : edit[a] # None /\ edit[b] = edit[a] => b = a

\* Edits stay begun.
LEMMA StartedGrows ==
  ASSUME [Next]_vars
  PROVE  started \subseteq started' /\ \A k \in Keys : Of(k) \subseteq Of(k)'
<1>1. ASSUME NEW a \in Actors, ActorStep(a) PROVE UNCHANGED started
  BY <1>1 DEF ActorStep, LookupHit, LookupWait, LookupMiss, LoadFromDisk, Generate, LoadError, Produce, Install,
     Mutate, MarkBlock, MarkContainer, MarkLectern, Accept
<1>2. ASSUME NEW f \in Flushers, FlushStep(f) PROVE UNCHANGED started
  BY <1>2 DEF FlushStep, SwapDirty, Stage, TakePending, FinishFlush, WriteFails, StageFails, PickChunk,
     SkipChunk, WriteChunk, FlushInMemory
<1>3. ASSUME NEW a \in Actors, NEW k \in Keys, NEW e \in Edits \cup {None}, Begin(a, k, e)
      PROVE started \subseteq started'
  BY <1>3 DEF Begin
<1>4. Crash => UNCHANGED started BY DEF Crash
<1>5. UNCHANGED vars => UNCHANGED started BY DEF vars
<1>6. started \subseteq started' BY <1>1, <1>2, <1>3, <1>4, <1>5 DEF Next
<1> QED BY <1>6 DEF Of

LEMMA OnceStep ==
  ASSUME TypeOK, TypeOK', Once, Layered, [Next]_vars
  PROVE  Once'
<1>1. CASE UNCHANGED <<accepted, started, edit>> BY <1>1 DEF Once
<1>2. CASE Crash
  <2>1. \A e \in OnDisk : e \in started BY DEF OnDisk, Layered, Stored, Of
  <2> QED BY <1>2, <2>1 DEF Crash, Once
<1>3. ASSUME NEW a \in Actors, NEW k \in Keys, NEW e \in Edits \cup {None}, Begin(a, k, e) PROVE Once'
  <2>1. edit' = [edit EXCEPT ![a] = e] /\ UNCHANGED accepted /\ (e # None => e \notin started)
        /\ started' = IF e = None THEN started ELSE started \cup {e}
    BY <1>3 DEF Begin
  <2> QED BY <2>1 DEF Once, TypeOK, ActorType
<1>4. ASSUME NEW a \in Actors, ActorStep(a) PROVE Once'
  <2>1. UNCHANGED started /\ (edit' = edit \/ edit' = [edit EXCEPT ![a] = None])
    BY <1>4 DEF ActorStep, LookupHit, Got, Return, LookupWait, LookupMiss, LoadFromDisk, Generate, LoadError,
       Produce, Install, Mutate, MarkBlock, MarkContainer, MarkLectern, Accept
  <2>2. UNCHANGED accepted
        \/ (edit[a] \in Edits /\ accepted' = accepted \cup {edit[a]} /\ edit' = [edit EXCEPT ![a] = None])
    BY <1>4 DEF ActorStep, LookupHit, LookupWait, LookupMiss, LoadFromDisk, Generate, LoadError, Produce,
       Install, Mutate, MarkBlock, MarkContainer, MarkLectern, Accept, Return, TypeOK, ActorType
  <2> QED BY <2>1, <2>2, NoneAssumption DEF Once, TypeOK, ActorType
<1>5. ASSUME NEW f \in Flushers, FlushStep(f) PROVE UNCHANGED <<accepted, started, edit>>
  BY <1>5 DEF FlushStep, SwapDirty, Stage, TakePending, FinishFlush, WriteFails, StageFails, PickChunk,
     SkipChunk, WriteChunk, FlushInMemory
<1> QED BY <1>1, <1>2, <1>3, <1>4, <1>5 DEF Next, vars

\* An instance in use keeps its content, but for edits added to it.
LEMMA ContentGrows ==
  ASSUME TypeOK, TypeOK', Sole, [Next]_vars,
         \A a \in Actors : ~(LoadFromDisk(a) \/ Generate(a) \/ LoadError(a)),
         NEW i \in Instances, NEW k \in Keys, At(i, k)'
  PROVE  /\ content[i] \subseteq content'[i]
         /\ \/ content'[i] = content[i]
            \/ \E a \in Actors : /\ Mutate(a) /\ held[a] = i /\ edit[a] \in Edits /\ key[a] = EditKey[edit[a]]
                                 /\ content'[i] = content[i] \cup {edit[a]}
<1>0. i \in Live' BY DEF At, Live
<1>n. i # None BY NoneAssumption
<1>c. content \in [Instances -> SUBSET Edits] BY DEF TypeOK, CacheType
<1>1. CASE content' = Collected(content) BY <1>0, <1>1 DEF Collected
<1>2. CASE UNCHANGED content BY <1>2
<1>3. CASE Crash BY <1>3, <1>n DEF Crash, At, Nothing
<1>4. ASSUME NEW a \in Actors, Mutate(a)
      PROVE  \/ content'[i] = content[i]
             \/ /\ held[a] = i /\ edit[a] \in Edits /\ key[a] = EditKey[edit[a]]
                /\ content'[i] = content[i] \cup {edit[a]}
  <2>1. held[a] \in Instances /\ edit[a] \in Edits /\ key[a] = EditKey[edit[a]]
    BY <1>4, NoneAssumption DEF Mutate, TypeOK, ActorType
  <2> QED BY <1>4, <1>c, <2>1 DEF Mutate
<1>5. ASSUME NEW a \in Actors, ActorStep(a), ~Mutate(a) PROVE content' = Collected(content) \/ UNCHANGED content
  BY <1>5 DEF ActorStep, LookupHit, LookupWait, LookupMiss, Install, MarkBlock, MarkContainer, MarkLectern
<1>6. ASSUME NEW f \in Flushers, FlushStep(f) PROVE content' = Collected(content) \/ UNCHANGED content
  BY <1>6 DEF FlushStep, SwapDirty, Stage, TakePending, FinishFlush, WriteFails, StageFails, PickChunk,
     SkipChunk, WriteChunk, FlushInMemory
<1>7. ASSUME NEW a \in Actors, NEW j \in Keys, NEW e \in Edits \cup {None}, Begin(a, j, e) PROVE UNCHANGED content
  BY <1>7 DEF Begin
<1>8. \/ content' = Collected(content) \/ UNCHANGED content \/ Crash
      \/ \E a \in Actors : Mutate(a)
  <2>1. ASSUME NEW a \in Actors, ActorStep(a)
        PROVE  content' = Collected(content) \/ UNCHANGED content \/ Mutate(a)
    BY <1>5, <2>1
  <2>2. CASE Next
    <3>1. CASE \E a \in Actors, k1 \in Keys, e \in Edits \cup {None} : Begin(a, k1, e) BY <1>7, <3>1
    <3>2. CASE \E a \in Actors : ActorStep(a) BY <2>1, <3>2
    <3>3. CASE \E f \in Flushers : FlushStep(f) BY <1>6, <3>3
    <3> QED BY <2>2, <3>1, <3>2, <3>3 DEF Next
  <2>3. CASE UNCHANGED vars BY <2>3 DEF vars
  <2> QED BY <2>2, <2>3
<1> QED BY <1>1, <1>2, <1>3, <1>4, <1>8

\* The instances' part: loads read the disk, edits add their own.
LEMMA LayeredActor ==
  ASSUME OneUser, TypeOK, TypeOK', Sole, Sole', Saving, Layered, Once, [Next]_vars, loadErrors' = 0,
         UNCHANGED <<pending, disk, taken>>
  PROVE  Layered'
<1>1. \A k \in Keys : Stored(k)' = Stored(k) /\ Layers(k)' = Layers(k) BY DEF Stored, Layers
<1>2. SUFFICES ASSUME NEW i \in Instances, NEW k \in Keys, At(i, k)'
               PROVE  /\ Stored(k) \subseteq content'[i] /\ content'[i] \subseteq Of(k)
                      /\ \A d \in Layers(k) : d \subseteq content'[i]
  BY <1>1, StartedGrows DEF Layered
<1>3. ASSUME NEW a \in Actors, LoadFromDisk(a) \/ Generate(a) \/ LoadError(a)
      PROVE  /\ Stored(k) \subseteq content'[i] /\ content'[i] \subseteq Of(k)
             /\ \A d \in Layers(k) : d \subseteq content'[i]
  <2>1. ~LoadError(a)
    <3>1. loadErrors \in Nat BY DEF TypeOK, StoreType
    <3>2. LoadError(a) => loadErrors' = loadErrors + 1 BY DEF LoadError
    <3> QED BY <3>1, <3>2
  <2>2. key[a] \in Keys /\ chunks[key[a]] = None BY <1>3 DEF LoadFromDisk, Generate, LoadError, TypeOK, ActorType, Sole
  <2>3. PICK n \in Instances :
          /\ \A j \in Instances, l \in Keys : At(j, l)' <=> At(j, l) \/ (j = n /\ l = key[a])
          /\ \A j \in Keys : ~At(n, j)
          /\ \A j \in Instances \ {n} : content'[j] = content[j]
          /\ LoadFromDisk(a) => content'[n] = disk[key[a]]
          /\ ~LoadFromDisk(a) => content'[n] = {}
    BY <1>3, ProducedAt
  <2>4. CASE i = n
    <3>1. k = key[a] BY <2>3, <2>4, <1>2
    <3>2. content'[i] = Stored(k)
      BY <1>3, <2>1, <2>3, <2>4, <3>1 DEF Stored, LoadFromDisk, Generate
    <3>3. Layers(k) = {}
      <4>1. ~Staged(k) BY <2>2, <3>1 DEF Saving
      <4> QED BY <4>1 DEF Layers, Staged
    <3> QED BY <3>2, <3>3 DEF Layered
  <2>5. CASE i # n BY <1>2, <2>3, <2>5 DEF Layered
  <2> QED BY <2>4, <2>5
<1>4. CASE \A a \in Actors : ~(LoadFromDisk(a) \/ Generate(a) \/ LoadError(a))
  <2>1. At(i, k) BY <1>2, <1>4, AtShrinks
  <2>2. content[i] \subseteq content'[i] BY <1>2, <1>4, ContentGrows
  <2>3. content'[i] \subseteq Of(k)
    <3>1. CASE content'[i] = content[i] BY <2>1, <3>1 DEF Layered
    <3>2. ASSUME NEW a \in Actors, held[a] = i, edit[a] \in Edits, key[a] = EditKey[edit[a]],
                 content'[i] = content[i] \cup {edit[a]}
          PROVE  content'[i] \subseteq Of(k)
      <4>1. key[a] \in Keys BY <3>2, KeysAssumption
      <4>2. At(i, key[a]) BY <3>2 DEF At
      <4>3. key[a] = k BY <2>1, <4>1, <4>2 DEF Sole
      <4>4. content[i] \subseteq Of(k) BY <2>1 DEF Layered
      <4>5. edit[a] \in Of(k) BY <3>2, <4>3, NoneAssumption DEF Of, Once
      <4> QED BY <3>2, <4>4, <4>5
    <3> QED BY <1>2, <1>4, <3>1, <3>2, ContentGrows
  <2> QED BY <2>1, <2>2, <2>3 DEF Layered
<1> QED BY <1>3, <1>4

\* A lookup that makes no instance, or an edit, leaves what is in use, and only adds to it.
LEMMA ActorShrinks ==
  ASSUME TypeOK, TypeOK', Sole, NEW a \in Actors, ActorStep(a), ~(LoadFromDisk(a) \/ Generate(a) \/ LoadError(a)),
         NEW i \in Instances, NEW k \in Keys, At(i, k)'
  PROVE  At(i, k) /\ content[i] \subseteq content'[i]
<1>1. \A b \in Actors \ {a} : pc'[b] # "install" \/ pc[b] # "load"
  BY DEF ActorStep, LookupHit, Got, Return, LookupWait, LookupMiss, Install, Woken, LooksAgain, Mutate,
     MarkBlock, MarkContainer, MarkLectern, Accept, TypeOK, ActorType
<1>2. \A b \in Actors : ~(LoadFromDisk(b) \/ Generate(b) \/ LoadError(b))
  BY <1>1 DEF LoadFromDisk, Generate, LoadError, Produce, TypeOK, ActorType
<1> QED BY <1>2, AtShrinks, ContentGrows DEF Next

\* A Flush uses no new instance, and writes none.
LEMMA FlushReads ==
  ASSUME TypeOK, TypeOK', Sole, NEW f \in Flushers, FlushStep(f), NEW i \in Instances, NEW k \in Keys, At(i, k)'
  PROVE  At(i, k) /\ content'[i] = content[i]
<1>1. UNCHANGED pc
  BY DEF FlushStep, SwapDirty, Stage, TakePending, FinishFlush, WriteFails, StageFails, PickChunk, SkipChunk,
     WriteChunk, FlushInMemory
<1>2. \A a \in Actors : ~(LoadFromDisk(a) \/ Generate(a) \/ LoadError(a) \/ Mutate(a))
  BY <1>1 DEF LoadFromDisk, Generate, LoadError, Mutate, Produce, TypeOK, ActorType
<1> QED BY <1>2, AtShrinks, ContentGrows DEF Next

\* The storage's part: a stage is a copy of the instance, a write one of the stage.
LEMMA LayeredFlush ==
  ASSUME OneFlusher, TypeOK, TypeOK', Sole, Saving, Layered, NEW f \in Flushers, FlushStep(f)
  PROVE  Layered'
<1>0. \A g \in Flushers : g = f BY DEF OneFlusher
<1>g. \A k \in Keys : Of(k) \subseteq Of(k)' BY StartedGrows DEF Next
<1>t. FlushType /\ FlushType' BY DEF TypeOK
<1>s. pending \in [Keys -> Data] /\ disk \in [Keys -> Data] /\ chunks \in [Keys -> Instances \cup {None}]
  BY DEF TypeOK, StoreType, CacheType
<1>o. Orderly(f) BY DEF Saving
<1>1. ASSUME UNCHANGED disk, \A k \in Keys : Layers(k)' \subseteq Layers(k) PROVE Layered'
  <2>1. \A k \in Keys : Stored(k)' = Stored(k) BY <1>1 DEF Stored
  <2> QED BY <1>1, <2>1, FlushReads, <1>g DEF Layered
<1>2. CASE UNCHANGED <<pending, taken, disk>> BY <1>1, <1>2 DEF Layers
<1>3. CASE Stage(f)
  <2> DEFINE c == column[f]  h == hand[f]
  <2>1. c \in Keys /\ h \in Instances /\ At(h, c) BY <1>3, <1>t, <1>o DEF Stage, FlushType, Orderly, At
  <2>2. \A k \in Keys : Layers(k)' \subseteq Layers(k) \cup (IF k = c THEN {content[h]} ELSE {})
    BY <1>3, <1>s DEF Stage, Layers
  <2>3. \A k \in Keys : Stored(k)' = Stored(k) BY <1>3 DEF Stage, Stored
  <2>4. ASSUME NEW k \in Keys, NEW d \in Layers(k)'
        PROVE  Stored(k) \subseteq d /\ \A i \in Instances : At(i, k) => d \subseteq content[i]
    <3>1. CASE d \in Layers(k) BY <3>1 DEF Layered
    <3>2. CASE k = c /\ d = content[h]
      <4>1. \A i \in Instances : At(i, k) => i = h BY <2>1, <3>2 DEF Sole
      <4> QED BY <2>1, <3>2, <4>1 DEF Layered
    <3> QED BY <2>2, <3>1, <3>2
  <2> QED BY <2>3, <2>4, FlushReads, <1>g DEF Layered
<1>4. CASE TakePending(f)
  <2>1. \A g \in Flushers : taken'[g] = pending BY <1>0, <1>4, <1>t DEF TakePending, FlushType
  <2>2. \A k \in Keys : Layers(k)' \subseteq Layers(k) BY <1>4, <2>1 DEF TakePending, Layers, Nothing
  <2> QED BY <1>1, <1>4, <2>2 DEF TakePending
<1>5. ASSUME NEW k \in Keys, WriteChunk(f, k) PROVE Layered'
  <2>1. UNCHANGED <<pending, taken>> /\ pending = Nothing /\ taken[f][k] # None
    BY <1>5, <1>o DEF WriteChunk, Orderly
  <2>2. \A j \in Keys : Layers(j)' = Layers(j) /\ Layers(j) = {taken[f][j]} \ {None}
    BY <1>0, <2>1 DEF Layers, Nothing
  <2>3. Stored(k)' = taken[f][k] /\ \A j \in Keys \ {k} : Stored(j)' = Stored(j)
    BY <1>5, <1>s, <2>1 DEF WriteChunk, Stored
  <2>4. chunks[k] \in Instances /\ At(chunks[k], k) BY <1>s, <2>1 DEF Saving, Staged, At
  <2>5. taken[f][k] \in Layers(k) BY <2>1, <2>2
  <2>6. taken[f][k] \subseteq content[chunks[k]] /\ content[chunks[k]] \subseteq Of(k) BY <2>4, <2>5 DEF Layered
  <2>7. \A j \in Keys : Stored(j)' \subseteq Of(j) BY <2>3, <2>6 DEF Layered
  <2>8. \A j \in Keys : \A d \in Layers(j)' : Stored(j)' \subseteq d BY <2>2, <2>3 DEF Layered
  <2>9. \A i \in Instances, j \in Keys : At(i, j) => Stored(j)' \subseteq content[i] /\ content[i] \subseteq Of(j)
    BY <2>3, <2>5 DEF Layered
  <2> QED BY <2>2, <2>7, <2>8, <2>9, FlushReads, <1>g DEF Layered
<1>6. ASSUME EndFlush(f) PROVE \A g \in Flushers : taken'[g] = Nothing
  BY <1>0, <1>6, <1>t DEF EndFlush, FlushType
<1>7. CASE WriteFails(f)
  <2>1. \A k \in Keys : pending'[k] \in {pending[k], taken[f][k]} BY <1>7 DEF WriteFails
  <2>2. \A k \in Keys : Layers(k)' \subseteq Layers(k) BY <1>6, <1>7, <2>1 DEF WriteFails, Layers, Nothing
  <2> QED BY <1>1, <1>7, <2>2 DEF WriteFails
<1>8. CASE StageFails(f) \/ FinishFlush(f)
  <2>1. \A k \in Keys : Layers(k)' \subseteq Layers(k) BY <1>6, <1>8 DEF StageFails, FinishFlush, Layers, Nothing
  <2> QED BY <1>1, <1>8, <2>1 DEF StageFails, FinishFlush
<1> QED BY <1>2, <1>3, <1>4, <1>5, <1>7, <1>8 DEF FlushStep, SwapDirty, PickChunk, SkipChunk, FlushInMemory

LEMMA LayeredStep ==
  ASSUME OneUser, OneFlusher, TypeOK, TypeOK', Sole, Sole', Saving, Layered, Once, [Next]_vars,
         loadErrors' = 0
  PROVE  Layered'
<1>1. CASE Crash
  <2>1. \A i \in Instances, k \in Keys : ~At(i, k)' BY <1>1, NoneAssumption DEF Crash, At, Nothing
  <2>2. \A k \in Keys : Stored(k)' = Stored(k) /\ Layers(k)' = {} BY <1>1 DEF Crash, Stored, Layers, Nothing
  <2> QED BY <2>1, <2>2, StartedGrows DEF Layered
<1>2. ASSUME NEW f \in Flushers, FlushStep(f) PROVE Layered'
  BY <1>2, LayeredFlush
<1>3. ASSUME NEW a \in Actors, ActorStep(a) PROVE Layered'
  BY <1>3, LayeredActor, ActorKeepsPinned
<1>4. ASSUME NEW a \in Actors, NEW k \in Keys, NEW e \in Edits \cup {None}, Begin(a, k, e) PROVE Layered'
  BY <1>4, LayeredActor DEF Begin
<1>5. CASE UNCHANGED vars BY <1>5, LayeredActor DEF vars
<1> QED BY <1>1, <1>2, <1>3, <1>4, <1>5 DEF Next

\* A Flush has still to save edit e, has it staged, or has saved it.
Underway(f, e) ==
  LET k == EditKey[e]
  IN \/ k \in todo[f]
     \/ fpc[f] = "encode" /\ column[f] = k
     \/ fpc[f] # "write" /\ pending[k] # None /\ e \in pending[k]
     \/ k \in towrite[f] /\ e \in taken[f][k]
     \/ e \in Stored(k)

\* Whoever reads e's column finds e, and e is on disk, or on its way there, or its column dirty.
Lasting(e) ==
  LET k == EditKey[e]
  IN /\ \A i \in Instances : At(i, k) => e \in content[i]
     /\ chunks[k] = None => e \in Stored(k)
     /\ (\A f \in Flushers : fpc[f] = "idle") => k \in dirty \/ e \in Stored(k)
     /\ \A f \in Flushers : fpc[f] # "idle" => IF e \in promise[f] THEN Underway(f, e) ELSE k \in dirty

Safe ==
  /\ \A a \in Actors : pc[a] = "mark" => edit[a] \in content[held[a]]
  /\ \A f \in Flushers : promise[f] \subseteq accepted
  /\ \A e \in accepted \cap Kept : Lasting(e)
  /\ \A e \in durable \cap Kept : e \in Stored(EditKey[e])

\* What trimming may evict is on disk.
LEMMA CleanIsStored ==
  ASSUME TypeOK, Saving, NEW e \in Edits, Lasting(e), EditKey[e] \notin dirty \cup flushing
  PROVE  e \in Stored(EditKey[e])
<1> DEFINE k == EditKey[e]
<1>1. k \in Keys BY KeysAssumption
<1>2. ~Staged(k) BY <1>1 DEF Saving
<1>3. CASE \A f \in Flushers : fpc[f] = "idle" BY <1>3 DEF Lasting
<1>4. ASSUME NEW f \in Flushers, fpc[f] # "idle" PROVE e \in Stored(k)
  <2>1. Underway(f, e) BY <1>4 DEF Lasting
  <2>2. k \notin todo[f] /\ k \notin towrite[f] BY <1>2 DEF Saving, Orderly, Staged
  <2> QED BY <1>2, <2>1, <2>2 DEF Underway, Staged
<1> QED BY <1>3, <1>4

\* No Flush takes an edit off the disk.
LEMMA StoredGrows ==
  ASSUME TypeOK, Saving, Layered, NEW f \in Flushers, FlushStep(f), NEW k \in Keys
  PROVE  Stored(k) \subseteq Stored(k)'
<1>1. CASE UNCHANGED disk BY <1>1 DEF Stored
<1>2. ASSUME NEW j \in Keys, WriteChunk(f, j) PROVE Stored(k) \subseteq Stored(k)'
  <2>1. taken[f][j] # None BY <1>2 DEF WriteChunk, Saving, Orderly
  <2>2. disk' = [disk EXCEPT ![j] = taken[f][j]] /\ disk \in [Keys -> Data] BY <1>2 DEF WriteChunk, TypeOK, StoreType
  <2>3. CASE k = j
    <3>1. taken[f][k] \in Layers(k) BY <2>1, <2>3 DEF Layers
    <3>2. Stored(k) \subseteq taken[f][k] BY <3>1 DEF Layered
    <3> QED BY <2>1, <2>2, <2>3, <3>2 DEF Stored
  <2>4. CASE k # j BY <2>2, <2>4 DEF Stored
  <2> QED BY <2>3, <2>4
<1> QED BY <1>1, <1>2 DEF FlushStep, SwapDirty, Stage, TakePending, FinishFlush, WriteFails, StageFails,
    PickChunk, SkipChunk, FlushInMemory

\* An edit that has returned outlasts lookups and other edits ...
LEMMA LastingActor ==
  ASSUME OneUser, TypeOK, TypeOK', Sole, Sole', Saving, NEW a \in Actors, ActorStep(a), loadErrors' = 0,
         NEW e \in Edits, Lasting(e)
  PROVE  Lasting(e)'
<1> DEFINE k == EditKey[e]
<1>1. k \in Keys BY KeysAssumption
<1>2. dirty \subseteq dirty' /\ UNCHANGED <<flushing, flushVars, storeVars>> BY ActorKeepsPinned
<1>3. Stored(k)' = Stored(k) BY <1>2 DEF Stored
<1>4. ASSUME NEW i \in Instances, At(i, k)' PROVE e \in content'[i]
  <2>1. CASE LoadFromDisk(a) \/ Generate(a) \/ LoadError(a)
    <3>1. ~LoadError(a)
      <4>1. loadErrors \in Nat BY DEF TypeOK, StoreType
      <4>2. LoadError(a) => loadErrors' = loadErrors + 1 BY DEF LoadError
      <4> QED BY <4>1, <4>2
    <3>2. chunks[key[a]] = None BY <2>1 DEF LoadFromDisk, Generate, LoadError, Sole
    <3>3. PICK n \in Instances :
            /\ \A j \in Instances, l \in Keys : At(j, l)' <=> At(j, l) \/ (j = n /\ l = key[a])
            /\ \A j \in Keys : ~At(n, j)
            /\ \A j \in Instances \ {n} : content'[j] = content[j]
            /\ LoadFromDisk(a) => content'[n] = disk[key[a]]
            /\ ~LoadFromDisk(a) => content'[n] = {}
      BY <2>1, ProducedAt
    <3>4. CASE i = n
      <4>1. k = key[a] BY <1>1, <1>4, <3>3, <3>4
      <4>2. e \in Stored(k) BY <3>2, <4>1 DEF Lasting
      <4> QED BY <2>1, <3>1, <3>3, <3>4, <4>1, <4>2 DEF Stored, LoadFromDisk, Generate
    <3>5. CASE i # n BY <1>1, <1>4, <3>3, <3>5 DEF Lasting
    <3> QED BY <3>4, <3>5
  <2>2. CASE ~(LoadFromDisk(a) \/ Generate(a) \/ LoadError(a))
    <3>1. At(i, k) /\ content[i] \subseteq content'[i] BY <1>1, <1>4, <2>2, ActorShrinks
    <3> QED BY <3>1 DEF Lasting
  <2> QED BY <2>1, <2>2
<1>5. chunks'[k] = None => e \in Stored(k)
  <2>1. ASSUME chunks[k] # None, chunks'[k] = None PROVE e \in Stored(k)
    <3>1. k \notin dirty \cup flushing BY <1>1, <1>2, <2>1, ActorKeepsPinned
    <3> QED BY <3>1, CleanIsStored
  <2> QED BY <2>1 DEF Lasting
<1>6. \A f \in Flushers : Underway(f, e)' <=> Underway(f, e) BY <1>2, <1>3 DEF Underway
<1> QED BY <1>2, <1>3, <1>4, <1>5, <1>6 DEF Lasting

\* ... and a Flush, whether it succeeds or fails.
LEMMA LastingFlush ==
  ASSUME OneFlusher, TypeOK, TypeOK', Sole, Saving, Saving', Layered, NEW f \in Flushers, FlushStep(f),
         NEW e \in accepted, e \in Edits, Lasting(e)
  PROVE  Lasting(e)'
<1> DEFINE k == EditKey[e]
<1>0. \A g \in Flushers : g = f BY DEF OneFlusher
<1>t. FlushType /\ FlushType' BY DEF TypeOK
<1>s. pending \in [Keys -> Data] /\ disk \in [Keys -> Data] /\ chunks \in [Keys -> Instances \cup {None}]
  BY DEF TypeOK, StoreType, CacheType
<1>o. Orderly(f) BY DEF Saving
<1>1. k \in Keys BY KeysAssumption
<1>2. e \in Stored(k) => e \in Stored(k)' BY <1>1, StoredGrows
<1>3. \A i \in Instances : At(i, k)' => e \in content'[i] BY <1>1, FlushReads DEF Lasting
<1>4. fpc[f] = "idle" => k \in dirty \/ e \in Stored(k) BY <1>0 DEF Lasting
<1>5. fpc[f] # "idle" => IF e \in promise[f] THEN Underway(f, e) ELSE k \in dirty BY DEF Lasting
<1>6. chunks[k] = None => e \in Stored(k) BY DEF Lasting
<1> DEFINE Goal == /\ chunks'[k] = None => e \in Stored(k)'
                   /\ fpc'[f] = "idle" => k \in dirty' \/ e \in Stored(k)'
                   /\ fpc'[f] # "idle" => IF e \in promise'[f] THEN Underway(f, e)' ELSE k \in dirty'
<1>u. SUFFICES Goal BY <1>0, <1>3 DEF Lasting
<1>7. CASE SwapDirty(f)
  <2>1. fpc[f] = "idle" /\ fpc'[f] = "scan" /\ promise'[f] = accepted /\ todo'[f] = dirty /\ UNCHANGED <<chunks, disk>>
    BY <1>7, <1>t DEF SwapDirty, FlushType
  <2> QED BY <1>2, <1>4, <1>6, <2>1 DEF Underway
<1>8. ASSUME NEW j \in Keys, PickChunk(f, j) PROVE Goal
  <2>1. /\ fpc[f] = "scan" /\ fpc'[f] = "encode" /\ column'[f] = j /\ todo'[f] = todo[f] \ {j}
        /\ UNCHANGED <<chunks, dirty, promise, pending, towrite, taken, disk>>
    BY <1>8, <1>t DEF PickChunk, FlushType
  <2> QED BY <1>2, <1>5, <1>6, <2>1 DEF Underway
<1>9. ASSUME NEW j \in Keys, SkipChunk(f, j) PROVE Goal
  <2>1. /\ fpc[f] = "scan" /\ fpc'[f] = "scan" /\ chunks[j] = None /\ todo'[f] = todo[f] \ {j}
        /\ UNCHANGED <<chunks, dirty, promise, pending, towrite, taken, disk>>
    BY <1>9, <1>t DEF SkipChunk, FlushType
  <2> QED BY <1>2, <1>5, <1>6, <2>1 DEF Underway
<1>10. CASE Stage(f)
  <2>1. /\ fpc[f] = "encode" /\ fpc'[f] = "scan" /\ hand[f] = chunks[column[f]] /\ hand[f] \in Instances
        /\ pending' = [pending EXCEPT ![column[f]] = content[hand[f]]]
        /\ UNCHANGED <<chunks, dirty, promise, todo, towrite, taken, disk>>
    BY <1>10, <1>t, <1>o DEF Stage, FlushType, Orderly
  <2>2. CASE column[f] = k
    <3>1. e \in content[hand[f]] BY <2>1, <2>2 DEF Lasting, At
    <3>2. pending'[k] = content[hand[f]] BY <1>1, <1>s, <2>1, <2>2
    <3>3. content[hand[f]] # None BY <2>1, NoneAssumption DEF TypeOK, CacheType
    <3> QED BY <1>5, <1>6, <1>2, <2>1, <3>1, <3>2, <3>3 DEF Underway
  <2>3. CASE column[f] # k
    <3>1. pending'[k] = pending[k] BY <1>1, <1>s, <2>1, <2>3
    <3> QED BY <1>2, <1>5, <1>6, <2>1, <2>3, <3>1 DEF Underway
  <2> QED BY <2>2, <2>3
<1>11. CASE TakePending(f)
  <2>1. /\ fpc[f] = "scan" /\ fpc'[f] = "write" /\ todo[f] = {} /\ taken'[f] = pending
        /\ towrite'[f] = {j \in Keys : pending[j] # None}
        /\ UNCHANGED <<chunks, dirty, promise, todo, disk>>
    BY <1>11, <1>t DEF TakePending, FlushType
  <2>2. k \notin towrite[f] BY <1>1, <1>o, <2>1 DEF Orderly, Nothing
  <2> QED BY <1>1, <1>2, <1>5, <1>6, <2>1, <2>2 DEF Underway
<1>12. ASSUME NEW j \in Keys, WriteChunk(f, j) PROVE Goal
  <2>1. /\ fpc[f] = "write" /\ fpc'[f] = "write" /\ towrite'[f] = towrite[f] \ {j}
        /\ disk' = [disk EXCEPT ![j] = taken[f][j]] /\ taken[f][j] # None
        /\ UNCHANGED <<chunks, dirty, promise, todo, taken, pending>>
    BY <1>12, <1>t, <1>o DEF WriteChunk, FlushType, Orderly
  <2>2. k = j => Stored(k)' = taken[f][k] BY <1>s, <2>1 DEF Stored
  <2> QED BY <1>2, <1>5, <1>6, <2>1, <2>2 DEF Underway
<1>13. ASSUME EndFlush(f) PROVE fpc'[f] = "idle" BY <1>13, <1>t DEF EndFlush, FlushType
<1>14. CASE WriteFails(f) \/ StageFails(f)
  <2>1. fpc[f] # "idle" /\ fpc'[f] = "idle" /\ dirty' = dirty \cup batch[f] /\ batch[f] = flushing
        /\ UNCHANGED <<chunks, disk>>
    BY <1>13, <1>14, <1>o DEF WriteFails, StageFails, RestoreDirty, Orderly
  <2>2. k \in dirty \cup flushing \/ e \in Stored(k) BY CleanIsStored
  <2> QED BY <1>2, <1>6, <2>1, <2>2
<1>15. CASE FinishFlush(f)
  <2>1. fpc[f] = "write" /\ towrite[f] = {} /\ fpc'[f] = "idle" /\ UNCHANGED <<dirty, disk>> /\ todo[f] = {}
    BY <1>13, <1>15, <1>o DEF FinishFlush, Orderly
  <2>2. k \in dirty \/ e \in Stored(k) BY <1>5, <2>1 DEF Underway
  <2>3. chunks[k] # None /\ k \in dirty => chunks'[k] # None
    BY <1>1, <1>15, <1>s, TrimmedKeeps DEF FinishFlush
  <2> QED BY <1>2, <1>6, <2>1, <2>2, <2>3
<1>16. CASE FlushInMemory(f)
  <2>1. fpc[f] = "idle" /\ UNCHANGED <<dirty, flushVars, storeVars>> BY <1>16 DEF FlushInMemory
  <2>2. chunks[k] # None /\ k \in dirty => chunks'[k] # None
    BY <1>1, <1>16, <1>s, TrimmedKeeps DEF FlushInMemory, Pinned
  <2> QED BY <1>2, <1>4, <1>6, <2>1, <2>2
<1> QED BY <1>7, <1>8, <1>9, <1>10, <1>11, <1>12, <1>14, <1>15, <1>16 DEF FlushStep

\* An edit about to return is in the instance its goroutine holds.
LEMMA WrittenStep ==
  ASSUME OneUser, TypeOK, TypeOK', Sole, Sole', [Next]_vars,
         \A a \in Actors : pc[a] = "mark" => edit[a] \in content[held[a]],
         NEW b \in Actors, pc'[b] = "mark"
  PROVE  edit'[b] \in content'[held'[b]]
<1>0. held'[b] \in Instances /\ key'[b] \in Keys BY DEF TypeOK, ActorType
<1>1. PICK i \in Instances, j \in Keys : i = held'[b] /\ j = key'[b] BY <1>0
<1>a. At(i, j)' BY <1>1 DEF At
<1>2. CASE Mutate(b)
  BY <1>2 DEF Mutate, TypeOK, ActorType, CacheType
<1>3. CASE ~Mutate(b)
  <2>1. pc[b] = "mark" /\ held'[b] = held[b] /\ edit'[b] = edit[b] /\ key'[b] = key[b]
    <3>1. CASE UNCHANGED actorVars BY <3>1
    <3>2. CASE Crash BY <3>2 DEF Crash
    <3>3. ASSUME NEW a \in Actors, NEW k \in Keys, NEW e \in Edits \cup {None}, Begin(a, k, e)
          PROVE  pc[b] = "mark" /\ held'[b] = held[b] /\ edit'[b] = edit[b] /\ key'[b] = key[b]
      BY <3>3 DEF Begin, TypeOK, ActorType
    <3>4. ASSUME NEW a \in Actors, ActorStep(a)
          PROVE  pc[b] = "mark" /\ held'[b] = held[b] /\ edit'[b] = edit[b] /\ key'[b] = key[b]
      <4>1. CASE LookupHit(a) BY <4>1 DEF LookupHit, Got, Return, TypeOK, ActorType
      <4>2. CASE LookupWait(a) \/ LookupMiss(a) BY <4>2 DEF LookupWait, LookupMiss, TypeOK, ActorType
      <4>3. CASE LoadFromDisk(a) \/ Generate(a) \/ LoadError(a)
        BY <4>3 DEF LoadFromDisk, Generate, LoadError, Produce, TypeOK, ActorType
      <4>4. CASE Mutate(a) BY <1>3, <4>4 DEF Mutate, TypeOK, ActorType
      <4>5. CASE Install(a) BY <4>5 DEF Install, Woken, LooksAgain, TypeOK, ActorType
      <4>6. CASE MarkBlock(a) \/ MarkContainer(a) \/ MarkLectern(a)
        BY <4>6 DEF MarkBlock, MarkContainer, MarkLectern, Accept, Return, TypeOK, ActorType
      <4> QED BY <3>4, <4>1, <4>2, <4>3, <4>4, <4>5, <4>6 DEF ActorStep
    <3>5. ASSUME NEW f \in Flushers, FlushStep(f) PROVE UNCHANGED actorVars
      BY <3>5 DEF FlushStep, SwapDirty, Stage, TakePending, FinishFlush, WriteFails, StageFails, PickChunk,
         SkipChunk, WriteChunk, FlushInMemory
    <3> QED BY <3>1, <3>2, <3>3, <3>4, <3>5 DEF Next, vars
  <2>2. edit[b] \in content[held[b]] BY <2>1
  <2>3. CASE \A a \in Actors : ~(LoadFromDisk(a) \/ Generate(a) \/ LoadError(a))
    <3>1. content[i] \subseteq content'[i] BY <1>a, <2>3, ContentGrows
    <3> QED BY <1>1, <2>1, <2>2, <3>1
  <2>4. ASSUME NEW a \in Actors, LoadFromDisk(a) \/ Generate(a) \/ LoadError(a)
        PROVE  edit'[b] \in content'[held'[b]]
    <3>1. At(held[b], key[b]) BY <2>1 DEF At
    <3>2. PICK n \in Instances : /\ \A k \in Keys : ~At(n, k)
                                 /\ \A m \in Instances \ {n} : content'[m] = content[m]
      BY <2>4, ProducedAt
    <3>3. held[b] # n BY <1>0, <2>1, <3>1, <3>2
    <3> QED BY <1>0, <2>1, <2>2, <3>2, <3>3
  <2> QED BY <2>3, <2>4
<1> QED BY <1>2, <1>3

\* The edit that returns: it is in the instance that its call puts back, and its column is dirty.
LEMMA LastingAccepted ==
  ASSUME OneUser, TypeOK, TypeOK', Sole, Sole', Safe, NEW a \in Actors, MarkBlock(a) \/ MarkContainer(a),
         NEW e \in Edits, e = edit[a], e \notin accepted
  PROVE  Lasting(e)'
<1> DEFINE k == EditKey[e]
<1>1. pc[a] = "mark" BY DEF MarkBlock, MarkContainer
<1>2. key[a] = k /\ k \in Keys /\ held[a] \in Instances /\ held[a] # None
  BY <1>1, NoneAssumption, KeysAssumption DEF TypeOK, ActorType
<1>3. e \in content[held[a]] BY <1>1 DEF Safe
<1>4. k \in dirty' /\ UNCHANGED flushVars BY <1>2 DEF MarkBlock, MarkContainer, Accept
<1>5. ASSUME NEW i \in Instances, At(i, k)' PROVE e \in content'[i]
  <2>1. ActorStep(a) /\ ~(LoadFromDisk(a) \/ Generate(a) \/ LoadError(a))
    BY <1>1 DEF ActorStep, LoadFromDisk, Generate, LoadError
  <2>2. At(i, k) /\ content[i] \subseteq content'[i] BY <1>2, <1>5, <2>1, ActorShrinks
  <2>3. i = held[a] BY <1>2, <2>2 DEF Sole, At
  <2> QED BY <1>3, <2>2, <2>3
<1>6. chunks'[k] # None
  <2> DEFINE ch == PutBack(chunks, k, held[a])
  <2>1. ch \in [Keys -> Instances \cup {None}] /\ ch[k] # None
    BY <1>2 DEF PutBack, TypeOK, CacheType
  <2>2. CASE MarkBlock(a)
    <3>1. Trimmed(ch, dirty' \cup flushing, Touched(k, older)) BY <1>2, <2>2 DEF MarkBlock, Pinned
    <3> HIDE DEF ch
    <3> QED BY <1>2, <1>4, <2>1, <3>1, TrimmedKeeps
  <2>3. CASE MarkContainer(a) BY <1>2, <2>1, <2>3 DEF MarkContainer
  <2> QED BY <2>2, <2>3
<1>7. \A f \in Flushers : e \notin promise'[f] BY <1>4 DEF Safe
<1> QED BY <1>4, <1>5, <1>6, <1>7 DEF Lasting

\* Calls that begin, and steps that change nothing, leave it.
LEMMA IdleLasts ==
  ASSUME TypeOK, Sole, NEW e \in Edits, Lasting(e),
         \/ UNCHANGED vars
         \/ \E a \in Actors, k \in Keys, d \in Edits \cup {None} : Begin(a, k, d)
  PROVE  Lasting(e)'
<1>1. UNCHANGED <<cacheVars, flushVars, storeVars>> BY DEF Begin, vars
<1>2. \A i \in Instances, k \in Keys : At(i, k)' => At(i, k)
  <2>1. \A a \in Actors : ~(LoadFromDisk(a) \/ Generate(a) \/ LoadError(a))
    BY DEF Begin, vars, LoadFromDisk, Generate, LoadError, Produce, TypeOK, ActorType
  <2>2. [Next]_vars BY DEF Next
  <2> QED BY <2>1, <2>2, AtShrinks
<1> QED BY <1>1, <1>2, KeysAssumption DEF Lasting, Underway, Stored

\* A restart brings back the edits on disk.
LEMMA CrashLasts ==
  ASSUME TypeOK, Layered, Crash, NEW e \in accepted'
  PROVE  Lasting(e)'
<1>1. \A f \in Flushers : fpc'[f] = "idle" BY DEF Crash
<1>2. \A i \in Instances, k \in Keys : ~At(i, k)' BY NoneAssumption DEF Crash, At, Nothing
<1>3. PICK k \in Keys : disk[k] # None /\ e \in disk[k] BY DEF Crash, OnDisk
<1>4. e \in Of(k) BY <1>3 DEF Layered, Stored
<1>5. EditKey[e] = k /\ disk' = disk BY <1>4 DEF Of, Crash
<1> QED BY <1>1, <1>2, <1>3, <1>5 DEF Lasting, Stored

\* Only the last step of an edit's call accepts it.
LEMMA AcceptedBy ==
  ASSUME [Next]_vars, ~Crash, NEW e \in accepted', e \notin accepted
  PROVE  \E a \in Actors : e = edit[a] /\ (MarkBlock(a) \/ MarkContainer(a) \/ MarkLectern(a))
<1>1. ASSUME NEW a \in Actors, ActorStep(a)
      PROVE  e = edit[a] /\ (MarkBlock(a) \/ MarkContainer(a) \/ MarkLectern(a))
  BY <1>1 DEF ActorStep, LookupHit, LookupWait, LookupMiss, LoadFromDisk, Generate, LoadError, Produce, Install,
     Mutate, MarkBlock, MarkContainer, MarkLectern, Accept
<1>2. ASSUME NEW f \in Flushers, FlushStep(f) PROVE FALSE
  BY <1>2 DEF FlushStep, SwapDirty, Stage, TakePending, FinishFlush, WriteFails, StageFails, PickChunk,
     SkipChunk, WriteChunk, FlushInMemory
<1>3. ASSUME NEW a \in Actors, NEW k \in Keys, NEW d \in Edits \cup {None}, Begin(a, k, d) PROVE FALSE
  BY <1>3 DEF Begin
<1>4. ~UNCHANGED vars BY DEF vars
<1> QED BY <1>1, <1>2, <1>3, <1>4 DEF Next

LEMMA SafeStep ==
  ASSUME OneUser, OneFlusher, TypeOK, TypeOK', Sole, Sole', Saving, Saving', Layered, Safe, [Next]_vars,
         loadErrors' = 0
  PROVE  Safe'
<1>w. \A a \in Actors : pc'[a] = "mark" => edit'[a] \in content'[held'[a]]
  BY WrittenStep DEF Safe
<1>k. Kept \subseteq Edits BY DEF Kept
<1>1. CASE Crash
  <2>1. durable' = durable /\ \A f \in Flushers : promise'[f] = {} BY <1>1 DEF Crash
  <2>2. \A k \in Keys : Stored(k)' = Stored(k) BY <1>1 DEF Crash, Stored
  <2>3. \A e \in accepted' : Lasting(e)' BY <1>1, CrashLasts
  <2> QED BY <1>w, <1>k, <2>1, <2>2, <2>3, KeysAssumption DEF Safe
<1>2. CASE \/ UNCHANGED vars
           \/ \E a \in Actors, k \in Keys, e \in Edits \cup {None} : Begin(a, k, e)
  <2>1. UNCHANGED <<flushVars, storeVars, accepted, durable>> BY <1>2 DEF Begin, vars
  <2>2. \A e \in Edits : Lasting(e) => Lasting(e)' BY <1>2, IdleLasts
  <2> QED BY <1>w, <1>k, <2>1, <2>2 DEF Safe, Stored
<1>3. ASSUME NEW a \in Actors, ActorStep(a) PROVE Safe'
  <2>1. UNCHANGED <<flushVars, storeVars, durable>> BY <1>3, ActorKeepsPinned
  <2>2. accepted \subseteq accepted' /\ \A e \in (accepted' \ accepted) \cap Kept :
          e = edit[a] /\ (MarkBlock(a) \/ MarkContainer(a))
    BY <1>3 DEF ActorStep, LookupHit, LookupWait, LookupMiss, LoadFromDisk, Generate, LoadError, Produce,
       Install, Mutate, MarkBlock, MarkContainer, MarkLectern, Accept, Kept
  <2>3. \A e \in accepted' \cap Kept : Lasting(e)'
    BY <1>3, <1>k, <2>2, LastingActor, LastingAccepted DEF Safe
  <2> QED BY <1>w, <2>1, <2>2, <2>3 DEF Safe, Stored
<1>4. ASSUME NEW f \in Flushers, FlushStep(f) PROVE Safe'
  <2>1. accepted' = accepted /\ \A g \in Flushers : promise'[g] \subseteq accepted
    BY <1>4 DEF FlushStep, SwapDirty, Stage, TakePending, FinishFlush, WriteFails, StageFails, PickChunk,
       SkipChunk, WriteChunk, FlushInMemory, EndFlush, Safe, TypeOK, FlushType
  <2>2. \A e \in accepted' \cap Kept : Lasting(e)' BY <1>4, <1>k, <2>1, LastingFlush DEF Safe
  <2>3. ASSUME NEW e \in durable' \cap Kept PROVE e \in Stored(EditKey[e])
    <3>1. e \in durable \/ (FinishFlush(f) /\ e \in promise[f])
      BY <1>4 DEF FlushStep, SwapDirty, Stage, TakePending, FinishFlush, WriteFails, StageFails, PickChunk,
         SkipChunk, WriteChunk, FlushInMemory
    <3>2. CASE FinishFlush(f) /\ e \in promise[f]
      <4>1. fpc[f] = "write" /\ towrite[f] = {} /\ todo[f] = {}
        BY <3>2 DEF FinishFlush, Saving, Orderly
      <4>2. Lasting(e) BY <3>2 DEF Safe
      <4> QED BY <3>2, <4>1, <4>2 DEF Lasting, Underway
    <3> QED BY <3>1, <3>2 DEF Safe
  <2>4. \A e \in durable' \cap Kept : e \in Stored(EditKey[e])'
    BY <1>4, <1>k, <2>3, StoredGrows, KeysAssumption
  <2> QED BY <1>w, <2>1, <2>2, <2>4 DEF Safe
<1> QED BY <1>1, <1>2, <1>3, <1>4 DEF Next

\* What each column keeps, as long as none of its saved versions is unreadable.
Lossless == Sole /\ Saving /\ (loadErrors = 0 => Layered /\ Once /\ Safe)

\* Only a failing LoadChunk counts as one.
LEMMA ErrorsCounted ==
  ASSUME [Next]_vars
  PROVE  loadErrors' = loadErrors \/ (loadErrors' = loadErrors + 1 /\ loadErrors < MaxLoadErrors)
<1> DEFINE Counted == loadErrors' = loadErrors \/ (loadErrors' = loadErrors + 1 /\ loadErrors < MaxLoadErrors)
<1>1. ASSUME NEW a \in Actors, ActorStep(a) PROVE Counted
  BY <1>1 DEF ActorStep, LookupHit, LookupWait, LookupMiss, LoadFromDisk, Generate, LoadError, Install, Mutate,
     MarkBlock, MarkContainer, MarkLectern, Accept
<1>2. ASSUME NEW f \in Flushers, FlushStep(f) PROVE Counted
  BY <1>2 DEF FlushStep, SwapDirty, Stage, TakePending, FinishFlush, WriteFails, StageFails, PickChunk,
     SkipChunk, WriteChunk, FlushInMemory
<1>3. ASSUME NEW a \in Actors, NEW k \in Keys, NEW e \in Edits \cup {None}, Begin(a, k, e) PROVE Counted
  BY <1>3 DEF Begin
<1>4. CASE Crash BY <1>4 DEF Crash
<1>5. CASE UNCHANGED vars BY <1>5 DEF vars
<1> QED BY <1>1, <1>2, <1>3, <1>4, <1>5 DEF Next

LEMMA LosslessInit == Init => Lossless
<1> SUFFICES ASSUME Init PROVE Sole /\ Saving /\ Layered /\ Once /\ Safe
  BY DEF Lossless
<1>1. \A i \in Instances, k \in Keys : ~At(i, k) BY NoneAssumption DEF Init, At, Nothing
<1>2. Sole BY <1>1 DEF Init, Sole
<1>3. Saving BY DEF Init, Saving, Orderly, Staged, Nothing
<1>4. \A k \in Keys : Stored(k) = {} /\ Layers(k) = {} BY DEF Init, Stored, Layers, Nothing
<1>5. Layered BY <1>1, <1>4 DEF Layered
<1>6. Safe BY DEF Init, Safe
<1>7. Once BY DEF Init, Once
<1> QED BY <1>2, <1>3, <1>5, <1>6, <1>7

LEMMA LosslessStep ==
  ASSUME OneUser, OneFlusher, TypeOK, TypeOK', Lossless, [Next]_vars
  PROVE  Lossless'
<1>1. Sole' BY SoleStep DEF Lossless
<1>2. Saving' BY <1>1, SavingStep DEF Lossless
<1>3. ASSUME loadErrors' = 0 PROVE Layered' /\ Once' /\ Safe'
  <2>1. loadErrors = 0
    <3>1. loadErrors \in Nat BY DEF TypeOK, StoreType
    <3>2. loadErrors' = loadErrors \/ loadErrors' = loadErrors + 1 BY ErrorsCounted
    <3> QED BY <1>3, <3>1, <3>2
  <2> QED BY <1>1, <1>2, <1>3, <2>1, LayeredStep, OnceStep, SafeStep DEF Lossless
<1> QED BY <1>1, <1>2, <1>3 DEF Lossless

LEMMA AlwaysLossless ==
  ASSUME OneUser, OneFlusher
  PROVE  Spec => []Lossless
<1>1. TypeOK /\ TypeOK' /\ Lossless /\ [Next]_vars => Lossless' BY LosslessStep
<1> QED BY <1>1, LosslessInit, TypeCorrect, PTL DEF Spec

\* Eviction never discards an edit that has returned (world.go:1285): a lookup of its column finds
\* it, whatever was evicted, reloaded, saved or restarted meanwhile, if each column is one
\* goroutine's, Flush calls do not overlap and no saved column was unreadable.
THEOREM NoEditIsLost ==
  ASSUME OneUser, OneFlusher
  PROVE  Spec => []EditsSurvive
<1>1. TypeOK /\ Lossless => EditsSurvive
  <2> SUFFICES ASSUME TypeOK, Lossless, loadErrors = 0, NEW e \in accepted \cap Kept
               PROVE  e \in Visible(EditKey[e])
    BY DEF EditsSurvive
  <2>1. Lasting(e) BY DEF Lossless, Safe
  <2>2. e \in Edits /\ EditKey[e] \in Keys BY KeysAssumption DEF Kept
  <2>3. chunks[EditKey[e]] # None => At(chunks[EditKey[e]], EditKey[e]) /\ chunks[EditKey[e]] \in Instances
    BY <2>2 DEF At, TypeOK, CacheType
  <2> QED BY <2>1, <2>3 DEF Lasting, Visible, Stored
<1> QED BY <1>1, AlwaysLossless, TypeCorrect, PTL

\* What a Flush that returned without error has saved stays on disk (storage.go:18): no stale
\* reload, failed save or restart takes it off, under the same conditions.
THEOREM FlushesAreDurable ==
  ASSUME OneUser, OneFlusher, MaxLoadErrors = 0
  PROVE  Spec => []FlushedIsDurable
<1> DEFINE Readable == loadErrors = 0
<1>1. TypeOK /\ Lossless /\ Readable => FlushedIsDurable
  <2> SUFFICES ASSUME TypeOK, Lossless, Readable, NEW e \in durable \cap Kept PROVE e \in OnDisk
    BY DEF FlushedIsDurable
  <2>1. e \in Stored(EditKey[e]) BY DEF Lossless, Safe
  <2>2. EditKey[e] \in Keys BY KeysAssumption DEF Kept
  <2> QED BY <2>1, <2>2 DEF Stored, OnDisk
<1>2. Init => Readable BY DEF Init
<1>3. TypeOK /\ Readable /\ [Next]_vars => Readable'
  <2>1. ASSUME TypeOK, Readable, [Next]_vars PROVE Readable' BY <2>1, ErrorsCounted, BoundsAssumption
  <2> QED BY <2>1
<1> QED BY <1>1, <1>2, <1>3, AlwaysLossless, TypeCorrect, PTL DEF Spec
---------------------------------------------------------------------------
(* The cache implements ChunkStore.  That speaks of every edit, those of    *)
(* lecterns too: an edit that has returned is there for good, or gone.     *)

\* Edit e is in no version of its column.
Gone(e) ==
  LET k == EditKey[e]
  IN /\ e \notin Stored(k)
     /\ \A i \in Instances : At(i, k) => e \notin content[i]
     /\ \A d \in Layers(k) : e \notin d

Decided == \A e \in accepted : Lasting(e) \/ Gone(e)

LEMMA VisibleMeans ==
  ASSUME TypeOK, NEW e \in Edits
  PROVE  /\ Lasting(e) => e \in Visible(EditKey[e])
         /\ Gone(e) => e \notin Visible(EditKey[e])
<1> DEFINE k == EditKey[e]
<1>1. chunks[k] # None => At(chunks[k], k) /\ chunks[k] \in Instances
  BY KeysAssumption DEF At, TypeOK, CacheType
<1> QED BY <1>1 DEF Lasting, Gone, Visible, Stored

LEMMA VisibleMeansNext ==
  ASSUME TypeOK', NEW e \in Edits
  PROVE  /\ Lasting(e)' => e \in Visible(EditKey[e])'
         /\ Gone(e)' => e \notin Visible(EditKey[e])'
<1> DEFINE k == EditKey[e]
<1>1. k \in Keys BY KeysAssumption
<1>2. PICK i : i = chunks'[k] OBVIOUS
<1>3. i # None => At(i, k)' /\ i \in Instances BY <1>1, <1>2 DEF At, TypeOK, CacheType
<1> QED BY <1>2, <1>3 DEF Lasting, Gone, Visible, Stored

\* What a Flush stages it takes from the instance, and what it writes from the stage.
LEMMA FlushMoves ==
  ASSUME OneFlusher, TypeOK, Saving, NEW f \in Flushers, FlushStep(f), NEW k \in Keys
  PROVE  /\ Stored(k)' = Stored(k) \/ Stored(k)' \in Layers(k)
         /\ \A d \in Layers(k)' : d \in Layers(k) \/ \E i \in Instances : At(i, k) /\ d = content[i]
<1>0. \A g \in Flushers : g = f BY DEF OneFlusher
<1>t. FlushType BY DEF TypeOK
<1>s. pending \in [Keys -> Data] /\ disk \in [Keys -> Data] BY DEF TypeOK, StoreType
<1>o. Orderly(f) BY DEF Saving
<1> DEFINE Goal == /\ Stored(k)' = Stored(k) \/ Stored(k)' \in Layers(k)
                   /\ \A d \in Layers(k)' : d \in Layers(k) \/ \E i \in Instances : At(i, k) /\ d = content[i]
<1>1. ASSUME UNCHANGED disk, Layers(k)' \subseteq Layers(k) PROVE Goal
  BY <1>1 DEF Stored
<1>2. CASE UNCHANGED <<pending, taken, disk>> BY <1>1, <1>2 DEF Layers
<1>3. CASE Stage(f)
  <2>1. hand[f] \in Instances /\ column[f] \in Keys /\ At(hand[f], column[f])
    BY <1>3, <1>t, <1>o DEF Stage, FlushType, Orderly, At
  <2>2. Layers(k)' \subseteq Layers(k) \cup (IF k = column[f] THEN {content[hand[f]]} ELSE {})
    BY <1>3, <1>s DEF Stage, Layers
  <2> QED BY <1>3, <2>1, <2>2 DEF Stage, Stored
<1>4. CASE TakePending(f)
  <2>1. \A g \in Flushers : taken'[g] = pending BY <1>0, <1>4, <1>t DEF TakePending, FlushType
  <2>2. Layers(k)' \subseteq Layers(k) BY <1>4, <2>1 DEF TakePending, Layers, Nothing
  <2> QED BY <1>1, <1>4, <2>2 DEF TakePending
<1>5. ASSUME NEW j \in Keys, WriteChunk(f, j) PROVE Goal
  <2>1. UNCHANGED <<pending, taken>> /\ taken[f][j] # None /\ disk' = [disk EXCEPT ![j] = taken[f][j]]
    BY <1>5, <1>o DEF WriteChunk, Orderly
  <2>2. Layers(k)' = Layers(k) BY <2>1 DEF Layers
  <2>3. CASE k = j BY <1>s, <2>1, <2>2, <2>3 DEF Stored, Layers
  <2>4. CASE k # j BY <1>s, <2>1, <2>2, <2>4 DEF Stored
  <2> QED BY <2>3, <2>4
<1>6. ASSUME EndFlush(f) PROVE \A g \in Flushers : taken'[g] = Nothing
  BY <1>0, <1>6, <1>t DEF EndFlush, FlushType
<1>7. CASE WriteFails(f)
  <2>1. pending'[k] \in {pending[k], taken[f][k]} BY <1>7 DEF WriteFails
  <2>2. Layers(k)' \subseteq Layers(k) BY <1>6, <1>7, <2>1 DEF WriteFails, Layers, Nothing
  <2> QED BY <1>1, <1>7, <2>2 DEF WriteFails
<1>8. CASE StageFails(f) \/ FinishFlush(f)
  <2>1. Layers(k)' \subseteq Layers(k) BY <1>6, <1>8 DEF StageFails, FinishFlush, Layers, Nothing
  <2> QED BY <1>1, <1>8, <2>1 DEF StageFails, FinishFlush
<1> QED BY <1>2, <1>3, <1>4, <1>5, <1>7, <1>8 DEF FlushStep, SwapDirty, PickChunk, SkipChunk, FlushInMemory

\* What is gone is not read, saved or written again.
LEMMA GoneStays ==
  ASSUME OneUser, OneFlusher, TypeOK, TypeOK', Sole, Sole', Saving, Once, [Next]_vars, ~Crash,
         NEW e \in accepted, Gone(e)
  PROVE  Gone(e)'
<1> DEFINE k == EditKey[e]
<1>1. e \in Edits /\ k \in Keys BY KeysAssumption DEF TypeOK, StoreType
<1>2. ASSUME NEW f \in Flushers, FlushStep(f) PROVE Gone(e)'
  <2>1. e \notin Stored(k)' BY <1>1, <1>2, FlushMoves DEF Gone
  <2>2. \A d \in Layers(k)' : e \notin d BY <1>1, <1>2, FlushMoves DEF Gone
  <2>3. \A i \in Instances : At(i, k)' => e \notin content'[i] BY <1>1, <1>2, FlushReads DEF Gone
  <2> QED BY <2>1, <2>2, <2>3 DEF Gone
<1>3. CASE UNCHANGED <<pending, disk, taken>>
  <2>1. Stored(k)' = Stored(k) /\ Layers(k)' = Layers(k) BY <1>3 DEF Stored, Layers
  <2>2. ASSUME NEW i \in Instances, At(i, k)' PROVE e \notin content'[i]
    <3>1. CASE \A a \in Actors : ~(LoadFromDisk(a) \/ Generate(a) \/ LoadError(a))
      <4>1. At(i, k) BY <1>1, <2>2, <3>1, AtShrinks
      <4>2. \/ content'[i] = content[i]
            \/ \E a \in Actors : edit[a] \in Edits /\ content'[i] = content[i] \cup {edit[a]}
        BY <1>1, <2>2, <3>1, ContentGrows
      <4>3. \A a \in Actors : edit[a] \in Edits => edit[a] # e BY NoneAssumption DEF Once
      <4> QED BY <4>1, <4>2, <4>3 DEF Gone
    <3>2. ASSUME NEW a \in Actors, LoadFromDisk(a) \/ Generate(a) \/ LoadError(a) PROVE e \notin content'[i]
      <4>1. PICK n \in Instances :
              /\ \A j \in Instances, l \in Keys : At(j, l)' <=> At(j, l) \/ (j = n /\ l = key[a])
              /\ \A j \in Instances \ {n} : content'[j] = content[j]
              /\ LoadFromDisk(a) => content'[n] = disk[key[a]]
              /\ ~LoadFromDisk(a) => content'[n] = {}
              /\ \A j \in Keys : ~At(n, j)
        BY <3>2, ProducedAt
      <4>2. CASE i = n
        <5>1. key[a] = k BY <1>1, <2>2, <4>1, <4>2
        <5>2. LoadFromDisk(a) => content'[i] = Stored(k) BY <4>1, <4>2, <5>1 DEF LoadFromDisk, Stored
        <5> QED BY <4>1, <4>2, <5>2 DEF Gone
      <4>3. CASE i # n BY <1>1, <2>2, <4>1, <4>3 DEF Gone
      <4> QED BY <4>2, <4>3
    <3> QED BY <3>1, <3>2
  <2> QED BY <2>1, <2>2 DEF Gone
<1>4. ASSUME NEW a \in Actors, ActorStep(a) PROVE UNCHANGED <<pending, disk, taken>> BY <1>4, ActorKeepsPinned
<1>5. ASSUME NEW a \in Actors, NEW j \in Keys, NEW d \in Edits \cup {None}, Begin(a, j, d)
      PROVE UNCHANGED <<pending, disk, taken>>
  BY <1>5 DEF Begin
<1>6. UNCHANGED vars => UNCHANGED <<pending, disk, taken>> BY DEF vars
<1> QED BY <1>2, <1>3, <1>4, <1>5, <1>6 DEF Next

\* What lasts lasts, until the process dies.
LEMMA LastingStays ==
  ASSUME OneUser, OneFlusher, TypeOK, TypeOK', Sole, Sole', Saving, Saving', Layered, [Next]_vars, ~Crash,
         loadErrors' = 0, NEW e \in accepted, Lasting(e)
  PROVE  Lasting(e)'
<1>1. e \in Edits /\ EditKey[e] \in Keys BY KeysAssumption DEF TypeOK, StoreType
<1>2. ASSUME NEW a \in Actors, ActorStep(a) PROVE Lasting(e)' BY <1>1, <1>2, LastingActor
<1>3. ASSUME NEW f \in Flushers, FlushStep(f) PROVE Lasting(e)' BY <1>1, <1>3, LastingFlush
<1>4. CASE \/ UNCHANGED vars
           \/ \E a \in Actors, k \in Keys, d \in Edits \cup {None} : Begin(a, k, d)
  BY <1>1, <1>4, IdleLasts
<1> QED BY <1>2, <1>3, <1>4 DEF Next

\* An edit to a lectern: its instance is still the column's, or its column was evicted.
LEMMA LecternDecided ==
  ASSUME OneUser, TypeOK, TypeOK', Sole, Sole', Saving, Safe, NEW a \in Actors, MarkLectern(a),
         NEW e \in Edits, e = edit[a], e \notin accepted
  PROVE  Lasting(e)' \/ Gone(e)'
<1> DEFINE k == EditKey[e]
<1>1. pc[a] = "mark" BY DEF MarkLectern
<1>2. key[a] = k /\ k \in Keys /\ held[a] \in Instances /\ held[a] # None
  BY <1>1, NoneAssumption, KeysAssumption DEF TypeOK, ActorType
<1>3. e \in content[held[a]] BY <1>1 DEF Safe
<1>4. k \in dirty' /\ UNCHANGED <<chunks, flushVars, storeVars>> BY <1>2 DEF MarkLectern, Accept
<1>5. ASSUME NEW i \in Instances, At(i, k)' PROVE e \in content'[i] /\ i = held[a] /\ chunks[k] = i
  <2>1. ActorStep(a) /\ ~(LoadFromDisk(a) \/ Generate(a) \/ LoadError(a))
    BY <1>1 DEF ActorStep, LoadFromDisk, Generate, LoadError
  <2>2. At(i, k) /\ content[i] \subseteq content'[i] BY <1>2, <1>5, <2>1, ActorShrinks
  <2>3. i = held[a] BY <1>2, <2>2 DEF Sole, At
  <2>4. chunks[k] = i
    <3>1. \A b \in Actors : held'[b] = i /\ key'[b] = k => b = a
      BY <1>2, <2>3, SoleUser, NoneAssumption DEF MarkLectern, Accept, Return, TypeOK, ActorType
    <3>2. held'[a] # i BY <1>2, <2>3, NoneAssumption DEF MarkLectern, Accept, Return, TypeOK, ActorType
    <3> QED BY <1>4, <1>5, <3>1, <3>2 DEF At
  <2> QED BY <1>3, <2>2, <2>3, <2>4
<1>6. Stored(k)' = Stored(k) /\ Layers(k)' = Layers(k) BY <1>4 DEF Stored, Layers
<1>7. \A f \in Flushers : e \notin promise'[f] BY <1>4 DEF Safe
<1>8. CASE chunks[k] # None \/ e \in Stored(k) BY <1>4, <1>5, <1>6, <1>7, <1>8 DEF Lasting
<1>9. CASE chunks[k] = None /\ e \notin Stored(k)
  <2>1. \A i \in Instances : ~At(i, k)' BY <1>5, <1>9, NoneAssumption
  <2>2. ~Staged(k) BY <1>2, <1>9 DEF Saving
  <2>3. Layers(k) = {} BY <2>2 DEF Layers, Staged
  <2> QED BY <1>6, <1>9, <2>1, <2>3 DEF Gone
<1> QED BY <1>8, <1>9

LEMMA DecidedStep ==
  ASSUME OneUser, OneFlusher, TypeOK, TypeOK', Lossless, Lossless', Decided, [Next]_vars, loadErrors = 0,
         loadErrors' = 0
  PROVE  Decided'
<1> USE DEF Lossless
<1>1. CASE Crash BY <1>1, CrashLasts DEF Decided
<1>2. CASE ~Crash
  <2>1. \A e \in accepted : Lasting(e)' \/ Gone(e)' BY <1>2, LastingStays, GoneStays DEF Decided
  <2>2. ASSUME NEW e \in accepted', e \notin accepted PROVE Lasting(e)' \/ Gone(e)'
    <3>1. PICK a \in Actors : e = edit[a] /\ (MarkBlock(a) \/ MarkContainer(a) \/ MarkLectern(a))
      BY <1>2, <2>2, AcceptedBy
    <3>2. e \in Edits BY DEF TypeOK, StoreType
    <3> QED BY <2>2, <3>1, <3>2, LastingAccepted, LecternDecided
  <2> QED BY <2>1, <2>2 DEF Decided
<1> QED BY <1>1, <1>2

\* No saved column is unreadable: what a world whose files nobody damages keeps to.
LEMMA AlwaysDecided ==
  ASSUME OneUser, OneFlusher, MaxLoadErrors = 0
  PROVE  Spec => [](loadErrors = 0 /\ Decided)
<1> DEFINE Settled == loadErrors = 0 /\ Decided
<1>1. Init => Settled BY DEF Init, Decided
<1>2. TypeOK /\ TypeOK' /\ Lossless /\ Lossless' /\ Settled /\ [Next]_vars => Settled'
  <2> SUFFICES ASSUME TypeOK, TypeOK', Lossless, Lossless', loadErrors = 0, Decided, [Next]_vars
               PROVE  loadErrors' = 0 /\ Decided'
    OBVIOUS
  <2>1. loadErrors' = 0 BY ErrorsCounted
  <2> QED BY <2>1, DecidedStep
<1> QED BY <1>1, <1>2, AlwaysLossless, TypeCorrect, PTL DEF Spec

\* What a lookup of its column finds, of the edits that have returned.
Found == {e \in accepted : e \in Visible(EditKey[e])}

\* Until the process dies lookups find what they found, and what is accepted meanwhile.
LEMMA FoundStays ==
  ASSUME OneUser, OneFlusher, TypeOK, TypeOK', Lossless, Lossless', Decided, [Next]_vars, ~Crash,
         loadErrors = 0, loadErrors' = 0, NEW e \in accepted
  PROVE  e \in Found <=> e \in Found'
<1> USE DEF Lossless
<1>0. e \in Edits BY DEF TypeOK, StoreType
<1>1. e \in accepted'
  <2>1. ASSUME NEW a \in Actors, ActorStep(a) PROVE accepted \subseteq accepted'
    BY <2>1 DEF ActorStep, LookupHit, LookupWait, LookupMiss, LoadFromDisk, Generate, LoadError, Produce,
       Install, Mutate, MarkBlock, MarkContainer, MarkLectern, Accept
  <2>2. ASSUME NEW f \in Flushers, FlushStep(f) PROVE UNCHANGED accepted
    BY <2>2 DEF FlushStep, SwapDirty, Stage, TakePending, FinishFlush, WriteFails, StageFails, PickChunk,
       SkipChunk, WriteChunk, FlushInMemory
  <2>3. ASSUME NEW a \in Actors, NEW k \in Keys, NEW d \in Edits \cup {None}, Begin(a, k, d) PROVE UNCHANGED accepted
    BY <2>3 DEF Begin
  <2>4. UNCHANGED vars => UNCHANGED accepted BY DEF vars
  <2> QED BY <2>1, <2>2, <2>3, <2>4 DEF Next
<1>2. CASE Lasting(e)
  <2>1. Lasting(e)' BY <1>2, LastingStays
  <2>2. e \in Visible(EditKey[e]) /\ e \in Visible(EditKey[e])'
    BY <1>0, <1>2, <2>1, VisibleMeans, VisibleMeansNext
  <2> QED BY <1>1, <2>2 DEF Found
<1>3. CASE Gone(e)
  <2>1. Gone(e)' BY <1>3, GoneStays
  <2>2. e \notin Visible(EditKey[e]) /\ e \notin Visible(EditKey[e])'
    BY <1>0, <1>3, <2>1, VisibleMeans, VisibleMeansNext
  <2> QED BY <2>2 DEF Found
<1> QED BY <1>2, <1>3 DEF Decided

\* The disk only gains edits.
LEMMA OnDiskGrows ==
  ASSUME TypeOK, Lossless, [Next]_vars, loadErrors = 0
  PROVE  /\ OnDisk \subseteq OnDisk'
         /\ (\A f \in Flushers : ~FlushStep(f)) => OnDisk' = OnDisk
<1>1. OnDisk = UNION {Stored(k) : k \in Keys} BY DEF OnDisk, Stored
<1>2. OnDisk' = UNION {Stored(k)' : k \in Keys} BY DEF OnDisk, Stored
<1>3. ASSUME NEW f \in Flushers, FlushStep(f) PROVE OnDisk \subseteq OnDisk'
  <2>1. \A k \in Keys : Stored(k) \subseteq Stored(k)' BY <1>3, StoredGrows DEF Lossless
  <2> QED BY <1>1, <1>2, <2>1
<1>4. ASSUME \A f \in Flushers : ~FlushStep(f) PROVE disk' = disk
  BY <1>4 DEF Next, vars, Crash, Begin, ActorStep, LookupHit, LookupWait, LookupMiss, LoadFromDisk, Generate,
     LoadError, Produce, Install, Mutate, MarkBlock, MarkContainer, MarkLectern, Accept
<1>5. ASSUME \A f \in Flushers : ~FlushStep(f) PROVE OnDisk' = OnDisk BY <1>4, <1>5 DEF OnDisk
<1> QED BY <1>3, <1>5

\* The cache keeps the promises of ChunkStore: a lookup sees every edit that has returned and was
\* not lost with a lectern's instance, until the process stops; what is on disk stays there and is
\* what a restart brings back.  For columns of one goroutine each, Flush calls that do not overlap
\* and saved columns that can be read.
THEOREM CacheIsAStore ==
  ASSUME OneUser, OneFlusher, MaxLoadErrors = 0
  PROVE  Spec => ImplementsChunkStore
<1> DEFINE Settled == TypeOK /\ Lossless /\ loadErrors = 0 /\ Decided
<1>1. Init => Store!Init
  <2> SUFFICES ASSUME Init PROVE Store!Init
    OBVIOUS
  <2>1. OnDisk = {} BY DEF Init, OnDisk, Nothing
  <2> QED BY <2>1 DEF Init, Store!Init
<1>2. Settled /\ Settled' /\ [Next]_vars => [Store!Next]_(Store!vars)
  <2> SUFFICES ASSUME TypeOK, TypeOK', Lossless, Lossless', loadErrors = 0, loadErrors' = 0, Decided, [Next]_vars
               PROVE  [Store!Next]_(Store!vars)
    OBVIOUS
  <2> DEFINE Seen == Found \cup OnDisk
  <2>1. SUFFICES \/ Seen' = Seen /\ OnDisk' = OnDisk
                 \/ \E e \in Edits : e \notin Seen /\ Seen' = Seen \cup {e} /\ OnDisk' = OnDisk
                 \/ \E D \in SUBSET Edits : OnDisk \subseteq D /\ OnDisk' = D /\ Seen' = Seen \cup D
                 \/ Seen' = OnDisk /\ OnDisk' = OnDisk
    BY DEF Store!Next, Store!vars, Store!Edit, Store!Save, Store!Restart, Found
  <2>2. CASE Crash
    <3>1. accepted' = OnDisk /\ disk' = disk BY <2>2 DEF Crash
    <3>2. OnDisk' = OnDisk BY <3>1 DEF OnDisk
    <3> QED BY <3>1, <3>2 DEF Found
  <2>3. CASE ~Crash
    <3>1. \A e \in accepted : e \in Found <=> e \in Found' BY <2>3, FoundStays
    <3>2. Found \subseteq accepted /\ Found' \subseteq accepted' BY DEF Found
    <3>3. OnDisk \subseteq OnDisk' /\ OnDisk' \subseteq Edits 
      <4>1. ASSUME NEW e \in OnDisk' PROVE e \in Edits
        <5>1. PICK k \in Keys : disk'[k] # None /\ e \in disk'[k] BY DEF OnDisk
        <5>2. disk'[k] \in Data BY DEF TypeOK, StoreType
        <5> QED BY <5>1, <5>2 DEF Data
      <4> QED BY <4>1, OnDiskGrows
    <3>4. CASE \E f \in Flushers : FlushStep(f)
      <4>1. accepted' = accepted
        BY <3>4 DEF FlushStep, SwapDirty, Stage, TakePending, FinishFlush, WriteFails, StageFails, PickChunk,
           SkipChunk, WriteChunk, FlushInMemory
      <4>2. Found' = Found BY <3>1, <3>2, <4>1
      <4>3. Seen' = Seen \cup OnDisk' BY <3>3, <4>2
      <4> QED BY <3>3, <4>3
    <3>5. CASE \A f \in Flushers : ~FlushStep(f)
      <4>1. OnDisk' = OnDisk BY <3>5, OnDiskGrows
      <4>2. \A e \in accepted' \ accepted : \E a \in Actors : e = edit[a] /\ accepted' = accepted \cup {e}
        <5> SUFFICES ASSUME NEW e \in accepted', e \notin accepted
                     PROVE  \E a \in Actors : e = edit[a] /\ accepted' = accepted \cup {e}
          OBVIOUS
        <5>1. PICK a \in Actors : e = edit[a] /\ (MarkBlock(a) \/ MarkContainer(a) \/ MarkLectern(a))
          BY <2>3, AcceptedBy
        <5> QED BY <5>1 DEF MarkBlock, MarkContainer, MarkLectern, Accept
      <4>3. CASE Found' \subseteq accepted
        <5>1. Found' = Found
          <6>1. Found' \subseteq Found BY <3>1, <4>3
          <6>2. Found \subseteq Found' BY <3>1, <3>2
          <6> QED BY <6>1, <6>2
        <5> QED BY <4>1, <5>1
      <4>4. ASSUME NEW e \in Found', e \notin accepted
            PROVE  \/ Seen' = Seen
                   \/ e \in Edits /\ e \notin Seen /\ Seen' = Seen \cup {e}
        <5>1. accepted' = accepted \cup {e} BY <3>2, <4>2, <4>4
        <5>2. Found' = Found \cup {e}
          <6>1. Found' \subseteq Found \cup {e} BY <3>1, <3>2, <5>1
          <6>2. Found \subseteq Found' BY <3>1, <3>2
          <6> QED BY <4>4, <6>1, <6>2
        <5>3. e \in Edits BY <3>2, <4>4 DEF TypeOK, StoreType
        <5>4. Seen' = Seen \cup {e} BY <4>1, <5>2
        <5> QED BY <5>3, <5>4
      <4> QED BY <4>1, <4>3, <4>4
    <3> QED BY <3>4, <3>5
  <2> QED BY <2>2, <2>3
<1> QED BY <1>1, <1>2, AlwaysDecided, AlwaysLossless, TypeCorrect, PTL DEF Spec, ImplementsChunkStore, Store!Spec
=============================================================================
