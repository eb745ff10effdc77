------------------------------ MODULE BlockLight ------------------------------
(***************************************************************************)
(* The light that Java clients are sent: the floods of java/world          *)
(* (computeSkyLightLevels of sender.go, computeBlockLightRegion of         *)
(* block_light_propagation.go), the chunks a player's goroutine sends with *)
(* it, and the updates that the goroutine of an edit sends for the chunks  *)
(* around it (java/handler/light.go).                                      *)
(*                                                                         *)
(* A flood runs on levels of its own, but reads blocks that other          *)
(* goroutines may be editing.  Its queue is a set: each lit cell waits in  *)
(* it once, and any cell may be the next one.                              *)
(***************************************************************************)
EXTENDS Integers, Sequences

CONSTANTS
  Voxels,      \* the cells of the world
  Adjoining,   \* [Voxels -> the cells that share a face]
  AtOrAbove,   \* [Voxels -> the cell and those above it]
  ChunkOf,     \* [Voxels -> its chunk]
  Nearby,      \* [chunks -> its 3 by 3 chunks, in the order of the loops]
  Full,        \* 15
  Kinds,       \* blocks: light is what they emit, clear whether daylight passes
  Terrains,    \* worlds to start from: [Voxels -> Kinds]
  Edits,       \* what players place or break, and where: a subset of Voxels \X Kinds
  Evictable,   \* chunks that the cache may let go of
  Editors,     \* goroutines that edit
  Watcher,     \* the goroutine of the player who is sent chunks
  MaxChanges   \* bound: edits

ChunkSet == {ChunkOf[v] : v \in Voxels}
In(chunks) == {v \in Voxels : ChunkOf[v] \in chunks}
Surroundings(c) == {Nearby[c][i] : i \in DOMAIN Nearby[c]}
Walks(n) == {w \in [1 .. n -> Voxels] : \A i \in 2 .. n : w[i] \in Adjoining[w[i - 1]]}

ASSUME LevelsAssumption == Full \in Nat \ {0} /\ MaxChanges \in Nat
ASSUME KindsAssumption ==
  /\ Kinds \subseteq [light : 0 .. Full, clear : BOOLEAN] /\ Terrains \subseteq [Voxels -> Kinds]
  /\ Edits \subseteq Voxels \X Kinds /\ Watcher \notin Editors
ASSUME ShapeAssumption ==
  /\ Adjoining \in [Voxels -> SUBSET Voxels]
  /\ \A v \in Voxels : v \notin Adjoining[v] /\ \A u \in Adjoining[v] : v \in Adjoining[u]
  /\ AtOrAbove \in [Voxels -> SUBSET Voxels]
  /\ \A v \in Voxels : \A u \in AtOrAbove[v] : ChunkOf[u] = ChunkOf[v]
  /\ ChunkOf \in [Voxels -> ChunkSet] /\ Nearby \in [ChunkSet -> Seq(ChunkSet)]
  /\ \A c \in ChunkSet : c \in Surroundings(c)
\* Chunks are around each other, and are wider than the brightest light reaches.
ASSUME ReachAssumption ==
  /\ \A c, d \in ChunkSet : c \in Surroundings(d) => d \in Surroundings(c)
  /\ \A n \in 1 .. Full : \A w \in Walks(n) : ChunkOf[w[n]] \in Surroundings(ChunkOf[w[1]])

Goroutines == Editors \cup {Watcher}
Level == 0 .. Full
Dark == [v \in Voxels |-> 0]
NotSent == [v \in {} |-> 0]

VARIABLES
  terrain,   \* the blocks
  cached,    \* the chunks in the World's cache
  online,    \* the player is among the sessions
  shown,     \* [ChunkSet -> the block light the client holds of it]
  doubtful,  \* history: chunks whose last light was computed while a chunk around was missing
             \* or an edit came in between, or that an update has passed over
  job,       \* [Goroutines -> what it is doing]
  changes    \* edits so far

lightVars == <<terrain, cached, online, shown, doubtful, job, changes>>

\* flood: which light; around: the chunks whose pointers it took; inside: its cells;
\* still: no block of around has changed since it began.
NoJob == [pc |-> "idle", at |-> {}, around |-> {}, inside |-> {}, levels |-> Dark, queue |-> {},
          still |-> FALSE, rest |-> <<>>]

Jobs == [pc : {"idle", "sky", "block", "observe", "update"}, at : SUBSET ChunkSet,
         around : SUBSET ChunkSet, inside : SUBSET Voxels, levels : [Voxels -> Level],
         queue : SUBSET Voxels, still : BOOLEAN, rest : Seq(ChunkSet)]

LightInit ==
  /\ terrain \in Terrains /\ cached = ChunkSet /\ online = FALSE
  /\ shown = [c \in ChunkSet |-> NotSent] /\ doubtful = {}
  /\ job = [g \in Goroutines |-> NoJob] /\ changes = 0

---------------------------------------------------------------------------
(* What blocks do to light. *)

Passes(b) == b.clear \/ b.light # 0
LightChanged(old, new) == old.light # new.light \/ Passes(old) # Passes(new)

OpenToSky(v) == \A u \in AtOrAbove[v] : terrain[u].clear
Source(pc, v) == IF pc = "sky" THEN (IF OpenToSky(v) THEN Full ELSE 0) ELSE terrain[v].light
Admits(pc, b) == IF pc = "sky" THEN b.clear ELSE Passes(b)

\* Under a roof, beside a cell that is open to the sky.
Fringe(inside) ==
  {v \in inside : terrain[v].clear /\ ~OpenToSky(v) /\ \E u \in Adjoining[v] \cap inside : OpenToSky(u)}

SkySeeded(j) ==
  LET inside == In(j.at)
      fringe == Fringe(inside)
  IN  [j EXCEPT !.pc = "sky", !.inside = inside, !.queue = fringe,
                !.levels = [v \in Voxels |-> IF v \in fringe THEN Full - 1
                                             ELSE IF v \in inside THEN Source("sky", v) ELSE 0]]

\* A chunk whose pointer was not there is opaque, and the flood does not enter it.
BlockSeeded(j) ==
  LET inside == In(j.around)
  IN  [j EXCEPT !.pc = "block", !.inside = inside, !.queue = {v \in inside : terrain[v].light # 0},
                !.levels = [v \in Voxels |-> IF v \in inside THEN terrain[v].light ELSE 0]]

---------------------------------------------------------------------------
(* A flood. *)

\* The neighbours that the light of v makes brighter.
DarkOnly(j, v) ==
  {u \in Adjoining[v] \cap j.inside : j.levels[u] = 0 /\ j.levels[v] > 1 /\ Admits(j.pc, terrain[u])}
Brightened(j, v) ==
  {u \in Adjoining[v] \cap j.inside : j.levels[u] < j.levels[v] - 1 /\ Admits(j.pc, terrain[u])}

Flooded(j, v) ==
  LET lit == Brightened(j, v)
  IN  [j EXCEPT !.queue = (@ \ {v}) \cup lit,
                !.levels = [u \in Voxels |-> IF u \in lit THEN j.levels[v] - 1 ELSE j.levels[u]]]

Flood(g) ==
  /\ job[g].pc \in {"sky", "block"}
  /\ \E v \in job[g].queue : job' = [job EXCEPT ![g] = Flooded(@, v)]
  /\ UNCHANGED <<terrain, cached, online, shown, doubtful, changes>>

Finished(g, pc) == job[g].pc = pc /\ job[g].queue = {}

---------------------------------------------------------------------------
(* The goroutine of the player: chunks that enter its view, and that leave it. *)

Join ==
  /\ ~online /\ online' = TRUE
  /\ UNCHANGED <<terrain, cached, shown, doubtful, job, changes>>

\* The chunk is looked up, then those around it if they are loaded.
SendChunk(c) ==
  /\ online /\ job[Watcher].pc = "idle" /\ shown[c] = NotSent
  /\ cached' = cached \cup {c}
  /\ job' = [job EXCEPT ![Watcher] =
       SkySeeded([NoJob EXCEPT !.at = {c}, !.around = Surroundings(c) \cap cached', !.still = TRUE])]
  /\ UNCHANGED <<terrain, online, shown, doubtful, changes>>

SkyDone ==
  /\ Finished(Watcher, "sky")
  /\ job' = [job EXCEPT ![Watcher] = BlockSeeded(@)]
  /\ UNCHANGED <<terrain, cached, online, shown, doubtful, changes>>

Exact(j) == j.still /\ \A c \in j.at : Surroundings(c) \subseteq j.around
Doubted(j) == IF Exact(j) THEN doubtful \ j.at ELSE doubtful \cup j.at
Cut(j, c) == [v \in In({c}) |-> j.levels[v]]

ChunkSent ==
  /\ Finished(Watcher, "block")
  /\ shown' = [c \in ChunkSet |-> IF c \in job[Watcher].at THEN Cut(job[Watcher], c) ELSE shown[c]]
  /\ doubtful' = Doubted(job[Watcher])
  /\ job' = [job EXCEPT ![Watcher] = NoJob]
  /\ UNCHANGED <<terrain, cached, online, changes>>

Forget(c) ==
  /\ job[Watcher].pc = "idle" /\ shown[c] # NotSent
  /\ shown' = [shown EXCEPT ![c] = NotSent] /\ doubtful' = doubtful \ {c}
  /\ UNCHANGED <<terrain, cached, online, job, changes>>

---------------------------------------------------------------------------
(* An edit, and the light updates its goroutine sends. *)

\* History: a flood that reads the block is not still any more.
Disturbed(v) ==
  [g \in Goroutines |-> [job[g] EXCEPT !.still = @ /\ ChunkOf[v] \notin job[g].around]]

\* SetBlock looks its chunk up, then writes; the observer is called after that.
SetVoxel(e, v, b) ==
  /\ job[e].pc = "idle" /\ changes < MaxChanges /\ terrain[v] # b
  /\ terrain' = [terrain EXCEPT ![v] = b] /\ cached' = cached \cup {ChunkOf[v]}
  /\ job' = [Disturbed(v) EXCEPT ![e] = IF LightChanged(terrain[v], b)
                                         THEN [NoJob EXCEPT !.pc = "observe", !.at = {ChunkOf[v]}] ELSE NoJob]
  /\ changes' = changes + 1
  /\ UNCHANGED <<online, shown, doubtful>>

OwnChunk(c) == <<c>>
Updated(c) == Nearby[c]

Observe(e) ==
  /\ job[e].pc = "observe"
  /\ \E c \in job[e].at :
       job' = [job EXCEPT ![e] = IF online THEN [NoJob EXCEPT !.pc = "update", !.rest = Updated(c)]
                                 ELSE NoJob]
  /\ UNCHANGED <<terrain, cached, online, shown, doubtful, changes>>

BeginUpdate(e) ==
  /\ job[e].pc = "update" /\ job[e].rest # <<>> /\ Head(job[e].rest) \in cached
  /\ LET c == Head(job[e].rest)
     IN job' = [job EXCEPT ![e] = BlockSeeded([job[e] EXCEPT
           !.at = {c}, !.around = Surroundings(c) \cap cached, !.still = TRUE, !.rest = Tail(@)])]
  /\ UNCHANGED <<terrain, cached, online, shown, doubtful, changes>>

\* A chunk that has left the cache is passed over, whoever still has it in view.
PassChunk(e) ==
  /\ job[e].pc = "update" /\ job[e].rest # <<>> /\ Head(job[e].rest) \notin cached
  /\ job' = [job EXCEPT ![e].rest = Tail(@)]
  /\ doubtful' = doubtful \cup {Head(job[e].rest)}
  /\ UNCHANGED <<terrain, cached, online, shown, changes>>

\* The client has no use for the light of a chunk it does not hold.
UpdateSent(e) ==
  /\ Finished(e, "block")
  /\ shown' = [c \in ChunkSet |-> IF c \in job[e].at /\ shown[c] # NotSent THEN Cut(job[e], c) ELSE shown[c]]
  /\ doubtful' = Doubted(job[e])
  /\ job' = [job EXCEPT ![e] = [NoJob EXCEPT !.pc = "update", !.rest = job[e].rest]]
  /\ UNCHANGED <<terrain, cached, online, changes>>

UpdatesDone(e) ==
  /\ job[e].pc = "update" /\ job[e].rest = <<>>
  /\ job' = [job EXCEPT ![e] = NoJob]
  /\ UNCHANGED <<terrain, cached, online, shown, doubtful, changes>>

\* Other lookups load chunks, and evict chunks.
CacheMoves(c) ==
  /\ cached' = IF c \notin cached THEN cached \cup {c} ELSE cached \ ({c} \cap Evictable)
  /\ UNCHANGED <<terrain, online, shown, doubtful, job, changes>>

LightNext ==
  \/ Join \/ SkyDone \/ ChunkSent
  \/ \E c \in ChunkSet : SendChunk(c) \/ Forget(c) \/ CacheMoves(c)
  \/ \E g \in Goroutines : Flood(g)
  \/ \E e \in Editors :
       \/ Observe(e) \/ BeginUpdate(e) \/ PassChunk(e) \/ UpdateSent(e) \/ UpdatesDone(e)
       \/ \E x \in Edits : SetVoxel(e, x[1], x[2])

LightSpec == LightInit /\ [][LightNext]_lightVars

---------------------------------------------------------------------------
(* Properties. *)

LightTypeOK ==
  /\ terrain \in [Voxels -> Kinds] /\ cached \subseteq ChunkSet /\ online \in BOOLEAN
  /\ doubtful \subseteq ChunkSet /\ changes \in Nat
  /\ job \in [Goroutines -> Jobs]

\* Light that needs no further step: no cell is darker than what it emits, or than its
\* neighbours less one, and each has its level from one of the two.
Settled(j) ==
  \A v \in j.inside :
    /\ j.levels[v] >= Source(j.pc, v)
    /\ \A u \in Adjoining[v] \cap j.inside :
         Admits(j.pc, terrain[u]) => j.levels[u] >= j.levels[v] - 1
    /\ \/ j.levels[v] = Source(j.pc, v)
       \/ Admits(j.pc, terrain[v]) /\ \E u \in Adjoining[v] \cap j.inside : j.levels[u] = j.levels[v] + 1

\* sender.go:200, block_light_propagation.go:5: a flood that stops has lit every cell as
\* brightly as it should be, and no brighter, in whatever order cells waited in its queue,
\* if nothing was built or broken meanwhile.
LightSettles ==
  \A g \in Goroutines :
    job[g].pc \in {"sky", "block"} /\ job[g].queue = {} /\ job[g].still => Settled(job[g])

\* The cells at least as bright as l, found from the brightest down.
AtLeast[l \in 1 .. Full + 1] ==
  IF l > Full THEN {}
  ELSE {v \in Voxels : \/ terrain[v].light >= l
                       \/ Passes(terrain[v]) /\ Adjoining[v] \cap AtLeast[l + 1] # {}}
TrueLight(v) == CHOOSE l \in Level : \A k \in 1 .. Full : v \in AtLeast[k] <=> k <= l

\* light.go:11, block_light_region.go:17: when every goroutine is at rest a client has the
\* light of the whole world for each chunk in its view, though each chunk was lit from the
\* chunks around it only and an edit renews no more than those; what is doubtful is left out.
ClientLightIsTrue ==
  (\A g \in Goroutines : job[g].pc = "idle") =>
    \A c \in ChunkSet \ doubtful : shown[c] # NotSent => \A v \in In({c}) : shown[c][v] = TrueLight(v)
=============================================================================
