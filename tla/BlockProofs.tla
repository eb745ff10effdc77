------------------------------ MODULE BlockProofs ------------------------------
(***************************************************************************)
(* Of BlockLight: the types, that a flood which stops has settled, and     *)
(* that the light a client holds at rest is the true one.  Of BlockTicks:  *)
(* the types, that nothing the rules would change is forgotten, that bare  *)
(* trees shed, and that sand is conserved.  Of Redstone: the types, that   *)
(* the blocks show the power, and that it settles.                         *)
(***************************************************************************)
EXTENDS BlockTicks, BlockLight, Redstone, Sequences, FiniteSetTheorems, WellFoundedInduction, TLAPS

---------------------------------------------------------------------------
(* Types. *)

LEMMA InIsVoxels == \A chunks : In(chunks) \subseteq Voxels
BY DEF In

LEMMA NoJobIsJob == NoJob \in Jobs
BY LevelsAssumption DEF NoJob, Jobs, Dark, Level

Places == SUBSET Voxels
Areas == SUBSET ChunkSet
Lights == [Voxels -> Level]
Rests == Seq(ChunkSet)

LEMMA JobsAreRecords ==
  Jobs = [pc : {"idle", "sky", "block", "observe", "update"}, at : Areas, around : Areas,
          inside : Places, levels : Lights, queue : Places, still : BOOLEAN, rest : Rests]
BY DEF Jobs, Places, Areas, Lights, Rests

LEMMA SeededIsJob ==
  ASSUME NEW j \in Jobs, terrain \in [Voxels -> Kinds]
  PROVE  SkySeeded(j) \in Jobs /\ BlockSeeded(j) \in Jobs
<1> DEFINE fringe == Fringe(In(j.at))
           sky == [v \in Voxels |-> IF v \in fringe THEN Full - 1
                                    ELSE IF v \in In(j.at) THEN Source("sky", v) ELSE 0]
           lamps == [v \in Voxels |-> IF v \in In(j.around) THEN terrain[v].light ELSE 0]
<1>1. sky \in Lights
  BY LevelsAssumption, KindsAssumption DEF Source, Level, Lights
<1>2. lamps \in Lights
  BY LevelsAssumption, KindsAssumption DEF Level, Lights
<1>3. fringe \in Places /\ {v \in In(j.around) : terrain[v].light # 0} \in Places
  BY InIsVoxels DEF Fringe, Places
<1>4. SkySeeded(j) = [j EXCEPT !.pc = "sky", !.inside = In(j.at), !.queue = fringe, !.levels = sky]
  BY DEF SkySeeded
<1>5. BlockSeeded(j) = [j EXCEPT !.pc = "block", !.inside = In(j.around),
                                 !.queue = {v \in In(j.around) : terrain[v].light # 0}, !.levels = lamps]
  BY DEF BlockSeeded
<1> HIDE DEF fringe, sky, lamps
<1>6. In(j.at) \in Places /\ In(j.around) \in Places
  BY InIsVoxels DEF Places
<1>8. SkySeeded(j) \in Jobs
  BY <1>1, <1>3, <1>4, <1>6, JobsAreRecords
<1>10. BlockSeeded(j) \in Jobs
  BY <1>2, <1>3, <1>5, <1>6, JobsAreRecords
<1>11. QED
  BY <1>8, <1>10

LEMMA FloodedIsJob ==
  ASSUME NEW j \in Jobs, NEW v \in j.queue
  PROVE  Flooded(j, v) \in Jobs
<1> DEFINE lit == Brightened(j, v)
           levels == [u \in Voxels |-> IF u \in lit THEN j.levels[v] - 1 ELSE j.levels[u]]
<1>1. v \in Voxels /\ lit \subseteq Voxels
  BY DEF Jobs, Brightened
<1>2. \A u \in lit : j.levels[v] - 1 \in Level
  <2> SUFFICES ASSUME NEW u \in lit PROVE j.levels[v] - 1 \in Level
    OBVIOUS
  <2>1. j.levels[u] \in Level /\ j.levels[v] \in Level
    BY <1>1 DEF Jobs
  <2>2. j.levels[u] < j.levels[v] - 1
    BY DEF Brightened
  <2> QED
    BY <2>1, <2>2, LevelsAssumption DEF Level
<1>3. levels \in Lights
  BY <1>1, <1>2 DEF Jobs, Lights
<1>4. Flooded(j, v) = [j EXCEPT !.queue = (j.queue \ {v}) \cup lit, !.levels = levels]
  BY DEF Flooded, Jobs
<1>5. (j.queue \ {v}) \cup lit \in Places
  BY <1>1 DEF Jobs, Places
<1> HIDE DEF lit, levels
<1>6. QED
  BY <1>3, <1>4, <1>5, JobsAreRecords

LEMMA NoJobVariants ==
  /\ \A c \in ChunkSet, chunks \in SUBSET ChunkSet :
       [NoJob EXCEPT !.at = {c}, !.around = chunks, !.still = TRUE] \in Jobs
  /\ \A c \in ChunkSet : [NoJob EXCEPT !.pc = "observe", !.at = {c}] \in Jobs
  /\ \A rest \in Seq(ChunkSet) : [NoJob EXCEPT !.pc = "update", !.rest = rest] \in Jobs
<1>1. NoJob.pc = "idle" /\ NoJob \in Jobs
  BY NoJobIsJob DEF NoJob
<1>2. ASSUME NEW c \in ChunkSet, NEW chunks \in SUBSET ChunkSet
      PROVE  [NoJob EXCEPT !.at = {c}, !.around = chunks, !.still = TRUE] \in Jobs
  <2>1. {c} \in Areas /\ chunks \in Areas
    BY DEF Areas
  <2> QED
    BY <1>1, <2>1, JobsAreRecords
<1>3. ASSUME NEW c \in ChunkSet
      PROVE  [NoJob EXCEPT !.pc = "observe", !.at = {c}] \in Jobs
  <2>1. {c} \in Areas
    BY DEF Areas
  <2> QED
    BY <1>1, <2>1, JobsAreRecords
<1>4. ASSUME NEW rest \in Seq(ChunkSet)
      PROVE  [NoJob EXCEPT !.pc = "update", !.rest = rest] \in Jobs
  <2>1. rest \in Rests
    BY DEF Rests
  <2> QED
    BY <1>1, <2>1, JobsAreRecords
<1>5. QED
  BY <1>2, <1>3, <1>4

LEMMA NearbyTypes ==
  \A c \in ChunkSet : Surroundings(c) \in SUBSET ChunkSet /\ c \in Surroundings(c) /\ Nearby[c] \in Seq(ChunkSet)
<1> SUFFICES ASSUME NEW c \in ChunkSet
             PROVE  Surroundings(c) \in SUBSET ChunkSet /\ c \in Surroundings(c) /\ Nearby[c] \in Seq(ChunkSet)
  OBVIOUS
<1>1. Nearby[c] \in Seq(ChunkSet)
  BY ShapeAssumption
<1>2. \A i \in DOMAIN Nearby[c] : Nearby[c][i] \in ChunkSet
  BY <1>1
<1>3. QED
  BY <1>1, <1>2, ShapeAssumption DEF Surroundings

LEMMA DisturbedType ==
  ASSUME LightTypeOK, NEW v \in Voxels
  PROVE  Disturbed(v) \in [Goroutines -> Jobs]
<1> SUFFICES ASSUME NEW g \in Goroutines
             PROVE  [job[g] EXCEPT !.still = @ /\ ChunkOf[v] \notin job[g].around] \in Jobs
  BY DEF Disturbed
<1>1. job[g] \in Jobs
  BY DEF LightTypeOK
<1>2. (job[g].still /\ ChunkOf[v] \notin job[g].around) \in BOOLEAN
  OBVIOUS
<1>3. QED
  BY <1>1, <1>2, JobsAreRecords

LEMMA UpdateRecords ==
  ASSUME NEW j \in Jobs, NEW c \in ChunkSet, NEW chunks \in SUBSET ChunkSet, NEW rest \in Seq(ChunkSet)
  PROVE  /\ [j EXCEPT !.at = {c}, !.around = chunks, !.still = TRUE, !.rest = rest] \in Jobs
         /\ [j EXCEPT !.rest = rest] \in Jobs
<1>1. {c} \in Areas /\ chunks \in Areas /\ rest \in Rests
  BY DEF Areas, Rests
<1>2. QED
  BY <1>1, JobsAreRecords

LEMMA LightTypeStep == LightTypeOK /\ [LightNext]_lightVars => LightTypeOK'
<1> SUFFICES ASSUME LightTypeOK, [LightNext]_lightVars
             PROVE  LightTypeOK'
  OBVIOUS
<1> USE DEF LightTypeOK
<1> Watcher \in Goroutines /\ \A e \in Editors : e \in Goroutines
  BY DEF Goroutines
<1>1. CASE Join
  BY <1>1 DEF Join
<1>2. CASE SkyDone
  <2>1. BlockSeeded(job[Watcher]) \in Jobs
    BY SeededIsJob
  <2> QED
    BY <1>2, <2>1 DEF SkyDone
<1>3. CASE ChunkSent
  <2>1. job[Watcher].at \in SUBSET ChunkSet
    BY DEF Jobs
  <2> QED
    BY <1>3, <2>1, NoJobIsJob DEF ChunkSent, Doubted
<1>4. ASSUME NEW c \in ChunkSet, SendChunk(c)
      PROVE  LightTypeOK'
  <2> DEFINE j == [NoJob EXCEPT !.at = {c}, !.around = Surroundings(c) \cap cached', !.still = TRUE]
  <2>1. cached' \in SUBSET ChunkSet
    BY <1>4 DEF SendChunk
  <2>2. j \in Jobs
    BY <2>1, NoJobVariants, NearbyTypes
  <2>3. SkySeeded(j) \in Jobs
    BY <2>2, SeededIsJob
  <2>4. job' = [job EXCEPT ![Watcher] = SkySeeded(j)]
    BY <1>4 DEF SendChunk
  <2> HIDE DEF j
  <2> QED
    BY <1>4, <2>1, <2>3, <2>4 DEF SendChunk
<1>5. ASSUME NEW c \in ChunkSet, Forget(c) \/ CacheMoves(c)
      PROVE  LightTypeOK'
  BY <1>5 DEF Forget, CacheMoves
<1>6. ASSUME NEW g \in Goroutines, Flood(g)
      PROVE  LightTypeOK'
  <2>1. PICK v \in job[g].queue : job' = [job EXCEPT ![g] = Flooded(job[g], v)]
    BY <1>6 DEF Flood
  <2>2. Flooded(job[g], v) \in Jobs
    BY FloodedIsJob
  <2> QED
    BY <1>6, <2>1, <2>2 DEF Flood
<1>7. ASSUME NEW e \in Editors, Observe(e)
      PROVE  LightTypeOK'
  <2>1. PICK c \in job[e].at :
          job' = [job EXCEPT ![e] = IF online THEN [NoJob EXCEPT !.pc = "update", !.rest = Updated(c)] ELSE NoJob]
    BY <1>7 DEF Observe
  <2>2. c \in ChunkSet
    BY DEF Jobs
  <2>3. [NoJob EXCEPT !.pc = "update", !.rest = Updated(c)] \in Jobs
    BY <2>2, NearbyTypes, NoJobVariants DEF Updated
  <2> QED
    BY <1>7, <2>1, <2>3, NoJobIsJob DEF Observe
<1>8. ASSUME NEW e \in Editors, BeginUpdate(e)
      PROVE  LightTypeOK'
  <2> DEFINE c == Head(job[e].rest)
             j == [job[e] EXCEPT !.at = {c}, !.around = Surroundings(c) \cap cached, !.still = TRUE,
                                 !.rest = Tail(@)]
  <2>1. job[e] \in Jobs /\ job[e].rest \in Seq(ChunkSet) /\ job[e].rest # <<>>
    BY <1>8 DEF BeginUpdate, Jobs
  <2>2. c \in ChunkSet /\ Tail(job[e].rest) \in Seq(ChunkSet)
    BY <2>1
  <2>3. Surroundings(c) \cap cached \in SUBSET ChunkSet
    OBVIOUS
  <2>4. j \in Jobs
    BY <2>1, <2>2, <2>3, UpdateRecords
  <2>5. BlockSeeded(j) \in Jobs
    BY <2>4, SeededIsJob
  <2>6. job' = [job EXCEPT ![e] = BlockSeeded(j)]
    BY <1>8, <2>1 DEF BeginUpdate
  <2> HIDE DEF c, j
  <2> QED
    BY <1>8, <2>5, <2>6 DEF BeginUpdate
<1>9. ASSUME NEW e \in Editors, PassChunk(e)
      PROVE  LightTypeOK'
  <2>1. job[e] \in Jobs /\ job[e].rest \in Seq(ChunkSet) /\ job[e].rest # <<>>
    BY <1>9 DEF PassChunk, Jobs
  <2>2. Head(job[e].rest) \in ChunkSet /\ Tail(job[e].rest) \in Seq(ChunkSet)
    BY <2>1
  <2>3. [job[e] EXCEPT !.rest = Tail(job[e].rest)] \in Jobs
    BY <2>1, <2>2, UpdateRecords
  <2>4. job' = [job EXCEPT ![e] = [job[e] EXCEPT !.rest = Tail(job[e].rest)]]
    BY <1>9 DEF PassChunk
  <2> QED
    BY <1>9, <2>2, <2>3, <2>4 DEF PassChunk
<1>10. ASSUME NEW e \in Editors, UpdateSent(e)
       PROVE  LightTypeOK'
  <2>1. job[e].at \in SUBSET ChunkSet /\ job[e].rest \in Seq(ChunkSet)
    BY DEF Jobs
  <2>2. [NoJob EXCEPT !.pc = "update", !.rest = job[e].rest] \in Jobs
    BY <2>1, NoJobVariants
  <2> QED
    BY <1>10, <2>1, <2>2 DEF UpdateSent, Doubted
<1>11. ASSUME NEW e \in Editors, UpdatesDone(e)
       PROVE  LightTypeOK'
  BY <1>11, NoJobIsJob DEF UpdatesDone
<1>12. ASSUME NEW e \in Editors, NEW x \in Edits, SetVoxel(e, x[1], x[2])
       PROVE  LightTypeOK'
  <2>1. x[1] \in Voxels /\ x[2] \in Kinds
    BY KindsAssumption
  <2>2. ChunkOf[x[1]] \in ChunkSet
    BY <2>1 DEF ChunkSet
  <2>3. PICK j \in Jobs : job' = [Disturbed(x[1]) EXCEPT ![e] = j]
    <3>1. [NoJob EXCEPT !.pc = "observe", !.at = {ChunkOf[x[1]]}] \in Jobs
      BY <2>2, NoJobVariants
    <3> QED
      BY <1>12, <3>1, NoJobIsJob DEF SetVoxel
  <2>4. Disturbed(x[1]) \in [Goroutines -> Jobs]
    BY <2>1, DisturbedType
  <2>5. job' \in [Goroutines -> Jobs]
    BY <2>3, <2>4
  <2>6. terrain' \in [Voxels -> Kinds] /\ cached' \subseteq ChunkSet /\ changes' \in Nat
    BY <1>12, <2>1, <2>2 DEF SetVoxel
  <2> QED
    BY <1>12, <2>5, <2>6 DEF SetVoxel
<1>13. CASE UNCHANGED lightVars
  BY <1>13 DEF lightVars
<1>14. QED
  BY <1>1, <1>2, <1>3, <1>4, <1>5, <1>6, <1>7, <1>8, <1>9, <1>10, <1>11, <1>12, <1>13 DEF LightNext

\* Every goroutine's flood, the cache and the terrain keep their types.
THEOREM LightTypeCorrect == LightSpec => []LightTypeOK
<1>1. LightInit => LightTypeOK
  <2> SUFFICES ASSUME LightInit PROVE LightTypeOK
    OBVIOUS
  <2>1. terrain \in [Voxels -> Kinds]
    BY KindsAssumption DEF LightInit
  <2>2. job \in [Goroutines -> Jobs]
    BY NoJobIsJob DEF LightInit
  <2> QED
    BY <2>1, <2>2 DEF LightInit, LightTypeOK
<1>2. QED
  BY <1>1, LightTypeStep, PTL DEF LightSpec

---------------------------------------------------------------------------
(* Floods.  Sound is what holds of one at every step: cells are no darker  *)
(* than what they emit, those that have been taken from the queue have lit *)
(* their neighbours, and a level that is not the cell's own has a brighter *)
(* neighbour to come from.  Only at the end is that one exactly brighter.  *)

Sound(j) ==
  /\ j.inside \subseteq In(j.around) /\ j.queue \subseteq j.inside
  /\ \A v \in j.inside : j.levels[v] >= Source(j.pc, v)
  /\ \A v \in j.inside \ j.queue : \A u \in Adjoining[v] \cap j.inside :
       Admits(j.pc, terrain[u]) => j.levels[u] >= j.levels[v] - 1
  /\ \A v \in j.inside :
       \/ j.levels[v] = Source(j.pc, v)
       \/ Admits(j.pc, terrain[v]) /\ \E u \in Adjoining[v] \cap j.inside : j.levels[u] >= j.levels[v] + 1

FloodsSound == \A g \in Goroutines : job[g].pc \in {"sky", "block"} /\ job[g].still => Sound(job[g])

LEMMA Typed ==
  ASSUME NEW j \in Jobs, NEW v \in Voxels, terrain \in [Voxels -> Kinds]
  PROVE  /\ j.levels[v] \in Nat /\ j.levels[v] \in Int /\ Source(j.pc, v) \in Int
         /\ Adjoining[v] \subseteq Voxels /\ \A u \in Adjoining[v] : v \in Adjoining[u]
<1>1. j.levels[v] \in Level
  BY DEF Jobs
<1>2. j.levels[v] \in Nat
  BY <1>1, LevelsAssumption DEF Level
<1>3. terrain[v].light \in 0 .. Full
  BY KindsAssumption
<1>4. Source(j.pc, v) \in Int
  BY <1>3, LevelsAssumption DEF Source
<1>5. QED
  BY <1>2, <1>4, ShapeAssumption

LEMMA SkyBeginsSound ==
  ASSUME NEW j \in Jobs, terrain \in [Voxels -> Kinds], j.at \subseteq j.around
  PROVE  Sound(SkySeeded(j))
<1> DEFINE inside == In(j.at)
           fringe == Fringe(inside)
           k == SkySeeded(j)
           L(v) == IF v \in fringe THEN Full - 1 ELSE IF v \in inside THEN Source("sky", v) ELSE 0
<1>1. /\ k.pc = "sky" /\ k.inside = inside /\ k.queue = fringe /\ k.around = j.around
      /\ \A v \in Voxels : k.levels[v] = L(v)
  BY DEF SkySeeded, Jobs
<1>2. inside \subseteq Voxels /\ fringe \subseteq inside /\ inside \subseteq In(j.around)
  BY DEF In, Fringe
<1>3. \A v \in inside : Source("sky", v) = (IF OpenToSky(v) THEN Full ELSE 0)
  BY DEF Source
<1>4. \A v \in fringe : ~OpenToSky(v) /\ terrain[v].clear
                         /\ \E u \in Adjoining[v] \cap inside : OpenToSky(u)
  BY DEF Fringe
<1>5. Full \in Nat /\ Full >= 1
  BY LevelsAssumption
<1>6. \A v \in inside : L(v) >= Source("sky", v)
  BY <1>2, <1>3, <1>4, <1>5
<1>7. ASSUME NEW v \in inside \ fringe, NEW u \in Adjoining[v] \cap inside, terrain[u].clear
      PROVE  L(u) >= L(v) - 1
  <2>1. CASE ~OpenToSky(v)
    <3>1. L(v) = 0
      BY <1>3, <2>1
    <3>2. L(u) \in Nat
      BY <1>2, <1>3, <1>5
    <3> QED
      BY <3>1, <3>2
  <2>2. CASE OpenToSky(v) /\ OpenToSky(u)
    BY <1>3, <1>4, <1>5, <2>2
  <2>3. CASE OpenToSky(v) /\ ~OpenToSky(u)
    <3>1. v \in Adjoining[u]
      BY <1>2, ShapeAssumption
    <3>2. u \in fringe
      BY <1>7, <2>3, <3>1 DEF Fringe
    <3> QED
      BY <1>3, <1>5, <2>3, <3>2
  <2> QED
    BY <2>1, <2>2, <2>3
<1>8. ASSUME NEW v \in fringe
      PROVE  \E u \in Adjoining[v] \cap inside : L(u) >= L(v) + 1
  <2>1. PICK u \in Adjoining[v] \cap inside : OpenToSky(u)
    BY <1>4
  <2>2. L(u) = Full /\ L(v) = Full - 1
    BY <1>3, <1>4, <2>1
  <2> QED
    BY <1>5, <2>2
<1> HIDE DEF inside, fringe, k
<1>9. \A v \in inside : v \notin fringe => L(v) = Source("sky", v)
  OBVIOUS
<1>10. \A b : Admits("sky", b) = b.clear
  BY DEF Admits
<1> HIDE DEF L
<1>11. \A v \in inside :
         \/ L(v) = Source("sky", v)
         \/ Admits("sky", terrain[v]) /\ \E u \in Adjoining[v] \cap inside : L(u) >= L(v) + 1
  <2> SUFFICES ASSUME NEW v \in inside
               PROVE  \/ L(v) = Source("sky", v)
                      \/ Admits("sky", terrain[v]) /\ \E u \in Adjoining[v] \cap inside : L(u) >= L(v) + 1
    OBVIOUS
  <2>1. CASE v \in fringe
    <3>1. Admits("sky", terrain[v])
      BY <1>4, <1>10, <2>1
    <3> QED
      BY <1>8, <2>1, <3>1
  <2>2. CASE v \notin fringe
    BY <1>9, <2>2
  <2> QED
    BY <2>1, <2>2
<1>12. \A v \in inside : k.levels[v] = L(v) /\ \A u \in Adjoining[v] \cap inside : k.levels[u] = L(u)
  BY <1>1, <1>2
<1>13. QED
  BY <1>1, <1>2, <1>6, <1>7, <1>10, <1>11, <1>12 DEF Sound, k

LEMMA BlockBeginsSound ==
  ASSUME NEW j \in Jobs, terrain \in [Voxels -> Kinds]
  PROVE  Sound(BlockSeeded(j))
<1> DEFINE inside == In(j.around)
           k == BlockSeeded(j)
<1>1. /\ k.pc = "block" /\ k.inside = inside /\ k.around = j.around
      /\ k.queue = {v \in inside : terrain[v].light # 0}
      /\ \A v \in Voxels : k.levels[v] = IF v \in inside THEN terrain[v].light ELSE 0
  BY DEF BlockSeeded, Jobs
<1>2. inside \subseteq Voxels
  BY DEF In
<1>3. \A v \in inside : terrain[v].light \in Nat /\ Source("block", v) = terrain[v].light
  BY <1>2, KindsAssumption, LevelsAssumption DEF Source
<1>4. \A v \in inside : k.levels[v] = terrain[v].light
  BY <1>1, <1>2
<1> HIDE DEF inside, k
<1>5. ASSUME NEW v \in k.inside \ k.queue, NEW u \in Adjoining[v] \cap k.inside
      PROVE  k.levels[u] >= k.levels[v] - 1
  <2>1. k.levels[v] = 0
    BY <1>1, <1>4
  <2>2. k.levels[u] \in Nat
    BY <1>1, <1>3, <1>4
  <2> QED
    BY <2>1, <2>2
<1>6. QED
  BY <1>1, <1>3, <1>4, <1>5 DEF Sound, k, inside

LEMMA FloodStepSound ==
  ASSUME NEW j \in Jobs, NEW v \in j.queue, terrain \in [Voxels -> Kinds], Sound(j)
  PROVE  Sound(Flooded(j, v))
<1> DEFINE lit == Brightened(j, v)
           k == Flooded(j, v)
<1>1. /\ k.pc = j.pc /\ k.inside = j.inside /\ k.around = j.around
      /\ k.queue = (j.queue \ {v}) \cup lit
      /\ \A u \in Voxels : k.levels[u] = IF u \in lit THEN j.levels[v] - 1 ELSE j.levels[u]
  BY DEF Flooded, Jobs
<1>2. j.inside \subseteq Voxels /\ j.queue \subseteq j.inside /\ v \in j.inside
  BY DEF Sound, Jobs
<1>3. \A u \in Voxels : j.levels[u] \in Int /\ Source(j.pc, u) \in Int /\ Adjoining[u] \subseteq Voxels
                        /\ \A w \in Adjoining[u] : u \in Adjoining[w]
  BY Typed
<1>4. /\ lit \subseteq j.inside /\ v \notin lit
      /\ \A u \in lit : /\ u \in Adjoining[v] /\ v \in Adjoining[u] /\ Admits(j.pc, terrain[u])
                        /\ j.levels[u] < j.levels[v] - 1
  BY <1>2, <1>3 DEF Brightened
<1>5. \A u \in Adjoining[v] \cap j.inside :
        u \notin lit => ~Admits(j.pc, terrain[u]) \/ ~(j.levels[u] < j.levels[v] - 1)
  BY DEF Brightened
<1> HIDE DEF lit, k
<1>6. k.levels[v] = j.levels[v] /\ \A u \in lit : k.levels[u] = j.levels[v] - 1
  BY <1>1, <1>2, <1>4
<1>7. \A u \in j.inside : k.levels[u] \in Int /\ k.levels[u] >= j.levels[u]
  <2> SUFFICES ASSUME NEW u \in j.inside PROVE k.levels[u] \in Int /\ k.levels[u] >= j.levels[u]
    OBVIOUS
  <2>1. u \in Voxels /\ j.levels[u] \in Int /\ j.levels[v] \in Int
    BY <1>2, <1>3
  <2>2. CASE u \in lit
    <3>1. k.levels[u] = j.levels[v] - 1 /\ j.levels[u] < j.levels[v] - 1
      BY <1>4, <1>6, <2>2
    <3> QED
      BY <2>1, <3>1
  <2>3. CASE u \notin lit
    <3>1. k.levels[u] = j.levels[u]
      BY <1>1, <2>1, <2>3
    <3> QED
      BY <2>1, <3>1
  <2> QED
    BY <2>2, <2>3
<1>8. k.inside \subseteq In(k.around) /\ k.queue \subseteq k.inside
  BY <1>1, <1>2, <1>4 DEF Sound
<1>9. \A u \in k.inside : k.levels[u] >= Source(k.pc, u)
  <2> SUFFICES ASSUME NEW u \in j.inside PROVE k.levels[u] >= Source(j.pc, u)
    BY <1>1
  <2>1. j.levels[u] >= Source(j.pc, u)
    BY DEF Sound
  <2> QED
    BY <1>2, <1>3, <1>7, <2>1
<1>10. ASSUME NEW w \in k.inside \ k.queue, NEW u \in Adjoining[w] \cap k.inside, Admits(k.pc, terrain[u])
       PROVE  k.levels[u] >= k.levels[w] - 1
  <2>1. w \in Voxels /\ u \in Voxels /\ w \notin lit /\ k.levels[w] = j.levels[w] /\ k.levels[u] >= j.levels[u]
    BY <1>1, <1>2, <1>7
  <2>2. CASE w = v
    <3>1. CASE u \in lit
      BY <1>3, <1>6, <2>1, <2>2, <3>1
    <3>2. CASE u \notin lit
      <4>1. ~(j.levels[u] < j.levels[v] - 1)
        BY <1>1, <1>5, <1>10, <2>2, <3>2
      <4> QED
        BY <1>1, <1>3, <1>7, <2>1, <2>2, <4>1
    <3> QED
      BY <3>1, <3>2
  <2>3. CASE w # v
    <3>1. w \in j.inside \ j.queue
      BY <1>1, <2>3
    <3>2. j.levels[u] >= j.levels[w] - 1
      BY <1>1, <1>10, <3>1 DEF Sound
    <3> QED
      BY <1>1, <1>3, <1>7, <2>1, <3>2
  <2> QED
    BY <2>2, <2>3
<1>11. ASSUME NEW w \in k.inside
       PROVE  \/ k.levels[w] = Source(k.pc, w)
              \/ Admits(k.pc, terrain[w]) /\ \E u \in Adjoining[w] \cap k.inside : k.levels[u] >= k.levels[w] + 1
  <2>1. CASE w \in lit
    <3>1. v \in Adjoining[w] \cap k.inside /\ Admits(k.pc, terrain[w])
      BY <1>1, <1>2, <1>4, <2>1
    <3>2. k.levels[v] >= k.levels[w] + 1
      BY <1>2, <1>3, <1>6, <2>1
    <3> QED
      BY <3>1, <3>2
  <2>2. CASE w \notin lit
    <3>1. w \in Voxels /\ k.levels[w] = j.levels[w]
      BY <1>1, <1>2, <2>2
    <3>2. CASE j.levels[w] = Source(j.pc, w)
      BY <1>1, <3>1, <3>2
    <3>3. CASE j.levels[w] # Source(j.pc, w)
      <4>1. Admits(j.pc, terrain[w])
        BY <1>1, <3>3 DEF Sound
      <4>2. PICK u \in Adjoining[w] \cap j.inside : j.levels[u] >= j.levels[w] + 1
        BY <1>1, <3>3 DEF Sound
      <4>3. k.levels[u] >= k.levels[w] + 1
        BY <1>2, <1>3, <1>7, <3>1, <4>2
      <4> QED
        BY <1>1, <4>1, <4>2, <4>3
    <3> QED
      BY <3>2, <3>3
  <2> QED
    BY <2>1, <2>2
<1>12. QED
  BY <1>8, <1>9, <1>10, <1>11 DEF Sound, k

\* An edit outside the chunks that a flood reads leaves it as it is.
LEMMA EditElsewhere ==
  ASSUME NEW j \in Jobs, NEW x \in Voxels, NEW b, Sound(j), terrain \in [Voxels -> Kinds],
         ChunkOf[x] \notin j.around, terrain' = [terrain EXCEPT ![x] = b]
  PROVE  Sound(j)'
<1>1. j.inside \subseteq Voxels /\ \A v \in j.inside : ChunkOf[v] \in j.around
  BY DEF Sound, In
<1>2. \A v \in j.inside : terrain'[v] = terrain[v]
  BY <1>1
<1>3. \A v \in j.inside : OpenToSky(v)' = OpenToSky(v)
  <2> SUFFICES ASSUME NEW v \in j.inside PROVE OpenToSky(v)' = OpenToSky(v)
    OBVIOUS
  <2>1. \A u \in AtOrAbove[v] : u \in Voxels /\ u # x
    BY <1>1, ShapeAssumption
  <2>2. \A u \in AtOrAbove[v] : terrain'[u] = terrain[u]
    BY <2>1
  <2> QED
    BY <2>2 DEF OpenToSky
<1>4. \A v \in j.inside : Source(j.pc, v)' = Source(j.pc, v)
  BY <1>2, <1>3 DEF Source
<1>5. \A v \in j.inside : Admits(j.pc, terrain[v])' = Admits(j.pc, terrain[v])
  BY <1>2 DEF Admits, Passes
<1>6. QED
  BY <1>1, <1>4, <1>5 DEF Sound

LEMMA StillBlocks ==
  ASSUME NEW j, Sound(j), UNCHANGED terrain
  PROVE  Sound(j)'
BY DEF Sound, Source, OpenToSky, Admits, Passes, Fringe

Working(j) == j.pc \in {"sky", "block"} /\ j.still

\* What the next state has for a goroutine, said of the value it has.
LEMMA NextSound ==
  ASSUME NEW g \in Goroutines, NEW k, job'[g] = k, Working(k) => Sound(k)'
  PROVE  (job[g].pc \in {"sky", "block"} /\ job[g].still => Sound(job[g]))'
BY DEF Working, Sound, Source, OpenToSky, Admits, Passes

\* A goroutine that does nothing has its job, or another edit has disturbed it.
LEMMA OneJobChanges ==
  ASSUME LightTypeOK, FloodsSound, UNCHANGED terrain, NEW g \in Goroutines, NEW k,
         job' = [job EXCEPT ![g] = k], Working(k) => Sound(k)
  PROVE  FloodsSound'
<1> SUFFICES ASSUME NEW h \in Goroutines
             PROVE  (job[h].pc \in {"sky", "block"} /\ job[h].still => Sound(job[h]))'
  BY DEF FloodsSound
<1>1. CASE h = g
  <2>1. job'[h] = k
    BY <1>1 DEF LightTypeOK
  <2>2. Working(k) => Sound(k)'
    BY StillBlocks
  <2> QED
    BY <2>1, <2>2, NextSound
<1>2. CASE h # g
  <2>1. PICK j : j = job[h]
    OBVIOUS
  <2>2. job'[h] = j
    BY <1>2, <2>1 DEF LightTypeOK
  <2>3. Working(j) => Sound(j)
    BY <2>1 DEF FloodsSound, Working
  <2>4. Working(j) => Sound(j)'
    BY <2>3, StillBlocks
  <2> QED
    BY <2>2, <2>4, NextSound
<1>3. QED
  BY <1>1, <1>2

LEMMA FloodsSoundStep == LightTypeOK /\ FloodsSound /\ [LightNext]_lightVars => FloodsSound'
<1> SUFFICES ASSUME LightTypeOK, FloodsSound, [LightNext]_lightVars
             PROVE  FloodsSound'
  OBVIOUS
<1>t. terrain \in [Voxels -> Kinds] /\ \A g \in Goroutines : job[g] \in Jobs
  BY DEF LightTypeOK
<1>g. Watcher \in Goroutines /\ \A e \in Editors : e \in Goroutines
  BY DEF Goroutines
<1>r. ~Working(NoJob)
  BY DEF Working, NoJob
<1>1. CASE UNCHANGED <<terrain, job>>
  <2> SUFFICES ASSUME NEW h \in Goroutines
               PROVE  (job[h].pc \in {"sky", "block"} /\ job[h].still => Sound(job[h]))'
    BY DEF FloodsSound
  <2>1. PICK j : j = job[h]
    OBVIOUS
  <2>2. job'[h] = j /\ (Working(j) => Sound(j))
    BY <1>1, <2>1 DEF FloodsSound, Working
  <2>3. Working(j) => Sound(j)'
    BY <1>1, <2>2, StillBlocks
  <2> QED
    BY <2>2, <2>3, NextSound
<1>2. CASE SkyDone
  <2>1. Sound(BlockSeeded(job[Watcher]))
    BY <1>t, <1>g, BlockBeginsSound
  <2> QED
    BY <1>2, <1>g, <2>1, OneJobChanges DEF SkyDone
<1>3. CASE ChunkSent
  BY <1>3, <1>g, <1>r, OneJobChanges DEF ChunkSent
<1>4. ASSUME NEW c \in ChunkSet, SendChunk(c)
      PROVE  FloodsSound'
  <2>1. PICK chunks : chunks = Surroundings(c) \cap cached'
    OBVIOUS
  <2> DEFINE j == [NoJob EXCEPT !.at = {c}, !.around = chunks, !.still = TRUE]
  <2>2. c \in chunks /\ chunks \in SUBSET ChunkSet
    BY <1>4, <2>1, NearbyTypes DEF SendChunk
  <2>3. j \in Jobs /\ j.at \subseteq j.around
    BY <2>2, NoJobVariants DEF NoJob
  <2>4. Sound(SkySeeded(j))
    BY <1>t, <2>3, SkyBeginsSound
  <2>5. job' = [job EXCEPT ![Watcher] = SkySeeded(j)] /\ UNCHANGED terrain
    BY <1>4, <2>1 DEF SendChunk
  <2> HIDE DEF j
  <2> QED
    BY <1>g, <2>4, <2>5, OneJobChanges
<1>5. ASSUME NEW g \in Goroutines, Flood(g)
      PROVE  FloodsSound'
  <2>1. PICK v \in job[g].queue : job' = [job EXCEPT ![g] = Flooded(job[g], v)]
    BY <1>5 DEF Flood
  <2>2. Flooded(job[g], v).pc = job[g].pc /\ Flooded(job[g], v).still = job[g].still
    BY <1>t DEF Flooded, Jobs
  <2>3. Working(Flooded(job[g], v)) => Sound(job[g])
    BY <2>2 DEF Working, FloodsSound
  <2>4. Working(Flooded(job[g], v)) => Sound(Flooded(job[g], v))
    BY <1>t, <2>3, FloodStepSound
  <2> QED
    BY <1>5, <2>1, <2>4, OneJobChanges DEF Flood
<1>6. ASSUME NEW e \in Editors, Observe(e)
      PROVE  FloodsSound'
  <2>1. PICK c \in job[e].at :
          job' = [job EXCEPT ![e] = IF online THEN [NoJob EXCEPT !.pc = "update", !.rest = Updated(c)] ELSE NoJob]
    BY <1>6 DEF Observe
  <2>2. ~Working([NoJob EXCEPT !.pc = "update", !.rest = Updated(c)])
    BY DEF Working, NoJob
  <2> QED
    BY <1>6, <1>g, <1>r, <2>1, <2>2, OneJobChanges DEF Observe
<1>7. ASSUME NEW e \in Editors, BeginUpdate(e)
      PROVE  FloodsSound'
  <2> DEFINE c == Head(job[e].rest)
             j == [job[e] EXCEPT !.at = {c}, !.around = Surroundings(c) \cap cached, !.still = TRUE,
                                 !.rest = Tail(@)]
  <2>1. job[e] \in Jobs /\ job[e].rest \in Seq(ChunkSet) /\ job[e].rest # <<>>
    BY <1>7, <1>t, <1>g DEF BeginUpdate, Jobs
  <2>2. c \in ChunkSet /\ Tail(job[e].rest) \in Seq(ChunkSet)
    BY <2>1
  <2>3. Surroundings(c) \cap cached \in SUBSET ChunkSet
    BY DEF LightTypeOK
  <2>4. j \in Jobs
    BY <2>1, <2>2, <2>3, UpdateRecords
  <2>5. Sound(BlockSeeded(j))
    BY <1>t, <2>4, BlockBeginsSound
  <2>6. job' = [job EXCEPT ![e] = BlockSeeded(j)] /\ UNCHANGED terrain
    BY <1>7, <2>1 DEF BeginUpdate
  <2> HIDE DEF c, j
  <2> QED
    BY <1>g, <2>5, <2>6, OneJobChanges
<1>8. ASSUME NEW e \in Editors, PassChunk(e)
      PROVE  FloodsSound'
  <2>1. job' = [job EXCEPT ![e] = [job[e] EXCEPT !.rest = Tail(job[e].rest)]] /\ UNCHANGED terrain
    BY <1>8 DEF PassChunk
  <2>2. ~Working([job[e] EXCEPT !.rest = Tail(job[e].rest)])
    BY <1>8, <1>t, <1>g DEF Working, PassChunk, Jobs
  <2> QED
    BY <1>g, <2>1, <2>2, OneJobChanges
<1>9. ASSUME NEW e \in Editors, UpdateSent(e)
      PROVE  FloodsSound'
  <2>1. ~Working([NoJob EXCEPT !.pc = "update", !.rest = job[e].rest])
    BY DEF Working, NoJob
  <2> QED
    BY <1>9, <1>g, <2>1, OneJobChanges DEF UpdateSent
<1>10. ASSUME NEW e \in Editors, UpdatesDone(e)
       PROVE  FloodsSound'
  BY <1>10, <1>g, <1>r, OneJobChanges DEF UpdatesDone
<1>11. ASSUME NEW e \in Editors, NEW x \in Edits, SetVoxel(e, x[1], x[2])
       PROVE  FloodsSound'
  <2>1. x[1] \in Voxels
    BY KindsAssumption
  <2>2. PICK k : ~Working(k) /\ job' = [Disturbed(x[1]) EXCEPT ![e] = k]
    <3>1. ~Working([NoJob EXCEPT !.pc = "observe", !.at = {ChunkOf[x[1]]}])
      BY DEF Working, NoJob
    <3> QED
      BY <1>11, <1>r, <3>1 DEF SetVoxel
  <2> SUFFICES ASSUME NEW h \in Goroutines
               PROVE  (job[h].pc \in {"sky", "block"} /\ job[h].still => Sound(job[h]))'
    BY DEF FloodsSound
  <2>3. CASE h = e
    <3>1. job'[h] = k
      BY <2>2, <2>3 DEF Disturbed
    <3> QED
      BY <2>2, <3>1, NextSound
  <2>4. CASE h # e
    <3>1. PICK j : j = job[h]
      OBVIOUS
    <3>2. PICK l : l = [j EXCEPT !.still = @ /\ ChunkOf[x[1]] \notin j.around]
      OBVIOUS
    <3>3. job'[h] = l
      BY <2>2, <2>4, <3>1, <3>2 DEF Disturbed
    <3>4. j \in Jobs
      BY <1>t, <3>1
    <3>5. /\ l.pc = j.pc /\ l.around = j.around /\ l.inside = j.inside /\ l.levels = j.levels
          /\ l.queue = j.queue /\ l.still = (j.still /\ ChunkOf[x[1]] \notin j.around)
      BY <3>2, <3>4 DEF Jobs
    <3>6. l \in Jobs
      BY <2>1, <3>1, <3>2, <3>4, DisturbedType, <2>2, <2>4 DEF Disturbed
    <3>7. ASSUME Working(l)
          PROVE  Sound(l)'
      <4>1. ChunkOf[x[1]] \notin l.around /\ Working(j)
        BY <3>5, <3>7 DEF Working
      <4>2. Sound(j)
        BY <3>1, <4>1 DEF FloodsSound, Working
      <4>3. Sound(l)
        BY <3>5, <4>2 DEF Sound
      <4>4. terrain' = [terrain EXCEPT ![x[1]] = x[2]]
        BY <1>11 DEF SetVoxel
      <4> QED
        BY <1>t, <2>1, <3>6, <4>1, <4>3, <4>4, EditElsewhere
    <3> QED
      BY <3>3, <3>7, NextSound
  <2> QED
    BY <2>3, <2>4
<1>12. QED
  <2>1. Join \/ (\E c \in ChunkSet : Forget(c) \/ CacheMoves(c)) => UNCHANGED <<terrain, job>>
    BY DEF Join, Forget, CacheMoves
  <2>2. UNCHANGED lightVars => UNCHANGED <<terrain, job>>
    BY DEF lightVars
  <2> QED
    BY <1>1, <1>2, <1>3, <1>4, <1>5, <1>6, <1>7, <1>8, <1>9, <1>10, <1>11, <2>1, <2>2 DEF LightNext

\* No flood is ever wrong about the blocks it reads, if they have stayed as they were.
THEOREM FloodsStaySound == LightSpec => []FloodsSound
<1>1. LightInit => FloodsSound
  BY DEF LightInit, FloodsSound, NoJob
<1>2. QED
  BY <1>1, FloodsSoundStep, LightTypeCorrect, PTL DEF LightSpec

LEMMA DoneIsSettled ==
  ASSUME NEW j \in Jobs, terrain \in [Voxels -> Kinds], Sound(j), j.queue = {}
  PROVE  Settled(j)
<1>1. j.inside \subseteq Voxels
  BY DEF Jobs
<1>2. \A v \in Voxels : /\ j.levels[v] \in Int /\ Source(j.pc, v) \in Int
                        /\ \A u \in Adjoining[v] : u \in Voxels /\ v \in Adjoining[u]
  BY Typed
<1>3. \A v \in j.inside : \A u \in Adjoining[v] \cap j.inside :
        Admits(j.pc, terrain[u]) => j.levels[u] >= j.levels[v] - 1
  BY DEF Sound
<1>4. ASSUME NEW v \in j.inside, j.levels[v] # Source(j.pc, v)
      PROVE  Admits(j.pc, terrain[v]) /\ \E u \in Adjoining[v] \cap j.inside : j.levels[u] = j.levels[v] + 1
  <2>1. Admits(j.pc, terrain[v])
    BY <1>4 DEF Sound
  <2>2. PICK u \in Adjoining[v] \cap j.inside : j.levels[u] >= j.levels[v] + 1
    BY <1>4 DEF Sound
  <2>3. v \in Adjoining[u] \cap j.inside
    BY <1>1, <1>2
  <2>4. j.levels[v] >= j.levels[u] - 1
    BY <1>3, <2>1, <2>3
  <2>5. j.levels[u] = j.levels[v] + 1
    BY <1>1, <1>2, <2>2, <2>4
  <2> QED
    BY <2>1, <2>5
<1>5. \A v \in j.inside : j.levels[v] >= Source(j.pc, v)
  BY DEF Sound
<1>6. QED
  BY <1>3, <1>4, <1>5 DEF Settled

\* Over any terrain, and in whatever order cells leave the queue, a flood that stops has
\* lit every cell exactly.
THEOREM LightSettlesAlways == LightSpec => []LightSettles
<1>1. LightTypeOK /\ FloodsSound => LightSettles
  BY DoneIsSettled DEF LightTypeOK, FloodsSound, LightSettles
<1>2. QED
  BY <1>1, FloodsStaySound, LightTypeCorrect, PTL
---------------------------------------------------------------------------
(* The true light.  AtLeast is recursive from the brightest level down, so *)
(* what it satisfies is found by an induction on how many levels it has.   *)
(* What a chunk's cells receive comes from the chunks around it.           *)

LEMMA LeastNat ==
  ASSUME NEW T \in SUBSET Nat, T # {}
  PROVE  \E m \in T : \A n \in T : m <= n
<1> DEFINE R == {r \in Nat \X Nat : r[1] < r[2]}
<1>1. IsWellFoundedOn(R, Nat)
  BY NatLessThanWellFounded DEF OpToRel
<1>2. PICK m \in T : \A n \in T : <<n, m>> \notin R
  BY <1>1, WFMin
<1>3. ASSUME NEW n \in T PROVE m <= n
  <2>1. <<n, m>> \notin R
    BY <1>2
  <2>2. n \in Nat /\ m \in Nat
    OBVIOUS
  <2> QED
    BY <2>1, <2>2
<1> QED
  BY <1>3

\* A set of numbers that has 0 and with every number the next has them all.
LEMMA NatInduct ==
  ASSUME NEW P, 0 \in P, \A n \in Nat : n \in P => n + 1 \in P
  PROVE  Nat \subseteq P
<1> SUFFICES ASSUME NEW k \in Nat, k \notin P PROVE FALSE
  OBVIOUS
<1> DEFINE bad == {n \in Nat : n \notin P}
<1>1. bad \in SUBSET Nat /\ bad # {}
  OBVIOUS
<1>2. PICK n \in bad : \A m \in bad : n <= m
  BY <1>1, LeastNat
<1>3. n # 0 /\ n \in Nat
  BY <1>2
<1>4. n - 1 \in Nat /\ n - 1 \notin bad
  BY <1>2, <1>3
<1>5. n - 1 \in P /\ (n - 1) + 1 = n
  BY <1>3, <1>4
<1> QED
  BY <1>2, <1>4, <1>5

\* The cells at least as bright as l over the blocks T, when f has those of the next level.
Layer(f, T, l) ==
  IF l > Full THEN {}
  ELSE {v \in Voxels : \/ T[v].light >= l
                       \/ Passes(T[v]) /\ Adjoining[v] \cap f[l + 1] # {}}

LEMMA LayersExist ==
  ASSUME NEW T
  PROVE  \E f : f = [l \in 1 .. Full + 1 |-> Layer(f, T, l)]
<1> DEFINE good(n) == \E f : f = [l \in Full + 1 - n .. Full + 1 |-> Layer(f, T, l)]
           P == {n \in Nat : good(n)}
<1>0. Full \in Nat
  BY LevelsAssumption
<1>1. good(0)
  <2> DEFINE f == [l \in Full + 1 - 0 .. Full + 1 |-> {}]
  <2>1. \A l \in Full + 1 - 0 .. Full + 1 : Layer(f, T, l) = {}
    BY <1>0 DEF Layer
  <2>2. f = [l \in Full + 1 - 0 .. Full + 1 |-> Layer(f, T, l)]
    BY <2>1
  <2> QED
    BY <2>2
<1>2. ASSUME NEW n \in Nat, good(n) PROVE good(n + 1)
  <2> DEFINE lo == Full + 1 - n
             D == lo .. Full + 1
             E == Full + 1 - (n + 1) .. Full + 1
  <2>1. PICK f : f = [l \in D |-> Layer(f, T, l)]
    BY <1>2
  <2> DEFINE h == [l \in E |-> IF l \in D THEN f[l] ELSE Layer(f, T, l)]
  <2>2. lo \in Int /\ \A l \in E : (l \in D \/ l = lo - 1) /\ (l <= Full => l + 1 \in D) /\ l \in Int
    BY <1>0
  <2>3. \A l \in D : l \in E
    BY <1>0
  <2> HIDE DEF lo, D, E
  <2>4. \A l \in D : h[l] = f[l]
    BY <2>3
  <2>5. \A l \in E : h[l] = Layer(f, T, l)
    BY <2>1
  <2> HIDE DEF h
  <2>6. ASSUME NEW l \in E PROVE h[l] = Layer(h, T, l)
    <3>1. l <= Full => h[l + 1] = f[l + 1]
      BY <2>2, <2>4
    <3>2. l > Full \/ l <= Full
      BY <1>0, <2>2
    <3>3. Layer(h, T, l) = Layer(f, T, l)
      BY <3>1, <3>2 DEF Layer
    <3> QED
      BY <2>5, <3>3
  <2>7. h = [l \in E |-> h[l]]
    BY DEF h
  <2>8. h = [l \in E |-> Layer(h, T, l)]
    BY <2>6, <2>7
  <2> QED
    BY <2>8 DEF E
<1> HIDE DEF good
<1>3. 0 \in P /\ \A n \in Nat : n \in P => n + 1 \in P
  BY <1>1, <1>2
<1> HIDE DEF P
<1>4. Nat \subseteq P
  BY <1>3, NatInduct
<1>5. good(Full)
  BY <1>0, <1>4 DEF P
<1>6. Full + 1 - Full = 1
  BY <1>0
<1> QED
  BY <1>5, <1>6 DEF good

\* f[l] are the cells at least as bright as l over the blocks T.
Layers(f, T) ==
  \A v \in Voxels :
    /\ v \notin f[Full + 1]
    /\ \A l \in 1 .. Full : v \in f[l] <=> \/ T[v].light >= l
                                           \/ Passes(T[v]) /\ \E u \in Adjoining[v] : u \in f[l + 1]

LEMMA LayersAre ==
  ASSUME NEW f, NEW T, f = [l \in 1 .. Full + 1 |-> Layer(f, T, l)]
  PROVE  Layers(f, T)
<1> SUFFICES ASSUME NEW v \in Voxels
             PROVE  /\ v \notin f[Full + 1]
                    /\ \A l \in 1 .. Full : v \in f[l] <=> \/ T[v].light >= l
                                                           \/ Passes(T[v]) /\ \E u \in Adjoining[v] : u \in f[l + 1]
  BY DEF Layers
<1>1. Full \in Nat
  BY LevelsAssumption
<1>2. f[Full + 1] = {}
  <2>1. Full + 1 \in 1 .. Full + 1 /\ Full + 1 > Full
    BY <1>1
  <2>2. f[Full + 1] = Layer(f, T, Full + 1)
    BY <2>1
  <2> QED
    BY <2>1, <2>2 DEF Layer
<1>3. ASSUME NEW l \in 1 .. Full
      PROVE  v \in f[l] <=> \/ T[v].light >= l
                            \/ Passes(T[v]) /\ \E u \in Adjoining[v] : u \in f[l + 1]
  <2>1. l \in 1 .. Full + 1 /\ ~(l > Full)
    BY <1>1
  <2>2. f[l] = Layer(f, T, l)
    BY <2>1
  <2>3. f[l] = {x \in Voxels : T[x].light >= l \/ (Passes(T[x]) /\ Adjoining[x] \cap f[l + 1] # {})}
    BY <2>1, <2>2 DEF Layer
  <2>4. (\E u \in Adjoining[v] : u \in f[l + 1]) <=> Adjoining[v] \cap f[l + 1] # {}
    OBVIOUS
  <2> QED
    BY <2>3, <2>4
<1> QED
  BY <1>2, <1>3

LEMMA TrueLayers == Layers(AtLeast, terrain)
<1>1. PICK f : f = [l \in 1 .. Full + 1 |-> Layer(f, terrain, l)]
  BY LayersExist
<1>2. AtLeast = CHOOSE x : x = [l \in 1 .. Full + 1 |-> Layer(x, terrain, l)]
  BY DEF AtLeast, Layer
<1>3. AtLeast = [l \in 1 .. Full + 1 |-> Layer(AtLeast, terrain, l)]
  BY <1>1, <1>2
<1> QED
  BY <1>3, LayersAre

LEMMA TrueLayersNext == Layers(AtLeast', terrain')
<1>1. PICK f : f = [l \in 1 .. Full + 1 |-> Layer(f, terrain', l)]
  BY LayersExist
<1>2. AtLeast' = CHOOSE x : x = [l \in 1 .. Full + 1 |-> Layer(x, terrain', l)]
  BY DEF AtLeast, Layer, Passes
<1>3. AtLeast' = [l \in 1 .. Full + 1 |-> Layer(AtLeast', terrain', l)]
  BY <1>1, <1>2
<1> QED
  BY <1>3, LayersAre

\* The cells that a walk of at most n cells reaches from chunk c.
Within(c, n) == {v \in Voxels : \E m \in 1 .. n : \E w \in Walks(m) : ChunkOf[w[1]] = c /\ w[m] = v}

LEMMA WalkStarts ==
  ASSUME NEW c, NEW v \in In({c}), NEW n \in Nat \ {0}
  PROVE  v \in Within(c, n)
<1> DEFINE w == [i \in 1 .. 1 |-> v]
<1>1. v \in Voxels /\ ChunkOf[v] = c
  BY DEF In
<1>2. w \in Walks(1) /\ w[1] = v
  BY <1>1 DEF Walks
<1>3. 1 \in 1 .. n
  OBVIOUS
<1> QED
  BY <1>1, <1>2, <1>3 DEF Within

LEMMA WalkGoesOn ==
  ASSUME NEW c, NEW n \in Nat \ {0}, NEW v \in Within(c, n), NEW u \in Adjoining[v]
  PROVE  u \in Within(c, n + 1)
<1>m. PICK m \in 1 .. n : \E w \in Walks(m) : ChunkOf[w[1]] = c /\ w[m] = v
  BY DEF Within
<1>1. PICK w \in Walks(m) : ChunkOf[w[1]] = c /\ w[m] = v
  BY <1>m
<1>2. v \in Voxels /\ u \in Voxels
  BY ShapeAssumption DEF Within
<1> DEFINE x == [i \in 1 .. m + 1 |-> IF i \in 1 .. m THEN w[i] ELSE u]
<1>3. /\ m \in Nat \ {0} /\ m + 1 \in 1 .. n + 1 /\ m + 1 \notin 1 .. m /\ 1 \in 1 .. m /\ m \in 1 .. m
      /\ \A i \in 1 .. m : i \in 1 .. m + 1
      /\ \A i \in 1 .. m + 1 : i \in 1 .. m \/ i = m + 1
      /\ \A i \in 2 .. m + 1 : i \in 1 .. m + 1 /\ i - 1 \in 1 .. m /\ (i \in 1 .. m => i \in 2 .. m)
      /\ (m + 1) - 1 = m
  OBVIOUS
<1>4. w \in [1 .. m -> Voxels] /\ \A i \in 2 .. m : w[i] \in Adjoining[w[i - 1]]
  BY DEF Walks
<1>5. (\A i \in 1 .. m : x[i] = w[i]) /\ x[m + 1] = u
  BY <1>3
<1>6. x \in [1 .. m + 1 -> Voxels]
  BY <1>2, <1>4
<1> HIDE DEF x
<1>7. \A i \in 2 .. m + 1 : x[i] \in Adjoining[x[i - 1]]
  <2> SUFFICES ASSUME NEW i \in 2 .. m + 1 PROVE x[i] \in Adjoining[x[i - 1]]
    OBVIOUS
  <2>1. CASE i \in 1 .. m
    BY <1>3, <1>4, <1>5, <2>1
  <2>2. CASE i \notin 1 .. m
    <3>1. i = m + 1 /\ i - 1 = m
      BY <1>3, <2>2
    <3> QED
      BY <1>1, <1>3, <1>5, <3>1
  <2> QED
    BY <2>1, <2>2
<1>8. x \in Walks(m + 1)
  BY <1>6, <1>7 DEF Walks
<1>9. ChunkOf[x[1]] = c /\ x[m + 1] = u
  BY <1>1, <1>3, <1>5
<1> QED
  BY <1>2, <1>3, <1>8, <1>9 DEF Within

LEMMA WalkStays ==
  ASSUME NEW c \in ChunkSet, NEW n \in 1 .. Full
  PROVE  Within(c, n) \subseteq In(Surroundings(c))
<1> SUFFICES ASSUME NEW v \in Within(c, n) PROVE v \in In(Surroundings(c))
  OBVIOUS
<1>m. PICK m \in 1 .. n : \E w \in Walks(m) : ChunkOf[w[1]] = c /\ w[m] = v
  BY DEF Within
<1>1. PICK w \in Walks(m) : ChunkOf[w[1]] = c /\ w[m] = v
  BY <1>m
<1>2. m \in 1 .. Full
  BY LevelsAssumption
<1>3. ChunkOf[w[m]] \in Surroundings(ChunkOf[w[1]])
  BY <1>2, ReachAssumption
<1> QED
  BY <1>1, <1>3 DEF In, Within

\* What holds of a level and a cell near c, if it holds of the next level and the cells
\* beside it, holds of every level and cell of c.
LEMMA Inward ==
  ASSUME NEW c, NEW S,
         \A k \in 1 .. Full : \A v \in Within(c, k) :
           (k < Full => \A u \in Adjoining[v] : <<k + 1, u>> \in S) => <<k, v>> \in S
  PROVE  \A k \in 1 .. Full : \A v \in In({c}) : <<k, v>> \in S
<1> DEFINE good(k) == \A v \in Within(c, k) : <<k, v>> \in S
           P == {n \in Nat : n < Full => good(Full - n)}
<1>0. Full \in Nat \ {0}
  BY LevelsAssumption
<1>1. 0 \in P
  <2>1. Full \in 1 .. Full /\ ~(Full < Full) /\ Full - 0 = Full
    BY <1>0
  <2>2. good(Full)
    BY <2>1
  <2> QED
    BY <2>1, <2>2
<1>2. ASSUME NEW n \in Nat, n \in P PROVE n + 1 \in P
  <2> SUFFICES ASSUME n + 1 < Full PROVE good(Full - (n + 1))
    OBVIOUS
  <2>1. PICK k \in 1 .. Full : k = Full - (n + 1) /\ k + 1 = Full - n /\ n < Full
    BY <1>0
  <2>2. good(k + 1)
    BY <1>2, <2>1
  <2>3. ASSUME NEW v \in Within(c, k), NEW u \in Adjoining[v] PROVE <<k + 1, u>> \in S
    <3>1. k \in Nat \ {0}
      OBVIOUS
    <3>2. u \in Within(c, k + 1)
      BY <3>1, WalkGoesOn
    <3> QED
      BY <2>2, <3>2
  <2>4. good(k)
    BY <2>3
  <2> QED
    BY <2>1, <2>4
<1> HIDE DEF good
<1>3. \A n \in Nat : n \in P => n + 1 \in P
  BY <1>2
<1> HIDE DEF P
<1>4. Nat \subseteq P
  BY <1>1, <1>3, NatInduct
<1>5. ASSUME NEW k \in 1 .. Full PROVE good(k)
  <2>1. Full - k \in Nat /\ Full - k < Full /\ Full - (Full - k) = k
    BY <1>0
  <2>2. Full - k \in P
    BY <1>4, <2>1
  <2> QED
    BY <2>1, <2>2 DEF P
<1>6. ASSUME NEW k \in 1 .. Full, NEW v \in In({c}) PROVE <<k, v>> \in S
  <2>1. v \in Within(c, k)
    <3>1. k \in Nat \ {0}
      OBVIOUS
    <3> QED
      BY <3>1, WalkStarts
  <2> QED
    BY <1>5, <2>1 DEF good
<1> QED
  BY <1>6

\* The light of a chunk comes from blocks of the chunks around it.
LEMMA LightIsLocal ==
  ASSUME NEW c \in ChunkSet, NEW f, NEW h, NEW T, NEW U, Layers(f, T), Layers(h, U),
         \A v \in In(Surroundings(c)) : T[v].light = U[v].light /\ Passes(T[v]) = Passes(U[v])
  PROVE  \A k \in 1 .. Full : \A v \in In({c}) : v \in f[k] <=> v \in h[k]
<1> DEFINE S == {s \in (1 .. Full) \X Voxels : s[2] \in f[s[1]] <=> s[2] \in h[s[1]]}
<1>0. Full \in Nat \ {0}
  BY LevelsAssumption
<1>1. ASSUME NEW k \in 1 .. Full, NEW v \in Voxels
      PROVE  <<k, v>> \in S <=> (v \in f[k] <=> v \in h[k])
  OBVIOUS
<1> HIDE DEF S
<1>2. ASSUME NEW k \in 1 .. Full, NEW v \in Within(c, k),
             k < Full => \A u \in Adjoining[v] : <<k + 1, u>> \in S
      PROVE  <<k, v>> \in S
  <2>1. v \in Voxels /\ T[v].light = U[v].light /\ Passes(T[v]) = Passes(U[v])
    BY WalkStays DEF In
  <2>2. \A u \in Adjoining[v] : u \in Voxels
    BY <2>1, ShapeAssumption
  <2>3. \A u \in Adjoining[v] : u \in f[k + 1] <=> u \in h[k + 1]
    <3>1. CASE k < Full
      <4>1. k + 1 \in 1 .. Full
        BY <1>0, <3>1
      <4> QED
        BY <1>1, <1>2, <2>2, <3>1, <4>1
    <3>2. CASE ~(k < Full)
      <4>1. k = Full
        BY <1>0, <3>2
      <4> QED
        BY <2>2, <4>1 DEF Layers
    <3> QED
      BY <3>1, <3>2
  <2>4. v \in f[k] <=> T[v].light >= k \/ (Passes(T[v]) /\ \E u \in Adjoining[v] : u \in f[k + 1])
    BY <2>1 DEF Layers
  <2>5. v \in h[k] <=> U[v].light >= k \/ (Passes(U[v]) /\ \E u \in Adjoining[v] : u \in h[k + 1])
    BY <2>1 DEF Layers
  <2>6. v \in f[k] <=> v \in h[k]
    BY <2>1, <2>3, <2>4, <2>5
  <2> QED
    BY <1>1, <2>1, <2>6
<1>3. \A k \in 1 .. Full : \A v \in In({c}) : <<k, v>> \in S
  BY <1>2, Inward
<1> QED
  BY <1>1, <1>3 DEF In

\* A flood of the chunks around c that has settled gives c its true light.
LEMMA SettledIsTrue ==
  ASSUME NEW c \in ChunkSet, NEW f, Layers(f, terrain), NEW j \in Jobs, terrain \in [Voxels -> Kinds],
         j.pc = "block", Settled(j), In(Surroundings(c)) \subseteq j.inside, j.inside \subseteq Voxels
  PROVE  \A k \in 1 .. Full : \A v \in In({c}) : v \in f[k] <=> k <= j.levels[v]
<1> DEFINE S == {s \in (1 .. Full) \X Voxels : s[2] \in f[s[1]] <=> s[1] <= j.levels[s[2]]}
<1>0. Full \in Nat \ {0}
  BY LevelsAssumption
<1>1. ASSUME NEW k \in 1 .. Full, NEW v \in Voxels
      PROVE  <<k, v>> \in S <=> (v \in f[k] <=> k <= j.levels[v])
  OBVIOUS
<1> HIDE DEF S
<1>t. \A v \in Voxels : /\ j.levels[v] \in Nat /\ j.levels[v] <= Full
                        /\ terrain[v].light \in Nat /\ terrain[v].light <= Full
                        /\ \A u \in Adjoining[v] : u \in Voxels /\ v \in Adjoining[u]
  <2>1. \A v \in Voxels : j.levels[v] \in 0 .. Full /\ terrain[v].light \in 0 .. Full
    BY KindsAssumption DEF Jobs, Level
  <2>2. \A x \in 0 .. Full : x \in Nat /\ x <= Full
    BY <1>0
  <2>3. \A v \in Voxels : \A u \in Adjoining[v] : u \in Voxels /\ v \in Adjoining[u]
    BY ShapeAssumption
  <2> QED
    BY <2>1, <2>2, <2>3
<1>2. ASSUME NEW k \in 1 .. Full, NEW v \in Within(c, k),
             k < Full => \A u \in Adjoining[v] : <<k + 1, u>> \in S
      PROVE  <<k, v>> \in S
  <2>1. v \in Voxels /\ v \in j.inside
    BY WalkStays DEF In
  <2>2. ASSUME NEW u \in Adjoining[v] PROVE u \in f[k + 1] <=> k + 1 <= j.levels[u]
    <3>1. CASE k < Full
      <4>1. k + 1 \in 1 .. Full
        BY <1>0, <3>1
      <4> QED
        BY <1>1, <1>2, <1>t, <2>1, <3>1, <4>1
    <3>2. CASE ~(k < Full)
      <4>1. k = Full
        BY <1>0, <3>2
      <4>2. u \notin f[k + 1]
        BY <1>t, <2>1, <4>1 DEF Layers
      <4>3. ~(k + 1 <= j.levels[u])
        BY <1>0, <1>t, <2>1, <4>1
      <4> QED
        BY <4>2, <4>3
    <3> QED
      BY <3>1, <3>2
  <2>3. ASSUME NEW u \in Adjoining[v], u \in f[k + 1] PROVE u \in j.inside
    <3>1. k < Full
      BY <1>0, <1>t, <2>1, <2>3 DEF Layers
    <3>2. k \in Nat \ {0} /\ k + 1 \in 1 .. Full
      BY <1>0, <3>1
    <3>3. u \in Within(c, k + 1)
      BY <3>2, WalkGoesOn
    <3> QED
      BY <3>2, <3>3, WalkStays
  <2>4. v \in f[k] <=> terrain[v].light >= k \/ (Passes(terrain[v]) /\ \E u \in Adjoining[v] : u \in f[k + 1])
    BY <2>1 DEF Layers
  <2>5. Source(j.pc, v) = terrain[v].light /\ \A b : Admits(j.pc, b) = Passes(b)
    BY DEF Source, Admits
  <2>6. ASSUME v \in f[k] PROVE k <= j.levels[v]
    <3>1. CASE terrain[v].light >= k
      <4>1. j.levels[v] >= terrain[v].light
        BY <2>1, <2>5 DEF Settled
      <4> QED
        BY <1>t, <2>1, <3>1, <4>1
    <3>2. CASE Passes(terrain[v]) /\ \E u \in Adjoining[v] : u \in f[k + 1]
      <4>1. PICK u \in Adjoining[v] : u \in f[k + 1]
        BY <3>2
      <4>2. u \in j.inside /\ v \in Adjoining[u] \cap j.inside /\ u \in Voxels
        BY <1>t, <2>1, <2>3, <4>1
      <4>3. j.levels[v] >= j.levels[u] - 1
        BY <2>5, <3>2, <4>2 DEF Settled
      <4>4. k + 1 <= j.levels[u]
        BY <2>2, <4>1
      <4>5. j.levels[u] \in Nat /\ j.levels[v] \in Nat
        BY <1>t, <2>1, <4>2
      <4> QED
        BY <4>3, <4>4, <4>5
    <3> QED
      BY <2>4, <2>6, <3>1, <3>2
  <2>7. ASSUME k <= j.levels[v] PROVE v \in f[k]
    <3>1. CASE j.levels[v] = terrain[v].light
      <4>1. terrain[v].light >= k
        BY <1>t, <2>1, <2>7, <3>1
      <4> QED
        BY <2>4, <4>1
    <3>2. CASE j.levels[v] # terrain[v].light
      <4>1. PICK u \in Adjoining[v] \cap j.inside : j.levels[u] = j.levels[v] + 1 /\ Passes(terrain[v])
        BY <2>1, <2>5, <3>2 DEF Settled
      <4>2. u \in Voxels /\ j.levels[u] \in Nat /\ j.levels[v] \in Nat
        BY <1>t, <2>1
      <4>3. k + 1 <= j.levels[u]
        BY <2>7, <4>1, <4>2
      <4> QED
        BY <2>2, <2>4, <4>1, <4>3
    <3> QED
      BY <3>1, <3>2
  <2> QED
    BY <1>1, <2>1, <2>6, <2>7
<1>3. \A k \in 1 .. Full : \A v \in In({c}) : <<k, v>> \in S
  BY <1>2, Inward
<1> QED
  BY <1>1, <1>3 DEF In

---------------------------------------------------------------------------
(* What the client is shown.  A chunk in its view has its true light, is   *)
(* doubtful, or an editor has still to renew it.                           *)

TrueBy(f, s, c) == \A v \in In({c}) : s[v] \in Level /\ \A k \in 1 .. Full : v \in f[k] <=> k <= s[v]

\* What an editor has left to do will send the light of chunk c, or make it doubtful.
Renews(j, c) ==
  \/ j.pc = "observe" /\ \A d \in j.at : c \in Surroundings(d)
  \/ j.pc \in {"update", "block"} /\ \E i \in DOMAIN j.rest : j.rest[i] = c
  \/ j.pc = "block" /\ c \in j.at

RightAbout(c) ==
  \/ c \in doubtful \/ shown[c] = NotSent \/ TrueBy(AtLeast, shown[c], c)
  \/ \E e \in Editors : Renews(job[e], c)

\* Before the player joins nothing is shown.
Unseen == ~online => job[Watcher].pc = "idle" /\ \A c \in ChunkSet : shown[c] = NotSent
Enclosed(j) == j.pc = "block" => j.inside = In(j.around)
Shown ==
  /\ shown = [c \in ChunkSet |-> shown[c]] /\ Unseen
  /\ \A g \in Goroutines : Enclosed(job[g])
  /\ \A c \in ChunkSet : RightAbout(c)

\* An edit elsewhere, or one that light takes no notice of, leaves the light of c.
LEMMA TrueStays ==
  ASSUME NEW c \in ChunkSet, NEW s, TrueBy(AtLeast, s, c),
         \A v \in In(Surroundings(c)) : /\ terrain'[v].light = terrain[v].light
                                        /\ Passes(terrain'[v]) = Passes(terrain[v])
  PROVE  TrueBy(AtLeast', s, c)
<1>1. PICK f, h, T, U : f = AtLeast /\ h = AtLeast' /\ T = terrain /\ U = terrain'
  OBVIOUS
<1>2. Layers(f, T) /\ Layers(h, U)
  BY <1>1, TrueLayers, TrueLayersNext
<1>3. \A v \in In(Surroundings(c)) : T[v].light = U[v].light /\ Passes(T[v]) = Passes(U[v])
  BY <1>1
<1>4. \A k \in 1 .. Full : \A v \in In({c}) : v \in f[k] <=> v \in h[k]
  BY <1>2, <1>3, LightIsLocal
<1>5. TrueBy(f, s, c)
  BY <1>1
<1>6. TrueBy(h, s, c)
  BY <1>4, <1>5 DEF TrueBy
<1> QED
  BY <1>1, <1>6

\* A step that builds nothing, and shows no chunk anew but c, which is renewed or was doubtful before.
LEMMA RightStays ==
  ASSUME NEW c \in ChunkSet, RightAbout(c), UNCHANGED terrain, c \in doubtful => c \in doubtful' \/ shown'[c] = NotSent,
         shown'[c] = shown[c] \/ shown'[c] = NotSent,
         \A e \in Editors : Renews(job[e], c) => Renews(job'[e], c) \/ c \in doubtful' \/ shown'[c] = NotSent
  PROVE  RightAbout(c)'
<1>1. CASE c \in doubtful' \/ shown'[c] = NotSent
  BY <1>1 DEF RightAbout, NotSent
<1>2. CASE ~(c \in doubtful' \/ shown'[c] = NotSent)
  <2>1. shown'[c] = shown[c] /\ (TrueBy(AtLeast, shown[c], c) \/ \E e \in Editors : Renews(job[e], c))
    BY <1>2 DEF RightAbout
  <2>2. CASE TrueBy(AtLeast, shown[c], c)
    <3>1. PICK s : s = shown[c] /\ s = shown'[c]
      BY <2>1
    <3>2. TrueBy(AtLeast', s, c)
      BY <2>2, <3>1, TrueStays
    <3>3. TrueBy(AtLeast, shown[c], c)'
      BY <3>1, <3>2 DEF TrueBy
    <3> QED
      BY <3>3 DEF RightAbout
  <2>3. CASE \E e \in Editors : Renews(job[e], c)
    <3>1. PICK e \in Editors : Renews(job'[e], c)
      BY <1>2, <2>3
    <3>2. Renews(job[e], c)'
      BY <3>1 DEF Renews, Surroundings
    <3> QED
      BY <3>2 DEF RightAbout
  <2> QED
    BY <2>1, <2>2, <2>3
<1> QED
  BY <1>1, <1>2

\* What a finished flood cuts out for a chunk it was sent for is its true light, unless that is doubtful.
LEMMA CutIsTrue ==
  ASSUME NEW j \in Jobs, terrain \in [Voxels -> Kinds], j.pc = "block", j.queue = {}, Enclosed(j),
         j.still => Sound(j), Exact(j), NEW c \in j.at, NEW f, Layers(f, terrain)
  PROVE  TrueBy(f, Cut(j, c), c)
<1>1. c \in ChunkSet
  BY DEF Jobs
<1>2. j.still /\ Surroundings(c) \subseteq j.around
  BY DEF Exact
<1>3. Settled(j)
  BY <1>2, DoneIsSettled
<1>4. In(Surroundings(c)) \subseteq j.inside /\ j.inside \subseteq Voxels
  BY <1>2 DEF Enclosed, In
<1>5. \A k \in 1 .. Full : \A v \in In({c}) : v \in f[k] <=> k <= j.levels[v]
  BY <1>1, <1>3, <1>4, SettledIsTrue
<1>6. \A v \in In({c}) : Cut(j, c)[v] = j.levels[v] /\ j.levels[v] \in Level
  BY DEF Cut, Jobs, In
<1> QED
  BY <1>5, <1>6 DEF TrueBy

\* The light of the chunks that a flood was sent for reaches the client.
LEMMA SentIsRight ==
  ASSUME NEW j \in Jobs, terrain \in [Voxels -> Kinds], j.pc = "block", j.queue = {}, Enclosed(j),
         j.still => Sound(j), UNCHANGED terrain, doubtful' = Doubted(j), NEW c \in j.at, shown'[c] = Cut(j, c)
  PROVE  RightAbout(c)'
<1>1. CASE Exact(j)
  <2>1. PICK f : f = AtLeast'
    OBVIOUS
  <2>2. Layers(f, terrain)
    BY <2>1, TrueLayersNext
  <2>3. PICK s : s = Cut(j, c)
    OBVIOUS
  <2>4. TrueBy(f, s, c)
    BY <1>1, <2>2, <2>3, CutIsTrue
  <2>5. TrueBy(AtLeast, shown[c], c)'
    BY <2>1, <2>3, <2>4 DEF TrueBy
  <2> QED
    BY <2>5 DEF RightAbout
<1>2. CASE ~Exact(j)
  BY <1>2 DEF Doubted, RightAbout
<1> QED
  BY <1>1, <1>2

LEMMA RenewsIsOfJobs ==
  ASSUME LightTypeOK, NEW e \in Editors, NEW g \in Goroutines, NEW k, NEW c, job' = [job EXCEPT ![g] = k],
         Renews(job[e], c), g = e => Renews(k, c)
  PROVE  Renews(job'[e], c)
BY DEF LightTypeOK, Goroutines

\* Where only goroutine g has changed its job, and its new one encloses what it reads.
LEMMA StillEnclosed ==
  ASSUME LightTypeOK, NEW g \in Goroutines, NEW k, job' = [job EXCEPT ![g] = k],
         \A h \in Goroutines : Enclosed(job[h]), Enclosed(k)
  PROVE  (\A h \in Goroutines : Enclosed(job[h]))'
<1> SUFFICES ASSUME NEW h \in Goroutines PROVE Enclosed(job'[h])
  BY DEF Enclosed, In
<1>1. CASE h = g
  BY <1>1 DEF LightTypeOK
<1>2. CASE h # g
  BY <1>2 DEF LightTypeOK
<1> QED
  BY <1>1, <1>2

LEMMA ShownStep == LightTypeOK /\ FloodsSound /\ Shown /\ [LightNext]_lightVars => Shown'
<1> SUFFICES ASSUME LightTypeOK, FloodsSound, Shown, [LightNext]_lightVars PROVE Shown'
  OBVIOUS
<1>t. terrain \in [Voxels -> Kinds] /\ \A g \in Goroutines : job[g] \in Jobs
  BY DEF LightTypeOK
<1>g. Watcher \in Goroutines /\ (\A e \in Editors : e \in Goroutines /\ e # Watcher)
  BY KindsAssumption DEF Goroutines
<1>s. /\ shown = [c \in ChunkSet |-> shown[c]] /\ Unseen /\ (\A g \in Goroutines : Enclosed(job[g]))
      /\ \A c \in ChunkSet : RightAbout(c)
  BY DEF Shown
<1>n. Enclosed(NoJob)
  BY DEF Enclosed, NoJob
<1>1. CASE UNCHANGED <<terrain, shown, doubtful, job>> /\ (online' = online \/ online')
  <2>1. Unseen'
    BY <1>1, <1>s DEF Unseen, NotSent
  <2>2. ASSUME NEW c \in ChunkSet PROVE RightAbout(c)'
    BY <1>1, <1>s, RightStays
  <2>3. (\A g \in Goroutines : Enclosed(job[g]))'
    BY <1>1, <1>s DEF Enclosed, In
  <2> QED
    BY <1>1, <1>s, <2>1, <2>2, <2>3 DEF Shown
<1>2. CASE SkyDone
  <2>1. PICK k : k = BlockSeeded(job[Watcher])
    OBVIOUS
  <2>2. job' = [job EXCEPT ![Watcher] = k] /\ UNCHANGED <<terrain, shown, doubtful, online>> /\ job[Watcher].pc = "sky"
    BY <1>2, <2>1 DEF SkyDone, Finished
  <2>3. Enclosed(k)
    BY <1>t, <1>g, <2>1 DEF BlockSeeded, Enclosed, Jobs
  <2>4. Unseen'
    BY <1>s, <2>2 DEF Unseen
  <2>5. ASSUME NEW c \in ChunkSet PROVE RightAbout(c)'
    <3>1. \A e \in Editors : Renews(job[e], c) => Renews(job'[e], c)
      BY <1>g, <2>2, RenewsIsOfJobs
    <3> QED
      BY <1>s, <2>2, <3>1, RightStays
  <2>6. (\A g \in Goroutines : Enclosed(job[g]))'
    BY <1>g, <1>s, <2>2, <2>3, StillEnclosed
  <2> QED
    BY <1>s, <2>2, <2>4, <2>5, <2>6 DEF Shown
<1>3. CASE ChunkSent
  <2>1. PICK j : j = job[Watcher]
    OBVIOUS
  <2>2. /\ j \in Jobs /\ j.pc = "block" /\ j.queue = {} /\ Enclosed(j) /\ (j.still => Sound(j))
        /\ UNCHANGED <<terrain, online>> /\ doubtful' = Doubted(j) /\ job' = [job EXCEPT ![Watcher] = NoJob]
        /\ shown' = [c \in ChunkSet |-> IF c \in j.at THEN Cut(j, c) ELSE shown[c]]
    BY <1>3, <1>t, <1>g, <1>s, <2>1 DEF ChunkSent, Finished, FloodsSound
  <2>3. online /\ Unseen'
    BY <1>s, <2>1, <2>2 DEF Unseen
  <2>4. ASSUME NEW c \in ChunkSet PROVE RightAbout(c)'
    <3>1. CASE c \in j.at
      <4>1. shown'[c] = Cut(j, c)
        BY <2>2, <3>1
      <4> QED
        BY <1>t, <2>2, <3>1, <4>1, SentIsRight
    <3>2. CASE c \notin j.at
      <4>1. shown'[c] = shown[c] /\ (c \in doubtful => c \in doubtful')
        BY <2>2, <3>2 DEF Doubted
      <4>2. \A e \in Editors : Renews(job[e], c) => Renews(job'[e], c)
        BY <1>g, <2>2, RenewsIsOfJobs
      <4> QED
        BY <1>s, <2>2, <4>1, <4>2, RightStays
    <3> QED
      BY <3>1, <3>2
  <2>5. (\A g \in Goroutines : Enclosed(job[g]))'
    BY <1>g, <1>n, <1>s, <2>2, StillEnclosed
  <2>6. shown' = [c \in ChunkSet |-> shown'[c]]
    BY <2>2
  <2> QED
    BY <2>3, <2>4, <2>5, <2>6 DEF Shown
<1>4. ASSUME NEW d \in ChunkSet, SendChunk(d)
      PROVE  Shown'
  <2>1. PICK k : /\ job' = [job EXCEPT ![Watcher] = k] /\ k.pc = "sky"
                 /\ UNCHANGED <<terrain, shown, doubtful, online>> /\ online
    <3> DEFINE j == [NoJob EXCEPT !.at = {d}, !.around = Surroundings(d) \cap cached', !.still = TRUE]
    <3>1. SkySeeded(j).pc = "sky"
      BY DEF SkySeeded, NoJob
    <3>2. job' = [job EXCEPT ![Watcher] = SkySeeded(j)] /\ UNCHANGED <<terrain, shown, doubtful, online>> /\ online
      BY <1>4 DEF SendChunk
    <3> HIDE DEF j
    <3> QED
      BY <3>1, <3>2
  <2>2. Enclosed(k)
    BY <2>1 DEF Enclosed
  <2>3. Unseen'
    BY <2>1 DEF Unseen
  <2>4. ASSUME NEW c \in ChunkSet PROVE RightAbout(c)'
    <3>1. \A e \in Editors : Renews(job[e], c) => Renews(job'[e], c)
      BY <1>g, <2>1, RenewsIsOfJobs
    <3> QED
      BY <1>s, <2>1, <3>1, RightStays
  <2>5. (\A g \in Goroutines : Enclosed(job[g]))'
    BY <1>g, <1>s, <2>1, <2>2, StillEnclosed
  <2> QED
    BY <1>s, <2>1, <2>3, <2>4, <2>5 DEF Shown
<1>5. ASSUME NEW d \in ChunkSet, Forget(d)
      PROVE  Shown'
  <2>1. /\ shown' = [shown EXCEPT ![d] = NotSent] /\ doubtful' = doubtful \ {d}
        /\ UNCHANGED <<terrain, online, job>>
    BY <1>5 DEF Forget
  <2>2. ASSUME NEW c \in ChunkSet
        PROVE  shown'[c] = (IF c = d THEN NotSent ELSE shown[c])
    BY <1>s, <2>1
  <2>3. Unseen'
    BY <1>s, <2>1, <2>2 DEF Unseen, NotSent
  <2>4. ASSUME NEW c \in ChunkSet PROVE RightAbout(c)'
    <3>1. c \in doubtful => c \in doubtful' \/ shown'[c] = NotSent
      BY <2>1, <2>2
    <3>2. shown'[c] = shown[c] \/ shown'[c] = NotSent
      BY <2>2
    <3> QED
      BY <1>s, <2>1, <3>1, <3>2, RightStays
  <2>5. (\A g \in Goroutines : Enclosed(job[g]))'
    BY <1>s, <2>1 DEF Enclosed, In
  <2>6. shown' = [c \in ChunkSet |-> shown'[c]]
    BY <1>s, <2>1
  <2> QED
    BY <2>3, <2>4, <2>5, <2>6 DEF Shown
<1>6. ASSUME NEW g \in Goroutines, Flood(g)
      PROVE  Shown'
  <2>1. PICK v \in job[g].queue : job' = [job EXCEPT ![g] = Flooded(job[g], v)]
    BY <1>6 DEF Flood
  <2>2. PICK j, k : j = job[g] /\ k = Flooded(j, v)
    OBVIOUS
  <2>3. /\ j \in Jobs /\ k.pc = j.pc /\ k.at = j.at /\ k.rest = j.rest /\ k.inside = j.inside
        /\ k.around = j.around /\ Enclosed(j) /\ j.pc # "idle"
    BY <1>6, <1>t, <1>s, <2>2 DEF Flooded, Jobs, Flood
  <2>4. Enclosed(k) /\ job' = [job EXCEPT ![g] = k] /\ UNCHANGED <<terrain, shown, doubtful, online>>
    BY <1>6, <2>1, <2>2, <2>3 DEF Enclosed, Flood
  <2>5. Unseen'
    BY <1>s, <1>g, <2>2, <2>3, <2>4 DEF Unseen, LightTypeOK
  <2>6. ASSUME NEW c \in ChunkSet PROVE RightAbout(c)'
    <3>1. \A e \in Editors : Renews(job[e], c) => Renews(job'[e], c)
      <4> SUFFICES ASSUME NEW e \in Editors, Renews(job[e], c) PROVE Renews(job'[e], c)
        OBVIOUS
      <4>1. g = e => Renews(k, c)
        BY <2>2, <2>3 DEF Renews
      <4> QED
        BY <2>4, <4>1, RenewsIsOfJobs
    <3> QED
      BY <1>s, <2>4, <3>1, RightStays
  <2>7. (\A h \in Goroutines : Enclosed(job[h]))'
    BY <1>s, <2>4, StillEnclosed
  <2> QED
    BY <1>s, <2>4, <2>5, <2>6, <2>7 DEF Shown
<1>7. ASSUME NEW e \in Editors, Observe(e)
      PROVE  Shown'
  <2>1. PICK d \in job[e].at :
          job' = [job EXCEPT ![e] = IF online THEN [NoJob EXCEPT !.pc = "update", !.rest = Updated(d)] ELSE NoJob]
    BY <1>7 DEF Observe
  <2>2. PICK k : k = IF online THEN [NoJob EXCEPT !.pc = "update", !.rest = Updated(d)] ELSE NoJob
    OBVIOUS
  <2>3. /\ job' = [job EXCEPT ![e] = k] /\ UNCHANGED <<terrain, shown, doubtful, online>>
        /\ job[e].pc = "observe" /\ e \in Goroutines /\ e # Watcher
    BY <1>7, <1>g, <2>1, <2>2 DEF Observe
  <2>4. Enclosed(k) /\ (online => k.pc = "update" /\ k.rest = Nearby[d])
    BY <2>2 DEF Enclosed, NoJob, Updated
  <2>5. Unseen'
    BY <1>s, <1>g, <2>3 DEF Unseen, LightTypeOK
  <2>6. ASSUME NEW c \in ChunkSet PROVE RightAbout(c)'
    <3>1. ASSUME NEW x \in Editors, Renews(job[x], c) PROVE Renews(job'[x], c) \/ shown'[c] = NotSent
      <4>1. CASE online
        <5>1. x = e => Renews(k, c)
          BY <2>3, <2>4, <3>1, <4>1 DEF Renews, Surroundings
        <5> QED
          BY <2>3, <3>1, <5>1, RenewsIsOfJobs
      <4>2. CASE ~online
        BY <1>s, <2>3, <4>2 DEF Unseen
      <4> QED
        BY <4>1, <4>2
    <3> QED
      BY <1>s, <2>3, <3>1, RightStays
  <2>7. (\A h \in Goroutines : Enclosed(job[h]))'
    BY <1>s, <2>3, <2>4, StillEnclosed
  <2> QED
    BY <1>s, <2>3, <2>5, <2>6, <2>7 DEF Shown
<1>8. ASSUME NEW e \in Editors, BeginUpdate(e)
      PROVE  Shown'
  <2>1. PICK j, d, chunks : j = job[e] /\ d = Head(j.rest) /\ chunks = Surroundings(d) \cap cached
    OBVIOUS
  <2>2. PICK k : k = BlockSeeded([j EXCEPT !.at = {d}, !.around = chunks, !.still = TRUE, !.rest = Tail(@)])
    OBVIOUS
  <2>3. /\ job' = [job EXCEPT ![e] = k] /\ UNCHANGED <<terrain, shown, doubtful, online>>
        /\ j.pc = "update" /\ j \in Jobs /\ j.rest \in Seq(ChunkSet) /\ j.rest # <<>>
        /\ e \in Goroutines /\ e # Watcher
    BY <1>8, <1>g, <1>t, <2>1, <2>2 DEF BeginUpdate, Jobs
  <2>4. k.pc = "block" /\ k.at = {d} /\ k.rest = Tail(j.rest) /\ k.around = chunks /\ k.inside = In(chunks)
    BY <2>2, <2>3 DEF BlockSeeded, Jobs
  <2>5. Enclosed(k)
    BY <2>4 DEF Enclosed
  <2>6. Unseen'
    BY <1>s, <1>g, <2>3 DEF Unseen, LightTypeOK
  <2>7. ASSUME NEW c \in ChunkSet PROVE RightAbout(c)'
    <3>1. ASSUME NEW x \in Editors, Renews(job[x], c) PROVE Renews(job'[x], c)
      <4>1. ASSUME x = e PROVE Renews(k, c)
        <5>1. PICK i \in DOMAIN j.rest : j.rest[i] = c
          BY <2>1, <2>3, <3>1, <4>1 DEF Renews
        <5>2. CASE i = 1
          <6>1. c = d
            BY <2>1, <2>3, <5>1, <5>2
          <6> QED
            BY <2>4, <6>1 DEF Renews
        <5>3. CASE i # 1
          <6>1. i - 1 \in DOMAIN Tail(j.rest) /\ Tail(j.rest)[i - 1] = c
            BY <2>3, <5>1, <5>3
          <6> QED
            BY <2>4, <6>1 DEF Renews
        <5> QED
          BY <5>2, <5>3
      <4> QED
        BY <2>3, <3>1, <4>1, RenewsIsOfJobs
    <3> QED
      BY <1>s, <2>3, <3>1, RightStays
  <2>8. (\A h \in Goroutines : Enclosed(job[h]))'
    BY <1>s, <2>3, <2>5, StillEnclosed
  <2> QED
    BY <1>s, <2>3, <2>6, <2>7, <2>8 DEF Shown
<1>9. ASSUME NEW e \in Editors, PassChunk(e)
      PROVE  Shown'
  <2>1. PICK j, d : j = job[e] /\ d = Head(j.rest)
    OBVIOUS
  <2>2. PICK k : k = [j EXCEPT !.rest = Tail(@)]
    OBVIOUS
  <2>3. /\ job' = [job EXCEPT ![e] = k] /\ UNCHANGED <<terrain, shown, online>> /\ doubtful' = doubtful \cup {d}
        /\ j.pc = "update" /\ j \in Jobs /\ j.rest \in Seq(ChunkSet) /\ j.rest # <<>>
        /\ e \in Goroutines /\ e # Watcher
    BY <1>9, <1>g, <1>t, <2>1, <2>2 DEF PassChunk, Jobs
  <2>4. k.pc = "update" /\ k.rest = Tail(j.rest)
    BY <2>2, <2>3 DEF Jobs
  <2>5. Enclosed(k)
    BY <2>4 DEF Enclosed
  <2>6. Unseen'
    BY <1>s, <1>g, <2>3 DEF Unseen, LightTypeOK
  <2>7. ASSUME NEW c \in ChunkSet PROVE RightAbout(c)'
    <3>1. ASSUME NEW x \in Editors, Renews(job[x], c), c # d PROVE Renews(job'[x], c)
      <4>1. ASSUME x = e PROVE Renews(k, c)
        <5>1. PICK i \in DOMAIN j.rest : j.rest[i] = c
          BY <2>1, <2>3, <3>1, <4>1 DEF Renews
        <5>2. i # 1
          BY <2>1, <2>3, <3>1, <5>1
        <5>3. i - 1 \in DOMAIN Tail(j.rest) /\ Tail(j.rest)[i - 1] = c
          BY <2>3, <5>1, <5>2
        <5> QED
          BY <2>4, <5>3 DEF Renews
      <4> QED
        BY <2>3, <3>1, <4>1, RenewsIsOfJobs
    <3> QED
      BY <1>s, <2>3, <3>1, RightStays
  <2>8. (\A h \in Goroutines : Enclosed(job[h]))'
    BY <1>s, <2>3, <2>5, StillEnclosed
  <2> QED
    BY <1>s, <2>3, <2>6, <2>7, <2>8 DEF Shown
<1>10. ASSUME NEW e \in Editors, UpdateSent(e)
       PROVE  Shown'
  <2>1. PICK j : j = job[e]
    OBVIOUS
  <2>2. PICK k : k = [NoJob EXCEPT !.pc = "update", !.rest = j.rest]
    OBVIOUS
  <2>3. /\ j \in Jobs /\ j.pc = "block" /\ j.queue = {} /\ Enclosed(j) /\ (j.still => Sound(j))
        /\ UNCHANGED <<terrain, online>> /\ doubtful' = Doubted(j) /\ job' = [job EXCEPT ![e] = k]
        /\ shown' = [c \in ChunkSet |-> IF c \in j.at /\ shown[c] # NotSent THEN Cut(j, c) ELSE shown[c]]
        /\ e \in Goroutines /\ e # Watcher
    BY <1>10, <1>t, <1>g, <1>s, <2>1, <2>2 DEF UpdateSent, Finished, FloodsSound
  <2>4. k.pc = "update" /\ k.rest = j.rest
    BY <2>2 DEF NoJob
  <2>5. Enclosed(k)
    BY <2>4 DEF Enclosed
  <2>6. Unseen'
    BY <1>s, <1>g, <2>3 DEF Unseen, LightTypeOK, NotSent
  <2>7. ASSUME NEW c \in ChunkSet PROVE RightAbout(c)'
    <3>1. CASE c \in j.at /\ shown[c] # NotSent
      <4>1. shown'[c] = Cut(j, c)
        BY <2>3, <3>1
      <4> QED
        BY <1>t, <2>3, <3>1, <4>1, SentIsRight
    <3>2. CASE c \in j.at /\ shown[c] = NotSent
      <4>1. shown'[c] = NotSent
        BY <2>3, <3>2
      <4> QED
        BY <4>1 DEF RightAbout, NotSent
    <3>3. CASE c \notin j.at
      <4>1. shown'[c] = shown[c] /\ (c \in doubtful => c \in doubtful')
        BY <2>3, <3>3 DEF Doubted
      <4>2. ASSUME NEW x \in Editors, Renews(job[x], c) PROVE Renews(job'[x], c)
        <5>1. x = e => Renews(k, c)
          BY <2>1, <2>3, <2>4, <3>3, <4>2 DEF Renews
        <5> QED
          BY <2>3, <4>2, <5>1, RenewsIsOfJobs
      <4> QED
        BY <1>s, <2>3, <4>1, <4>2, RightStays
    <3> QED
      BY <3>1, <3>2, <3>3
  <2>8. (\A h \in Goroutines : Enclosed(job[h]))'
    BY <1>s, <2>3, <2>5, StillEnclosed
  <2>9. shown' = [c \in ChunkSet |-> shown'[c]]
    BY <2>3
  <2> QED
    BY <2>6, <2>7, <2>8, <2>9 DEF Shown
<1>11. ASSUME NEW e \in Editors, UpdatesDone(e)
       PROVE  Shown'
  <2>1. /\ job' = [job EXCEPT ![e] = NoJob] /\ UNCHANGED <<terrain, shown, doubtful, online>>
        /\ job[e].pc = "update" /\ job[e].rest = <<>> /\ e \in Goroutines /\ e # Watcher
    BY <1>11, <1>g DEF UpdatesDone
  <2>2. Unseen'
    BY <1>s, <1>g, <2>1 DEF Unseen, LightTypeOK
  <2>3. ASSUME NEW c \in ChunkSet PROVE RightAbout(c)'
    <3>1. ~Renews(job[e], c)
      BY <2>1 DEF Renews
    <3>2. \A x \in Editors : Renews(job[x], c) => Renews(job'[x], c)
      BY <2>1, <3>1, RenewsIsOfJobs
    <3> QED
      BY <1>s, <2>1, <3>2, RightStays
  <2>4. (\A h \in Goroutines : Enclosed(job[h]))'
    BY <1>s, <1>n, <2>1, StillEnclosed
  <2> QED
    BY <1>s, <2>1, <2>2, <2>3, <2>4 DEF Shown
<1>12. ASSUME NEW e \in Editors, NEW x \in Edits, SetVoxel(e, x[1], x[2])
       PROVE  Shown'
  <2>1. PICK v, b : v = x[1] /\ b = x[2]
    OBVIOUS
  <2>2. v \in Voxels /\ b \in Kinds /\ ChunkOf[v] \in ChunkSet
    BY <2>1, KindsAssumption DEF ChunkSet
  <2>3. PICK k : k = IF LightChanged(terrain[v], b) THEN [NoJob EXCEPT !.pc = "observe", !.at = {ChunkOf[v]}] ELSE NoJob
    OBVIOUS
  <2>4. /\ job' = [Disturbed(v) EXCEPT ![e] = k] /\ UNCHANGED <<shown, doubtful, online>>
        /\ terrain' = [terrain EXCEPT ![v] = b] /\ job[e].pc = "idle" /\ e \in Goroutines /\ e # Watcher
    BY <1>12, <1>g, <2>1, <2>3 DEF SetVoxel
  <2>5. Enclosed(k)
    BY <2>3 DEF Enclosed, NoJob
  <2>6. job'[e] = k
    BY <2>4 DEF Disturbed
  <2>7. ASSUME NEW h \in Goroutines, h # e
        PROVE  /\ job'[h].pc = job[h].pc /\ job'[h].at = job[h].at /\ job'[h].rest = job[h].rest
               /\ job'[h].inside = job[h].inside /\ job'[h].around = job[h].around
    <3>1. job'[h] = [job[h] EXCEPT !.still = @ /\ ChunkOf[v] \notin job[h].around]
      BY <2>4, <2>7 DEF Disturbed
    <3>2. job[h] \in Jobs
      BY <1>t
    <3> QED
      BY <3>1, <3>2 DEF Jobs
  <2>8. Unseen'
    BY <1>s, <1>g, <2>4, <2>7 DEF Unseen
  <2>9. ASSUME NEW h \in Goroutines PROVE Enclosed(job'[h])
    <3>1. CASE h = e
      BY <2>5, <2>6, <3>1
    <3>2. CASE h # e
      BY <1>s, <2>7, <3>2 DEF Enclosed
    <3> QED
      BY <3>1, <3>2
  <2>10. ASSUME NEW c \in ChunkSet PROVE RightAbout(c)'
    <3>1. CASE c \in doubtful \/ shown[c] = NotSent
      BY <2>4, <3>1 DEF RightAbout, NotSent
    <3>2. CASE \E y \in Editors : Renews(job[y], c)
      <4>1. PICK y \in Editors : Renews(job[y], c)
        BY <3>2
      <4>2. y # e /\ y \in Goroutines
        BY <1>g, <2>4, <4>1 DEF Renews
      <4>3. Renews(job[y], c)'
        BY <2>7, <4>1, <4>2 DEF Renews, Surroundings
      <4> QED
        BY <4>3 DEF RightAbout
    <3>3. CASE TrueBy(AtLeast, shown[c], c)
      <4>1. CASE LightChanged(terrain[v], b) /\ c \in Surroundings(ChunkOf[v])
        <5>1. k.pc = "observe" /\ k.at = {ChunkOf[v]}
          BY <2>3, <4>1 DEF NoJob
        <5>2. Renews(job[e], c)'
          BY <2>6, <4>1, <5>1 DEF Renews, Surroundings
        <5> QED
          BY <5>2 DEF RightAbout
      <4>2. CASE ~(LightChanged(terrain[v], b) /\ c \in Surroundings(ChunkOf[v]))
        <5>1. ASSUME NEW u \in In(Surroundings(c))
              PROVE  terrain'[u].light = terrain[u].light /\ Passes(terrain'[u]) = Passes(terrain[u])
          <6>1. u \in Voxels /\ ChunkOf[u] \in Surroundings(c)
            BY DEF In
          <6>2. CASE u = v
            <7>1. c \in Surroundings(ChunkOf[v])
              BY <2>2, <6>1, <6>2, ReachAssumption
            <7>2. ~LightChanged(terrain[v], b) /\ terrain'[u] = b
              BY <1>t, <2>4, <4>2, <6>1, <6>2, <7>1
            <7> QED
              BY <6>2, <7>2 DEF LightChanged, Passes
          <6>3. CASE u # v
            <7>1. terrain'[u] = terrain[u]
              BY <1>t, <2>4, <6>1, <6>3
            <7> QED
              BY <7>1
          <6> QED
            BY <6>2, <6>3
        <5>2. PICK s : s = shown[c] /\ s = shown'[c]
          BY <2>4
        <5>3. TrueBy(AtLeast', s, c)
          BY <3>3, <5>1, <5>2, TrueStays
        <5>4. TrueBy(AtLeast, shown[c], c)'
          BY <5>2, <5>3 DEF TrueBy
        <5> QED
          BY <5>4 DEF RightAbout
      <4> QED
        BY <4>1, <4>2
    <3> QED
      BY <1>s, <3>1, <3>2, <3>3 DEF RightAbout
  <2>11. (\A h \in Goroutines : Enclosed(job[h]))'
    BY <2>9 DEF Enclosed, In
  <2> QED
    BY <1>s, <2>4, <2>8, <2>10, <2>11 DEF Shown
<1>13. QED
  <2>1. Join \/ (\E c \in ChunkSet : CacheMoves(c)) \/ UNCHANGED lightVars =>
          UNCHANGED <<terrain, shown, doubtful, job>> /\ (online' = online \/ online')
    BY DEF Join, CacheMoves, lightVars
  <2> QED
    BY <1>1, <1>2, <1>3, <1>4, <1>5, <1>6, <1>7, <1>8, <1>9, <1>10, <1>11, <1>12, <2>1 DEF LightNext

LEMMA TrueLevel ==
  ASSUME NEW v, NEW x \in Level, \A k \in 1 .. Full : v \in AtLeast[k] <=> k <= x
  PROVE  TrueLight(v) = x
<1> DEFINE fits(l) == \A k \in 1 .. Full : v \in AtLeast[k] <=> k <= l
<1>1. fits(x)
  OBVIOUS
<1>2. ASSUME NEW l \in Level, fits(l) PROVE l = x
  <2>1. \A m, n \in 0 .. Full : m < n => n \in 1 .. Full /\ ~(n <= m) /\ n <= n
    BY LevelsAssumption
  <2>2. l \in 0 .. Full /\ x \in 0 .. Full
    BY DEF Level
  <2>3. ~(l < x)
    BY <1>1, <1>2, <2>1, <2>2
  <2>4. ~(x < l)
    BY <1>1, <1>2, <2>1, <2>2
  <2> QED
    BY <2>2, <2>3, <2>4, LevelsAssumption
<1>3. TrueLight(v) = CHOOSE l \in Level : fits(l)
  BY DEF TrueLight
<1> HIDE DEF fits
<1> QED
  BY <1>1, <1>2, <1>3

\* When every goroutine is at rest the client has the true light of each chunk it holds and of
\* which nothing is doubtful, for any world of chunks that are wider than light reaches.
THEOREM ClientLightAlwaysTrue == LightSpec => []ClientLightIsTrue
<1>1. LightInit => Shown
  BY DEF LightInit, Shown, Unseen, Enclosed, RightAbout, Goroutines, NoJob, NotSent
<1>2. LightTypeOK /\ Shown => ClientLightIsTrue
  <2> SUFFICES ASSUME Shown, \A g \in Goroutines : job[g].pc = "idle", NEW c \in ChunkSet \ doubtful,
                      shown[c] # NotSent, NEW v \in In({c})
               PROVE  shown[c][v] = TrueLight(v)
    BY DEF ClientLightIsTrue
  <2>1. \A e \in Editors : ~Renews(job[e], c)
    BY DEF Renews, Goroutines
  <2>2. TrueBy(AtLeast, shown[c], c)
    BY <2>1 DEF Shown, RightAbout
  <2>3. shown[c][v] \in Level /\ \A k \in 1 .. Full : v \in AtLeast[k] <=> k <= shown[c][v]
    BY <2>2 DEF TrueBy
  <2> QED
    BY <2>3, TrueLevel
<1>3. QED
  BY <1>1, <1>2, ShownStep, FloodsStaySound, LightTypeCorrect, PTL DEF LightSpec

---------------------------------------------------------------------------
(* Block ticks: the queue.                                                 *)

\* What is asked of the queue has a kind and is not due at once.
Asking(requests) == \A r \in requests : r.kind \in TickKinds /\ r.left \in Nat \ {0}

OnlyAsked(requests, c, k) == \A r \in requests : r.at = c => r.kind = k

LEMMA EarliestIsOne ==
  ASSUME NEW ticks, ticks # {}, \A t \in ticks : t.left \in Nat
  PROVE  Earliest(ticks) \in ticks
<1> DEFINE T == {t.left : t \in ticks}
<1>1. T \in SUBSET Nat /\ T # {}
  OBVIOUS
<1>2. PICK m \in T : \A n \in T : m <= n
  BY <1>1, LeastNat
<1>3. PICK t \in ticks : t.left = m
  BY <1>2
<1>4. \A u \in ticks : t.left <= u.left
  BY <1>2, <1>3
<1> QED
  BY <1>4 DEF Earliest

LEMMA NoTickIs == NoTick.kind \notin TickKinds /\ \A t \in SomeTick : t # NoTick
BY DEF NoTick, TickKinds, SomeTick

\* A cell that is not overlooked keeps its tick and gets what is asked for it; no cell is
\* overlooked for ticks of one kind.
LEMMA ScheduleAllKeeps ==
  ASSUME NEW w \in Worlds, NEW requests, Asking(requests)
  PROVE  LET s == ScheduleAll(w, requests) IN
         /\ s \in Worlds /\ s.blocks = w.blocks /\ w.overlooked \subseteq s.overlooked
         /\ \A c \in Cells \ s.overlooked :
              /\ \A k \in TickKinds : w.pending[c].kind = k => s.pending[c].kind = k
              /\ \A r \in requests : r.at = c => s.pending[c].kind = r.kind
         /\ \A c \in Cells \ w.overlooked, k \in TickKinds :
              OnlyAsked(requests, c, k) /\ w.pending[c].kind \in {k, "none"}
                => c \notin s.overlooked /\ s.pending[c].kind \in {k, "none"}
<1> DEFINE D == Cells \cap {r.at : r \in requests}
           asked == [c \in D |-> AskedAt(requests, c)]
           next(c) == IF c \in DOMAIN asked /\ ~Kept(w.pending[c], asked[c]) THEN Earliest(asked[c]) ELSE w.pending[c]
           had(c) == {w.pending[c]} \ {NoTick}
           lost == {c \in DOMAIN asked : \E s, t \in asked[c] \cup had(c) : s.kind # t.kind}
           p == [c \in Cells |-> next(c)]
           s == ScheduleAll(w, requests)
<1>1. s = [w EXCEPT !.pending = p, !.overlooked = w.overlooked \cup lost]
  BY DEF ScheduleAll
<1>2. DOMAIN asked = D /\ \A c \in D : asked[c] = AskedAt(requests, c)
  OBVIOUS
<1>3. ASSUME NEW c \in D
      PROVE  /\ asked[c] # {} /\ asked[c] \subseteq SomeTick
             /\ \A r \in requests : r.at = c => [kind |-> r.kind, left |-> r.left] \in asked[c]
             /\ \A k : OnlyAsked(requests, c, k) => \A t \in asked[c] : t.kind = k
  <2>1. asked[c] = AskedAt(requests, c)
    BY <1>2
  <2>2. PICK r \in requests : r.at = c
    OBVIOUS
  <2> HIDE DEF asked
  <2>3. asked[c] = {[kind |-> q.kind, left |-> q.left] : q \in {x \in requests : x.at = c}}
    BY <2>1 DEF AskedAt
  <2>4. ASSUME NEW q \in requests, q.at = c PROVE [kind |-> q.kind, left |-> q.left] \in asked[c]
    BY <2>3, <2>4
  <2>5. ASSUME NEW t \in asked[c] PROVE t \in SomeTick
    <3>1. PICK q \in requests : t = [kind |-> q.kind, left |-> q.left]
      BY <2>3
    <3> QED
      BY <3>1 DEF Asking, SomeTick
  <2>6. ASSUME NEW k, OnlyAsked(requests, c, k), NEW t \in asked[c] PROVE t.kind = k
    <3>1. PICK q \in requests : q.at = c /\ t = [kind |-> q.kind, left |-> q.left]
      BY <2>3
    <3> QED
      BY <2>6, <3>1 DEF OnlyAsked
  <2> QED
    BY <2>2, <2>4, <2>5, <2>6
<1>4. \A c \in Cells : w.pending[c] \in SomeTick \cup {NoTick}
  BY DEF Worlds
<1>5. ASSUME NEW c \in Cells PROVE next(c) \in SomeTick \cup {NoTick}
  <2>1. CASE c \in D
    <3>1. \A t \in asked[c] : t.left \in Nat
      BY <1>3, <2>1 DEF SomeTick
    <3> HIDE DEF asked
    <3>2. Earliest(asked[c]) \in asked[c]
      BY <1>3, <2>1, <3>1, EarliestIsOne
    <3> QED
      BY <1>3, <1>4, <2>1, <3>2
  <2>2. CASE c \notin D
    BY <1>2, <1>4, <2>2
  <2> QED
    BY <2>1, <2>2
<1>6. p \in [Cells -> SomeTick \cup {NoTick}]
  BY <1>5
<1>7. lost \subseteq Cells
  BY <1>2
<1>8. \A c \in Cells : p[c] = next(c)
  OBVIOUS
<1> HIDE DEF p, lost, s
<1>9. s \in Worlds /\ s.blocks = w.blocks /\ s.pending = p /\ s.overlooked = w.overlooked \cup lost
  BY <1>1, <1>6, <1>7 DEF Worlds
<1>10. ASSUME NEW c \in Cells, c \notin s.overlooked
       PROVE  /\ \A k \in TickKinds : w.pending[c].kind = k => s.pending[c].kind = k
              /\ \A r \in requests : r.at = c => s.pending[c].kind = r.kind
  <2>1. CASE c \notin D
    <3>1. s.pending[c] = w.pending[c]
      BY <1>2, <1>8, <1>9, <2>1
    <3>2. \A r \in requests : r.at # c
      BY <2>1
    <3> QED
      BY <3>1, <3>2
  <2>2. CASE c \in D
    <3>1. \A a, b \in asked[c] \cup had(c) : a.kind = b.kind
      BY <1>2, <1>9, <1>10, <2>2 DEF lost
    <3>2. s.pending[c] \in asked[c] \/ (s.pending[c] = w.pending[c] /\ w.pending[c] # NoTick)
      <4>1. CASE Kept(w.pending[c], asked[c])
        BY <1>2, <1>8, <1>9, <2>2, <4>1 DEF Kept
      <4>2. CASE ~Kept(w.pending[c], asked[c])
        <5>1. s.pending[c] = Earliest(asked[c])
          BY <1>2, <1>8, <1>9, <2>2, <4>2
        <5>2. \A t \in asked[c] : t.left \in Nat
          BY <1>3, <2>2 DEF SomeTick
        <5> HIDE DEF asked
        <5> QED
          BY <1>3, <2>2, <5>1, <5>2, EarliestIsOne
      <4> QED
        BY <4>1, <4>2
    <3> HIDE DEF asked
    <3>3. s.pending[c] \in asked[c] \cup had(c)
      BY <3>2
    <3>4. ASSUME NEW k \in TickKinds, w.pending[c].kind = k PROVE s.pending[c].kind = k
      <4>1. w.pending[c] \in had(c)
        BY <3>4, NoTickIs
      <4> QED
        BY <3>1, <3>3, <3>4, <4>1
    <3>5. ASSUME NEW r \in requests, r.at = c PROVE s.pending[c].kind = r.kind
      <4>1. [kind |-> r.kind, left |-> r.left] \in asked[c]
        BY <1>3, <2>2, <3>5
      <4> QED
        BY <3>1, <3>3, <4>1
    <3> QED
      BY <3>4, <3>5
  <2> QED
    BY <2>1, <2>2
<1>11. ASSUME NEW c \in Cells \ w.overlooked, NEW k \in TickKinds, OnlyAsked(requests, c, k),
              w.pending[c].kind \in {k, "none"}
       PROVE  c \notin s.overlooked /\ s.pending[c].kind \in {k, "none"}
  <2>1. \A t \in had(c) : t.kind = k
    <3>1. w.pending[c] # NoTick => w.pending[c].kind \in TickKinds
      BY <1>4 DEF SomeTick
    <3>2. "none" \notin TickKinds
      BY DEF TickKinds
    <3> QED
      BY <1>11, <3>1, <3>2
  <2>2. CASE c \notin D
    <3>1. s.pending[c] = w.pending[c] /\ c \notin lost
      BY <1>2, <1>8, <1>9, <2>2 DEF lost
    <3> QED
      BY <1>9, <1>11, <3>1
  <2>3. CASE c \in D
    <3>1. \A t \in asked[c] : t.kind = k
      BY <1>3, <1>11, <2>3
    <3>2. c \notin lost
      BY <2>1, <3>1 DEF lost
    <3>3. next(c) = w.pending[c] \/ next(c) \in asked[c]
      <4>1. \A t \in asked[c] : t.left \in Nat
        BY <1>3, <2>3 DEF SomeTick
      <4>2. asked[c] # {}
        BY <1>3, <2>3
      <4> HIDE DEF asked
      <4>3. Earliest(asked[c]) \in asked[c]
        BY <4>1, <4>2, EarliestIsOne
      <4> QED
        BY <4>3
    <3>4. next(c).kind \in {k, "none"}
      BY <1>11, <3>1, <3>3
    <3> HIDE DEF next
    <3> QED
      BY <1>8, <1>9, <3>2, <3>4
  <2> QED
    BY <2>2, <2>3
<1> QED
  BY <1>9, <1>10, <1>11 DEF s

---------------------------------------------------------------------------
(* What a block change does to what is due, of any world and due set.      *)

Ticking(w, D, c, k) == w.pending[c].kind = k \/ [at |-> c, kind |-> k] \in D

\* Of the cells that are not overlooked, what the rules would change has its tick.
Careful(w, D) ==
  \A c \in Cells \ w.overlooked :
    /\ Unsupported(w.blocks, c) => Ticking(w, D, c, "fall")
    /\ HasRoom(w.blocks, c) => Ticking(w, D, c, "fluid")
    /\ w.blocks[c].name = "ice" => Ticking(w, D, c, "ice")
    /\ IsPressed(w.blocks[c]) => Ticking(w, D, c, "button")
    /\ \A d \in Cells \ w.overlooked :
         Meet(w.blocks, c, d) => Ticking(w, D, c, "fluid") \/ Ticking(w, D, d, "fluid")

LEMMA CarefulIs == NothingIsForgotten <=> Careful(world, due)
BY DEF NothingIsForgotten, Careful, HasTick, Ticking, Meet

LEMMA ScheduleAllCareful ==
  ASSUME NEW w \in Worlds, NEW D, NEW requests, Asking(requests), Careful(w, D)
  PROVE  Careful(ScheduleAll(w, requests), D)
<1> DEFINE s == ScheduleAll(w, requests)
<1>1. /\ s.blocks = w.blocks /\ w.overlooked \subseteq s.overlooked
      /\ \A c \in Cells \ s.overlooked : \A k \in TickKinds : w.pending[c].kind = k => s.pending[c].kind = k
  BY ScheduleAllKeeps
<1> HIDE DEF s
<1>2. ASSUME NEW c \in Cells \ s.overlooked, NEW k \in TickKinds, Ticking(w, D, c, k) PROVE Ticking(s, D, c, k)
  BY <1>1, <1>2 DEF Ticking
<1>3. {"fall", "fluid", "ice", "button"} \subseteq TickKinds
  BY DEF TickKinds
<1>4. Careful(s, D)
  BY <1>1, <1>2, <1>3 DEF Careful
<1> QED
  BY <1>4 DEF s

LEMMA PlacesAre ==
  ASSUME NEW c \in Cells, NEW e \in Cells
  PROVE  /\ c = Below(e) <=> e = Atop(c)
         /\ c \in Beside(e) <=> e \in Beside(c)
         /\ Below(e) # e /\ Atop(e) # e /\ e \notin Beside(e) /\ Below(e) \notin Beside(e)
         /\ Atop(c) \in Around(c) /\ Beside(c) \subseteq Around(c)
BY SizesAssumption DEF Cells, Below, Atop, Beside, East, West, Around

LEMMA DelaysAre ==
  /\ FluidDelay["water"] \in Nat \ {0} /\ FluidDelay["lava"] \in Nat \ {0}
  /\ FallDelay \in Nat \ {0} /\ LeafDelay \in Nat \ {0} /\ IceDelay \in Nat \ {0} /\ ButtonDelay \in Nat \ {0}
BY DelaysAssumption

LEMMA GapIsNat == \A c, d \in Cells : Gap(c, d) \in Nat
BY SizesAssumption DEF Cells, Gap, Apart

LEMMA WantedAsks ==
  ASSUME NEW old, NEW g, NEW c \in Cells
  PROVE  Asking(Wanted(old, g, c))
<1>1. Asking(WhenEmptied(g, c))
  BY DelaysAre DEF Asking, WhenEmptied, FluidTick, Request, IsFluid, TickKinds
<1>2. Asking(WhenPlaced(g, c))
  <2>1. IsFluid(g[c]) => At(g, c) = g[c]
    BY DEF At
  <2>2. ASSUME IsFluid(g[c]) PROVE FluidTick(g, c).kind \in TickKinds /\ FluidTick(g, c).left \in Nat \ {0}
    BY <2>1, <2>2, DelaysAre DEF FluidTick, Request, IsFluid, TickKinds
  <2> QED
    BY <2>2, DelaysAre DEF Asking, WhenPlaced, Request, TickKinds
<1>3. Asking(WhenLogGone(g, c))
  <2>1. \A d \in Cells : Gap(c, d) + LeafDelay \in Nat \ {0}
    BY GapIsNat, DelaysAre
  <2>2. \A r \in WhenLogGone(g, c) : \E d \in Cells : r = Request(d, "leaf", Gap(c, d) + LeafDelay)
    BY DEF WhenLogGone
  <2> QED
    BY <2>1, <2>2 DEF Asking, Request, TickKinds
<1> QED
  BY <1>1, <1>2, <1>3 DEF Asking, Wanted

\* Leaves are asked for by lost logs only, and have no floor that could be filled.
LEMMA LeavesAreAsked ==
  ASSUME NEW old, NEW g \in [Cells -> BlockStates], NEW c \in Cells, NEW e \in Leaves(g)
  PROVE  OnlyAsked(Wanted(old, g, c), e, "leaf") /\ e \notin Floored(g, c)
<1>1. e \in Cells /\ At(g, e) = g[e] /\ IsLeaf(g[e])
  BY DEF Leaves, At
<1>2. ~IsGravity(g[e]) /\ ~IsFluid(g[e]) /\ g[e].name # "ice"
  BY <1>1 DEF IsLeaf, IsGravity, IsFluid
<1>3. ASSUME NEW q \in WhenEmptied(g, c) PROVE q.at # e
  <2>1. \/ q = Request(Atop(c), "fall", FallDelay) /\ IsGravity(At(g, Atop(c)))
        \/ \E d \in Beside(c) : q = FluidTick(g, d) /\ IsFluid(At(g, d))
        \/ q = Request(Atop(c), "fluid", 1) /\ IsFluid(At(g, Atop(c)))
    BY <1>3 DEF WhenEmptied
  <2> QED
    BY <1>1, <1>2, <2>1 DEF FluidTick, Request
<1>4. ASSUME NEW q \in WhenPlaced(g, c) PROVE q.at # e
  <2>1. \/ q.at = c /\ (IsGravity(g[c]) \/ IsFluid(g[c]) \/ g[c].name = "ice")
        \/ \E d \in Around(c) : q.at = d /\ IsFluid(At(g, d))
    BY <1>4 DEF WhenPlaced, FluidTick, Request
  <2> QED
    BY <1>1, <1>2, <2>1
<1>5. ASSUME NEW q \in WhenLogGone(g, c) PROVE q.kind = "leaf"
  BY <1>5 DEF WhenLogGone, Request
<1>6. OnlyAsked(Wanted(old, g, c), e, "leaf")
  BY <1>3, <1>4, <1>5 DEF Wanted, OnlyAsked
<1>7. e \notin Floored(g, c)
  BY <1>1, <1>2 DEF Floored
<1> QED
  BY <1>6, <1>7

LEMMA AroundIs ==
  ASSUME NEW c \in Cells, NEW e \in Cells
  PROVE  /\ c \in Around(e) <=> e \in Around(c)
         /\ e \in Around(c) => InCube(c, e, LeafRadius)
         /\ e \notin Around(e)
<1>1. PICK x \in Int, y \in Int : c = <<x, y>>
  BY SizesAssumption DEF Cells
<1>2. PICK u \in Int, v \in Int : e = <<u, v>>
  BY SizesAssumption DEF Cells
<1>3. /\ c \in Around(e) <=> (y = v /\ (x = u + 1 \/ x = u - 1)) \/ (x = u /\ (y = v + 1 \/ y = v - 1))
      /\ e \in Around(c) <=> (v = y /\ (u = x + 1 \/ u = x - 1)) \/ (u = x /\ (v = y + 1 \/ v = y - 1))
  BY <1>1, <1>2 DEF Around, Beside, East, West, Atop, Below
<1>4. c \in Around(e) <=> e \in Around(c)
  BY <1>3
<1>5. e \notin Around(e)
  BY <1>2 DEF Around, Beside, East, West, Atop, Below
<1>6. LeafRadius \in Nat \ {0}
  BY SizesAssumption
<1>7. ASSUME e \in Around(c) PROVE Apart(x, u) <= LeafRadius /\ Apart(y, v) <= LeafRadius
  BY <1>3, <1>6, <1>7 DEF Apart
<1> QED
  BY <1>1, <1>2, <1>4, <1>5, <1>7 DEF InCube

LEMMA LostLogAsks ==
  ASSUME NEW old, NEW g, NEW c \in Cells, IsLog(old), ~IsLog(g[c]), NEW e \in Around(c) \cap Leaves(g)
  PROVE  \E q \in Wanted(old, g, c) : q.at = e /\ q.kind = "leaf"
<1>1. e \in Cells /\ IsLeaf(g[e]) /\ InCube(c, e, LeafRadius)
  BY AroundIs DEF Leaves
<1>2. Request(e, "leaf", Gap(c, e) + LeafDelay) \in WhenLogGone(g, c)
  BY <1>1 DEF WhenLogGone
<1>3. WhenLogGone(g, c) \subseteq Wanted(old, g, c)
  BY DEF Wanted
<1> QED
  BY <1>2, <1>3 DEF Request

\* What SetBlock does: the block, the floor it fills, the ticks it keeps and asks for, and
\* that a leaf has only leaf ticks.
LEMMA SetBlockDoes ==
  ASSUME NEW w \in Worlds, NEW c \in Cells, NEW b \in BlockStates
  PROVE  LET s == SetBlock(w, c, b) IN
         /\ s \in Worlds /\ s.blocks = [w.blocks EXCEPT ![c] = b]
         /\ w.overlooked \subseteq s.overlooked /\ Floored(s.blocks, c) \subseteq s.overlooked
         /\ \A e \in Cells \ s.overlooked :
              /\ \A k \in TickKinds : w.pending[e].kind = k => s.pending[e].kind = k
              /\ \A r \in Wanted(w.blocks[c], s.blocks, c) : r.at = e => s.pending[e].kind = r.kind
         /\ \A e \in Leaves(s.blocks) \ w.overlooked :
              w.pending[e].kind \in {"leaf", "none"} => e \notin s.overlooked /\ s.pending[e].kind \in {"leaf", "none"}
<1> DEFINE g == [w.blocks EXCEPT ![c] = b]
           v == [w EXCEPT !.blocks = g, !.overlooked = @ \cup Floored(g, c)]
           r == Wanted(w.blocks[c], g, c)
           s == SetBlock(w, c, b)
<1>1. s = ScheduleAll(v, r)
  BY DEF SetBlock
<1>2. g \in [Cells -> BlockStates]
  BY DEF Worlds
<1>3. Floored(g, c) \subseteq Cells
  <2>1. \A d : d \notin Cells => ~IsFluid(At(g, d))
    BY DEF At, IsFluid, Stone, Air, Block
  <2> QED
    BY <2>1 DEF Floored
<1> HIDE DEF g
<1>4. /\ v \in Worlds /\ v.blocks = g /\ v.pending = w.pending
      /\ v.overlooked = w.overlooked \cup Floored(g, c)
  BY <1>2, <1>3 DEF Worlds
<1>5. Asking(r)
  BY WantedAsks
<1> HIDE DEF v, r
<1>6. /\ ScheduleAll(v, r) \in Worlds /\ ScheduleAll(v, r).blocks = v.blocks
      /\ v.overlooked \subseteq ScheduleAll(v, r).overlooked
      /\ \A e \in Cells \ ScheduleAll(v, r).overlooked :
           /\ \A k \in TickKinds : v.pending[e].kind = k => ScheduleAll(v, r).pending[e].kind = k
           /\ \A q \in r : q.at = e => ScheduleAll(v, r).pending[e].kind = q.kind
  BY <1>4, <1>5, ScheduleAllKeeps
<1> HIDE DEF s
<1>7. /\ s \in Worlds /\ s.blocks = g /\ w.overlooked \subseteq s.overlooked
      /\ Floored(s.blocks, c) \subseteq s.overlooked
      /\ \A e \in Cells \ s.overlooked :
           /\ \A k \in TickKinds : w.pending[e].kind = k => s.pending[e].kind = k
           /\ \A q \in Wanted(w.blocks[c], s.blocks, c) : q.at = e => s.pending[e].kind = q.kind
  BY <1>1, <1>4, <1>6 DEF r
<1>8. ASSUME NEW e \in Leaves(g) \ w.overlooked, w.pending[e].kind \in {"leaf", "none"}
      PROVE  e \notin s.overlooked /\ s.pending[e].kind \in {"leaf", "none"}
  <2>1. OnlyAsked(r, e, "leaf") /\ e \notin Floored(g, c)
    BY <1>2, LeavesAreAsked DEF r
  <2>2. e \in Cells \ v.overlooked /\ "leaf" \in TickKinds
    BY <1>4, <2>1 DEF Leaves, TickKinds
  <2> QED
    BY <1>1, <1>4, <1>5, <1>8, <2>1, <2>2, ScheduleAllKeeps
<1> QED
  BY <1>7, <1>8 DEF s, g

\* What SetBlock asks for by the block it sets.
LEMMA WantedHas ==
  ASSUME NEW old, NEW g \in [Cells -> BlockStates], NEW c \in Cells
  PROVE  LET r == Wanted(old, g, c) IN
         /\ IsGravity(g[c]) => \E q \in r : q.at = c /\ q.kind = "fall"
         /\ IsFluid(g[c]) =>
              /\ \E q \in r : q.at = c /\ q.kind = "fluid"
              /\ \A e \in Around(c) \cap Cells : IsFluid(g[e]) => \E q \in r : q.at = e /\ q.kind = "fluid"
         /\ g[c].name = "ice" => \E q \in r : q.at = c /\ q.kind = "ice"
         /\ g[c] = Air =>
              /\ \A e \in {Atop(c)} \cap Cells : IsGravity(g[e]) => \E q \in r : q.at = e /\ q.kind = "fall"
              /\ \A e \in ({Atop(c)} \cup Beside(c)) \cap Cells :
                   IsFluid(g[e]) => \E q \in r : q.at = e /\ q.kind = "fluid"
<1>1. \A e \in Cells : At(g, e) = g[e]
  BY DEF At
<1>2. WhenPlaced(g, c) \subseteq Wanted(old, g, c)
  BY DEF Wanted
<1>3. g[c] = Air => WhenEmptied(g, c) \subseteq Wanted(old, g, c)
  BY DEF Wanted
<1>4. IsGravity(g[c]) => \E q \in WhenPlaced(g, c) : q.at = c /\ q.kind = "fall"
  <2>1. IsGravity(g[c]) => Request(c, "fall", FallDelay) \in WhenPlaced(g, c)
    BY DEF WhenPlaced
  <2>2. Request(c, "fall", FallDelay).at = c /\ Request(c, "fall", FallDelay).kind = "fall"
    BY DEF Request
  <2> QED
    BY <2>1, <2>2
<1>5. IsFluid(g[c]) => \E q \in WhenPlaced(g, c) : q.at = c /\ q.kind = "fluid"
  <2>1. IsFluid(g[c]) => FluidTick(g, c) \in WhenPlaced(g, c)
    BY DEF WhenPlaced
  <2>2. FluidTick(g, c).at = c /\ FluidTick(g, c).kind = "fluid"
    BY DEF Request, FluidTick
  <2> QED
    BY <2>1, <2>2
<1>6. ASSUME IsFluid(g[c]), NEW e \in Around(c) \cap Cells, IsFluid(g[e])
      PROVE  \E q \in WhenPlaced(g, c) : q.at = e /\ q.kind = "fluid"
  <2>1. Request(e, "fluid", 1) \in WhenPlaced(g, c)
    BY <1>1, <1>6 DEF WhenPlaced
  <2> QED
    BY <2>1 DEF Request
<1>7. g[c].name = "ice" => \E q \in WhenPlaced(g, c) : q.at = c /\ q.kind = "ice"
  <2>1. g[c].name = "ice" => Request(c, "ice", IceDelay) \in WhenPlaced(g, c)
    BY DEF WhenPlaced
  <2>2. Request(c, "ice", IceDelay).at = c /\ Request(c, "ice", IceDelay).kind = "ice"
    BY DEF Request
  <2> QED
    BY <2>1, <2>2
<1>8. ASSUME Atop(c) \in Cells, IsGravity(g[Atop(c)])
      PROVE  \E q \in WhenEmptied(g, c) : q.at = Atop(c) /\ q.kind = "fall"
  <2>1. Request(Atop(c), "fall", FallDelay) \in WhenEmptied(g, c)
    BY <1>1, <1>8 DEF WhenEmptied
  <2> QED
    BY <2>1 DEF Request
<1>9. ASSUME NEW e \in ({Atop(c)} \cup Beside(c)) \cap Cells, IsFluid(g[e])
      PROVE  \E q \in WhenEmptied(g, c) : q.at = e /\ q.kind = "fluid"
  <2>1. Request(e, "fluid", 1) \in WhenEmptied(g, c) \/ FluidTick(g, e) \in WhenEmptied(g, c)
    BY <1>1, <1>9 DEF WhenEmptied
  <2> QED
    BY <2>1 DEF Request, FluidTick
<1> DEFINE r == Wanted(old, g, c)
<1> HIDE DEF r
<1>10. WhenPlaced(g, c) \subseteq r /\ (g[c] = Air => WhenEmptied(g, c) \subseteq r)
  BY <1>2, <1>3 DEF r
<1>11. /\ IsGravity(g[c]) => \E q \in r : q.at = c /\ q.kind = "fall"
       /\ IsFluid(g[c]) => \E q \in r : q.at = c /\ q.kind = "fluid"
       /\ g[c].name = "ice" => \E q \in r : q.at = c /\ q.kind = "ice"
  BY <1>4, <1>5, <1>7, <1>10
<1>12. ASSUME IsFluid(g[c]) PROVE \A e \in Around(c) \cap Cells : IsFluid(g[e]) => \E q \in r : q.at = e /\ q.kind = "fluid"
  BY <1>6, <1>10, <1>12
<1>13. ASSUME g[c] = Air
       PROVE  /\ \A e \in {Atop(c)} \cap Cells : IsGravity(g[e]) => \E q \in r : q.at = e /\ q.kind = "fall"
              /\ \A e \in ({Atop(c)} \cup Beside(c)) \cap Cells :
                   IsFluid(g[e]) => \E q \in r : q.at = e /\ q.kind = "fluid"
  BY <1>8, <1>9, <1>10, <1>13
<1> QED
  BY <1>11, <1>12, <1>13 DEF r

\* A fluid has room by the cells at, below and beside it.
LEMMA RoomIsLocal ==
  ASSUME NEW g, NEW h, NEW e \in Cells, g[e] = h[e], At(g, Below(e)) = At(h, Below(e)),
         \A d \in Beside(e) : At(g, d) = At(h, d) \/ ~Takes(At(h, d), h[e].name, SpreadLevel(h[e]))
  PROVE  HasRoom(h, e) => HasRoom(g, e)
BY DEF HasRoom, FallsOnto

LEMMA SetBlockCareful ==
  ASSUME NEW w \in Worlds, NEW D, NEW c \in Cells, NEW b \in BlockStates, Careful(w, D),
         IsPressed(b) => [at |-> c, kind |-> "button"] \in D
  PROVE  Careful(SetBlock(w, c, b), D)
<1>1. PICK s \in Worlds : s = SetBlock(w, c, b)
  BY SetBlockDoes
<1>2. /\ s.blocks = [w.blocks EXCEPT ![c] = b]
      /\ w.overlooked \subseteq s.overlooked /\ Floored(s.blocks, c) \subseteq s.overlooked
      /\ \A e \in Cells \ s.overlooked :
           /\ \A k \in TickKinds : w.pending[e].kind = k => s.pending[e].kind = k
           /\ \A r \in Wanted(w.blocks[c], s.blocks, c) : r.at = e => s.pending[e].kind = r.kind
  BY <1>1, SetBlockDoes
<1>3. PICK g : g = w.blocks
  OBVIOUS
<1>4. PICK h : h = s.blocks
  OBVIOUS
<1>5. /\ g \in [Cells -> BlockStates] /\ h \in [Cells -> BlockStates]
      /\ h[c] = b /\ \A e \in Cells \ {c} : h[e] = g[e]
  BY <1>2, <1>3, <1>4 DEF Worlds
<1>6. \A e : e # c => At(h, e) = At(g, e)
  BY <1>5 DEF At
<1>7. {"fall", "fluid", "ice", "button"} \subseteq TickKinds
  BY DEF TickKinds
<1>8. \A e \in Cells \ s.overlooked : \A k \in TickKinds : Ticking(w, D, e, k) => Ticking(s, D, e, k)
  BY <1>2 DEF Ticking
<1>9. PICK r : r = Wanted(w.blocks[c], h, c)
  OBVIOUS
<1>10. \A e \in Cells \ s.overlooked : \A k : (\E q \in r : q.at = e /\ q.kind = k) => Ticking(s, D, e, k)
  BY <1>2, <1>4, <1>9 DEF Ticking
<1>11. /\ IsGravity(h[c]) => \E q \in r : q.at = c /\ q.kind = "fall"
       /\ IsFluid(h[c]) =>
            /\ \E q \in r : q.at = c /\ q.kind = "fluid"
            /\ \A e \in Around(c) \cap Cells : IsFluid(h[e]) => \E q \in r : q.at = e /\ q.kind = "fluid"
       /\ h[c].name = "ice" => \E q \in r : q.at = c /\ q.kind = "ice"
       /\ h[c] = Air =>
            /\ \A e \in {Atop(c)} \cap Cells : IsGravity(h[e]) => \E q \in r : q.at = e /\ q.kind = "fall"
            /\ \A e \in ({Atop(c)} \cup Beside(c)) \cap Cells :
                 IsFluid(h[e]) => \E q \in r : q.at = e /\ q.kind = "fluid"
  BY <1>5, <1>9, WantedHas
<1> DEFINE Told(e, k) == Ticking(s, D, e, k)
<1> SUFFICES ASSUME NEW e \in Cells \ s.overlooked
             PROVE  /\ Unsupported(h, e) => Told(e, "fall")
                    /\ HasRoom(h, e) => Told(e, "fluid")
                    /\ h[e].name = "ice" => Told(e, "ice")
                    /\ IsPressed(h[e]) => Told(e, "button")
                    /\ \A d \in Cells \ s.overlooked : Meet(h, e, d) => Told(e, "fluid") \/ Told(d, "fluid")
  BY <1>1, <1>4 DEF Careful
<1>12. /\ Unsupported(g, e) => Ticking(w, D, e, "fall")
       /\ HasRoom(g, e) => Ticking(w, D, e, "fluid")
       /\ g[e].name = "ice" => Ticking(w, D, e, "ice")
       /\ IsPressed(g[e]) => Ticking(w, D, e, "button")
       /\ \A d \in Cells \ w.overlooked : Meet(g, e, d) => Ticking(w, D, e, "fluid") \/ Ticking(w, D, d, "fluid")
  BY <1>2, <1>3 DEF Careful
<1>13. \A k \in TickKinds : Ticking(w, D, e, k) => Told(e, k)
  BY <1>8
<1>14. ASSUME Unsupported(h, e) PROVE Told(e, "fall")
  <2>1. CASE e = c
    BY <1>10, <1>11, <1>14, <2>1 DEF Unsupported
  <2>2. CASE e # c /\ Below(e) # c
    <3>1. Unsupported(g, e)
      BY <1>5, <1>6, <1>14, <2>2 DEF Unsupported
    <3> QED
      BY <1>7, <1>12, <1>13, <3>1
  <2>3. CASE e # c /\ Below(e) = c
    <3>1. e = Atop(c) /\ h[c] = Air /\ IsGravity(h[e])
      BY <1>14, <2>3, PlacesAre DEF Unsupported, At
    <3> QED
      BY <1>10, <1>11, <3>1
  <2> QED
    BY <2>1, <2>2, <2>3
<1>15. ASSUME HasRoom(h, e) PROVE Told(e, "fluid")
  <2>1. IsFluid(h[e])
    BY <1>15 DEF HasRoom
  <2>2. CASE e = c
    BY <1>10, <1>11, <2>1, <2>2
  <2>3. CASE e # c /\ Below(e) # c /\ c \notin Beside(e)
    <3>1. HasRoom(g, e)
      BY <1>5, <1>6, <1>15, <2>3, RoomIsLocal
    <3> QED
      BY <1>7, <1>12, <1>13, <3>1
  <2>4. CASE e # c /\ (Below(e) = c \/ c \in Beside(e))
    <3>1. e \in ({Atop(c)} \cup Beside(c)) \cap Cells /\ e \in Around(c) \cap Cells
      BY <2>4, PlacesAre
    <3>2. CASE IsFluid(h[c]) \/ h[c] = Air
      BY <1>10, <1>11, <2>1, <3>1, <3>2
    <3>3. CASE ~IsOpen(h[c]) /\ Below(e) = c
      <4>1. e = Atop(c) /\ At(h, e) = h[e]
        BY <3>3, PlacesAre DEF At
      <4>2. e \in Floored(h, c)
        BY <2>1, <3>3, <4>1 DEF Floored
      <4> QED
        BY <1>2, <1>4, <4>2
    <3>4. CASE ~IsOpen(h[c]) /\ Below(e) # c
      <4>1. At(h, c) = h[c]
        BY DEF At
      <4>2. ~Takes(At(h, c), h[e].name, SpreadLevel(h[e]))
        BY <2>1, <3>4, <4>1 DEF Takes, IsOpen, IsFluid
      <4>3. HasRoom(g, e)
        <5>1. g[e] = h[e] /\ At(g, Below(e)) = At(h, Below(e))
          BY <1>5, <1>6, <2>4, <3>4
        <5>2. \A d \in Beside(e) : At(g, d) = At(h, d) \/ ~Takes(At(h, d), h[e].name, SpreadLevel(h[e]))
          BY <1>6, <4>2
        <5> QED
          BY <1>15, <5>1, <5>2, RoomIsLocal
      <4> QED
        BY <1>7, <1>12, <1>13, <4>3
    <3> QED
      BY <3>2, <3>3, <3>4 DEF IsOpen
  <2> QED
    BY <2>2, <2>3, <2>4
<1>16. h[e].name = "ice" => Told(e, "ice")
  BY <1>5, <1>7, <1>10, <1>11, <1>12, <1>13
<1>17. ASSUME IsPressed(h[e]) PROVE Told(e, "button")
  <2>1. CASE e = c
    BY <1>5, <1>17, <2>1 DEF Ticking
  <2>2. CASE e # c
    BY <1>5, <1>7, <1>12, <1>13, <1>17, <2>2
  <2> QED
    BY <2>1, <2>2
<1>18. ASSUME NEW d \in Cells \ s.overlooked, Meet(h, e, d) PROVE Told(e, "fluid") \/ Told(d, "fluid")
  <2>1. At(h, d) = h[d]
    BY DEF At
  <2>2. IsFluid(h[e]) /\ IsFluid(h[d])
    BY <1>18, <2>1 DEF Meet, IsFluid
  <2>3. CASE e = c \/ d = c
    BY <1>10, <1>11, <2>2, <2>3
  <2>4. CASE e # c /\ d # c
    <3>1. Meet(g, e, d)
      BY <1>5, <1>6, <1>18, <2>4 DEF Meet
    <3>2. Ticking(w, D, e, "fluid") \/ Ticking(w, D, d, "fluid")
      BY <1>2, <1>12, <3>1
    <3> QED
      BY <1>7, <1>8, <3>2
  <2> QED
    BY <2>3, <2>4
<1> QED
  BY <1>14, <1>15, <1>16, <1>17, <1>18

---------------------------------------------------------------------------
(* What the rules do to a world that forgets nothing.                      *)

Remembers(w, D) == w \in Worlds /\ Careful(w, D)

\* s is w with blocks changed at C only, and forgets nothing either.
Changed(w, s, D, C) ==
  /\ Remembers(s, D) /\ w.overlooked \subseteq s.overlooked
  /\ \A e : e \notin C => At(s.blocks, e) = At(w.blocks, e)

LEMMA SetBlockRemembers ==
  ASSUME NEW w, NEW D, Remembers(w, D), NEW c \in Cells, NEW b \in BlockStates, ~IsPressed(b)
  PROVE  /\ Changed(w, SetBlock(w, c, b), D, {c}) /\ At(SetBlock(w, c, b).blocks, c) = b
         /\ Floored(SetBlock(w, c, b).blocks, c) \subseteq SetBlock(w, c, b).overlooked
<1>1. PICK s : s = SetBlock(w, c, b)
  OBVIOUS
<1>2. /\ s \in Worlds /\ w.overlooked \subseteq s.overlooked
      /\ s.blocks = [w.blocks EXCEPT ![c] = b] /\ Floored(s.blocks, c) \subseteq s.overlooked
  BY <1>1, SetBlockDoes DEF Remembers
<1>3. Careful(s, D)
  BY <1>1, SetBlockCareful DEF Remembers
<1>4. At(s.blocks, c) = b /\ \A e : e # c => At(s.blocks, e) = At(w.blocks, e)
  BY <1>2 DEF Remembers, Worlds, At
<1> QED
  BY <1>1, <1>2, <1>3, <1>4 DEF Remembers, Changed

LEMMA BlocksAre ==
  /\ Air \in BlockStates /\ ~IsPressed(Air) /\ Stone \in BlockStates /\ ~IsPressed(Stone)
  /\ \A name \in {"water", "lava"}, level \in Nat :
       Fluid(name, level) \in BlockStates /\ ~IsPressed(Fluid(name, level))
  /\ \A name \in {"obsidian", "cobblestone", "sand", "button"} :
       Block(name) \in BlockStates /\ ~IsPressed(Block(name))
<1>1. ASSUME NEW name \in BlockNames, NEW level \in Nat PROVE Fluid(name, level) \in BlockStates
  BY DEF Fluid, BlockStates
<1>2. ASSUME NEW name \in BlockNames PROVE Block(name) \in BlockStates /\ ~IsPressed(Block(name))
  BY DEF Block, BlockStates, IsPressed
<1>3. \A name \in {"water", "lava"}, level \in Nat : ~IsPressed(Fluid(name, level))
  BY DEF Fluid, IsPressed
<1> QED
  BY <1>1, <1>2, <1>3 DEF Air, Stone, BlockNames

LEMMA SetFluidRemembers ==
  ASSUME NEW w, NEW D, Remembers(w, D), NEW c \in Cells, NEW name \in {"water", "lava"}, NEW level \in Nat
  PROVE  /\ Changed(w, SetFluid(w, c, name, level), D, {c})
         /\ At(SetFluid(w, c, name, level).blocks, c) = Fluid(name, level)
<1>1. PICK v : v = SetBlock(w, c, Fluid(name, level))
  OBVIOUS
<1>2. Fluid(name, level) \in BlockStates /\ ~IsPressed(Fluid(name, level))
  BY BlocksAre
<1>3. Changed(w, v, D, {c}) /\ At(v.blocks, c) = Fluid(name, level)
  BY <1>1, <1>2, SetBlockRemembers
<1>4. PICK q : q = {Request(c, "fluid", FluidDelay[name])}
  OBVIOUS
<1>5. Asking(q)
  BY <1>4, DelaysAre DEF Asking, Request, TickKinds
<1>6. PICK s : s = ScheduleAll(v, q)
  OBVIOUS
<1>7. s = SetFluid(w, c, name, level)
  BY <1>1, <1>4, <1>6 DEF SetFluid, Schedule
<1>8. s \in Worlds /\ s.blocks = v.blocks /\ v.overlooked \subseteq s.overlooked
  BY <1>3, <1>5, <1>6, ScheduleAllKeeps DEF Remembers, Changed
<1>9. Careful(s, D)
  BY <1>3, <1>5, <1>6, ScheduleAllCareful DEF Remembers, Changed
<1> QED
  BY <1>3, <1>7, <1>8, <1>9 DEF Remembers, Changed

LEMMA AtIs ==
  ASSUME NEW g \in [Cells -> BlockStates], NEW c
  PROVE  At(g, c) \in BlockStates /\ (IsFluid(At(g, c)) => c \in Cells) /\ (c \in Cells => At(g, c) = g[c])
<1>1. CASE c \in Cells
  BY <1>1 DEF At
<1>2. CASE c \notin Cells
  <2>1. At(g, c) = Stone \/ At(g, c) = Air
    BY <1>2 DEF At
  <2>2. ~IsFluid(Stone) /\ ~IsFluid(Air)
    BY DEF IsFluid, Stone, Air, Block
  <2> QED
    BY <1>2, <2>1, <2>2, BlocksAre
<1> QED
  BY <1>1, <1>2

LEMMA HardenAtRemembers ==
  ASSUME NEW w, NEW D, Remembers(w, D), NEW d
  PROVE  Changed(w, HardenAt(w, d), D, {d}) /\ At(HardenAt(w, d).blocks, d).name # "lava"
<1>1. CASE At(w.blocks, d).name # "lava"
  BY <1>1 DEF HardenAt, Changed
<1>2. CASE At(w.blocks, d).name = "lava"
  <2>1. d \in Cells
    BY <1>2, AtIs DEF Remembers, Worlds, IsFluid
  <2>2. PICK b : b = HardenedLava(w.blocks[d])
    OBVIOUS
  <2>3. b \in BlockStates /\ ~IsPressed(b) /\ b.name # "lava"
    <3>1. Block("obsidian").name # "lava" /\ Block("cobblestone").name # "lava"
      BY DEF Block
    <3> QED
      BY <2>2, <3>1, BlocksAre DEF HardenedLava
  <2>4. PICK s : s = SetBlock(w, d, b)
    OBVIOUS
  <2>5. Changed(w, s, D, {d}) /\ At(s.blocks, d) = b
    BY <2>1, <2>3, <2>4, SetBlockRemembers
  <2>6. s = HardenAt(w, d)
    BY <1>2, <2>2, <2>4 DEF HardenAt
  <2> QED
    BY <2>3, <2>5, <2>6
<1> QED
  BY <1>1, <1>2

LEMMA NextToIs ==
  ASSUME NEW c \in Cells
  PROVE  /\ East(c) # c /\ West(c) # c /\ Below(c) # c /\ Atop(c) # c
         /\ East(c) # West(c) /\ East(c) # Below(c) /\ West(c) # Below(c)
         /\ East(c) # Atop(c) /\ West(c) # Atop(c) /\ Below(c) # Atop(c)
         /\ c[2] > 1 => Below(c) \in Cells
         /\ East(c)[2] \in 1 .. Height /\ West(c)[2] \in 1 .. Height
BY SizesAssumption DEF Cells, Below, Atop, East, West

LEMMA HardenNextRemembers ==
  ASSUME NEW w, NEW D, Remembers(w, D), NEW c \in Cells
  PROVE  /\ Changed(w, HardenNext(w, c), D, Beside(c) \cup {Below(c)})
         /\ \A d \in Beside(c) \cup {Below(c)} : At(HardenNext(w, c).blocks, d).name # "lava"
<1>1. PICK u : u = HardenAt(w, East(c))
  OBVIOUS
<1>2. PICK v : v = HardenAt(u, West(c))
  OBVIOUS
<1>3. PICK s : s = HardenAt(v, Below(c))
  OBVIOUS
<1>4. Changed(w, u, D, {East(c)}) /\ At(u.blocks, East(c)).name # "lava"
  BY <1>1, HardenAtRemembers
<1>5. Changed(u, v, D, {West(c)}) /\ At(v.blocks, West(c)).name # "lava"
  BY <1>2, <1>4, HardenAtRemembers DEF Changed
<1>6. Changed(v, s, D, {Below(c)}) /\ At(s.blocks, Below(c)).name # "lava"
  BY <1>3, <1>5, HardenAtRemembers DEF Changed
<1>7. s = HardenNext(w, c)
  BY <1>1, <1>2, <1>3 DEF HardenNext
<1>8. \A d \in Beside(c) \cup {Below(c)} : At(s.blocks, d).name # "lava"
  BY <1>4, <1>5, <1>6, NextToIs DEF Beside, Changed
<1>9. Changed(w, s, D, Beside(c) \cup {Below(c)})
  BY <1>4, <1>5, <1>6 DEF Beside, Changed
<1> QED
  BY <1>7, <1>8, <1>9

LEMMA SpreadToRemembers ==
  ASSUME NEW w, NEW D, Remembers(w, D), NEW d, d[2] \in 1 .. Height, NEW name \in {"water", "lava"}, NEW level \in Nat
  PROVE  LET s == SpreadTo(w, d, name, level) IN
         /\ Changed(w, s, D, {d})
         /\ ~Takes(At(s.blocks, d), name, level)
         /\ At(s.blocks, d) = At(w.blocks, d) \/ At(s.blocks, d).name = name
<1>1. CASE ~Takes(At(w.blocks, d), name, level)
  BY <1>1 DEF SpreadTo, Changed
<1>2. CASE Takes(At(w.blocks, d), name, level)
  <2>1. d \in Cells
    BY <1>2 DEF Takes, At, Stone, Air, Block
  <2>2. SpreadTo(w, d, name, level) = SetFluid(w, d, name, level)
    BY <1>2 DEF SpreadTo
  <2>3. ~Takes(Fluid(name, level), name, level) /\ Fluid(name, level).name = name
    BY DEF Takes, Fluid, Air, Block
  <2> QED
    BY <2>1, <2>2, <2>3, SetFluidRemembers
<1> QED
  BY <1>1, <1>2

\* A fluid that has moved or spread has no room left.
LEMMA FlowRemembers ==
  ASSUME NEW w, NEW D, Remembers(w, D), NEW c \in Cells, IsFluid(w.blocks[c])
  PROVE  LET s == Flow(w, c, w.blocks[c]) IN
         /\ Changed(w, s, D, Beside(c) \cup {Below(c)})
         /\ At(s.blocks, c) = w.blocks[c] /\ ~HasRoom(s.blocks, c)
         /\ \A e : At(s.blocks, e) = At(w.blocks, e) \/ At(s.blocks, e).name = w.blocks[c].name
<1>1. PICK b : b = w.blocks[c]
  OBVIOUS
<1>2. PICK name \in {"water", "lava"} : name = b.name
  BY <1>1 DEF IsFluid
<1>3. b \in BlockStates /\ b.level \in Nat /\ At(w.blocks, c) = b
  BY <1>1 DEF Remembers, Worlds, At, BlockStates
<1>4. PICK level \in Nat : level = SpreadLevel(b)
  <2>1. DropOff[b.name] \in Nat
    BY <1>2, BlocksAssumption
  <2> QED
    BY <1>3, <2>1 DEF SpreadLevel
<1>5. PICK s : s = Flow(w, c, b)
  OBVIOUS
<1>6. CASE FallsOnto(w.blocks, name, c)
  <2>1. s = SetFluid(w, Below(c), name, 8)
    BY <1>2, <1>5, <1>6 DEF Flow
  <2>2. Below(c) \in Cells /\ 8 \in Nat
    BY <1>6, NextToIs DEF FallsOnto
  <2>3. Changed(w, s, D, {Below(c)}) /\ At(s.blocks, Below(c)) = Fluid(name, 8)
    BY <2>1, <2>2, SetFluidRemembers
  <2>4. At(s.blocks, c) = b
    BY <1>3, <2>3, NextToIs DEF Changed
  <2>5. At(s.blocks, Below(c)).name = name /\ At(s.blocks, Below(c)) # Air
    BY <2>3 DEF Fluid, Air, Block
  <2>6. ~HasRoom(s.blocks, c)
    <3>1. s.blocks[c] = b
      BY <2>4 DEF At
    <3> QED
      BY <1>2, <1>6, <2>5, <3>1 DEF HasRoom, FallsOnto
  <2>7. Changed(w, s, D, Beside(c) \cup {Below(c)})
    BY <2>3 DEF Changed
  <2>8. \A e : At(s.blocks, e) = At(w.blocks, e) \/ At(s.blocks, e).name = name
    BY <2>3, <2>5 DEF Changed
  <2> QED
    BY <1>1, <1>2, <1>5, <2>4, <2>6, <2>7, <2>8
<1>7. CASE ~FallsOnto(w.blocks, name, c)
  <2>1. s = SpreadSideways(w, c, b)
    BY <1>2, <1>5, <1>7 DEF Flow
  <2>2. ~(c[2] > 1 /\ At(w.blocks, Below(c)) = Air)
    BY <1>7 DEF FallsOnto, Air, Block
  <2>3. CASE level > 7
    <3>1. s = w
      BY <1>4, <2>1, <2>3 DEF SpreadSideways
    <3>2. ~HasRoom(w.blocks, c)
      BY <1>1, <1>4, <2>2, <2>3 DEF HasRoom
    <3> QED
      BY <1>1, <1>3, <1>5, <3>1, <3>2 DEF Changed
  <2>4. CASE ~(level > 7)
    <3>1. PICK v : v = SpreadTo(w, East(c), name, level)
      OBVIOUS
    <3>2. s = SpreadTo(v, West(c), name, level)
      BY <1>2, <1>4, <2>1, <2>4, <3>1 DEF SpreadSideways
    <3>3. /\ Changed(w, v, D, {East(c)})
          /\ ~Takes(At(v.blocks, East(c)), name, level)
          /\ At(v.blocks, East(c)) = At(w.blocks, East(c)) \/ At(v.blocks, East(c)).name = name
      BY <3>1, NextToIs, SpreadToRemembers
    <3> Remembers(v, D)
      BY <3>3 DEF Changed
    <3>4. /\ Changed(v, s, D, {West(c)})
          /\ ~Takes(At(s.blocks, West(c)), name, level)
          /\ At(s.blocks, West(c)) = At(v.blocks, West(c)) \/ At(s.blocks, West(c)).name = name
      BY <3>2, NextToIs, SpreadToRemembers
    <3>5. At(s.blocks, c) = b /\ At(s.blocks, Below(c)) = At(w.blocks, Below(c))
      BY <1>3, <3>3, <3>4, NextToIs DEF Changed
    <3>6. \A d \in Beside(c) : ~Takes(At(s.blocks, d), name, level)
      BY <3>3, <3>4, NextToIs DEF Beside, Changed
    <3>7. ~HasRoom(s.blocks, c)
      <4>1. s.blocks[c] = b
        BY <3>5 DEF At
      <4> QED
        BY <1>2, <1>4, <2>2, <3>5, <3>6, <4>1 DEF HasRoom
    <3>8. \A e : At(s.blocks, e) = At(w.blocks, e) \/ At(s.blocks, e).name = name
      BY <3>3, <3>4 DEF Changed
    <3>9. Changed(w, s, D, Beside(c) \cup {Below(c)})
      BY <3>3, <3>4 DEF Changed, Beside
    <3> QED
      BY <1>1, <1>2, <1>5, <3>5, <3>7, <3>8, <3>9
  <2> QED
    BY <2>3, <2>4
<1> QED
  BY <1>6, <1>7

\* A fluid update has nothing left to do at c, or c is overlooked.
Stays(s, c) ==
  \/ c \in s.overlooked
  \/ ~HasRoom(s.blocks, c) /\ \A e \in Cells : ~Meet(s.blocks, c, e) /\ ~Meet(s.blocks, e, c)

LEMMA FlownStays ==
  ASSUME NEW w, NEW D, Remembers(w, D), NEW c \in Cells, IsFluid(w.blocks[c]),
         \A e \in Cells : ~Meet(w.blocks, c, e) /\ ~Meet(w.blocks, e, c)
  PROVE  Changed(w, Flow(w, c, w.blocks[c]), D, Beside(c) \cup {Below(c)}) /\ Stays(Flow(w, c, w.blocks[c]), c)
<1>1. PICK b : b = w.blocks[c]
  OBVIOUS
<1>2. PICK s : s = Flow(w, c, b)
  OBVIOUS
<1>3. /\ Changed(w, s, D, Beside(c) \cup {Below(c)})
      /\ At(s.blocks, c) = b /\ ~HasRoom(s.blocks, c)
      /\ \A e : At(s.blocks, e) = At(w.blocks, e) \/ At(s.blocks, e).name = b.name
  BY <1>1, <1>2, FlowRemembers
<1>4. s.blocks[c] = b
  BY <1>3 DEF At
<1>5. ASSUME NEW e \in Cells, Meet(s.blocks, c, e) PROVE FALSE
  <2>1. At(s.blocks, e) = At(w.blocks, e)
    BY <1>3, <1>4, <1>5 DEF Meet
  <2>2. Meet(w.blocks, c, e)
    BY <1>1, <1>4, <1>5, <2>1 DEF Meet
  <2> QED
    BY <2>2
<1>6. ASSUME NEW e \in Cells, Meet(s.blocks, e, c) PROVE FALSE
  <2>1. At(s.blocks, e) = s.blocks[e] /\ At(w.blocks, e) = w.blocks[e] /\ At(w.blocks, c) = b
    BY <1>1 DEF At
  <2>2. s.blocks[e] = w.blocks[e]
    BY <1>3, <1>6, <2>1 DEF Meet
  <2>3. Meet(w.blocks, e, c)
    BY <1>3, <1>6, <2>1, <2>2 DEF Meet
  <2> QED
    BY <2>3
<1> QED
  BY <1>1, <1>2, <1>3, <1>5, <1>6 DEF Stays

LEMMA WaterStays ==
  ASSUME NEW w, NEW D, Remembers(w, D), NEW c \in Cells, w.blocks[c].name = "water"
  PROVE  /\ Remembers(ProcessFluid(w, c), D) /\ w.overlooked \subseteq ProcessFluid(w, c).overlooked
         /\ Stays(ProcessFluid(w, c), c)
<1>1. PICK v : v = HardenNext(w, c)
  OBVIOUS
<1>2. /\ Changed(w, v, D, Beside(c) \cup {Below(c)})
      /\ \A d \in Beside(c) \cup {Below(c)} : At(v.blocks, d).name # "lava"
  BY <1>1, HardenNextRemembers
<1>3. v.blocks[c] = w.blocks[c]
  <2>1. c \notin Beside(c) \cup {Below(c)}
    BY NextToIs DEF Beside
  <2> QED
    BY <1>2, <2>1 DEF Changed, At
<1>4. ASSUME NEW e \in Cells PROVE ~Meet(v.blocks, c, e) /\ ~Meet(v.blocks, e, c)
  <2>1. ~Meet(v.blocks, c, e)
    BY <1>3 DEF Meet
  <2>2. ASSUME Meet(v.blocks, e, c) PROVE FALSE
    <3>1. e \in Beside(c) \cup {Below(c)}
      <4>1. c \in Beside(e) \/ c = Atop(e)
        BY <2>2 DEF Meet
      <4> QED
        BY <4>1, PlacesAre
    <3>2. At(v.blocks, e) = v.blocks[e]
      BY DEF At
    <3> QED
      BY <1>2, <2>2, <3>1, <3>2 DEF Meet
  <2> QED
    BY <2>1, <2>2
<1>5. Remembers(v, D) /\ IsFluid(v.blocks[c])
  BY <1>2, <1>3 DEF Changed, IsFluid
<1>6. PICK s : s = Flow(v, c, v.blocks[c])
  OBVIOUS
<1>7. Changed(v, s, D, Beside(c) \cup {Below(c)}) /\ Stays(s, c)
  BY <1>4, <1>5, <1>6, FlownStays
<1>8. s = ProcessFluid(w, c)
  BY <1>1, <1>3, <1>6 DEF ProcessFluid
<1>9. Remembers(s, D) /\ w.overlooked \subseteq s.overlooked
  BY <1>2, <1>7 DEF Changed
<1> QED
  BY <1>7, <1>8, <1>9

LEMMA LavaStays ==
  ASSUME NEW w, NEW D, Remembers(w, D), NEW c \in Cells, w.blocks[c].name = "lava"
  PROVE  /\ Remembers(ProcessFluid(w, c), D) /\ w.overlooked \subseteq ProcessFluid(w, c).overlooked
         /\ Stays(ProcessFluid(w, c), c)
<1>1. PICK b : b = w.blocks[c]
  OBVIOUS
<1>2. PICK s : s = ProcessLava(w, c, b)
  OBVIOUS
<1>3. s = ProcessFluid(w, c)
  BY <1>1, <1>2 DEF ProcessFluid
<1>4. CASE \E d \in Beside(c) \cup {Atop(c)} : At(w.blocks, d).name = "water"
  <2>1. PICK h : h = HardenedLava(b)
    OBVIOUS
  <2>2. h \in BlockStates /\ ~IsPressed(h) /\ h.name \notin {"lava", "water"}
    <3>1. Block("obsidian").name = "obsidian" /\ Block("cobblestone").name = "cobblestone"
      BY DEF Block
    <3> QED
      BY <2>1, <3>1, BlocksAre DEF HardenedLava
  <2>3. s = SetBlock(w, c, h)
    BY <1>2, <1>4, <2>1 DEF ProcessLava
  <2>4. Changed(w, s, D, {c}) /\ At(s.blocks, c) = h
    BY <2>2, <2>3, SetBlockRemembers
  <2>5. s.blocks[c] = h
    BY <2>4 DEF At
  <2>6. Stays(s, c)
    BY <2>2, <2>4, <2>5 DEF Stays, HasRoom, Meet, IsFluid
  <2> QED
    BY <1>3, <2>4, <2>6 DEF Changed
<1>5. CASE ~(\E d \in Beside(c) \cup {Atop(c)} : At(w.blocks, d).name = "water") /\ At(w.blocks, Below(c)).name = "water"
  <2>1. s = SetBlock(w, Below(c), Stone)
    BY <1>2, <1>5 DEF ProcessLava
  <2>2. Below(c) \in Cells
    BY <1>5, AtIs DEF Remembers, Worlds, IsFluid
  <2>3. Changed(w, s, D, {Below(c)}) /\ At(s.blocks, Below(c)) = Stone /\ Floored(s.blocks, Below(c)) \subseteq s.overlooked
    BY <2>1, <2>2, BlocksAre, SetBlockRemembers
  <2>4. Atop(Below(c)) = c
    BY <2>2, PlacesAre
  <2>5. At(s.blocks, c) = b
    BY <1>1, <2>3, NextToIs DEF Changed, At
  <2>6. c \in Floored(s.blocks, Below(c))
    <3>1. s.blocks[Below(c)] = Stone
      BY <2>2, <2>3 DEF At
    <3>2. ~IsOpen(Stone)
      BY DEF IsOpen, IsFluid, Stone, Air, Block
    <3>3. IsFluid(b)
      BY <1>1 DEF IsFluid
    <3> QED
      BY <2>4, <2>5, <3>1, <3>2, <3>3 DEF Floored
  <2> QED
    BY <1>3, <2>3, <2>6 DEF Changed, Stays
<1>6. CASE ~(\E d \in Beside(c) \cup {Atop(c)} : At(w.blocks, d).name = "water") /\ At(w.blocks, Below(c)).name # "water"
  <2>1. s = Flow(w, c, b)
    BY <1>2, <1>6 DEF ProcessLava
  <2>2. IsFluid(w.blocks[c])
    BY DEF IsFluid
  <2>3. ASSUME NEW e \in Cells PROVE ~Meet(w.blocks, c, e) /\ ~Meet(w.blocks, e, c)
    <3>1. ~Meet(w.blocks, c, e)
      BY <1>6 DEF Meet
    <3>2. ~Meet(w.blocks, e, c)
      BY DEF Meet, At
    <3> QED
      BY <3>1, <3>2
  <2>4. Changed(w, s, D, Beside(c) \cup {Below(c)}) /\ Stays(s, c)
    BY <1>1, <2>1, <2>2, <2>3, FlownStays
  <2> QED
    BY <1>3, <2>4 DEF Changed
<1> QED
  BY <1>4, <1>5, <1>6

LEMMA FluidStays ==
  ASSUME NEW w, NEW D, Remembers(w, D), NEW c \in Cells
  PROVE  /\ Remembers(ProcessFluid(w, c), D) /\ w.overlooked \subseteq ProcessFluid(w, c).overlooked
         /\ Stays(ProcessFluid(w, c), c)
<1>1. CASE ~IsFluid(w.blocks[c])
  <2>1. ProcessFluid(w, c) = w
    BY <1>1 DEF ProcessFluid, IsFluid
  <2>2. Stays(w, c)
    BY <1>1 DEF Stays, HasRoom, Meet, At, IsFluid
  <2> QED
    BY <2>1, <2>2
<1> QED
  BY <1>1, WaterStays, LavaStays DEF IsFluid

\* The update that d asks for is not needed any more.
Served(s, d) ==
  \/ d.at \in s.overlooked
  \/ s.pending[d.at].kind = d.kind
  \/ /\ d.kind = "fall" => ~Unsupported(s.blocks, d.at)
     /\ d.kind = "fluid" => Stays(s, d.at)
     /\ d.kind = "ice" => s.blocks[d.at].name # "ice"
     /\ d.kind = "button" => ~IsPressed(s.blocks[d.at])

LEMMA ServedMayGo ==
  ASSUME NEW s, NEW D, Remembers(s, D), NEW d \in [at : Cells, kind : TickKinds], Served(s, d)
  PROVE  Remembers(s, D \ {d})
<1>1. PICK E : E = D \ {d}
  OBVIOUS
<1>2. ASSUME NEW e \in Cells, NEW k \in TickKinds, e # d.at \/ k # d.kind, Ticking(s, D, e, k)
      PROVE  Ticking(s, E, e, k)
  <2>1. [at |-> e, kind |-> k] # d
    BY <1>2
  <2> QED
    BY <1>1, <1>2, <2>1 DEF Ticking
<1>3. {"fall", "fluid", "ice", "button"} \subseteq TickKinds
  BY DEF TickKinds
<1>4. CASE s.pending[d.at].kind = d.kind
  <2>1. ASSUME NEW e \in Cells, NEW k \in TickKinds, Ticking(s, D, e, k) PROVE Ticking(s, E, e, k)
    BY <1>2, <1>4, <2>1 DEF Ticking
  <2>2. Careful(s, E)
    BY <1>3, <2>1 DEF Remembers, Careful
  <2> QED
    BY <1>1, <2>2 DEF Remembers
<1>5. CASE d.at \in s.overlooked
  <2>1. ASSUME NEW e \in Cells \ s.overlooked, NEW k \in TickKinds, Ticking(s, D, e, k) PROVE Ticking(s, E, e, k)
    BY <1>2, <1>5, <2>1
  <2>2. Careful(s, E)
    BY <1>3, <2>1 DEF Remembers, Careful
  <2> QED
    BY <1>1, <2>2 DEF Remembers
<1>6. CASE /\ d.at \notin s.overlooked
           /\ d.kind = "fall" => ~Unsupported(s.blocks, d.at)
           /\ d.kind = "fluid" => Stays(s, d.at)
           /\ d.kind = "ice" => s.blocks[d.at].name # "ice"
           /\ d.kind = "button" => ~IsPressed(s.blocks[d.at])
  <2> SUFFICES ASSUME NEW e \in Cells \ s.overlooked
               PROVE  /\ Unsupported(s.blocks, e) => Ticking(s, E, e, "fall")
                      /\ HasRoom(s.blocks, e) => Ticking(s, E, e, "fluid")
                      /\ s.blocks[e].name = "ice" => Ticking(s, E, e, "ice")
                      /\ IsPressed(s.blocks[e]) => Ticking(s, E, e, "button")
                      /\ \A f \in Cells \ s.overlooked :
                           Meet(s.blocks, e, f) => Ticking(s, E, e, "fluid") \/ Ticking(s, E, f, "fluid")
    BY <1>1 DEF Remembers, Careful
  <2>1. /\ Unsupported(s.blocks, e) => Ticking(s, D, e, "fall")
        /\ HasRoom(s.blocks, e) => Ticking(s, D, e, "fluid")
        /\ s.blocks[e].name = "ice" => Ticking(s, D, e, "ice")
        /\ IsPressed(s.blocks[e]) => Ticking(s, D, e, "button")
        /\ \A f \in Cells \ s.overlooked :
             Meet(s.blocks, e, f) => Ticking(s, D, e, "fluid") \/ Ticking(s, D, f, "fluid")
    BY DEF Remembers, Careful
  <2>2. Unsupported(s.blocks, e) => Ticking(s, E, e, "fall")
    BY <1>2, <1>3, <1>6, <2>1
  <2>3. HasRoom(s.blocks, e) => Ticking(s, E, e, "fluid")
    BY <1>2, <1>3, <1>6, <2>1 DEF Stays
  <2>4. s.blocks[e].name = "ice" => Ticking(s, E, e, "ice")
    BY <1>2, <1>3, <1>6, <2>1
  <2>5. IsPressed(s.blocks[e]) => Ticking(s, E, e, "button")
    BY <1>2, <1>3, <1>6, <2>1
  <2>6. ASSUME NEW f \in Cells \ s.overlooked, Meet(s.blocks, e, f)
        PROVE  Ticking(s, E, e, "fluid") \/ Ticking(s, E, f, "fluid")
    <3>1. d.kind = "fluid" => e # d.at /\ f # d.at
      BY <1>6, <2>6 DEF Stays
    <3>2. Ticking(s, D, e, "fluid") \/ Ticking(s, D, f, "fluid")
      BY <2>1, <2>6
    <3> QED
      BY <1>2, <1>3, <3>1, <3>2
  <2> QED
    BY <2>2, <2>3, <2>4, <2>5, <2>6
<1> QED
  BY <1>4, <1>5, <1>6 DEF Served

LEMMA ProcessedServes ==
  ASSUME NEW w, NEW D, Remembers(w, D), NEW d \in [at : Cells, kind : TickKinds]
  PROVE  Remembers(Processed(w, d), D) /\ Served(Processed(w, d), d)
<1>1. PICK c \in Cells : c = d.at
  OBVIOUS
<1>2. PICK s : s = Processed(w, d)
  OBVIOUS
<1>3. w \in Worlds /\ w.blocks[c] \in BlockStates /\ At(w.blocks, c) = w.blocks[c]
  BY DEF Remembers, Worlds, At
<1>4. CASE d.kind = "fall"
  <2>1. s = ProcessFall(w, c)
    BY <1>1, <1>2, <1>4 DEF Processed
  <2>2. CASE CanFall(w.blocks, c)
    <3>1. s = SetBlock(w, c, Air)
      BY <2>1, <2>2 DEF ProcessFall
    <3>2. Changed(w, s, D, {c}) /\ At(s.blocks, c) = Air
      BY <3>1, BlocksAre, SetBlockRemembers
    <3>3. ~Unsupported(s.blocks, c)
      BY <3>2 DEF Unsupported, IsGravity, At, Air, Block
    <3> QED
      BY <1>1, <1>2, <1>4, <3>2, <3>3 DEF Changed, Served
  <2>3. CASE ~CanFall(w.blocks, c)
    <3>1. s = w
      BY <2>1, <2>3 DEF ProcessFall
    <3>2. ~Unsupported(w.blocks, c)
      BY <2>3 DEF CanFall, Unsupported, IsOpen
    <3> QED
      BY <1>1, <1>2, <1>4, <3>1, <3>2 DEF Served
  <2> QED
    BY <2>2, <2>3
<1>5. CASE d.kind = "fluid"
  <2>1. s = ProcessFluid(w, c)
    BY <1>1, <1>2, <1>5 DEF Processed
  <2>2. Remembers(s, D) /\ Stays(s, c)
    BY <2>1, FluidStays
  <2> QED
    BY <1>1, <1>2, <1>5, <2>2 DEF Served
<1>6. CASE d.kind = "leaf"
  <2>1. s = ProcessLeaf(w, c)
    BY <1>1, <1>2, <1>6 DEF Processed
  <2>2. Served(s, d)
    BY <1>6 DEF Served
  <2>3. CASE ~IsLeaf(w.blocks[c]) \/ LogInReach(w.blocks, c)
    BY <1>2, <2>1, <2>2, <2>3 DEF ProcessLeaf
  <2>4. CASE ~(~IsLeaf(w.blocks[c]) \/ LogInReach(w.blocks, c))
    <3>1. PICK v : v = SetBlock(w, c, Air)
      OBVIOUS
    <3>2. PICK r : r = {Request(e, "leaf", LeafDelay) : e \in {f \in Around(c) : IsLeaf(At(w.blocks, f))}}
      OBVIOUS
    <3>3. s = ScheduleAll(v, r)
      BY <2>1, <2>4, <3>1, <3>2 DEF ProcessLeaf
    <3>4. Asking(r)
      BY <3>2, DelaysAre DEF Asking, Request, TickKinds
    <3>5. Remembers(v, D)
      BY <3>1, BlocksAre, SetBlockRemembers DEF Changed
    <3>6. s \in Worlds
      BY <3>3, <3>4, <3>5, ScheduleAllKeeps DEF Remembers
    <3>7. Careful(s, D)
      BY <3>3, <3>4, <3>5, ScheduleAllCareful DEF Remembers
    <3> QED
      BY <1>2, <2>2, <3>6, <3>7 DEF Remembers
  <2> QED
    BY <2>3, <2>4
<1>7. CASE d.kind = "ice"
  <2>1. s = ProcessIce(w, c)
    BY <1>1, <1>2, <1>7 DEF Processed
  <2>2. CASE w.blocks[c].name = "ice"
    <3>1. s = SetFluid(w, c, "water", 0)
      BY <2>1, <2>2 DEF ProcessIce
    <3>2. Changed(w, s, D, {c}) /\ At(s.blocks, c) = Fluid("water", 0)
      BY <3>1, SetFluidRemembers
    <3>3. s.blocks[c].name # "ice"
      BY <3>2 DEF At, Fluid
    <3> QED
      BY <1>1, <1>2, <1>7, <3>2, <3>3 DEF Changed, Served
  <2>3. CASE w.blocks[c].name # "ice"
    BY <1>1, <1>2, <1>7, <2>1, <2>3 DEF ProcessIce, Served
  <2> QED
    BY <2>2, <2>3
<1>8. CASE d.kind = "button"
  <2>1. s = ProcessButton(w, c)
    BY <1>1, <1>2, <1>8 DEF Processed
  <2>2. CASE IsPressed(w.blocks[c])
    <3>1. s = SetBlock(w, c, Block("button"))
      BY <2>1, <2>2 DEF ProcessButton
    <3>2. Changed(w, s, D, {c}) /\ At(s.blocks, c) = Block("button")
      BY <3>1, BlocksAre, SetBlockRemembers
    <3>3. ~IsPressed(s.blocks[c])
      BY <3>2, BlocksAre DEF At
    <3> QED
      BY <1>1, <1>2, <1>8, <3>2, <3>3 DEF Changed, Served
  <2>3. CASE ~IsPressed(w.blocks[c])
    BY <1>1, <1>2, <1>8, <2>1, <2>3 DEF ProcessButton, Served
  <2> QED
    BY <2>2, <2>3
<1> QED
  BY <1>4, <1>5, <1>6, <1>7, <1>8 DEF TickKinds

---------------------------------------------------------------------------
(* The steps.                                                              *)

\* Counting down takes no tick away but to make it due.
LEMMA TickRemembers ==
  ASSUME TypeOK, Remembers(world, due), Tick
  PROVE  /\ Remembers(world', due') /\ due' \subseteq [at : Cells, kind : TickKinds]
         /\ world'.blocks = world.blocks /\ world'.overlooked = world.overlooked
         /\ \A c \in Cells :
              /\ world'.pending[c].kind \in {world.pending[c].kind, "none"}
              /\ \A k \in TickKinds : Ticking(world, due, c, k) => Ticking(world', due', c, k)
<1>1. PICK aged : aged = [c \in Cells |-> Age(world.pending[c])]
  OBVIOUS
<1>2. PICK p : p = [c \in Cells |-> IF IsDue(aged[c]) THEN NoTick ELSE aged[c]]
  OBVIOUS
<1>3. PICK D : D = {[at |-> c, kind |-> aged[c].kind] : c \in {d \in Cells : IsDue(aged[d])}}
  OBVIOUS
<1>4. due = {} /\ due' = D /\ world' = [world EXCEPT !.pending = p]
  BY <1>1, <1>2, <1>3 DEF Tick
<1>5. ASSUME NEW c \in Cells
      PROVE  /\ p[c] \in SomeTick \cup {NoTick}
             /\ p[c].kind \in {world.pending[c].kind, "none"}
             /\ IsDue(aged[c]) => aged[c].kind \in TickKinds
             /\ world.pending[c].kind \in TickKinds =>
                  p[c].kind = world.pending[c].kind \/ [at |-> c, kind |-> world.pending[c].kind] \in D
  <2>1. world.pending[c] \in SomeTick \cup {NoTick} /\ aged[c] = Age(world.pending[c])
    BY <1>1 DEF Remembers, Worlds
  <2>2. p[c] = IF IsDue(aged[c]) THEN NoTick ELSE aged[c]
    BY <1>2
  <2>3. CASE world.pending[c] = NoTick
    <3>1. aged[c] = NoTick /\ ~IsDue(aged[c])
      BY <2>1, <2>3 DEF Age, IsDue
    <3>2. p[c].kind = "none"
      BY <2>2, <3>1 DEF NoTick
    <3> QED
      BY <2>2, <2>3, <3>1, <3>2, NoTickIs
  <2>4. CASE world.pending[c] \in SomeTick
    <3>1. PICK k \in TickKinds, n \in Nat \ {0} : world.pending[c] = [kind |-> k, left |-> n]
      BY <2>4 DEF SomeTick
    <3>2. aged[c] = [kind |-> k, left |-> n - 1]
      BY <2>1, <2>4, <3>1, NoTickIs DEF Age
    <3>3. aged[c] # NoTick
      BY <3>2 DEF NoTick, TickKinds
    <3>4. CASE IsDue(aged[c])
      <4>1. [at |-> c, kind |-> aged[c].kind] \in D
        BY <1>3, <3>4
      <4>2. p[c].kind = "none"
        BY <2>2, <3>4 DEF NoTick
      <4> QED
        BY <2>2, <3>1, <3>2, <3>4, <4>1, <4>2
    <3>5. CASE ~IsDue(aged[c])
      <4>1. n - 1 \in Nat \ {0}
        BY <3>2, <3>3, <3>5 DEF IsDue
      <4>2. p[c] = [kind |-> k, left |-> n - 1]
        BY <2>2, <3>2, <3>5
      <4> QED
        BY <3>1, <3>5, <4>1, <4>2 DEF SomeTick
    <3> QED
      BY <3>4, <3>5
  <2> QED
    BY <2>1, <2>3, <2>4
<1>6. p \in [Cells -> SomeTick \cup {NoTick}]
  BY <1>2, <1>5
<1>7. /\ world' \in Worlds /\ world'.blocks = world.blocks
      /\ world'.overlooked = world.overlooked /\ world'.pending = p
  BY <1>4, <1>6 DEF Remembers, Worlds
<1>8. ASSUME NEW c \in Cells, NEW k \in TickKinds, Ticking(world, {}, c, k) PROVE Ticking(world', D, c, k)
  BY <1>5, <1>7, <1>8 DEF Ticking
<1>9. {"fall", "fluid", "ice", "button"} \subseteq TickKinds
  BY DEF TickKinds
<1>10. PICK v : v = world'
  OBVIOUS
<1>11. Careful(v, D)
  BY <1>4, <1>7, <1>8, <1>9, <1>10 DEF Remembers, Careful
<1>12. D \subseteq [at : Cells, kind : TickKinds]
  <2>1. ASSUME NEW x \in D PROVE x \in [at : Cells, kind : TickKinds]
    <3>1. PICK c \in Cells : x = [at |-> c, kind |-> aged[c].kind] /\ IsDue(aged[c])
      BY <1>3
    <3>2. aged[c].kind \in TickKinds
      BY <1>5, <3>1
    <3> QED
      BY <3>1, <3>2
  <2> QED
    BY <2>1
<1> QED
  BY <1>4, <1>5, <1>7, <1>8, <1>10, <1>11, <1>12 DEF Remembers

\* A button is asked for by its press, after it is set.
LEMMA PressRemembers ==
  ASSUME NEW w, NEW D, Remembers(w, D), NEW c \in Cells,
         NEW b \in BlockStates, NEW q, q = {Request(c, "button", ButtonDelay)}
  PROVE  Remembers(ScheduleAll(SetBlock(w, c, b), q), D)
<1>1. PICK d \in [at : Cells, kind : TickKinds] : d = [at |-> c, kind |-> "button"]
  BY DEF TickKinds
<1>2. CASE d \in D
  <2>1. PICK v : v = SetBlock(w, c, b)
    OBVIOUS
  <2>2. v \in Worlds /\ Careful(v, D)
    BY <1>1, <1>2, <2>1, SetBlockDoes, SetBlockCareful DEF Remembers
  <2>3. Asking(q)
    BY DelaysAre DEF Asking, Request, TickKinds
  <2> QED
    BY <2>1, <2>2, <2>3, ScheduleAllKeeps, ScheduleAllCareful DEF Remembers
<1>3. CASE d \notin D
  <2>1. PICK E : E = D \cup {d}
    OBVIOUS
  <2>2. Careful(w, E)
    <3>1. ASSUME NEW e \in Cells, NEW k, Ticking(w, D, e, k) PROVE Ticking(w, E, e, k)
      BY <2>1, <3>1 DEF Ticking
    <3> QED
      BY <3>1 DEF Remembers, Careful
  <2>3. PICK v : v = SetBlock(w, c, b)
    OBVIOUS
  <2>4. v \in Worlds
    BY <2>3, SetBlockDoes DEF Remembers
  <2>5. Careful(v, E)
    BY <1>1, <2>1, <2>2, <2>3, SetBlockCareful DEF Remembers
  <2>6. Asking(q)
    BY DelaysAre DEF Asking, Request, TickKinds
  <2>7. PICK s : s = ScheduleAll(v, q)
    OBVIOUS
  <2>8. Remembers(s, E)
    BY <2>4, <2>5, <2>6, <2>7, ScheduleAllKeeps, ScheduleAllCareful DEF Remembers
  <2>9. Served(s, d)
    <3>1. CASE c \in s.overlooked
      BY <1>1, <3>1 DEF Served
    <3>2. CASE c \notin s.overlooked
      <4>1. \A r \in q : r.at = c => s.pending[c].kind = r.kind
        BY <2>4, <2>6, <2>7, <3>2, ScheduleAllKeeps
      <4>2. s.pending[c].kind = "button"
        BY <4>1 DEF Request
      <4> QED
        BY <1>1, <4>2 DEF Served
    <3> QED
      BY <3>1, <3>2
  <2>10. Remembers(s, E \ {d})
    BY <2>8, <2>9, ServedMayGo
  <2>11. E \ {d} = D
    BY <1>3, <2>1
  <2> QED
    BY <2>3, <2>7, <2>10, <2>11
<1> QED
  BY <1>2, <1>3

LEMMA CellsAreFinite == IsFiniteSet(Cells)
<1>1. IsFiniteSet(1 .. Width) /\ IsFiniteSet(1 .. Height)
  BY SizesAssumption, FS_Interval
<1> QED
  BY <1>1, FS_Product DEF Cells

LEMMA SandIsCounted == ASSUME NEW g PROVE SandIn(g) \in Nat
<1>1. IsFiniteSet({c \in Cells : g[c].name = "sand"})
  BY CellsAreFinite, FS_Subset
<1> QED
  BY <1>1, FS_CardinalityType DEF SandIn

LEMMA TicksStart == TicksInit => TypeOK /\ Remembers(world, due)
<1> SUFFICES ASSUME TicksInit PROVE TypeOK /\ Remembers(world, due)
  OBVIOUS
<1>1. PICK g \in Scenes : world = [blocks |-> g, pending |-> Quiet, overlooked |-> {}]
  BY DEF TicksInit
<1>2. world \in Worlds
  BY <1>1, BlocksAssumption DEF Worlds, Quiet
<1>3. Careful(world, due)
  <2>1. \A c \in Cells : /\ ~Unsupported(g, c) /\ ~HasRoom(g, c) /\ g[c].name # "ice" /\ ~IsPressed(g[c])
                         /\ \A d \in Cells : ~Meet(g, c, d)
    BY BlocksAssumption DEF Resting
  <2> QED
    BY <1>1, <2>1 DEF Careful
<1>4. sand \in Int
  BY SandIsCounted DEF TicksInit
<1>5. due = {} /\ edits \in 0 .. MaxEdits /\ cut \in BOOLEAN /\ meddled \in BOOLEAN
  <2>1. due = {} /\ edits = 0 /\ cut = FALSE /\ meddled = FALSE
    BY DEF TicksInit
  <2>2. edits \in 0 .. MaxEdits
    BY <2>1, SizesAssumption
  <2>3. cut \in BOOLEAN /\ meddled \in BOOLEAN
    BY <2>1
  <2> QED
    BY <2>1, <2>2, <2>3
<1> QED
  BY <1>2, <1>3, <1>4, <1>5 DEF TypeOK, Remembers

LEMMA TicksStep == TypeOK /\ Remembers(world, due) /\ [TicksNext]_ticksVars => TypeOK' /\ Remembers(world', due')
<1> SUFFICES ASSUME TypeOK, Remembers(world, due), [TicksNext]_ticksVars PROVE TypeOK' /\ Remembers(world', due')
  OBVIOUS
<1>1. /\ world \in Worlds /\ due \subseteq [at : Cells, kind : TickKinds]
      /\ edits \in 0 .. MaxEdits /\ sand \in Int /\ cut \in BOOLEAN /\ meddled \in BOOLEAN
  BY DEF TypeOK
<1> SUFFICES /\ Remembers(world', due') /\ due' \subseteq [at : Cells, kind : TickKinds]
             /\ edits' \in 0 .. MaxEdits /\ sand' \in Int /\ cut' \in BOOLEAN /\ meddled' \in BOOLEAN
  BY DEF TypeOK, Remembers
<1>2. CASE Tick
  BY <1>1, <1>2, TickRemembers DEF Tick
<1>3. CASE Process
  <2>1. PICK d \in due : /\ world' = Processed(world, d) /\ due' = due \ {d}
                       /\ UNCHANGED <<edits, sand, cut>> /\ meddled' \in BOOLEAN
    BY <1>3 DEF Process
  <2>2. PICK s : s = Processed(world, d)
    OBVIOUS
  <2>3. d \in [at : Cells, kind : TickKinds]
    BY <1>1
  <2>4. Remembers(s, due) /\ Served(s, d)
    BY <2>2, <2>3, ProcessedServes
  <2>5. Remembers(s, due \ {d})
    BY <2>3, <2>4, ServedMayGo
  <2> QED
    BY <1>1, <2>1, <2>2, <2>5
<1>4. CASE MoveEntity
  BY <1>1, <1>4 DEF MoveEntity
<1>5. CASE Land
  <2>1. PICK e \in falling : /\ world' = SetBlock(world, <<e.x, e.y>>, Block("sand"))
                             /\ sand' = sand - (IF <<e.x, e.y>> \in Cells THEN 0 ELSE 1)
                             /\ UNCHANGED <<due, edits, meddled>> /\ cut' \in BOOLEAN
    BY <1>5 DEF Land
  <2>2. PICK c : c = <<e.x, e.y>>
    OBVIOUS
  <2>3. PICK s : s = SetBlock(world, c, Block("sand"))
    OBVIOUS
  <2>4. Remembers(s, due)
    <3>1. CASE c \in Cells
      BY <2>3, <3>1, BlocksAre, SetBlockRemembers DEF Changed
    <3>2. CASE c \notin Cells
      BY <2>3, <3>2 DEF SetBlock
    <3> QED
      BY <3>1, <3>2
  <2> QED
    BY <1>1, <2>1, <2>2, <2>3, <2>4
<1>6. ASSUME NEW c \in Cells, Break(c)
      PROVE  /\ Remembers(world', due') /\ due' \subseteq [at : Cells, kind : TickKinds]
             /\ edits' \in 0 .. MaxEdits /\ sand' \in Int /\ cut' \in BOOLEAN /\ meddled' \in BOOLEAN
  <2>1. PICK s : s = SetBlock(world, c, Air)
    OBVIOUS
  <2>2. Remembers(s, due)
    BY <2>1, BlocksAre, SetBlockRemembers DEF Changed
  <2> QED
    BY <1>1, <1>6, <2>1, <2>2, SizesAssumption DEF Break
<1>7. ASSUME NEW c \in Cells, Press(c)
      PROVE  /\ Remembers(world', due') /\ due' \subseteq [at : Cells, kind : TickKinds]
             /\ edits' \in 0 .. MaxEdits /\ sand' \in Int /\ cut' \in BOOLEAN /\ meddled' \in BOOLEAN
  <2>1. PICK b \in BlockStates : b = [name |-> "button", level |-> 1]
    BY DEF BlockStates, BlockNames
  <2>2. PICK q : q = {Request(c, "button", ButtonDelay)}
    OBVIOUS
  <2>3. PICK s : s = ScheduleAll(SetBlock(world, c, b), q)
    OBVIOUS
  <2>4. Remembers(s, due)
    BY <2>2, <2>3, PressRemembers
  <2>5. world' = s
    BY <1>7, <2>1, <2>2, <2>3 DEF Press, Schedule
  <2> QED
    BY <1>1, <1>7, <2>4, <2>5, SizesAssumption DEF Press
<1>8. ASSUME NEW c \in Cells, NEW b \in Placeable, Place(c, b)
      PROVE  /\ Remembers(world', due') /\ due' \subseteq [at : Cells, kind : TickKinds]
             /\ edits' \in 0 .. MaxEdits /\ sand' \in Int /\ cut' \in BOOLEAN /\ meddled' \in BOOLEAN
  <2>1. PICK s : s = SetBlock(world, c, b)
    OBVIOUS
  <2>2. b \in BlockStates /\ ~IsPressed(b)
    BY BlocksAssumption
  <2>3. Remembers(s, due)
    BY <2>1, <2>2, SetBlockRemembers DEF Changed
  <2> QED
    BY <1>1, <1>8, <2>1, <2>3, SizesAssumption DEF Place
<1>9. CASE UNCHANGED ticksVars
  BY <1>1, <1>9 DEF ticksVars
<1> QED
  BY <1>2, <1>3, <1>4, <1>5, <1>6, <1>7, <1>8, <1>9 DEF TicksNext, Edit

\* block_physics.go: a cell has at most one tick, of a kind and with ticks left, and
\* what is due has a kind and a place.
THEOREM TicksTypeCorrect == TicksSpec => []TypeOK
<1>1. TypeOK /\ Remembers(world, due) /\ [TicksNext]_ticksVars => (TypeOK /\ Remembers(world, due))'
  BY TicksStep
<1> QED
  BY TicksStart, <1>1, PTL DEF TicksSpec

\* world.go:1361: whatever is placed, broken and pressed while the tick is at work, and
\* in whatever order the updates of a tick run, what the rules would still change has its
\* tick; where the queue has room for one tick only, the cell is among the overlooked.
THEOREM NothingEverForgotten == TicksSpec => []NothingIsForgotten
<1>1. TypeOK /\ Remembers(world, due) /\ [TicksNext]_ticksVars => (TypeOK /\ Remembers(world, due))'
  BY TicksStep
<1>2. Remembers(world, due) => NothingIsForgotten
  BY CarefulIs DEF Remembers
<1> QED
  BY TicksStart, <1>1, <1>2, PTL DEF TicksSpec

---------------------------------------------------------------------------
(* Trees: as long as no leaf is taken away, leaves that hang together are  *)
(* by a log or one of them is going to be checked.  A leaf has had no tick *)
(* but a leaf tick, so that it is never overlooked.                        *)

Shaded(w) == \A c \in Leaves(w.blocks) : c \notin w.overlooked /\ w.pending[c].kind \in {"leaf", "none"}
Tended(w, D) ==
  /\ w \in Worlds /\ Shaded(w)
  /\ \A S \in Groves(w.blocks) : \E c \in S : ByLogs(w.blocks, c) \/ Ticking(w, D, c, "leaf")

LEMMA LeavesAre ==
  /\ "leaf" \in TickKinds
  /\ \A b : IsLeaf(b) => ~IsLog(b) /\ ~IsOpen(b) /\ ~IsGravity(b) /\ b.name \notin {"lava", "water", "ice", "button"}
  /\ ~IsLeaf(Air) /\ ~IsLeaf(Stone)
  /\ \A name, level : name # "leaves" => ~IsLeaf(Fluid(name, level)) /\ ~IsLeaf(Block(name))
<1>1. \A b : IsLeaf(b) => ~IsLog(b) /\ ~IsGravity(b) /\ b.name \notin {"lava", "water", "ice", "button"}
  BY DEF IsLeaf, IsLog, IsGravity
<1>2. \A b : IsLeaf(b) => ~IsOpen(b)
  BY DEF IsLeaf, IsOpen, IsFluid, Air, Block
<1>3. ~IsLeaf(Air) /\ ~IsLeaf(Stone) /\ \A name, level : name # "leaves" => ~IsLeaf(Fluid(name, level)) /\ ~IsLeaf(Block(name))
  BY DEF IsLeaf, Air, Stone, Block, Fluid
<1> QED
  BY <1>1, <1>2, <1>3 DEF TickKinds

LEMMA ScheduleAllTends ==
  ASSUME NEW w, NEW D, Tended(w, D), NEW requests, Asking(requests),
         \A c \in Leaves(w.blocks) : OnlyAsked(requests, c, "leaf")
  PROVE  Tended(ScheduleAll(w, requests), D)
<1>1. PICK s : s = ScheduleAll(w, requests)
  OBVIOUS
<1>2. w \in Worlds /\ Shaded(w) /\ \A S \in Groves(w.blocks) : S \subseteq Leaves(w.blocks)
  BY DEF Tended, Groves
<1>3. Leaves(w.blocks) \subseteq Cells
  BY DEF Leaves
<1>4. /\ s \in Worlds /\ s.blocks = w.blocks
      /\ \A c \in Cells \ s.overlooked : \A k \in TickKinds : w.pending[c].kind = k => s.pending[c].kind = k
      /\ \A c \in Cells \ w.overlooked, k \in TickKinds :
           OnlyAsked(requests, c, k) /\ w.pending[c].kind \in {k, "none"}
             => c \notin s.overlooked /\ s.pending[c].kind \in {k, "none"}
  BY <1>1, <1>2, ScheduleAllKeeps
<1>5. Shaded(s)
  BY <1>2, <1>3, <1>4, LeavesAre DEF Shaded
<1>6. \A c \in Leaves(w.blocks) : Ticking(w, D, c, "leaf") => Ticking(s, D, c, "leaf")
  BY <1>3, <1>4, <1>5, LeavesAre DEF Ticking, Shaded
<1> QED
  BY <1>1, <1>2, <1>4, <1>5, <1>6 DEF Tended

\* A block that is no leaf changes nothing for the leaves, other than to take their log.
LEMMA SetBlockShades ==
  ASSUME NEW w \in Worlds, Shaded(w), NEW c \in Cells, NEW b \in BlockStates, ~IsLeaf(b)
  PROVE  LET s == SetBlock(w, c, b) IN
         /\ s \in Worlds /\ Shaded(s) /\ s.blocks = [w.blocks EXCEPT ![c] = b]
         /\ Leaves(s.blocks) = Leaves(w.blocks) \ {c}
         /\ \A D : \A e \in Leaves(s.blocks) : Ticking(w, D, e, "leaf") => Ticking(s, D, e, "leaf")
         /\ IsLog(w.blocks[c]) /\ ~IsLog(b) =>
              \A e \in Leaves(s.blocks) \cap Around(c) : s.pending[e].kind = "leaf"
<1>1. PICK s : s = SetBlock(w, c, b)
  OBVIOUS
<1>2. /\ s \in Worlds /\ s.blocks = [w.blocks EXCEPT ![c] = b]
      /\ \A e \in Cells \ s.overlooked :
           /\ \A k \in TickKinds : w.pending[e].kind = k => s.pending[e].kind = k
           /\ \A r \in Wanted(w.blocks[c], s.blocks, c) : r.at = e => s.pending[e].kind = r.kind
      /\ \A e \in Leaves(s.blocks) \ w.overlooked :
           w.pending[e].kind \in {"leaf", "none"} => e \notin s.overlooked /\ s.pending[e].kind \in {"leaf", "none"}
  BY <1>1, SetBlockDoes
<1>3. w.blocks \in [Cells -> BlockStates] /\ s.blocks \in [Cells -> BlockStates] /\ s.blocks[c] = b
  BY <1>2 DEF Worlds
<1>4. Leaves(s.blocks) = Leaves(w.blocks) \ {c}
  BY <1>2, <1>3 DEF Leaves
<1>5. Shaded(s)
  BY <1>2, <1>4 DEF Shaded
<1>6. \A e \in Leaves(s.blocks) : e \in Cells \ s.overlooked
  BY <1>5 DEF Shaded, Leaves
<1>7. ASSUME NEW D, NEW e \in Leaves(s.blocks), Ticking(w, D, e, "leaf") PROVE Ticking(s, D, e, "leaf")
  BY <1>2, <1>6, <1>7, LeavesAre DEF Ticking
<1>8. ASSUME IsLog(w.blocks[c]), ~IsLog(b), NEW e \in Leaves(s.blocks) \cap Around(c)
      PROVE  s.pending[e].kind = "leaf"
  <2>1. \E q \in Wanted(w.blocks[c], s.blocks, c) : q.at = e /\ q.kind = "leaf"
    BY <1>3, <1>8, LostLogAsks
  <2> QED
    BY <1>2, <1>6, <2>1
<1> QED
  BY <1>1, <1>2, <1>4, <1>5, <1>7, <1>8

LEMMA SetBlockTends ==
  ASSUME NEW w, NEW D, Tended(w, D), NEW c \in Cells, NEW b \in BlockStates, ~IsLeaf(b), ~IsLeaf(w.blocks[c])
  PROVE  Tended(SetBlock(w, c, b), D)
<1>1. PICK s : s = SetBlock(w, c, b)
  OBVIOUS
<1>2. w \in Worlds /\ Shaded(w)
  BY DEF Tended
<1>3. /\ s \in Worlds /\ Shaded(s) /\ s.blocks = [w.blocks EXCEPT ![c] = b]
      /\ Leaves(s.blocks) = Leaves(w.blocks) \ {c}
      /\ \A e \in Leaves(s.blocks) : Ticking(w, D, e, "leaf") => Ticking(s, D, e, "leaf")
      /\ IsLog(w.blocks[c]) /\ ~IsLog(b) =>
           \A e \in Leaves(s.blocks) \cap Around(c) : s.pending[e].kind = "leaf"
  BY <1>1, <1>2, SetBlockShades
<1>4. Leaves(s.blocks) = Leaves(w.blocks)
  BY <1>3 DEF Leaves
<1>5. \A e : At(s.blocks, e) = IF e = c THEN b ELSE At(w.blocks, e)
  BY <1>2, <1>3 DEF At, Worlds
<1>6. ASSUME NEW e \in Leaves(s.blocks), ByLogs(w.blocks, e)
      PROVE  ByLogs(s.blocks, e) \/ Ticking(s, D, e, "leaf")
  <2>1. PICK d \in Around(e) : IsLog(At(w.blocks, d))
    BY <1>6 DEF ByLogs
  <2>2. CASE d # c \/ IsLog(b)
    BY <1>5, <2>1, <2>2 DEF ByLogs
  <2>3. CASE d = c /\ ~IsLog(b)
    <3>1. IsLog(w.blocks[c]) /\ e \in Around(c)
      BY <2>1, <2>3, AroundIs DEF At, Leaves
    <3> QED
      BY <1>3, <2>3, <3>1 DEF Ticking
  <2> QED
    BY <2>2, <2>3
<1>7. ASSUME NEW S \in Groves(s.blocks) PROVE \E e \in S : ByLogs(s.blocks, e) \/ Ticking(s, D, e, "leaf")
  <2>1. S \in Groves(w.blocks) /\ S \subseteq Leaves(s.blocks)
    BY <1>4, <1>7 DEF Groves
  <2>2. PICK e \in S : ByLogs(w.blocks, e) \/ Ticking(w, D, e, "leaf")
    BY <2>1 DEF Tended
  <2> QED
    BY <1>3, <1>6, <2>1, <2>2
<1> QED
  BY <1>1, <1>3, <1>7 DEF Tended

LEMMA ScheduleTends ==
  ASSUME NEW w, NEW D, Tended(w, D), NEW c \in Cells, ~IsLeaf(w.blocks[c]), NEW k \in TickKinds, NEW n \in Nat \ {0}
  PROVE  Tended(Schedule(w, Request(c, k, n)), D)
<1>1. PICK q : q = {Request(c, k, n)}
  OBVIOUS
<1>2. Asking(q) /\ \A e \in Leaves(w.blocks) : OnlyAsked(q, e, "leaf")
  BY <1>1 DEF Asking, OnlyAsked, Request, Leaves
<1> QED
  BY <1>1, <1>2, ScheduleAllTends DEF Schedule

LEMMA SetFluidTends ==
  ASSUME NEW w, NEW D, Tended(w, D), NEW c \in Cells, ~IsLeaf(w.blocks[c]), NEW name \in {"water", "lava"}, NEW level \in Nat
  PROVE  Tended(SetFluid(w, c, name, level), D)
<1>1. PICK b \in BlockStates : b = Fluid(name, level) /\ ~IsLeaf(b)
  BY BlocksAre, LeavesAre
<1>2. PICK v : v = SetBlock(w, c, b)
  OBVIOUS
<1>3. Tended(v, D)
  BY <1>1, <1>2, SetBlockTends
<1>4. v.blocks[c] = b
  <2>1. w \in Worlds /\ w.blocks \in [Cells -> BlockStates]
    BY DEF Tended, Worlds
  <2>2. v.blocks = [w.blocks EXCEPT ![c] = b]
    BY <1>2, <2>1, SetBlockDoes
  <2> QED
    BY <2>1, <2>2
<1>5. FluidDelay[name] \in Nat \ {0} /\ "fluid" \in TickKinds
  BY DelaysAre DEF TickKinds
<1>6. Tended(Schedule(v, Request(c, "fluid", FluidDelay[name])), D)
  BY <1>1, <1>3, <1>4, <1>5, ScheduleTends
<1> QED
  BY <1>1, <1>2, <1>6 DEF SetFluid

LEMMA HardenAtTends ==
  ASSUME NEW w, NEW D, Tended(w, D), NEW d
  PROVE  Tended(HardenAt(w, d), D)
<1>1. CASE At(w.blocks, d).name # "lava"
  BY <1>1 DEF HardenAt
<1>2. CASE At(w.blocks, d).name = "lava"
  <2>1. d \in Cells /\ w.blocks[d].name = "lava"
    BY <1>2, AtIs DEF Tended, Worlds, IsFluid
  <2>2. PICK b \in BlockStates : b = HardenedLava(w.blocks[d]) /\ ~IsLeaf(b)
    BY BlocksAre, LeavesAre DEF HardenedLava
  <2>3. Tended(SetBlock(w, d, b), D)
    BY <2>1, <2>2, SetBlockTends, LeavesAre
  <2> QED
    BY <1>2, <2>2, <2>3 DEF HardenAt
<1> QED
  BY <1>1, <1>2

LEMMA SpreadToTends ==
  ASSUME NEW w, NEW D, Tended(w, D), NEW d, d[2] \in 1 .. Height, NEW name \in {"water", "lava"}, NEW level \in Nat
  PROVE  Tended(SpreadTo(w, d, name, level), D)
<1>1. CASE ~Takes(At(w.blocks, d), name, level)
  BY <1>1 DEF SpreadTo
<1>2. CASE Takes(At(w.blocks, d), name, level)
  <2>1. d \in Cells
    BY <1>2 DEF Takes, At, Stone, Air, Block
  <2>2. ~IsLeaf(w.blocks[d])
    BY <1>2, <2>1, LeavesAre DEF Takes, At
  <2> QED
    BY <1>2, <2>1, <2>2, SetFluidTends DEF SpreadTo
<1> QED
  BY <1>1, <1>2

LEMMA FlowTends ==
  ASSUME NEW w, NEW D, Tended(w, D), NEW c \in Cells, NEW b \in BlockStates, IsFluid(b)
  PROVE  Tended(Flow(w, c, b), D)
<1>1. PICK name \in {"water", "lava"} : name = b.name
  BY DEF IsFluid
<1>2. CASE FallsOnto(w.blocks, name, c)
  <2>1. Below(c) \in Cells /\ w.blocks[Below(c)].name \in {"air", name} /\ 8 \in Nat
    BY <1>2, NextToIs DEF FallsOnto, At
  <2>2. ~IsLeaf(w.blocks[Below(c)])
    BY <2>1 DEF IsLeaf
  <2> QED
    BY <1>1, <1>2, <2>1, <2>2, SetFluidTends DEF Flow
<1>3. CASE ~FallsOnto(w.blocks, name, c)
  <2>1. Flow(w, c, b) = SpreadSideways(w, c, b)
    BY <1>1, <1>3 DEF Flow
  <2>2. PICK level \in Nat : level = SpreadLevel(b)
    <3>1. DropOff[b.name] \in Nat
      BY <1>1, BlocksAssumption
    <3> QED
      BY <3>1 DEF SpreadLevel, BlockStates
  <2>3. PICK v : v = SpreadTo(w, East(c), name, level)
    OBVIOUS
  <2>4. Tended(v, D)
    BY <2>3, NextToIs, SpreadToTends
  <2>5. Tended(SpreadTo(v, West(c), name, level), D)
    BY <2>4, NextToIs, SpreadToTends
  <2> QED
    BY <1>1, <2>1, <2>2, <2>3, <2>5 DEF SpreadSideways
<1> QED
  BY <1>2, <1>3

LEMMA FluidTends ==
  ASSUME NEW w, NEW D, Tended(w, D), NEW c \in Cells
  PROVE  Tended(ProcessFluid(w, c), D)
<1>1. PICK b : b = w.blocks[c]
  OBVIOUS
<1>2. b \in BlockStates
  BY <1>1 DEF Tended, Worlds
<1>3. CASE b.name = "lava"
  <2>1. ProcessFluid(w, c) = ProcessLava(w, c, b)
    BY <1>1, <1>3 DEF ProcessFluid
  <2>2. CASE \E d \in Beside(c) \cup {Atop(c)} : At(w.blocks, d).name = "water"
    <3>1. PICK h \in BlockStates : h = HardenedLava(b) /\ ~IsLeaf(h)
      BY BlocksAre, LeavesAre DEF HardenedLava
    <3>2. Tended(SetBlock(w, c, h), D)
      BY <1>1, <1>3, <3>1, SetBlockTends, LeavesAre
    <3> QED
      BY <2>1, <2>2, <3>1, <3>2 DEF ProcessLava
  <2>3. CASE At(w.blocks, Below(c)).name = "water"
    <3>1. Below(c) \in Cells /\ w.blocks[Below(c)].name = "water"
      BY <2>3, AtIs DEF Tended, Worlds, IsFluid
    <3>2. Tended(SetBlock(w, Below(c), Stone), D)
      BY <3>1, BlocksAre, LeavesAre, SetBlockTends
    <3> QED
      BY <2>1, <2>2, <2>3, <3>2 DEF ProcessLava
  <2>4. Tended(Flow(w, c, b), D)
    BY <1>2, <1>3, FlowTends DEF IsFluid
  <2> QED
    BY <2>1, <2>2, <2>3, <2>4 DEF ProcessLava
<1>4. CASE b.name = "water"
  <2>1. PICK u : u = HardenAt(w, East(c))
    OBVIOUS
  <2>2. PICK v : v = HardenAt(u, West(c))
    OBVIOUS
  <2>3. Tended(HardenAt(v, Below(c)), D)
    BY <2>1, <2>2, HardenAtTends
  <2>4. Tended(HardenNext(w, c), D)
    BY <2>1, <2>2, <2>3 DEF HardenNext
  <2>5. Tended(Flow(HardenNext(w, c), c, b), D)
    BY <1>2, <1>4, <2>4, FlowTends DEF IsFluid
  <2> QED
    BY <1>1, <1>4, <2>5 DEF ProcessFluid
<1>5. CASE b.name \notin {"lava", "water"}
  BY <1>1, <1>5 DEF ProcessFluid
<1> QED
  BY <1>3, <1>4, <1>5

\* What LeavesFrom has after k steps, when f has what it had before.
Reached(g, c, f, k) ==
  IF k = 0 THEN {c} ELSE f[k - 1] \cup {d \in Leaves(g) : Around(d) \cap f[k - 1] # {}}

LEMMA ReachedExist ==
  ASSUME NEW g, NEW c, NEW n \in Nat
  PROVE  \E f : f = [k \in 0 .. n |-> Reached(g, c, f, k)]
<1> DEFINE good(m) == \E f : f = [k \in 0 .. m |-> Reached(g, c, f, k)]
           P == {m \in Nat : good(m)}
<1>1. good(0)
  <2> DEFINE f == [k \in 0 .. 0 |-> {c}]
  <2>1. \A k \in 0 .. 0 : Reached(g, c, f, k) = {c}
    BY DEF Reached
  <2>2. f = [k \in 0 .. 0 |-> Reached(g, c, f, k)]
    BY <2>1
  <2> QED
    BY <2>2
<1>2. ASSUME NEW m \in Nat, good(m) PROVE good(m + 1)
  <2>1. PICK f : f = [k \in 0 .. m |-> Reached(g, c, f, k)]
    BY <1>2
  <2> DEFINE h == [k \in 0 .. m + 1 |-> IF k \in 0 .. m THEN f[k] ELSE Reached(g, c, f, k)]
  <2>2. \A k \in 0 .. m + 1 : h[k] = Reached(g, c, f, k)
    BY <2>1
  <2>3. \A k \in 0 .. m : h[k] = f[k]
    OBVIOUS
  <2>4. h = [k \in 0 .. m + 1 |-> h[k]]
    OBVIOUS
  <2> HIDE DEF h
  <2>5. ASSUME NEW k \in 0 .. m + 1 PROVE h[k] = Reached(g, c, h, k)
    <3>1. k # 0 => k - 1 \in 0 .. m
      OBVIOUS
    <3>2. k # 0 => h[k - 1] = f[k - 1]
      BY <2>3, <3>1
    <3> QED
      BY <2>2, <3>2 DEF Reached
  <2>6. h = [k \in 0 .. m + 1 |-> Reached(g, c, h, k)]
    BY <2>4, <2>5
  <2> QED
    BY <2>6
<1> HIDE DEF good
<1>3. 0 \in P /\ \A m \in Nat : m \in P => m + 1 \in P
  BY <1>1, <1>2
<1> HIDE DEF P
<1>4. n \in P
  BY <1>3, NatInduct
<1> QED
  BY <1>4 DEF P, good

\* The search for a log keeps to the leaves that hang together with the one it starts from.
LEMMA SearchStays ==
  ASSUME NEW g, NEW S \in Groves(g), NEW c \in S, NEW n \in Nat
  PROVE  LeavesFrom(g, c, n) \subseteq S
<1> DEFINE reached == CHOOSE f : f = [k \in 0 .. n |-> Reached(g, c, f, k)]
           P == {k \in Nat : k <= n => reached[k] \subseteq S}
<1>1. LeavesFrom(g, c, n) = reached[n]
  BY DEF LeavesFrom, Reached
<1>2. reached = [k \in 0 .. n |-> Reached(g, c, reached, k)]
  BY ReachedExist
<1> HIDE DEF reached
<1>3. reached[0] = {c}
  BY <1>2 DEF Reached
<1>4. ASSUME NEW k \in Nat, k + 1 <= n, reached[k] \subseteq S PROVE reached[k + 1] \subseteq S
  <2>1. k + 1 \in 0 .. n /\ k + 1 # 0 /\ (k + 1) - 1 = k
    BY <1>4
  <2>2. reached[k + 1] = reached[k] \cup {d \in Leaves(g) : Around(d) \cap reached[k] # {}}
    <3>1. reached[k + 1] = Reached(g, c, reached, k + 1)
      BY <1>2, <2>1
    <3> QED
      BY <2>1, <3>1 DEF Reached
  <2>3. ASSUME NEW d \in Leaves(g), NEW e \in Around(d), e \in reached[k] PROVE d \in S
    <3>1. e \in S /\ e \in Cells /\ d \in Cells
      BY <1>4, <2>3 DEF Groves, Leaves
    <3>2. d \in Around(e)
      BY <2>3, <3>1, AroundIs
    <3> QED
      BY <2>3, <3>1, <3>2 DEF Groves
  <2> QED
    BY <1>4, <2>2, <2>3
<1>5. 0 \in P /\ \A k \in Nat : k \in P => k + 1 \in P
  BY <1>3, <1>4
<1> HIDE DEF P
<1>6. n \in P
  BY <1>5, NatInduct
<1> QED
  BY <1>1, <1>6 DEF P

\* A leaf whose check finds no log goes, and has its neighbours checked.
LEMMA DecayTends ==
  ASSUME NEW w, NEW D, Tended(w, D), NEW c \in Leaves(w.blocks), ~LogInReach(w.blocks, c)
  PROVE  Tended(ProcessLeaf(w, c), D \ {[at |-> c, kind |-> "leaf"]})
<1>1. PICK v : v = SetBlock(w, c, Air)
  OBVIOUS
<1>2. PICK r : r = {Request(e, "leaf", LeafDelay) : e \in {f \in Around(c) : IsLeaf(At(w.blocks, f))}}
  OBVIOUS
<1>3. PICK s : s = ScheduleAll(v, r)
  OBVIOUS
<1>4. PICK E : E = D \ {[at |-> c, kind |-> "leaf"]}
  OBVIOUS
<1>5. s = ProcessLeaf(w, c)
  BY <1>1, <1>2, <1>3 DEF ProcessLeaf, Leaves
<1>6. w \in Worlds /\ Shaded(w) /\ c \in Cells /\ IsLeaf(w.blocks[c]) /\ w.blocks \in [Cells -> BlockStates]
  BY DEF Tended, Leaves, Worlds
<1>7. /\ v \in Worlds /\ Shaded(v) /\ v.blocks = [w.blocks EXCEPT ![c] = Air]
      /\ Leaves(v.blocks) = Leaves(w.blocks) \ {c}
      /\ \A e \in Leaves(v.blocks) : Ticking(w, D, e, "leaf") => Ticking(v, D, e, "leaf")
  BY <1>1, <1>6, BlocksAre, LeavesAre, SetBlockShades
<1>8. Asking(r) /\ \A e : OnlyAsked(r, e, "leaf")
  BY <1>2, DelaysAre, LeavesAre DEF Asking, OnlyAsked, Request
<1>9. /\ s \in Worlds /\ s.blocks = v.blocks
      /\ \A e \in Cells \ s.overlooked :
           /\ \A k \in TickKinds : v.pending[e].kind = k => s.pending[e].kind = k
           /\ \A q \in r : q.at = e => s.pending[e].kind = q.kind
      /\ \A e \in Cells \ v.overlooked, k \in TickKinds :
           OnlyAsked(r, e, k) /\ v.pending[e].kind \in {k, "none"}
             => e \notin s.overlooked /\ s.pending[e].kind \in {k, "none"}
  BY <1>3, <1>7, <1>8, ScheduleAllKeeps
<1>10. \A e \in Leaves(s.blocks) : e \in Cells /\ e # c /\ e \in Leaves(w.blocks)
  BY <1>7, <1>9 DEF Leaves
<1>11. Shaded(s)
  BY <1>7, <1>8, <1>9, <1>10, LeavesAre DEF Shaded
<1>12. ASSUME NEW e \in Leaves(s.blocks), Ticking(w, D, e, "leaf") PROVE Ticking(s, E, e, "leaf")
  <2>1. Ticking(v, D, e, "leaf")
    BY <1>7, <1>9, <1>12
  <2>2. [at |-> e, kind |-> "leaf"] # [at |-> c, kind |-> "leaf"]
    BY <1>10
  <2> QED
    BY <1>4, <1>9, <1>10, <1>11, <2>1, <2>2, LeavesAre DEF Ticking, Shaded
<1>13. ASSUME NEW S \in Groves(s.blocks) PROVE \E e \in S : ByLogs(s.blocks, e) \/ Ticking(s, E, e, "leaf")
  <2>1. S \subseteq Leaves(s.blocks) /\ S # {}
    BY <1>13 DEF Groves
  <2>2. CASE \E e \in S : e \in Around(c)
    <3>1. PICK e \in S : e \in Around(c)
      BY <2>2
    <3>2. e \in Leaves(s.blocks) /\ IsLeaf(At(w.blocks, e))
      BY <1>10, <2>1 DEF Leaves, At
    <3>3. Request(e, "leaf", LeafDelay) \in r
      BY <1>2, <3>1, <3>2
    <3>4. s.pending[e].kind = "leaf"
      BY <1>9, <1>10, <1>11, <3>2, <3>3 DEF Request, Shaded
    <3> QED
      BY <3>4 DEF Ticking
  <2>3. CASE \A e \in S : e \notin Around(c)
    <3>1. \A e \in S : Around(e) \cap Leaves(w.blocks) \subseteq S
      BY <1>6, <1>7, <1>9, <1>10, <1>13, <2>1, <2>3, AroundIs DEF Groves
    <3>2. S \in Groves(w.blocks)
      BY <1>10, <2>1, <3>1 DEF Groves
    <3>3. PICK e \in S : ByLogs(w.blocks, e) \/ Ticking(w, D, e, "leaf")
      BY <3>2 DEF Tended
    <3>4. \A d : IsLog(At(w.blocks, d)) => At(s.blocks, d) = At(w.blocks, d)
      BY <1>6, <1>7, <1>9, LeavesAre DEF At
    <3>5. ByLogs(w.blocks, e) => ByLogs(s.blocks, e)
      BY <3>4 DEF ByLogs
    <3> QED
      BY <1>12, <2>1, <3>3, <3>5
  <2> QED
    BY <2>2, <2>3
<1> QED
  BY <1>4, <1>5, <1>9, <1>11, <1>13 DEF Tended

\* The update that d asks for leaves the trees tended without it.
LEMMA ProcessedTends ==
  ASSUME NEW w, NEW D, Tended(w, D), NEW d \in [at : Cells, kind : TickKinds]
  PROVE  Tended(Processed(w, d), D \ {d})
<1>1. PICK c \in Cells : c = d.at
  OBVIOUS
<1>2. PICK s : s = Processed(w, d)
  OBVIOUS
<1>3. ASSUME d.kind # "leaf", Tended(s, D) PROVE Tended(s, D \ {d})
  <2>1. \A e : Ticking(s, D, e, "leaf") => Ticking(s, D \ {d}, e, "leaf")
    BY <1>3 DEF Ticking
  <2> QED
    BY <1>3, <2>1 DEF Tended
<1>4. CASE d.kind = "fall"
  <2>1. s = ProcessFall(w, c)
    BY <1>1, <1>2, <1>4 DEF Processed
  <2>2. CASE CanFall(w.blocks, c)
    <3>1. ~IsLeaf(w.blocks[c])
      BY <2>2, LeavesAre DEF CanFall
    <3>2. Tended(s, D)
      BY <2>1, <2>2, <3>1, BlocksAre, LeavesAre, SetBlockTends DEF ProcessFall
    <3> QED
      BY <1>2, <1>3, <1>4, <3>2
  <2>3. CASE ~CanFall(w.blocks, c)
    BY <1>2, <1>3, <1>4, <2>1, <2>3 DEF ProcessFall
  <2> QED
    BY <2>2, <2>3
<1>5. CASE d.kind = "fluid"
  <2>1. s = ProcessFluid(w, c)
    BY <1>1, <1>2, <1>5 DEF Processed
  <2>2. Tended(s, D)
    BY <2>1, FluidTends
  <2> QED
    BY <1>2, <1>3, <1>5, <2>2
<1>6. CASE d.kind = "leaf"
  <2>1. s = ProcessLeaf(w, c)
    BY <1>1, <1>2, <1>6 DEF Processed
  <2>2. d = [at |-> c, kind |-> "leaf"]
    BY <1>1, <1>6
  <2>3. CASE IsLeaf(w.blocks[c]) /\ ~LogInReach(w.blocks, c)
    BY <1>2, <2>1, <2>2, <2>3, DecayTends DEF Leaves
  <2>4. CASE ~IsLeaf(w.blocks[c]) \/ LogInReach(w.blocks, c)
    <3>1. s = w
      BY <2>1, <2>4 DEF ProcessLeaf
    <3>2. ASSUME NEW S \in Groves(w.blocks) PROVE \E e \in S : ByLogs(w.blocks, e) \/ Ticking(w, D \ {d}, e, "leaf")
      <4>1. CASE c \in S
        <5>1. LogInReach(w.blocks, c) /\ LeafRadius \in Nat
          BY <2>4, <3>2, <4>1, SizesAssumption DEF Groves, Leaves
        <5>2. LeavesFrom(w.blocks, c, LeafRadius) \subseteq S
          BY <4>1, <5>1, SearchStays
        <5> QED
          BY <5>1, <5>2 DEF LogInReach
      <4>2. CASE c \notin S
        <5>1. PICK e \in S : ByLogs(w.blocks, e) \/ Ticking(w, D, e, "leaf")
          BY DEF Tended
        <5>2. [at |-> e, kind |-> "leaf"] # d
          BY <2>2, <4>2
        <5> QED
          BY <5>1, <5>2 DEF Ticking
      <4> QED
        BY <4>1, <4>2
    <3> QED
      BY <1>2, <3>1, <3>2 DEF Tended
  <2> QED
    BY <2>3, <2>4
<1>7. CASE d.kind = "ice"
  <2>1. s = ProcessIce(w, c)
    BY <1>1, <1>2, <1>7 DEF Processed
  <2>2. CASE w.blocks[c].name = "ice"
    <3>1. Tended(s, D)
      BY <2>1, <2>2, LeavesAre, SetFluidTends DEF ProcessIce
    <3> QED
      BY <1>2, <1>3, <1>7, <3>1
  <2>3. CASE w.blocks[c].name # "ice"
    BY <1>2, <1>3, <1>7, <2>1, <2>3 DEF ProcessIce
  <2> QED
    BY <2>2, <2>3
<1>8. CASE d.kind = "button"
  <2>1. s = ProcessButton(w, c)
    BY <1>1, <1>2, <1>8 DEF Processed
  <2>2. CASE IsPressed(w.blocks[c])
    <3>1. ~IsLeaf(w.blocks[c]) /\ Block("button") \in BlockStates /\ ~IsLeaf(Block("button"))
      BY <2>2, LeavesAre, BlocksAre DEF IsPressed
    <3>2. Tended(s, D)
      BY <2>1, <2>2, <3>1, SetBlockTends DEF ProcessButton
    <3> QED
      BY <1>2, <1>3, <1>8, <3>2
  <2>3. CASE ~IsPressed(w.blocks[c])
    BY <1>2, <1>3, <1>8, <2>1, <2>3 DEF ProcessButton
  <2> QED
    BY <2>2, <2>3
<1> QED
  BY <1>4, <1>5, <1>6, <1>7, <1>8 DEF TickKinds

TreesTended == ~cut => Tended(world, due)

LEMMA TreesStart == TicksInit => TreesTended
<1> SUFFICES ASSUME TicksInit PROVE Tended(world, due)
  BY DEF TreesTended
<1>1. PICK g \in Scenes : world = [blocks |-> g, pending |-> Quiet, overlooked |-> {}]
  BY DEF TicksInit
<1>2. world \in Worlds
  BY TicksStart DEF Remembers
<1>3. Shaded(world)
  BY <1>1 DEF Shaded, Leaves, Quiet, NoTick
<1> QED
  BY <1>1, <1>2, <1>3, BlocksAssumption DEF Tended, Rooted

LEMMA TreesStep ==
  TypeOK /\ Remembers(world, due) /\ TreesTended /\ [TicksNext]_ticksVars => TreesTended'
<1> SUFFICES ASSUME TypeOK, Remembers(world, due), TreesTended, [TicksNext]_ticksVars, ~cut'
             PROVE  Tended(world', due')
  BY DEF TreesTended
<1>1. ~cut
  BY DEF TicksNext, Tick, Process, MoveEntity, Land, Edit, Break, Press, Place, ticksVars
<1>2. Tended(world, due)
  BY <1>1 DEF TreesTended
<1>3. CASE Tick
  <2>1. PICK v : v = world'
    OBVIOUS
  <2>2. PICK E : E = due'
    OBVIOUS
  <2>3. /\ v \in Worlds /\ v.blocks = world.blocks /\ v.overlooked = world.overlooked
        /\ \A c \in Cells :
             /\ v.pending[c].kind \in {world.pending[c].kind, "none"}
             /\ Ticking(world, due, c, "leaf") => Ticking(v, E, c, "leaf")
    BY <1>3, <2>1, <2>2, TickRemembers, LeavesAre DEF Remembers
  <2>4. Shaded(v)
    BY <1>2, <2>3 DEF Tended, Shaded, Leaves
  <2>5. \A S \in Groves(world.blocks) : S \subseteq Cells
    BY DEF Groves, Leaves
  <2>6. Tended(v, E)
    BY <1>2, <2>3, <2>4, <2>5 DEF Tended
  <2> QED
    BY <2>1, <2>2, <2>6
<1>4. CASE Process
  <2>1. PICK d \in due : world' = Processed(world, d) /\ due' = due \ {d}
    BY <1>4 DEF Process
  <2>2. d \in [at : Cells, kind : TickKinds]
    BY DEF TypeOK
  <2> QED
    BY <1>2, <2>1, <2>2, ProcessedTends
<1>5. CASE MoveEntity
  BY <1>2, <1>5 DEF MoveEntity
<1>6. CASE Land
  <2>1. PICK e \in falling : /\ world' = SetBlock(world, <<e.x, e.y>>, Block("sand")) /\ due' = due
                             /\ cut' = (cut \/ IsLeaf(At(world.blocks, <<e.x, e.y>>)))
    BY <1>6 DEF Land
  <2>2. PICK c : c = <<e.x, e.y>>
    OBVIOUS
  <2>3. CASE c \in Cells
    <3>1. ~IsLeaf(world.blocks[c])
      BY <2>1, <2>2, <2>3 DEF At
    <3> QED
      BY <1>2, <2>1, <2>2, <2>3, <3>1, BlocksAre, LeavesAre, SetBlockTends
  <2>4. CASE c \notin Cells
    BY <1>2, <2>1, <2>2, <2>4 DEF SetBlock
  <2> QED
    BY <2>3, <2>4
<1>7. ASSUME NEW c \in Cells, Break(c) PROVE Tended(world', due')
  <2>1. world' = SetBlock(world, c, Air) /\ due' = due /\ ~IsLeaf(world.blocks[c])
    BY <1>7 DEF Break
  <2> QED
    BY <1>2, <2>1, BlocksAre, LeavesAre, SetBlockTends
<1>8. ASSUME NEW c \in Cells, Press(c) PROVE Tended(world', due')
  <2>1. PICK b \in BlockStates : b = [name |-> "button", level |-> 1]
    BY DEF BlockStates, BlockNames
  <2>2. PICK v : v = SetBlock(world, c, b)
    OBVIOUS
  <2>3. world' = Schedule(v, Request(c, "button", ButtonDelay)) /\ due' = due /\ world.blocks[c] = Block("button")
    BY <1>8, <2>1, <2>2 DEF Press
  <2>4. ~IsLeaf(b) /\ ~IsLeaf(world.blocks[c])
    BY <2>1, <2>3, LeavesAre DEF IsLeaf
  <2>5. Tended(v, due) /\ v.blocks[c] = b
    <3>1. world \in Worlds
      BY DEF Remembers
    <3>2. v.blocks = [world.blocks EXCEPT ![c] = b] /\ world.blocks \in [Cells -> BlockStates]
      BY <2>2, <3>1, SetBlockDoes DEF Worlds
    <3> QED
      BY <1>2, <2>2, <2>4, <3>2, SetBlockTends
  <2> QED
    BY <2>3, <2>4, <2>5, DelaysAre, ScheduleTends DEF TickKinds
<1>9. ASSUME NEW c \in Cells, NEW b \in Placeable, Place(c, b) PROVE Tended(world', due')
  <2>1. world' = SetBlock(world, c, b) /\ due' = due /\ ~IsLeaf(world.blocks[c])
    BY <1>9, LeavesAre DEF Place
  <2> QED
    BY <1>2, <2>1, BlocksAssumption, SetBlockTends
<1>10. CASE UNCHANGED ticksVars
  BY <1>2, <1>10 DEF ticksVars
<1> QED
  BY <1>3, <1>4, <1>5, <1>6, <1>7, <1>8, <1>9, <1>10 DEF TicksNext, Edit

\* world.go:1403: when the logs of a tree are gone, its leaves go, whatever else is built
\* and in whatever order the checks are made: wherever leaves hang together, one of them is
\* going to be checked, unless a leaf was taken away by hand or by sand.
THEOREM BareTreesShed == TicksSpec => []BareTreeSheds
<1> DEFINE IInv == TypeOK /\ Remembers(world, due) /\ TreesTended
<1>1. TicksInit => IInv
  BY TicksStart, TreesStart
<1>2. IInv /\ [TicksNext]_ticksVars => IInv'
  BY TicksStep, TreesStep
<1>3. IInv => BareTreeSheds
  <2> SUFFICES ASSUME Tended(world, due), \A c \in Cells : ~IsLog(world.blocks[c]), NEW S \in Groves(world.blocks)
               PROVE  \E c \in S : HasTick(c, "leaf")
    BY DEF TreesTended, BareTreeSheds
  <2>1. \A c : ~ByLogs(world.blocks, c)
    <3>1. \A d : ~IsLog(At(world.blocks, d))
      BY DEF At, IsLog, Stone, Air, Block
    <3> QED
      BY <3>1 DEF ByLogs
  <2> QED
    BY <2>1 DEF Tended, HasTick, Ticking
<1> QED
  BY <1>1, <1>2, <1>3, PTL DEF TicksSpec

---------------------------------------------------------------------------
(* Falling sand.  It is in open cells, each in one of its own, and what is *)
(* in the air can go down or has room above to land: blocks in the air,    *)
(* one upon another, are not shut in between what is below and above them. *)

FallingBlocks == [x : 1 .. Width, y : 1 .. Height, grounded : BOOLEAN]
Afloat(F, x, y) == \E e \in F : e.x = x /\ e.y = y /\ ~e.grounded
Standing(F, x, y) == \E e \in F : e.x = x /\ e.y = y /\ e.grounded
Blocked(g, F, x, y) == ~IsOpen(At(g, <<x, y>>)) \/ Standing(F, x, y)

Bedded(g) == g \in [Cells -> BlockStates] /\ \A x \in 1 .. Width : g[<<x, 1>>] = Block("bedrock")
OneEach(F) == F \subseteq FallingBlocks /\ IsFiniteSet(F) /\ \A e, f \in F : e.x = f.x /\ e.y = f.y => e = f
InTheOpen(g, F) == \A e \in F : IsOpen(g[<<e.x, e.y>>])
HasWay(g, F) ==
  \A x \in 1 .. Width, a, b \in 1 .. Height :
    a <= b /\ (\A y \in a .. b : Afloat(F, x, y)) => ~Blocked(g, F, x, a - 1) \/ ~Blocked(g, F, x, b + 1)
NoneOver(g, F) ==
  \A e \in F : e.grounded => ~IsGravity(At(g, <<e.x, e.y + 1>>)) /\ ~Standing(F, e.x, e.y + 1)

Airborne(g, F) == Bedded(g) /\ OneEach(F) /\ InTheOpen(g, F) /\ HasWay(g, F) /\ NoneOver(g, F)

LEMMA KindsApart ==
  /\ \A b : IsGravity(b) => ~IsOpen(b) /\ b # Block("bedrock") /\ b # Air /\ b # Stone
  /\ \A b : IsOpen(b) => ~IsGravity(b) /\ b # Block("bedrock")
  /\ IsOpen(Air) /\ ~IsOpen(Block("sand")) /\ IsGravity(Block("sand")) /\ ~IsGravity(Block("bedrock"))
  /\ ~IsGravity(Air) /\ ~IsGravity(Stone)
<1>1. /\ Air.name = "air" /\ Stone.name = "stone" /\ Block("bedrock").name = "bedrock"
      /\ Block("sand").name = "sand"
  BY DEF Air, Stone, Block
<1> QED
  BY <1>1 DEF IsOpen, IsGravity, IsFluid

LEMMA OfFalling ==
  ASSUME NEW F, OneEach(F), NEW e \in F
  PROVE  /\ e.x \in 1 .. Width /\ e.y \in 1 .. Height /\ e.grounded \in BOOLEAN
         /\ e = [x |-> e.x, y |-> e.y, grounded |-> e.grounded]
         /\ <<e.x, e.y>> \in Cells /\ e.x \in Int /\ e.y \in Int
BY SizesAssumption DEF OneEach, FallingBlocks, Cells

\* Sand in the air is above the bedrock.
LEMMA AboveBedrock ==
  ASSUME NEW g, NEW F, Airborne(g, F), NEW e \in F
  PROVE  e.y \in 2 .. Height
<1>1. e.x \in 1 .. Width /\ e.y \in 1 .. Height /\ IsOpen(g[<<e.x, e.y>>])
  BY OfFalling DEF Airborne, InTheOpen
<1>2. e.y # 1
  BY <1>1, KindsApart DEF Airborne, Bedded
<1> QED
  BY <1>1, <1>2, SizesAssumption

\* Blocks may change where nothing falls, or be taken away.
LEMMA StaysAirborne ==
  ASSUME NEW g, NEW F, Airborne(g, F), NEW h, Bedded(h),
         \A c \in Cells : (\E e \in F : e.x = c[1]) =>
           /\ IsOpen(g[c]) => IsOpen(h[c])
           /\ IsGravity(h[c]) => IsGravity(g[c])
  PROVE  Airborne(h, F)
<1>1. \A e \in F : e.x \in 1 .. Width /\ e.y \in 1 .. Height /\ <<e.x, e.y>> \in Cells /\ <<e.x, e.y>>[1] = e.x
  BY OfFalling DEF Airborne
<1>2. ASSUME NEW e \in F, NEW y
      PROVE  /\ IsOpen(At(g, <<e.x, y>>)) => IsOpen(At(h, <<e.x, y>>))
             /\ IsGravity(At(h, <<e.x, y>>)) => IsGravity(At(g, <<e.x, y>>))
  <2>1. <<e.x, y>>[1] = e.x
    OBVIOUS
  <2> QED
    BY <2>1 DEF At
<1>3. InTheOpen(h, F)
  BY <1>1 DEF Airborne, InTheOpen
<1>4. HasWay(h, F)
  <2> SUFFICES ASSUME NEW x \in 1 .. Width, NEW a \in 1 .. Height, NEW b \in 1 .. Height, a <= b,
                      \A y \in a .. b : Afloat(F, x, y)
               PROVE  ~Blocked(h, F, x, a - 1) \/ ~Blocked(h, F, x, b + 1)
    BY DEF HasWay
  <2>1. ~Blocked(g, F, x, a - 1) \/ ~Blocked(g, F, x, b + 1)
    BY DEF Airborne, HasWay
  <2>2. PICK e \in F : e.x = x
    BY DEF Afloat
  <2>3. \A y : IsOpen(At(g, <<x, y>>)) => IsOpen(At(h, <<x, y>>))
    BY <1>2, <2>2
  <2> QED
    BY <2>1, <2>3 DEF Blocked
<1>5. NoneOver(h, F)
  BY <1>2 DEF Airborne, NoneOver
<1> QED
  BY <1>3, <1>4, <1>5 DEF Airborne

\* Sand that starts is above an open cell.
LEMMA StartsAirborne ==
  ASSUME NEW g, NEW F, Airborne(g, F), NEW c \in Cells, CanFall(g, c),
         NEW h, h = [g EXCEPT ![c] = Air], NEW n, n = [x |-> c[1], y |-> c[2], grounded |-> FALSE]
  PROVE  n \notin F /\ Airborne(h, F \cup {n})
<1>1. PICK x \in 1 .. Width, y \in 1 .. Height : c = <<x, y>> /\ n = [x |-> x, y |-> y, grounded |-> FALSE]
  <2>1. PICK x \in 1 .. Width, y \in 1 .. Height : c = <<x, y>>
    BY DEF Cells
  <2>2. n = [x |-> x, y |-> y, grounded |-> FALSE]
    BY <2>1
  <2> QED
    BY <2>1, <2>2
<1>2. PICK G : G = F \cup {n}
  OBVIOUS
<1>3. g \in [Cells -> BlockStates] /\ IsGravity(g[c]) /\ IsOpen(At(g, <<x, y - 1>>)) /\ ~IsOpen(g[c]) /\ y \in Int
  BY <1>1, KindsApart DEF Airborne, Bedded, CanFall, Below
<1>4. \A e \in F : ~(e.x = x /\ e.y = y)
  BY <1>1, <1>3 DEF Airborne, InTheOpen
<1>5. n \notin F /\ n \in FallingBlocks
  BY <1>1, <1>4 DEF FallingBlocks
<1>6. \A d : At(h, d) = IF d = c THEN Air ELSE At(g, d)
  BY <1>3 DEF At
<1>7. Bedded(h)
  <2>1. h \in [Cells -> BlockStates]
    BY <1>3, BlocksAre
  <2>2. ASSUME NEW u \in 1 .. Width PROVE h[<<u, 1>>] = Block("bedrock")
    <3>1. g[<<u, 1>>] = Block("bedrock") /\ <<u, 1>> \in Cells
      BY SizesAssumption DEF Airborne, Bedded, Cells
    <3>2. <<u, 1>> # c
      BY <1>3, <3>1, KindsApart
    <3> QED
      BY <1>3, <3>1, <3>2
  <2> QED
    BY <2>1, <2>2 DEF Bedded
<1>8. OneEach(G)
  <2>1. F \subseteq FallingBlocks /\ IsFiniteSet(F) /\ \A e, f \in F : e.x = f.x /\ e.y = f.y => e = f
    BY DEF Airborne, OneEach
  <2>2. IsFiniteSet(G)
    BY <1>2, <2>1, FS_AddElement
  <2>3. n.x = x /\ n.y = y
    BY <1>1
  <2>4. \A e, f \in G : e.x = f.x /\ e.y = f.y => e = f
    BY <1>2, <1>4, <2>1, <2>3
  <2> QED
    BY <1>2, <1>5, <2>1, <2>2, <2>4 DEF OneEach
<1>9. InTheOpen(h, G)
  <2>1. h[<<x, y>>] = Air
    BY <1>1, <1>3
  <2>2. ASSUME NEW e \in F PROVE IsOpen(h[<<e.x, e.y>>])
    <3>1. IsOpen(g[<<e.x, e.y>>]) /\ <<e.x, e.y>> \in Cells
      BY OfFalling DEF Airborne, InTheOpen
    <3> QED
      BY <1>3, <3>1, KindsApart
  <2>3. n.x = x /\ n.y = y /\ IsOpen(h[<<x, y>>])
    BY <1>1, <2>1, KindsApart
  <2> QED
    BY <1>2, <2>2, <2>3 DEF InTheOpen
<1>10. \A u, v : Standing(G, u, v) <=> Standing(F, u, v)
  BY <1>1, <1>2 DEF Standing
<1>11. \A u, v : Afloat(G, u, v) <=> Afloat(F, u, v) \/ (u = x /\ v = y)
  BY <1>1, <1>2 DEF Afloat
<1>12. \A u, v : Blocked(h, G, u, v) => Blocked(g, F, u, v)
  BY <1>6, <1>10, KindsApart DEF Blocked
<1>13. Blocked(g, F, x, y)
  BY <1>1, <1>3 DEF Blocked, At
<1>14. ~Blocked(g, F, x, y - 1)
  <2>1. ASSUME NEW e \in F, e.x = x, e.y = y - 1, e.grounded PROVE FALSE
    <3>1. e.y + 1 = y
      BY <1>3, <2>1
    <3>2. ~IsGravity(At(g, <<x, y>>))
      BY <2>1, <3>1 DEF Airborne, NoneOver
    <3> QED
      BY <1>1, <1>3, <3>2 DEF At
  <2> QED
    BY <1>3, <2>1 DEF Blocked, Standing
<1>15. HasWay(h, G)
  <2> SUFFICES ASSUME NEW u \in 1 .. Width, NEW a \in 1 .. Height, NEW b \in 1 .. Height, a <= b,
                      \A v \in a .. b : Afloat(G, u, v)
               PROVE  ~Blocked(g, F, u, a - 1) \/ ~Blocked(g, F, u, b + 1)
    BY <1>12 DEF HasWay
  <2>1. CASE ~(u = x /\ y \in a .. b)
    <3>1. \A v \in a .. b : Afloat(F, u, v)
      BY <1>11, <2>1
    <3> QED
      BY <3>1 DEF Airborne, HasWay
  <2>2. CASE u = x /\ y \in a .. b /\ a = y
    BY <1>14, <2>2
  <2>3. CASE u = x /\ y \in a .. b /\ a # y
    <3>1. y - 1 \in 1 .. Height /\ a <= y - 1 /\ (y - 1) + 1 = y /\ \A v \in a .. y - 1 : v \in a .. b /\ v # y
      BY <1>3, <2>3, SizesAssumption
    <3>2. \A v \in a .. y - 1 : Afloat(F, x, v)
      BY <1>11, <2>3, <3>1
    <3>3. ~Blocked(g, F, x, a - 1) \/ ~Blocked(g, F, x, y)
      BY <3>1, <3>2 DEF Airborne, HasWay
    <3> QED
      BY <1>13, <2>3, <3>3
  <2> QED
    BY <2>1, <2>2, <2>3
<1>16. NoneOver(h, G)
  <2>1. ASSUME NEW e \in G, e.grounded PROVE e \in F
    BY <1>1, <1>2, <2>1
  <2>2. ~IsGravity(Air)
    BY KindsApart
  <2> QED
    BY <1>6, <1>10, <2>1, <2>2 DEF Airborne, NoneOver
<1> QED
  BY <1>2, <1>5, <1>7, <1>8, <1>9, <1>15, <1>16 DEF Airborne

LEMMA GroundIs ==
  ASSUME NEW g, NEW x, NEW y \in 1 .. Height
  PROVE  LET z == GroundAtOrBelow(g, x, y) IN
         /\ z \in 0 .. y /\ (z # 0 => IsGround(g, x, z))
         /\ \A k \in 1 .. y : IsGround(g, x, k) => k <= z
<1>1. PICK Z : Z = {0} \cup {k \in 1 .. y : IsGround(g, x, k)}
  OBVIOUS
<1>2. y \in Nat /\ \A k \in Z : k \in 0 .. y /\ k \in Int
  BY <1>1, SizesAssumption
<1>3. PICK T : T = {y - k : k \in Z}
  OBVIOUS
<1>4. T \in SUBSET Nat /\ T # {}
  BY <1>1, <1>2, <1>3
<1>5. PICK n \in T : \A k \in T : n <= k
  BY <1>4, LeastNat
<1>6. PICK m \in Z : n = y - m
  BY <1>3
<1>7. ASSUME NEW k \in Z PROVE m >= k
  <2>1. y - k \in T
    BY <1>3
  <2>2. y - m <= y - k
    BY <1>5, <1>6, <2>1
  <2> QED
    BY <1>2, <2>2
<1>8. PICK z : z = Max(Z)
  OBVIOUS
<1>9. z \in Z /\ \A k \in Z : z >= k
  BY <1>7, <1>8 DEF Max
<1>10. z = GroundAtOrBelow(g, x, y)
  BY <1>1, <1>8 DEF GroundAtOrBelow
<1>11. \A k \in 1 .. y : IsGround(g, x, k) => k <= z
  BY <1>1, <1>2, <1>9
<1> QED
  BY <1>1, <1>2, <1>9, <1>10, <1>11

\* A block in the air comes to stand where it is, on what is below it, or goes down a cell.
LEMMA MovedIs ==
  ASSUME Airborne(world.blocks, falling), NEW e \in falling, ~e.grounded
  PROVE  LET g == world.blocks
             m == Moved(e)
         IN
         \/ /\ m = [x |-> e.x, y |-> e.y, grounded |-> TRUE]
            /\ ~IsOpen(At(g, <<e.x, e.y - 1>>)) /\ IsOpen(At(g, <<e.x, e.y + 1>>))
         \/ /\ m = [x |-> e.x, y |-> e.y - 1, grounded |-> FALSE]
            /\ IsOpen(At(g, <<e.x, e.y - 1>>)) /\ e.y - 1 \in 2 .. Height
<1>1. PICK g : g = world.blocks
  OBVIOUS
<1>2. PICK x, y : x = e.x /\ y = e.y
  OBVIOUS
<1>3. /\ x \in 1 .. Width /\ y \in 2 .. Height /\ y \in 1 .. Height /\ y \in Int /\ Height \in Nat
      /\ e = [x |-> x, y |-> y, grounded |-> FALSE] /\ <<x, y>> \in Cells /\ <<x, y - 1>> \in Cells
  BY <1>1, <1>2, OfFalling, AboveBedrock, SizesAssumption DEF Airborne, Cells
<1>4. IsOpen(g[<<x, y>>]) /\ IsOpen(At(g, <<x, y>>))
  BY <1>1, <1>2, <1>3 DEF Airborne, InTheOpen, At
<1>5. ~Blocked(g, falling, x, y - 1) \/ ~Blocked(g, falling, x, y + 1)
  <2>1. \A k \in y .. y : Afloat(falling, x, k)
    BY <1>2, <1>3 DEF Afloat
  <2> QED
    BY <1>1, <1>3, <2>1 DEF Airborne, HasWay
<1>6. IsOpen(At(g, <<x, y - 1>>)) \/ IsOpen(At(g, <<x, y + 1>>))
  BY <1>5 DEF Blocked
<1>7. PICK z : z = GroundAtOrBelow(g, x, y)
  OBVIOUS
<1>8. z \in 0 .. y /\ (z # 0 => IsGround(g, x, z)) /\ \A k \in 1 .. y : IsGround(g, x, k) => k <= z
  BY <1>3, <1>7, GroundIs
<1>9. z # y
  BY <1>3, <1>4, <1>8 DEF IsGround, IsSupport
<1>10. Moved(e) = IF z >= y - 1 THEN [e EXCEPT !.y = z + 1, !.grounded = TRUE] ELSE [e EXCEPT !.y = y - 1]
  BY <1>1, <1>2, <1>7 DEF Moved
<1>11. CASE z >= y - 1
  <2>1. z = y - 1 /\ z # 0 /\ z + 1 = y /\ z + 2 = y + 1
    BY <1>3, <1>8, <1>9, <1>11
  <2>2. ~IsOpen(At(g, <<x, y - 1>>)) /\ IsOpen(At(g, <<x, y + 1>>))
    BY <1>8, <2>1 DEF IsGround, IsSupport
  <2>3. Moved(e) = [x |-> x, y |-> y, grounded |-> TRUE]
    BY <1>3, <1>10, <1>11, <2>1
  <2> QED
    BY <1>1, <1>2, <2>2, <2>3
<1>12. CASE ~(z >= y - 1)
  <2>1. Moved(e) = [x |-> x, y |-> y - 1, grounded |-> FALSE]
    BY <1>3, <1>10, <1>12
  <2>2. y - 1 \in 1 .. y /\ (y - 1) + 1 = y /\ (y - 1) + 2 = y + 1 /\ ~(y - 1 <= z)
    BY <1>3, <1>8, <1>12
  <2>3. ~IsGround(g, x, y - 1)
    BY <1>8, <2>2
  <2>4. IsOpen(At(g, <<x, y - 1>>))
    BY <1>4, <1>6, <2>2, <2>3 DEF IsGround, IsSupport
  <2>5. y - 1 # 1
    <3>1. g[<<x, 1>>] = Block("bedrock")
      BY <1>1, <1>3 DEF Airborne, Bedded
    <3> QED
      BY <1>3, <2>4, <3>1, KindsApart DEF At
  <2> QED
    BY <1>1, <1>2, <1>3, <2>1, <2>4, <2>5
<1> QED
  BY <1>11, <1>12

\* e comes to stand where it is; e goes down a cell: then it is m, and G is in the air.
Grounds(g, F, e, m, G) ==
  /\ e \in F /\ ~e.grounded /\ m = [x |-> e.x, y |-> e.y, grounded |-> TRUE] /\ G = (F \ {e}) \cup {m}
  /\ ~IsOpen(At(g, <<e.x, e.y - 1>>)) /\ IsOpen(At(g, <<e.x, e.y + 1>>))
Sinks(g, F, e, m, G) ==
  /\ e \in F /\ ~e.grounded /\ m = [x |-> e.x, y |-> e.y - 1, grounded |-> FALSE] /\ G = (F \ {e}) \cup {m}
  /\ IsOpen(At(g, <<e.x, e.y - 1>>)) /\ e.y - 1 \in 2 .. Height /\ \A f \in F \ {e} : f.x = e.x => f.y # m.y

LEMMA GroundsAirborne ==
  ASSUME NEW g, NEW F, Airborne(g, F), NEW e, NEW m, NEW G, Grounds(g, F, e, m, G)
  PROVE  m \notin F \ {e} /\ Airborne(g, G)
<1>0. /\ e \in F /\ ~e.grounded /\ m = [x |-> e.x, y |-> e.y, grounded |-> TRUE]
      /\ ~IsOpen(At(g, <<e.x, e.y - 1>>)) /\ IsOpen(At(g, <<e.x, e.y + 1>>))
  BY DEF Grounds
<1>1. PICK x, y : x = e.x /\ y = e.y
  OBVIOUS
<1>2. G = (F \ {e}) \cup {m}
  BY DEF Grounds
<1>3. /\ x \in 1 .. Width /\ y \in 2 .. Height /\ y \in 1 .. Height /\ y \in Int /\ Height \in Nat
      /\ m = [x |-> x, y |-> y, grounded |-> TRUE] /\ m.x = x /\ m.y = y /\ m.grounded
  BY <1>0, <1>1, OfFalling, AboveBedrock, SizesAssumption DEF Airborne
<1>4. \A f \in F \ {e} : ~(f.x = x /\ f.y = y)
  BY <1>0, <1>1 DEF Airborne, OneEach
<1>5. m \notin F \ {e} /\ m \in FallingBlocks
  BY ONLY <1>3, <1>4 DEF FallingBlocks
<1>6. OneEach(G)
  <2>1. F \subseteq FallingBlocks /\ IsFiniteSet(F) /\ \A f, k \in F : f.x = k.x /\ f.y = k.y => f = k
    BY DEF Airborne, OneEach
  <2>2. IsFiniteSet(F \ {e})
    BY <2>1, FS_RemoveElement
  <2>3. IsFiniteSet((F \ {e}) \cup {m})
    BY <2>2, FS_AddElement
  <2>4. \A f, k \in G : f.x = k.x /\ f.y = k.y => f = k
    BY <1>0, <1>2, <1>3, <1>4, <2>1
  <2>5. IsFiniteSet(G) /\ G \subseteq FallingBlocks
    BY <1>2, <1>5, <2>1, <2>3
  <2> QED
    BY <2>4, <2>5 DEF OneEach
<1>7. InTheOpen(g, G)
  BY <1>0, <1>1, <1>2, <1>3 DEF Airborne, InTheOpen
<1>8. \A u, v : Standing(G, u, v) <=> Standing(F, u, v) \/ (u = x /\ v = y)
  BY <1>0, <1>2, <1>3 DEF Standing
<1>9. \A u, v : Afloat(G, u, v) <=> Afloat(F, u, v) /\ ~(u = x /\ v = y)
  BY <1>0, <1>1, <1>2, <1>3, <1>4 DEF Afloat
<1>10. \A u, v : Blocked(g, G, u, v) <=> Blocked(g, F, u, v) \/ (u = x /\ v = y)
  BY <1>8 DEF Blocked
<1>11. Afloat(F, x, y) /\ Blocked(g, F, x, y - 1) /\ ~Afloat(F, x, y - 1) /\ ~Standing(F, x, y - 1)
  <2>1. ASSUME NEW f \in F, f.x = x, f.y = y - 1 PROVE FALSE
    <3>1. <<f.x, f.y>> \in Cells /\ IsOpen(g[<<f.x, f.y>>])
      BY OfFalling DEF Airborne, InTheOpen
    <3> QED
      BY <1>0, <1>1, <2>1, <3>1 DEF At
  <2> QED
    BY <1>0, <1>1, <2>1 DEF Afloat, Blocked, Standing
<1>12. ~Blocked(g, F, x, y + 1)
  <2>1. \A k \in y .. y : Afloat(F, x, k)
    BY <1>3, <1>11
  <2> QED
    BY <1>3, <1>11, <2>1 DEF Airborne, HasWay
<1>13. HasWay(g, G)
  <2> SUFFICES ASSUME NEW u \in 1 .. Width, NEW a \in 1 .. Height, NEW b \in 1 .. Height, a <= b,
                      \A v \in a .. b : Afloat(G, u, v)
               PROVE  ~Blocked(g, G, u, a - 1) \/ ~Blocked(g, G, u, b + 1)
    BY DEF HasWay
  <2>1. \A v \in a .. b : Afloat(F, u, v) /\ ~(u = x /\ v = y)
    BY <1>9
  <2>2. CASE ~(u = x /\ y = a - 1) /\ ~(u = x /\ y = b + 1)
    <3>1. ~Blocked(g, F, u, a - 1) \/ ~Blocked(g, F, u, b + 1)
      BY <2>1 DEF Airborne, HasWay
    <3> QED
      BY <1>10, <2>2, <3>1
  <2>3. CASE u = x /\ y = a - 1
    <3>1. y <= b /\ y # b + 1 /\ \A v \in y .. b : v = y \/ v \in a .. b
      BY <1>3, <2>3
    <3>2. \A v \in y .. b : Afloat(F, x, v)
      BY <1>11, <2>1, <2>3, <3>1
    <3>3. ~Blocked(g, F, x, b + 1)
      BY <1>3, <1>11, <3>1, <3>2 DEF Airborne, HasWay
    <3> QED
      BY <1>10, <2>3, <3>1, <3>3
  <2>4. CASE u = x /\ y = b + 1
    <3>1. y - 1 \in a .. b
      BY <1>3, <2>4
    <3> QED
      BY <1>11, <2>1, <2>4, <3>1
  <2> QED
    BY <2>2, <2>3, <2>4
<1>14. NoneOver(g, G)
  <2>1. ASSUME NEW f \in G, f.grounded, f # m
        PROVE  ~IsGravity(At(g, <<f.x, f.y + 1>>)) /\ ~Standing(G, f.x, f.y + 1)
    <3>1. f \in F /\ f.y \in Int
      BY <1>2, <2>1, OfFalling DEF Airborne
    <3>2. ~IsGravity(At(g, <<f.x, f.y + 1>>)) /\ ~Standing(F, f.x, f.y + 1)
      BY <2>1, <3>1 DEF Airborne, NoneOver
    <3>3. ~(f.x = x /\ f.y + 1 = y)
      <4>1. f.x = x /\ f.y = y - 1 => Standing(F, x, y - 1)
        BY <2>1, <3>1 DEF Standing
      <4> QED
        BY <1>3, <1>11, <3>1, <4>1
    <3> QED
      BY <1>8, <3>2, <3>3
  <2>2. ~IsGravity(At(g, <<x, y + 1>>)) /\ ~Standing(G, x, y + 1)
    <3>1. y + 1 # y
      BY <1>3
    <3> QED
      BY <1>0, <1>1, <1>8, <1>12, <3>1, KindsApart DEF Blocked
  <2> QED
    BY <1>3, <2>1, <2>2 DEF NoneOver
<1> QED
  BY <1>2, <1>5, <1>6, <1>7, <1>13, <1>14 DEF Airborne

LEMMA SinksAirborne ==
  ASSUME NEW g, NEW F, Airborne(g, F), NEW e, NEW m, NEW G, Sinks(g, F, e, m, G)
  PROVE  m \notin F \ {e} /\ Airborne(g, G)
<1>0. /\ e \in F /\ ~e.grounded /\ m = [x |-> e.x, y |-> e.y - 1, grounded |-> FALSE]
      /\ IsOpen(At(g, <<e.x, e.y - 1>>)) /\ e.y - 1 \in 2 .. Height /\ \A f \in F \ {e} : f.x = e.x => f.y # m.y
  BY DEF Sinks
<1>1. PICK x, y : x = e.x /\ y = e.y
  OBVIOUS
<1>2. G = (F \ {e}) \cup {m}
  BY DEF Sinks
<1>3. /\ x \in 1 .. Width /\ y \in 2 .. Height /\ y \in 1 .. Height /\ y \in Int /\ Height \in Nat
      /\ m = [x |-> x, y |-> y - 1, grounded |-> FALSE] /\ m.x = x /\ m.y = y - 1 /\ ~m.grounded
      /\ y - 1 \in 1 .. Height /\ <<x, y - 1>> \in Cells
  <2>1. OneEach(F)
    BY DEF Airborne
  <2>2. x \in 1 .. Width /\ y \in 2 .. Height
    BY <1>0, <1>1, <2>1, OfFalling, AboveBedrock
  <2>3. y \in 1 .. Height /\ y \in Int /\ Height \in Nat /\ y - 1 \in 1 .. Height
    BY <2>2, SizesAssumption
  <2>4. m = [x |-> x, y |-> y - 1, grounded |-> FALSE]
    BY <1>0, <1>1
  <2>5. m.x = x /\ m.y = y - 1 /\ ~m.grounded
    BY ONLY <2>4
  <2>6. <<x, y - 1>> \in Cells
    BY <2>2, <2>3 DEF Cells
  <2> QED
    BY <2>2, <2>3, <2>4, <2>5, <2>6
<1>4. \A f \in F \ {e} : ~(f.x = x /\ f.y = y) /\ ~(f.x = x /\ f.y = y - 1)
  BY <1>0, <1>1, <1>3 DEF Airborne, OneEach
<1>5. m \notin F \ {e} /\ m \in FallingBlocks
  BY ONLY <1>3, <1>4 DEF FallingBlocks
<1>6. OneEach(G)
  <2>1. F \subseteq FallingBlocks /\ IsFiniteSet(F) /\ \A f, k \in F : f.x = k.x /\ f.y = k.y => f = k
    BY DEF Airborne, OneEach
  <2>2. IsFiniteSet(F \ {e})
    BY <2>1, FS_RemoveElement
  <2>3. IsFiniteSet((F \ {e}) \cup {m})
    BY <2>2, FS_AddElement
  <2>4. \A f, k \in G : f.x = k.x /\ f.y = k.y => f = k
    BY <1>0, <1>2, <1>3, <1>4, <2>1
  <2>5. IsFiniteSet(G) /\ G \subseteq FallingBlocks
    BY <1>2, <1>5, <2>1, <2>3
  <2> QED
    BY <2>4, <2>5 DEF OneEach
<1>7. InTheOpen(g, G)
  <2>1. IsOpen(g[<<m.x, m.y>>])
    BY <1>0, <1>1, <1>3 DEF At
  <2> QED
    BY <1>2, <2>1 DEF Airborne, InTheOpen
<1>8. \A u, v : Standing(G, u, v) <=> Standing(F, u, v)
  BY <1>0, <1>2, <1>3 DEF Standing
<1>9. \A u, v : Afloat(G, u, v) <=> (Afloat(F, u, v) /\ ~(u = x /\ v = y)) \/ (u = x /\ v = y - 1)
  BY <1>0, <1>1, <1>2, <1>3, <1>4 DEF Afloat
<1>10. \A u, v : Blocked(g, G, u, v) <=> Blocked(g, F, u, v)
  BY <1>8 DEF Blocked
<1>11. ~Blocked(g, F, x, y)
  <2>1. IsOpen(At(g, <<x, y>>))
    <3>1. IsOpen(g[<<x, y>>])
      BY <1>0, <1>1 DEF Airborne, InTheOpen
    <3>2. <<x, y>> \in Cells
      BY <1>3 DEF Cells
    <3> QED
      BY <3>1, <3>2 DEF At
  <2>2. ~Standing(F, x, y)
    BY <1>0, <1>1, <1>4 DEF Standing
  <2> QED
    BY <2>1, <2>2 DEF Blocked
<1>12. HasWay(g, G)
  <2> SUFFICES ASSUME NEW u \in 1 .. Width, NEW a \in 1 .. Height, NEW b \in 1 .. Height, a <= b,
                      \A v \in a .. b : Afloat(G, u, v)
               PROVE  ~Blocked(g, F, u, a - 1) \/ ~Blocked(g, F, u, b + 1)
    BY <1>10 DEF HasWay
  <2>1. CASE u = x /\ y - 1 \in a .. b
    <3>1. ~Afloat(G, x, y)
      <4>1. y # y - 1
        BY <1>3
      <4> QED
        BY <1>9, <4>1
    <3>2. y \notin a .. b
      BY <2>1, <3>1
    <3>3. b + 1 = y
      BY <1>3, <2>1, <3>2
    <3> QED
      BY <1>11, <2>1, <3>3
  <2>2. CASE ~(u = x /\ y - 1 \in a .. b)
    <3>1. \A v \in a .. b : Afloat(F, u, v)
      BY <1>9, <2>2
    <3> QED
      BY <3>1 DEF Airborne, HasWay
  <2> QED
    BY <2>1, <2>2
<1>13. NoneOver(g, G)
  BY <1>2, <1>3, <1>8 DEF Airborne, NoneOver
<1> QED
  BY <1>2, <1>5, <1>6, <1>7, <1>12, <1>13 DEF Airborne

\* What stands becomes a block where it stands.
LEMMA LandsAirborne ==
  ASSUME NEW g, NEW F, Airborne(g, F), NEW e \in F, e.grounded,
         NEW h, h = [g EXCEPT ![<<e.x, e.y>>] = Block("sand")]
  PROVE  Airborne(h, F \ {e})
<1>1. PICK x, y : x = e.x /\ y = e.y
  OBVIOUS
<1>2. PICK G : G = F \ {e}
  OBVIOUS
<1>3. x \in 1 .. Width /\ y \in 2 .. Height /\ y \in Int /\ <<x, y>> \in Cells
  BY <1>1, OfFalling, AboveBedrock DEF Airborne
<1>4. \A f \in G : f \in F /\ ~(f.x = x /\ f.y = y)
  BY <1>1, <1>2 DEF Airborne, OneEach
<1>5. g \in [Cells -> BlockStates] /\ h = [g EXCEPT ![<<x, y>>] = Block("sand")]
  BY <1>1 DEF Airborne, Bedded
<1>6. \A d : At(h, d) = IF d = <<x, y>> THEN Block("sand") ELSE At(g, d)
  BY <1>3, <1>5 DEF At
<1>7. Bedded(h)
  <2>1. h \in [Cells -> BlockStates]
    BY <1>5, BlocksAre
  <2>2. ASSUME NEW u \in 1 .. Width PROVE h[<<u, 1>>] = Block("bedrock")
    <3>1. g[<<u, 1>>] = Block("bedrock") /\ <<u, 1>> \in Cells /\ <<u, 1>> # <<x, y>>
      BY <1>3, SizesAssumption DEF Airborne, Bedded, Cells
    <3> QED
      BY <1>5, <3>1
  <2> QED
    BY <2>1, <2>2 DEF Bedded
<1>8. OneEach(G)
  <2>1. IsFiniteSet(G)
    BY <1>2, FS_RemoveElement DEF Airborne, OneEach
  <2> QED
    BY <1>2, <2>1 DEF Airborne, OneEach
<1>9. InTheOpen(h, G)
  <2>1. ASSUME NEW f \in G PROVE IsOpen(h[<<f.x, f.y>>])
    <3>1. IsOpen(g[<<f.x, f.y>>]) /\ <<f.x, f.y>> \in Cells /\ <<f.x, f.y>> # <<x, y>>
      BY <1>4, OfFalling DEF Airborne, InTheOpen
    <3> QED
      BY <1>5, <3>1
  <2> QED
    BY <2>1 DEF InTheOpen
<1>10. \A u, v : Afloat(G, u, v) => Afloat(F, u, v)
  BY <1>2 DEF Afloat
<1>11. Standing(F, x, y) /\ \A u, v : Standing(G, u, v) => Standing(F, u, v)
  BY <1>1, <1>2 DEF Standing
<1>12. \A u, v : Blocked(h, G, u, v) => Blocked(g, F, u, v)
  BY <1>6, <1>11 DEF Blocked
<1>13. HasWay(h, G)
  BY <1>10, <1>12 DEF Airborne, HasWay
<1>14. NoneOver(h, G)
  <2>1. ASSUME NEW f \in G, f.grounded
        PROVE  ~IsGravity(At(h, <<f.x, f.y + 1>>)) /\ ~Standing(G, f.x, f.y + 1)
    <3>1. ~IsGravity(At(g, <<f.x, f.y + 1>>)) /\ ~Standing(F, f.x, f.y + 1)
      BY <1>2, <2>1 DEF Airborne, NoneOver
    <3>2. <<f.x, f.y + 1>> # <<x, y>>
      BY <1>11, <3>1
    <3> QED
      BY <1>6, <1>11, <3>1, <3>2
  <2> QED
    BY <2>1 DEF NoneOver
<1> QED
  BY <1>2, <1>7, <1>8, <1>9, <1>13, <1>14 DEF Airborne

---------------------------------------------------------------------------
(* Counting sand.                                                          *)

LEMMA SandChanges ==
  ASSUME NEW g \in [Cells -> BlockStates], NEW c \in Cells, NEW b \in BlockStates, NEW h, h = [g EXCEPT ![c] = b]
  PROVE  SandIn(h) = SandIn(g) - (IF IsGravity(g[c]) THEN 1 ELSE 0) + (IF IsGravity(b) THEN 1 ELSE 0)
<1>1. PICK S : S = {e \in Cells : g[e].name = "sand"}
  OBVIOUS
<1>2. PICK T : T = {e \in Cells : h[e].name = "sand"}
  OBVIOUS
<1>3. SandIn(g) = Cardinality(S) /\ SandIn(h) = Cardinality(T) /\ SandIn(g) \in Nat /\ SandIn(h) \in Nat
  BY <1>1, <1>2, SandIsCounted DEF SandIn
<1>4. IsFiniteSet(S)
  BY <1>1, CellsAreFinite, FS_Subset
<1>5. (c \in S <=> IsGravity(g[c])) /\ (c \in T <=> IsGravity(b)) /\ \A e : e # c => (e \in T <=> e \in S)
  BY <1>1, <1>2 DEF IsGravity
<1>6. CASE c \in S /\ c \in T
  <2>1. S = T
    BY <1>5, <1>6
  <2> QED
    BY <1>3, <1>5, <1>6, <2>1
<1>7. CASE c \in S /\ c \notin T
  <2>1. T = S \ {c}
    BY <1>5, <1>7
  <2>2. Cardinality(T) = Cardinality(S) - 1
    BY <1>4, <1>7, <2>1, FS_RemoveElement
  <2> QED
    BY <1>3, <1>5, <1>7, <2>2
<1>8. CASE c \notin S /\ c \in T
  <2>1. T = S \cup {c}
    BY <1>5, <1>8
  <2>2. Cardinality(T) = Cardinality(S) + 1
    BY <1>4, <1>8, <2>1, FS_AddElement
  <2> QED
    BY <1>3, <1>5, <1>8, <2>2
<1>9. CASE c \notin S /\ c \notin T
  <2>1. S = T
    BY <1>5, <1>9
  <2> QED
    BY <1>3, <1>5, <1>9, <2>1
<1> QED
  BY <1>6, <1>7, <1>8, <1>9

\* s has the sand and the bedrock that w has, each where it was.
SandStays(w, s) ==
  /\ s \in Worlds
  /\ \A c \in Cells : /\ IsGravity(s.blocks[c]) <=> IsGravity(w.blocks[c])
                      /\ w.blocks[c] = Block("bedrock") => s.blocks[c] = Block("bedrock")

LEMMA SandStaysAlong ==
  \A w, v, s : SandStays(w, v) /\ SandStays(v, s) => SandStays(w, s)
BY DEF SandStays

Loose(b) == b.name \notin {"sand", "bedrock"}

LEMMA LooseAre ==
  /\ \A b : Loose(b) => ~IsGravity(b) /\ b # Block("bedrock")
  /\ \A b : IsFluid(b) \/ IsOpen(b) \/ IsLeaf(b) \/ IsPressed(b) \/ b.name \in {"air", "ice"} => Loose(b)
  /\ \A name \in {"water", "lava"} : \A level : Loose(Fluid(name, level))
  /\ Loose(Air) /\ Loose(Stone) /\ \A b : Loose(HardenedLava(b))
  /\ Loose(Block("button")) /\ Loose([name |-> "button", level |-> 1])
<1>1. \A name : Block(name).name = name
  BY DEF Block
<1>2. \A b : Loose(b) => ~IsGravity(b) /\ b # Block("bedrock")
  BY <1>1 DEF Loose, IsGravity
<1>3. Loose(Air) /\ Loose(Stone) /\ Loose(Block("button")) /\ Loose(Block("obsidian")) /\ Loose(Block("cobblestone"))
  BY <1>1 DEF Loose, Air, Stone
<1>4. \A b : IsFluid(b) \/ IsLeaf(b) \/ IsPressed(b) \/ b.name \in {"air", "ice"} => Loose(b)
  BY DEF Loose, IsFluid, IsLeaf, IsPressed
<1>5. \A b : IsOpen(b) => Loose(b)
  BY <1>3, <1>4 DEF IsOpen
<1>6. \A b : Loose(HardenedLava(b))
  BY <1>3 DEF HardenedLava
<1>7. \A name \in {"water", "lava"} : \A level : Loose(Fluid(name, level))
  BY DEF Loose, Fluid
<1>8. Loose([name |-> "button", level |-> 1])
  BY DEF Loose
<1> QED
  BY <1>2, <1>3, <1>4, <1>5, <1>6, <1>7, <1>8

LEMMA SetBlockStays ==
  ASSUME NEW w \in Worlds, NEW c \in Cells, Loose(w.blocks[c]), NEW b \in BlockStates, Loose(b)
  PROVE  SandStays(w, SetBlock(w, c, b))
<1>1. PICK s : s = SetBlock(w, c, b)
  OBVIOUS
<1>2. s \in Worlds /\ s.blocks = [w.blocks EXCEPT ![c] = b] /\ w.blocks \in [Cells -> BlockStates]
  BY <1>1, SetBlockDoes DEF Worlds
<1> QED
  BY <1>1, <1>2, LooseAre DEF SandStays

LEMMA SetFluidStays ==
  ASSUME NEW w \in Worlds, NEW c \in Cells, Loose(w.blocks[c]), NEW name \in {"water", "lava"}, NEW level \in Nat
  PROVE  SandStays(w, SetFluid(w, c, name, level))
<1>1. PICK v : v = SetBlock(w, c, Fluid(name, level))
  OBVIOUS
<1>2. SandStays(w, v)
  BY <1>1, BlocksAre, LooseAre, SetBlockStays
<1>3. PICK q : q = {Request(c, "fluid", FluidDelay[name])}
  OBVIOUS
<1>4. Asking(q)
  BY <1>3, DelaysAre DEF Asking, Request, TickKinds
<1>5. PICK s : s = ScheduleAll(v, q)
  OBVIOUS
<1>6. s \in Worlds /\ s.blocks = v.blocks
  BY <1>2, <1>4, <1>5, ScheduleAllKeeps DEF SandStays
<1>7. s = SetFluid(w, c, name, level)
  BY <1>1, <1>3, <1>5 DEF SetFluid, Schedule
<1> QED
  BY <1>2, <1>6, <1>7 DEF SandStays

LEMMA HardenAtStays ==
  ASSUME NEW w \in Worlds, NEW d
  PROVE  SandStays(w, HardenAt(w, d))
<1>1. CASE At(w.blocks, d).name # "lava"
  BY <1>1 DEF HardenAt, SandStays
<1>2. CASE At(w.blocks, d).name = "lava"
  <2>1. d \in Cells /\ w.blocks[d].name = "lava"
    BY <1>2, AtIs DEF Worlds, IsFluid
  <2>2. PICK b \in BlockStates : b = HardenedLava(w.blocks[d])
    BY BlocksAre DEF HardenedLava
  <2>3. Loose(w.blocks[d]) /\ Loose(b)
    BY <2>1, <2>2, LooseAre DEF IsFluid
  <2>4. SandStays(w, SetBlock(w, d, b))
    BY <2>1, <2>3, SetBlockStays
  <2> QED
    BY <1>2, <2>2, <2>4 DEF HardenAt
<1> QED
  BY <1>1, <1>2

LEMMA SpreadToStays ==
  ASSUME NEW w \in Worlds, NEW d, d[2] \in 1 .. Height, NEW name \in {"water", "lava"}, NEW level \in Nat
  PROVE  SandStays(w, SpreadTo(w, d, name, level))
<1>1. CASE ~Takes(At(w.blocks, d), name, level)
  BY <1>1 DEF SpreadTo, SandStays
<1>2. CASE Takes(At(w.blocks, d), name, level)
  <2>1. d \in Cells
    BY <1>2 DEF Takes, At, Stone, Air, Block
  <2>2. Takes(w.blocks[d], name, level)
    BY <1>2, <2>1 DEF At
  <2>3. Loose(w.blocks[d])
    BY <2>2, LooseAre DEF Takes, IsFluid
  <2> QED
    BY <1>2, <2>1, <2>3, SetFluidStays DEF SpreadTo
<1> QED
  BY <1>1, <1>2

LEMMA FlowStays ==
  ASSUME NEW w \in Worlds, NEW c \in Cells, NEW b \in BlockStates, IsFluid(b)
  PROVE  SandStays(w, Flow(w, c, b))
<1>1. PICK name \in {"water", "lava"} : name = b.name
  BY DEF IsFluid
<1>2. CASE FallsOnto(w.blocks, name, c)
  <2>1. Below(c) \in Cells /\ w.blocks[Below(c)].name \in {"air", name} /\ 8 \in Nat
    BY <1>2, NextToIs DEF FallsOnto, At
  <2>2. Loose(w.blocks[Below(c)])
    BY <2>1 DEF Loose
  <2> QED
    BY <1>1, <1>2, <2>1, <2>2, SetFluidStays DEF Flow
<1>3. CASE ~FallsOnto(w.blocks, name, c)
  <2>1. Flow(w, c, b) = SpreadSideways(w, c, b)
    BY <1>1, <1>3 DEF Flow
  <2>2. PICK level \in Nat : level = SpreadLevel(b)
    <3>1. DropOff[b.name] \in Nat
      BY <1>1, BlocksAssumption
    <3> QED
      BY <3>1 DEF SpreadLevel, BlockStates
  <2>3. PICK v : v = SpreadTo(w, East(c), name, level)
    OBVIOUS
  <2>4. SandStays(w, v) /\ v \in Worlds
    BY <2>3, NextToIs, SpreadToStays DEF SandStays
  <2>5. SandStays(v, SpreadTo(v, West(c), name, level))
    BY <2>4, NextToIs, SpreadToStays
  <2>6. SandStays(w, w)
    BY DEF SandStays
  <2> QED
    BY <1>1, <2>1, <2>2, <2>3, <2>4, <2>5, <2>6, SandStaysAlong DEF SpreadSideways
<1> QED
  BY <1>2, <1>3

LEMMA FluidSandStays ==
  ASSUME NEW w \in Worlds, NEW c \in Cells
  PROVE  SandStays(w, ProcessFluid(w, c))
<1>1. PICK b : b = w.blocks[c]
  OBVIOUS
<1>2. b \in BlockStates /\ SandStays(w, w)
  BY <1>1 DEF Worlds, SandStays
<1>3. CASE b.name = "lava"
  <2>1. ProcessFluid(w, c) = ProcessLava(w, c, b)
    BY <1>1, <1>3 DEF ProcessFluid
  <2>2. CASE \E d \in Beside(c) \cup {Atop(c)} : At(w.blocks, d).name = "water"
    <3>1. PICK h \in BlockStates : h = HardenedLava(b)
      BY BlocksAre DEF HardenedLava
    <3>2. Loose(h) /\ Loose(w.blocks[c])
      BY <1>1, <1>3, <3>1, LooseAre DEF IsFluid
    <3>3. SandStays(w, SetBlock(w, c, h))
      BY <3>2, SetBlockStays
    <3> QED
      BY <2>1, <2>2, <3>1, <3>3 DEF ProcessLava
  <2>3. CASE At(w.blocks, Below(c)).name = "water"
    <3>1. Below(c) \in Cells /\ w.blocks[Below(c)].name = "water"
      BY <2>3, AtIs DEF Worlds, IsFluid
    <3>2. Loose(w.blocks[Below(c)])
      BY <3>1 DEF Loose
    <3>3. SandStays(w, SetBlock(w, Below(c), Stone))
      BY <3>1, <3>2, BlocksAre, LooseAre, SetBlockStays
    <3> QED
      BY <2>1, <2>2, <2>3, <3>3 DEF ProcessLava
  <2>4. SandStays(w, Flow(w, c, b))
    BY <1>2, <1>3, FlowStays DEF IsFluid
  <2> QED
    BY <2>1, <2>2, <2>3, <2>4 DEF ProcessLava
<1>4. CASE b.name = "water"
  <2>1. PICK u : u = HardenAt(w, East(c))
    OBVIOUS
  <2>2. PICK v : v = HardenAt(u, West(c))
    OBVIOUS
  <2>3. PICK s : s = HardenAt(v, Below(c))
    OBVIOUS
  <2>4. SandStays(w, u) /\ u \in Worlds
    BY <2>1, HardenAtStays DEF SandStays
  <2>5. SandStays(u, v) /\ v \in Worlds
    BY <2>2, <2>4, HardenAtStays DEF SandStays
  <2>6. SandStays(v, s) /\ s \in Worlds
    BY <2>3, <2>5, HardenAtStays DEF SandStays
  <2>7. SandStays(w, s)
    BY <2>4, <2>5, <2>6, SandStaysAlong
  <2>8. SandStays(s, Flow(s, c, b))
    BY <1>2, <1>4, <2>6, FlowStays DEF IsFluid
  <2>9. ProcessFluid(w, c) = Flow(s, c, b)
    BY <1>1, <1>4, <2>1, <2>2, <2>3 DEF ProcessFluid, HardenNext
  <2> QED
    BY <2>7, <2>8, <2>9, SandStaysAlong
<1>5. CASE b.name \notin {"lava", "water"}
  BY <1>1, <1>2, <1>5 DEF ProcessFluid
<1> QED
  BY <1>3, <1>4, <1>5

\* Only the rule of falling blocks takes sand away.
LEMMA ProcessedStays ==
  ASSUME NEW w \in Worlds, NEW d \in [at : Cells, kind : TickKinds], d.kind # "fall"
  PROVE  SandStays(w, Processed(w, d))
<1>1. PICK c \in Cells : c = d.at
  OBVIOUS
<1>2. PICK s : s = Processed(w, d)
  OBVIOUS
<1>3. SandStays(w, w)
  BY DEF SandStays
<1>4. CASE d.kind = "fluid"
  BY <1>1, <1>4, FluidSandStays DEF Processed
<1>5. CASE d.kind = "leaf"
  <2>1. s = ProcessLeaf(w, c)
    BY <1>1, <1>2, <1>5 DEF Processed
  <2>2. CASE ~(~IsLeaf(w.blocks[c]) \/ LogInReach(w.blocks, c))
    <3>1. PICK v : v = SetBlock(w, c, Air)
      OBVIOUS
    <3>2. SandStays(w, v)
      BY <2>2, <3>1, BlocksAre, LooseAre, SetBlockStays
    <3>3. PICK q : q = {Request(e, "leaf", LeafDelay) : e \in {e \in Around(c) : IsLeaf(At(w.blocks, e))}}
      OBVIOUS
    <3>4. Asking(q)
      BY <3>3, DelaysAre DEF Asking, Request, TickKinds
    <3>5. s = ScheduleAll(v, q)
      BY <2>1, <2>2, <3>1, <3>3 DEF ProcessLeaf
    <3>6. s \in Worlds /\ s.blocks = v.blocks
      BY <3>2, <3>4, <3>5, ScheduleAllKeeps DEF SandStays
    <3> QED
      BY <1>2, <3>2, <3>6 DEF SandStays
  <2> QED
    BY <1>2, <1>3, <2>1, <2>2 DEF ProcessLeaf
<1>6. CASE d.kind = "ice"
  <2>1. s = ProcessIce(w, c)
    BY <1>1, <1>2, <1>6 DEF Processed
  <2>2. CASE w.blocks[c].name = "ice"
    <3>1. Loose(w.blocks[c]) /\ 0 \in Nat
      BY <2>2 DEF Loose
    <3> QED
      BY <1>2, <2>1, <2>2, <3>1, SetFluidStays DEF ProcessIce
  <2> QED
    BY <1>2, <1>3, <2>1, <2>2 DEF ProcessIce
<1>7. CASE d.kind = "button"
  <2>1. s = ProcessButton(w, c)
    BY <1>1, <1>2, <1>7 DEF Processed
  <2>2. CASE IsPressed(w.blocks[c])
    BY <1>2, <2>1, <2>2, BlocksAre, LooseAre, SetBlockStays DEF ProcessButton
  <2> QED
    BY <1>2, <1>3, <2>1, <2>2 DEF ProcessButton
<1> QED
  BY <1>4, <1>5, <1>6, <1>7 DEF TickKinds

LEMMA StaysBedded ==
  ASSUME NEW g, Bedded(g), NEW c \in Cells, g[c] # Block("bedrock"), NEW b \in BlockStates
  PROVE  Bedded([g EXCEPT ![c] = b])
<1>1. g \in [Cells -> BlockStates]
  BY DEF Bedded
<1>2. ASSUME NEW x \in 1 .. Width PROVE [g EXCEPT ![c] = b][<<x, 1>>] = Block("bedrock")
  <2>1. g[<<x, 1>>] = Block("bedrock") /\ <<x, 1>> \in Cells
    BY SizesAssumption DEF Bedded, Cells
  <2> QED
    BY <1>1, <2>1
<1> QED
  BY <1>1, <1>2 DEF Bedded

SandAccounted(g, F, n) == Airborne(g, F) /\ SandIn(g) + Cardinality(F) = n
SandSound == meddled \/ SandAccounted(world.blocks, falling, sand)

LEMMA SandStart == TicksInit => SandSound
<1> SUFFICES ASSUME TicksInit PROVE SandAccounted(world.blocks, falling, sand)
  BY DEF SandSound
<1>1. PICK g \in Scenes : world.blocks = g
  BY DEF TicksInit
<1>2. falling = {} /\ sand = SandIn(g)
  BY <1>1 DEF TicksInit
<1>3. Bedded(g)
  BY BlocksAssumption DEF Bedded
<1>4. IsFiniteSet({}) /\ Cardinality({}) = 0
  BY FS_EmptySet
<1>5. OneEach({}) /\ InTheOpen(g, {}) /\ NoneOver(g, {})
  BY <1>4 DEF OneEach, InTheOpen, NoneOver
<1>6. HasWay(g, {})
  <2> SUFFICES ASSUME NEW x \in 1 .. Width, NEW a \in 1 .. Height, NEW b \in 1 .. Height, a <= b,
                      \A y \in a .. b : Afloat({}, x, y)
               PROVE  FALSE
    BY DEF HasWay
  <2>1. a \in a .. b
    BY SizesAssumption
  <2> QED
    BY <2>1 DEF Afloat
<1>7. SandIn(g) + 0 = SandIn(g)
  BY SandIsCounted
<1> QED
  BY <1>1, <1>2, <1>3, <1>4, <1>5, <1>6, <1>7 DEF SandAccounted, Airborne

\* Something else changed, and nothing was filled where sand is falling.
LEMMA NothingFilled ==
  ASSUME NEW g, SandAccounted(g, falling, sand), NEW h, Bedded(h), ~Fills(g, h),
         \A c \in Cells : (\E e \in falling : e.x = c[1]) /\ IsGravity(h[c]) => IsGravity(g[c])
  PROVE  Airborne(h, falling)
BY StaysAirborne DEF Fills, SandAccounted

\* Sand that starts to fall leaves its cell.
LEMMA FallAccounted ==
  ASSUME NEW g, NEW F, NEW n, SandAccounted(g, F, n), NEW c \in Cells, CanFall(g, c)
  PROVE  SandAccounted([g EXCEPT ![c] = Air], F \cup {[x |-> c[1], y |-> c[2], grounded |-> FALSE]}, n)
<1>1. PICK h : h = [g EXCEPT ![c] = Air]
  OBVIOUS
<1>2. PICK e : e = [x |-> c[1], y |-> c[2], grounded |-> FALSE]
  OBVIOUS
<1>3. e \notin F /\ Airborne(h, F \cup {e})
  BY <1>1, <1>2, StartsAirborne DEF SandAccounted
<1>4. g \in [Cells -> BlockStates] /\ IsFiniteSet(F)
  BY DEF SandAccounted, Airborne, Bedded, OneEach
<1>5. SandIn(h) = SandIn(g) - 1 /\ SandIn(g) \in Nat /\ SandIn(h) \in Nat
  <2>1. Air \in BlockStates /\ ~IsGravity(Air) /\ IsGravity(g[c])
    BY BlocksAre, KindsApart DEF CanFall
  <2>2. SandIn(h) = SandIn(g) - 1 + 0
    BY <1>1, <1>4, <2>1, SandChanges
  <2> QED
    BY <2>2, SandIsCounted
<1>6. Cardinality(F \cup {e}) = Cardinality(F) + 1 /\ Cardinality(F) \in Nat
  BY <1>3, <1>4, FS_AddElement, FS_CardinalityType
<1>7. SandIn(h) + Cardinality(F \cup {e}) = n
  BY <1>5, <1>6 DEF SandAccounted
<1> QED
  BY <1>1, <1>2, <1>3, <1>7 DEF SandAccounted

LEMMA MoveAccounted ==
  ASSUME SandAccounted(world.blocks, falling, sand), MoveEntity
  PROVE  SandAccounted(world.blocks, falling', sand)
<1>1. PICK e \in falling : /\ ~e.grounded /\ \A f \in falling \ {e} : f.x = e.x => f.y # Moved(e).y
                           /\ falling' = (falling \ {e}) \cup {Moved(e)}
  BY DEF MoveEntity
<1>2. PICK g : g = world.blocks
  OBVIOUS
<1>3. PICK m : m = Moved(e)
  OBVIOUS
<1>4. Airborne(g, falling) /\ ~e.grounded
  BY <1>1, <1>2 DEF SandAccounted
<1>5. PICK G : G = (falling \ {e}) \cup {m}
  OBVIOUS
<1>6. m \notin falling \ {e} /\ Airborne(g, G)
  <2>1. Grounds(g, falling, e, m, G) \/ Sinks(g, falling, e, m, G)
    <3>1. \/ /\ m = [x |-> e.x, y |-> e.y, grounded |-> TRUE]
             /\ ~IsOpen(At(g, <<e.x, e.y - 1>>)) /\ IsOpen(At(g, <<e.x, e.y + 1>>))
          \/ /\ m = [x |-> e.x, y |-> e.y - 1, grounded |-> FALSE]
             /\ IsOpen(At(g, <<e.x, e.y - 1>>)) /\ e.y - 1 \in 2 .. Height
      BY <1>1, <1>2, <1>3, <1>4, MovedIs
    <3> QED
      BY <1>1, <1>3, <1>5, <3>1 DEF Grounds, Sinks
  <2> QED
    BY <1>4, <2>1, GroundsAirborne, SinksAirborne
<1>7. IsFiniteSet(falling)
  BY <1>4 DEF Airborne, OneEach
<1>8. IsFiniteSet(falling \ {e}) /\ Cardinality(falling \ {e}) = Cardinality(falling) - 1 /\ Cardinality(falling) \in Nat
  BY <1>7, FS_RemoveElement, FS_CardinalityType
<1>9. Cardinality(G) = Cardinality(falling \ {e}) + 1
  BY <1>5, <1>6, <1>8, FS_AddElement
<1>10. Cardinality(G) = Cardinality(falling)
  BY <1>8, <1>9
<1>11. falling' = G
  BY <1>1, <1>3, <1>5
<1> QED
  BY <1>2, <1>6, <1>10, <1>11 DEF SandAccounted

LEMMA LandAccounted ==
  ASSUME NEW g, NEW F, NEW n, SandAccounted(g, F, n), NEW e \in F, e.grounded
  PROVE  <<e.x, e.y>> \in Cells /\ SandAccounted([g EXCEPT ![<<e.x, e.y>>] = Block("sand")], F \ {e}, n)
<1>1. PICK c : c = <<e.x, e.y>>
  OBVIOUS
<1>2. PICK h : h = [g EXCEPT ![c] = Block("sand")]
  OBVIOUS
<1>3. Airborne(h, F \ {e})
  BY <1>1, <1>2, LandsAirborne DEF SandAccounted
<1>4. g \in [Cells -> BlockStates] /\ IsFiniteSet(F) /\ OneEach(F) /\ IsOpen(g[c])
  BY <1>1 DEF SandAccounted, Airborne, Bedded, OneEach, InTheOpen
<1>5. c \in Cells
  BY <1>1, <1>4, OfFalling
<1>6. SandIn(h) = SandIn(g) + 1 /\ SandIn(g) \in Nat /\ SandIn(h) \in Nat
  <2>1. Block("sand") \in BlockStates /\ IsGravity(Block("sand")) /\ ~IsGravity(g[c])
    BY <1>4, BlocksAre, KindsApart
  <2>2. SandIn(h) = SandIn(g) - 0 + 1
    BY <1>2, <1>4, <1>5, <2>1, SandChanges
  <2> QED
    BY <2>2, SandIsCounted
<1>7. Cardinality(F \ {e}) = Cardinality(F) - 1 /\ Cardinality(F) \in Nat
  BY <1>4, FS_RemoveElement, FS_CardinalityType
<1>8. SandIn(h) + Cardinality(F \ {e}) = n
  BY <1>6, <1>7 DEF SandAccounted
<1> QED
  BY <1>1, <1>2, <1>3, <1>5, <1>8 DEF SandAccounted

LEMMA SandStep ==
  TypeOK /\ Remembers(world, due) /\ SandSound /\ [TicksNext]_ticksVars => SandSound'
<1> SUFFICES ASSUME TypeOK, Remembers(world, due), SandSound, [TicksNext]_ticksVars, ~meddled'
             PROVE  SandAccounted(world'.blocks, falling', sand')
  BY DEF SandSound
<1>1. ~meddled
  BY DEF TicksNext, Tick, Process, MoveEntity, Land, Edit, Break, Press, Place, ticksVars
<1>2. PICK g : g = world.blocks
  OBVIOUS
<1>3. SandAccounted(g, falling, sand)
  BY <1>1, <1>2 DEF SandSound
<1>4. world \in Worlds /\ g \in [Cells -> BlockStates] /\ sand \in Int /\ Bedded(g) /\ Cardinality(falling) \in Nat
      /\ Airborne(g, falling) /\ SandIn(g) \in Nat
  BY <1>2, <1>3, SandIsCounted, FS_CardinalityType DEF TypeOK, Worlds, SandAccounted, Airborne, OneEach
<1>5. CASE Tick
  <2>1. world'.blocks = g /\ falling' = falling /\ sand' = sand
    BY <1>2, <1>5, TickRemembers DEF Tick
  <2> QED
    BY <1>3, <2>1
<1>6. CASE Process
  <2>1. PICK d \in due : /\ world' = Processed(world, d) /\ falling' = falling \cup Started(world, d) /\ sand' = sand
                         /\ meddled' = (meddled \/ Fills(world.blocks, world'.blocks))
    BY <1>6 DEF Process
  <2>2. d \in [at : Cells, kind : TickKinds]
    BY DEF TypeOK
  <2>3. PICK c \in Cells : c = d.at
    BY <2>2
  <2>4. CASE d.kind = "fall" /\ CanFall(g, c)
    <3>1. world' = SetBlock(world, c, Air)
      BY <1>2, <2>1, <2>3, <2>4 DEF Processed, ProcessFall
    <3>2. world'.blocks = [g EXCEPT ![c] = Air]
      BY <1>2, <1>4, <3>1, BlocksAre, SetBlockDoes
    <3>3. falling' = falling \cup {[x |-> c[1], y |-> c[2], grounded |-> FALSE]}
      BY <1>2, <2>1, <2>3, <2>4 DEF Started
    <3> QED
      BY <1>3, <2>1, <2>4, <3>2, <3>3, FallAccounted
  <2>5. CASE d.kind = "fall" /\ ~CanFall(g, c)
    <3>1. world' = world
      BY <1>2, <2>1, <2>3, <2>5 DEF Processed, ProcessFall
    <3>2. falling' = falling
      BY <1>2, <2>1, <2>3, <2>5 DEF Started
    <3> QED
      BY <1>2, <1>3, <2>1, <3>1, <3>2
  <2>6. CASE d.kind # "fall"
    <3>1. PICK h : h = world'.blocks
      OBVIOUS
    <3>2. SandStays(world, world')
      BY <1>4, <2>1, <2>2, <2>6, ProcessedStays
    <3>3. /\ h \in [Cells -> BlockStates]
          /\ \A e \in Cells : /\ IsGravity(h[e]) <=> IsGravity(g[e])
                              /\ g[e] = Block("bedrock") => h[e] = Block("bedrock")
      BY <1>2, <3>1, <3>2 DEF SandStays, Worlds
    <3>4. Bedded(h)
      <4>1. \A x \in 1 .. Width : <<x, 1>> \in Cells
        BY SizesAssumption DEF Cells
      <4> QED
        BY <1>4, <3>3, <4>1 DEF Bedded
    <3>5. ~Fills(g, h)
      BY <1>2, <2>1, <3>1
    <3>6. Airborne(h, falling)
      BY <1>3, <3>3, <3>4, <3>5, NothingFilled
    <3>7. SandIn(h) = SandIn(g)
      BY <3>3 DEF SandIn, IsGravity
    <3>8. falling' = falling
      BY <2>1, <2>6 DEF Started
    <3> QED
      BY <1>3, <2>1, <3>1, <3>6, <3>7, <3>8 DEF SandAccounted
  <2> QED
    BY <2>4, <2>5, <2>6
<1>7. CASE MoveEntity
  BY <1>2, <1>3, <1>7, MoveAccounted DEF MoveEntity
<1>8. CASE Land
  <2>1. PICK e \in falling : /\ e.grounded /\ world' = SetBlock(world, <<e.x, e.y>>, Block("sand"))
                             /\ falling' = falling \ {e}
                             /\ sand' = sand - (IF <<e.x, e.y>> \in Cells THEN 0 ELSE 1)
    BY <1>8 DEF Land
  <2>2. <<e.x, e.y>> \in Cells /\ SandAccounted([g EXCEPT ![<<e.x, e.y>>] = Block("sand")], falling \ {e}, sand)
    BY <1>3, <2>1, LandAccounted
  <2>3. world'.blocks = [g EXCEPT ![<<e.x, e.y>>] = Block("sand")]
    <3>1. PICK c \in Cells : c = <<e.x, e.y>>
      BY <2>2
    <3>2. PICK b \in BlockStates : b = Block("sand")
      BY BlocksAre
    <3>3. SetBlock(world, c, b).blocks = [world.blocks EXCEPT ![c] = b]
      BY <1>4, SetBlockDoes
    <3> QED
      BY <1>2, <2>1, <3>1, <3>2, <3>3
  <2>4. sand' = sand
    BY <1>4, <2>1, <2>2
  <2> QED
    BY <2>1, <2>2, <2>3, <2>4
<1>9. ASSUME NEW c \in Cells, Break(c) PROVE SandAccounted(world'.blocks, falling', sand')
  <2>1. /\ world' = SetBlock(world, c, Air) /\ g[c] # Block("bedrock") /\ falling' = falling
        /\ sand' = sand - (IF IsGravity(g[c]) THEN 1 ELSE 0)
    BY <1>2, <1>9 DEF Break
  <2>2. PICK h : h = [g EXCEPT ![c] = Air]
    OBVIOUS
  <2>3. world'.blocks = h
    BY <1>2, <1>4, <2>1, <2>2, BlocksAre, SetBlockDoes
  <2>4. Bedded(h)
    BY <1>4, <2>1, <2>2, BlocksAre, StaysBedded
  <2>5. \A e \in Cells : (IsOpen(g[e]) => IsOpen(h[e])) /\ (IsGravity(h[e]) => IsGravity(g[e]))
    BY <1>4, <2>2, KindsApart
  <2>6. Airborne(h, falling)
    BY <1>4, <2>4, <2>5, StaysAirborne
  <2>7. SandIn(h) = SandIn(g) - (IF IsGravity(g[c]) THEN 1 ELSE 0) + 0
    BY <1>4, <2>2, BlocksAre, KindsApart, SandChanges
  <2>8. SandIn(h) + Cardinality(falling) = sand'
    BY <1>3, <1>4, <2>1, <2>7 DEF SandAccounted
  <2> QED
    BY <2>1, <2>3, <2>6, <2>8 DEF SandAccounted
<1>10. ASSUME NEW c \in Cells, Press(c) PROVE SandAccounted(world'.blocks, falling', sand')
  <2>1. PICK b \in BlockStates : b = [name |-> "button", level |-> 1]
    BY DEF BlockStates, BlockNames
  <2>2. PICK v : v = SetBlock(world, c, b)
    OBVIOUS
  <2>3. PICK q : q = {Request(c, "button", ButtonDelay)}
    OBVIOUS
  <2>4. /\ world' = ScheduleAll(v, q) /\ g[c] = Block("button") /\ falling' = falling /\ sand' = sand
    BY <1>2, <1>10, <2>1, <2>2, <2>3 DEF Press, Schedule
  <2>5. PICK h : h = [g EXCEPT ![c] = b]
    OBVIOUS
  <2>6. v \in Worlds /\ v.blocks = h
    BY <1>2, <1>4, <2>2, <2>5, SetBlockDoes
  <2>7. Asking(q)
    BY <2>3, DelaysAre DEF Asking, Request, TickKinds
  <2>8. world'.blocks = h
    BY <2>4, <2>6, <2>7, ScheduleAllKeeps
  <2>9. ~IsGravity(b) /\ ~IsGravity(g[c]) /\ g[c] # Block("bedrock") /\ ~IsOpen(g[c])
    <3>1. Block("button").name = "button" /\ Air.name = "air" /\ Block("bedrock").name = "bedrock"
      BY DEF Block, Air
    <3> QED
      BY <2>1, <2>4, <3>1 DEF IsGravity, IsOpen, IsFluid
  <2>10. Bedded(h)
    BY <1>4, <2>5, <2>9, StaysBedded
  <2>11. \A e \in Cells : (IsOpen(g[e]) => IsOpen(h[e])) /\ (IsGravity(h[e]) => IsGravity(g[e]))
    BY <1>4, <2>5, <2>9
  <2>12. Airborne(h, falling)
    BY <1>4, <2>10, <2>11, StaysAirborne
  <2>13. SandIn(h) = SandIn(g) - 0 + 0
    BY <1>4, <2>5, <2>9, SandChanges
  <2> QED
    BY <1>3, <1>4, <2>4, <2>8, <2>12, <2>13 DEF SandAccounted
<1>11. ASSUME NEW c \in Cells, NEW b \in Placeable, Place(c, b) PROVE SandAccounted(world'.blocks, falling', sand')
  <2>1. /\ world' = SetBlock(world, c, b) /\ IsOpen(g[c]) /\ falling' = falling /\ b \in BlockStates
        /\ sand' = sand + (IF IsGravity(b) THEN 1 ELSE 0) /\ ~Fills(g, world'.blocks)
    BY <1>2, <1>11, BlocksAssumption DEF Place
  <2>2. PICK h : h = [g EXCEPT ![c] = b]
    OBVIOUS
  <2>3. world'.blocks = h
    BY <1>2, <1>4, <2>1, <2>2, SetBlockDoes
  <2>4. ~IsGravity(g[c]) /\ g[c] # Block("bedrock") /\ h[c] = b /\ \A e \in Cells : e # c => h[e] = g[e]
    BY <1>4, <2>1, <2>2, KindsApart
  <2>5. Bedded(h)
    BY <1>4, <2>1, <2>2, <2>4, StaysBedded
  <2>6. ASSUME NEW e \in Cells, \E f \in falling : f.x = e[1], IsGravity(h[e]) PROVE IsGravity(g[e])
    <3>1. CASE e = c
      <4>1. IsOpen(b)
        BY <2>1, <2>3, <2>4, <2>6, <3>1 DEF Fills
      <4> QED
        BY <2>4, <2>6, <3>1, <4>1, KindsApart
    <3> QED
      BY <2>4, <2>6, <3>1
  <2>7. Airborne(h, falling)
    BY <1>3, <2>1, <2>3, <2>5, <2>6, NothingFilled
  <2>8. SandIn(h) = SandIn(g) - 0 + (IF IsGravity(b) THEN 1 ELSE 0)
    BY <1>4, <2>1, <2>2, <2>4, SandChanges
  <2>9. SandIn(h) + Cardinality(falling) = sand'
    BY <1>3, <1>4, <2>1, <2>8 DEF SandAccounted
  <2> QED
    BY <2>1, <2>3, <2>7, <2>9 DEF SandAccounted
<1>12. CASE UNCHANGED ticksVars
  BY <1>2, <1>3, <1>12 DEF ticksVars
<1> QED
  BY <1>5, <1>6, <1>7, <1>8, <1>9, <1>10, <1>11, <1>12 DEF TicksNext, Edit

\* server.go:3221 and 5783: whatever is built elsewhere, dug away or flows while sand is in
\* the air, each block of it that starts to fall lands as one block, in an open cell, as long
\* as nothing else is put where it is, below it or above it.
THEOREM SandAlwaysConserved == TicksSpec => []SandIsConserved
<1> DEFINE IInv == TypeOK /\ Remembers(world, due) /\ SandSound
<1>1. TicksInit => IInv
  BY TicksStart, SandStart
<1>2. IInv /\ [TicksNext]_ticksVars => IInv'
  BY TicksStep, SandStep
<1>3. IInv => SandIsConserved
  BY DEF SandSound, SandAccounted, SandIsConserved
<1> HIDE DEF IInv
<1> QED
  BY <1>1, <1>2, <1>3, PTL DEF TicksSpec

---------------------------------------------------------------------------
(* Redstone: what computePower can give.                                   *)

Levels == 0 .. Strongest

LEMMA LevelsAre == 0 \in Levels /\ Strongest \in Levels /\ Strongest \in Nat \ {0} /\ \A l \in Levels : l \in Nat /\ l <= Strongest
BY RedstoneAssumption DEF Levels

\* The best of levels is one of them, or 0, and none is better.
LEMMA BestIs ==
  ASSUME NEW X, \A x \in X : x \in Int /\ x <= Strongest
  PROVE  Best(X) \in Levels /\ (Best(X) # 0 => Best(X) \in X) /\ \A x \in X : x <= Best(X)
<1>1. PICK Y : Y = X \cup {0}
  OBVIOUS
<1>2. \A y \in Y : y \in Int /\ y <= Strongest
  BY <1>1, LevelsAre
<1>3. PICK T : T = {Strongest - y : y \in Y}
  OBVIOUS
<1>4. T \in SUBSET Nat /\ T # {}
  BY <1>1, <1>2, <1>3, LevelsAre
<1>5. PICK n \in T : \A k \in T : n <= k
  BY <1>4, LeastNat
<1>6. PICK m \in Y : n = Strongest - m
  BY <1>3
<1>7. ASSUME NEW y \in Y PROVE m >= y
  <2>1. Strongest - y \in T
    BY <1>3
  <2>2. Strongest - m <= Strongest - y
    BY <1>5, <1>6, <2>1
  <2> QED
    BY <1>2, <2>2, LevelsAre
<1>8. PICK b : b = Max(Y)
  OBVIOUS
<1>9. b \in Y /\ \A y \in Y : b >= y
  BY <1>7, <1>8 DEF Max
<1>10. b = Best(X)
  BY <1>1, <1>8 DEF Best
<1>11. b \in Int /\ b <= Strongest /\ b >= 0
  BY <1>1, <1>2, <1>9
<1>12. \A x \in X : x <= b
  BY <1>1, <1>2, <1>9, <1>11
<1> QED
  BY <1>1, <1>9, <1>10, <1>11, <1>12 DEF Levels

LEMMA SitesAre == \A c \in Sites : c \in Int \X Int
BY RedstoneAssumption

LEMMA PowerAtIs == ASSUME PowerOK, NEW c PROVE PowerAt(c) \in Levels
BY LevelsAre DEF PowerOK, PowerAt, Levels

LEMMA PartAtIs ==
  ASSUME PowerOK, NEW c
  PROVE  PartAt(c) \in Parts /\ (c \notin Sites => PartAt(c).name = "stone" /\ PowerAt(c) = 0)
<1>1. Rock \in Parts /\ Rock.name = "stone"
  BY LevelsAre DEF Rock, Part, Parts, PartNames, Levels
<1> QED
  BY <1>1 DEF PowerOK, PartAt, PowerAt

LEMMA SourceIs == ASSUME NEW c, NEW target PROVE PowerFromSource(c) \in {0, Strongest} /\ SourceToward(c, target) \in {0, PowerFromSource(c)}
BY DEF PowerFromSource, SourceToward

LEMMA SourceTowardIs == ASSUME NEW c, NEW target PROVE SourceToward(c, target) \in Levels
BY SourceIs, LevelsAre

LEMMA ConductorTowardIs == ASSUME PowerOK, NEW c, NEW target PROVE ConductorToward(c, target) \in Levels
BY PowerAtIs, LevelsAre DEF ConductorToward

LEMMA StrongThroughIs ==
  ASSUME PowerOK, NEW c, NEW target
  PROVE  LET X == {SourceToward(d, c) : d \in Touching(c) \ {target}}
                  \cup {PowerAt(d) : d \in {e \in {Over(c)} \ {target} : IsA(e, {"wire"})}}
         IN /\ StrongThrough(c, target) \in Levels
            /\ StrongThrough(c, target) # 0 => StrongThrough(c, target) \in X
<1>1. PICK X : X = {SourceToward(d, c) : d \in Touching(c) \ {target}}
                   \cup {PowerAt(d) : d \in {e \in {Over(c)} \ {target} : IsA(e, {"wire"})}}
  OBVIOUS
<1>2. \A x \in X : x \in Levels
  BY <1>1, SourceTowardIs, PowerAtIs
<1>3. \A x \in X : x \in Int /\ x <= Strongest
  BY <1>2 DEF Levels
<1>4. Best(X) \in Levels /\ (Best(X) # 0 => Best(X) \in X)
  BY <1>3, BestIs
<1>5. StrongThrough(c, target) = Best(X)
  BY <1>1 DEF StrongThrough
<1> QED
  BY <1>1, <1>4, <1>5

LEMMA KindsDiffer ==
  ASSUME NEW c
  PROVE  /\ IsFullBlock(c) => ~IsSource(c) /\ ~IsConductor(c)
         /\ IsA(c, {"wire"}) => ~IsSource(c) /\ IsConductor(c) /\ ~IsA(c, {"repeater"})
         /\ IsA(c, {"repeater"}) => ~IsSource(c) /\ IsConductor(c)
BY DEF IsFullBlock, IsSource, IsConductor, IsA

LEMMA GivenIs ==
  ASSUME PowerOK, NEW c, NEW target
  PROVE  /\ Given(c, target) \in Levels
         /\ \/ Given(c, target) = 0
            \/ IsSource(c) /\ Given(c, target) = SourceToward(c, target)
            \/ IsConductor(c) /\ ~IsSource(c) /\ Given(c, target) = ConductorToward(c, target)
            \/ IsFullBlock(c) /\ Given(c, target) = StrongThrough(c, target)
<1>1. CASE IsSource(c)
  BY <1>1, SourceTowardIs, KindsDiffer DEF Given
<1>2. CASE IsConductor(c) /\ ~IsSource(c)
  BY <1>2, ConductorTowardIs, KindsDiffer DEF Given
<1>3. CASE ~IsSource(c) /\ ~IsConductor(c) /\ IsFullBlock(c) /\ ~IsFullBlock(target)
  BY <1>3, StrongThroughIs, KindsDiffer DEF Given
<1>4. CASE ~IsSource(c) /\ ~IsConductor(c) /\ ~(IsFullBlock(c) /\ ~IsFullBlock(target))
  BY <1>4, LevelsAre, KindsDiffer DEF Given
<1> QED
  BY <1>1, <1>2, <1>3, <1>4

\* The wires that computePower reads around a site.
WiresBy(c) == {d \in Touching(c) \cup StepsTo(c) : IsA(d, {"wire"})}

LEMMA WirePowerIs ==
  ASSUME PowerOK, NEW c
  PROVE  /\ WirePower(c) \in Levels
         /\ WirePower(c) # 0 =>
              \/ \E d \in WiresBy(c) : WirePower(c) = PowerAt(d) - 1
              \/ \E d \in Touching(c) \ WiresBy(c) : WirePower(c) = Given(d, c)
<1>1. PICK X : X = {PowerAt(d) - 1 : d \in WiresBy(c)} \cup {Given(d, c) : d \in Touching(c) \ WiresBy(c)}
  OBVIOUS
<1>2. ASSUME NEW x \in X PROVE x \in Int /\ x <= Strongest
  <2>1. CASE \E d \in WiresBy(c) : x = PowerAt(d) - 1
    <3>1. PICK d \in WiresBy(c) : x = PowerAt(d) - 1
      BY <2>1
    <3>2. PowerAt(d) \in 0 .. Strongest
      BY PowerAtIs DEF Levels
    <3> QED
      BY <3>1, <3>2, LevelsAre
  <2>2. CASE \E d \in Touching(c) : x = Given(d, c)
    BY <2>2, GivenIs DEF Levels
  <2> QED
    BY <1>1, <2>1, <2>2
<1>3. Best(X) \in Levels /\ (Best(X) # 0 => Best(X) \in X)
  BY <1>2, BestIs
<1>4. WirePower(c) = Best(X)
  BY <1>1 DEF WirePower, WiresBy
<1> QED
  BY <1>1, <1>3, <1>4

LEMMA RestPowerIs ==
  ASSUME PowerOK, NEW c
  PROVE  LET b == Best({Given(d, c) : d \in Touching(c)}) IN
         b \in Levels /\ (b # 0 => \E d \in Touching(c) : b = Given(d, c))
<1>1. PICK X : X = {Given(d, c) : d \in Touching(c)}
  OBVIOUS
<1>2. \A x \in X : x \in Int /\ x <= Strongest
  BY <1>1, GivenIs DEF Levels
<1>3. Best(X) \in Levels /\ (Best(X) # 0 => Best(X) \in X)
  BY <1>2, BestIs
<1> QED
  BY <1>1, <1>3

LEMMA ComputePowerIs == ASSUME PowerOK, NEW c PROVE ComputePower(c) \in Levels
<1>1. RepeaterPower(c) \in Levels
  BY LevelsAre DEF RepeaterPower
<1>2. CASE IsSource(c)
  BY <1>2, SourceIs, LevelsAre, KindsDiffer DEF ComputePower
<1>3. CASE ~IsSource(c) /\ IsA(c, {"wire"})
  BY <1>3, WirePowerIs, KindsDiffer DEF ComputePower
<1>4. CASE ~IsSource(c) /\ ~IsA(c, {"wire"}) /\ IsA(c, {"repeater"})
  BY <1>1, <1>4, KindsDiffer DEF ComputePower
<1>5. CASE ~IsSource(c) /\ ~IsA(c, {"wire"}) /\ ~IsA(c, {"repeater"})
  BY <1>5, RestPowerIs, KindsDiffer DEF ComputePower
<1> QED
  BY <1>2, <1>3, <1>4, <1>5

---------------------------------------------------------------------------
(* Redstone: types, and what the blocks show.                              *)

LEMMA TurnIs == (turn = NoTurn => turn.at \notin Sites) /\ \A t \in Turns : t # NoTurn
BY RedstoneAssumption DEF NoTurn, Turns

\* A turn's block is the one that was read, unless it was edited since.
TurnShows == turn # NoTurn => circuit[turn.at] = turn.part \/ turn.at \in fresh

LEMMA PoweredIs ==
  ASSUME NEW part \in Parts, NEW level \in Levels
  PROVE  Powered(part, level) \in Parts /\ Powered(Powered(part, level), level) = Powered(part, level)
<1>1. PICK q : q = Powered(part, level)
  OBVIOUS
<1>2. CASE part.name = "wire"
  <2>1. q = [part EXCEPT !.level = level]
    BY <1>1, <1>2 DEF Powered
  <2>2. q \in Parts /\ q.name = "wire" /\ [q EXCEPT !.level = level] = q
    BY <1>2, <2>1 DEF Parts, Levels
  <2>3. Powered(q, level) = [q EXCEPT !.level = level]
    BY <2>2 DEF Powered
  <2> QED
    BY <1>1, <2>2, <2>3
<1>3. CASE part.name \in {"lamp", "torch", "repeater"}
  <2>1. q = [part EXCEPT !.on = level > 0]
    BY <1>1, <1>3 DEF Powered
  <2>2. PICK b \in BOOLEAN : b = (level > 0)
    <3>1. (level > 0) = TRUE \/ (level > 0) = FALSE
      OBVIOUS
    <3> QED
      BY <3>1
  <2>3. q \in Parts /\ q.name \in {"lamp", "torch", "repeater"} /\ [q EXCEPT !.on = b] = q
    BY <1>3, <2>1, <2>2 DEF Parts
  <2>4. Powered(q, level) = [q EXCEPT !.on = level > 0]
    BY <2>3 DEF Powered
  <2> QED
    BY <1>1, <2>2, <2>3, <2>4
<1>4. CASE part.name \notin {"wire", "lamp", "torch", "repeater"}
  BY <1>4 DEF Powered
<1> QED
  BY <1>2, <1>3, <1>4

LEMMA BlankIs == ASSUME NEW part \in Parts, part.level = 0, ~part.on PROVE Powered(part, 0) = part
<1>1. CASE part.name = "wire"
  BY <1>1 DEF Powered, Parts
<1>2. CASE part.name \in {"lamp", "torch", "repeater"}
  <2>1. Powered(part, 0) = [part EXCEPT !.on = 0 > 0]
    BY <1>2 DEF Powered
  <2>2. (0 > 0) = FALSE
    OBVIOUS
  <2> QED
    BY <2>1, <2>2 DEF Parts
<1>3. CASE part.name \notin {"wire", "lamp", "torch", "repeater"}
  BY <1>3 DEF Powered
<1> QED
  BY <1>1, <1>2, <1>3

Wired == PowerOK /\ PartsShowPower /\ TurnShows

LEMMA RedstoneStart == RedstoneInit => Wired
<1> SUFFICES ASSUME RedstoneInit PROVE Wired
  OBVIOUS
<1>1. circuit \in [Sites -> Parts] /\ \A c \in Sites : Powered(circuit[c], 0) = circuit[c]
  BY BlankIs, CircuitsAssumption DEF RedstoneInit
<1>2. power = [c \in Sites |-> 0] /\ queue = {} /\ untold = {} /\ fresh = {} /\ far = {} /\ turn = NoTurn /\ rewired = 0
  BY DEF RedstoneInit
<1>3. power \in [Sites -> Levels] /\ rewired \in 0 .. MaxRewirings
  BY <1>2, LevelsAre, RedstoneAssumption
<1>4. dirty \subseteq Sites
  BY DEF RedstoneInit, Near
<1>5. PowerOK
  BY <1>1, <1>2, <1>3, <1>4 DEF PowerOK, Levels
<1>6. PartsShowPower
  BY <1>1, <1>2 DEF PartsShowPower
<1> QED
  BY <1>2, <1>5, <1>6 DEF Wired, TurnShows

\* What players do writes one block.
LEMMA EditsRewire ==
  ASSUME circuit \in [Sites -> Parts], NEW c \in Sites, Fit(c) \/ TakeOut(c) \/ Flip(c)
  PROVE  \E part \in Parts : Rewire(c, part)
<1>1. CASE Fit(c)
  BY <1>1, CircuitsAssumption DEF Fit
<1>2. CASE TakeOut(c)
  <2>1. Vacant \in Parts
    BY LevelsAre DEF Vacant, Part, Parts, PartNames, Levels
  <2> QED
    BY <1>2, <2>1 DEF TakeOut
<1>3. CASE Flip(c)
  <2>1. [circuit[c] EXCEPT !.on = ~@] \in Parts
    BY DEF Parts
  <2> QED
    BY <1>3, <2>1 DEF Flip
<1> QED
  BY <1>1, <1>2, <1>3

LEMMA RedstoneStep == Wired /\ [RedstoneNext]_redstoneVars => Wired'
<1> SUFFICES ASSUME Wired, [RedstoneNext]_redstoneVars PROVE Wired'
  OBVIOUS
<1>1. /\ circuit \in [Sites -> Parts] /\ power \in [Sites -> Levels]
      /\ dirty \subseteq Sites /\ queue \subseteq Sites /\ untold \subseteq Sites /\ fresh \subseteq Sites /\ far \subseteq Sites
      /\ turn \in Turns \cup {NoTurn} /\ rewired \in 0 .. MaxRewirings
  BY DEF Wired, PowerOK, Levels
<1>2. \A c \in Sites \ fresh : circuit[c] = Powered(circuit[c], power[c])
  BY DEF Wired, PartsShowPower
<1>3. turn # NoTurn => circuit[turn.at] = turn.part \/ turn.at \in fresh
  BY DEF Wired, TurnShows
<1> SUFFICES /\ circuit' \in [Sites -> Parts] /\ power' \in [Sites -> Levels]
             /\ dirty' \subseteq Sites /\ queue' \subseteq Sites /\ untold' \subseteq Sites /\ fresh' \subseteq Sites /\ far' \subseteq Sites
             /\ turn' \in Turns \cup {NoTurn} /\ rewired' \in 0 .. MaxRewirings
             /\ \A c \in Sites \ fresh' : circuit'[c] = Powered(circuit'[c], power'[c])
             /\ turn' # NoTurn => circuit'[turn'.at] = turn'.part \/ turn'.at \in fresh'
  BY DEF Wired, PowerOK, PartsShowPower, TurnShows, Levels
<1>4. CASE DrainDirty
  BY <1>1, <1>2, <1>3, <1>4 DEF DrainDirty
<1>5. CASE Evaluate
  <2>1. PICK c \in queue : /\ turn' = [at |-> c, part |-> circuit[c], level |-> ComputePower(c)]
                           /\ queue' \in {queue, queue \ {c}} /\ far' \subseteq far \cup {c}
                           /\ UNCHANGED <<circuit, power, dirty, untold, rewired, fresh>>
    BY <1>5 DEF Evaluate
  <2>2. ComputePower(c) \in Levels
    BY ComputePowerIs DEF Wired
  <2>3. turn' \in Turns
    BY <1>1, <2>1, <2>2 DEF Turns, Levels
  <2> QED
    BY <1>1, <1>2, <2>1, <2>3
<1>6. CASE Settle
  <2>1. turn \in Turns /\ turn' = NoTurn /\ UNCHANGED <<dirty, untold, rewired, far>>
    BY <1>1, <1>6 DEF Settle
  <2>2. PICK c \in Sites : c = turn.at
    BY <2>1 DEF Turns
  <2>3. PICK part \in Parts : part = turn.part
    BY <2>1 DEF Turns
  <2>4. PICK level \in Levels : level = turn.level
    BY <2>1 DEF Turns, Levels
  <2>5. power' = [power EXCEPT ![c] = level] /\ (circuit[c] = part \/ c \in fresh)
    BY <1>3, <1>6, <2>1, <2>2, <2>3, <2>4, TurnIs DEF Settle
  <2>6. power' \in [Sites -> Levels] /\ power'[c] = level /\ \A d \in Sites \ {c} : power'[d] = power[d]
    BY <1>1, <2>5
  <2>7. CASE ~Stirs(c, turn)
    <3>1. UNCHANGED <<circuit, fresh, queue>> /\ level = power[c]
      BY <1>6, <2>2, <2>4, <2>7 DEF Settle, Stirs
    <3> QED
      BY <1>1, <1>2, <2>1, <2>6, <3>1
  <2>8. CASE Stirs(c, turn)
    <3>1. ApplyPowerState(c, part, level) /\ queue' = Spread(c)
      BY <1>6, <2>2, <2>3, <2>4, <2>8 DEF Settle
    <3>2. queue' \subseteq Sites
      BY <1>1, <3>1 DEF Spread, Near
    <3>3. PICK q \in Parts : q = Powered(part, level) /\ Powered(q, level) = q
      BY PoweredIs
    <3>4. CASE Rewrites(part, level)
      <4>1. circuit' = [circuit EXCEPT ![c] = q] /\ fresh' = fresh \ {c}
        BY <3>1, <3>3, <3>4 DEF ApplyPowerState
      <4>2. circuit' \in [Sites -> Parts] /\ circuit'[c] = q /\ \A d \in Sites \ {c} : circuit'[d] = circuit[d]
        BY <1>1, <4>1
      <4>3. \A d \in Sites \ fresh' : circuit'[d] = Powered(circuit'[d], power'[d])
        BY <1>2, <2>6, <3>3, <4>1, <4>2
      <4> QED
        BY <1>1, <2>1, <2>6, <3>2, <4>1, <4>2, <4>3
    <3>5. CASE ~Rewrites(part, level)
      <4>1. UNCHANGED <<circuit, fresh>> /\ q = part
        BY <3>1, <3>3, <3>5 DEF ApplyPowerState, Rewrites
      <4>2. \A d \in Sites \ fresh' : circuit'[d] = Powered(circuit'[d], power'[d])
        BY <1>2, <2>5, <2>6, <3>3, <4>1
      <4> QED
        BY <1>1, <2>1, <2>6, <3>2, <4>1, <4>2
    <3> QED
      BY <3>4, <3>5
  <2> QED
    BY <2>7, <2>8
<1>7. ASSUME NEW c \in Sites, NEW part \in Parts, Rewire(c, part)
      PROVE  /\ circuit' \in [Sites -> Parts] /\ power' \in [Sites -> Levels]
             /\ dirty' \subseteq Sites /\ queue' \subseteq Sites /\ untold' \subseteq Sites /\ fresh' \subseteq Sites /\ far' \subseteq Sites
             /\ turn' \in Turns \cup {NoTurn} /\ rewired' \in 0 .. MaxRewirings
             /\ \A d \in Sites \ fresh' : circuit'[d] = Powered(circuit'[d], power'[d])
             /\ turn' # NoTurn => circuit'[turn'.at] = turn'.part \/ turn'.at \in fresh'
  <2>1. /\ circuit' = [circuit EXCEPT ![c] = part] /\ untold' = untold \cup {c} /\ fresh' = fresh \cup {c}
        /\ UNCHANGED <<power, dirty, queue, turn, far>>
    BY <1>7 DEF Rewire
  <2>2. circuit' \in [Sites -> Parts] /\ \A d \in Sites \ {c} : circuit'[d] = circuit[d]
    BY <1>1, <2>1
  <2>3. rewired' \in 0 .. MaxRewirings
    BY <1>1, <1>7, RedstoneAssumption DEF Rewire
  <2>4. \A d \in Sites \ fresh' : circuit'[d] = Powered(circuit'[d], power'[d])
    BY <1>2, <2>1, <2>2
  <2>5. turn # NoTurn => turn.at \in Sites
    BY <1>1 DEF Turns
  <2>6. turn' # NoTurn => circuit'[turn'.at] = turn'.part \/ turn'.at \in fresh'
    BY <1>3, <2>1, <2>2, <2>5
  <2> QED
    BY <1>1, <2>1, <2>2, <2>3, <2>4, <2>6
<1>8. ASSUME NEW c \in Sites, NotifyChange(c) PROVE dirty' \subseteq Sites
  BY <1>1, <1>8 DEF NotifyChange, Near
<1>9. ASSUME NEW c \in Sites, NotifyChange(c)
       PROVE  untold' \subseteq Sites /\ UNCHANGED <<circuit, power, queue, turn, rewired, fresh, far>>
  BY <1>1, <1>9 DEF NotifyChange
<1>10. CASE UNCHANGED redstoneVars
  BY <1>1, <1>2, <1>3, <1>10 DEF redstoneVars
<1>11. CASE \E c \in Sites : NotifyChange(c)
  BY <1>1, <1>2, <1>3, <1>8, <1>9, <1>11
<1>12. CASE \E c \in Sites : Fit(c) \/ TakeOut(c) \/ Flip(c)
  BY <1>1, <1>7, <1>12, EditsRewire
<1> QED
  BY <1>4, <1>5, <1>6, <1>10, <1>11, <1>12 DEF RedstoneNext

\* redstone.go: the engine has a power of 0 to 15 for every site, and the queues of a
\* flush and of edits hold sites only, whatever is edited while it runs.
THEOREM RedstoneTypeCorrect == RedstoneSpec => []PowerOK
<1>1. Wired => PowerOK
  BY DEF Wired
<1> QED
  BY RedstoneStart, RedstoneStep, <1>1, PTL DEF RedstoneSpec

\* applyPowerState: dust, lamps, repeaters and torches show the power that the engine has
\* for them, in the middle of a flush as well, unless they were edited and not written since.
THEOREM PartsAlwaysShowPower == RedstoneSpec => []PartsShowPower
<1>1. Wired => PartsShowPower
  BY DEF Wired
<1> QED
  BY RedstoneStart, RedstoneStep, <1>1, PTL DEF RedstoneSpec

---------------------------------------------------------------------------
(* Redstone: no ring of dust keeps itself powered.                         *)

\* Of finitely many sites with levels, a highest one of the best level.
LEMMA TopmostOfBest ==
  ASSUME NEW W \in SUBSET (Int \X Int), IsFiniteSet(W), W # {}, NEW f \in [W -> Levels]
  PROVE  \E c \in W : \A d \in W : f[d] < f[c] \/ (f[d] = f[c] /\ d[2] <= c[2])
<1>1. PICK T : T = {Strongest - f[c] : c \in W}
  OBVIOUS
<1>2. \A c \in W : f[c] \in Int /\ f[c] <= Strongest
  BY DEF Levels
<1>3. T \in SUBSET Nat /\ T # {}
  BY <1>1, <1>2, LevelsAre
<1>4. PICK n \in T : \A k \in T : n <= k
  BY <1>3, LeastNat
<1>5. PICK b \in W : n = Strongest - f[b]
  BY <1>1
<1>6. \A d \in W : f[d] <= f[b]
  <2> SUFFICES ASSUME NEW d \in W PROVE f[d] <= f[b]
    OBVIOUS
  <2>1. Strongest - f[b] <= Strongest - f[d]
    BY <1>1, <1>4, <1>5
  <2> QED
    BY <1>2, <2>1, LevelsAre
<1>7. PICK V : V = {c \in W : f[c] = f[b]}
  OBVIOUS
<1>8. IsFiniteSet(V) /\ b \in V /\ V \subseteq W
  BY <1>7, FS_Subset
<1> DEFINE Above(c) == {d \in V : d[2] > c[2]}
<1>9. ASSUME NEW c PROVE IsFiniteSet(Above(c)) /\ Cardinality(Above(c)) \in Nat
  <2>1. Above(c) \subseteq V
    OBVIOUS
  <2> HIDE DEF Above
  <2> QED
    BY <1>8, <2>1, FS_Subset, FS_CardinalityType
<1>10. PICK N : N = {Cardinality(Above(c)) : c \in V}
  OBVIOUS
<1>11. N \in SUBSET Nat /\ N # {}
  BY <1>8, <1>9, <1>10
<1>12. PICK m \in N : \A k \in N : m <= k
  BY <1>11, LeastNat
<1>13. PICK c \in V : m = Cardinality(Above(c))
  BY <1>10
<1>14. ASSUME NEW d \in V, d[2] > c[2] PROVE FALSE
  <2>1. c[2] \in Int /\ d[2] \in Int /\ \A e \in V : e[2] \in Int
    BY <1>8
  <2>2. Above(d) \subseteq Above(c) /\ d \in Above(c) /\ d \notin Above(d)
    BY <1>14, <2>1
  <2> HIDE DEF Above
  <2>3. Cardinality(Above(d)) <= Cardinality(Above(c)) /\ Cardinality(Above(d)) # Cardinality(Above(c))
    BY <1>9, <2>2, FS_Subset
  <2>4. Cardinality(Above(c)) <= Cardinality(Above(d))
    BY <1>10, <1>12, <1>13
  <2> QED
    BY <1>9, <2>3, <2>4
<1>15. ASSUME NEW d \in W PROVE f[d] < f[c] \/ (f[d] = f[c] /\ d[2] <= c[2])
  <2>1. f[c] = f[b] /\ c \in W
    BY <1>7
  <2>2. CASE d \in V
    <3>1. d[2] \in Int /\ c[2] \in Int
      BY <2>1
    <3>2. f[d] = f[c]
      BY <1>7, <2>1, <2>2
    <3> QED
      BY <1>14, <2>2, <3>1, <3>2
  <2>3. CASE d \notin V
    <3>1. f[d] # f[b] /\ f[d] <= f[b]
      BY <1>6, <1>7, <2>3
    <3> QED
      BY <1>2, <2>1, <3>1
  <2> QED
    BY <2>2, <2>3
<1> QED
  BY <1>8, <1>15

\* Every site has its power, no source has any, and repeaters show what they have.
StableDark ==
  \A c \in Sites : /\ PowerFromSource(c) = 0 /\ power[c] = ComputePower(c)
                   /\ IsA(c, {"repeater"}) => c \notin fresh

LEMMA NoSourceGives ==
  ASSUME PowerOK, StableDark, NEW c, NEW target
  PROVE  PowerFromSource(c) = 0 /\ SourceToward(c, target) = 0 /\ (IsSource(c) => PowerAt(c) = 0)
<1>1. CASE c \in Sites
  <2>1. PowerFromSource(c) = 0 /\ power[c] = ComputePower(c)
    BY <1>1 DEF StableDark
  <2>2. IsSource(c) => PowerAt(c) = 0
    BY <1>1, <2>1, KindsDiffer DEF ComputePower, PowerAt
  <2> QED
    BY <2>1, <2>2, SourceIs
<1>2. CASE c \notin Sites
  <2>1. PartAt(c).name = "stone" /\ PowerAt(c) = 0
    BY <1>2, PartAtIs
  <2>2. PowerFromSource(c) = 0
    BY <2>1 DEF PowerFromSource, IsA
  <2> QED
    BY <2>1, <2>2, SourceIs
<1> QED
  BY <1>1, <1>2

LEMMA RepeatersAreOut ==
  ASSUME PowerOK, PartsShowPower, StableDark, NEW c, IsA(c, {"repeater"})
  PROVE  PowerAt(c) = 0
<1>1. c \in Sites
  BY PartAtIs DEF IsA
<1>2. PICK part \in Parts : part = circuit[c]
  BY <1>1 DEF PowerOK
<1>3. PICK level \in Levels : level = power[c]
  BY <1>1 DEF PowerOK, Levels
<1>4. part.name = "repeater" /\ PartAt(c) = part /\ PowerAt(c) = level
  BY <1>1, <1>2, <1>3 DEF IsA, PartAt, PowerAt
<1>5. part = [part EXCEPT !.on = level > 0]
  BY <1>1, <1>2, <1>3, <1>4 DEF PartsShowPower, StableDark, Powered
<1>6. part.on = (level > 0)
  BY <1>5 DEF Parts
<1>7. ~part.on
  BY <1>4, NoSourceGives, LevelsAre DEF PowerFromSource, IsA
<1>8. ~(level > 0)
  BY <1>6, <1>7
<1> QED
  BY <1>3, <1>4, <1>8 DEF Levels

\* What is given without sources comes from dust: itself, or on a full block.
LEMMA GivenByDust ==
  ASSUME PowerOK, PartsShowPower, StableDark, NEW d, NEW c, Given(d, c) # 0, ~IsA(d, {"wire"})
  PROVE  IsA(Over(d), {"wire"}) /\ Over(d) # c /\ Given(d, c) = PowerAt(Over(d))
<1>1. CASE IsSource(d) /\ Given(d, c) = SourceToward(d, c)
  BY <1>1, NoSourceGives
<1>2. CASE IsConductor(d) /\ ~IsSource(d) /\ Given(d, c) = ConductorToward(d, c)
  <2>1. IsA(d, {"repeater"})
    BY <1>2 DEF IsConductor, IsSource, IsA
  <2> QED
    BY <1>2, <2>1, RepeatersAreOut DEF ConductorToward
<1>3. CASE IsFullBlock(d) /\ Given(d, c) = StrongThrough(d, c)
  <2>1. StrongThrough(d, c) \in {SourceToward(e, d) : e \in Touching(d) \ {c}}
                                 \cup {PowerAt(e) : e \in {x \in {Over(d)} \ {c} : IsA(x, {"wire"})}}
    BY <1>3, StrongThroughIs
  <2>2. \A e : SourceToward(e, d) = 0
    BY NoSourceGives
  <2>3. \E e \in {x \in {Over(d)} \ {c} : IsA(x, {"wire"})} : StrongThrough(d, c) = PowerAt(e)
    BY <1>3, <2>1, <2>2
  <2> QED
    BY <1>3, <2>3
<1> QED
  BY <1>1, <1>2, <1>3, GivenIs

LEMMA DustIsOut ==
  ASSUME PowerOK, PartsShowPower, StableDark, NEW c, IsA(c, {"wire"})
  PROVE  PowerAt(c) = 0
<1> DEFINE W == {d \in Sites : IsA(d, {"wire"}) /\ power[d] # 0}
<1>1. SUFFICES ASSUME W # {} PROVE FALSE
  <2>1. c \in Sites
    BY PartAtIs DEF IsA
  <2> QED
    BY <1>1, <2>1 DEF PowerAt
<1>2. W \in SUBSET (Int \X Int) /\ IsFiniteSet(W)
  <2>1. W \subseteq Sites
    OBVIOUS
  <2> HIDE DEF W
  <2> QED
    BY <2>1, RedstoneAssumption, FS_Subset
<1>3. PICK f : f = [d \in W |-> power[d]]
  OBVIOUS
<1>4. f \in [W -> Levels] /\ \A d \in W : f[d] = power[d] /\ power[d] = PowerAt(d)
  BY <1>3 DEF PowerOK, Levels, PowerAt
<1> HIDE DEF W
<1>5. PICK a \in W : \A d \in W : f[d] < f[a] \/ (f[d] = f[a] /\ d[2] <= a[2])
  BY <1>1, <1>2, <1>4, TopmostOfBest
<1>6. \A d : IsA(d, {"wire"}) /\ PowerAt(d) # 0 => d \in W
  <2> SUFFICES ASSUME NEW d, IsA(d, {"wire"}), PowerAt(d) # 0 PROVE d \in W
    OBVIOUS
  <2>1. d \in Sites
    BY PartAtIs DEF IsA
  <2> QED
    BY <2>1 DEF W, PowerAt
<1>7. \A d : IsA(d, {"wire"}) => PowerAt(d) < PowerAt(a) \/ (PowerAt(d) = PowerAt(a) /\ d[2] <= a[2])
  <2> SUFFICES ASSUME NEW d, IsA(d, {"wire"}) PROVE PowerAt(d) < PowerAt(a) \/ (PowerAt(d) = PowerAt(a) /\ d[2] <= a[2])
    OBVIOUS
  <2>1. PowerAt(a) # 0
    BY <1>4 DEF W
  <2>2. PowerAt(d) \in Nat /\ PowerAt(a) \in Nat
    BY PowerAtIs, LevelsAre
  <2>3. CASE PowerAt(d) = 0
    BY <2>1, <2>2, <2>3
  <2>4. CASE PowerAt(d) # 0
    BY <1>4, <1>5, <1>6, <2>4
  <2> QED
    BY <2>3, <2>4
<1>8. a \in Sites /\ IsA(a, {"wire"}) /\ PowerAt(a) # 0
  BY <1>4 DEF W
<1>9. PowerAt(a) = WirePower(a)
  BY <1>8, KindsDiffer DEF StableDark, ComputePower, PowerAt
<1>10. CASE \E d \in WiresBy(a) : WirePower(a) = PowerAt(d) - 1
  <2>1. PICK d \in WiresBy(a) : PowerAt(a) = PowerAt(d) - 1
    BY <1>9, <1>10
  <2>2. IsA(d, {"wire"})
    BY DEF WiresBy
  <2>3. PowerAt(d) \in Nat /\ PowerAt(a) \in Nat
    BY PowerAtIs, LevelsAre
  <2> QED
    BY <1>7, <2>1, <2>2, <2>3
<1>11. CASE \E d \in Touching(a) \ WiresBy(a) : WirePower(a) = Given(d, a)
  <2>1. PICK d \in Touching(a) \ WiresBy(a) : PowerAt(a) = Given(d, a)
    BY <1>9, <1>11
  <2>2. ~IsA(d, {"wire"})
    BY DEF WiresBy
  <2>3. IsA(Over(d), {"wire"}) /\ Over(d) # a /\ PowerAt(a) = PowerAt(Over(d))
    BY <1>8, <2>1, <2>2, GivenByDust
  <2>4. Over(d)[2] <= a[2]
    <3>1. PowerAt(a) \in Nat
      BY PowerAtIs, LevelsAre
    <3> QED
      BY <1>7, <2>3, <3>1
  <2>5. PICK x \in Int, y \in Int : a = <<x, y>>
    BY <1>8, SitesAre
  <2>6. d \in {<<x + 1, y>>, <<x - 1, y>>, <<x, y + 1>>, <<x, y - 1>>}
    BY <2>1, <2>5 DEF Touching, Flanks, Over, Under, Offset
  <2>7. Over(d) = <<d[1], d[2] + 1>>
    BY <2>6 DEF Over, Offset
  <2>8. d = <<x, y - 1>>
    BY <2>4, <2>5, <2>6, <2>7
  <2> QED
    BY <2>3, <2>5, <2>7, <2>8
<1> QED
  BY <1>8, <1>9, <1>10, <1>11, WirePowerIs

LEMMA AllIsOut ==
  ASSUME PowerOK, PartsShowPower, StableDark, NEW c \in Sites
  PROVE  power[c] = 0
<1>1. PowerAt(c) = power[c] /\ power[c] = ComputePower(c)
  BY DEF PowerAt, StableDark
<1>2. CASE IsSource(c)
  BY <1>1, <1>2, NoSourceGives
<1>3. CASE IsA(c, {"wire"})
  BY <1>1, <1>3, DustIsOut
<1>4. CASE IsA(c, {"repeater"})
  BY <1>1, <1>4, RepeatersAreOut
<1>5. CASE ~IsSource(c) /\ ~IsA(c, {"wire"}) /\ ~IsA(c, {"repeater"})
  <2>1. SUFFICES ASSUME power[c] # 0 PROVE FALSE
    OBVIOUS
  <2>2. PICK b : b = Best({Given(d, c) : d \in Touching(c)})
    OBVIOUS
  <2>3. power[c] = b
    BY <1>1, <1>5, <2>2 DEF ComputePower
  <2>4. PICK d \in Touching(c) : b = Given(d, c)
    BY <2>1, <2>2, <2>3, RestPowerIs
  <2>5. CASE IsA(d, {"wire"})
    <3>1. Given(d, c) = ConductorToward(d, c)
      BY <2>5, KindsDiffer DEF Given
    <3>2. ConductorToward(d, c) = 0
      BY <2>5, DustIsOut DEF ConductorToward
    <3> QED
      BY <2>1, <2>3, <2>4, <3>1, <3>2
  <2>6. CASE ~IsA(d, {"wire"})
    <3>1. IsA(Over(d), {"wire"}) /\ Given(d, c) = PowerAt(Over(d))
      BY <2>1, <2>3, <2>4, <2>6, GivenByDust
    <3> QED
      BY <2>1, <2>3, <2>4, <3>1, DustIsOut
  <2> QED
    BY <2>5, <2>6
<1> QED
  BY <1>2, <1>3, <1>4, <1>5

LEMMA NoRing == Wired /\ TrueNearby => DeadIsDark
<1> SUFFICES ASSUME Wired, TrueNearby, NEW c \in Sites,
                    \A d \in Sites : /\ PowerFromSource(d) = 0 /\ d \notin far /\ ~LooksFar(d)
                                     /\ IsA(d, {"repeater"}) => d \notin fresh
             PROVE  power[c] = 0
  BY DEF DeadIsDark
<1>1. StableDark
  BY DEF StableDark, TrueNearby
<1> QED
  BY <1>1, AllIsOut DEF Wired

---------------------------------------------------------------------------
(* Redstone: what a site has of its neighbours' own power, and who is told *)
(* that it may change.                                                     *)

PartIn(g, c) == IF c \in Sites THEN g[c] ELSE Rock
PowerIn(p, c) == IF c \in Sites THEN p[c] ELSE 0

\* What d gives c that the block and the power of d alone say; and c has of that.
GivesIn(g, p, d, c) ==
  LET part == PartIn(g, d) IN
  CASE part.name = "wire" -> IF PartIn(g, c).name = "wire" THEN PowerIn(p, d) - 1 ELSE PowerIn(p, d)
    [] part.name = "block" -> Strongest
    [] part.name = "lever" -> IF part.on THEN Strongest ELSE 0
    [] part.name = "repeater" -> IF c = Offset(d, -part.facing, 0) THEN PowerIn(p, d) ELSE 0
    [] OTHER -> 0

\* What a repeater at c finds at its input d.
InputIn(g, p, d, c) ==
  LET part == PartIn(g, d) IN
  \/ part.name = "block"
  \/ part.name = "lever" /\ part.on
  \/ part.name = "repeater" /\ part.on /\ c = Offset(d, -part.facing, 0)
  \/ PowerIn(p, d) > 0

LocalIn(g, p, c) ==
  LET part == PartIn(g, c) IN
  CASE part.name = "block" -> Strongest
    [] part.name = "lever" -> IF part.on THEN Strongest ELSE 0
    [] part.name = "torch" -> 0
    [] part.name = "repeater" -> IF InputIn(g, p, Offset(c, part.facing, 0), c) THEN Strongest ELSE 0
    [] OTHER -> Best({GivesIn(g, p, d, c) : d \in Touching(c)})

\* Written over with another power, a block computes as before.
SameKind(h, g) == h.name = g.name /\ h.facing = g.facing /\ (g.name = "lever" => h.on = g.on)

LEMMA TouchIs ==
  ASSUME NEW c \in Sites, NEW d \in Sites
  PROVE  (d \in Touching(c) => c \in Touching(d)) /\ c \notin Touching(c)
<1>1. PICK x \in Int, y \in Int : c = <<x, y>>
  BY SitesAre
<1>2. PICK a \in Int, b \in Int : d = <<a, b>>
  BY SitesAre
<1>3. \A u \in Int, v \in Int :
        Touching(<<u, v>>) = {<<u + 1, v>>, <<u - 1, v>>, <<u, v + 1>>, <<u, v - 1>>}
  <2> SUFFICES ASSUME NEW u \in Int, NEW v \in Int
               PROVE  Touching(<<u, v>>) = {<<u + 1, v>>, <<u - 1, v>>, <<u, v + 1>>, <<u, v - 1>>}
    OBVIOUS
  <2>1. u + (-1) = u - 1 /\ v + (-1) = v - 1 /\ u + 0 = u /\ v + 0 = v
    OBVIOUS
  <2> QED
    BY <2>1 DEF Touching, Flanks, Over, Under, Offset
<1>4. /\ Touching(c) = {<<x + 1, y>>, <<x - 1, y>>, <<x, y + 1>>, <<x, y - 1>>}
      /\ Touching(d) = {<<a + 1, b>>, <<a - 1, b>>, <<a, b + 1>>, <<a, b - 1>>}
  BY <1>1, <1>2, <1>3
<1>5. d \in Touching(c) => c \in Touching(d)
  BY <1>1, <1>2, <1>4
<1>6. c \notin Touching(c)
  BY <1>1, <1>4
<1> QED
  BY <1>5, <1>6

LEMMA InputTouches ==
  ASSUME PowerOK, NEW c \in Sites, IsA(c, {"repeater"})
  PROVE  InputOf(c) \in Touching(c)
<1>1. PartAt(c).facing \in {-1, 1}
  BY PartAtIs DEF Parts, IsA
<1> QED
  BY <1>1 DEF InputOf, Touching, Flanks

LEMMA BestSame ==
  ASSUME NEW X, NEW Y, \A x \in X : x \in Int /\ x <= Strongest, \A y \in Y : y \in Int /\ y <= Strongest,
         \A x \in X : x <= 0 \/ x \in Y, \A y \in Y : y <= 0 \/ y \in X
  PROVE  Best(X) = Best(Y)
<1>1. PICK a : a = Best(X)
  OBVIOUS
<1>2. PICK b : b = Best(Y)
  OBVIOUS
<1>3. a \in Nat /\ (a # 0 => a \in X) /\ \A x \in X : x <= a
  BY <1>1, BestIs, LevelsAre
<1>4. b \in Nat /\ (b # 0 => b \in Y) /\ \A y \in Y : y <= b
  BY <1>2, BestIs, LevelsAre
<1>5. a <= b
  BY <1>3, <1>4
<1>6. b <= a
  BY <1>3, <1>4
<1> QED
  BY <1>1, <1>2, <1>3, <1>4, <1>5, <1>6

LEMMA GivenLocally ==
  ASSUME PowerOK, NEW c, NEW d \in Touching(c), ~LooksFar(c), ~(IsA(c, {"wire"}) /\ IsA(d, {"wire"}))
  PROVE  Given(d, c) = GivesIn(circuit, power, d, c)
<1>1. PICK part : part = PartAt(d) /\ part = PartIn(circuit, d) /\ part.name \in PartNames
  BY PartAtIs DEF PartAt, PartIn, Parts
<1>2. PICK level : level = PowerAt(d) /\ level = PowerIn(power, d)
  BY DEF PowerAt, PowerIn
<1>3. PICK mine : mine = PartAt(c) /\ mine = PartIn(circuit, c)
  BY DEF PartAt, PartIn
<1>4. CASE part.name \in {"torch", "stone"}
  <2>1. Given(d, c) \in Nat /\ ~(Given(d, c) > 0)
    BY <1>1, <1>4, GivenIs, LevelsAre DEF LooksFar, IsA
  <2>2. GivesIn(circuit, power, d, c) = 0
    BY <1>1, <1>4 DEF GivesIn
  <2> QED
    BY <2>1, <2>2
<1>5. CASE part.name \in {"block", "lever"}
  <2>1. Given(d, c) = PowerFromSource(d)
    BY <1>1, <1>5 DEF Given, IsSource, IsConductor, IsFullBlock, IsA, SourceToward, TurnedFrom
  <2>2. PowerFromSource(d) = GivesIn(circuit, power, d, c)
    BY <1>1, <1>5 DEF PowerFromSource, GivesIn, IsA
  <2> QED
    BY <2>1, <2>2
<1>6. CASE part.name \in {"wire", "repeater"}
  <2>1. Given(d, c) = ConductorToward(d, c)
    BY <1>1, <1>6 DEF Given, IsSource, IsConductor, IsFullBlock, IsA
  <2>2. ConductorToward(d, c) = GivesIn(circuit, power, d, c)
    BY <1>1, <1>2, <1>3, <1>6 DEF ConductorToward, TurnedFrom, OutputOf, GivesIn, IsA
  <2> QED
    BY <2>1, <2>2
<1>7. CASE part.name \in {"air", "lamp"}
  BY <1>1, <1>7 DEF Given, IsSource, IsConductor, IsFullBlock, IsA, GivesIn
<1> QED
  BY <1>1, <1>4, <1>5, <1>6, <1>7 DEF PartNames

LEMMA WireLocally ==
  ASSUME PowerOK, NEW c, ~LooksFar(c), IsA(c, {"wire"})
  PROVE  WirePower(c) = Best({GivesIn(circuit, power, d, c) : d \in Touching(c)})
<1>1. PICK X : X = {PowerAt(d) - 1 : d \in WiresBy(c)} \cup {Given(d, c) : d \in Touching(c) \ WiresBy(c)}
  OBVIOUS
<1>2. PICK Y : Y = {GivesIn(circuit, power, d, c) : d \in Touching(c)}
  OBVIOUS
<1>3. \A d \in Touching(c) \ WiresBy(c) : Given(d, c) = GivesIn(circuit, power, d, c)
  BY GivenLocally DEF WiresBy
<1>4. ASSUME NEW d \in Touching(c) \cap WiresBy(c) PROVE PowerAt(d) - 1 = GivesIn(circuit, power, d, c)
  BY DEF WiresBy, GivesIn, IsA, PartAt, PartIn, PowerAt, PowerIn
<1>5. ASSUME NEW d \in WiresBy(c) \ Touching(c) PROVE ~(PowerAt(d) > 1)
  BY DEF WiresBy, LooksFar
<1>6. ASSUME NEW d PROVE PowerAt(d) - 1 \in Int /\ PowerAt(d) - 1 <= Strongest /\ (~(PowerAt(d) > 1) => PowerAt(d) - 1 <= 0)
  <2>1. PowerAt(d) \in Nat /\ PowerAt(d) <= Strongest
    BY PowerAtIs, LevelsAre
  <2> QED
    BY <2>1, LevelsAre
<1>7. ASSUME NEW d PROVE Given(d, c) \in Int /\ Given(d, c) <= Strongest
  <2>1. PICK level \in Levels : level = Given(d, c)
    BY GivenIs
  <2> QED
    BY <2>1, LevelsAre
<1>8. \A x \in X : x \in Int /\ x <= Strongest
  BY <1>1, <1>6, <1>7
<1>9. \A y \in Y : y \in X
  <2> SUFFICES ASSUME NEW d \in Touching(c) PROVE GivesIn(circuit, power, d, c) \in X
    BY <1>2
  <2> QED
    BY <1>1, <1>3, <1>4
<1>10. \A x \in X : x <= 0 \/ x \in Y
  <2> SUFFICES ASSUME NEW x \in X PROVE x <= 0 \/ x \in Y
    OBVIOUS
  <2>1. CASE \E d \in WiresBy(c) \ Touching(c) : x = PowerAt(d) - 1
    BY <1>5, <1>6, <2>1
  <2>2. CASE \E d \in Touching(c) \cap WiresBy(c) : x = PowerAt(d) - 1
    BY <1>2, <1>4, <2>2
  <2>3. CASE \E d \in Touching(c) \ WiresBy(c) : x = Given(d, c)
    BY <1>2, <1>3, <2>3
  <2> QED
    BY <1>1, <2>1, <2>2, <2>3
<1>11. Best(X) = Best(Y)
  BY <1>8, <1>9, <1>10, BestSame
<1>12. WirePower(c) = Best(X)
  BY <1>1 DEF WirePower, WiresBy
<1> QED
  BY <1>2, <1>11, <1>12

LEMMA RepeaterLocally ==
  ASSUME PowerOK, NEW c \in Sites, ~LooksFar(c), IsA(c, {"repeater"})
  PROVE  RepeaterPower(c) = LocalIn(circuit, power, c)
<1>1. PICK d \in Touching(c) : d = InputOf(c)
  BY InputTouches
<1>2. PICK part : part = PartAt(d) /\ part = PartIn(circuit, d) /\ part.name \in PartNames
  BY PartAtIs DEF PartAt, PartIn, Parts
<1>3. PowerAt(d) = PowerIn(power, d)
  BY DEF PowerAt, PowerIn
<1>4. SourceToward(d, c) > 0 <=>
        \/ part.name = "block"
        \/ part.name = "lever" /\ part.on
        \/ part.name = "repeater" /\ part.on /\ c = Offset(d, -part.facing, 0)
  <2>1. CASE part.name = "torch"
    <3>1. Given(d, c) = SourceToward(d, c)
      BY <1>2, <2>1 DEF IsA, Given, IsSource, IsConductor, IsFullBlock
    <3>2. ~(SourceToward(d, c) > 0)
      BY <1>2, <2>1, <3>1 DEF LooksFar, IsA
    <3> QED
      BY <2>1, <3>2
  <2>2. CASE part.name \in {"block", "lever"}
    <3>1. SourceToward(d, c) = PowerFromSource(d)
      BY <1>2, <2>2 DEF SourceToward, TurnedFrom, IsA
    <3>2. PowerFromSource(d) = IF part.name = "block" \/ part.on THEN Strongest ELSE 0
      BY <1>2, <2>2 DEF PowerFromSource, IsA
    <3>3. PowerFromSource(d) > 0 <=> part.name = "block" \/ part.on
      BY <3>2, LevelsAre
    <3> QED
      BY <2>2, <3>1, <3>3
  <2>3. CASE part.name = "repeater"
    <3>1. SourceToward(d, c) = IF c = Offset(d, -part.facing, 0) THEN PowerFromSource(d) ELSE 0
      BY <1>2, <2>3 DEF SourceToward, TurnedFrom, OutputOf, IsA
    <3>2. PowerFromSource(d) = IF part.on THEN Strongest ELSE 0
      BY <1>2, <2>3 DEF PowerFromSource, IsA
    <3> QED
      BY <2>3, <3>1, <3>2, LevelsAre
  <2>4. CASE part.name \notin {"torch", "block", "lever", "repeater"}
    <3>1. SourceToward(d, c) = 0
      BY <1>2, <2>4 DEF SourceToward, PowerFromSource, IsA
    <3> QED
      BY <2>4, <3>1
  <2> QED
    BY <2>1, <2>2, <2>3, <2>4
<1>5. PICK mine : mine = PartAt(c) /\ mine = PartIn(circuit, c) /\ mine.name = "repeater"
  BY DEF PartAt, PartIn, IsA
<1>6. d = Offset(c, mine.facing, 0)
  BY <1>1, <1>5 DEF InputOf
<1>7. LocalIn(circuit, power, c) = IF InputIn(circuit, power, d, c) THEN Strongest ELSE 0
  BY <1>5, <1>6 DEF LocalIn
<1>8. InputIn(circuit, power, d, c) <=> SourceToward(d, c) > 0 \/ PowerAt(d) > 0
  BY <1>2, <1>3, <1>4 DEF InputIn
<1> QED
  BY <1>1, <1>7, <1>8 DEF RepeaterPower

\* Where it does not look far, computePower gives what the neighbours' own power says.
LEMMA ComputesLocally ==
  ASSUME PowerOK, NEW c \in Sites, ~LooksFar(c)
  PROVE  ComputePower(c) = LocalIn(circuit, power, c)
<1>1. PICK mine : mine = PartAt(c) /\ mine = PartIn(circuit, c) /\ mine.name \in PartNames
  BY PartAtIs DEF PartAt, PartIn, Parts
<1>2. CASE mine.name = "torch"
  <2>1. ComputePower(c) = PowerFromSource(c)
    BY <1>1, <1>2 DEF ComputePower, IsSource, IsA
  <2>2. ~(PowerFromSource(c) > 0)
    BY <1>1, <1>2 DEF LooksFar, IsA
  <2>3. PowerFromSource(c) = 0
    BY <2>2, SourceIs, LevelsAre
  <2> QED
    BY <1>1, <1>2, <2>1, <2>3 DEF LocalIn
<1>3. CASE mine.name \in {"block", "lever"}
  <2>1. ComputePower(c) = PowerFromSource(c)
    BY <1>1, <1>3 DEF ComputePower, IsSource, IsA
  <2> QED
    BY <1>1, <1>3, <2>1 DEF PowerFromSource, IsA, LocalIn
<1>4. CASE mine.name = "repeater"
  <2>1. ComputePower(c) = RepeaterPower(c)
    BY <1>1, <1>4 DEF ComputePower, IsSource, IsA
  <2> QED
    BY <1>1, <1>4, <2>1, RepeaterLocally DEF IsA
<1>5. CASE mine.name = "wire"
  <2>1. ComputePower(c) = WirePower(c)
    BY <1>1, <1>5 DEF ComputePower, IsSource, IsA
  <2>2. LocalIn(circuit, power, c) = Best({GivesIn(circuit, power, d, c) : d \in Touching(c)})
    BY <1>1, <1>5 DEF LocalIn
  <2> QED
    BY <1>1, <1>5, <2>1, <2>2, WireLocally DEF IsA
<1>6. CASE mine.name \in {"air", "stone", "lamp"}
  <2>1. PICK X : X = {Given(d, c) : d \in Touching(c)}
    OBVIOUS
  <2>2. PICK Y : Y = {GivesIn(circuit, power, d, c) : d \in Touching(c)}
    OBVIOUS
  <2>3. \A d \in Touching(c) : Given(d, c) = GivesIn(circuit, power, d, c)
    BY <1>1, <1>6, GivenLocally DEF IsA
  <2>4. X = Y
    BY <2>1, <2>2, <2>3
  <2>5. ComputePower(c) = Best(X)
    BY <1>1, <1>6, <2>1 DEF ComputePower, IsSource, IsA
  <2>6. LocalIn(circuit, power, c) = Best(Y)
    BY <1>1, <1>6, <2>2 DEF LocalIn
  <2> QED
    BY <2>4, <2>5, <2>6
<1> QED
  BY <1>1, <1>2, <1>3, <1>4, <1>5, <1>6 DEF PartNames

\* It changes for no site but those that are told.
LEMMA OnlyNear ==
  ASSUME NEW c \in Sites, NEW g \in [Sites -> Parts], NEW p, NEW h, NEW q, NEW d \in Sites,
         \A e \in Sites \ {c} : h[e] = g[e] /\ q[e] = p[e],
         d \notin Near(c), d = c => SameKind(h[c], g[c])
  PROVE  LocalIn(h, q, d) = LocalIn(g, p, d)
<1>1. \A e \in Touching(d) : PartIn(h, e) = PartIn(g, e) /\ PowerIn(q, e) = PowerIn(p, e)
  <2>1. c \notin Touching(d)
    BY TouchIs DEF Near
  <2> QED
    BY <2>1 DEF PartIn, PowerIn
<1>2. PICK old : old = PartIn(g, d)
  OBVIOUS
<1>3. PICK new : new = PartIn(h, d)
  OBVIOUS
<1>4. SameKind(new, old)
  <2>1. CASE d = c
    BY <1>2, <1>3, <2>1 DEF PartIn
  <2>2. CASE d # c
    BY <1>2, <1>3, <2>2 DEF PartIn, SameKind
  <2> QED
    BY <2>1, <2>2
<1>5. new.name = old.name /\ new.facing = old.facing /\ (old.name = "lever" => new.on = old.on)
  BY <1>4 DEF SameKind
<1>6. \A e \in Touching(d) : GivesIn(h, q, e, d) = GivesIn(g, p, e, d)
  BY <1>1, <1>2, <1>3, <1>5 DEF GivesIn
<1>7. {GivesIn(h, q, e, d) : e \in Touching(d)} = {GivesIn(g, p, e, d) : e \in Touching(d)}
  BY <1>6
<1>8. CASE old.name = "repeater"
  <2>1. PICK e : e = Offset(d, old.facing, 0)
    OBVIOUS
  <2>2. old.facing \in {-1, 1}
    BY <1>2, <1>8 DEF PartIn, Parts
  <2>3. e \in Touching(d)
    BY <2>1, <2>2 DEF Touching, Flanks
  <2>4. InputIn(h, q, e, d) <=> InputIn(g, p, e, d)
    BY <1>1, <2>3 DEF InputIn
  <2> QED
    BY <1>2, <1>3, <1>5, <1>8, <2>1, <2>4 DEF LocalIn
<1>9. CASE old.name # "repeater"
  BY <1>2, <1>3, <1>5, <1>7, <1>9 DEF LocalIn
<1> QED
  BY <1>8, <1>9

\* The power that a site has, or that its turn is about to give it.
Held(c) == IF turn.at = c THEN turn.level ELSE power[c]

\* It is to be evaluated, or the notification of an edit that says so is to come.
Pending(c) == c \in queue \cup dirty \cup untold \/ \E u \in untold : c \in Near(u)

\* A turn's block is the one that was read, or the site has another turn to come.
TurnAwaited == turn # NoTurn => circuit[turn.at] = turn.part \/ turn.at \in dirty \cup untold

\* Whatever last said what a site has, and did not look far, says so still or is to be asked again.
Accounted == \A c \in Sites : c \in far \/ Pending(c) \/ Held(c) = LocalIn(circuit, power, c)

LEMMA KindStays ==
  ASSUME NEW part \in Parts, NEW level \in Levels
  PROVE  SameKind(Powered(part, level), part)
<1>1. CASE part.name = "wire"
  <2>1. Powered(part, level) = [part EXCEPT !.level = level]
    BY <1>1 DEF Powered
  <2> QED
    BY <1>1, <2>1 DEF SameKind, Parts
<1>2. CASE part.name \in {"lamp", "torch", "repeater"}
  <2>1. PICK b : b = (level > 0)
    OBVIOUS
  <2>2. Powered(part, level) = [part EXCEPT !.on = b]
    BY <1>2, <2>1 DEF Powered
  <2> QED
    BY <1>2, <2>2 DEF SameKind, Parts
<1>3. CASE part.name \notin {"wire", "lamp", "torch", "repeater"}
  BY <1>3 DEF Powered, SameKind
<1> QED
  BY <1>1, <1>2, <1>3

LEMMA AccountsStart == RedstoneInit => TurnAwaited /\ Accounted
<1> SUFFICES ASSUME RedstoneInit PROVE TurnAwaited /\ Accounted
  OBVIOUS
<1>1. /\ circuit \in [Sites -> Parts] /\ \A c \in Sites : circuit[c].level = 0 /\ ~circuit[c].on
      /\ power = [c \in Sites |-> 0] /\ turn = NoTurn
      /\ dirty = UNION {{c} \cup Near(c) : c \in {d \in Sites : IsA(d, {"torch", "block"})}}
  BY CircuitsAssumption DEF RedstoneInit
<1>2. ASSUME NEW c \in Sites, c \notin dirty PROVE LocalIn(circuit, power, c) = 0
  <2>1. PICK part \in Parts : part = circuit[c]
    BY <1>1
  <2>2. part = PartIn(circuit, c) /\ ~part.on
    BY <1>1, <2>1 DEF PartIn
  <2>3. part.name # "block"
    BY <1>1, <1>2, <2>1 DEF IsA, PartAt
  <2>4. \A d \in Touching(c) : PartIn(circuit, d).name # "block" /\ ~PartIn(circuit, d).on /\ PowerIn(power, d) = 0
    <3> SUFFICES ASSUME NEW d \in Touching(c)
                 PROVE  PartIn(circuit, d).name # "block" /\ ~PartIn(circuit, d).on /\ PowerIn(power, d) = 0
      OBVIOUS
    <3>1. CASE d \in Sites
      <4>1. c \in Near(d)
        BY <3>1, TouchIs DEF Near
      <4>2. ~IsA(d, {"block"})
        BY <1>1, <1>2, <3>1, <4>1 DEF IsA
      <4> QED
        BY <1>1, <3>1, <4>2 DEF PartIn, PowerIn, IsA, PartAt
    <3>2. CASE d \notin Sites
      BY <3>2 DEF PartIn, PowerIn, Rock, Part
    <3> QED
      BY <3>1, <3>2
  <2>5. CASE part.name \in {"lever", "torch"}
    BY <2>2, <2>5 DEF LocalIn
  <2>6. CASE part.name = "repeater"
    <3>1. PICK d : d = Offset(c, part.facing, 0)
      OBVIOUS
    <3>2. part.facing \in {-1, 1}
      BY <2>6 DEF Parts
    <3>3. d \in Touching(c)
      BY <3>1, <3>2 DEF Touching, Flanks
    <3>4. ~InputIn(circuit, power, d, c)
      BY <2>4, <3>3 DEF InputIn
    <3> QED
      BY <2>2, <2>6, <3>1, <3>4 DEF LocalIn
  <2>7. CASE part.name \notin {"block", "lever", "torch", "repeater"}
    <3>1. PICK X : X = {GivesIn(circuit, power, d, c) : d \in Touching(c)}
      OBVIOUS
    <3>2. \A d \in Touching(c) : GivesIn(circuit, power, d, c) \in {0, -1}
      BY <2>4 DEF GivesIn
    <3>3. \A x \in X : x \in Int /\ x <= Strongest /\ x <= 0
      BY <3>1, <3>2, LevelsAre
    <3>4. Best(X) = 0
      BY <3>3, BestIs, LevelsAre
    <3> QED
      BY <2>2, <2>7, <3>1, <3>4 DEF LocalIn
  <2> QED
    BY <2>3, <2>5, <2>6, <2>7
<1>3. \A c \in Sites : Held(c) = 0
  BY <1>1, TurnIs DEF Held
<1> QED
  BY <1>1, <1>2, <1>3 DEF Accounted, Pending, TurnAwaited

LEMMA AccountsStep ==
  Wired /\ TurnAwaited /\ Accounted /\ [RedstoneNext]_redstoneVars => TurnAwaited' /\ Accounted'
<1> SUFFICES ASSUME Wired, TurnAwaited, Accounted, [RedstoneNext]_redstoneVars PROVE TurnAwaited' /\ Accounted'
  OBVIOUS
<1> DEFINE Told(c) == c \in queue' \cup dirty' \cup untold' \/ \E u \in untold' : c \in Near(u)
           Has(c) == IF turn'.at = c THEN turn'.level ELSE power'[c]
<1> SUFFICES /\ turn' # NoTurn => circuit'[turn'.at] = turn'.part \/ turn'.at \in dirty' \cup untold'
             /\ \A c \in Sites : c \in far' \/ Told(c) \/ Has(c) = LocalIn(circuit', power', c)
  BY DEF TurnAwaited, Accounted, Pending, Held
<1>1. /\ circuit \in [Sites -> Parts] /\ power \in [Sites -> Levels] /\ turn \in Turns \cup {NoTurn}
      /\ dirty \subseteq Sites /\ queue \subseteq Sites /\ untold \subseteq Sites
  BY DEF Wired, PowerOK, Levels
<1>2. turn # NoTurn => circuit[turn.at] = turn.part \/ turn.at \in dirty \cup untold
  BY DEF TurnAwaited
<1>3. \A c \in Sites : c \in far \/ Pending(c) \/ Held(c) = LocalIn(circuit, power, c)
  BY DEF Accounted
<1>4. CASE DrainDirty
  <2>1. queue = {} /\ turn = NoTurn /\ queue' = dirty /\ dirty' = {} /\ UNCHANGED <<circuit, power, turn, untold, far>>
    BY <1>4 DEF DrainDirty
  <2>2. \A c \in Sites : (Pending(c) => Told(c)) /\ Has(c) = Held(c)
    BY <2>1 DEF Pending, Held
  <2> QED
    BY <1>3, <2>1, <2>2
<1>5. CASE Evaluate
  <2>1. PICK c \in queue : /\ turn = NoTurn /\ turn' = [at |-> c, part |-> circuit[c], level |-> ComputePower(c)]
                           /\ queue' \in {queue, queue \ {c}}
                           /\ far' = IF LooksFar(c) THEN far \cup {c} ELSE far \ {c}
                           /\ UNCHANGED <<circuit, power, dirty, untold>>
    BY <1>5 DEF Evaluate
  <2>2. ASSUME NEW d \in Sites, d # c PROVE d \in far' \/ Told(d) \/ Has(d) = LocalIn(circuit', power', d)
    <3>1. Pending(d) => Told(d)
      BY <2>1, <2>2 DEF Pending
    <3>2. Has(d) = Held(d)
      BY <2>1, <2>2, TurnIs DEF Held
    <3>3. d \in far => d \in far'
      BY <2>1, <2>2
    <3> QED
      BY <1>3, <2>1, <3>1, <3>2, <3>3
  <2>3. c \in Sites
    BY <1>1
  <2>4. c \in far' \/ Has(c) = LocalIn(circuit', power', c)
    <3>1. CASE LooksFar(c)
      BY <2>1, <3>1
    <3>2. CASE ~LooksFar(c)
      <4>1. ComputePower(c) = LocalIn(circuit, power, c)
        BY <2>3, <3>2, ComputesLocally DEF Wired
      <4>2. Has(c) = ComputePower(c)
        BY <2>1
      <4> QED
        BY <2>1, <4>1, <4>2
    <3> QED
      BY <3>1, <3>2
  <2>5. circuit'[turn'.at] = turn'.part
    BY <2>1
  <2> QED
    BY <2>2, <2>4, <2>5
<1>6. CASE Settle
  <2>1. turn \in Turns /\ turn' = NoTurn /\ UNCHANGED <<dirty, untold, far>>
    BY <1>1, <1>6 DEF Settle
  <2>2. PICK c \in Sites : c = turn.at
    BY <2>1 DEF Turns
  <2>3. PICK part \in Parts : part = turn.part
    BY <2>1 DEF Turns
  <2>4. PICK level \in Levels : level = turn.level
    BY <2>1 DEF Turns, Levels
  <2>5. power' = [power EXCEPT ![c] = level] /\ (circuit[c] = part \/ c \in dirty \cup untold)
    BY <1>2, <1>6, <2>1, <2>2, <2>3, <2>4, TurnIs DEF Settle
  <2>6. power'[c] = level /\ \A d \in Sites \ {c} : power'[d] = power[d]
    BY <1>1, <2>5
  <2>7. ASSUME NEW d \in Sites PROVE Has(d) = Held(d)
    <3>1. turn'.at # d
      BY <2>1, RedstoneAssumption DEF NoTurn
    <3> QED
      BY <2>2, <2>4, <2>6, <3>1 DEF Held
  <2>8. CASE ~Stirs(c, turn)
    <3>1. UNCHANGED <<circuit, queue>> /\ level = power[c]
      BY <1>6, <2>2, <2>4, <2>8 DEF Settle, Stirs
    <3>2. power' = power
      BY <1>1, <2>5, <3>1
    <3>3. \A d \in Sites : Pending(d) => Told(d)
      BY <2>1, <3>1 DEF Pending
    <3> QED
      BY <1>3, <2>1, <2>7, <3>1, <3>2, <3>3
  <2>9. CASE Stirs(c, turn)
    <3>1. ApplyPowerState(c, part, level) /\ queue' = queue \cup Near(c)
      BY <1>6, <2>2, <2>3, <2>4, <2>9 DEF Settle, Spread
    <3>2. circuit' = circuit \/ circuit' = [circuit EXCEPT ![c] = Powered(part, level)]
      BY <3>1 DEF ApplyPowerState
    <3>3. \A d \in Sites \ {c} : circuit'[d] = circuit[d] /\ power'[d] = power[d]
      BY <1>1, <2>6, <3>2
    <3>4. circuit[c] = part => SameKind(circuit'[c], circuit[c])
      BY <1>1, <3>2, KindStays DEF SameKind
    <3>5. ASSUME NEW d \in Sites PROVE d \in far' \/ Told(d) \/ Has(d) = LocalIn(circuit', power', d)
      <4>1. Pending(d) => Told(d)
        BY <2>1, <3>1 DEF Pending
      <4>2. CASE d \in Near(c) \/ d \in dirty \cup untold
        BY <2>1, <3>1, <4>2
      <4>3. CASE d \notin Near(c) /\ d \notin dirty \cup untold
        <5>1. d = c => SameKind(circuit'[c], circuit[c])
          BY <2>5, <3>4, <4>3
        <5>2. LocalIn(circuit', power', d) = LocalIn(circuit, power, d)
          BY <1>1, <3>3, <4>3, <5>1, OnlyNear
        <5> QED
          BY <1>3, <2>1, <2>7, <4>1, <5>2
      <4> QED
        BY <4>2, <4>3
    <3> QED
      BY <2>1, <3>5
  <2> QED
    BY <2>8, <2>9
<1>7. ASSUME NEW c \in Sites, NEW part \in Parts, Rewire(c, part)
      PROVE  /\ turn' # NoTurn => circuit'[turn'.at] = turn'.part \/ turn'.at \in dirty' \cup untold'
             /\ \A d \in Sites : d \in far' \/ Told(d) \/ Has(d) = LocalIn(circuit', power', d)
  <2>1. /\ circuit' = [circuit EXCEPT ![c] = part] /\ untold' = untold \cup {c}
        /\ UNCHANGED <<power, dirty, queue, turn, far>>
    BY <1>7 DEF Rewire
  <2>2. \A d \in Sites \ {c} : circuit'[d] = circuit[d] /\ power'[d] = power[d]
    BY <1>1, <2>1
  <2>3. turn # NoTurn => turn.at \in Sites
    BY <1>1 DEF Turns
  <2>4. turn' # NoTurn => circuit'[turn'.at] = turn'.part \/ turn'.at \in dirty' \cup untold'
    BY <1>2, <2>1, <2>2, <2>3
  <2>5. ASSUME NEW d \in Sites PROVE d \in far' \/ Told(d) \/ Has(d) = LocalIn(circuit', power', d)
    <3>1. (Pending(d) => Told(d)) /\ Has(d) = Held(d)
      BY <2>1 DEF Pending, Held
    <3>2. CASE d = c \/ d \in Near(c)
      BY <2>1, <3>2
    <3>3. CASE d # c /\ d \notin Near(c)
      <4>1. LocalIn(circuit', power', d) = LocalIn(circuit, power, d)
        BY <1>1, <2>2, <3>3, OnlyNear
      <4> QED
        BY <1>3, <2>1, <3>1, <4>1
    <3> QED
      BY <3>2, <3>3
  <2> QED
    BY <2>4, <2>5
<1>8. CASE \E c \in Sites : Fit(c) \/ TakeOut(c) \/ Flip(c)
  BY <1>1, <1>7, <1>8, EditsRewire
<1>9. CASE \E c \in Sites : NotifyChange(c)
  <2>1. PICK c \in untold : /\ untold' = untold \ {c} /\ dirty' = dirty \cup {c} \cup Near(c)
                            /\ UNCHANGED <<circuit, power, queue, turn, far>>
    BY <1>9 DEF NotifyChange
  <2>2. \A d \in Sites : (Pending(d) => Told(d)) /\ Has(d) = Held(d)
    BY <2>1 DEF Pending, Held
  <2>3. dirty \cup untold \subseteq dirty' \cup untold'
    BY <2>1
  <2> QED
    BY <1>2, <1>3, <2>1, <2>2, <2>3
<1>10. CASE UNCHANGED redstoneVars
  BY <1>2, <1>3, <1>10 DEF redstoneVars, Pending, Held
<1> QED
  BY <1>4, <1>5, <1>6, <1>8, <1>9, <1>10 DEF RedstoneNext

\* FlushUpdates: when nothing is left to do, after edits in any order with its evaluations,
\* each site of any circuit has the power computePower gives it, unless that reads past the
\* site's neighbours; the blocks show the power; and no ring of dust keeps itself powered.
THEOREM PowerAlwaysSettles == RedstoneSpec => []PowerSettles
<1> DEFINE WiredTrue == Wired /\ TurnAwaited /\ Accounted
<1>1. WiredTrue => PowerSettles
  <2> SUFFICES ASSUME WiredTrue, AtRest PROVE TrueNearby /\ PartsShowPower /\ DeadIsDark
    BY DEF PowerSettles
  <2>1. TrueNearby
    <3> SUFFICES ASSUME NEW c \in Sites, c \notin far, ~LooksFar(c) PROVE power[c] = ComputePower(c)
      BY DEF TrueNearby
    <3>1. ~Pending(c)
      BY DEF AtRest, Pending
    <3>2. Held(c) = power[c]
      BY TurnIs DEF AtRest, Held
    <3> QED
      BY <3>1, <3>2, ComputesLocally DEF Accounted, Wired
  <2> QED
    BY <2>1, NoRing DEF Wired
<1>2. RedstoneInit => WiredTrue
  BY RedstoneStart, AccountsStart
<1>3. WiredTrue /\ [RedstoneNext]_redstoneVars => WiredTrue'
  BY RedstoneStep, AccountsStep
<1> QED
  BY <1>1, <1>2, <1>3, PTL DEF RedstoneSpec
===============================================================================
