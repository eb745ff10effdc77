------------------------------ MODULE BlockTicks ------------------------------
(***************************************************************************)
(* Scheduled block ticks: the queue of core/world/block_physics.go, the    *)
(* updates that SetBlock schedules around a change (scheduleBlockNeighbor- *)
(* Updates of core/world/world.go), the rules the server runs when they    *)
(* are due (tickBlockPhysics of server/server.go) for falling blocks,      *)
(* fluids, leaves, ice and buttons, the falling entities that land again,  *)
(* and the players whose goroutines edit blocks meanwhile.                 *)
(*                                                                         *)
(* The world is a slice of Width by Height cells: walls of stone left,     *)
(* right, before and behind, nothing above and, below row 1 (WorldMinY),   *)
(* the void.  A tick's due time is kept as the ticks left until it.        *)
(***************************************************************************)
EXTENDS Integers, FiniteSets, FiniteSetsExt

CONSTANTS
  Width, Height,
  Scenes,       \* terrain to start from: [Cells -> blocks], at rest
  Placeable,    \* the blocks that players place
  FallDelay,    \* 2
  FluidDelay,   \* [water |-> 5, lava |-> 30]
  DropOff,      \* [water |-> 1, lava |-> 2]
  LeafDelay,    \* 5
  LeafRadius,   \* 6
  IceDelay,     \* 200
  ButtonDelay,  \* 20
  MaxEdits      \* bound: blocks that players place, break or press

Cells == (1 .. Width) \X (1 .. Height)

ASSUME SizesAssumption ==
  Width \in Nat \ {0} /\ Height \in Nat \ {0} /\ LeafRadius \in Nat \ {0} /\ MaxEdits \in Nat
ASSUME DelaysAssumption ==
  \A d \in {FallDelay, FluidDelay.water, FluidDelay.lava, LeafDelay, IceDelay, ButtonDelay} : d \in Nat \ {0}

---------------------------------------------------------------------------
(* Blocks.  level is the fluid's (0: a source, 8: falling), and 1 in a pressed button. *)

\* Stone stands for every block that no rule asks about.
BlockNames == {"air", "stone", "bedrock", "sand", "log", "leaves", "ice", "button",
               "water", "lava", "obsidian", "cobblestone"}
BlockStates == [name : BlockNames, level : Nat]
Block(name) == [name |-> name, level |-> 0]
Fluid(name, level) == [name |-> name, level |-> level]
Air == Block("air")
Stone == Block("stone")

IsFluid(b) == b.name \in {"water", "lava"}
IsGravity(b) == b.name = "sand"
IsLeaf(b) == b.name = "leaves"
IsLog(b) == b.name = "log"
IsOpen(b) == b = Air \/ IsFluid(b)
IsPressed(b) == b.name = "button" /\ b.level = 1

HardenedLava(b) == IF b.level = 0 THEN Block("obsidian") ELSE Block("cobblestone")

\* What is at a cell, the walls and the void included.
At(g, c) == IF c \in Cells THEN g[c] ELSE IF c[2] \in 1 .. Height THEN Stone ELSE Air

Atop(c) == <<c[1], c[2] + 1>>
Below(c) == <<c[1], c[2] - 1>>
East(c) == <<c[1] + 1, c[2]>>
West(c) == <<c[1] - 1, c[2]>>
Beside(c) == {East(c), West(c)}
Around(c) == Beside(c) \cup {Atop(c), Below(c)}
Apart(i, j) == IF i > j THEN i - j ELSE j - i
Gap(c, d) == Apart(c[1], d[1]) + Apart(c[2], d[2])
InCube(c, d, r) == Apart(c[1], d[1]) <= r /\ Apart(c[2], d[2]) <= r

---------------------------------------------------------------------------
VARIABLES
  world,    \* [blocks, pending: the tick of each cell, overlooked: the cells that lost
            \* a tick to one of another kind, or a fluid's floor without being told]
  due,      \* the ticks taken by DrainDue that are not processed yet
  falling,  \* the falling-block entities
  edits,    \* edits made
  sand,     \* sand there was and players have put in, less what they have taken out
  cut,      \* a leaf was taken away by hand or by sand that landed in it
  meddled   \* a block was placed, or a fluid hardened, in a column that sand was falling in

ticksVars == <<world, due, falling, edits, sand, cut, meddled>>

NoTick == [kind |-> "none", left |-> 0]
TickKinds == {"fall", "fluid", "leaf", "ice", "button"}
SomeTick == [kind : TickKinds, left : Nat \ {0}]
Worlds == [blocks : [Cells -> BlockStates], pending : [Cells -> SomeTick \cup {NoTick}], overlooked : SUBSET Cells]

TypeOK ==
  /\ world \in Worlds /\ due \subseteq [at : Cells, kind : TickKinds]
  /\ edits \in 0 .. MaxEdits /\ sand \in Int /\ cut \in BOOLEAN /\ meddled \in BOOLEAN

Quiet == [c \in Cells |-> NoTick]
SandIn(g) == Cardinality({c \in Cells : g[c].name = "sand"})

TicksInit ==
  /\ \E g \in Scenes : world = [blocks |-> g, pending |-> Quiet, overlooked |-> {}]
  /\ due = {} /\ falling = {} /\ edits = 0 /\ sand = SandIn(world.blocks)
  /\ cut = FALSE /\ meddled = FALSE

---------------------------------------------------------------------------
(* The queue: one tick for each position, the earlier one of whatever kind. *)

Request(c, kind, delay) == [at |-> c, kind |-> kind, left |-> delay]

Kept(old, asked) == old # NoTick /\ \A t \in asked : old.left <= t.left
Earliest(ticks) == CHOOSE t \in ticks : \A u \in ticks : t.left <= u.left

\* What one step asks for, all at once.
AskedAt(requests, c) == {[kind |-> r.kind, left |-> r.left] : r \in {q \in requests : q.at = c}}
ScheduleAll(w, requests) ==
  LET asked == [c \in Cells \cap {r.at : r \in requests} |-> AskedAt(requests, c)]
  IN [w EXCEPT !.pending = [c \in Cells |->
                  IF c \in DOMAIN asked /\ ~Kept(w.pending[c], asked[c]) THEN Earliest(asked[c]) ELSE w.pending[c]],
               !.overlooked = @ \cup {c \in DOMAIN asked :
                  \E s, t \in asked[c] \cup ({w.pending[c]} \ {NoTick}) : s.kind # t.kind}]

Schedule(w, r) == ScheduleAll(w, {r})

FluidTick(g, c) == Request(c, "fluid", FluidDelay[At(g, c).name])

\* A variant that forgets the block above.
EmptiedBeside(g, c) == {FluidTick(g, d) : d \in {e \in Beside(c) : IsFluid(At(g, e))}}

\* What SetBlock asks for when old at c has become g[c].
WhenEmptied(g, c) ==
  {Request(d, "fall", FallDelay) : d \in {e \in {Atop(c)} : IsGravity(At(g, e))}}
  \cup {FluidTick(g, d) : d \in {e \in Beside(c) : IsFluid(At(g, e))}}
  \cup {Request(d, "fluid", 1) : d \in {e \in {Atop(c)} : IsFluid(At(g, e))}}

WhenPlaced(g, c) ==
  (IF IsGravity(g[c]) THEN {Request(c, "fall", FallDelay)} ELSE {})
  \cup (IF IsFluid(g[c])
        THEN {FluidTick(g, c)}
             \cup {Request(d, "fluid", 1) : d \in {e \in Around(c) : IsFluid(At(g, e))}}
        ELSE {})
  \cup (IF g[c].name = "ice" THEN {Request(c, "ice", IceDelay)} ELSE {})

WhenLogGone(g, c) ==
  {Request(d, "leaf", Gap(c, d) + LeafDelay) :
     d \in {e \in Cells : InCube(c, e, LeafRadius) /\ IsLeaf(g[e])}}

Wanted(old, g, c) ==
  (IF g[c] = Air THEN WhenEmptied(g, c) ELSE {})
  \cup WhenPlaced(g, c)
  \cup (IF IsLog(old) /\ ~IsLog(g[c]) THEN WhenLogGone(g, c) ELSE {})

\* A fluid whose floor is filled could spread sideways now, and is not told.
Floored(g, c) == IF ~IsOpen(g[c]) /\ IsFluid(At(g, Atop(c))) THEN {Atop(c)} ELSE {}

\* SetBlock: a cell outside the world is ignored.
SetBlock(w, c, b) ==
  IF c \notin Cells THEN w
  ELSE LET g == [w.blocks EXCEPT ![c] = b]
       IN ScheduleAll([w EXCEPT !.blocks = g, !.overlooked = @ \cup Floored(g, c)],
                      Wanted(w.blocks[c], g, c))

SetFluid(w, c, name, level) ==
  Schedule(SetBlock(w, c, Fluid(name, level)), Request(c, "fluid", FluidDelay[name]))

---------------------------------------------------------------------------
(* The rules. *)

\* processFallUpdate.
CanFall(g, c) == IsGravity(g[c]) /\ IsOpen(At(g, Below(c)))

\* A variant that does not look at the support again.
StartedAnyway(w, d) ==
  IF d.kind = "fall" /\ IsGravity(w.blocks[d.at]) THEN {[x |-> d.at[1], y |-> d.at[2], grounded |-> FALSE]} ELSE {}

ProcessFall(w, c) == IF CanFall(w.blocks, c) THEN SetBlock(w, c, Air) ELSE w

\* processFluidUpdate: water hardens the lava beside and below it.
HardenAt(w, d) ==
  IF At(w.blocks, d).name = "lava" THEN SetBlock(w, d, HardenedLava(w.blocks[d])) ELSE w
HardenNext(w, c) == HardenAt(HardenAt(HardenAt(w, East(c)), West(c)), Below(c))

\* The same rule finds its own fluid below passable, and falls onto it.
FallsOnto(g, name, c) == c[2] > 1 /\ At(g, Below(c)).name \in {"air", name}

Takes(b, name, level) == b = Air \/ (b.name = name /\ b.level > level)

SpreadLevel(b) == (IF b.level >= 8 THEN 0 ELSE b.level) + DropOff[b.name]

SpreadTo(w, d, name, level) ==
  IF Takes(At(w.blocks, d), name, level) THEN SetFluid(w, d, name, level) ELSE w
SpreadSideways(w, c, b) ==
  LET level == SpreadLevel(b) IN
  IF level > 7 THEN w
  ELSE SpreadTo(SpreadTo(w, East(c), b.name, level), West(c), b.name, level)

Flow(w, c, b) ==
  IF FallsOnto(w.blocks, b.name, c) THEN SetFluid(w, Below(c), b.name, 8)
  ELSE SpreadSideways(w, c, b)

ProcessLava(w, c, b) ==
  IF \E d \in Beside(c) \cup {Atop(c)} : At(w.blocks, d).name = "water"
  THEN SetBlock(w, c, HardenedLava(b))
  ELSE IF At(w.blocks, Below(c)).name = "water" THEN SetBlock(w, Below(c), Stone)
  ELSE Flow(w, c, b)

ProcessFluid(w, c) ==
  LET b == w.blocks[c] IN
  IF b.name = "lava" THEN ProcessLava(w, c, b)
  ELSE IF b.name = "water" THEN Flow(HardenNext(w, c), c, b)
  ELSE w

Leaves(g) == {c \in Cells : IsLeaf(g[c])}
ByLogs(g, c) == \E d \in Around(c) : IsLog(At(g, d))

\* The leaves that at most n steps over leaves reach from c.
LeavesFrom(g, c, n) ==
  LET reached[k \in 0 .. n] ==
        IF k = 0 THEN {c}
        ELSE reached[k - 1] \cup {d \in Leaves(g) : Around(d) \cap reached[k - 1] # {}}
  IN reached[n]

\* processLeafDecayUpdate: the search stops at leaves more than LeafRadius steps away,
\* but looks for logs around the ones it has reached.
LogInReach(g, c) == \E d \in LeavesFrom(g, c, LeafRadius) : ByLogs(g, d)

\* A variant that does not have the neighbours checked.
DecaysAlone(w, c) ==
  IF ~IsLeaf(w.blocks[c]) \/ LogInReach(w.blocks, c) THEN w ELSE SetBlock(w, c, Air)

ProcessLeaf(w, c) ==
  IF ~IsLeaf(w.blocks[c]) \/ LogInReach(w.blocks, c) THEN w
  ELSE ScheduleAll(SetBlock(w, c, Air),
                   {Request(d, "leaf", LeafDelay) : d \in {e \in Around(c) : IsLeaf(At(w.blocks, e))}})

ProcessIce(w, c) == IF w.blocks[c].name = "ice" THEN SetFluid(w, c, "water", 0) ELSE w

ProcessButton(w, c) == IF IsPressed(w.blocks[c]) THEN SetBlock(w, c, Block("button")) ELSE w

Processed(w, d) ==
  CASE d.kind = "fall" -> ProcessFall(w, d.at)
    [] d.kind = "fluid" -> ProcessFluid(w, d.at)
    [] d.kind = "leaf" -> ProcessLeaf(w, d.at)
    [] d.kind = "ice" -> ProcessIce(w, d.at)
    [] d.kind = "button" -> ProcessButton(w, d.at)

---------------------------------------------------------------------------
(* What the rules would still change. *)

\* A fluid that its rule would still move or spread.
HasRoom(g, c) ==
  /\ IsFluid(g[c])
  /\ \/ c[2] > 1 /\ At(g, Below(c)) = Air
     \/ /\ ~FallsOnto(g, g[c].name, c)
        /\ SpreadLevel(g[c]) <= 7
        /\ \E d \in Beside(c) : Takes(At(g, d), g[c].name, SpreadLevel(g[c]))

\* Sand over air, above the void's edge.
Unsupported(g, c) == IsGravity(g[c]) /\ At(g, Below(c)) = Air /\ c[2] > 1

\* Lava at c, and water at d that hardens it.
Meet(g, c, d) == g[c].name = "lava" /\ d \in Beside(c) \cup {Atop(c)} /\ At(g, d).name = "water"

Resting(g) ==
  \A c \in Cells : /\ ~Unsupported(g, c) /\ ~HasRoom(g, c) /\ g[c].name # "ice" /\ ~IsPressed(g[c])
                   /\ \A d \in Cells : ~Meet(g, c, d)

\* Leaves with no other leaf next to them.
Groves(g) == {S \in SUBSET Leaves(g) : S # {} /\ \A c \in S : Around(c) \cap Leaves(g) \subseteq S}
Rooted(g) == \A S \in Groves(g) : \E c \in S : ByLogs(g, c)

\* Terrain stands on bedrock (generator.go:252).  The leaves that players place never decay,
\* and are not modelled.
ASSUME BlocksAssumption ==
  /\ Placeable \subseteq BlockStates /\ \A b \in Placeable : ~IsPressed(b) /\ ~IsLeaf(b)
  /\ \A g \in Scenes : g \in [Cells -> BlockStates] /\ Resting(g) /\ Rooted(g)
                      /\ \A x \in 1 .. Width : g[<<x, 1>>] = Block("bedrock")
  /\ DropOff.water \in Nat /\ DropOff.lava \in Nat

---------------------------------------------------------------------------
(* The tick goroutine. *)

\* worldAge++ and DrainDue.
Age(p) == IF p = NoTick THEN p ELSE [p EXCEPT !.left = @ - 1]
IsDue(p) == p # NoTick /\ p.left <= 0

Tick ==
  /\ due = {}
  /\ world.pending # Quiet
  /\ LET aged == [c \in Cells |-> Age(world.pending[c])] IN
     /\ due' = {[at |-> c, kind |-> aged[c].kind] : c \in {d \in Cells : IsDue(aged[d])}}
     /\ world' = [world EXCEPT !.pending = [c \in Cells |-> IF IsDue(aged[c]) THEN NoTick ELSE aged[c]]]
  /\ UNCHANGED <<falling, edits, sand, cut, meddled>>

\* One due update, in no order: they come out of a map.
Started(w, d) ==
  IF d.kind = "fall" /\ CanFall(w.blocks, d.at) THEN {[x |-> d.at[1], y |-> d.at[2], grounded |-> FALSE]} ELSE {}

\* A cell below or above sand in the air is filled.
Fills(g, h) == \E c \in Cells : IsOpen(g[c]) /\ ~IsOpen(h[c]) /\ \E e \in falling : e.x = c[1]

Process ==
  \E d \in due :
    /\ world' = Processed(world, d)
    /\ falling' = falling \cup Started(world, d)
    /\ due' = due \ {d}
    /\ meddled' = (meddled \/ Fills(world.blocks, world'.blocks))
    /\ UNCHANGED <<edits, sand, cut>>

\* GroundYAtOrBelow: the highest support from y down with two free cells above it; 0 if none.
IsSupport(g, c) == ~IsOpen(At(g, c))
IsGround(g, x, y) == IsSupport(g, <<x, y>>) /\ ~IsSupport(g, <<x, y + 1>>) /\ ~IsSupport(g, <<x, y + 2>>)
GroundAtOrBelow(g, x, y) == Max({0} \cup {z \in 1 .. y : IsGround(g, x, z)})

\* The entity physics of one falling block; blocks of a column fall in their order.
Moved(e) ==
  LET ground == GroundAtOrBelow(world.blocks, e.x, e.y) IN
  IF ground >= e.y - 1 THEN [e EXCEPT !.y = ground + 1, !.grounded = TRUE] ELSE [e EXCEPT !.y = @ - 1]

MoveEntity ==
  /\ due = {}
  /\ \E e \in falling :
       /\ ~e.grounded
       /\ \A f \in falling \ {e} : f.x = e.x => f.y # Moved(e).y
       /\ falling' = (falling \ {e}) \cup {Moved(e)}
  /\ UNCHANGED <<world, due, edits, sand, cut, meddled>>

\* The next entity tick puts the block where the entity stands, whatever is there now.
\* One that was lifted above the slice has left it.
Land ==
  /\ due = {}
  /\ \E e \in falling :
       /\ e.grounded
       /\ world' = SetBlock(world, <<e.x, e.y>>, Block("sand"))
       /\ falling' = falling \ {e}
       /\ sand' = sand - (IF <<e.x, e.y>> \in Cells THEN 0 ELSE 1)
       /\ cut' = (cut \/ IsLeaf(At(world.blocks, <<e.x, e.y>>)))
  /\ UNCHANGED <<due, edits, meddled>>

---------------------------------------------------------------------------
(* Players: their goroutines call SetBlock while the tick is at work. *)

Place(c, b) ==
  /\ edits < MaxEdits
  /\ IsOpen(world.blocks[c])
  /\ world' = SetBlock(world, c, b)
  /\ edits' = edits + 1
  /\ sand' = sand + (IF IsGravity(b) THEN 1 ELSE 0)
  /\ meddled' = (meddled \/ Fills(world.blocks, world'.blocks))
  /\ UNCHANGED <<due, falling, cut>>

\* A bucket takes a source, a hand anything that is not a fluid; bedrock stays.
Break(c) ==
  /\ edits < MaxEdits
  /\ world.blocks[c] \notin {Air, Block("bedrock")}
  /\ IsFluid(world.blocks[c]) => world.blocks[c].level = 0
  /\ world' = SetBlock(world, c, Air)
  /\ edits' = edits + 1
  /\ sand' = sand - (IF IsGravity(world.blocks[c]) THEN 1 ELSE 0)
  /\ cut' = (cut \/ IsLeaf(world.blocks[c]))
  /\ UNCHANGED <<due, falling, meddled>>

Press(c) ==
  /\ edits < MaxEdits
  /\ world.blocks[c] = Block("button")
  /\ world' = Schedule(SetBlock(world, c, [name |-> "button", level |-> 1]), Request(c, "button", ButtonDelay))
  /\ edits' = edits + 1
  /\ UNCHANGED <<due, falling, sand, cut, meddled>>

Edit == \E c \in Cells : Break(c) \/ Press(c) \/ \E b \in Placeable : Place(c, b)

TicksNext == Tick \/ Process \/ MoveEntity \/ Land \/ Edit

TicksSpec == TicksInit /\ [][TicksNext]_ticksVars

\* The tick goroutine keeps ticking.
FairTicksSpec == TicksSpec /\ WF_ticksVars(Tick \/ Process)

---------------------------------------------------------------------------
HasTick(c, kind) == world.pending[c].kind = kind \/ [at |-> c, kind |-> kind] \in due

\* world.go:1361, block_physics.go:34: nothing that the rules would still change is
\* forgotten: sand over air, a fluid with room to run, ice and a pressed button have a
\* tick of their kind, and one of lava and water that meet (server.go:5829-5850) has,
\* whatever was edited and however the updates of one tick were
\* ordered.  Left out are the overlooked cells: the queue has dropped a tick for one of
\* another kind, or the floor of a fluid was filled.
NothingIsForgotten ==
  \A c \in Cells \ world.overlooked :
    LET g == world.blocks IN
    /\ Unsupported(g, c) => HasTick(c, "fall")
    /\ HasRoom(g, c) => HasTick(c, "fluid")
    /\ g[c].name = "ice" => HasTick(c, "ice")
    /\ IsPressed(g[c]) => HasTick(c, "button")
    /\ g[c].name = "lava" =>
         \A d \in Cells \ world.overlooked : Meet(g, c, d) => HasTick(c, "fluid") \/ HasTick(d, "fluid")

\* server.go:3221 and 5783: sand that falls is the sand that lands, none is lost or
\* doubled, whatever is built elsewhere, dug away or flows meanwhile, as long as nothing
\* else is put in its way.
SandIsConserved == meddled \/ SandIn(world.blocks) + Cardinality(falling) = sand

\* world.go:1403: a tree without logs loses its leaves, all of them, unless one was taken
\* out of it by hand or by sand: wherever leaves hang together, one of them is going to be
\* checked, and a leaf that decays has its neighbours checked.
BareTreeSheds ==
  (~cut /\ \A c \in Cells : ~IsLog(world.blocks[c])) =>
    \A S \in Groves(world.blocks) : \E d \in S : HasTick(d, "leaf")

\* block_physics.go:33-34: a block change makes a bounded number of updates: when
\* nobody edits any more the queue runs empty.
ComesToRest == <>[](world.pending = Quiet /\ due = {})
=============================================================================
