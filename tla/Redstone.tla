------------------------------- MODULE Redstone -------------------------------
(***************************************************************************)
(* The RedstoneEngine of core/world/redstone.go: what the power of a site  *)
(* is computed from, the flush on the tick goroutine that spreads changes  *)
(* of it from the blocks that were edited, and the players whose           *)
(* goroutines edit blocks meanwhile.                                       *)
(*                                                                         *)
(* The world is a slice, in rock.  Its parts are dust, levers, standing    *)
(* torches, redstone blocks, lamps, repeaters along the slice, stone: the  *)
(* other sources are as levers, the other loads as lamps.                  *)
(*                                                                         *)
(* The queue of a flush is a set, any site of which may be the next, and   *)
(* any site may be left in it: the code's begins in the order of a map and *)
(* has duplicates.  Its bound of 65536 evaluations is not modelled.        *)
(***************************************************************************)
EXTENDS Integers, FiniteSets, FiniteSetsExt

CONSTANTS
  Sites,        \* of the slice: <<x, y>>
  Strongest,    \* 15
  Circuits,     \* circuits as they are built: [Sites -> parts], none of it powered yet
  Fittings,     \* what players place
  MaxRewirings, \* bound: edits by players
  NoSite

ASSUME RedstoneAssumption ==
  /\ Sites \subseteq Int \X Int /\ IsFiniteSet(Sites) /\ NoSite \notin Sites
  /\ Strongest \in Nat \ {0} /\ MaxRewirings \in Nat

VARIABLES
  circuit,  \* the blocks
  power,    \* RedstoneEngine.power
  dirty,    \* RedstoneEngine.dirty
  queue,    \* FlushUpdates: the sites it has still to evaluate
  turn,     \* and the one whose power it has computed
  untold,   \* sites that are edited, and NotifyChange is still to come
  rewired,  \* edits made
  fresh,    \* history: sites edited since the engine last wrote them
  far       \* history: sites whose power was last computed from more than their neighbours

redstoneVars == <<circuit, power, dirty, queue, turn, untold, rewired, fresh, far>>

\* on: powered, or lit; level: of dust; facing: +1 or -1, the side of a repeater's input.
Part(name) == [name |-> name, on |-> FALSE, level |-> 0, facing |-> 0]
Repeater(facing) == [Part("repeater") EXCEPT !.facing = facing]
PartNames == {"air", "stone", "wire", "lever", "torch", "block", "lamp", "repeater"}
Parts == {p \in [name : PartNames, on : BOOLEAN, level : 0 .. Strongest, facing : {-1, 0, 1}] :
            p.name = "repeater" => p.facing # 0}
Vacant == Part("air")
Rock == Part("stone")

Offset(c, dx, dy) == <<c[1] + dx, c[2] + dy>>
Over(c) == Offset(c, 0, 1)
Under(c) == Offset(c, 0, -1)
Flanks(c) == {Offset(c, 1, 0), Offset(c, -1, 0)}
Touching(c) == Flanks(c) \cup {Over(c), Under(c)}
Near(c) == Touching(c) \cap Sites

PartAt(c) == IF c \in Sites THEN circuit[c] ELSE Rock
PowerAt(c) == IF c \in Sites THEN power[c] ELSE 0
IsA(c, names) == PartAt(c).name \in names

IsConductor(c) == IsA(c, {"wire", "repeater", "block"})
IsSource(c) == IsA(c, {"lever", "torch", "block"})
IsFullBlock(c) == IsA(c, {"stone"})
IsSolid(c) == ~IsA(c, {"air", "wire", "torch"})

---------------------------------------------------------------------------
(* computePower: what is read of other sites is their blocks, and the      *)
(* power the engine has for them. *)

\* A torch is out when anything but itself powers the block below it.
TorchLit[c \in Sites] ==
  \A d \in Near(Under(c)) \ {c} :
    /\ ~(IsA(d, {"torch"}) /\ TorchLit[d])
    /\ ~(IsA(d, {"lever", "repeater"}) /\ circuit[d].on)
    /\ ~IsA(d, {"block"})
    /\ ~(IsConductor(d) /\ power[d] > 0)

PowerFromSource(c) ==
  IF \/ IsA(c, {"block"})
     \/ IsA(c, {"lever", "repeater"}) /\ PartAt(c).on
     \/ IsA(c, {"torch"}) /\ TorchLit[c]
    THEN Strongest ELSE 0

InputOf(c) == Offset(c, PartAt(c).facing, 0)
OutputOf(c) == Offset(c, -PartAt(c).facing, 0)
TurnedFrom(c, target) == IsA(c, {"repeater"}) /\ target # OutputOf(c)

SourceToward(c, target) ==
  IF TurnedFrom(c, target) \/ (IsA(c, {"torch"}) /\ target = Under(c)) THEN 0
  ELSE PowerFromSource(c)

ConductorToward(c, target) == IF TurnedFrom(c, target) THEN 0 ELSE PowerAt(c)

Best(levels) == Max(levels \cup {0})

\* A full block passes on what sources give it, and the dust on top of it.
StrongThrough(c, target) ==
  Best({SourceToward(d, c) : d \in Touching(c) \ {target}}
       \cup {PowerAt(d) : d \in {e \in {Over(c)} \ {target} : IsA(e, {"wire"})}})

Given(c, target) ==
  CASE IsSource(c) -> SourceToward(c, target)
    [] IsConductor(c) /\ ~IsSource(c) -> ConductorToward(c, target)
    [] IsFullBlock(c) /\ ~IsFullBlock(target) -> StrongThrough(c, target)
    [] OTHER -> 0

\* Dust climbs a solid neighbour if there is room above, or goes down beside one that is not.
StepsTo(c) ==
  {Over(d) : d \in {e \in Flanks(c) : IsSolid(e) /\ ~IsSolid(Over(c))}}
  \cup {Under(d) : d \in {e \in Flanks(c) : ~IsSolid(e)}}

WirePower(c) ==
  LET wires == {d \in Touching(c) \cup StepsTo(c) : IsA(d, {"wire"})}
  IN  Best({PowerAt(d) - 1 : d \in wires} \cup {Given(d, c) : d \in Touching(c) \ wires})

RepeaterPower(c) ==
  IF SourceToward(InputOf(c), c) > 0 \/ PowerAt(InputOf(c)) > 0 THEN Strongest ELSE 0

ComputePower(c) ==
  CASE IsSource(c) -> PowerFromSource(c)
    [] IsA(c, {"wire"}) -> WirePower(c)
    [] IsA(c, {"repeater"}) -> RepeaterPower(c)
    [] OTHER -> Best({Given(d, c) : d \in Touching(c)})

\* computePower looks further than a change is told of, NotifyChange and a flush tell the
\* neighbours: at what is around the block below a torch, through a full block, and at dust
\* up or down a step.
LooksFar(c) ==
  \/ IsA(c, {"torch"}) /\ PowerFromSource(c) > 0
  \/ \E d \in Touching(c) : IsA(d, {"torch", "stone"}) /\ Given(d, c) > 0
  \/ IsA(c, {"wire"}) /\ \E d \in StepsTo(c) : IsA(d, {"wire"}) /\ PowerAt(d) > 1

---------------------------------------------------------------------------
(* FlushUpdates. *)

NoTurn == [at |-> NoSite, part |-> Vacant, level |-> 0]
Turns == [at : Sites, part : Parts, level : 0 .. Strongest]

PowerOK ==
  /\ circuit \in [Sites -> Parts] /\ power \in [Sites -> 0 .. Strongest]
  /\ dirty \cup queue \cup untold \cup fresh \cup far \subseteq Sites
  /\ turn \in Turns \cup {NoTurn} /\ rewired \in 0 .. MaxRewirings

RedstoneInit ==
  /\ circuit \in Circuits /\ power = [c \in Sites |-> 0]
  /\ dirty = UNION {{c} \cup Near(c) : c \in {d \in Sites : IsA(d, {"torch", "block"})}}
  /\ queue = {} /\ turn = NoTurn /\ untold = {} /\ rewired = 0 /\ fresh = {} /\ far = {}

DrainDirty ==
  /\ queue = {} /\ turn = NoTurn /\ dirty # {}
  /\ queue' = dirty /\ dirty' = {}
  /\ UNCHANGED <<circuit, power, turn, untold, rewired, fresh, far>>

Evaluate ==
  /\ turn = NoTurn
  /\ \E c \in queue :
       /\ turn' = [at |-> c, part |-> circuit[c], level |-> ComputePower(c)]
       /\ queue' \in {queue, queue \ {c}}
       /\ far' = IF LooksFar(c) THEN far \cup {c} ELSE far \ {c}
  /\ UNCHANGED <<circuit, power, dirty, untold, rewired, fresh>>

\* applyPowerState: the block as it was read, with its new state.
Powered(part, level) ==
  CASE part.name = "wire" -> [part EXCEPT !.level = level]
    [] part.name \in {"lamp", "torch", "repeater"} -> [part EXCEPT !.on = level > 0]
    [] OTHER -> part

ASSUME CircuitsAssumption ==
  /\ \A g \in Circuits : g \in [Sites -> Parts] /\ \A c \in Sites : g[c].level = 0 /\ ~g[c].on
  /\ Fittings \subseteq Parts

\* Dust and lamps are written even where they show that state already.
Rewrites(part, level) == part.name \in {"wire", "lamp"} \/ Powered(part, level) # part

ApplyPowerState(c, part, level) ==
  IF Rewrites(part, level)
    THEN circuit' = [circuit EXCEPT ![c] = Powered(part, level)] /\ fresh' = fresh \ {c}
    ELSE UNCHANGED <<circuit, fresh>>

TellFlanks(c) == queue \cup (Flanks(c) \cap Sites)
Spread(c) == queue \cup Near(c)

\* A torch that shows another state than its power is reconciled, whether that is new or not.
Stirs(c, t) == t.level # power[c] \/ (t.part.name = "torch" /\ t.part.on # (t.level > 0))

Settle ==
  /\ turn # NoTurn /\ turn' = NoTurn
  /\ power' = [power EXCEPT ![turn.at] = turn.level]
  /\ IF Stirs(turn.at, turn)
       THEN ApplyPowerState(turn.at, turn.part, turn.level) /\ queue' = Spread(turn.at)
       ELSE UNCHANGED <<circuit, fresh, queue>>
  /\ UNCHANGED <<dirty, untold, rewired, far>>

---------------------------------------------------------------------------
(* Players: SetBlock writes the block, and notifies the engine afterwards. *)

Rewire(c, part) ==
  /\ rewired < MaxRewirings /\ rewired' = rewired + 1
  /\ circuit' = [circuit EXCEPT ![c] = part]
  /\ untold' = untold \cup {c} /\ fresh' = fresh \cup {c}
  /\ UNCHANGED <<power, dirty, queue, turn, far>>

Fit(c) == IsA(c, {"air"}) /\ IsSolid(Under(c)) /\ \E part \in Fittings : Rewire(c, part)

\* A block that something may stand on is taken out only when nothing does.
TakeOut(c) == ~IsA(c, {"air"}) /\ (IsSolid(c) => IsA(Over(c), {"air"})) /\ Rewire(c, Vacant)

Flip(c) == IsA(c, {"lever"}) /\ Rewire(c, [circuit[c] EXCEPT !.on = ~@])

NotifyChange(c) ==
  /\ c \in untold /\ untold' = untold \ {c}
  /\ dirty' = dirty \cup {c} \cup Near(c)
  /\ UNCHANGED <<circuit, power, queue, turn, rewired, fresh, far>>

RedstoneNext ==
  \/ DrainDirty \/ Evaluate \/ Settle
  \/ \E c \in Sites : Fit(c) \/ TakeOut(c) \/ Flip(c) \/ NotifyChange(c)

RedstoneSpec == RedstoneInit /\ [][RedstoneNext]_redstoneVars

---------------------------------------------------------------------------
(* Properties. *)

AtRest == dirty = {} /\ queue = {} /\ turn = NoTurn /\ untold = {}

\* When FlushUpdates has nothing left to do, every site has the power computePower gives it,
\* whatever order the changes of edits and of each other came in ("iterate until stable").
PowerIsTrue == AtRest => \A c \in Sites : power[c] = ComputePower(c)

\* Every site has the power computePower gives it, but where that looks far, or has.
TrueNearby == \A c \in Sites \ far : LooksFar(c) \/ power[c] = ComputePower(c)

\* Dust, lamps, repeaters and torches show the power the engine has for them.
PartsShowPower == \A c \in Sites \ fresh : circuit[c] = Powered(circuit[c], power[c])

\* No ring of dust keeps itself powered once all sources are out.  A repeater that was put
\* where there was power does not show it.
DeadIsDark ==
  (\A c \in Sites : /\ PowerFromSource(c) = 0 /\ c \notin far /\ ~LooksFar(c)
                    /\ IsA(c, {"repeater"}) => c \notin fresh) =>
    \A c \in Sites : power[c] = 0

\* FlushUpdates: when nothing is left to do, after edits in any order with its evaluations,
\* each site has the power computePower gives it, unless that reads past the site's
\* neighbours; the blocks show the power; and without a source there is none.
PowerSettles == AtRest => TrueNearby /\ PartsShowPower /\ DeadIsDark
=============================================================================
