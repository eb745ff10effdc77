------------------------------- MODULE MCCells -------------------------------
(***************************************************************************)
(* Four things that follow from the blocks of a small world: the ticks     *)
(* they are due, the light clients see them in, the redstone power they    *)
(* have, and the items some of them hold.  None of them looks at another's *)
(* state, so an execution is one of ticks, of light, of power or of items, *)
(* and it starts from any scene of its own and one of the others'.         *)
(***************************************************************************)
EXTENDS MCBlockTicks, MCContainers, MCRedstone, BlockLight

CONSTANTS player, client

\* Three chunks, of two columns and one: a tunnel through all of them, a hollow below it and
\* half a roof above it in the first.
Tunnel == (1 .. 5) \X {2}
Hollow == {<<1, 1>>, <<2, 1>>}
Roof == {<<1, 3>>, <<2, 3>>}
Caves == Tunnel \cup Hollow \cup Roof

Faces == [v \in Caves |-> {u \in Caves : Gap(u, v) = 1}]
Upwards == [v \in Caves |-> {u \in Caves : u[1] = v[1] /\ u[2] >= v[2]}]
ChunkAt == [v \in Caves |-> (v[1] + 1) \div 2]
InView == [c \in 1 .. 3 |-> SelectSeq(<<c - 1, c, c + 1>>, LAMBDA d : d \in 1 .. 3)]

clear_ == [light |-> 0, clear |-> TRUE]
solid_ == [light |-> 0, clear |-> FALSE]
torch_ == [light |-> 3, clear |-> TRUE]
candle_ == [light |-> 2, clear |-> TRUE]
Lamps == {clear_, solid_, torch_, candle_}

\* A torch in the last chunk, a candle in the hollow.
Lit == {[v \in Caves |-> IF v \in {<<2, 3>>, <<1, 1>>} THEN solid_
                         ELSE IF v = <<5, 2>> THEN torch_
                         ELSE IF v = <<2, 1>> THEN candle_ ELSE clear_]}
AtTheBorder == {<<3, 2>>} \X {solid_, torch_}

VARIABLE machine  \* the one that runs

CellsInit ==
  /\ TicksInit /\ LightInit /\ RedstoneInit /\ Init
  /\ machine \in {"ticks", "light", "power", "items"}
  /\ machine # "ticks" => world.blocks = Banks
  /\ machine # "power" => circuit = Inverter
  /\ machine # "items" => vehicle.alive

Ticks == machine = "ticks" /\ TicksNext /\ UNCHANGED <<vars, lightVars, redstoneVars, machine>>
Light == machine = "light" /\ LightNext /\ UNCHANGED <<ticksVars, vars, redstoneVars, machine>>
Power == machine = "power" /\ RedstoneNext /\ UNCHANGED <<ticksVars, vars, lightVars, machine>>
Items == machine = "items" /\ Next /\ UNCHANGED <<ticksVars, lightVars, redstoneVars, machine>>

CellsNext == Ticks \/ Light \/ Power \/ Items
CellsSpec == CellsInit /\ [][CellsNext]_<<ticksVars, vars, lightVars, redstoneVars, machine>>
=============================================================================
