----------------------------- MODULE MCRedstone -----------------------------
EXTENDS Redstone, TLC

CONSTANTS Long, High

Slice == (1 .. Long) \X (1 .. High)

air_ == Vacant
rock_ == Rock
dust_ == Part("wire")
lever_ == Part("lever")
unlit_ == Part("torch")
lamp_ == Part("lamp")
source_ == Part("block")
right_ == Repeater(-1)

\* Two rows, the upper first.
Rows(rows) == [c \in Slice |-> rows[High + 1 - c[2]][c[1]]]

\* A lever, by dust, puts out the torch on the stone, beside a lamp; dust up a step, with a
\* lamp on either side of the lever and a repeater behind the step; dust
\* under stone, between a redstone block and a lamp.
Inverter == Rows(<< <<air_, air_, unlit_, lamp_>>, <<lever_, dust_, rock_, dust_>> >>)
Stairs == Rows(<< <<air_, lever_, dust_, lamp_>>, <<lamp_, dust_, rock_, right_>> >>)
Row == Rows(<< <<air_, rock_, rock_, rock_>>, <<source_, dust_, lamp_, rock_>> >>)
Boards == {Inverter, Stairs, Row}
Fitted == {dust_, lamp_, lever_}

\* A lever beside the stone that dust lies on.
Latch == {Rows(<< <<dust_, air_>>, <<rock_, lever_>> >>)}
NoFittings == {}
=============================================================================
