----------------------------- MODULE MCBlockTicks -----------------------------
EXTENDS BlockTicks

a_ == Air
s_ == Stone
r_ == Block("bedrock")
g_ == Block("sand")
w_ == Fluid("water", 0)
l_ == Fluid("lava", 0)
t_ == Block("log")
f_ == Block("leaves")
b_ == Block("button")

\* Three rows, the highest first.
Drawn(rows) == [c \in Cells |-> rows[Height + 1 - c[2]][c[1]]]

\* Sand on the wall between water and lava, under a roof; a pile of sand and a button under water;
\* lava on a ledge over water; a log with leaves at both distances that it keeps.
Banks == Drawn(<< <<r_, g_, r_>>, <<w_, s_, l_>>, <<r_, r_, r_>> >>)
Shaft == Drawn(<< <<g_, s_, w_>>, <<g_, b_, s_>>, <<r_, r_, r_>> >>)
Ledge == Drawn(<< <<l_, s_, a_>>, <<s_, w_, s_>>, <<r_, r_, r_>> >>)
Tree == Drawn(<< <<f_, f_, a_>>, <<t_, f_, f_>>, <<r_, r_, r_>> >>)
Scenery == {Banks, Shaft, Ledge, Tree}

\* A source on a ledge, a step above the ground.
Waterfall == {Drawn(<< <<w_, s_, a_>>, <<s_, s_, s_>>, <<r_, r_, r_>> >>)}

\* What players place.
Placed == {g_, w_, Block("ice")}

Delays == [water |-> 3, lava |-> 4]
DropOffs == [water |-> 1, lava |-> 2]
=============================================================================
