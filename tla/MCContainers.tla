---------------------------- MODULE MCContainers ----------------------------
EXTENDS Containers, TLC

CONSTANTS right, left, upper, beside, lower, p1, p2

\* A double chest above a hopper, which faces a second hopper beside it, which
\* faces nothing; a third hopper below the first takes from it.
MCInto == [h \in Hoppers |-> IF h = upper THEN beside ELSE NoBlock]
MCAbove == [h \in Hoppers |-> IF h = upper THEN right ELSE IF h = lower THEN upper ELSE NoBlock]
MCY == [h \in Hoppers |-> IF h = lower THEN 0 ELSE 1]
MCX == [h \in Hoppers |-> IF h = beside THEN 1 ELSE 0]

MCScreens == {<<right, left>>, <<left>>}

\* A full stack and a single item in the chest, or a full stack in a vehicle 
\* that dies next to a hopper.
Holding(x) == [y \in Places |-> IF y = x THEN 2 ELSE IF x = right /\ y = left THEN 1 ELSE 0]
MCStarts ==
    {[items |-> Holding(right), blocks |-> Blocks, vehicle |-> FALSE],
     [items |-> Holding(Vehicle), blocks |-> {lower}, vehicle |-> TRUE]}

Twins == Permutations(Players)
=============================================================================
