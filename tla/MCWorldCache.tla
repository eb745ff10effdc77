---------------------------- MODULE MCWorldCache ----------------------------
EXTENDS WorldCache
CONSTANTS k1, k2, a1, a2, f1, f2, e1, e2, e3

\* One edit of each column, or both of one column.
OneEach == [e \in Edits |-> IF e = e1 THEN k1 ELSE k2]
SameColumn == [e \in Edits |-> k1]

EachKind == [e \in Edits |-> IF e = e1 THEN "block" ELSE IF e = e2 THEN "container" ELSE "lectern"]
BlockAndContainer == [e \in Edits |-> IF e = e2 THEN "container" ELSE "block"]

\* Every goroutine may look every column up, or each column is one goroutine's.
Shared == [k \in Keys |-> Actors]
Confined == [k \in Keys |-> IF k = k1 THEN {a1} ELSE {a2}]
=============================================================================
