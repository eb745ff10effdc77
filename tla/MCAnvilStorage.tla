--------------------------- MODULE MCAnvilStorage ---------------------------
(***************************************************************************)
(* Two levels of the region storage in one run: what happens to region     *)
(* files as wholes, and what a file's bytes hold.  Neither looks at the    *)
(* other's state, so their steps are not interleaved: an execution is one  *)
(* of files, or of rewrites of one file.                                   *)
(***************************************************************************)
EXTENDS AnvilStorage, RegionFile
CONSTANTS c1, c2, c3, r1, r2, f1, l1

\* c1 and c2 share a region file.
TwoRegions == [c \in Chunks |-> IF c = c3 THEN r2 ELSE r1]

\* How often each column is saved.
TwiceTheFirst == [c \in Chunks |-> IF c = c1 THEN 2 ELSE 1]

BothInit == Init /\ FormatInit
FilesMove == FormatInit /\ Next /\ UNCHANGED formatVars
FormatMoves == Init /\ FormatNext /\ UNCHANGED vars
BothSpec == BothInit /\ [][FilesMove \/ FormatMoves]_<<vars, formatVars>>
=============================================================================
