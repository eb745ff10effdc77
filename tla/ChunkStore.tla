------------------------------ MODULE ChunkStore ------------------------------
(***************************************************************************)
(* What core/world.World promises of the edits made to its columns,        *)
(* whatever it caches, evicts, stages and reloads: an edit, once its call  *)
(* has returned, is seen by every lookup until the process stops; saving   *)
(* moves edits to the disk, at times one whose call has yet to return, and *)
(* never takes one off it; a restart brings back the edits on disk.        *)
(***************************************************************************)
CONSTANT Edits

VARIABLES
  seen,  \* the edits that a lookup of their column returns, for good
  saved  \* the edits on disk

vars == <<seen, saved>>

Init == seen = {} /\ saved = {}

Edit(e) == e \notin seen /\ seen' = seen \cup {e} /\ UNCHANGED saved

Save(D) == saved \subseteq D /\ saved' = D /\ seen' = seen \cup D

Restart == seen' = saved /\ UNCHANGED saved

Next ==
  \/ \E e \in Edits : Edit(e)
  \/ \E D \in SUBSET Edits : Save(D)
  \/ Restart

Spec == Init /\ [][Next]_vars
=============================================================================
