--------------------------- MODULE MCSnapshotStore ---------------------------
(* An instance of SnapshotStore for TLC; the configurations give the values. *)
EXTENDS SnapshotStore, TLC

(* No definition tells workers, paths or contents apart. *)
Symmetry == Permutations(Worker) \cup Permutations(Path) \cup Permutations(Content)
=============================================================================
