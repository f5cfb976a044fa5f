---------------------------- MODULE MCSyncEngine ----------------------------
(* Instances of SyncEngine for TLC: contents and machines are symmetric. *)
EXTENDS SyncEngine, TLC

\* Interactive users may answer anything, differently for every question.
Interactive == [m \in Machine |-> {"local", "drive", "merged", "skip"}]

\* Users who do not put a conflict off.
Decided == [m \in Machine |-> {"local", "drive", "merged"}]

DataSymmetry == Permutations(Content) \cup Permutations(File)
Symmetry == Permutations(Machine) \cup Permutations(Content) \cup Permutations(File)
=============================================================================
