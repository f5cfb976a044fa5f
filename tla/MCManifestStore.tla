--------------------------- MODULE MCManifestStore ---------------------------
(* Instances of ManifestStore for TLC: processes and paths are symmetric. *)
EXTENDS ManifestStore, TLC

Symmetry == Permutations(Process) \cup Permutations(File)
=============================================================================
