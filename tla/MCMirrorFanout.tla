--------------------------- MODULE MCMirrorFanout ---------------------------
(* Instances of MirrorFanout for TLC. *)
EXTENDS MirrorFanout, TLC

Symmetry == Permutations(Content) \cup Permutations(Mirror)
=============================================================================
