------------------------------- MODULE MCMountFS -------------------------------
(* Instance of MountFS for TLC. *)
EXTENDS MountFS, TLC
CONSTANTS p1, p2, c1, c2
MCRecorded == 1 :> c1 @@ 2 :> c2
Symmetry == Permutations(Process)
\* A primary with both formats, and one whose older snapshot only the mirror has.
MCLayouts == {[primary |-> <<"full", "blobs">>, mirror |-> <<"gone", "gone">>],
              [primary |-> <<"gone", "blobs">>, mirror |-> <<"blobs", "full">>]}
=============================================================================
