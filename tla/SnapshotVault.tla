---------------------------- MODULE SnapshotVault ----------------------------
(* What snapshots.py promises: a snapshot that has been taken can be restored *)
(* as it was taken, until somebody asks to forget it. How it is stored, as a  *)
(* manifest of blobs or as a folder of copies, is nobody's concern.           *)

CONSTANTS Stamp, Files, None

VARIABLES
    vault,      \* what a restore of each timestamp yields, None if there is none
    asked       \* the timestamps somebody has asked to forget

vars == <<vault, asked>>

Init == vault = [t \in Stamp |-> None] /\ asked = {}

Take(t) ==
    /\ vault[t] = None
    /\ \E files \in Files : vault' = [vault EXCEPT ![t] = files]
    /\ UNCHANGED asked

(* Nothing is promised of a snapshot that somebody asked to forget, also not *)
(* that it goes away at once or in one piece.                                *)
Drop(t) ==
    /\ t \in asked
    /\ \E rest \in Files \cup {None} : vault' = [vault EXCEPT ![t] = rest]
    /\ UNCHANGED asked

Ask(S) == asked' = asked \cup S /\ UNCHANGED vault

Next ==
    \/ \E t \in Stamp : Take(t) \/ Drop(t)
    \/ \E S \in SUBSET Stamp : Ask(S)

Spec == Init /\ [][Next]_vars

=============================================================================
