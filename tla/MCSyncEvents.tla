----------------------------- MODULE MCSyncEvents -----------------------------
(* Instance of SyncEvents for TLC. *)
EXTENDS SyncEvents
CONSTANTS me, other
=============================================================================
