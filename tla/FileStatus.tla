----------------------------- MODULE FileStatus -----------------------------
(***************************************************************************)
(* The three-way comparison behind every command (SyncEngine._classify): the *)
(* hash of the local file, the hash of the object on the primary, and the    *)
(* manifest entry, which holds both as they were at the last sync.           *)
(***************************************************************************)
CONSTANTS
    NoFile,      \* the hash of a file that does not exist
    NoEntry      \* no manifest entry for a path

Status == {"in_sync", "local_ahead", "drive_ahead", "conflict",
           "new_local", "new_drive", "deleted_local"}

\* Faulty variant: two sides never synced are taken to agree.
FirstSeenTrusting(here, there) ==
    IF here = there THEN "in_sync" ELSE IF here THEN "new_local" ELSE "new_drive"

\* SyncEngine._classify, for a path without a manifest entry.
FirstSeen(here, there) ==
    CASE here /\ ~there -> "new_local"
      [] ~here /\ there -> "new_drive"
      [] here /\ there  -> "conflict"
      [] OTHER          -> "in_sync"

\* ... and for one with an entry, when either side may have moved on since.
SinceSync(here, localChanged, driveChanged) ==
    CASE ~here                                 -> "deleted_local"
      [] here /\ localChanged /\ driveChanged  -> "conflict"
      [] here /\ localChanged /\ ~driveChanged -> "local_ahead"
      [] here /\ ~localChanged /\ driveChanged -> "drive_ahead"
      [] OTHER                                 -> "in_sync"

Classify(l, d, e) ==
    IF e = NoEntry THEN FirstSeen(l # NoFile, d # NoFile)
    ELSE SinceSync(l # NoFile, l # e.synced, d \notin {NoFile, e.remote})

\* A path is looked at when it is known to the disk, the remote or the manifest.
Tracked(l, d, e) == l # NoFile \/ d # NoFile \/ e # NoEntry
=============================================================================
