--------------------------- MODULE ManifestStore ---------------------------
(***************************************************************************)
(* The manifest file (claude_mirror/manifest.py) shared by the processes of  *)
(* one machine: a cron sync, a foreground push, a retry.  Each process loads *)
(* the whole file, works on its copy, and saves: under an OS lock it reads   *)
(* the file again, merges, and replaces it.                                  *)
(*                                                                          *)
(* An entry is the number of the sync of its file that it records, so that  *)
(* a larger number is a later one; the fields of an entry are written        *)
(* together and are not told apart here (see SyncEngine and MirrorFanout).   *)
(* os.replace is atomic, so the file is never half written.                  *)
(***************************************************************************)
EXTENDS Naturals, FiniteSets

CONSTANTS
    Process,     \* processes that use the manifest
    File,        \* paths
    NoEntry,     \* no entry for a path
    Corrupt,     \* a manifest file that cannot be parsed
    Nobody,      \* the lock is free
    MaxSyncs     \* bound on the syncs of a file

ASSUME BoundAssumption == MaxSyncs \in Nat

Entry    == 1..MaxSyncs
Entries  == [File -> Entry \cup {NoEntry}]

ASSUME NullAssumption ==
    NoEntry \notin Entry /\ Corrupt \notin Entries /\ Nobody \notin Process

VARIABLES
    disk,      \* the manifest file
    lock,      \* the process that holds the lock file, or Nobody
    phase,     \* phase[p]: out, running, locked or merged
    mem,       \* mem[p]: Manifest._data
    removed,   \* removed[p]: Manifest._removed_keys
    merged,    \* merged[p]: what p is about to write
    syncs,     \* history: syncs[f] counts the syncs of f by anyone
    base,      \* history: the entries p read when it last met the file
    own,       \* history: the paths p updated or removed since then
    bypassed   \* history: some save could not use the lock file

vars == <<disk, lock, phase, mem, removed, merged, syncs, base, own, bypassed>>

NoEntries == [f \in File |-> NoEntry]
OnDisk    == IF disk = Corrupt THEN NoEntries ELSE disk

-----------------------------------------------------------------------------
\* Faulty variant: what cannot be parsed is used as it is.
LoadBlindly(p) ==
    /\ phase[p] = "out"
    /\ phase' = [phase EXCEPT ![p] = "running"]
    /\ mem' = [mem EXCEPT ![p] = disk]
    /\ base' = [base EXCEPT ![p] = OnDisk]
    /\ removed' = [removed EXCEPT ![p] = {}]
    /\ own' = [own EXCEPT ![p] = {}]
    /\ UNCHANGED <<disk, lock, merged, syncs, bypassed>>

\* Manifest.load: an unreadable file is moved out of the way.
Load(p) ==
    /\ phase[p] = "out"
    /\ phase' = [phase EXCEPT ![p] = "running"]
    /\ mem' = [mem EXCEPT ![p] = OnDisk]
    /\ base' = [base EXCEPT ![p] = OnDisk]
    /\ disk' = OnDisk
    /\ removed' = [removed EXCEPT ![p] = {}]
    /\ own' = [own EXCEPT ![p] = {}]
    /\ UNCHANGED <<lock, merged, syncs, bypassed>>

\* update() or update_remote() after a sync of f; it revokes a removal.
Update(p, f) ==
    /\ phase[p] = "running"
    /\ syncs[f] < MaxSyncs
    /\ syncs' = [syncs EXCEPT ![f] = @ + 1]
    /\ mem' = [mem EXCEPT ![p][f] = syncs[f] + 1]
    /\ removed' = [removed EXCEPT ![p] = @ \ {f}]
    /\ own' = [own EXCEPT ![p] = @ \cup {f}]
    /\ UNCHANGED <<disk, lock, phase, merged, base, bypassed>>

Remove(p, f) ==
    /\ phase[p] = "running"
    /\ mem' = [mem EXCEPT ![p][f] = NoEntry]
    /\ removed' = [removed EXCEPT ![p] = @ \cup {f}]
    /\ own' = [own EXCEPT ![p] = @ \cup {f}]
    /\ UNCHANGED <<disk, lock, phase, merged, syncs, base, bypassed>>

-----------------------------------------------------------------------------
(* Manifest.save: exclusive_lock, _merge_with_disk, _write_atomic.          *)

\* Faulty variant: there is no merge, the copy in memory replaces the file.
MergeNothing(p) == mem[p]

\* _merge_with_disk: memory wins; disk-only keys are kept unless p removed them.
Merge(p) ==
    [f \in File |-> IF mem[p][f] # NoEntry THEN mem[p][f]
                    ELSE IF f \in removed[p] THEN NoEntry
                    ELSE OnDisk[f]]

\* Faulty variant: the lock does not exclude another process.
LockShared(p) ==
    /\ phase[p] = "running"
    /\ lock' = p
    /\ phase' = [phase EXCEPT ![p] = "locked"]
    /\ UNCHANGED <<disk, mem, removed, merged, syncs, base, own, bypassed>>

Lock(p) ==
    /\ phase[p] = "running"
    /\ lock = Nobody
    /\ lock' = p
    /\ phase' = [phase EXCEPT ![p] = "locked"]
    /\ UNCHANGED <<disk, mem, removed, merged, syncs, base, own, bypassed>>

ReadAndMerge(p) ==
    /\ phase[p] = "locked"
    /\ merged' = [merged EXCEPT ![p] = Merge(p)]
    /\ phase' = [phase EXCEPT ![p] = "merged"]
    /\ UNCHANGED <<disk, lock, mem, removed, syncs, base, own, bypassed>>

\* os.replace, refresh of the copy in memory, release of the lock.  The set of
\* removed keys is kept.
Replace(p) ==
    /\ phase[p] = "merged"
    /\ disk' = merged[p]
    /\ mem' = [mem EXCEPT ![p] = merged[p]]
    /\ base' = [base EXCEPT ![p] = merged[p]]
    /\ own' = [own EXCEPT ![p] = {}]
    /\ lock' = Nobody
    /\ phase' = [phase EXCEPT ![p] = "running"]
    /\ UNCHANGED <<removed, merged, syncs, bypassed>>

\* The lock file cannot be opened: the copy in memory replaces the file.
SaveUnlocked(p) ==
    /\ phase[p] = "running"
    /\ disk' = mem[p]
    /\ bypassed' = TRUE
    /\ UNCHANGED <<lock, phase, mem, removed, merged, syncs, base, own>>

\* The process ends or is killed; the OS releases its lock.
Leave(p) ==
    /\ phase[p] # "out"
    /\ phase' = [phase EXCEPT ![p] = "out"]
    /\ lock' = IF lock = p THEN Nobody ELSE lock
    /\ UNCHANGED <<disk, mem, removed, merged, syncs, base, own, bypassed>>

-----------------------------------------------------------------------------
Init ==
    /\ disk \in {NoEntries, Corrupt}
    /\ lock = Nobody
    /\ phase = [p \in Process |-> "out"]
    /\ mem = [p \in Process |-> NoEntries]
    /\ removed = [p \in Process |-> {}]
    /\ merged = [p \in Process |-> NoEntries]
    /\ syncs = [f \in File |-> 0]
    /\ base = [p \in Process |-> NoEntries]
    /\ own = [p \in Process |-> {}]
    /\ bypassed = FALSE

Step(p) ==
    \/ Load(p)
    \/ \E f \in File : Update(p, f) \/ Remove(p, f)
    \/ Lock(p)
    \/ ReadAndMerge(p)
    \/ Replace(p)
    \/ SaveUnlocked(p)
    \/ Leave(p)

Next == \E p \in Process : Step(p)
Spec == Init /\ [][Next]_vars

-----------------------------------------------------------------------------
TypeOK ==
    /\ disk \in Entries \cup {Corrupt}
    /\ lock \in Process \cup {Nobody}
    /\ phase \in [Process -> {"out", "running", "locked", "merged"}]
    /\ mem \in [Process -> Entries]
    /\ removed \in [Process -> SUBSET File]
    /\ merged \in [Process -> Entries]
    /\ syncs \in [File -> 0..MaxSyncs]
    /\ base \in [Process -> Entries]
    /\ own \in [Process -> SUBSET File]
    /\ bypassed \in BOOLEAN

\* While the lock works, a save changes the entry of a path only if the saving
\* process worked on that path itself, had met an entry for it before, or removed
\* it earlier in its life: what another process adds meanwhile is kept, and what
\* it leaves out stays out.
AddsLand ==
    [][\A p \in Process, f \in File :
          Replace(p) /\ ~bypassed /\ disk'[f] # OnDisk[f] =>
              f \in own[p] \cup removed[p] \/ base[p][f] # NoEntry]_vars

\* While the lock works, an entry disappears only through a process that
\* removed the path itself.
OnlyRemovalRemoves ==
    [][\A f \in File :
          ~bypassed' /\ OnDisk[f] # NoEntry /\ OnDisk'[f] = NoEntry =>
              \E p \in Process : Replace(p) /\ f \in removed[p]]_vars

=============================================================================
