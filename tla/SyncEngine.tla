----------------------------- MODULE SyncEngine -----------------------------
(***************************************************************************)
(* The sync engine of claude-mirror (claude_mirror/sync.py): machines that  *)
(* each hold a working copy and a manifest, and reconcile them with one     *)
(* shared primary backend through the commands sync, push, push             *)
(* --force-local and pull.                                                  *)
(*                                                                          *)
(* A command is not atomic.  It takes one snapshot of both sides            *)
(* (get_status), classifies every file, and then works through its phases   *)
(* (pull, guard, upload, delete, conflicts, save) file by file, while the   *)
(* user keeps editing, other machines run commands of their own, transfers  *)
(* fail and the process may be killed.                                      *)
(*                                                                          *)
(* Abstractions.  A content stands for its hash.  The primary addresses an  *)
(* object by its path, so remote_file_id is implicit.  Hashing the working  *)
(* copy and listing the remote are one step: they run in two threads of     *)
(* which one reads only the working copy and the other only the remote, so  *)
(* every interleaving of them with edits and remote writes equals one where *)
(* they are adjacent.  The mirrors of a file are one bit, "some mirror is   *)
(* in pending_retry": it is all this module needs, because such a file is   *)
(* pushed to the primary again.                                             *)
(***************************************************************************)
EXTENDS Naturals, FiniteSets, FileStatus

CONSTANTS
    Machine,     \* the machines that share the project
    File,        \* the relative paths in scope
    Content,     \* the contents (hashes) a file can have
    None,        \* nothing planned, nothing shown
    Binary,      \* contents that are not valid UTF-8
    Mangled,     \* what text decoding with errors="replace" leaves of those
    Answers,     \* Answers[m]: what machine m's merge handler may answer
    Commands,    \* the commands the machines run
    MissingRaises, \* backend calls that raise when the object does not exist
    Mirrored,    \* TRUE when the project has mirror backends
    Overlap,     \* TRUE when commands of different machines may overlap
    FreshEdits,  \* TRUE when an edit always yields a content never seen before
    MaxFaults    \* bound on failed transfers and killed commands

ASSUME DataAssumption ==
    /\ NoFile \notin Content
    /\ Binary \subseteq Content
    /\ Binary # {} => Mangled \in Content \ Binary

ASSUME ModeAssumption ==
    /\ Answers \in [Machine -> SUBSET {"local", "drive", "merged", "skip"}]
    /\ Commands \subseteq {"sync", "push", "force", "pull"}
    /\ MissingRaises \subseteq {"hash", "delete"}
    /\ {Mirrored, Overlap, FreshEdits} \subseteq BOOLEAN
    /\ MaxFaults \in Nat

Hash == Content \cup {NoFile}

\* manifest.FileState: the hash of the local file and of the primary's object
\* at the last sync, and whether some mirror is in pending_retry.
Entry == [synced : Content, remote : Content, pending : BOOLEAN]

\* sync.FileSyncState: the snapshot a command acts upon.
Plan == [status : Status, local : Hash, drive : Hash]

\* The two sides of a conflict, as they were read for the merge handler.
Shown == [local : Content, drive : Content]

ASSUME NullAssumption == NoEntry \notin Entry /\ None \notin Plan /\ None \notin Shown

Stages == {"pull", "guard", "upload", "record", "delete", "conflict", "again"}

VARIABLES
    local,     \* local[m][f]: content in the working copy of machine m
    remote,    \* remote[f]: content on the primary
    disk,      \* disk[m][f]: manifest entry saved on machine m
    mem,       \* mem[m][f]: manifest entry in the running command's memory
    cmd,       \* cmd[m]: the command machine m runs, or "idle"
    plan,      \* plan[m][f]: the command's FileSyncState of f
    todo,      \* todo[m][s]: files the command still has to handle in stage s
    shown,     \* shown[m][f]: the two sides the merge handler was given
    used,      \* history: contents that have existed anywhere
    published, \* history: contents the primary has held
    taken,     \* history: taken[m]: files the command has taken from the remote
    lost,      \* history: lost[m]: files taken, but not recorded as they were
    faults     \* failures so far, at most MaxFaults

userVars == <<local, used>>
cmdVars  == <<disk, mem, cmd, plan, todo, shown>>
ghosts   == <<published, taken, lost>>
vars     == <<userVars, remote, cmdVars, ghosts, faults>>

-----------------------------------------------------------------------------
(* Pure parts of the engine.                                               *)

\* Bytes that went through decode(errors="replace") and write_text.
Text(c) == IF c \in Binary THEN Mangled ELSE c

NoTodo    == [s \in Stages |-> {}]
Nothing   == [f \in File |-> None]
NoEntries == [f \in File |-> NoEntry]

-----------------------------------------------------------------------------
(* The user of machine m edits the working copy whenever they like.        *)

Edit(m, f, c) ==
    /\ c # local[m][f]
    /\ FreshEdits => c \notin used
    /\ local' = [local EXCEPT ![m][f] = c]
    /\ used' = used \cup {c}
    /\ UNCHANGED <<remote, cmdVars, ghosts, faults>>

Remove(m, f) ==
    /\ local[m][f] # NoFile
    /\ local' = [local EXCEPT ![m][f] = NoFile]
    /\ UNCHANGED <<used, remote, cmdVars, ghosts, faults>>

-----------------------------------------------------------------------------
(* Starting a command: a fresh engine loads the manifest, takes the         *)
(* snapshot of both sides, and sorts the files into the command's stages.   *)

Snapshot(m) ==
    [f \in File |->
        IF Tracked(local[m][f], remote[f], disk[m][f])
        THEN [status |-> Classify(local[m][f], remote[f], disk[m][f]),
              local |-> local[m][f], drive |-> remote[f]]
        ELSE None]

\* Files of snapshot P whose status is one of S.
Having(P, S) == {f \in File : P[f] # None /\ P[f].status \in S}

\* SyncEngine._retry_pending_for_mirrors
PendingFiles(m) == {f \in File : disk[m][f] # NoEntry /\ disk[m][f].pending}

\* The stages of sync(), push(), push(force_local=True) and pull().  Only the
\* files in scope are considered, except that a file pending on a mirror is
\* pushed whatever its status.
InitialTodo(m, k, scope, P) ==
    LET ahead   == Having(P, {"local_ahead", "new_local"}) \cap scope
        behind  == Having(P, {"drive_ahead", "new_drive"}) \cap scope
        gone    == Having(P, {"deleted_local"}) \cap scope
        split   == Having(P, {"conflict"})
        clashes == split \cap scope
        late    == PendingFiles(m)
    IN  CASE k = "sync"  -> [NoTodo EXCEPT !.pull = behind, !.guard = ahead \cup late,
                                           !.delete = gone, !.conflict = clashes]
          [] k = "push"  -> [NoTodo EXCEPT !.guard = (ahead \cup late) \ split, !.delete = gone,
                                           !.conflict = clashes \cup (late \cap split)]
          [] k = "force" -> [NoTodo EXCEPT !.upload = ahead \cup clashes \cup late,
                                           !.delete = gone]
          [] k = "pull"  -> [NoTodo EXCEPT !.pull = behind]

Start(m, k, scope) ==
    /\ cmd[m] = "idle"
    /\ Overlap \/ \A n \in Machine : cmd[n] = "idle"
    /\ k = "sync" => scope = File
    /\ cmd'  = [cmd EXCEPT ![m] = k]
    /\ mem'  = [mem EXCEPT ![m] = disk[m]]
    /\ plan' = [plan EXCEPT ![m] = Snapshot(m)]
    /\ todo' = [todo EXCEPT ![m] = InitialTodo(m, k, scope, Snapshot(m))]
    /\ UNCHANGED <<userVars, remote, disk, shown, ghosts, faults>>

-----------------------------------------------------------------------------
(* Stages.  A stage is at work when every earlier one has nothing left.     *)

Reached(m, s) ==
    LET left(S) == \A t \in S : todo[m][t] = {}
    IN  CASE s = "pull"     -> TRUE
          [] s = "guard"    -> left({"pull"})
          [] s = "upload"   -> left({"pull", "guard"})
          [] s = "record"   -> TRUE
          [] s = "delete"   -> left({"pull", "guard", "upload", "record"})
          [] s = "conflict" -> left({"pull", "guard", "upload", "record", "delete"})
          [] s = "again"    -> left({"pull", "guard", "upload", "record", "delete", "conflict"})

At(m, s, f) == cmd[m] # "idle" /\ f \in todo[m][s] /\ Reached(m, s)

\* f leaves stage s; it enters stage t.
Drop(m, s, f)    == todo' = [todo EXCEPT ![m] = [todo[m] EXCEPT ![s] = @ \ {f}]]
Move(m, s, t, f) == todo' = [todo EXCEPT ![m] = [todo[m] EXCEPT ![s] = @ \ {f},
                                                               ![t] = @ \cup {f}]]

\* Faulty variant: no backend tolerates a missing object.
RaisesAlways(call, f) == remote[f] = NoFile

\* The backend raises because the object of f does not exist (any more).
Raises(call, f) == call \in MissingRaises /\ remote[f] = NoFile

\* A failure that the state forces costs nothing; any other is counted.
Fault(forced) == \/ forced /\ UNCHANGED faults
                 \/ ~forced /\ faults < MaxFaults /\ faults' = faults + 1

\* The command ends.  When the process dies, or an exception leaves the command,
\* nothing is saved.
Stop(m) ==
    /\ cmd'   = [cmd EXCEPT ![m] = "idle"]
    /\ mem'   = [mem EXCEPT ![m] = NoEntries]
    /\ plan'  = [plan EXCEPT ![m] = Nothing]
    /\ todo'  = [todo EXCEPT ![m] = NoTodo]
    /\ shown' = [shown EXCEPT ![m] = Nothing]
    /\ taken' = [taken EXCEPT ![m] = {}]

Abandon(m) ==
    /\ Stop(m)
    /\ lost' = [lost EXCEPT ![m] = @ \cup taken[m]]
    /\ UNCHANGED <<disk, published>>

Crash(m) ==
    /\ cmd[m] # "idle"
    /\ Abandon(m)
    /\ Fault(FALSE)
    /\ UNCHANGED <<userVars, remote>>

\* Fan-out to the mirrors: some of them may stay behind.
FanOut(late) == \/ ~late /\ UNCHANGED faults
                \/ late /\ Mirrored /\ Fault(FALSE)

Remember(m, f, e) == mem' = [mem EXCEPT ![m][f] = e]

Take(m, f) == taken' = [taken EXCEPT ![m] = @ \cup {f}]

-----------------------------------------------------------------------------
(* Pull phase.                                                             *)

\* SyncEngine._pull_file: the bytes are those of now, the remote hash that
\* is recorded is the one of the snapshot.
PullFile(m, f) ==
    /\ At(m, "pull", f)
    /\ remote[f] # NoFile
    /\ local' = [local EXCEPT ![m][f] = remote[f]]
    /\ Remember(m, f, [synced |-> remote[f], remote |-> plan[m][f].drive,
                       pending |-> Mirrored])
    /\ Take(m, f)
    /\ Drop(m, "pull", f)
    /\ UNCHANGED <<used, remote, disk, cmd, plan, shown, published, lost, faults>>

PullFail(m, f) ==
    /\ At(m, "pull", f)
    /\ Fault(remote[f] = NoFile)
    /\ Drop(m, "pull", f)
    /\ UNCHANGED <<userVars, remote, disk, mem, cmd, plan, shown, ghosts>>

-----------------------------------------------------------------------------
(* Guard phase: SyncEngine._guard_check trusts the hash of the snapshot and *)
(* asks the backend only when the snapshot has none.                        *)

GuardHash(m, f) == IF plan[m][f].drive # NoFile THEN plan[m][f].drive ELSE remote[f]

\* Faulty variant: a file that is retried for a mirror is not guarded.
ClashesUnlessPending(m, f) ==
    /\ mem[m][f] # NoEntry /\ ~mem[m][f].pending
    /\ GuardHash(m, f) \notin {NoFile, mem[m][f].remote}

Clashes(m, f) ==
    /\ mem[m][f] # NoEntry
    /\ GuardHash(m, f) \notin {NoFile, mem[m][f].remote}

\* The backend has to be asked.
Asks(m, f) == mem[m][f] # NoEntry /\ plan[m][f].drive = NoFile

Guard(m, f) ==
    /\ At(m, "guard", f)
    /\ ~(Asks(m, f) /\ Raises("hash", f))
    /\ \/ /\ Clashes(m, f)
          /\ plan' = [plan EXCEPT ![m][f].status = "conflict",
                                  ![m][f].drive = GuardHash(m, f)]
          /\ Move(m, "guard", "again", f)
       \/ /\ ~Clashes(m, f)
          /\ Move(m, "guard", "upload", f)
          /\ UNCHANGED plan
    /\ UNCHANGED <<userVars, remote, disk, mem, cmd, shown, ghosts, faults>>

\* The backend cannot be asked: the file is treated as a conflict.
GuardFail(m, f) ==
    /\ At(m, "guard", f)
    /\ Asks(m, f)
    /\ Fault(Raises("hash", f))
    /\ Move(m, "guard", "again", f)
    /\ UNCHANGED <<userVars, remote, disk, mem, cmd, plan, shown, ghosts>>

-----------------------------------------------------------------------------
(* Push of one file, SyncEngine._push_file, in the upload phase or at the   *)
(* end of a conflict: the bytes of now are uploaded, then the primary is    *)
(* asked for its hash, and the manifest records that hash next to the local *)
(* hash of the snapshot.  An exception costs the upload phase one file, but *)
(* ends the whole command when a conflict is being resolved.                *)

Upload(m, f) ==
    /\ At(m, "upload", f)
    /\ local[m][f] # NoFile
    /\ remote' = [remote EXCEPT ![f] = local[m][f]]
    /\ published' = published \cup {local[m][f]}
    /\ Move(m, "upload", "record", f)
    /\ UNCHANGED <<userVars, disk, mem, cmd, plan, shown, taken, lost, faults>>

\* Faulty variants: the working copy is hashed again after the upload; the
\* hash the backend returns is trusted to be there.
RecordedRehashed(m, f, late) ==
    [synced  |-> IF local[m][f] = NoFile THEN plan[m][f].local ELSE local[m][f],
     remote  |-> IF remote[f] = NoFile THEN plan[m][f].local ELSE remote[f],
     pending |-> late]
RecordedUnchecked(m, f, late) ==
    [synced |-> plan[m][f].local, remote |-> remote[f], pending |-> late]

\* The manifest entry after a push.
Recorded(m, f, late) ==
    [synced  |-> plan[m][f].local,
     remote  |-> IF remote[f] = NoFile THEN plan[m][f].local ELSE remote[f],
     pending |-> late]

Record(m, f, late) ==
    /\ At(m, "record", f)
    /\ plan[m][f].local # NoFile /\ ~Raises("hash", f)
    /\ Remember(m, f, Recorded(m, f, late))
    /\ FanOut(late)
    /\ Drop(m, "record", f)
    /\ shown' = [shown EXCEPT ![m][f] = None]
    /\ UNCHANGED <<userVars, remote, disk, cmd, plan, ghosts>>

\* The push of f raises in stage s.
PushFails(m, f, s) ==
    /\ \/ /\ shown[m][f] = None
          /\ Drop(m, s, f)
          /\ UNCHANGED <<disk, mem, cmd, plan, shown, ghosts>>
       \/ shown[m][f] # None /\ Abandon(m)
    /\ UNCHANGED <<userVars, remote>>

UploadFail(m, f) ==
    /\ At(m, "upload", f)
    /\ Fault(local[m][f] = NoFile)
    /\ PushFails(m, f, "upload")

RecordFail(m, f) ==
    /\ At(m, "record", f)
    /\ Fault(plan[m][f].local = NoFile \/ Raises("hash", f))
    /\ PushFails(m, f, "record")

-----------------------------------------------------------------------------
(* Delete phase: SyncEngine._delete_drive_file.                            *)

DeleteRemote(m, f) ==
    /\ At(m, "delete", f)
    /\ ~Raises("delete", f)
    /\ remote' = [remote EXCEPT ![f] = NoFile]
    /\ Remember(m, f, NoEntry)
    /\ Drop(m, "delete", f)
    /\ UNCHANGED <<userVars, disk, cmd, plan, shown, ghosts, faults>>

DeleteFail(m, f) ==
    /\ At(m, "delete", f)
    /\ Fault(Raises("delete", f))
    /\ Drop(m, "delete", f)
    /\ UNCHANGED <<userVars, remote, disk, mem, cmd, plan, shown, ghosts>>

-----------------------------------------------------------------------------
(* Conflict phase: SyncEngine._resolve_conflict, one file at a time.       *)

InConflict(m, s, f) == s \in {"conflict", "again"} /\ At(m, s, f)

ShowConflict(m, s, f) ==
    /\ InConflict(m, s, f)
    /\ \A g \in File : shown[m][g] = None
    /\ NoFile \notin {local[m][f], remote[f]}
    /\ shown' = [shown EXCEPT ![m][f] = [local |-> local[m][f], drive |-> remote[f]]]
    /\ UNCHANGED <<userVars, remote, disk, mem, cmd, plan, todo, ghosts, faults>>

\* One side cannot be read: the exception leaves the command.
ConflictUnreadable(m, s, f) ==
    /\ InConflict(m, s, f)
    /\ \A g \in File : shown[m][g] = None
    /\ Fault(NoFile \in {local[m][f], remote[f]})
    /\ Abandon(m)
    /\ UNCHANGED <<userVars, remote>>

AnswerSkip(m, s, f) ==
    /\ "skip" \in Answers[m]
    /\ InConflict(m, s, f) /\ shown[m][f] # None
    /\ shown' = [shown EXCEPT ![m][f] = None]
    /\ Drop(m, s, f)
    /\ UNCHANGED <<userVars, remote, disk, mem, cmd, plan, ghosts, faults>>

\* The remote wins: its text is written and recorded, nothing is uploaded.  The
\* hash recorded for the remote is that of the snapshot, which is out of date
\* when this is the second answer about the file and the first has replaced it.
AnswerDrive(m, s, f, late) ==
    LET kept == Text(shown[m][f].drive)
    IN  /\ "drive" \in Answers[m]
        /\ InConflict(m, s, f) /\ shown[m][f] # None
        /\ local' = [local EXCEPT ![m][f] = kept]
        /\ used' = used \cup {kept}
        /\ Remember(m, f,
              [synced  |-> kept,
               remote  |-> IF plan[m][f].drive # NoFile THEN plan[m][f].drive ELSE kept,
               pending |-> late])
        /\ FanOut(late)
        /\ shown' = [shown EXCEPT ![m][f] = None]
        /\ Take(m, f)
        /\ lost' = IF plan[m][f].drive \in {NoFile, shown[m][f].drive} THEN lost
                   ELSE [lost EXCEPT ![m] = @ \cup {f}]
        /\ Drop(m, s, f)
        /\ UNCHANGED <<remote, disk, cmd, plan, published>>

\* What the working copy gets when the local side or the editor's text wins.
Resolved(m, f) ==
    (IF "local" \in Answers[m] THEN {Text(shown[m][f].local)} ELSE {})
      \cup (IF "merged" \in Answers[m]
            THEN {c \in Content \ Binary : FreshEdits => c \notin used} ELSE {})

AnswerPush(m, s, f, c) ==
    /\ InConflict(m, s, f) /\ shown[m][f] # None
    /\ c \in Resolved(m, f)
    /\ local' = [local EXCEPT ![m][f] = c]
    /\ used' = used \cup {c}
    /\ plan' = [plan EXCEPT ![m][f].local = c]
    /\ Move(m, s, "upload", f)
    /\ UNCHANGED <<remote, disk, mem, cmd, shown, ghosts, faults>>

-----------------------------------------------------------------------------
(* Manifest.save at the end of the command.                                *)

\* The entry has two contents for the two sides.
Torn(e) == e # NoEntry /\ e.synced # e.remote

Save(m) ==
    /\ cmd[m] # "idle"
    /\ \A s \in Stages : todo[m][s] = {}
    /\ disk' = [disk EXCEPT ![m] = mem[m]]
    /\ Stop(m)
    /\ lost' = [lost EXCEPT ![m] = {f \in @ : Torn(mem[m][f])}]
    /\ UNCHANGED <<userVars, remote, published, faults>>

-----------------------------------------------------------------------------
Init ==
    /\ local = [m \in Machine |-> [f \in File |-> NoFile]]
    /\ remote = [f \in File |-> NoFile]
    /\ disk = [m \in Machine |-> NoEntries]
    /\ mem = [m \in Machine |-> NoEntries]
    /\ cmd = [m \in Machine |-> "idle"]
    /\ plan = [m \in Machine |-> Nothing]
    /\ todo = [m \in Machine |-> NoTodo]
    /\ shown = [m \in Machine |-> Nothing]
    /\ used = {}
    /\ published = {}
    /\ taken = [m \in Machine |-> {}] /\ lost = [m \in Machine |-> {}]
    /\ faults = 0

UserStep(m) ==
    \E f \in File : Remove(m, f) \/ \E c \in Content : Edit(m, f, c)

StartStep(m) == \E k \in Commands, scope \in (SUBSET File) \ {{}} : Start(m, k, scope)

ConflictStep(m, s, f) ==
    \/ ShowConflict(m, s, f)
    \/ AnswerSkip(m, s, f)
    \/ \E late \in BOOLEAN : AnswerDrive(m, s, f, late)
    \/ \E c \in Content : AnswerPush(m, s, f, c)

\* The steps the running command of machine m takes by itself.
WorkStep(m) ==
    \/ \E f \in File :
          \/ PullFile(m, f)
          \/ Guard(m, f)
          \/ Upload(m, f)
          \/ \E late \in BOOLEAN : Record(m, f, late)
          \/ DeleteRemote(m, f)
          \/ \E s \in {"conflict", "again"} : ConflictStep(m, s, f)
    \/ Save(m)

FaultStep(m) ==
    \/ \E f \in File :
          \/ PullFail(m, f)
          \/ GuardFail(m, f)
          \/ UploadFail(m, f)
          \/ RecordFail(m, f)
          \/ DeleteFail(m, f)
          \/ \E s \in {"conflict", "again"} : ConflictUnreadable(m, s, f)
    \/ Crash(m)

Next == \E m \in Machine : UserStep(m) \/ StartStep(m) \/ WorkStep(m) \/ FaultStep(m)

Spec == Init /\ [][Next]_vars

\* Every machine runs sync again and again (the documented cron set-up), and a
\* running command makes progress.  Users and faults owe nothing.
FairSpec ==
    /\ Spec
    /\ \A m \in Machine : SF_vars(Start(m, "sync", File))
                          /\ WF_vars(WorkStep(m) \/ FaultStep(m))

-----------------------------------------------------------------------------
TypeOK ==
    /\ local \in [Machine -> [File -> Hash]]
    /\ remote \in [File -> Hash]
    /\ disk \in [Machine -> [File -> Entry \cup {NoEntry}]]
    /\ mem \in [Machine -> [File -> Entry \cup {NoEntry}]]
    /\ cmd \in [Machine -> Commands \cup {"idle"}]
    /\ plan \in [Machine -> [File -> Plan \cup {None}]]
    /\ todo \in [Machine -> [Stages -> SUBSET File]]
    /\ shown \in [Machine -> [File -> Shown \cup {None}]]
    /\ used \subseteq Content
    /\ published \subseteq Content
    /\ taken \in [Machine -> SUBSET File] /\ lost \in [Machine -> SUBSET File]
    /\ faults \in 0..MaxFaults

\* While no command runs, a file that status reports as in sync has the same
\* content on this machine and on the primary.  (status: "in sync" means
\* neither side changed since the last sync.)  The manifest keeps one hash per
\* side, taken at different moments, so this is what a torn pair would break.
InSyncAgrees ==
    (\A n \in Machine : cmd[n] = "idle") =>
        \A m \in Machine : \A f \in File \ lost[m] :
            (/\ NoFile \notin {local[m][f], remote[f]}
             /\ Classify(local[m][f], remote[f], disk[m][f]) = "in_sync")
            => local[m][f] = remote[f]

\* An upload replaces on the primary only the version this machine last
\* synchronised, or the one its user was just shown.  push --force-local is
\* the documented exception.  (README: "No silent overwrites".)
NoSilentOverwrite ==
    [][\A m \in Machine, f \in File :
          Upload(m, f) /\ cmd[m] # "force" =>
              \/ remote[f] \in {NoFile, local[m][f]}
              \/ mem[m][f] # NoEntry /\ remote[f] = mem[m][f].remote
              \/ shown[m][f] # None /\ remote[f] = shown[m][f].drive]_vars

\* The weaker promise that survives overlapping commands: a version that the
\* command's own snapshot of the remote shows to be foreign is replaced only
\* after the user was shown a remote version.
GuardedOverwrite ==
    [][\A m \in Machine, f \in File :
          Upload(m, f) /\ cmd[m] # "force" =>
              \/ plan[m][f].drive = NoFile
              \/ mem[m][f] # NoEntry /\ plan[m][f].drive = mem[m][f].remote
              \/ shown[m][f] # None]_vars

\* A pull never destroys work that exists nowhere else: what it replaces in the
\* working copy was at some time on the primary, unless it was written after
\* the command took its snapshot.
PullSparesEdits ==
    [][\A m \in Machine, f \in File :
          PullFile(m, f) => \/ local[m][f] \in published \cup {NoFile}
                            \/ local[m][f] # plan[m][f].local]_vars

\* Machines that keep syncing end up with the primary's content, in every file
\* that both sides still have.
Converged ==
    \A m \in Machine, f \in File :
        NoFile \in {local[m][f], remote[f]} \/ local[m][f] = remote[f]
Convergence == <>[]Converged

\* A file deleted on both sides does not stay in a manifest for ever.
GoneIsForgotten ==
    \A m \in Machine, f \in File :
        (disk[m][f] # NoEntry /\ local[m][f] = NoFile /\ remote[f] = NoFile)
        ~> (disk[m][f] = NoEntry \/ local[m][f] # NoFile \/ remote[f] # NoFile)

=============================================================================
