---------------------------- MODULE MirrorFanout ----------------------------
(***************************************************************************)
(* Write replicas (Tier 2): one machine whose pushes go to a primary and    *)
(* then to every mirror backend.  The manifest keeps, for every file and    *)
(* mirror, whether the mirror has the file (ok), has to be tried again      *)
(* (pending_retry) or needs the user (failed_perm).                         *)
(*                                                                          *)
(* The commands are sync, push, pull, retry and seed-mirror.  A mirror      *)
(* upload may succeed, fail transiently or fail permanently, independently  *)
(* of every other; the process may be killed; mirrors are added to and      *)
(* removed from the configuration; another machine publishes versions of    *)
(* its own while no command runs here.                                      *)
(*                                                                          *)
(* Abstractions.  What overlapping commands do to the primary is in         *)
(* SyncEngine; here the primary stands still while a command runs, so that  *)
(* a guard finds what the snapshot found, and an upload, the hash read back *)
(* and the manifest update are one step.  Files are numbers in the order of *)
(* their paths.  Attempts are counted up to MaxAttempts: larger counts have *)
(* the same effect.                                                         *)
(***************************************************************************)
EXTENDS Naturals, FiniteSets, FileStatus

CONSTANTS
    File,        \* the paths in scope, numbered in their order
    Mirror,      \* the mirror backends that may be configured
    Content,     \* the contents (hashes) a file can have
    Unseen,      \* no recorded state of a file on a mirror
    NoTarget,    \* the command is not about one mirror
    MaxAttempts, \* PENDING_MAX_ATTEMPTS
    QueueCap,    \* PENDING_RETRY_QUEUE_CAP
    MaxCrashes,  \* bound on killed commands
    MaxConfigs   \* bound on changes of the mirror configuration

ASSUME BoundAssumption ==
    /\ File \subseteq Nat
    /\ MaxAttempts \in Nat \ {0}
    /\ QueueCap \in Nat \ {0}
    /\ MaxCrashes \in Nat
    /\ MaxConfigs \in Nat

ASSUME NoFileAssumption == NoFile \notin Content

Hash == Content \cup {NoFile}

\* manifest.RemoteState; known: it carries the mirror's file id.
RemoteFields == [state : {"ok", "pending_retry", "failed_perm"}, known : BOOLEAN,
                 intended : Hash, attempts : 0..MaxAttempts]

\* Those that occur: an attempt is counted, and the last one is not pending.
RemoteState ==
    {r \in RemoteFields :
        /\ r.state = "ok" => r.attempts = 0 /\ r.known
        /\ r.state = "pending_retry" => r.attempts \in 1..(MaxAttempts - 1)
        /\ r.state = "failed_perm" => r.attempts > 0}

\* manifest.FileState; on: its remotes map.
Entry == [synced : Content, remote : Content, on : [Mirror -> RemoteState \cup {Unseen}]]

ASSUME NullAssumption ==
    Unseen \notin RemoteState /\ NoEntry \notin Entry /\ NoTarget \notin Mirror

VARIABLES
    local,     \* local[f]: content in the working copy
    primary,   \* primary[f]: content on the primary
    store,     \* store[b][f]: content on mirror b
    active,    \* mirrors in mirror_config_paths
    disk,      \* disk[f]: manifest entry that is saved
    mem,       \* mem[f]: manifest entry in the running command's memory
    cmd,       \* the running command, or "idle"
    hash,      \* hash[f]: the local hash the command goes by
    seen,      \* seen[f]: the snapshot's hash of the primary's f, once it is replaced
    todo,      \* todo[s]: files the command still has to handle in stage s
    fan,       \* (file, mirror) pairs the command still has to upload
    used,      \* history: contents that have existed
    crashes,   \* killed commands so far
    configs,   \* changes of the configuration so far
    kept,      \* history: files whose local side this command made win a conflict
    lost       \* history: those of commands that ended without saving

world   == <<local, primary, store, used>>
command == <<mem, cmd, hash, seen, todo, fan>>
ghosts  == <<crashes, configs, kept, lost>>
vars    == <<world, active, disk, command, ghosts>>

Stages    == {"pull", "upload", "delete", "conflict", "again"}
NoTodo    == [s \in Stages |-> {}]
NoEntries == [f \in File |-> NoEntry]
Unseeded  == [b \in Mirror |-> Unseen]

-----------------------------------------------------------------------------
(* The manifest's book-keeping, Manifest.update and update_remote.          *)

\* Faulty variant: the budget is fresh every time.
TriesForgotten(old, state, intended) == IF state = "ok" THEN 0 ELSE 1

\* The attempts made so far to bring the intended content to the mirror.
Tries(old, state, intended) ==
    CASE state = "ok"                                            -> 0
      [] state # "ok" /\ (old = Unseen \/ intended # old.intended) -> 1
      [] OTHER -> IF old.attempts < MaxAttempts THEN old.attempts + 1 ELSE MaxAttempts

\* Faulty variant: one attempt too many before giving up.
UpdateRemoteLate(old, state, intended) ==
    LET tries == Tries(old, state, intended)
    IN  [state    |-> IF state = "pending_retry" /\ tries > MaxAttempts
                      THEN "failed_perm" ELSE state,
         known    |-> state = "ok" \/ (old # Unseen /\ old.known),
         intended |-> intended,
         attempts |-> tries]

UpdateRemote(old, state, intended) ==
    LET tries == Tries(old, state, intended)
    IN  [state    |-> IF state = "pending_retry" /\ tries >= MaxAttempts
                      THEN "failed_perm" ELSE state,
         known    |-> state = "ok" \/ (old # Unseen /\ old.known),
         intended |-> intended,
         attempts |-> tries]

\* update(): a new entry keeps what is known of the mirrors.
OnMirrors(e) == IF e = NoEntry THEN Unseeded ELSE e.on
Synced(e, here, there) == [synced |-> here, remote |-> there, on |-> OnMirrors(e)]

\* Faulty variant: what is recorded of a mirror outlives its configuration.
Unpruned(e) == e

\* prune_unknown_backends, when an engine is loaded.
Pruned(e) ==
    IF e = NoEntry THEN NoEntry
    ELSE [e EXCEPT !.on = [b \in Mirror |-> IF b \in active THEN e.on[b] ELSE Unseen]]

In(e, b, state) == e # NoEntry /\ e.on[b] # Unseen /\ e.on[b].state = state

\* pending_for_backend, unseeded_for_backend
PendingOn(b)  == {f \in File : In(disk[f], b, "pending_retry")}
UnseededOn(b) == {f \in File : disk[f] # NoEntry /\ disk[f].on[b] = Unseen}

\* SyncEngine._retry_pending_for_mirrors: the first QueueCap paths.
PendingFiles ==
    LET all == UNION {PendingOn(b) : b \in active}
    IN  {f \in all : Cardinality({g \in all : g < f}) < QueueCap}

-----------------------------------------------------------------------------
(* The world around the machine.                                            *)

Edit(f, c) ==
    /\ c \notin used
    /\ local' = [local EXCEPT ![f] = c]
    /\ used' = used \cup {c}
    /\ UNCHANGED <<primary, store, active, disk, command, ghosts>>

Remove(f) ==
    /\ local[f] # NoFile
    /\ local' = [local EXCEPT ![f] = NoFile]
    /\ UNCHANGED <<primary, store, used, active, disk, command, ghosts>>

\* Another machine pushes; its mirrors, B of them in time, may be the same.
OtherPush(f, c, B) ==
    /\ cmd = "idle"
    /\ c \notin used
    /\ primary' = [primary EXCEPT ![f] = c]
    /\ store' = [b \in Mirror |-> IF b \in B THEN [store[b] EXCEPT ![f] = c] ELSE store[b]]
    /\ used' = used \cup {c}
    /\ UNCHANGED <<local, active, disk, command, ghosts>>

\* The user edits mirror_config_paths.
Configure(b) ==
    /\ cmd = "idle"
    /\ configs < MaxConfigs
    /\ active' = IF b \in active THEN active \ {b} ELSE active \cup {b}
    /\ configs' = configs + 1
    /\ UNCHANGED <<world, disk, command, crashes, kept, lost>>

-----------------------------------------------------------------------------
(* Starting a command: _load_engine prunes, get_status classifies.          *)

Having(S) ==
    {f \in File : /\ Tracked(local[f], primary[f], disk[f])
                  /\ Classify(local[f], primary[f], disk[f]) \in S}

Ahead  == Having({"local_ahead", "new_local"})
Behind == Having({"drive_ahead", "new_drive"})
Split  == Having({"conflict"})
Gone   == Having({"deleted_local"})

\* A file pending on a mirror is pushed although it is unchanged.  The guard
\* finds a conflict if the remote moved on, unless sync has pulled it first; what
\* sync takes for a conflict anyway comes up again.  A deleted file cannot be
\* uploaded, whatever is pending.
InitialTodo(k) ==
    CASE k = "sync" -> [pull |-> Behind, upload |-> (Ahead \cup PendingFiles) \ (Split \cup Gone),
                        delete |-> Gone, conflict |-> Split, again |-> PendingFiles \cap Split]
      [] k = "push" -> [pull |-> {}, delete |-> Gone,
                        upload |-> (Ahead \cup PendingFiles) \ (Split \cup Behind \cup Gone),
                        conflict |-> Split, again |-> PendingFiles \cap Behind]
      [] k = "pull" -> [NoTodo EXCEPT !.pull = Behind]

Begin(k) ==
    /\ cmd = "idle"
    /\ cmd' = k
    /\ mem' = [f \in File |-> Pruned(disk[f])]
    /\ hash' = local
    /\ UNCHANGED <<world, active, disk, seen, ghosts>>

StartSync(k) ==
    /\ k \in {"sync", "push", "pull"}
    /\ Begin(k)
    /\ todo' = InitialTodo(k)
    /\ UNCHANGED fan

\* retry_mirrors, for one mirror or for all.
StartRetry(target) ==
    /\ target # NoTarget => target \in active
    /\ Begin("retry")
    /\ fan' = {p \in File \X active : /\ p[1] \in PendingOn(p[2])
                                      /\ target \in {NoTarget, p[2]}}
    /\ UNCHANGED todo

\* seed_mirror: files that drifted from the manifest are left out.
StartSeed(b) ==
    /\ b \in active
    /\ Begin("seed")
    /\ fan' = {<<f, b>> : f \in {g \in UnseededOn(b) : local[g] = disk[g].synced}}
    /\ UNCHANGED todo

-----------------------------------------------------------------------------
(* The primary side of a command.  A stage starts when the earlier ones are *)
(* through; an upload is followed by the fan-out of its file.               *)

Stop ==
    /\ cmd' = "idle"
    /\ mem' = NoEntries
    /\ hash' = [f \in File |-> NoFile] /\ seen' = [f \in File |-> NoFile]
    /\ todo' = NoTodo
    /\ fan' = {}
    /\ kept' = {}

\* Nothing is saved.
Abandon == Stop /\ lost' = lost \cup kept

\* The process is killed, or an exception leaves the command.
Crash ==
    /\ cmd # "idle"
    /\ crashes < MaxCrashes
    /\ crashes' = crashes + 1
    /\ Abandon
    /\ UNCHANGED <<world, active, disk, configs>>

Reached(s) ==
    LET left(S) == \A t \in S : todo[t] = {}
    IN  CASE s = "pull"     -> TRUE
          [] s = "upload"   -> left({"pull"})
          [] s = "delete"   -> left({"pull", "upload"}) /\ fan = {}
          [] s = "conflict" -> left({"pull", "upload", "delete"}) /\ fan = {}
          [] s = "again"    -> left({"pull", "upload", "delete", "conflict"}) /\ fan = {}

At(s, f) == cmd # "idle" /\ f \in todo[s] /\ Reached(s)

Drop(s, f) == todo' = [todo EXCEPT ![s] = @ \ {f}]

FanOut(f) == fan' = fan \cup ({f} \X active)

\* Faulty variant: the mirrors are taken to have the pulled content.
PullUnmarked(f) ==
    /\ At("pull", f)
    /\ local' = [local EXCEPT ![f] = primary[f]]
    /\ mem' = [mem EXCEPT ![f] = Synced(mem[f], primary[f], primary[f])]
    /\ Drop("pull", f)
    /\ UNCHANGED <<primary, store, used, active, disk, cmd, hash, seen, fan, ghosts>>

\* _pull_file: every mirror has to catch up.  A sync that goes on to push the
\* file still goes by the hash from before the pull.
Pull(f) ==
    LET fresh == Synced(mem[f], primary[f], primary[f])
    IN  /\ At("pull", f)
        /\ local' = [local EXCEPT ![f] = primary[f]]
        /\ mem' = [mem EXCEPT ![f] =
              [fresh EXCEPT !.on = [b \in Mirror |->
                  IF b \in active THEN UpdateRemote(fresh.on[b], "pending_retry", primary[f])
                  ELSE fresh.on[b]]]]
        /\ Drop("pull", f)
        /\ UNCHANGED <<primary, store, used, active, disk, cmd, hash, seen, fan, ghosts>>

\* _push_file up to the fan-out; the bytes are those of now, the manifest gets
\* the hash the command goes by.
Upload(f) ==
    /\ At("upload", f)
    /\ local[f] # NoFile
    /\ primary' = [primary EXCEPT ![f] = local[f]]
    /\ mem' = [mem EXCEPT ![f] = Synced(mem[f], hash[f], local[f])]
    /\ Drop("upload", f)
    /\ FanOut(f)
    /\ UNCHANGED <<local, store, used, active, disk, cmd, hash, seen, ghosts>>

\* Faulty variant: what could not be pulled is pushed without a guard.
FailUnguarded(s, f) ==
    /\ s \in {"pull", "upload", "delete"}
    /\ At(s, f)
    /\ Drop(s, f)
    /\ UNCHANGED <<world, active, disk, mem, cmd, hash, seen, fan, ghosts>>

\* A transfer to or from the primary fails: the file is left for another day.
\* The guard of a file that was to be pulled and then pushed for the sake of a
\* mirror finds the primary changed still: a conflict.
PrimaryFail(s, f) ==
    /\ s \in {"pull", "upload", "delete"}
    /\ At(s, f)
    /\ IF s = "pull" /\ f \in todo["upload"]
       THEN todo' = [todo EXCEPT !["pull"] = @ \ {f}, !["upload"] = @ \ {f},
                                 !["again"] = @ \cup {f}]
       ELSE Drop(s, f)
    /\ UNCHANGED <<world, active, disk, mem, cmd, hash, seen, fan, ghosts>>

\* _delete_drive_file: the primary, then those mirrors known to have the file;
\* D of them work.  The entry goes in any case.
Delete(f, D) ==
    /\ At("delete", f)
    /\ primary' = [primary EXCEPT ![f] = NoFile]
    /\ store' = [b \in Mirror |->
          IF b \in D \cap active /\ mem[f] # NoEntry /\ mem[f].on[b] # Unseen /\ mem[f].on[b].known
          THEN [store[b] EXCEPT ![f] = NoFile] ELSE store[b]]
    /\ mem' = [mem EXCEPT ![f] = NoEntry]
    /\ Drop("delete", f)
    /\ UNCHANGED <<local, used, active, disk, cmd, hash, seen, fan, ghosts>>

\* _resolve_conflict raises when the local file is gone, and asks otherwise: the
\* file is skipped, the remote side wins and is fanned out, or the local side
\* wins and is pushed.
InConflict(s, f) == s \in {"conflict", "again"} /\ At(s, f)

Unreadable(s, f) ==
    /\ InConflict(s, f)
    /\ local[f] = NoFile
    /\ Abandon
    /\ UNCHANGED <<world, active, disk, crashes, configs>>

Skip(s, f) ==
    /\ InConflict(s, f)
    /\ local[f] # NoFile
    /\ Drop(s, f)
    /\ UNCHANGED <<world, active, disk, mem, cmd, hash, seen, fan, ghosts>>

\* When this is the second answer about the file, the hash that the snapshot saw
\* may be the one that the first answer has replaced.
KeepRemote(s, f) ==
    /\ InConflict(s, f)
    /\ local[f] # NoFile
    /\ local' = [local EXCEPT ![f] = primary[f]]
    /\ hash' = [hash EXCEPT ![f] = primary[f]]
    /\ mem' = [mem EXCEPT ![f] = Synced(mem[f], primary[f],
                                        IF seen[f] # NoFile THEN seen[f] ELSE primary[f])]
    /\ Drop(s, f)
    /\ FanOut(f)
    /\ UNCHANGED <<primary, store, used, active, disk, cmd, seen, ghosts>>

KeepLocal(s, f) ==
    /\ InConflict(s, f)
    /\ local[f] # NoFile
    /\ primary' = [primary EXCEPT ![f] = local[f]]
    /\ hash' = [hash EXCEPT ![f] = local[f]]
    /\ seen' = IF s = "conflict" THEN [seen EXCEPT ![f] = primary[f]] ELSE seen
    /\ mem' = [mem EXCEPT ![f] = Synced(mem[f], local[f], local[f])]
    /\ Drop(s, f)
    /\ FanOut(f)
    /\ kept' = kept \cup {f}
    /\ UNCHANGED <<local, store, used, active, disk, cmd, crashes, configs, lost>>

-----------------------------------------------------------------------------
(* The mirror side: one upload per pair, in any order.                      *)

Settle(f, b, r) ==
    /\ mem' = [mem EXCEPT ![f].on[b] = r]
    /\ fan' = fan \ {<<f, b>>}

MirrorUpload(f, b) ==
    /\ <<f, b>> \in fan
    /\ local[f] # NoFile
    /\ store' = [store EXCEPT ![b][f] = local[f]]
    /\ Settle(f, b, UpdateRemote(mem[f].on[b], "ok", NoFile))
    /\ UNCHANGED <<local, primary, used, active, disk, cmd, hash, seen, todo, ghosts>>

\* The hash a failure is recorded against; retry hashes the file anew.
Intended(f) == IF cmd = "retry" THEN local[f] ELSE hash[f]

MirrorFail(f, b, state) ==
    /\ <<f, b>> \in fan
    /\ cmd # "seed"
    /\ Intended(f) # NoFile
    /\ Settle(f, b, UpdateRemote(mem[f].on[b], state, Intended(f)))
    /\ UNCHANGED <<world, active, disk, cmd, hash, seen, todo, ghosts>>

\* A failed seed upload is only counted, and retry passes over a missing file.
GiveUp(f, b) ==
    /\ <<f, b>> \in fan
    /\ cmd = "seed" \/ Intended(f) = NoFile
    /\ fan' = fan \ {<<f, b>>}
    /\ UNCHANGED <<world, active, disk, mem, cmd, hash, seen, todo, ghosts>>

\* Manifest.save, at the end of every command.
Save ==
    /\ cmd # "idle"
    /\ fan = {} /\ todo = NoTodo
    /\ disk' = mem
    /\ Stop
    /\ UNCHANGED <<world, active, crashes, configs, lost>>

-----------------------------------------------------------------------------
Init ==
    /\ local = [f \in File |-> NoFile]
    /\ primary = [f \in File |-> NoFile]
    /\ store = [b \in Mirror |-> [f \in File |-> NoFile]]
    /\ active \in SUBSET Mirror
    /\ disk = NoEntries
    /\ mem = NoEntries
    /\ cmd = "idle"
    /\ hash = [f \in File |-> NoFile] /\ seen = [f \in File |-> NoFile]
    /\ todo = NoTodo
    /\ fan = {}
    /\ used = {}
    /\ crashes = 0
    /\ configs = 0
    /\ kept = {} /\ lost = {}

UserStep ==
    \/ \E f \in File : Remove(f) \/ \E c \in Content : Edit(f, c)
    \/ \E f \in File, c \in Content, B \in SUBSET Mirror : OtherPush(f, c, B)
    \/ \E b \in Mirror : Configure(b)

StartStep ==
    \/ \E k \in {"sync", "push", "pull"} : StartSync(k)
    \/ \E target \in Mirror \cup {NoTarget} : StartRetry(target)
    \/ \E b \in Mirror : StartSeed(b)

PrimaryStep(f) ==
    \/ Pull(f)
    \/ Upload(f)
    \/ \E D \in SUBSET Mirror : Delete(f, D)
    \/ \E s \in Stages : PrimaryFail(s, f)
    \/ \E s \in {"conflict", "again"} :
          Unreadable(s, f) \/ Skip(s, f) \/ KeepRemote(s, f) \/ KeepLocal(s, f)

MirrorStep(f, b) ==
    \/ MirrorUpload(f, b)
    \/ \E state \in {"pending_retry", "failed_perm"} : MirrorFail(f, b, state)
    \/ GiveUp(f, b)

WorkStep ==
    \/ \E f \in File : PrimaryStep(f) \/ \E b \in Mirror : MirrorStep(f, b)
    \/ Save

Next == UserStep \/ StartStep \/ WorkStep \/ Crash

Spec == Init /\ [][Next]_vars

\* The user keeps pushing, a running command goes on, the primary works now and
\* then, and a conflict is not skipped for ever.  Mirrors owe nothing.
FairSpec ==
    /\ Spec
    /\ SF_vars(StartSync("push"))
    /\ WF_vars(WorkStep)
    /\ \A f \in File :
          /\ SF_vars(Upload(f))
          /\ SF_vars(\E D \in SUBSET Mirror : Delete(f, D))
          /\ SF_vars(\E s \in {"conflict", "again"} : KeepRemote(s, f) \/ KeepLocal(s, f))

-----------------------------------------------------------------------------
TypeOK ==
    /\ local \in [File -> Hash]
    /\ primary \in [File -> Hash]
    /\ store \in [Mirror -> [File -> Hash]]
    /\ active \subseteq Mirror
    /\ disk \in [File -> Entry \cup {NoEntry}]
    /\ mem \in [File -> Entry \cup {NoEntry}]
    /\ cmd \in {"idle", "sync", "push", "pull", "retry", "seed"}
    /\ hash \in [File -> Hash] /\ seen \in [File -> Hash]
    /\ todo \in [Stages -> SUBSET File]
    /\ fan \subseteq File \X Mirror
    /\ used \subseteq Content
    /\ crashes \in 0..MaxCrashes
    /\ configs \in 0..MaxConfigs
    /\ kept \subseteq File /\ lost \subseteq File

\* Between commands, a mirror that the manifest calls ok for a file that is in
\* sync with the primary holds the very content of the working copy, however the
\* uploads, pulls, conflicts, seedings, kills and reconfigurations of the past
\* went.  (The mirror is never listed: this record is all that decides whether it
\* gets the file.)  Only a conflict that was resolved for the local side by a
\* command that then did not get to save voids it: the primary is back at the
\* content the manifest knows, while a mirror has what another machine put there.
OkMeansMirrored ==
    cmd = "idle" =>
        \A f \in File \ lost, b \in active :
            (/\ NoFile \notin {local[f], primary[f]}
             /\ Classify(local[f], primary[f], disk[f]) = "in_sync"
             /\ In(disk[f], b, "ok"))
            => store[b][f] = local[f]

\* A file does not stay in the retry queue for ever, even when its mirror never
\* recovers and the queue is longer than one push takes.
PendingSettles ==
    \A f \in File, b \in Mirror :
        In(disk[f], b, "pending_retry") /\ b \in active
        ~> ~(In(disk[f], b, "pending_retry") /\ b \in active)

=============================================================================
