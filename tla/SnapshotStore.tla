---------------------------- MODULE SnapshotStore ----------------------------
(* The snapshots of one backend (SnapshotManager in snapshots.py): blobs under *)
(* the hash of their content, manifests that name them, folders of plain       *)
(* copies, and the commands that work on them from several machines, one       *)
(* remote call at a time.                                                      *)
(* A content stands for its hash too.                                          *)
EXTENDS Naturals

CONSTANTS
    Worker,             \* processes that run a command
    Path, Content,
    Absent,             \* no file at a path
    None,               \* no blob, no manifest, no folder
    LastStamp,          \* bound: number of snapshots ever begun
    MaxFaults,          \* bound: kills and failing calls
    Faults,             \* the stages of a command that may be hit by one
    Alone,              \* the commands nobody runs next to another one
    Meanwhile           \* what a file may have become when a create comes to read it again

Stamp == 1..LastStamp
Files == [Path -> Content \cup {Absent}]
Empty == [p \in Path |-> Absent]
Folder == [files : Files, meta : BOOLEAN]
Sides == {"manifest", "folder"} \X Stamp

(* What a process is in the middle of: the local variables that outlive a call. *)
Idle == [op |-> "idle"]
Uploading == [op : {"upload"}, stamp : Stamp, files : Files, blobs : SUBSET Content]
Copying == [op : {"copy"}, stamp : Stamp, files : Files, paths : SUBSET Path]
Collecting == [op : {"gc"}, seen : SUBSET Content] \cup [op : {"sweep"}, blobs : SUBSET Content, failed : SUBSET Content]
Forgetting == [op : {"forget"}, sides : SUBSET Sides]
Migrating ==
    [op : {"migrate"}, target : {"blobs", "full"}, pending : SUBSET Stamp, sides : SUBSET Sides]
    \cup [op : {"toBlobs"}, target : {"blobs"}, pending : SUBSET Stamp, stamp : Stamp,
          files : Files, blobs : SUBSET Content]
    \cup [op : {"toFull"}, target : {"full"}, pending : SUBSET Stamp, stamp : Stamp,
          files : Files, paths : SUBSET Path]
    \cup [op : {"drop"}, target : {"blobs", "full"}, pending : SUBSET Stamp, stamp : Stamp]
Job == {Idle} \cup Uploading \cup Copying \cup Collecting \cup Forgetting \cup Migrating

FaultPoints == {"upload", "copy", "gc", "read", "sweep", "forget", "migrate", "toBlobs", "toFull", "drop"}

ASSUME SnapshotStoreAssumption ==
    /\ LastStamp \in Nat /\ MaxFaults \in Nat
    /\ Absent \notin Content /\ None \notin Content
    /\ None \notin Files /\ None \notin Folder
    /\ Faults \subseteq FaultPoints
    /\ Alone \subseteq {"gc", "migrate"}
    /\ Meanwhile \subseteq Content \cup {Absent}

VARIABLES
    blobs,      \* the bytes stored under each name, or None
    manifest,   \* per timestamp the contents it names, or None
    folder,     \* per timestamp the copies and whether the metadata is there, or None
    clock,      \* timestamps given out so far
    job,        \* what each process is in the middle of
    asked,      \* history: the timestamps somebody asked to forget
    faults

vars == <<blobs, manifest, folder, clock, job, asked, faults>>
store == <<blobs, manifest, folder>>

TypeOK ==
    /\ blobs \in [Content -> Content \cup {None}]
    /\ manifest \in [Stamp -> Files \cup {None}]
    /\ folder \in [Stamp -> Folder \cup {None}]
    /\ clock \in 0..LastStamp
    /\ job \in [Worker -> Job]
    /\ asked \subseteq Stamp
    /\ faults \in 0..MaxFaults

Init ==
    /\ blobs = [h \in Content |-> None]
    /\ manifest = [t \in Stamp |-> None]
    /\ folder = [t \in Stamp |-> None]
    /\ clock = 0
    /\ job = [w \in Worker |-> Idle]
    /\ asked = {}
    /\ faults = 0

-----------------------------------------------------------------------------
(* Reading the store *)

Present(files) == {p \in Path : files[p] # Absent}

\* Faulty variant: a file that could not be hashed counts as one with a hash.
HashesOfAll(files) == {files[p] : p \in Path}

Hashes(files) == {files[p] : p \in Path} \ {Absent}

Stored == {h \in Content : blobs[h] # None}
Manifests == {t \in Stamp : manifest[t] # None}
Folders == {t \in Stamp : folder[t] # None}
Listed == Manifests \cup Folders
Copies(t) == IF folder[t] = None THEN Empty ELSE folder[t].files

(* A restore prefers the manifest, and skips a file whose blob is missing or *)
(* does not have the bytes its name promises.                                *)
RestoreOf(t) ==
    IF t \in Manifests
    THEN [p \in Path |-> IF p \in Present(manifest[t]) /\ blobs[manifest[t][p]] = manifest[t][p]
                         THEN manifest[t][p] ELSE Absent]
    ELSE Copies(t)

(* The metadata is the last file a full snapshot gets. *)
Complete(t) == t \in Manifests \/ (t \in Folders /\ folder[t].meta)

-----------------------------------------------------------------------------
(* Commands *)

Command(w) ==
    CASE job[w].op \in {"gc", "sweep"} -> "gc"
      [] job[w].op \in {"migrate", "toBlobs", "toFull", "drop"} -> "migrate"
      [] OTHER -> job[w].op

Begins(w, command, first) ==
    /\ job[w] = Idle
    /\ command \in Alone => \A v \in Worker : job[v] = Idle
    /\ \A v \in Worker : Command(v) \notin Alone
    /\ job' = [job EXCEPT ![w] = first]

Becomes(w, next) == job' = [job EXCEPT ![w] = next]

Fault(stage) == stage \in Faults /\ faults < MaxFaults

Oldest(t, S) == \A u \in S : t <= u

(* One file lands in a snapshot folder, which a backend addressed by path *)
(* creates again if it is gone.                                           *)
Put(t, p, c) == folder' = [folder EXCEPT ![t] = [files |-> [Copies(t) EXCEPT ![p] = c], meta |-> FALSE]]
PutMeta(t) == folder' = [folder EXCEPT ![t] = [files |-> Copies(t), meta |-> TRUE]]

Delete(side) ==
    /\ manifest' = IF side[1] = "manifest" THEN [manifest EXCEPT ![side[2]] = None] ELSE manifest
    /\ folder' = IF side[1] = "folder" THEN [folder EXCEPT ![side[2]] = None] ELSE folder

-----------------------------------------------------------------------------
(* create, blobs format *)

(* The working copy, whatever it holds, is hashed and the existing blobs are *)
(* listed; a listing that fails counts as an empty one.                      *)
BeginBlobs(w) ==
    /\ clock < LastStamp
    /\ \E files \in Files, known \in {Stored, {}} :
         Begins(w, "upload", [op |-> "upload", stamp |-> clock + 1, files |-> files,
                              blobs |-> Hashes(files) \ known])
    /\ clock' = clock + 1
    /\ UNCHANGED <<store, asked, faults>>

(* What is uploaded is the file as it is now, under the hash it had. *)
UploadBlob(w) ==
    /\ job[w].op = "upload"
    /\ \E h \in job[w].blobs :
         /\ \E now \in {h} \cup (Meanwhile \ {Absent}) : blobs' = [blobs EXCEPT ![h] = now]
         /\ Becomes(w, [job[w] EXCEPT !.blobs = @ \ {h}])
    /\ UNCHANGED <<manifest, folder, clock, asked, faults>>

\* Faulty variant: the manifest is written while blobs are still being uploaded.
WriteManifestEarly(w) ==
    /\ job[w].op = "upload"
    /\ manifest' = [manifest EXCEPT ![job[w].stamp] = job[w].files]
    /\ Becomes(w, Idle)
    /\ UNCHANGED <<blobs, folder, clock, asked, faults>>

WriteManifest(w) ==
    /\ job[w].op = "upload"
    /\ job[w].blobs = {}
    /\ manifest' = [manifest EXCEPT ![job[w].stamp] = job[w].files]
    /\ Becomes(w, Idle)
    /\ UNCHANGED <<blobs, folder, clock, asked, faults>>

-----------------------------------------------------------------------------
(* create, full format *)

(* The folder is made, and what the primary holds is listed. *)
BeginFull(w) ==
    /\ clock < LastStamp
    /\ \E files \in Files :
         Begins(w, "copy", [op |-> "copy", stamp |-> clock + 1, files |-> files, paths |-> Present(files)])
    /\ folder' = [folder EXCEPT ![clock + 1] = [files |-> Empty, meta |-> FALSE]]
    /\ clock' = clock + 1
    /\ UNCHANGED <<blobs, manifest, asked, faults>>

CopyFile(w) ==
    /\ job[w].op = "copy"
    /\ \E p \in job[w].paths :
         /\ \E now \in {job[w].files[p]} \cup (Meanwhile \ {Absent}) : Put(job[w].stamp, p, now)
         /\ Becomes(w, [job[w] EXCEPT !.paths = @ \ {p}])
    /\ UNCHANGED <<blobs, manifest, clock, asked, faults>>

WriteMeta(w) ==
    /\ job[w].op = "copy"
    /\ job[w].paths = {}
    /\ PutMeta(job[w].stamp)
    /\ Becomes(w, Idle)
    /\ UNCHANGED <<blobs, manifest, clock, asked, faults>>

(* A file to upload or to copy that is gone by now ends the create. *)
SourceGone(w) ==
    /\ Absent \in Meanwhile
    /\ \/ job[w].op = "upload" /\ job[w].blobs # {}
       \/ job[w].op = "copy" /\ job[w].paths # {}
    /\ Becomes(w, Idle)
    /\ UNCHANGED <<store, clock, asked, faults>>

-----------------------------------------------------------------------------
(* gc *)

BeginGc(w) ==
    /\ Begins(w, "gc", [op |-> "gc", seen |-> Stored])
    /\ UNCHANGED <<store, clock, asked, faults>>

Referenced(read) == UNION {Hashes(manifest[t]) : t \in read}

\* Faulty variant: gc also refuses to run when a single manifest is left.
ReadManifestsOfMany(w) ==
    /\ job[w].op = "gc"
    /\ IF \A t, u \in Manifests : t = u
       THEN Becomes(w, Idle) /\ UNCHANGED faults
       ELSE \E read \in SUBSET Manifests :
              /\ read = Manifests \/ Fault("read")
              /\ faults' = IF read = Manifests THEN faults ELSE faults + 1
              /\ Becomes(w, [op |-> "sweep", blobs |-> job[w].seen \ Referenced(read), failed |-> {}])
    /\ UNCHANGED <<store, clock, asked>>

(* Without a manifest gc refuses; one that cannot be read names no blob. *)
ReadManifests(w) ==
    /\ job[w].op = "gc"
    /\ IF Manifests = {}
       THEN Becomes(w, Idle) /\ UNCHANGED faults
       ELSE \E read \in SUBSET Manifests :
              /\ read = Manifests \/ Fault("read")
              /\ faults' = IF read = Manifests THEN faults ELSE faults + 1
              /\ Becomes(w, [op |-> "sweep", blobs |-> job[w].seen \ Referenced(read), failed |-> {}])
    /\ UNCHANGED <<store, clock, asked>>

Sweep(w) ==
    /\ job[w].op = "sweep"
    /\ \E h \in job[w].blobs :
         /\ blobs' = [blobs EXCEPT ![h] = None]
         /\ Becomes(w, [job[w] EXCEPT !.blobs = @ \ {h}])
    /\ UNCHANGED <<manifest, folder, clock, asked, faults>>

(* A blob that cannot be deleted is left for the next gc, and not counted. *)
SweepFail(w) ==
    /\ job[w].op = "sweep" /\ Fault("sweep")
    /\ \E h \in job[w].blobs :
         Becomes(w, [job[w] EXCEPT !.blobs = @ \ {h}, !.failed = @ \cup {h}])
    /\ faults' = faults + 1
    /\ UNCHANGED <<store, clock, asked>>

EndGc(w) ==
    /\ job[w].op = "sweep"
    /\ job[w].blobs = {}
    /\ Becomes(w, Idle)
    /\ UNCHANGED <<store, clock, asked, faults>>

-----------------------------------------------------------------------------
(* forget *)

SidesOf(S) == {<<"manifest", t>> : t \in S \cap Manifests} \cup {<<"folder", t>> : t \in S \cap Folders}

Forgets(w, sides) ==
    /\ sides # {}
    /\ Begins(w, "forget", [op |-> "forget", sides |-> sides])
    /\ asked' = asked \cup {side[2] : side \in sides}
    /\ UNCHANGED <<store, clock, faults>>

(* By name, age or number, but for the tagged ones: any entries of the list, in *)
(* which a snapshot of both formats has two.                                     *)
Selections == SUBSET SidesOf(Listed)

BeginForget(w) == \E sides \in Selections : Forgets(w, sides)

(* What the retention rules keep: the newest snapshot of every bucket, thus the  *)
(* newest of all, and the tagged ones.                                           *)
Retentions == {keep \in SUBSET Listed : \A t \in Listed : (\A u \in Listed : u <= t) => t \in keep}

(* prune_per_retention goes by timestamps: both entries of a snapshot or none.   *)
BeginPrune(w) == \E keep \in Retentions : Forgets(w, SidesOf(Listed \ keep))

(* _forget_one, for forget and for the leftovers migrate finds; one that fails *)
(* is counted and passed over.                                                 *)
DeleteSide(w) ==
    /\ job[w].op \in {"forget", "migrate"}
    /\ \E side \in job[w].sides :
         /\ \/ Delete(side) /\ UNCHANGED faults
            \/ Fault(job[w].op) /\ faults' = faults + 1 /\ UNCHANGED <<manifest, folder>>
         /\ Becomes(w, [job[w] EXCEPT !.sides = @ \ {side}])
    /\ UNCHANGED <<blobs, clock, asked>>

EndForget(w) ==
    /\ job[w].op = "forget"
    /\ job[w].sides = {}
    /\ Becomes(w, Idle)
    /\ UNCHANGED <<store, clock, asked, faults>>

-----------------------------------------------------------------------------
(* migrate *)

Source(target) == IF target = "blobs" THEN "folder" ELSE "manifest"

(* A listing of the manifests that fails counts as an empty one. What has both *)
(* formats is taken for the leftover of an earlier migrate.                    *)
BeginMigrate(w) ==
    \E target \in {"blobs", "full"}, seen \in {Manifests, {}} :
       LET both == Folders \cap seen
           source == IF target = "blobs" THEN Folders ELSE seen
       IN /\ source # {}
          /\ Begins(w, "migrate", [op |-> "migrate", target |-> target, pending |-> source \ both,
                                   sides |-> {Source(target)} \X both])
          /\ UNCHANGED <<store, clock, asked, faults>>

ConvertsNext(w) == job[w].op = "migrate" /\ job[w].sides = {} /\ job[w].pending # {}

Resumed(w) == [op |-> "migrate", target |-> job[w].target, pending |-> job[w].pending, sides |-> {}]

\* Faulty variant: the folder is deleted before its manifest is written.
ConvertToBlobsDropping(w) ==
    /\ ConvertsNext(w) /\ job[w].target = "blobs"
    /\ \E t \in job[w].pending :
         /\ Oldest(t, job[w].pending)
         /\ \E known \in {Stored, {}} :
              Becomes(w, [op |-> "toBlobs", target |-> "blobs", pending |-> job[w].pending \ {t},
                          stamp |-> t, files |-> Copies(t), blobs |-> Hashes(Copies(t)) \ known])
         /\ Delete(<<"folder", t>>)
    /\ UNCHANGED <<blobs, clock, asked, faults>>

(* A folder that is gone since it was listed has no files. *)
ConvertToBlobs(w) ==
    /\ ConvertsNext(w) /\ job[w].target = "blobs"
    /\ \E t \in job[w].pending, known \in {Stored, {}} :
         /\ Oldest(t, job[w].pending)
         /\ Becomes(w, [op |-> "toBlobs", target |-> "blobs", pending |-> job[w].pending \ {t},
                        stamp |-> t, files |-> Copies(t), blobs |-> Hashes(Copies(t)) \ known])
    /\ UNCHANGED <<store, clock, asked, faults>>

UploadCopy(w) ==
    /\ job[w].op = "toBlobs"
    /\ \E h \in job[w].blobs :
         /\ blobs' = [blobs EXCEPT ![h] = h]
         /\ Becomes(w, [job[w] EXCEPT !.blobs = @ \ {h}])
    /\ UNCHANGED <<manifest, folder, clock, asked, faults>>

Converted(w) == [op |-> "drop", target |-> job[w].target, pending |-> job[w].pending, stamp |-> job[w].stamp]

WriteConverted(w) ==
    /\ job[w].op = "toBlobs"
    /\ job[w].blobs = {}
    /\ manifest' = [manifest EXCEPT ![job[w].stamp] = job[w].files]
    /\ Becomes(w, Converted(w))
    /\ UNCHANGED <<blobs, folder, clock, asked, faults>>

(* A manifest that is gone since it was listed fails on its download. *)
ConvertToFull(w) ==
    /\ ConvertsNext(w) /\ job[w].target = "full"
    /\ \E t \in job[w].pending :
         /\ Oldest(t, job[w].pending)
         /\ IF t \in Manifests
            THEN /\ folder' = [folder EXCEPT ![t] = [files |-> Empty, meta |-> FALSE]]
                 /\ Becomes(w, [op |-> "toFull", target |-> "full", pending |-> job[w].pending \ {t},
                                stamp |-> t, files |-> manifest[t], paths |-> Present(manifest[t])])
            ELSE Becomes(w, [job[w] EXCEPT !.pending = @ \ {t}]) /\ UNCHANGED folder
    /\ UNCHANGED <<blobs, manifest, clock, asked, faults>>

(* The blob is written into the folder without a look at its hash. *)
Materialise(w) ==
    /\ job[w].op = "toFull"
    /\ \E p \in job[w].paths :
         /\ job[w].files[p] \in Stored
         /\ Put(job[w].stamp, p, blobs[job[w].files[p]])
         /\ Becomes(w, [job[w] EXCEPT !.paths = @ \ {p}])
    /\ UNCHANGED <<blobs, manifest, clock, asked, faults>>

WriteConvertedMeta(w) ==
    /\ job[w].op = "toFull"
    /\ job[w].paths = {}
    /\ PutMeta(job[w].stamp)
    /\ Becomes(w, Converted(w))
    /\ UNCHANGED <<blobs, manifest, clock, asked, faults>>

DropSource(w) ==
    /\ job[w].op = "drop"
    /\ Delete(<<Source(job[w].target), job[w].stamp>>)
    /\ Becomes(w, Resumed(w))
    /\ UNCHANGED <<blobs, clock, asked, faults>>

(* keep_source *)
KeepSource(w) ==
    /\ job[w].op = "drop"
    /\ Becomes(w, Resumed(w))
    /\ UNCHANGED <<store, clock, asked, faults>>

(* A failing call, or a blob that is missing, ends the conversion of this one *)
(* snapshot; what it has written stays, and the next snapshot is converted.   *)
ConvertFail(w) ==
    /\ job[w].op \in {"toBlobs", "toFull", "drop"}
    /\ LET lost == job[w].op = "toFull" /\ ~ {job[w].files[p] : p \in job[w].paths} \subseteq Stored
       IN /\ lost \/ Fault(job[w].op)
          /\ faults' = IF lost THEN faults ELSE faults + 1
    /\ Becomes(w, Resumed(w))
    /\ UNCHANGED <<store, clock, asked>>

EndMigrate(w) ==
    /\ job[w].op = "migrate"
    /\ job[w].sides = {} /\ job[w].pending = {}
    /\ Becomes(w, Idle)
    /\ UNCHANGED <<store, clock, asked, faults>>

-----------------------------------------------------------------------------
(* A process is killed, or a call fails that the command does not survive. *)
Abandon(w) ==
    /\ Fault(job[w].op)
    /\ faults' = faults + 1
    /\ Becomes(w, Idle)
    /\ UNCHANGED <<store, clock, asked>>

Proceed(w) ==
    \/ UploadBlob(w) \/ WriteManifest(w) \/ CopyFile(w) \/ WriteMeta(w) \/ SourceGone(w)
    \/ ReadManifests(w) \/ Sweep(w) \/ SweepFail(w) \/ EndGc(w)
    \/ DeleteSide(w) \/ EndForget(w)
    \/ ConvertToBlobs(w) \/ UploadCopy(w) \/ WriteConverted(w)
    \/ ConvertToFull(w) \/ Materialise(w) \/ WriteConvertedMeta(w)
    \/ DropSource(w) \/ KeepSource(w) \/ ConvertFail(w) \/ EndMigrate(w)

Next ==
    \E w \in Worker :
       \/ BeginBlobs(w) \/ BeginFull(w) \/ BeginGc(w)
       \/ BeginForget(w) \/ BeginPrune(w) \/ BeginMigrate(w)
       \/ Proceed(w)
       \/ Abandon(w)

Spec == Init /\ [][Next]_vars

-----------------------------------------------------------------------------
(* Properties *)

(* What list shows is a snapshot, a folder without metadata included: a full *)
(* create that was interrupted has taken what it had copied by then.         *)
Vault(t) ==
    IF t \in Listed /\ \A w \in Worker : job[w].op = "copy" => job[w].stamp # t
    THEN RestoreOf(t) ELSE None

Promise == INSTANCE SnapshotVault WITH vault <- [t \in Stamp |-> Vault(t)]

(* A complete snapshot restores what it restored when it was taken, through  *)
(* every create, gc, forget of others and migration, until somebody asks to  *)
(* forget it (create, gc, forget, migrate against restore).                  *)
VaultKept == Promise!Spec

(* A create that completes a snapshot restores to exactly the files it found *)
(* when it began, whatever interrupted commands have left on the backend     *)
(* before, whichever blobs it did not upload because they were there, and    *)
(* whatever is removed meanwhile (_create_blobs_on, _create_full_on).        *)
Faithful ==
    [][\A w \in Worker, t \in Stamp \ asked :
         job[w].op \in {"upload", "copy"} /\ job[w].stamp = t /\ ~Complete(t) /\ Complete(t)'
         => RestoreOf(t)' = job[w].files]_vars

(* gc is exact: when it ends, every stored blob is named by a manifest or is *)
(* one it has reported as not deleted, also after interrupted creates and    *)
(* conversions and next to what a killed gc has left; only without any       *)
(* manifest does it refuse (gc).                                             *)
Swept ==
    [][\A w \in Worker :
         job[w].op \in {"gc", "sweep"} /\ job'[w] = Idle /\ faults' = faults /\ Manifests # {}
         => Stored \subseteq Referenced(Manifests) \cup (IF job[w].op = "sweep" THEN job[w].failed ELSE {})]_vars

=============================================================================
