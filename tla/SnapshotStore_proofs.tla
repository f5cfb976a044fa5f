------------------------- MODULE SnapshotStore_proofs -------------------------
(* Theorems about SnapshotStore.                                             *)
EXTENDS SnapshotStore, TLAPS

-----------------------------------------------------------------------------
(* What a process is in the middle of tells what it remembers.               *)

LEMMA JobKinds ==
    ASSUME NEW j \in Job
    PROVE  /\ j.op = "upload" => j \in Uploading
           /\ j.op = "copy" => j \in Copying
           /\ j.op = "gc" => j \in [op : {"gc"}, seen : SUBSET Content]
           /\ j.op = "sweep" => j \in [op : {"sweep"}, blobs : SUBSET Content, failed : SUBSET Content]
           /\ j.op = "forget" => j \in Forgetting
           /\ j.op = "migrate" => j \in [op : {"migrate"}, target : {"blobs", "full"},
                                         pending : SUBSET Stamp, sides : SUBSET Sides]
           /\ j.op = "toBlobs" => j \in [op : {"toBlobs"}, target : {"blobs"}, pending : SUBSET Stamp,
                                         stamp : Stamp, files : Files, blobs : SUBSET Content]
           /\ j.op = "toFull" => j \in [op : {"toFull"}, target : {"full"}, pending : SUBSET Stamp,
                                        stamp : Stamp, files : Files, paths : SUBSET Path]
           /\ j.op = "drop" => j \in [op : {"drop"}, target : {"blobs", "full"}, pending : SUBSET Stamp,
                                      stamp : Stamp]
           /\ j.op \in {"idle", "upload", "copy", "gc", "sweep", "forget", "migrate", "toBlobs",
                        "toFull", "drop"}
           /\ j.op = "idle" => j = Idle
  <1>1. CASE j = Idle
    BY <1>1 DEF Idle
  <1>2. CASE j \in Uploading
    BY <1>2 DEF Uploading
  <1>3. CASE j \in Copying
    BY <1>3 DEF Copying
  <1>4. CASE j \in Collecting
    BY <1>4 DEF Collecting
  <1>5. CASE j \in Forgetting
    BY <1>5 DEF Forgetting
  <1>6. CASE j \in Migrating
    BY <1>6 DEF Migrating
  <1> QED BY <1>1, <1>2, <1>3, <1>4, <1>5, <1>6 DEF Job

LEMMA JobMakes ==
    ASSUME NEW j, \/ j = Idle
                  \/ j \in Uploading \/ j \in Copying \/ j \in Forgetting
                  \/ j \in [op : {"gc"}, seen : SUBSET Content]
                  \/ j \in [op : {"sweep"}, blobs : SUBSET Content, failed : SUBSET Content]
                  \/ j \in [op : {"migrate"}, target : {"blobs", "full"},
                            pending : SUBSET Stamp, sides : SUBSET Sides]
                  \/ j \in [op : {"toBlobs"}, target : {"blobs"}, pending : SUBSET Stamp,
                            stamp : Stamp, files : Files, blobs : SUBSET Content]
                  \/ j \in [op : {"toFull"}, target : {"full"}, pending : SUBSET Stamp,
                            stamp : Stamp, files : Files, paths : SUBSET Path]
                  \/ j \in [op : {"drop"}, target : {"blobs", "full"}, pending : SUBSET Stamp,
                            stamp : Stamp]
    PROVE  j \in Job
  BY DEF Job, Collecting, Migrating

LEMMA HashesType == \A files \in Files : Hashes(files) \in SUBSET Content
  BY DEF Hashes, Files

LEMMA CopiesType == TypeOK => \A t \in Stamp : Copies(t) \in Files
  BY DEF TypeOK, Copies, Folder, Files, Empty

LEMMA FaultType ==
    ASSUME TypeOK, NEW stage, Fault(stage), faults' = faults + 1 PROVE faults' \in 0..MaxFaults
  BY SnapshotStoreAssumption DEF Fault, TypeOK

LEMMA BecomesType ==
    ASSUME TypeOK, NEW w \in Worker, NEW j \in Job, job' = [job EXCEPT ![w] = j]
    PROVE  job' \in [Worker -> Job]
  BY DEF TypeOK

-----------------------------------------------------------------------------
(* Type correctness: every action keeps the store and the jobs well formed.  *)

LEMMA BeginBlobsType == ASSUME TypeOK, NEW w \in Worker, BeginBlobs(w) PROVE TypeOK'
  <1>1. PICK files \in Files, known \in {Stored, {}} :
          job' = [job EXCEPT ![w] = [op |-> "upload", stamp |-> clock + 1, files |-> files,
                                     blobs |-> Hashes(files) \ known]]
    BY DEF BeginBlobs, Begins
  <1>2. clock + 1 \in Stamp /\ clock' \in 0..LastStamp
    BY SnapshotStoreAssumption DEF BeginBlobs, TypeOK, Stamp
  <1>3. job' \in [Worker -> Job]
    BY <1>1, <1>2, HashesType, JobMakes, BecomesType DEF Uploading
  <1> QED BY <1>2, <1>3 DEF BeginBlobs, TypeOK, store

LEMMA UploadBlobType == ASSUME TypeOK, NEW w \in Worker, UploadBlob(w) PROVE TypeOK'
  <1>1. job[w] \in Uploading
    BY JobKinds DEF UploadBlob, TypeOK
  <1>2. PICK h \in job[w].blobs :
          /\ \E now \in {h} \cup (Meanwhile \ {Absent}) : blobs' = [blobs EXCEPT ![h] = now]
          /\ job' = [job EXCEPT ![w] = [job[w] EXCEPT !.blobs = job[w].blobs \ {h}]]
    BY DEF UploadBlob, Becomes
  <1>3. h \in Content
    BY <1>1 DEF Uploading
  <1>4. blobs' \in [Content -> Content \cup {None}]
    BY <1>2, <1>3, SnapshotStoreAssumption DEF TypeOK
  <1>5. [job[w] EXCEPT !.blobs = job[w].blobs \ {h}] \in Uploading
    BY <1>1 DEF Uploading
  <1>6. job' \in [Worker -> Job]
    BY <1>2, <1>5, JobMakes, BecomesType
  <1> QED BY <1>4, <1>6 DEF UploadBlob, TypeOK

LEMMA WriteManifestType == ASSUME TypeOK, NEW w \in Worker, WriteManifest(w) PROVE TypeOK'
  <1>1. job[w] \in Uploading
    BY JobKinds DEF WriteManifest, TypeOK
  <1>2. manifest' \in [Stamp -> Files \cup {None}]
    BY <1>1 DEF WriteManifest, TypeOK, Uploading
  <1>3. job' \in [Worker -> Job]
    BY JobMakes, BecomesType DEF WriteManifest, Becomes
  <1> QED BY <1>2, <1>3 DEF WriteManifest, TypeOK

LEMMA PutType ==
    ASSUME TypeOK, NEW t \in Stamp, NEW p \in Path, NEW c \in Content \cup {Absent}, Put(t, p, c)
    PROVE  folder' \in [Stamp -> Folder \cup {None}]
  <1>1. [Copies(t) EXCEPT ![p] = c] \in Files
    BY CopiesType DEF Files
  <1> QED BY <1>1 DEF Put, TypeOK, Folder

LEMMA PutMetaType ==
    ASSUME TypeOK, NEW t \in Stamp, PutMeta(t)
    PROVE  folder' \in [Stamp -> Folder \cup {None}]
  BY CopiesType DEF PutMeta, TypeOK, Folder

LEMMA DeleteType ==
    ASSUME TypeOK, NEW side, Delete(side)
    PROVE  /\ manifest' \in [Stamp -> Files \cup {None}]
           /\ folder' \in [Stamp -> Folder \cup {None}]
  BY DEF Delete, TypeOK

LEMMA EmptyType == [files |-> Empty, meta |-> FALSE] \in Folder
  BY DEF Empty, Folder, Files

LEMMA BeginFullType == ASSUME TypeOK, NEW w \in Worker, BeginFull(w) PROVE TypeOK'
  <1>1. PICK files \in Files :
          job' = [job EXCEPT ![w] = [op |-> "copy", stamp |-> clock + 1, files |-> files,
                                     paths |-> Present(files)]]
    BY DEF BeginFull, Begins
  <1>2. clock + 1 \in Stamp /\ clock' \in 0..LastStamp
    BY SnapshotStoreAssumption DEF BeginFull, TypeOK, Stamp
  <1>3. job' \in [Worker -> Job]
    BY <1>1, <1>2, JobMakes, BecomesType DEF Copying, Present
  <1>4. folder' \in [Stamp -> Folder \cup {None}]
    BY EmptyType DEF BeginFull, TypeOK
  <1> QED BY <1>2, <1>3, <1>4 DEF BeginFull, TypeOK

LEMMA CopyFileType == ASSUME TypeOK, NEW w \in Worker, CopyFile(w) PROVE TypeOK'
  <1>1. job[w] \in Copying
    BY JobKinds DEF CopyFile, TypeOK
  <1>2. PICK p \in job[w].paths :
          /\ \E now \in {job[w].files[p]} \cup (Meanwhile \ {Absent}) : Put(job[w].stamp, p, now)
          /\ job' = [job EXCEPT ![w] = [job[w] EXCEPT !.paths = job[w].paths \ {p}]]
    BY DEF CopyFile, Becomes
  <1>3. p \in Path /\ job[w].stamp \in Stamp /\ job[w].files[p] \in Content \cup {Absent}
    BY <1>1 DEF Copying, Files
  <1>4. folder' \in [Stamp -> Folder \cup {None}]
    BY <1>2, <1>3, PutType, SnapshotStoreAssumption
  <1>5. [job[w] EXCEPT !.paths = job[w].paths \ {p}] \in Copying
    BY <1>1 DEF Copying
  <1>6. job' \in [Worker -> Job]
    BY <1>2, <1>5, JobMakes, BecomesType
  <1> QED BY <1>4, <1>6 DEF CopyFile, TypeOK

LEMMA WriteMetaType == ASSUME TypeOK, NEW w \in Worker, WriteMeta(w) PROVE TypeOK'
  <1>1. job[w].stamp \in Stamp
    BY JobKinds DEF WriteMeta, TypeOK, Copying
  <1>2. folder' \in [Stamp -> Folder \cup {None}]
    BY <1>1, PutMetaType DEF WriteMeta
  <1>3. job' \in [Worker -> Job]
    BY JobMakes, BecomesType DEF WriteMeta, Becomes
  <1> QED BY <1>2, <1>3 DEF WriteMeta, TypeOK

(* Actions that only end a command. *)
LEMMA EndType ==
    ASSUME TypeOK, NEW w \in Worker,
           \/ SourceGone(w) \/ EndGc(w) \/ EndForget(w) \/ EndMigrate(w) \/ Abandon(w)
    PROVE  TypeOK'
  <1>1. job' \in [Worker -> Job]
    BY JobMakes, BecomesType DEF SourceGone, EndGc, EndForget, EndMigrate, Abandon, Becomes
  <1>2. faults' \in 0..MaxFaults
    BY SnapshotStoreAssumption DEF SourceGone, EndGc, EndForget, EndMigrate, Abandon, Fault, TypeOK
  <1> QED
    BY <1>1, <1>2 DEF SourceGone, EndGc, EndForget, EndMigrate, Abandon, TypeOK, store

LEMMA BeginGcType == ASSUME TypeOK, NEW w \in Worker, BeginGc(w) PROVE TypeOK'
  <1>1. [op |-> "gc", seen |-> Stored] \in [op : {"gc"}, seen : SUBSET Content]
    BY DEF Stored
  <1>2. job' \in [Worker -> Job]
    BY <1>1, JobMakes, BecomesType DEF BeginGc, Begins
  <1> QED BY <1>2 DEF BeginGc, TypeOK, store

LEMMA ReadManifestsType == ASSUME TypeOK, NEW w \in Worker, ReadManifests(w) PROVE TypeOK'
  <1>1. job[w] \in [op : {"gc"}, seen : SUBSET Content]
    BY JobKinds DEF ReadManifests, TypeOK
  <1>2. CASE Manifests = {}
    <2>1. job' \in [Worker -> Job]
      BY <1>2, JobMakes, BecomesType DEF ReadManifests, Becomes
    <2> QED BY <1>2, <2>1 DEF ReadManifests, TypeOK, store
  <1>3. CASE Manifests # {}
    <2>1. PICK read \in SUBSET Manifests :
            /\ read = Manifests \/ Fault("read")
            /\ faults' = IF read = Manifests THEN faults ELSE faults + 1
            /\ job' = [job EXCEPT ![w] = [op |-> "sweep", blobs |-> job[w].seen \ Referenced(read),
                                          failed |-> {}]]
      BY <1>3 DEF ReadManifests, Becomes
    <2>2. [op |-> "sweep", blobs |-> job[w].seen \ Referenced(read), failed |-> {}]
            \in [op : {"sweep"}, blobs : SUBSET Content, failed : SUBSET Content]
      BY <1>1
    <2>3. job' \in [Worker -> Job]
      BY <2>1, <2>2, JobMakes, BecomesType
    <2>4. faults' \in 0..MaxFaults
      BY <2>1, SnapshotStoreAssumption DEF Fault, TypeOK
    <2> QED BY <2>3, <2>4 DEF ReadManifests, TypeOK, store
  <1> QED BY <1>2, <1>3

LEMMA SweepType == ASSUME TypeOK, NEW w \in Worker, Sweep(w) \/ SweepFail(w) PROVE TypeOK'
  <1>1. job[w] \in [op : {"sweep"}, blobs : SUBSET Content, failed : SUBSET Content]
    BY JobKinds DEF Sweep, SweepFail, TypeOK
  <1>2. CASE Sweep(w)
    <2>1. PICK h \in job[w].blobs :
            /\ blobs' = [blobs EXCEPT ![h] = None]
            /\ job' = [job EXCEPT ![w] = [job[w] EXCEPT !.blobs = job[w].blobs \ {h}]]
      BY <1>2 DEF Sweep, Becomes
    <2>2. [job[w] EXCEPT !.blobs = job[w].blobs \ {h}]
            \in [op : {"sweep"}, blobs : SUBSET Content, failed : SUBSET Content]
      BY <1>1
    <2>3. job' \in [Worker -> Job]
      BY <2>1, <2>2, JobMakes, BecomesType
    <2>4. blobs' \in [Content -> Content \cup {None}]
      BY <2>1 DEF TypeOK
    <2> QED BY <1>2, <2>3, <2>4 DEF Sweep, TypeOK
  <1>3. CASE SweepFail(w)
    <2>1. PICK h \in job[w].blobs :
            job' = [job EXCEPT ![w] = [job[w] EXCEPT !.blobs = job[w].blobs \ {h},
                                                     !.failed = job[w].failed \cup {h}]]
      BY <1>3 DEF SweepFail, Becomes
    <2>2. [job[w] EXCEPT !.blobs = job[w].blobs \ {h}, !.failed = job[w].failed \cup {h}]
            \in [op : {"sweep"}, blobs : SUBSET Content, failed : SUBSET Content]
      BY <1>1
    <2>3. job' \in [Worker -> Job]
      BY <2>1, <2>2, JobMakes, BecomesType
    <2>4. Fault("sweep") /\ faults' = faults + 1
      BY <1>3 DEF SweepFail
    <2>5. faults' \in 0..MaxFaults
      BY <2>4, FaultType
    <2> QED BY <1>3, <2>3, <2>5 DEF SweepFail, TypeOK, store
  <1> QED BY <1>2, <1>3

\* A prune is a forget of the same entries.
LEMMA PruneForgets == ASSUME NEW w \in Worker, BeginPrune(w) PROVE BeginForget(w)
  <1>1. PICK keep \in Retentions : Forgets(w, SidesOf(Listed \ keep))
    BY DEF BeginPrune
  <1>2. SidesOf(Listed \ keep) \subseteq SidesOf(Listed)
    BY DEF SidesOf
  <1> QED BY <1>1, <1>2 DEF BeginForget, Selections

LEMMA BeginForgetType == ASSUME TypeOK, NEW w \in Worker, BeginForget(w) PROVE TypeOK'
  <1>1. PICK sides \in SUBSET SidesOf(Listed) :
          /\ job' = [job EXCEPT ![w] = [op |-> "forget", sides |-> sides]]
          /\ asked' = asked \cup {side[2] : side \in sides}
    BY DEF BeginForget, Selections, Forgets, Begins
  <1>2. SidesOf(Listed) \subseteq Sides
    BY DEF SidesOf, Sides, Manifests, Folders
  <1>3. [op |-> "forget", sides |-> sides] \in Forgetting
    BY <1>2 DEF Forgetting
  <1>4. job' \in [Worker -> Job]
    BY <1>1, <1>3, JobMakes, BecomesType
  <1>5. asked' \subseteq Stamp
    BY <1>1, <1>2 DEF TypeOK, Sides
  <1> QED BY <1>4, <1>5 DEF BeginForget, Forgets, TypeOK, store

LEMMA DeleteSideType == ASSUME TypeOK, NEW w \in Worker, DeleteSide(w) PROVE TypeOK'
  <1>1. PICK side \in job[w].sides :
          /\ \/ Delete(side) /\ UNCHANGED faults
             \/ Fault(job[w].op) /\ faults' = faults + 1 /\ UNCHANGED <<manifest, folder>>
          /\ job' = [job EXCEPT ![w] = [job[w] EXCEPT !.sides = job[w].sides \ {side}]]
    BY DEF DeleteSide, Becomes
  <1>2. [job[w] EXCEPT !.sides = job[w].sides \ {side}] \in Job
    <2>1. CASE job[w].op = "forget"
      <3>1. job[w] \in Forgetting
        BY <2>1, JobKinds DEF TypeOK
      <3>2. [job[w] EXCEPT !.sides = job[w].sides \ {side}] \in Forgetting
        BY <3>1 DEF Forgetting
      <3> QED BY <3>2, JobMakes
    <2>2. CASE job[w].op = "migrate"
      <3>1. job[w] \in [op : {"migrate"}, target : {"blobs", "full"},
                        pending : SUBSET Stamp, sides : SUBSET Sides]
        BY <2>2, JobKinds DEF TypeOK
      <3>2. [job[w] EXCEPT !.sides = job[w].sides \ {side}]
              \in [op : {"migrate"}, target : {"blobs", "full"},
                   pending : SUBSET Stamp, sides : SUBSET Sides]
        BY <3>1
      <3> QED BY <3>2, JobMakes
    <2> QED BY <2>1, <2>2 DEF DeleteSide
  <1>3. job' \in [Worker -> Job]
    BY <1>1, <1>2, BecomesType
  <1>4. CASE Delete(side) /\ UNCHANGED faults
    BY <1>3, <1>4, DeleteType DEF DeleteSide, TypeOK
  <1>5. CASE Fault(job[w].op) /\ faults' = faults + 1 /\ UNCHANGED <<manifest, folder>>
    BY <1>3, <1>5, FaultType DEF DeleteSide, TypeOK
  <1> QED BY <1>1, <1>4, <1>5

LEMMA BeginMigrateType == ASSUME TypeOK, NEW w \in Worker, BeginMigrate(w) PROVE TypeOK'
  <1>1. PICK target \in {"blobs", "full"}, seen \in {Manifests, {}} :
          /\ job' = [job EXCEPT ![w] =
                       [op |-> "migrate", target |-> target,
                        pending |-> (IF target = "blobs" THEN Folders ELSE seen) \ (Folders \cap seen),
                        sides |-> {Source(target)} \X (Folders \cap seen)]]
          /\ UNCHANGED <<store, clock, asked, faults>>
    BY DEF BeginMigrate, Begins
  <1>2. {Source(target)} \X (Folders \cap seen) \in SUBSET Sides
    BY DEF Source, Sides, Folders
  <1>3. (IF target = "blobs" THEN Folders ELSE seen) \ (Folders \cap seen) \in SUBSET Stamp
    BY DEF Folders, Manifests
  <1>4. [op |-> "migrate", target |-> target,
         pending |-> (IF target = "blobs" THEN Folders ELSE seen) \ (Folders \cap seen),
         sides |-> {Source(target)} \X (Folders \cap seen)]
          \in [op : {"migrate"}, target : {"blobs", "full"}, pending : SUBSET Stamp, sides : SUBSET Sides]
    BY <1>2, <1>3
  <1>5. job' \in [Worker -> Job]
    BY <1>1, <1>4, JobMakes, BecomesType
  <1> QED BY <1>1, <1>5 DEF TypeOK, store

LEMMA MigrateJob ==
    ASSUME TypeOK, NEW w \in Worker, job[w].op \in {"migrate", "toBlobs", "toFull", "drop"}
    PROVE  job[w].target \in {"blobs", "full"} /\ job[w].pending \in SUBSET Stamp
  BY JobKinds DEF TypeOK

LEMMA ConvertToBlobsType == ASSUME TypeOK, NEW w \in Worker, ConvertToBlobs(w) PROVE TypeOK'
  <1>1. job[w].op = "migrate"
    BY DEF ConvertToBlobs, ConvertsNext
  <1>2. PICK t \in job[w].pending, known \in {Stored, {}} :
          job' = [job EXCEPT ![w] =
                    [op |-> "toBlobs", target |-> "blobs", pending |-> job[w].pending \ {t},
                     stamp |-> t, files |-> Copies(t), blobs |-> Hashes(Copies(t)) \ known]]
    BY DEF ConvertToBlobs, Becomes
  <1>3. t \in Stamp /\ job[w].pending \ {t} \in SUBSET Stamp
    BY <1>1, MigrateJob
  <1>4. job' \in [Worker -> Job]
    BY <1>2, <1>3, CopiesType, HashesType, JobMakes, BecomesType
  <1> QED BY <1>4 DEF ConvertToBlobs, TypeOK, store

LEMMA UploadCopyType == ASSUME TypeOK, NEW w \in Worker, UploadCopy(w) PROVE TypeOK'
  <1> DEFINE Kind == [op : {"toBlobs"}, target : {"blobs"}, pending : SUBSET Stamp,
                      stamp : Stamp, files : Files, blobs : SUBSET Content]
  <1>1. job[w] \in Kind
    BY JobKinds DEF UploadCopy, TypeOK
  <1>2. PICK h \in job[w].blobs :
          /\ blobs' = [blobs EXCEPT ![h] = h]
          /\ job' = [job EXCEPT ![w] = [job[w] EXCEPT !.blobs = job[w].blobs \ {h}]]
    BY DEF UploadCopy, Becomes
  <1>3. [job[w] EXCEPT !.blobs = job[w].blobs \ {h}] \in Kind
    BY <1>1
  <1>4. job' \in [Worker -> Job]
    BY <1>2, <1>3, JobMakes, BecomesType
  <1>5. blobs' \in [Content -> Content \cup {None}]
    BY <1>1, <1>2 DEF TypeOK
  <1> QED BY <1>4, <1>5 DEF UploadCopy, TypeOK

LEMMA WriteConvertedType == ASSUME TypeOK, NEW w \in Worker, WriteConverted(w) PROVE TypeOK'
  <1>1. job[w] \in [op : {"toBlobs"}, target : {"blobs"}, pending : SUBSET Stamp,
                    stamp : Stamp, files : Files, blobs : SUBSET Content]
    BY JobKinds DEF WriteConverted, TypeOK
  <1>2. manifest' \in [Stamp -> Files \cup {None}]
    BY <1>1 DEF WriteConverted, TypeOK
  <1>3. job' \in [Worker -> Job]
    BY <1>1, JobMakes, BecomesType DEF WriteConverted, Converted, Becomes
  <1> QED BY <1>2, <1>3 DEF WriteConverted, TypeOK

LEMMA ConvertToFullType == ASSUME TypeOK, NEW w \in Worker, ConvertToFull(w) PROVE TypeOK'
  <1> DEFINE Kind == [op : {"migrate"}, target : {"blobs", "full"}, pending : SUBSET Stamp,
                      sides : SUBSET Sides]
  <1>1. job[w].op = "migrate" /\ job[w] \in Kind
    BY JobKinds DEF ConvertToFull, ConvertsNext, TypeOK
  <1>2. PICK t \in job[w].pending :
          IF t \in Manifests
          THEN /\ folder' = [folder EXCEPT ![t] = [files |-> Empty, meta |-> FALSE]]
               /\ job' = [job EXCEPT ![w] =
                            [op |-> "toFull", target |-> "full", pending |-> job[w].pending \ {t},
                             stamp |-> t, files |-> manifest[t], paths |-> Present(manifest[t])]]
          ELSE /\ job' = [job EXCEPT ![w] = [job[w] EXCEPT !.pending = job[w].pending \ {t}]]
               /\ UNCHANGED folder
    BY DEF ConvertToFull, Becomes
  <1>3. t \in Stamp /\ job[w].pending \ {t} \in SUBSET Stamp
    BY <1>1, MigrateJob
  <1>4. CASE t \in Manifests
    <2>1. manifest[t] \in Files /\ Present(manifest[t]) \in SUBSET Path
      BY <1>4 DEF Manifests, TypeOK, Present
    <2>2. job' \in [Worker -> Job]
      BY <1>2, <1>3, <1>4, <2>1, JobMakes, BecomesType
    <2>3. folder' \in [Stamp -> Folder \cup {None}]
      BY <1>2, <1>4, EmptyType DEF TypeOK
    <2> QED BY <2>2, <2>3 DEF ConvertToFull, TypeOK
  <1>5. CASE t \notin Manifests
    <2>1. [job[w] EXCEPT !.pending = job[w].pending \ {t}] \in Kind
      BY <1>1
    <2>2. job' \in [Worker -> Job]
      BY <1>2, <1>5, <2>1, JobMakes, BecomesType
    <2> QED BY <1>2, <1>5, <2>2 DEF ConvertToFull, TypeOK
  <1> QED BY <1>4, <1>5

LEMMA MaterialiseType == ASSUME TypeOK, NEW w \in Worker, Materialise(w) PROVE TypeOK'
  <1> DEFINE Kind == [op : {"toFull"}, target : {"full"}, pending : SUBSET Stamp,
                      stamp : Stamp, files : Files, paths : SUBSET Path]
  <1>1. job[w] \in Kind
    BY JobKinds DEF Materialise, TypeOK
  <1>2. PICK p \in job[w].paths :
          /\ job[w].files[p] \in Stored
          /\ Put(job[w].stamp, p, blobs[job[w].files[p]])
          /\ job' = [job EXCEPT ![w] = [job[w] EXCEPT !.paths = job[w].paths \ {p}]]
    BY DEF Materialise, Becomes
  <1>3. p \in Path /\ job[w].stamp \in Stamp /\ blobs[job[w].files[p]] \in Content
    BY <1>1, <1>2 DEF Stored, TypeOK
  <1>4. folder' \in [Stamp -> Folder \cup {None}]
    BY <1>2, <1>3, PutType
  <1>5. [job[w] EXCEPT !.paths = job[w].paths \ {p}] \in Kind
    BY <1>1
  <1>6. job' \in [Worker -> Job]
    BY <1>2, <1>5, JobMakes, BecomesType
  <1> QED BY <1>4, <1>6 DEF Materialise, TypeOK

LEMMA WriteConvertedMetaType == ASSUME TypeOK, NEW w \in Worker, WriteConvertedMeta(w) PROVE TypeOK'
  <1>1. job[w] \in [op : {"toFull"}, target : {"full"}, pending : SUBSET Stamp,
                    stamp : Stamp, files : Files, paths : SUBSET Path]
    BY JobKinds DEF WriteConvertedMeta, TypeOK
  <1>2. folder' \in [Stamp -> Folder \cup {None}]
    BY <1>1, PutMetaType DEF WriteConvertedMeta
  <1>3. job' \in [Worker -> Job]
    BY <1>1, JobMakes, BecomesType DEF WriteConvertedMeta, Converted, Becomes
  <1> QED BY <1>2, <1>3 DEF WriteConvertedMeta, TypeOK

(* What ends the conversion of one snapshot. *)
LEMMA ResumedType ==
    ASSUME TypeOK, NEW w \in Worker, DropSource(w) \/ KeepSource(w) \/ ConvertFail(w) PROVE TypeOK'
  <1>1. job[w].target \in {"blobs", "full"} /\ job[w].pending \in SUBSET Stamp
    BY MigrateJob DEF DropSource, KeepSource, ConvertFail
  <1>2. Resumed(w) \in [op : {"migrate"}, target : {"blobs", "full"}, pending : SUBSET Stamp,
                        sides : SUBSET Sides]
    BY <1>1 DEF Resumed
  <1>3. job' \in [Worker -> Job]
    BY <1>2, JobMakes, BecomesType DEF DropSource, KeepSource, ConvertFail, Becomes
  <1>4. CASE DropSource(w)
    BY <1>3, <1>4, DeleteType DEF DropSource, TypeOK
  <1>5. CASE KeepSource(w)
    BY <1>3, <1>5 DEF KeepSource, TypeOK, store
  <1>6. CASE ConvertFail(w)
    <2>1. faults' \in 0..MaxFaults
      BY <1>6, SnapshotStoreAssumption DEF ConvertFail, Fault, TypeOK
    <2> QED BY <1>3, <1>6, <2>1 DEF ConvertFail, TypeOK, store
  <1> QED BY <1>4, <1>5, <1>6

LEMMA NextType == ASSUME TypeOK, NEW w \in Worker,
                         \/ BeginBlobs(w) \/ BeginFull(w) \/ BeginGc(w)
                         \/ BeginForget(w) \/ BeginPrune(w) \/ BeginMigrate(w)
                         \/ Proceed(w) \/ Abandon(w)
                  PROVE  TypeOK'
  <1>1. CASE BeginBlobs(w) \/ BeginFull(w) \/ BeginGc(w)
                         \/ BeginForget(w) \/ BeginPrune(w) \/ BeginMigrate(w)
    BY <1>1, BeginBlobsType, BeginFullType, BeginGcType, BeginForgetType, PruneForgets, BeginMigrateType
  <1>2. CASE UploadBlob(w) \/ WriteManifest(w) \/ CopyFile(w) \/ WriteMeta(w)
    BY <1>2, UploadBlobType, WriteManifestType, CopyFileType, WriteMetaType
  <1>3. CASE SourceGone(w) \/ EndGc(w) \/ EndForget(w) \/ EndMigrate(w) \/ Abandon(w)
    BY <1>3, EndType
  <1>4. CASE ReadManifests(w) \/ Sweep(w) \/ SweepFail(w) \/ DeleteSide(w)
    BY <1>4, ReadManifestsType, SweepType, DeleteSideType
  <1>5. CASE ConvertToBlobs(w) \/ UploadCopy(w) \/ WriteConverted(w)
    BY <1>5, ConvertToBlobsType, UploadCopyType, WriteConvertedType
  <1>6. CASE ConvertToFull(w) \/ Materialise(w) \/ WriteConvertedMeta(w)
    BY <1>6, ConvertToFullType, MaterialiseType, WriteConvertedMetaType
  <1>7. CASE DropSource(w) \/ KeepSource(w) \/ ConvertFail(w)
    BY <1>7, ResumedType
  <1> QED BY <1>1, <1>2, <1>3, <1>4, <1>5, <1>6, <1>7 DEF Proceed

LEMMA InitType == Init => TypeOK
  BY SnapshotStoreAssumption, JobMakes DEF Init, TypeOK

(* What is stored, and what each process remembers, is always well formed: in *)
(* particular a snapshot has a whole manifest or none (snapshots.py).         *)
THEOREM TypeCorrect == Spec => []TypeOK
  <1>1. ASSUME TypeOK, [Next]_vars PROVE TypeOK'
    <2>1. CASE Next
      BY <1>1, <2>1, NextType DEF Next
    <2>2. CASE UNCHANGED vars
      BY <1>1, <2>2 DEF vars, TypeOK
    <2> QED BY <1>1, <2>1, <2>2
  <1> QED BY <1>1, InitType, PTL DEF Spec

-----------------------------------------------------------------------------
(* gc is exact                                                               *)

GcOps == {"gc", "sweep"}

Begin(w) ==
    \/ BeginBlobs(w) \/ BeginFull(w) \/ BeginGc(w)
    \/ BeginForget(w) \/ BeginPrune(w) \/ BeginMigrate(w)

Step(w) == Begin(w) \/ Proceed(w) \/ Abandon(w)

GcAlone == \A v, w \in Worker : v # w /\ job[w].op \in GcOps => job[v] = Idle

\* What a running gc still has to look at, or has counted as failed, and what
\* the manifests name is all there is.
SeenOK(j) == Stored \subseteq j.seen
CollectOK(j) == Stored \subseteq Referenced(Manifests) \cup j.blobs \cup j.failed
Accounted ==
    \A w \in Worker :
       /\ job[w].op = "gc" => SeenOK(job[w])
       /\ job[w].op = "sweep" => CollectOK(job[w])

GInv == TypeOK /\ GcAlone /\ Accounted

LEMMA BeginIsIdle ==
    ASSUME NEW w \in Worker, Begin(w)
    PROVE  job[w] = Idle /\ \A v \in Worker : Command(v) \notin Alone
  BY DEF Begin, BeginBlobs, BeginFull, BeginGc, BeginForget, BeginPrune, Forgets, BeginMigrate, Begins

LEMMA OthersStay ==
    ASSUME TypeOK, NEW w \in Worker, Step(w), NEW v \in Worker, v # w PROVE job'[v] = job[v]
  <1>1. CASE Begin(w)
    <2>1. \E j : job' = [job EXCEPT ![w] = j]
      BY <1>1 DEF Begin, BeginBlobs, BeginFull, BeginGc, BeginForget, BeginPrune, Forgets, BeginMigrate, Begins
    <2> QED BY <2>1 DEF TypeOK
  <1>2. CASE Abandon(w)
    BY <1>2 DEF Abandon, Becomes, TypeOK
  <1>3. CASE Proceed(w)
    <2>1. \E j : Becomes(w, j)
      <3>1. CASE UploadBlob(w) \/ WriteManifest(w) \/ CopyFile(w) \/ WriteMeta(w) \/ SourceGone(w)
        BY <3>1 DEF UploadBlob, WriteManifest, CopyFile, WriteMeta, SourceGone
      <3>2. CASE ReadManifests(w) \/ Sweep(w) \/ SweepFail(w) \/ EndGc(w)
        BY <3>2 DEF ReadManifests, Sweep, SweepFail, EndGc
      <3>3. CASE DeleteSide(w) \/ EndForget(w) \/ ConvertToBlobs(w) \/ UploadCopy(w) \/ WriteConverted(w)
        BY <3>3 DEF DeleteSide, EndForget, ConvertToBlobs, UploadCopy, WriteConverted
      <3>4. CASE \/ ConvertToFull(w) \/ Materialise(w) \/ WriteConvertedMeta(w)
                 \/ DropSource(w) \/ KeepSource(w) \/ ConvertFail(w) \/ EndMigrate(w)
        BY <3>4 DEF ConvertToFull, Materialise, WriteConvertedMeta, DropSource, KeepSource, ConvertFail, EndMigrate
      <3> QED BY <1>3, <3>1, <3>2, <3>3, <3>4 DEF Proceed
    <2> QED BY <2>1 DEF Becomes, TypeOK
  <1> QED BY <1>1, <1>2, <1>3 DEF Step

LEMMA ProceedOps ==
    ASSUME NEW w \in Worker, Proceed(w)
    PROVE  \/ job[w].op \in {"upload", "copy", "forget", "migrate", "toBlobs", "toFull", "drop"}
           \/ ReadManifests(w) \/ Sweep(w) \/ SweepFail(w) \/ EndGc(w)
  BY DEF Proceed, UploadBlob, WriteManifest, CopyFile, WriteMeta, SourceGone, DeleteSide, EndForget,
         ConvertsNext, ConvertToBlobs, UploadCopy, WriteConverted, ConvertToFull, Materialise,
         WriteConvertedMeta, DropSource, KeepSource, ConvertFail, EndMigrate

LEMMA GcOnly ==
    ASSUME NEW w \in Worker, Step(w), job[w].op \in GcOps
    PROVE  ReadManifests(w) \/ Sweep(w) \/ SweepFail(w) \/ EndGc(w) \/ Abandon(w)
  <1>1. CASE Begin(w)
    BY <1>1, BeginIsIdle DEF Idle, GcOps
  <1>2. CASE Proceed(w)
    BY <1>2, ProceedOps DEF GcOps
  <1> QED BY <1>1, <1>2 DEF Step

(* Nobody proceeds next to a gc, or begins anything. *)
LEMMA NobodyCollects ==
    ASSUME "gc" \in Alone, GInv, NEW w \in Worker, Step(w), job[w].op \notin GcOps,
           NEW v \in Worker
    PROVE  job[v].op \notin GcOps
  <1> SUFFICES ASSUME job[v].op \in GcOps PROVE FALSE
    OBVIOUS
  <1>1. job[w] = Idle
    BY DEF GInv, GcAlone
  <1>2. CASE Begin(w)
    <2>1. Command(v) = "gc"
      BY DEF Command, GcOps
    <2> QED BY <1>2, <2>1, BeginIsIdle
  <1>3. CASE Proceed(w)
    <2>1. job[w].op = "idle"
      BY <1>1 DEF Idle
    <2>2. ~ReadManifests(w) /\ ~Sweep(w) /\ ~SweepFail(w) /\ ~EndGc(w)
      BY <2>1 DEF ReadManifests, Sweep, SweepFail, EndGc
    <2> QED BY <1>3, <2>1, <2>2, ProceedOps
  <1>4. CASE Abandon(w)
    BY <1>1, <1>4, SnapshotStoreAssumption DEF Idle, Abandon, Fault, FaultPoints
  <1> QED BY <1>2, <1>3, <1>4 DEF Step

(* Only gc itself begins to collect, and only a full create to copy. *)
LEMMA CreateStays ==
    ASSUME TypeOK, NEW w \in Worker,
           UploadBlob(w) \/ WriteManifest(w) \/ CopyFile(w) \/ WriteMeta(w) \/ SourceGone(w)
    PROVE  job'[w].op \notin GcOps /\ (job'[w].op = "copy" => CopyFile(w))
  <1>1. CASE UploadBlob(w)
    <2>1. job[w] \in Uploading
      BY <1>1, JobKinds DEF UploadBlob, TypeOK
    <2> QED BY <1>1, <2>1 DEF UploadBlob, Becomes, TypeOK, Uploading, GcOps
  <1>2. CASE CopyFile(w)
    <2>1. job[w] \in Copying
      BY <1>2, JobKinds DEF CopyFile, TypeOK
    <2> QED BY <1>2, <2>1 DEF CopyFile, Becomes, TypeOK, Copying, GcOps
  <1>3. CASE WriteManifest(w) \/ WriteMeta(w) \/ SourceGone(w)
    BY <1>3 DEF WriteManifest, WriteMeta, SourceGone, Becomes, TypeOK, Idle, GcOps
  <1> QED BY <1>1, <1>2, <1>3

LEMMA RemovalStays ==
    ASSUME TypeOK, NEW w \in Worker, DeleteSide(w) \/ EndForget(w) \/ EndMigrate(w)
    PROVE  job'[w].op \notin GcOps \cup {"copy"}
  <1>1. CASE DeleteSide(w)
    <2>1. PICK side \in job[w].sides : Becomes(w, [job[w] EXCEPT !.sides = job[w].sides \ {side}])
      BY <1>1 DEF DeleteSide
    <2>2. \/ job[w] \in Forgetting
          \/ job[w] \in [op : {"migrate"}, target : {"blobs", "full"}, pending : SUBSET Stamp, sides : SUBSET Sides]
      BY <1>1, JobKinds DEF DeleteSide, TypeOK
    <2> QED BY <2>1, <2>2 DEF Becomes, TypeOK, Forgetting, GcOps
  <1>2. CASE EndForget(w) \/ EndMigrate(w)
    BY <1>2 DEF EndForget, EndMigrate, Becomes, TypeOK, Idle, GcOps
  <1> QED BY <1>1, <1>2

LEMMA MigrationStays ==
    ASSUME TypeOK, NEW w \in Worker,
           \/ ConvertToBlobs(w) \/ UploadCopy(w) \/ WriteConverted(w)
           \/ ConvertToFull(w) \/ Materialise(w) \/ WriteConvertedMeta(w)
           \/ DropSource(w) \/ KeepSource(w) \/ ConvertFail(w)
    PROVE  job'[w].op \notin GcOps \cup {"copy"}
  <1> USE JobKinds DEF Becomes, TypeOK, GcOps
  <1>1. CASE ConvertToBlobs(w) \/ WriteConverted(w) \/ WriteConvertedMeta(w)
    BY <1>1 DEF ConvertToBlobs, WriteConverted, WriteConvertedMeta, Converted
  <1>2. CASE UploadCopy(w)
    BY <1>2 DEF UploadCopy
  <1>3. CASE ConvertToFull(w)
    BY <1>3 DEF ConvertToFull, ConvertsNext
  <1>4. CASE Materialise(w)
    BY <1>4 DEF Materialise
  <1>5. CASE DropSource(w) \/ KeepSource(w) \/ ConvertFail(w)
    BY <1>5 DEF DropSource, KeepSource, ConvertFail, Resumed
  <1> QED BY <1>1, <1>2, <1>3, <1>4, <1>5

LEMMA OthersBegin ==
    ASSUME TypeOK, NEW w \in Worker, Begin(w), ~BeginGc(w)
    PROVE  job'[w].op \notin GcOps /\ (job'[w].op = "copy" => BeginFull(w))
  BY PruneForgets DEF Begin, BeginBlobs, BeginFull, BeginForget, Forgets, BeginMigrate, Begins, TypeOK, GcOps

LEMMA OnlyGcCollects ==
    ASSUME TypeOK, NEW w \in Worker, Step(w), job[w].op \notin GcOps, ~BeginGc(w)
    PROVE  job'[w].op \notin GcOps
  <1>1. CASE Begin(w)
    BY <1>1, OthersBegin
  <1>2. CASE Abandon(w)
    BY <1>2 DEF Abandon, Becomes, TypeOK, Idle, GcOps
  <1>3. CASE Proceed(w)
    <2>1. ~ReadManifests(w) /\ ~Sweep(w) /\ ~SweepFail(w) /\ ~EndGc(w)
      BY DEF ReadManifests, Sweep, SweepFail, EndGc, GcOps
    <2> QED BY <1>3, <2>1, CreateStays, RemovalStays, MigrationStays DEF Proceed
  <1> QED BY <1>1, <1>2, <1>3 DEF Step

LEMMA SweepGoesOn ==
    ASSUME TypeOK, NEW w \in Worker, Sweep(w) \/ SweepFail(w) PROVE job'[w].op = "sweep"
  <1>1. job[w] \in [op : {"sweep"}, blobs : SUBSET Content, failed : SUBSET Content]
    BY JobKinds DEF Sweep, SweepFail, TypeOK
  <1>2. CASE Sweep(w)
    BY <1>1, <1>2 DEF Sweep, Becomes, TypeOK
  <1>3. CASE SweepFail(w)
    BY <1>1, <1>3 DEF SweepFail, Becomes, TypeOK
  <1> QED BY <1>2, <1>3

(* A gc that looks at, deletes or passes over a blob goes on to account for all. *)
LEMMA GcAccounts ==
    ASSUME TypeOK, NEW w \in Worker,
           job[w].op = "gc" => SeenOK(job[w]),
           job[w].op = "sweep" => CollectOK(job[w]),
           ReadManifests(w) \/ Sweep(w) \/ SweepFail(w) \/ EndGc(w) \/ Abandon(w)
    PROVE  job'[w] = Idle \/ (job'[w].op = "sweep" /\ CollectOK(job[w])')
  <1>1. CASE ReadManifests(w)
    <2>1. CASE Manifests = {}
      BY <1>1, <2>1 DEF ReadManifests, Becomes, TypeOK
    <2>2. CASE Manifests # {}
      <3>1. PICK read \in SUBSET Manifests :
              job'[w] = [op |-> "sweep", blobs |-> job[w].seen \ Referenced(read), failed |-> {}]
        BY <1>1, <2>2 DEF ReadManifests, Becomes, TypeOK
      <3>2. UNCHANGED <<blobs, manifest>> /\ Stored \subseteq job[w].seen
        BY <1>1 DEF ReadManifests, store, SeenOK
      <3>3. Referenced(read) \subseteq Referenced(Manifests)
        BY DEF Referenced
      <3>4. Stored' = Stored /\ Referenced(Manifests)' = Referenced(Manifests)
        BY <3>2 DEF Stored, Referenced, Manifests, Hashes
      <3> QED BY <3>1, <3>2, <3>3, <3>4 DEF CollectOK
    <2> QED BY <2>1, <2>2
  <1>2. CASE Sweep(w) \/ SweepFail(w)
    <2>1. job[w] \in [op : {"sweep"}, blobs : SUBSET Content, failed : SUBSET Content]
      BY <1>2, JobKinds DEF Sweep, SweepFail, TypeOK
    <2>2. PICK h \in job[w].blobs :
            \/ /\ blobs' = [blobs EXCEPT ![h] = None]
               /\ Becomes(w, [job[w] EXCEPT !.blobs = job[w].blobs \ {h}])
            \/ /\ blobs' = blobs
               /\ Becomes(w, [job[w] EXCEPT !.blobs = job[w].blobs \ {h}, !.failed = job[w].failed \cup {h}])
      BY <1>2 DEF Sweep, SweepFail, store
    <2>3. manifest' = manifest /\ Stored \subseteq Referenced(Manifests) \cup job[w].blobs \cup job[w].failed
      <3>1. job[w].op = "sweep" /\ CollectOK(job[w])
        BY <1>2 DEF Sweep, SweepFail
      <3> QED BY <1>2, <3>1 DEF Sweep, SweepFail, store, CollectOK
    <2>4. Referenced(Manifests)' = Referenced(Manifests)
      BY <2>3 DEF Referenced, Manifests, Hashes
    <2>5. CASE /\ blobs' = [blobs EXCEPT ![h] = None]
               /\ Becomes(w, [job[w] EXCEPT !.blobs = job[w].blobs \ {h}])
      <3>1. job'[w].op = "sweep" /\ job'[w].blobs = job[w].blobs \ {h} /\ job'[w].failed = job[w].failed
        BY <2>1, <2>5 DEF Becomes, TypeOK
      <3>2. Stored' \subseteq Stored \ {h}
        BY <2>5 DEF Stored, TypeOK
      <3> QED BY <2>3, <2>4, <3>1, <3>2 DEF CollectOK
    <2>6. CASE /\ blobs' = blobs
               /\ Becomes(w, [job[w] EXCEPT !.blobs = job[w].blobs \ {h}, !.failed = job[w].failed \cup {h}])
      <3>1. job'[w].op = "sweep" /\ job'[w].blobs = job[w].blobs \ {h} /\ job'[w].failed = job[w].failed \cup {h}
        BY <2>1, <2>6 DEF Becomes, TypeOK
      <3>2. Stored' = Stored
        BY <2>6 DEF Stored
      <3> QED BY <2>3, <2>4, <3>1, <3>2 DEF CollectOK
    <2> QED BY <2>2, <2>5, <2>6
  <1>3. CASE EndGc(w) \/ Abandon(w)
    BY <1>3 DEF EndGc, Abandon, Becomes, TypeOK
  <1> QED BY <1>1, <1>2, <1>3

LEMMA GInvStep ==
    ASSUME "gc" \in Alone, GInv, NEW w \in Worker, Step(w) PROVE GInv'
  <1>1. TypeOK'
    BY NextType DEF Step, Begin, GInv
  <1>2. \A v \in Worker : v # w => job'[v] = job[v]
    BY OthersStay DEF GInv
  <1>3. CASE job[w].op \in GcOps
    <2>1. \A v \in Worker : v # w => job'[v] = Idle
      BY <1>2, <1>3 DEF GInv, GcAlone
    <2>2. job'[w] = Idle \/ (job'[w].op = "sweep" /\ CollectOK(job[w])')
      BY <1>3, GcOnly, GcAccounts DEF GInv, Accounted
    <2>3. GcAlone'
      BY <2>1 DEF GcAlone, Idle, GcOps
    <2>4. Accounted'
      BY <2>1, <2>2 DEF Accounted, Idle
    <2> QED BY <1>1, <2>3, <2>4 DEF GInv
  <1>4. CASE job[w].op \notin GcOps /\ ~BeginGc(w)
    <2>1. \A v \in Worker : job'[v].op \notin GcOps
      BY <1>2, <1>4, NobodyCollects, OnlyGcCollects DEF GInv
    <2> QED BY <1>1, <2>1 DEF GInv, GcAlone, Accounted, GcOps
  <1>5. CASE BeginGc(w)
    <2>1. job'[w] = [op |-> "gc", seen |-> Stored] /\ UNCHANGED blobs /\ \A v \in Worker : job[v] = Idle
      BY <1>5 DEF BeginGc, Begins, GInv, TypeOK, store
    <2>2. SeenOK(job[w])'
      BY <2>1 DEF SeenOK, Stored
    <2>3. \A v \in Worker : v # w => job'[v] = Idle
      BY <1>2, <2>1
    <2>4. GcAlone' /\ Accounted'
      BY <2>1, <2>2, <2>3 DEF GcAlone, Accounted, Idle, GcOps
    <2> QED BY <1>1, <2>4 DEF GInv
  <1> QED BY <1>3, <1>4, <1>5

LEMMA GInvStutter == ASSUME GInv, UNCHANGED vars PROVE GInv'
  BY DEF GInv, TypeOK, GcAlone, Accounted, SeenOK, CollectOK, Stored, Referenced, Manifests, Hashes, vars

LEMMA GInvInit == Init => GInv
  BY InitType DEF Init, GInv, GcAlone, Accounted, Idle, GcOps

(* A gc that nothing runs next to sweeps all: what is stored when it ends is      *)
(* named by a manifest, or is one it has reported, even after creates and         *)
(* conversions that were interrupted, and whatever it could not read (gc in       *)
(* snapshots.py).                                                                 *)
THEOREM SweptHolds ==
    ASSUME "gc" \in Alone PROVE Spec => Swept
  <1> DEFINE Ended ==
        \A w \in Worker :
          job[w].op \in {"gc", "sweep"} /\ job'[w] = Idle /\ faults' = faults /\ Manifests # {}
          => Stored \subseteq Referenced(Manifests) \cup (IF job[w].op = "sweep" THEN job[w].failed ELSE {})
  <1>1. ASSUME GInv, Next PROVE GInv' /\ Ended
    <2>1. PICK v \in Worker : Step(v)
      BY <1>1 DEF Next, Step, Begin
    <2>2. GInv'
      BY <1>1, <2>1, GInvStep
    <2>3. ASSUME NEW w \in Worker, job[w].op \in {"gc", "sweep"}, job'[w] = Idle, faults' = faults, Manifests # {}
          PROVE  Stored \subseteq Referenced(Manifests) \cup (IF job[w].op = "sweep" THEN job[w].failed ELSE {})
      <3>1. w = v
        BY <1>1, <2>1, <2>3, OthersStay DEF GInv, Idle
      <3>2. ReadManifests(w) \/ Sweep(w) \/ SweepFail(w) \/ EndGc(w) \/ Abandon(w)
        BY <2>1, <2>3, <3>1, GcOnly DEF GcOps
      <3>3. ~ReadManifests(w) /\ ~Abandon(w)
        BY <1>1, <2>3 DEF ReadManifests, Abandon, Becomes, GInv, TypeOK, Idle
      <3>4. ~Sweep(w) /\ ~SweepFail(w)
        BY <1>1, <2>3, SweepGoesOn DEF GInv, Idle
      <3> QED BY <1>1, <3>2, <3>3, <3>4 DEF EndGc, GInv, Accounted, CollectOK
    <2> QED BY <2>2, <2>3
  <1>2. ASSUME GInv, [Next]_vars PROVE GInv' /\ [Ended]_vars
    BY <1>1, <1>2, GInvStutter
  <1>3. Spec => [][Ended]_vars
    <2> HIDE DEF Ended
    <2> QED BY <1>2, GInvInit, PTL DEF Spec
  <1> QED BY <1>3 DEF Swept

-----------------------------------------------------------------------------
(* SnapshotStore implements SnapshotVault, when nothing gets in its way.     *)

(* What the theorem is about: gc and migrate run alone on the backend, files may *)
(* vanish during a create but are not edited, gc reads every manifest, and no    *)
(* conversion to full copies is interrupted.                                     *)
Quiet ==
    /\ Alone = {"gc", "migrate"}
    /\ Meanwhile \subseteq {Absent}
    /\ Faults \cap {"read", "toFull"} = {}

-----------------------------------------------------------------------------
(* The inductive invariant *)

\* A blob has the bytes its name promises.
Named == \A h \in Content : blobs[h] \in {None, h}

\* What a manifest names is stored.
Backed == \A t \in Manifests : Hashes(manifest[t]) \subseteq Stored

\* A snapshot in both formats is the same in both, unless the folder is being filled.
Twins ==
    \A t \in Manifests \cap Folders :
       \/ folder[t].files = manifest[t]
       \/ \E w \in Worker : job[w].op = "toFull" /\ job[w].stamp = t

\* Only timestamps that were given out have a snapshot.
Fresh == \A t \in Listed : t <= clock

CreateOps == {"upload", "copy"}
AloneOps == {"gc", "sweep", "migrate", "toBlobs", "toFull", "drop"}

\* Every create has its own timestamp.
Distinct ==
    \A v, w \in Worker :
       v # w /\ job[v].op \in CreateOps /\ job[w].op \in CreateOps => job[v].stamp # job[w].stamp

Exclusive == \A v, w \in Worker : v # w /\ job[w].op \in AloneOps => job[v] = Idle

(* What each command may rely on. *)
UploadOK(j) ==
    /\ j.stamp <= clock /\ j.stamp \notin Listed
    /\ Hashes(j.files) \subseteq Stored \cup j.blobs
CopyOK(j) == j.stamp <= clock /\ j.stamp \notin Manifests
SweepOK(j) == j.blobs \cap Referenced(Manifests) = {}
ForgetOK(j) == \A side \in j.sides : side[2] \in asked
PendingOK(j) == j.target = "blobs" => j.pending \subseteq Folders
MigrateOK(j) ==
    /\ PendingOK(j)
    /\ \A side \in j.sides : /\ side[1] = Source(j.target)
                             /\ side[2] \in (Manifests \cap Folders) \ j.pending
ToBlobsOK(j) ==
    /\ PendingOK(j)
    /\ j.stamp \in Folders \ j.pending
    /\ j.files = Copies(j.stamp)
    /\ Hashes(j.files) \subseteq Stored \cup j.blobs
ToFullOK(j) ==
    /\ j.stamp \in Manifests \ j.pending
    /\ j.files = manifest[j.stamp]
    /\ j.paths \subseteq Present(j.files)
    /\ \A p \in Path \ j.paths : Copies(j.stamp)[p] = j.files[p]
DropOK(j) == PendingOK(j) /\ j.stamp \in (Manifests \cap Folders) \ j.pending

JobOK(j) ==
    /\ j.op = "upload" => UploadOK(j)
    /\ j.op = "copy" => CopyOK(j)
    /\ j.op = "sweep" => SweepOK(j)
    /\ j.op = "forget" => ForgetOK(j)
    /\ j.op = "migrate" => MigrateOK(j)
    /\ j.op = "toBlobs" => ToBlobsOK(j)
    /\ j.op = "toFull" => ToFullOK(j)
    /\ j.op = "drop" => DropOK(j)

Jobs == Distinct /\ Exclusive /\ \A w \in Worker : JobOK(job[w])

IInv == TypeOK /\ Named /\ Backed /\ Twins /\ Fresh /\ Jobs

-----------------------------------------------------------------------------
(* What a restore yields, seen from the invariant.                               *)

CopiedTo(t) == \E w \in Worker : job[w].op = "copy" /\ job[w].stamp = t

Whole(t) ==
    IF CopiedTo(t) \/ t \notin Listed THEN None
    ELSE IF t \in Manifests THEN manifest[t] ELSE folder[t].files

LEMMA RestoresManifest ==
    ASSUME TypeOK, Named, Backed, NEW t \in Manifests PROVE RestoreOf(t) = manifest[t]
  <1>1. t \in Stamp /\ manifest[t] \in Files
    BY DEF Manifests, TypeOK
  <1>2. ASSUME NEW p \in Path
        PROVE  manifest[t][p] = IF p \in Present(manifest[t]) /\ blobs[manifest[t][p]] = manifest[t][p]
                                THEN manifest[t][p] ELSE Absent
    <2>1. CASE manifest[t][p] = Absent
      BY <2>1
    <2>2. CASE manifest[t][p] # Absent
      <3>1. manifest[t][p] \in Hashes(manifest[t])
        BY <2>2 DEF Hashes
      <3>2. manifest[t][p] \in Stored
        BY <3>1 DEF Backed
      <3> QED BY <2>2, <3>2 DEF Stored, Named, Present
    <2> QED BY <2>1, <2>2
  <1> QED BY <1>1, <1>2 DEF RestoreOf, Files

LEMMA VaultIsWhole ==
    TypeOK /\ Named /\ Backed => \A t \in Stamp : Vault(t) = Whole(t) /\ Vault(t) \in Files \cup {None}
  <1> SUFFICES ASSUME TypeOK, Named, Backed, NEW t \in Stamp
               PROVE  Vault(t) = Whole(t) /\ Vault(t) \in Files \cup {None}
    OBVIOUS
  <1>1. CASE CopiedTo(t) \/ t \notin Listed
    BY <1>1 DEF Vault, Whole, CopiedTo
  <1>2. CASE ~CopiedTo(t) /\ t \in Manifests
    BY <1>2, RestoresManifest DEF Vault, Whole, CopiedTo, Listed, Manifests, TypeOK
  <1>3. CASE ~CopiedTo(t) /\ t \in Folders /\ t \notin Manifests
    <2>1. folder[t] # None /\ folder[t] \in Folder
      BY <1>3 DEF Folders, TypeOK
    <2>2. Vault(t) = folder[t].files
      BY <1>3, <2>1 DEF Vault, RestoreOf, Copies, Listed, CopiedTo
    <2> QED BY <1>3, <2>1, <2>2 DEF Whole, Listed, Folder
  <1> QED BY <1>1, <1>2, <1>3 DEF Listed

LEMMA VaultIsWholeNext ==
    (TypeOK /\ Named /\ Backed => \A t \in Stamp : Vault(t) = Whole(t) /\ Vault(t) \in Files \cup {None})'
  BY VaultIsWhole, PTL

(* A step of the store is one of the vault, or none. *)
Kept == \A t \in Stamp : Whole(t)' = Whole(t)
KeptBut(s) == \A t \in Stamp \ {s} : Whole(t)' = Whole(t)

VaultStep ==
    \/ Kept /\ \E S \in SUBSET Stamp : asked' = asked \cup S
    \/ /\ \E s \in Stamp : KeptBut(s) /\ (Whole(s) = None \/ s \in asked)
       /\ asked' = asked

LEMMA StepMaps ==
    ASSUME IInv, IInv', VaultStep PROVE [Promise!Next]_(Promise!vars)
  <1> DEFINE vault == [t \in Stamp |-> Vault(t)]
  <1>1. \A t \in Stamp : Vault(t) = Whole(t)
    BY VaultIsWhole DEF IInv
  <1>2. \A t \in Stamp : Vault(t)' = Whole(t)' /\ Vault(t)' \in Files \cup {None}
    BY VaultIsWholeNext DEF IInv
  <1>3. CASE Kept /\ \E S \in SUBSET Stamp : asked' = asked \cup S
    <2>1. PICK S \in SUBSET Stamp : asked' = asked \cup S
      BY <1>3
    <2>2. vault' = vault
      BY <1>1, <1>2, <1>3 DEF Kept
    <2>3. Promise!Ask(S)
      BY <2>1, <2>2 DEF Promise!Ask
    <2> QED BY <2>3 DEF Promise!Next
  <1>4. CASE /\ \E s \in Stamp : KeptBut(s) /\ (Whole(s) = None \/ s \in asked)
             /\ asked' = asked
    <2>1. PICK s \in Stamp : KeptBut(s) /\ (Whole(s) = None \/ s \in asked)
      BY <1>4
    <2>2. vault' = [vault EXCEPT ![s] = Vault(s)']
      BY <1>1, <1>2, <2>1 DEF KeptBut
    <2>3. CASE s \in asked
      <3>1. Promise!Drop(s)
        BY <1>2, <1>4, <2>2, <2>3 DEF Promise!Drop
      <3> QED BY <3>1 DEF Promise!Next
    <2>4. CASE Whole(s) = None /\ Vault(s)' = None
      <3>1. vault' = vault
        BY <1>1, <2>2, <2>4
      <3> QED BY <1>4, <3>1 DEF Promise!vars
    <2>5. CASE Whole(s) = None /\ Vault(s)' \in Files
      <3>1. Promise!Take(s)
        BY <1>1, <1>4, <2>2, <2>5 DEF Promise!Take
      <3> QED BY <3>1 DEF Promise!Next
    <2> QED BY <1>2, <2>1, <2>3, <2>4, <2>5
  <1> QED BY <1>3, <1>4 DEF VaultStep

-----------------------------------------------------------------------------
(* What an action has to show, and what spares it from showing most of it.       *)

StepOK == (Named /\ Backed /\ Twins /\ Fresh /\ Jobs)' /\ VaultStep

(* No folder is being filled, so both formats of a snapshot agree. *)
Agree == \A t \in Manifests \cap Folders : folder[t].files = manifest[t]

LEMMA BeginsOpen ==
    ASSUME Quiet, TypeOK, NEW w \in Worker, NEW command, NEW first, Begins(w, command, first)
    PROVE  /\ job[w] = Idle
           /\ \A v \in Worker : job[v].op \notin AloneOps
           /\ command \in {"gc", "migrate"} => \A v \in Worker : job[v] = Idle
           /\ job' = [job EXCEPT ![w] = first]
           /\ job'[w] = first
           /\ \A v \in Worker : v # w => job'[v] = job[v]
  <1>1. ASSUME NEW v \in Worker, job[v].op \in AloneOps PROVE Command(v) \in Alone
    BY <1>1 DEF AloneOps, Command, Quiet
  <1> QED BY <1>1 DEF Begins, Quiet, TypeOK

LEMMA BecomesOne ==
    ASSUME TypeOK, NEW w \in Worker, NEW next, Becomes(w, next)
    PROVE  /\ job' = [job EXCEPT ![w] = next]
           /\ job'[w] = next
           /\ \A v \in Worker : v # w => job'[v] = job[v]
  BY DEF Becomes, TypeOK

(* Somebody in the middle of something other than filling a folder. *)
LEMMA AgreeIfBusy ==
    ASSUME IInv, NEW w \in Worker, job[w].op \notin {"idle", "toFull"} PROVE Agree
  BY DEF IInv, Jobs, Exclusive, AloneOps, Idle, Twins, Agree

LEMMA AgreeIfOpen ==
    ASSUME IInv, \A v \in Worker : job[v].op \notin AloneOps PROVE Agree
  BY DEF IInv, Twins, Agree, AloneOps

LEMMA JobsAlone ==
    ASSUME NEW w \in Worker, \A v \in Worker : v # w => job'[v] = Idle, JobOK(job[w])'
    PROVE  Jobs'
  <1>1. \A v \in Worker : v # w => JobOK(job[v])'
    BY DEF JobOK, Idle
  <1>2. Distinct' /\ Exclusive'
    BY DEF Distinct, Exclusive, CreateOps, AloneOps, Idle
  <1> QED BY <1>1, <1>2 DEF Jobs

LEMMA OthersIdle ==
    ASSUME IInv, NEW w \in Worker, job[w].op \in AloneOps, NEW v \in Worker, v # w
    PROVE  job[v] = Idle
  BY DEF IInv, Jobs, Exclusive

LEMMA OthersOpen ==
    ASSUME IInv, NEW w \in Worker, job[w] # Idle, NEW v \in Worker, v # w
    PROVE  job[v].op \notin AloneOps
  BY DEF IInv, Jobs, Exclusive

(* A step of a command that others may run next to, which touches none of the   *)
(* snapshots the others are creating.                                          *)
LEMMA JobsOpen ==
    ASSUME IInv, TypeOK', NEW w \in Worker, NEW own,
           \A v \in Worker : v # w => job'[v] = job[v] /\ job[v].op \notin AloneOps,
           \A v \in Worker : v # w /\ job[v].op \in CreateOps => job[v].stamp # own,
           job'[w].op \notin AloneOps, JobOK(job[w])',
           job'[w].op \in CreateOps => job'[w].stamp = own,
           Stored \subseteq Stored', clock <= clock', asked \subseteq asked',
           Manifests' \subseteq Manifests \cup {own}, Listed' \subseteq Listed \cup {own}
    PROVE  Jobs'
  <1>1. ASSUME NEW v \in Worker, v # w PROVE JobOK(job[v])'
    <2>1. JobOK(job[v]) /\ job'[v] = job[v] /\ job[v].op \notin AloneOps
      BY <1>1 DEF IInv, Jobs
    <2>2. CASE job[v].op = "upload"
      <3>1. UploadOK(job[v]) /\ job[v].stamp # own /\ job[v].stamp \in Stamp
        BY <1>1, <2>1, <2>2, JobKinds DEF JobOK, CreateOps, IInv, TypeOK, Uploading
      <3>2. job[v].stamp <= clock'
        BY <3>1, SnapshotStoreAssumption DEF UploadOK, IInv, TypeOK, Stamp
      <3>3. UploadOK(job[v])'
        BY <2>1, <3>1, <3>2 DEF UploadOK, Hashes
      <3> QED BY <2>1, <2>2, <3>3 DEF JobOK
    <2>3. CASE job[v].op = "copy"
      <3>1. CopyOK(job[v]) /\ job[v].stamp # own /\ job[v].stamp \in Stamp
        BY <1>1, <2>1, <2>3, JobKinds DEF JobOK, CreateOps, IInv, TypeOK, Copying
      <3>2. job[v].stamp <= clock'
        BY <3>1, SnapshotStoreAssumption DEF CopyOK, IInv, TypeOK, Stamp
      <3>3. CopyOK(job[v])'
        BY <2>1, <3>1, <3>2 DEF CopyOK
      <3> QED BY <2>1, <2>3, <3>3 DEF JobOK
    <2>4. CASE job[v].op = "forget"
      <3>1. ForgetOK(job[v])'
        BY <2>1, <2>4 DEF JobOK, ForgetOK
      <3> QED BY <2>1, <2>4, <3>1 DEF JobOK
    <2> QED BY <2>1, <2>2, <2>3, <2>4 DEF JobOK, AloneOps
  <1>2. Distinct'
    BY DEF Distinct, IInv, Jobs
  <1>3. Exclusive'
    BY DEF Exclusive
  <1> QED BY <1>1, <1>2, <1>3 DEF Jobs

(* A step that leaves manifests and folders alone and copies nothing. *)
LEMMA StoreStays ==
    ASSUME IInv, TypeOK', Agree, NEW w \in Worker, UNCHANGED <<manifest, folder>>,
           Named', Backed', Jobs', clock <= clock',
           \A v \in Worker : v # w => job'[v] = job[v], job[w].op # "copy", job'[w].op # "copy",
           asked \subseteq asked'
    PROVE  StepOK
  <1>1. Twins'
    BY DEF Agree, Twins, Manifests, Folders
  <1>2. Fresh'
    BY SnapshotStoreAssumption DEF Fresh, Listed, Manifests, Folders, IInv, TypeOK, Stamp
  <1>3. \A t \in Stamp : CopiedTo(t)' = CopiedTo(t)
    BY DEF CopiedTo
  <1>4. Kept
    BY <1>3 DEF Kept, Whole, Listed, Manifests, Folders
  <1>5. asked' \in SUBSET Stamp /\ asked' = asked \cup asked'
    BY DEF TypeOK
  <1> QED BY <1>1, <1>2, <1>4, <1>5 DEF StepOK, VaultStep

(* ... and only adds blobs, with the bytes their names promise. *)
LEMMA BlobsGrow ==
    ASSUME IInv, NEW h \in Content, blobs' = [blobs EXCEPT ![h] = h], UNCHANGED manifest
    PROVE  Named' /\ Backed' /\ Stored \subseteq Stored' /\ h \in Stored'
  <1>1. blobs' = [c \in Content |-> IF c = h THEN h ELSE blobs[c]]
    BY DEF IInv, TypeOK
  <1>2. Named'
    BY <1>1 DEF IInv, Named
  <1>3. Stored \subseteq Stored' /\ h \in Stored'
    BY <1>1, SnapshotStoreAssumption DEF Stored
  <1>4. Backed'
    BY <1>3 DEF IInv, Backed, Manifests, Hashes
  <1> QED BY <1>2, <1>3, <1>4

LEMMA BlobsStay ==
    ASSUME IInv, UNCHANGED <<blobs, manifest>> PROVE Named' /\ Backed' /\ Stored' = Stored
  BY DEF IInv, Named, Backed, Stored, Manifests, Hashes

-----------------------------------------------------------------------------
(* create                                                                        *)

LEMMA CreateStamps ==
    ASSUME IInv, NEW v \in Worker, job[v].op \in CreateOps
    PROVE  job[v].stamp \in Stamp /\ job[v].stamp <= clock /\ job[v].stamp \notin Manifests
  <1>1. JobOK(job[v]) /\ job[v] \in Job
    BY DEF IInv, Jobs, TypeOK
  <1>2. CASE job[v].op = "upload"
    BY <1>1, <1>2, JobKinds DEF JobOK, UploadOK, Uploading, Listed
  <1>3. CASE job[v].op = "copy"
    BY <1>1, <1>3, JobKinds DEF JobOK, CopyOK, Copying
  <1> QED BY <1>2, <1>3 DEF CreateOps

LEMMA ClockFacts ==
    ASSUME IInv PROVE clock \in Nat /\ clock + 1 \notin Listed /\ \A t \in Listed : t \in Stamp
  BY SnapshotStoreAssumption DEF IInv, TypeOK, Fresh, Listed, Manifests, Folders, Stamp

LEMMA BeginBlobsKeeps ==
    ASSUME Quiet, IInv, TypeOK', NEW w \in Worker, BeginBlobs(w) PROVE StepOK
  <1>1. PICK files \in Files, known \in {Stored, {}} :
          Begins(w, "upload", [op |-> "upload", stamp |-> clock + 1, files |-> files,
                               blobs |-> Hashes(files) \ known])
    BY DEF BeginBlobs
  <1> DEFINE first == [op |-> "upload", stamp |-> clock + 1, files |-> files,
                       blobs |-> Hashes(files) \ known]
  <1>2. /\ job[w] = Idle /\ job'[w] = first
        /\ \A v \in Worker : job[v].op \notin AloneOps
        /\ \A v \in Worker : v # w => job'[v] = job[v]
    BY <1>1, BeginsOpen DEF IInv
  <1>3. UNCHANGED <<blobs, manifest, folder, asked, faults>> /\ clock' = clock + 1
    BY DEF BeginBlobs, store
  <1>4. clock \in Nat /\ clock + 1 \notin Listed
    BY ClockFacts
  <1>5. Listed' = Listed /\ Manifests' = Manifests
    BY <1>3 DEF Listed, Manifests, Folders
  <1>6. Named' /\ Backed' /\ Stored' = Stored
    BY <1>3, BlobsStay
  <1>7. UploadOK(job[w])'
    <2>1. clock' <= clock' /\ clock' = clock + 1
      BY <1>3, <1>4
    <2>2. Hashes(files) \subseteq Stored \cup (Hashes(files) \ known)
      OBVIOUS
    <2> QED BY <1>2, <1>4, <1>5, <1>6, <2>1, <2>2 DEF UploadOK, Hashes
  <1>8. JobOK(job[w])'
    BY <1>2, <1>7 DEF JobOK
  <1>9. \A v \in Worker : v # w /\ job[v].op \in CreateOps => job[v].stamp # clock + 1
    BY <1>4, CreateStamps DEF Stamp
  <1>10. clock <= clock' /\ asked \subseteq asked'
    BY <1>3, <1>4
  <1>11. Jobs'
    <2>1. job'[w].op \notin AloneOps /\ (job'[w].op \in CreateOps => job'[w].stamp = clock + 1)
      BY <1>2 DEF AloneOps
    <2> QED BY <1>2, <1>5, <1>6, <1>8, <1>9, <1>10, <2>1, JobsOpen
  <1>12. Agree
    BY <1>2, AgreeIfOpen
  <1> QED
    BY <1>2, <1>3, <1>6, <1>10, <1>11, <1>12, StoreStays DEF Idle

LEMMA UploadBlobKeeps ==
    ASSUME Quiet, IInv, TypeOK', NEW w \in Worker, UploadBlob(w) PROVE StepOK
  <1>1. job[w].op = "upload" /\ job[w] \in Uploading /\ UploadOK(job[w])
    BY JobKinds DEF UploadBlob, IInv, TypeOK, Jobs, JobOK
  <1>2. PICK h \in job[w].blobs :
          /\ blobs' = [blobs EXCEPT ![h] = h]
          /\ Becomes(w, [job[w] EXCEPT !.blobs = job[w].blobs \ {h}])
    BY DEF UploadBlob, Quiet
  <1>3. /\ job'[w] = [job[w] EXCEPT !.blobs = job[w].blobs \ {h}]
        /\ \A v \in Worker : v # w => job'[v] = job[v]
    BY <1>2, BecomesOne DEF IInv
  <1>4. UNCHANGED <<manifest, folder, clock, asked, faults>> /\ h \in Content
    BY <1>1 DEF UploadBlob, Uploading
  <1>5. Named' /\ Backed' /\ Stored \subseteq Stored' /\ h \in Stored'
    BY <1>2, <1>4, BlobsGrow
  <1>6. Listed' = Listed /\ Manifests' = Manifests
    BY <1>4 DEF Listed, Manifests, Folders
  <1>7. /\ job'[w].op = "upload" /\ job'[w].stamp = job[w].stamp
        /\ job'[w].files = job[w].files /\ job'[w].blobs = job[w].blobs \ {h}
    BY <1>1, <1>3 DEF Uploading
  <1>8. UploadOK(job[w])'
    BY <1>1, <1>4, <1>5, <1>6, <1>7 DEF UploadOK, Hashes
  <1>9. JobOK(job[w])'
    BY <1>7, <1>8 DEF JobOK
  <1>10. clock <= clock' /\ asked \subseteq asked'
    BY <1>4, ClockFacts
  <1>11. Jobs'
    <2>1. \A v \in Worker : v # w => job'[v] = job[v] /\ job[v].op \notin AloneOps
      BY <1>1, <1>3, OthersOpen DEF Idle
    <2>2. \A v \in Worker : v # w /\ job[v].op \in CreateOps => job[v].stamp # job[w].stamp
      BY <1>1 DEF IInv, Jobs, Distinct, CreateOps
    <2> QED BY <1>5, <1>6, <1>7, <1>9, <1>10, <2>1, <2>2, JobsOpen DEF AloneOps
  <1>12. Agree
    BY <1>1, AgreeIfBusy
  <1> QED BY <1>1, <1>3, <1>4, <1>5, <1>7, <1>10, <1>11, <1>12, StoreStays

(* A step that only touches a folder, or a snapshot, that is nobody's yet. *)
LEMMA OwnSnapshot ==
    ASSUME IInv, TypeOK', Agree, NEW w \in Worker, NEW own \in Stamp, own <= clock', clock <= clock',
           Whole(own) = None, asked' = asked,
           own \notin (Manifests \cap Folders)',
           \A t \in Stamp \ {own} : manifest'[t] = manifest[t] /\ folder'[t] = folder[t],
           \A v \in Worker : v # w => job'[v] = job[v],
           job[w].op = "copy" => job[w].stamp = own, job'[w].op = "copy" => job'[w].stamp = own
    PROVE  Twins' /\ Fresh' /\ VaultStep
  <1>1. Twins'
    BY DEF Agree, Twins, Manifests, Folders
  <1>2. Fresh'
    BY SnapshotStoreAssumption DEF Fresh, Listed, Manifests, Folders, IInv, TypeOK, Stamp
  <1>3. \A t \in Stamp \ {own} : CopiedTo(t)' = CopiedTo(t)
    BY DEF CopiedTo
  <1>4. KeptBut(own)
    BY <1>3 DEF KeptBut, Whole, Listed, Manifests, Folders
  <1> QED BY <1>1, <1>2, <1>4 DEF VaultStep

LEMMA CopiedIsNone ==
    ASSUME NEW w \in Worker, job[w].op = "copy" PROVE Whole(job[w].stamp) = None
  BY DEF Whole, CopiedTo

(* A command ends, or is ended. *)
LEMMA EndKeeps ==
    ASSUME IInv, TypeOK', NEW w \in Worker, job[w].op \notin {"idle", "toFull"}, Becomes(w, Idle),
           UNCHANGED <<blobs, manifest, folder, clock, asked>>
    PROVE  StepOK
  <1>1. job'[w] = Idle /\ \A v \in Worker : v # w => job'[v] = job[v]
    BY BecomesOne DEF IInv
  <1>2. Agree
    BY AgreeIfBusy
  <1>3. Named' /\ Backed' /\ Stored' = Stored
    BY BlobsStay
  <1>4. JobOK(job[w])'
    BY <1>1 DEF JobOK, Idle
  <1>5. clock <= clock' /\ asked \subseteq asked'
    BY ClockFacts
  <1>6. Jobs'
    <2>1. \A v \in Worker : v # w => job'[v] = job[v] /\ job[v].op \notin AloneOps
      BY <1>1, OthersOpen DEF Idle
    <2>2. Manifests' = Manifests /\ Listed' = Listed
      BY DEF Manifests, Listed, Folders
    <2>3. \A v \in Worker : v # w /\ job[v].op \in CreateOps => job[v].stamp # 0
      BY CreateStamps DEF Stamp
    <2>4. job'[w].op \notin AloneOps /\ job'[w].op \notin CreateOps
      BY <1>1 DEF Idle, AloneOps, CreateOps
    <2>5. Manifests' \subseteq Manifests \cup {0} /\ Listed' \subseteq Listed \cup {0}
      BY <2>2
    <2> QED BY <1>3, <1>4, <1>5, <2>1, <2>3, <2>4, <2>5, JobsOpen
  <1>7. CASE job[w].op # "copy"
    BY <1>1, <1>2, <1>3, <1>5, <1>6, <1>7, StoreStays DEF Idle
  <1>8. CASE job[w].op = "copy"
    <2>1. /\ job[w].stamp \in Stamp /\ job[w].stamp <= clock
          /\ job[w].stamp \notin Manifests
      BY <1>8, CreateStamps DEF CreateOps
    <2>2. Whole(job[w].stamp) = None
      BY <1>8, CopiedIsNone
    <2>3. Manifests' = Manifests /\ Folders' = Folders
      BY DEF Manifests, Folders
    <2>4. Twins' /\ Fresh' /\ VaultStep
      BY <1>1, <1>2, <1>5, <2>1, <2>2, <2>3, OwnSnapshot DEF Idle
    <2> QED BY <1>3, <1>6, <2>4 DEF StepOK
  <1> QED BY <1>7, <1>8

LEMMA EndsKeep ==
    ASSUME Quiet, IInv, TypeOK', NEW w \in Worker,
           \/ SourceGone(w) \/ EndGc(w) \/ EndForget(w) \/ EndMigrate(w) \/ Abandon(w)
    PROVE  StepOK
  <1>1. /\ Becomes(w, Idle) /\ UNCHANGED <<blobs, manifest, folder, clock, asked>>
        /\ job[w].op \notin {"idle", "toFull"}
    BY SnapshotStoreAssumption
       DEF SourceGone, EndGc, EndForget, EndMigrate, Abandon, Fault, Quiet, FaultPoints, store
  <1> QED BY <1>1, EndKeeps

LEMMA WriteManifestKeeps ==
    ASSUME Quiet, IInv, TypeOK', NEW w \in Worker, WriteManifest(w) PROVE StepOK
  <1> DEFINE own == job[w].stamp
  <1>1. /\ job[w].op = "upload" /\ job[w] \in Uploading
        /\ own \in Stamp /\ own <= clock /\ own \notin Listed /\ Hashes(job[w].files) \subseteq Stored
    BY JobKinds DEF WriteManifest, IInv, TypeOK, Jobs, JobOK, UploadOK, Uploading
  <1>2. job'[w] = Idle /\ \A v \in Worker : v # w => job'[v] = job[v]
    BY BecomesOne DEF WriteManifest, IInv
  <1>3. UNCHANGED <<blobs, folder, clock, asked, faults>>
    BY DEF WriteManifest
  <1>4. /\ manifest'[own] = job[w].files
        /\ \A t \in Stamp \ {own} : manifest'[t] = manifest[t] /\ folder'[t] = folder[t]
    BY <1>1, <1>3 DEF WriteManifest, IInv, TypeOK
  <1>5. Named' /\ Stored' = Stored
    BY <1>3 DEF IInv, Named, Stored
  <1>6. Backed'
    BY <1>1, <1>4, <1>5 DEF IInv, Backed, Manifests, Hashes
  <1>7. own \notin Manifests \cap Folders /\ own \notin (Manifests \cap Folders)' /\ Whole(own) = None
    BY <1>1, <1>3 DEF Listed, Folders, Manifests, Whole
  <1>8. Agree
    BY <1>1, AgreeIfBusy
  <1>9. clock <= clock' /\ own <= clock' /\ asked' = asked
    BY <1>1, <1>3, ClockFacts
  <1>10. Twins' /\ Fresh' /\ VaultStep
    BY <1>1, <1>2, <1>4, <1>7, <1>8, <1>9, OwnSnapshot DEF Idle
  <1>11. Jobs'
    <2>1. \A v \in Worker : v # w => job'[v] = job[v] /\ job[v].op \notin AloneOps
      BY <1>1, <1>2, OthersOpen DEF Idle
    <2>2. \A v \in Worker : v # w /\ job[v].op \in CreateOps => job[v].stamp # own
      BY <1>1 DEF IInv, Jobs, Distinct, CreateOps
    <2>3. Manifests' \subseteq Manifests \cup {own} /\ Listed' \subseteq Listed \cup {own}
      BY <1>3, <1>4 DEF Manifests, Listed, Folders
    <2>4. JobOK(job[w])'
      BY <1>2 DEF JobOK, Idle
    <2> QED BY <1>2, <1>5, <1>9, <2>1, <2>2, <2>3, <2>4, JobsOpen DEF Idle, AloneOps, CreateOps
  <1> QED BY <1>5, <1>6, <1>10, <1>11 DEF StepOK

(* A step of a full create, from the folder to the metadata. *)
LEMMA CopyKeeps ==
    ASSUME IInv, TypeOK', Agree, NEW w \in Worker, NEW own \in Stamp, own <= clock', clock <= clock',
           Whole(own) = None, own \notin Manifests, UNCHANGED <<blobs, manifest, asked>>,
           \A t \in Stamp \ {own} : folder'[t] = folder[t],
           \A v \in Worker : v # w => job'[v] = job[v] /\ job[v].op \notin AloneOps,
           \A v \in Worker : v # w /\ job[v].op \in CreateOps => job[v].stamp # own,
           job[w].op = "copy" => job[w].stamp = own,
           job'[w] = Idle \/ (job'[w].op = "copy" /\ job'[w].stamp = own)
    PROVE  StepOK
  <1>1. Named' /\ Backed' /\ Stored' = Stored
    BY BlobsStay
  <1>2. Manifests' = Manifests /\ Listed' \subseteq Listed \cup {own}
    BY DEF Manifests, Listed, Folders
  <1>3. /\ own \notin (Manifests \cap Folders)'
        /\ \A t \in Stamp \ {own} : manifest'[t] = manifest[t] /\ folder'[t] = folder[t]
    BY <1>2
  <1>4. job'[w].op = "copy" => job'[w].stamp = own
    BY DEF Idle
  <1>5. Twins' /\ Fresh' /\ VaultStep
    BY <1>3, <1>4, OwnSnapshot
  <1>6. JobOK(job[w])'
    BY <1>2 DEF JobOK, CopyOK, Idle
  <1>7. job'[w].op \notin AloneOps /\ (job'[w].op \in CreateOps => job'[w].stamp = own)
    BY DEF Idle, AloneOps, CreateOps
  <1>8. Jobs'
    BY <1>1, <1>2, <1>6, <1>7, JobsOpen
  <1> QED BY <1>1, <1>5, <1>8 DEF StepOK

LEMMA BeginFullKeeps ==
    ASSUME Quiet, IInv, TypeOK', NEW w \in Worker, BeginFull(w) PROVE StepOK
  <1>1. PICK files \in Files :
          Begins(w, "copy", [op |-> "copy", stamp |-> clock + 1, files |-> files, paths |-> Present(files)])
    BY DEF BeginFull
  <1>2. /\ job[w] = Idle
        /\ job'[w] = [op |-> "copy", stamp |-> clock + 1, files |-> files, paths |-> Present(files)]
        /\ \A v \in Worker : job[v].op \notin AloneOps
        /\ \A v \in Worker : v # w => job'[v] = job[v]
    BY <1>1, BeginsOpen DEF IInv
  <1>3. /\ UNCHANGED <<blobs, manifest, asked>> /\ clock' = clock + 1
        /\ clock + 1 \in Stamp
        /\ \A t \in Stamp \ {clock + 1} : folder'[t] = folder[t]
    BY SnapshotStoreAssumption DEF BeginFull, IInv, TypeOK, Stamp
  <1>4. clock \in Nat /\ clock + 1 \notin Listed
    BY ClockFacts
  <1>5. Whole(clock + 1) = None /\ clock + 1 \notin Manifests
    BY <1>4 DEF Whole, Listed
  <1>6. \A v \in Worker : v # w /\ job[v].op \in CreateOps => job[v].stamp # clock + 1
    BY <1>4, CreateStamps DEF Stamp
  <1>7. clock + 1 <= clock' /\ clock <= clock'
    BY <1>3, <1>4
  <1>8. Agree
    BY <1>2, AgreeIfOpen
  <1>9. /\ job[w].op = "copy" => job[w].stamp = clock + 1
        /\ job'[w].op = "copy" /\ job'[w].stamp = clock + 1
    BY <1>2 DEF Idle
  <1> QED BY <1>2, <1>3, <1>5, <1>6, <1>7, <1>8, <1>9, CopyKeeps

LEMMA CopyingKeeps ==
    ASSUME Quiet, IInv, TypeOK', NEW w \in Worker, CopyFile(w) \/ WriteMeta(w) PROVE StepOK
  <1> DEFINE own == job[w].stamp
  <1>1. job[w].op = "copy" /\ job[w] \in Copying
    BY JobKinds DEF CopyFile, WriteMeta, IInv, TypeOK
  <1>2. own \in Stamp /\ own <= clock /\ own \notin Manifests /\ Whole(own) = None
    BY <1>1, CreateStamps, CopiedIsNone DEF CreateOps
  <1>3. UNCHANGED <<blobs, manifest, asked>> /\ clock' = clock
    BY DEF CopyFile, WriteMeta
  <1>4. \A t \in Stamp \ {own} : folder'[t] = folder[t]
    BY <1>2 DEF CopyFile, WriteMeta, Put, PutMeta, IInv, TypeOK
  <1>5. /\ \A v \in Worker : v # w => job'[v] = job[v]
        /\ job'[w] = Idle \/ (job'[w].op = "copy" /\ job'[w].stamp = own)
    <2>1. CASE WriteMeta(w)
      BY <2>1, BecomesOne DEF WriteMeta, IInv
    <2>2. CASE CopyFile(w)
      <3>1. PICK p \in job[w].paths : Becomes(w, [job[w] EXCEPT !.paths = job[w].paths \ {p}])
        BY <2>2 DEF CopyFile
      <3>2. /\ job'[w] = [job[w] EXCEPT !.paths = job[w].paths \ {p}]
            /\ \A v \in Worker : v # w => job'[v] = job[v]
        BY <3>1, BecomesOne DEF IInv
      <3> QED BY <1>1, <3>2 DEF Copying
    <2> QED BY <2>1, <2>2
  <1>6. \A v \in Worker : v # w => job'[v] = job[v] /\ job[v].op \notin AloneOps
    BY <1>1, <1>5, OthersOpen DEF Idle
  <1>7. \A v \in Worker : v # w /\ job[v].op \in CreateOps => job[v].stamp # own
    BY <1>1 DEF IInv, Jobs, Distinct, CreateOps
  <1>8. Agree
    BY <1>1, AgreeIfBusy
  <1>9. own <= clock' /\ clock <= clock'
    BY <1>2, <1>3, ClockFacts
  <1> QED BY <1>2, <1>3, <1>4, <1>5, <1>6, <1>7, <1>8, <1>9, CopyKeeps

-----------------------------------------------------------------------------
(* gc                                                                            *)

(* A step of a command that runs alone, which changes no manifest and no folder. *)
LEMMA AloneStays ==
    ASSUME IInv, TypeOK', Agree, NEW w \in Worker, NEW next, Becomes(w, next),
           job[w].op \in AloneOps, next.op # "copy",
           UNCHANGED <<manifest, folder, clock, asked>>, Named', Backed', JobOK(job[w])'
    PROVE  StepOK
  <1>1. job'[w] = next /\ \A v \in Worker : v # w => job'[v] = job[v] /\ job[v] = Idle
    BY BecomesOne, OthersIdle DEF IInv
  <1>2. Jobs'
    BY <1>1, JobsAlone
  <1>3. clock <= clock' /\ asked \subseteq asked' /\ job[w].op # "copy"
    BY ClockFacts DEF AloneOps
  <1> QED BY <1>1, <1>2, <1>3, StoreStays

(* A command that runs alone begins. *)
LEMMA AloneBegins ==
    ASSUME Quiet, IInv, TypeOK', NEW w \in Worker, NEW command \in {"gc", "migrate"}, NEW first,
           Begins(w, command, first), first.op # "copy",
           UNCHANGED <<store, clock, asked, faults>>, JobOK(job[w])'
    PROVE  StepOK
  <1>1. /\ job'[w] = first /\ job[w].op # "copy"
        /\ \A v \in Worker : v # w => job'[v] = job[v] /\ job[v] = Idle
        /\ \A v \in Worker : job[v].op \notin AloneOps
    BY BeginsOpen DEF IInv, Idle
  <1>2. Jobs'
    BY <1>1, JobsAlone
  <1>3. clock <= clock' /\ asked \subseteq asked'
    BY ClockFacts
  <1>4. UNCHANGED <<blobs, manifest, folder>>
    BY DEF store
  <1>5. Named' /\ Backed'
    BY <1>4, BlobsStay
  <1>6. Agree
    BY <1>1, AgreeIfOpen
  <1> QED BY <1>1, <1>2, <1>3, <1>4, <1>5, <1>6, StoreStays

LEMMA BeginGcKeeps ==
    ASSUME Quiet, IInv, TypeOK', NEW w \in Worker, BeginGc(w) PROVE StepOK
  <1> DEFINE first == [op |-> "gc", seen |-> Stored]
  <1>1. Begins(w, "gc", first) /\ UNCHANGED <<store, clock, asked, faults>>
    BY DEF BeginGc
  <1>2. job'[w] = first
    BY <1>1, BeginsOpen DEF IInv
  <1>3. JobOK(job[w])'
    BY <1>2 DEF JobOK
  <1>4. first.op # "copy"
    OBVIOUS
  <1> HIDE DEF first
  <1> QED BY <1>1, <1>3, <1>4, AloneBegins

LEMMA ReadManifestsKeeps ==
    ASSUME Quiet, IInv, TypeOK', NEW w \in Worker, ReadManifests(w) PROVE StepOK
  <1>1. job[w].op = "gc" /\ UNCHANGED <<blobs, manifest, folder, clock, asked>>
    BY DEF ReadManifests, store
  <1>2. CASE Manifests = {}
    <2>1. Becomes(w, Idle)
      BY <1>2 DEF ReadManifests
    <2> QED BY <1>1, <2>1, EndKeeps
  <1>3. CASE Manifests # {}
    <2> DEFINE next == [op |-> "sweep", blobs |-> job[w].seen \ Referenced(Manifests), failed |-> {}]
    <2>1. Becomes(w, next)
      BY <1>3 DEF ReadManifests, Fault, Quiet
    <2>2. job'[w] = next
      BY <2>1, BecomesOne DEF IInv
    <2>3. Referenced(Manifests)' = Referenced(Manifests)
      BY <1>1 DEF Referenced, Manifests, Hashes
    <2>4. JobOK(job[w])'
      BY <2>2, <2>3 DEF JobOK, SweepOK
    <2>5. Named' /\ Backed'
      BY <1>1, BlobsStay
    <2>6. Agree /\ next.op # "copy" /\ job[w].op \in AloneOps
      BY <1>1, AgreeIfBusy DEF AloneOps
    <2> HIDE DEF next
    <2> QED BY <1>1, <2>1, <2>4, <2>5, <2>6, AloneStays
  <1> QED BY <1>2, <1>3

LEMMA SweepKeeps ==
    ASSUME Quiet, IInv, TypeOK', NEW w \in Worker, Sweep(w) \/ SweepFail(w) PROVE StepOK
  <1>1. /\ job[w].op = "sweep"
        /\ job[w] \in [op : {"sweep"}, blobs : SUBSET Content, failed : SUBSET Content]
        /\ job[w].blobs \cap Referenced(Manifests) = {}
    BY JobKinds DEF Sweep, SweepFail, IInv, TypeOK, Jobs, JobOK, SweepOK
  <1>2. UNCHANGED <<manifest, folder, clock, asked>>
    BY DEF Sweep, SweepFail, store
  <1>3. PICK h \in job[w].blobs :
          /\ \E next : Becomes(w, next) /\ next.op = "sweep" /\ next.blobs = job[w].blobs \ {h}
          /\ blobs' \in {blobs, [blobs EXCEPT ![h] = None]}
    <2>1. CASE Sweep(w)
      <3>1. PICK h \in job[w].blobs :
              /\ blobs' = [blobs EXCEPT ![h] = None]
              /\ Becomes(w, [job[w] EXCEPT !.blobs = job[w].blobs \ {h}])
        BY <2>1 DEF Sweep
      <3> DEFINE next == [job[w] EXCEPT !.blobs = job[w].blobs \ {h}]
      <3>2. Becomes(w, next) /\ next.op = "sweep" /\ next.blobs = job[w].blobs \ {h}
        BY <1>1, <3>1
      <3> HIDE DEF next
      <3> QED BY <3>1, <3>2
    <2>2. CASE SweepFail(w)
      <3>1. PICK h \in job[w].blobs :
              Becomes(w, [job[w] EXCEPT !.blobs = job[w].blobs \ {h},
                                        !.failed = job[w].failed \cup {h}])
        BY <2>2 DEF SweepFail
      <3> DEFINE next == [job[w] EXCEPT !.blobs = job[w].blobs \ {h}, !.failed = job[w].failed \cup {h}]
      <3>2. Becomes(w, next) /\ next.op = "sweep" /\ next.blobs = job[w].blobs \ {h}
        BY <1>1, <3>1
      <3>3. UNCHANGED blobs
        BY <2>2 DEF SweepFail, store
      <3> HIDE DEF next
      <3> QED BY <3>2, <3>3
    <2> QED BY <2>1, <2>2
  <1>4. PICK next : Becomes(w, next) /\ next.op = "sweep" /\ next.blobs = job[w].blobs \ {h}
    BY <1>3
  <1>5. job'[w] = next
    BY <1>4, BecomesOne DEF IInv
  <1>6. Referenced(Manifests)' = Referenced(Manifests) /\ Manifests' = Manifests
    BY <1>2 DEF Referenced, Manifests, Hashes
  <1>7. JobOK(job[w])'
    BY <1>1, <1>4, <1>5, <1>6 DEF JobOK, SweepOK
  <1>8. h \in Content /\ h \notin Referenced(Manifests)
    BY <1>1, <1>3
  <1>9. Named'
    BY <1>3, <1>8 DEF IInv, TypeOK, Named
  <1>10. Stored \ {h} \subseteq Stored'
    BY <1>3, <1>8 DEF IInv, TypeOK, Stored
  <1>11. Backed'
    BY <1>2, <1>6, <1>8, <1>10 DEF IInv, Backed, Referenced, Hashes
  <1>12. Agree /\ next.op # "copy" /\ job[w].op \in AloneOps
    BY <1>1, <1>4, AgreeIfBusy DEF AloneOps
  <1> QED BY <1>2, <1>4, <1>7, <1>9, <1>11, <1>12, AloneStays

-----------------------------------------------------------------------------
(* forget                                                                        *)

LEMMA BeginForgetKeeps ==
    ASSUME Quiet, IInv, TypeOK', NEW w \in Worker, BeginForget(w) PROVE StepOK
  <1>1. PICK sides \in SUBSET SidesOf(Listed) :
          /\ Begins(w, "forget", [op |-> "forget", sides |-> sides])
          /\ asked' = asked \cup {side[2] : side \in sides}
          /\ UNCHANGED <<blobs, manifest, folder, clock, faults>>
    BY DEF BeginForget, Selections, Forgets, store
  <1>2. /\ job[w] = Idle /\ job'[w] = [op |-> "forget", sides |-> sides]
        /\ \A v \in Worker : job[v].op \notin AloneOps
        /\ \A v \in Worker : v # w => job'[v] = job[v]
    BY <1>1, BeginsOpen DEF IInv
  <1>3. Named' /\ Backed' /\ Stored' = Stored
    BY <1>1, BlobsStay
  <1>4. JobOK(job[w])'
    BY <1>1, <1>2 DEF JobOK, ForgetOK
  <1>5. clock <= clock' /\ asked \subseteq asked'
    BY <1>1, ClockFacts
  <1>6. Agree
    BY <1>2, AgreeIfOpen
  <1>7. job[w].op # "copy" /\ job'[w].op \notin AloneOps /\ job'[w].op \notin CreateOps
    BY <1>2 DEF Idle, AloneOps, CreateOps
  <1>8. Jobs'
    <2>1. \A v \in Worker : v # w /\ job[v].op \in CreateOps => job[v].stamp # 0
      BY CreateStamps DEF Stamp
    <2>2. Manifests' \subseteq Manifests \cup {0} /\ Listed' \subseteq Listed \cup {0}
      BY <1>1 DEF Manifests, Listed, Folders
    <2> QED BY <1>2, <1>3, <1>4, <1>5, <1>7, <2>1, <2>2, JobsOpen
  <1> QED BY <1>1, <1>2, <1>3, <1>5, <1>6, <1>7, <1>8, StoreStays DEF CreateOps

(* One artifact of a snapshot is deleted. *)
LEMMA Removed ==
    ASSUME IInv, Agree, NEW side \in Sides, Delete(side), UNCHANGED <<blobs, clock>>
    PROVE  /\ Named' /\ Backed' /\ Twins' /\ Fresh' /\ Stored' = Stored
           /\ Manifests' = IF side[1] = "manifest" THEN Manifests \ {side[2]} ELSE Manifests
           /\ Folders' = IF side[1] = "folder" THEN Folders \ {side[2]} ELSE Folders
           /\ \A t \in Manifests' : manifest'[t] = manifest[t]
           /\ \A t \in Folders' : folder'[t] = folder[t]
  <1>1. /\ Manifests' = IF side[1] = "manifest" THEN Manifests \ {side[2]} ELSE Manifests
        /\ Folders' = IF side[1] = "folder" THEN Folders \ {side[2]} ELSE Folders
        /\ \A t \in Manifests' : manifest'[t] = manifest[t]
        /\ \A t \in Folders' : folder'[t] = folder[t]
    BY DEF Delete, Sides, Manifests, Folders, IInv, TypeOK
  <1>2. Named' /\ Stored' = Stored
    BY DEF IInv, Named, Stored
  <1>3. Backed'
    BY <1>1, <1>2 DEF IInv, Backed, Hashes
  <1>4. Twins'
    BY <1>1 DEF Agree, Twins
  <1>5. Fresh'
    BY <1>1 DEF IInv, Fresh, Listed
  <1> QED BY <1>1, <1>2, <1>3, <1>4, <1>5

LEMMA ForgetSideKeeps ==
    ASSUME Quiet, IInv, TypeOK', NEW w \in Worker, job[w].op = "forget", DeleteSide(w) PROVE StepOK
  <1>1. job[w] \in Forgetting /\ ForgetOK(job[w])
    BY JobKinds DEF IInv, TypeOK, Jobs, JobOK
  <1>2. PICK side \in job[w].sides :
          /\ Delete(side) \/ UNCHANGED <<manifest, folder>>
          /\ Becomes(w, [job[w] EXCEPT !.sides = job[w].sides \ {side}])
    BY DEF DeleteSide
  <1>3. UNCHANGED <<blobs, clock, asked>>
    BY DEF DeleteSide
  <1>4. /\ job'[w] = [job[w] EXCEPT !.sides = job[w].sides \ {side}]
        /\ \A v \in Worker : v # w => job'[v] = job[v]
    BY <1>2, BecomesOne DEF IInv
  <1>5. job'[w].op = "forget" /\ job'[w].sides = job[w].sides \ {side}
    BY <1>1, <1>4 DEF Forgetting
  <1>6. JobOK(job[w])'
    BY <1>1, <1>3, <1>5 DEF JobOK, ForgetOK
  <1>7. clock <= clock' /\ asked \subseteq asked'
    BY <1>3, ClockFacts
  <1>8. Agree /\ side \in Sides /\ side[2] \in asked /\ side[2] \in Stamp
    BY <1>1, <1>2, AgreeIfBusy DEF ForgetOK, Forgetting, Sides
  <1>9. ASSUME Manifests' \subseteq Manifests, Listed' \subseteq Listed, Stored' = Stored
        PROVE  Jobs'
    <2>1. \A v \in Worker : v # w /\ job[v].op \in CreateOps => job[v].stamp # 0
      BY CreateStamps DEF Stamp
    <2>2. \A v \in Worker : v # w => job'[v] = job[v] /\ job[v].op \notin AloneOps
      BY <1>4, OthersOpen DEF Idle
    <2>3. job'[w].op \notin AloneOps /\ job'[w].op \notin CreateOps
      BY <1>5 DEF AloneOps, CreateOps
    <2>4. Manifests' \subseteq Manifests \cup {0} /\ Listed' \subseteq Listed \cup {0}
      BY <1>9
    <2>5. Stored \subseteq Stored'
      BY <1>9
    <2> QED BY <1>6, <1>7, <2>1, <2>2, <2>3, <2>4, <2>5, JobsOpen
  <1>10. CASE Delete(side)
    <2>1. /\ Named' /\ Backed' /\ Twins' /\ Fresh' /\ Stored' = Stored
          /\ Manifests' \subseteq Manifests /\ Listed' \subseteq Listed
      BY <1>3, <1>8, <1>10, Removed DEF Listed
    <2>2. \A t \in Stamp \ {side[2]} : manifest'[t] = manifest[t] /\ folder'[t] = folder[t]
      BY <1>10 DEF Delete, IInv, TypeOK
    <2>3. \A t \in Stamp : CopiedTo(t)' = CopiedTo(t)
      BY <1>4, <1>5 DEF CopiedTo
    <2>4. KeptBut(side[2])
      BY <2>2, <2>3 DEF KeptBut, Whole, Listed, Manifests, Folders
    <2> QED BY <1>3, <1>8, <1>9, <2>1, <2>4 DEF StepOK, VaultStep
  <1>11. CASE UNCHANGED <<manifest, folder>>
    <2>1. Named' /\ Backed' /\ Stored' = Stored
      BY <1>3, <1>11, BlobsStay
    <2>2. Manifests' = Manifests /\ Listed' = Listed
      BY <1>11 DEF Manifests, Listed, Folders
    <2>3. job[w].op # "copy" /\ job'[w].op # "copy"
      BY <1>5
    <2> QED BY <1>4, <1>7, <1>8, <1>9, <1>11, <2>1, <2>2, <2>3, StoreStays
  <1> QED BY <1>2, <1>10, <1>11

-----------------------------------------------------------------------------
(* migrate                                                                       *)

(* While a command runs alone, no folder is being copied. *)
LEMMA AloneCopiesNone ==
    ASSUME IInv, NEW w \in Worker, NEW next, Becomes(w, next), job[w].op \in AloneOps, next.op # "copy",
           NEW t
    PROVE  ~CopiedTo(t) /\ ~CopiedTo(t)'
  <1>1. job'[w] = next /\ \A v \in Worker : v # w => job'[v] = Idle /\ job[v] = Idle
    BY BecomesOne, OthersIdle DEF IInv
  <1> QED BY <1>1 DEF CopiedTo, Idle, AloneOps

(* One of two equal formats of a snapshot is deleted. *)
LEMMA SourceDropped ==
    ASSUME IInv, TypeOK', Agree, NEW w \in Worker, NEW next, Becomes(w, next),
           job[w].op \in AloneOps, next.op # "copy",
           NEW side \in Sides, side[2] \in Manifests \cap Folders, Delete(side),
           UNCHANGED <<blobs, clock, asked>>, JobOK(job[w])'
    PROVE  StepOK
  <1>1. job'[w] = next /\ \A v \in Worker : v # w => job'[v] = Idle
    BY BecomesOne, OthersIdle DEF IInv
  <1>2. Jobs'
    BY <1>1, JobsAlone
  <1>3. /\ Named' /\ Backed' /\ Twins' /\ Fresh'
        /\ Manifests' = IF side[1] = "manifest" THEN Manifests \ {side[2]} ELSE Manifests
        /\ Folders' = IF side[1] = "folder" THEN Folders \ {side[2]} ELSE Folders
        /\ \A t \in Manifests' : manifest'[t] = manifest[t]
        /\ \A t \in Folders' : folder'[t] = folder[t]
    BY Removed
  <1>4. Listed' = Listed
    BY <1>3 DEF Listed, Sides
  <1>5. \A t \in Stamp : ~CopiedTo(t) /\ ~CopiedTo(t)'
    BY AloneCopiesNone
  <1>6. ASSUME NEW t \in Stamp PROVE Whole(t)' = Whole(t)
    <2>1. CASE t \in Manifests /\ t \notin Manifests'
      <3>1. t \in Folders' /\ folder'[t] = folder[t] /\ folder[t].files = manifest[t]
        BY <1>3, <2>1 DEF Agree, Sides
      <3> QED BY <1>4, <1>5, <2>1, <3>1 DEF Whole, Listed
    <2>2. CASE t \in Manifests'
      BY <1>3, <1>4, <1>5, <2>2 DEF Whole
    <2>3. CASE t \notin Manifests
      <3>1. t \notin Manifests' /\ (t \in Listed => t \in Folders')
        BY <1>3, <1>4, <2>3 DEF Listed
      <3> QED BY <1>3, <1>4, <1>5, <2>3, <3>1 DEF Whole
    <2> QED BY <2>1, <2>2, <2>3
  <1>7. asked \in SUBSET Stamp /\ asked' = asked \cup asked
    BY DEF IInv, TypeOK
  <1> QED BY <1>2, <1>3, <1>6, <1>7 DEF StepOK, VaultStep, Kept

(* A conversion to full copies goes on: one folder, whose snapshot has a manifest. *)
LEMMA FolderFills ==
    ASSUME IInv, TypeOK', NEW w \in Worker, NEW next, Becomes(w, next),
           job[w].op \in AloneOps, next.op # "copy", NEW own \in Manifests,
           \A t \in (Manifests \cap Folders) \ {own} : folder[t].files = manifest[t],
           \A t \in Stamp \ {own} : folder'[t] = folder[t],
           folder'[own].files = manifest[own] \/ (next.op = "toFull" /\ next.stamp = own),
           UNCHANGED <<blobs, manifest, clock, asked>>, JobOK(job[w])'
    PROVE  StepOK
  <1>1. job'[w] = next /\ \A v \in Worker : v # w => job'[v] = Idle
    BY BecomesOne, OthersIdle DEF IInv
  <1>2. Jobs'
    BY <1>1, JobsAlone
  <1>3. Named' /\ Backed' /\ Stored' = Stored
    BY BlobsStay
  <1>4. Manifests' = Manifests /\ Listed' = Listed
    BY DEF Manifests, Listed, Folders
  <1>5. Twins'
    BY <1>1, <1>4 DEF Twins, Folders
  <1>6. Fresh'
    BY <1>4 DEF IInv, Fresh
  <1>7. \A t \in Stamp : ~CopiedTo(t) /\ ~CopiedTo(t)'
    BY AloneCopiesNone
  <1>8. Kept
    BY <1>4, <1>7 DEF Kept, Whole
  <1>9. asked \in SUBSET Stamp /\ asked' = asked \cup asked
    BY DEF IInv, TypeOK
  <1> QED BY <1>2, <1>3, <1>5, <1>6, <1>8, <1>9 DEF StepOK, VaultStep

LEMMA BeginMigrateKeeps ==
    ASSUME Quiet, IInv, TypeOK', NEW w \in Worker, BeginMigrate(w) PROVE StepOK
  <1>1. PICK target \in {"blobs", "full"}, seen \in {Manifests, {}} :
          /\ Begins(w, "migrate",
                    [op |-> "migrate", target |-> target,
                     pending |-> (IF target = "blobs" THEN Folders ELSE seen) \ (Folders \cap seen),
                     sides |-> {Source(target)} \X (Folders \cap seen)])
          /\ UNCHANGED <<store, clock, asked, faults>>
    BY DEF BeginMigrate
  <1> DEFINE first == [op |-> "migrate", target |-> target,
                       pending |-> (IF target = "blobs" THEN Folders ELSE seen) \ (Folders \cap seen),
                       sides |-> {Source(target)} \X (Folders \cap seen)]
  <1>2. job'[w] = first
    BY <1>1, BeginsOpen DEF IInv
  <1>3. Manifests' = Manifests /\ Folders' = Folders
    BY <1>1 DEF Manifests, Folders, store
  <1>4. MigrateOK(job[w])'
    BY <1>2, <1>3 DEF MigrateOK, PendingOK, Source
  <1>5. JobOK(job[w])'
    BY <1>2, <1>4 DEF JobOK
  <1>6. first.op # "copy"
    OBVIOUS
  <1> HIDE DEF first
  <1> QED BY <1>1, <1>5, <1>6, AloneBegins DEF first

LEMMA MigrateSideKeeps ==
    ASSUME Quiet, IInv, TypeOK', NEW w \in Worker, job[w].op = "migrate", DeleteSide(w) PROVE StepOK
  <1>1. /\ job[w] \in [op : {"migrate"}, target : {"blobs", "full"}, pending : SUBSET Stamp,
                       sides : SUBSET Sides]
        /\ MigrateOK(job[w])
    BY JobKinds DEF IInv, TypeOK, Jobs, JobOK
  <1>2. PICK side \in job[w].sides :
          /\ Delete(side) \/ UNCHANGED <<manifest, folder>>
          /\ Becomes(w, [job[w] EXCEPT !.sides = job[w].sides \ {side}])
    BY DEF DeleteSide
  <1>3. PICK next :
          /\ Becomes(w, next) /\ next.op = "migrate" /\ next.target = job[w].target
          /\ next.pending = job[w].pending /\ next.sides = job[w].sides \ {side}
    BY <1>1, <1>2
  <1>4. job'[w] = next
    BY <1>3, BecomesOne DEF IInv
  <1>5. UNCHANGED <<blobs, clock, asked>>
    BY DEF DeleteSide
  <1>6. Agree /\ job[w].op \in AloneOps /\ next.op # "copy"
    BY <1>3, AgreeIfBusy DEF AloneOps
  <1>7. /\ side \in Sides /\ side[1] = Source(job[w].target)
        /\ side[2] \in (Manifests \cap Folders) \ job[w].pending
    BY <1>1, <1>2 DEF MigrateOK
  <1>8. CASE Delete(side)
    <2>1. /\ Manifests' = IF side[1] = "manifest" THEN Manifests \ {side[2]} ELSE Manifests
          /\ Folders' = IF side[1] = "folder" THEN Folders \ {side[2]} ELSE Folders
      BY <1>5, <1>6, <1>7, <1>8, Removed
    <2>2. PendingOK(job[w])'
      BY <1>1, <1>3, <1>4, <1>7, <2>1 DEF MigrateOK, PendingOK
    <2>3. ASSUME NEW other \in next.sides
          PROVE  other[1] = Source(next.target) /\ other[2] \in (Manifests' \cap Folders') \ next.pending
      <3>1. /\ other \in Sides /\ other # side /\ other[1] = Source(next.target)
            /\ other[2] \in (Manifests \cap Folders) \ next.pending
        BY <1>1, <1>3, <2>3 DEF MigrateOK
      <3>2. other[2] # side[2]
        BY <1>3, <1>7, <3>1 DEF Sides
      <3> QED BY <2>1, <3>1, <3>2
    <2>4. JobOK(job[w])'
      BY <1>3, <1>4, <2>2, <2>3 DEF JobOK, MigrateOK
    <2> QED BY <1>3, <1>5, <1>6, <1>7, <1>8, <2>4, SourceDropped
  <1>9. CASE UNCHANGED <<manifest, folder>>
    <2>1. Manifests' = Manifests /\ Folders' = Folders
      BY <1>9 DEF Manifests, Folders
    <2>2. JobOK(job[w])'
      BY <1>1, <1>3, <1>4, <2>1 DEF JobOK, MigrateOK, PendingOK
    <2>3. Named' /\ Backed'
      BY <1>5, <1>9, BlobsStay
    <2> QED BY <1>3, <1>5, <1>6, <1>9, <2>2, <2>3, AloneStays
  <1> QED BY <1>2, <1>8, <1>9

LEMMA ConvertToBlobsKeeps ==
    ASSUME Quiet, IInv, TypeOK', NEW w \in Worker, ConvertToBlobs(w) PROVE StepOK
  <1>1. job[w].op = "migrate" /\ job[w].target = "blobs" /\ MigrateOK(job[w])
    BY DEF ConvertToBlobs, ConvertsNext, IInv, Jobs, JobOK
  <1>2. UNCHANGED <<blobs, manifest, folder, clock, asked>>
    BY DEF ConvertToBlobs, store
  <1>3. PICK t \in job[w].pending, known \in {Stored, {}} :
          Becomes(w, [op |-> "toBlobs", target |-> "blobs", pending |-> job[w].pending \ {t},
                      stamp |-> t, files |-> Copies(t), blobs |-> Hashes(Copies(t)) \ known])
    BY DEF ConvertToBlobs
  <1> DEFINE next == [op |-> "toBlobs", target |-> "blobs", pending |-> job[w].pending \ {t},
                      stamp |-> t, files |-> Copies(t), blobs |-> Hashes(Copies(t)) \ known]
  <1>4. job'[w] = next
    BY <1>3, BecomesOne DEF IInv
  <1>5. Folders' = Folders /\ Stored' = Stored /\ Copies(t)' = Copies(t)
    BY <1>2 DEF Folders, Stored, Copies
  <1>6. Hashes(Copies(t)) \subseteq Stored \cup (Hashes(Copies(t)) \ known)
    OBVIOUS
  <1>7. ToBlobsOK(job[w])'
    <2>1. next.pending \subseteq Folders /\ next.stamp \in Folders \ next.pending
      BY <1>1 DEF MigrateOK, PendingOK
    <2>2. next.files = Copies(t) /\ Hashes(next.files) \subseteq Stored \cup next.blobs /\ next.stamp = t
      BY <1>6
    <2> HIDE DEF next
    <2> QED BY <1>4, <1>5, <2>1, <2>2 DEF ToBlobsOK, PendingOK, Hashes
  <1>8. JobOK(job[w])'
    BY <1>4, <1>7 DEF JobOK
  <1>9. Named' /\ Backed'
    BY <1>2, BlobsStay
  <1>10. Agree /\ job[w].op \in AloneOps /\ next.op # "copy"
    BY <1>1, AgreeIfBusy DEF AloneOps
  <1> HIDE DEF next
  <1> QED BY <1>2, <1>3, <1>8, <1>9, <1>10, AloneStays DEF next

LEMMA UploadCopyKeeps ==
    ASSUME Quiet, IInv, TypeOK', NEW w \in Worker, UploadCopy(w) PROVE StepOK
  <1>1. /\ job[w] \in [op : {"toBlobs"}, target : {"blobs"}, pending : SUBSET Stamp,
                       stamp : Stamp, files : Files, blobs : SUBSET Content]
        /\ ToBlobsOK(job[w]) /\ job[w].op = "toBlobs"
    BY JobKinds DEF UploadCopy, IInv, TypeOK, Jobs, JobOK
  <1>2. UNCHANGED <<manifest, folder, clock, asked>>
    BY DEF UploadCopy
  <1>3. PICK h \in job[w].blobs :
          /\ blobs' = [blobs EXCEPT ![h] = h]
          /\ Becomes(w, [job[w] EXCEPT !.blobs = job[w].blobs \ {h}])
    BY DEF UploadCopy
  <1>4. PICK next :
          /\ Becomes(w, next) /\ next.op = "toBlobs" /\ next.target = job[w].target
          /\ next.pending = job[w].pending /\ next.stamp = job[w].stamp
          /\ next.files = job[w].files /\ next.blobs = job[w].blobs \ {h}
    BY <1>1, <1>3
  <1>5. job'[w] = next
    BY <1>4, BecomesOne DEF IInv
  <1>6. Named' /\ Backed' /\ Stored \subseteq Stored' /\ h \in Stored'
    BY <1>1, <1>2, <1>3, BlobsGrow
  <1>7. ToBlobsOK(job[w])'
    BY <1>1, <1>2, <1>4, <1>5, <1>6 DEF ToBlobsOK, PendingOK, Folders, Copies, Hashes
  <1>8. JobOK(job[w])'
    BY <1>4, <1>5, <1>7 DEF JobOK
  <1>9. Agree /\ job[w].op \in AloneOps /\ next.op # "copy"
    BY <1>1, <1>4, AgreeIfBusy DEF AloneOps
  <1> QED BY <1>2, <1>4, <1>6, <1>8, <1>9, AloneStays

LEMMA WriteConvertedKeeps ==
    ASSUME Quiet, IInv, TypeOK', NEW w \in Worker, WriteConverted(w) PROVE StepOK
  <1> DEFINE own == job[w].stamp
  <1>1. /\ job[w] \in [op : {"toBlobs"}, target : {"blobs"}, pending : SUBSET Stamp,
                       stamp : Stamp, files : Files, blobs : SUBSET Content]
        /\ ToBlobsOK(job[w]) /\ job[w].op = "toBlobs" /\ Hashes(job[w].files) \subseteq Stored
    BY JobKinds DEF WriteConverted, IInv, TypeOK, Jobs, JobOK, ToBlobsOK
  <1>2. UNCHANGED <<blobs, folder, clock, asked>> /\ Becomes(w, Converted(w))
    BY DEF WriteConverted
  <1>3. /\ job'[w] = Converted(w) /\ Converted(w).op = "drop" /\ Converted(w).stamp = own
        /\ Converted(w).target = "blobs" /\ Converted(w).pending = job[w].pending
        /\ \A v \in Worker : v # w => job'[v] = Idle
    BY <1>1, <1>2, BecomesOne, OthersIdle DEF Converted, IInv, AloneOps
  <1>4. own \in Stamp /\ own \in Folders /\ job[w].files = folder[own].files
    BY <1>1 DEF ToBlobsOK, Copies, Folders
  <1>5. /\ manifest'[own] = job[w].files
        /\ \A t \in Stamp \ {own} : manifest'[t] = manifest[t]
    BY <1>4 DEF WriteConverted, IInv, TypeOK
  <1>6. /\ Manifests' = Manifests \cup {own} /\ Folders' = Folders /\ Stored' = Stored
        /\ Listed' = Listed
    <2>1. job[w].files # None
      BY <1>1, SnapshotStoreAssumption
    <2>2. Manifests' = Manifests \cup {own}
      BY <1>4, <1>5, <2>1 DEF Manifests
    <2>3. Folders' = Folders /\ Stored' = Stored
      BY <1>2 DEF Folders, Stored
    <2> QED BY <1>4, <2>2, <2>3 DEF Listed
  <1>7. Agree
    BY <1>1, AgreeIfBusy
  <1>8. Named' /\ Fresh'
    BY <1>2, <1>6 DEF IInv, Named, Fresh
  <1>9. Backed'
    BY <1>1, <1>5, <1>6 DEF IInv, Backed, Hashes, Manifests
  <1>10. Twins'
    BY <1>2, <1>4, <1>5, <1>6, <1>7 DEF Agree, Twins, Manifests
  <1>11. JobOK(job[w])'
    <2>1. DropOK(job[w])'
      BY <1>1, <1>3, <1>4, <1>6 DEF DropOK, PendingOK, ToBlobsOK
    <2> QED BY <1>3, <2>1 DEF JobOK
  <1>12. Jobs'
    BY <1>3, <1>11, JobsAlone
  <1>13. Kept
    <2>1. \A t \in Stamp : ~CopiedTo(t) /\ ~CopiedTo(t)'
      BY <1>1, <1>2, <1>3, AloneCopiesNone DEF AloneOps
    <2> QED BY <1>2, <1>4, <1>5, <1>6, <1>7, <2>1 DEF Kept, Whole, Agree, Manifests
  <1>14. asked \in SUBSET Stamp /\ asked' = asked \cup asked
    BY <1>2 DEF IInv, TypeOK
  <1> QED BY <1>8, <1>9, <1>10, <1>12, <1>13, <1>14 DEF StepOK, VaultStep

LEMMA ConvertToFullKeeps ==
    ASSUME Quiet, IInv, TypeOK', NEW w \in Worker, ConvertToFull(w) PROVE StepOK
  <1>1. /\ job[w].op = "migrate" /\ job[w].target = "full" /\ job[w].sides = {}
        /\ job[w] \in [op : {"migrate"}, target : {"blobs", "full"}, pending : SUBSET Stamp,
                       sides : SUBSET Sides]
    BY JobKinds DEF ConvertToFull, ConvertsNext, IInv, TypeOK
  <1>2. UNCHANGED <<blobs, manifest, clock, asked>> /\ Agree /\ job[w].op \in AloneOps
    BY <1>1, AgreeIfBusy DEF ConvertToFull, AloneOps
  <1>3. PICK t \in job[w].pending :
          IF t \in Manifests
          THEN /\ folder' = [folder EXCEPT ![t] = [files |-> Empty, meta |-> FALSE]]
               /\ Becomes(w, [op |-> "toFull", target |-> "full", pending |-> job[w].pending \ {t},
                              stamp |-> t, files |-> manifest[t], paths |-> Present(manifest[t])])
          ELSE Becomes(w, [job[w] EXCEPT !.pending = job[w].pending \ {t}]) /\ UNCHANGED folder
    BY DEF ConvertToFull
  <1>4. t \in Stamp /\ Manifests' = Manifests
    BY <1>1, <1>2 DEF Manifests
  <1>5. CASE t \in Manifests
    <2> DEFINE next == [op |-> "toFull", target |-> "full", pending |-> job[w].pending \ {t},
                        stamp |-> t, files |-> manifest[t], paths |-> Present(manifest[t])]
    <2>1. Becomes(w, next) /\ job'[w] = next
      BY <1>3, <1>5, BecomesOne DEF IInv
    <2>2. /\ folder'[t] = [files |-> Empty, meta |-> FALSE]
          /\ \A u \in Stamp \ {t} : folder'[u] = folder[u]
      BY <1>3, <1>4, <1>5 DEF IInv, TypeOK
    <2>3. Copies(t)' = Empty
      BY <2>2 DEF Copies
    <2>4. \A p \in Path \ Present(manifest[t]) : Empty[p] = manifest[t][p]
      BY DEF Present, Empty
    <2>5. /\ next.op = "toFull" /\ next.stamp = t /\ t \notin next.pending
          /\ next.files = manifest[t] /\ next.paths = Present(manifest[t])
      OBVIOUS
    <2> HIDE DEF next
    <2>6. ToFullOK(job[w])'
      BY <1>2, <1>4, <1>5, <2>1, <2>3, <2>4, <2>5 DEF ToFullOK, Present
    <2>7. JobOK(job[w])'
      BY <2>1, <2>5, <2>6 DEF JobOK
    <2>8. \A u \in (Manifests \cap Folders) \ {t} : folder[u].files = manifest[u]
      BY <1>2 DEF Agree
    <2> QED BY <1>2, <1>5, <2>1, <2>2, <2>5, <2>7, <2>8, FolderFills
  <1>6. CASE t \notin Manifests
    <2>1. PICK next :
            /\ Becomes(w, next) /\ next.op = "migrate" /\ next.target = "full" /\ next.sides = {}
      BY <1>1, <1>3, <1>6
    <2>2. job'[w] = next /\ UNCHANGED folder
      BY <1>3, <1>6, <2>1, BecomesOne DEF IInv
    <2>3. JobOK(job[w])'
      BY <2>1, <2>2 DEF JobOK, MigrateOK, PendingOK
    <2>4. Named' /\ Backed'
      BY <1>2, BlobsStay
    <2> QED BY <1>2, <2>1, <2>2, <2>3, <2>4, AloneStays
  <1> QED BY <1>5, <1>6

LEMMA FolderIsSome ==
    ASSUME NEW files \in Files, NEW meta \in BOOLEAN PROVE [files |-> files, meta |-> meta] # None
  <1>1. [files |-> files, meta |-> meta] \in Folder
    BY DEF Folder
  <1> QED BY <1>1, SnapshotStoreAssumption

LEMMA AgreeElsewhere ==
    ASSUME IInv, NEW w \in Worker, job[w].op = "toFull", NEW t \in Manifests \cap Folders, t # job[w].stamp
    PROVE  folder[t].files = manifest[t]
  <1>1. \A v \in Worker : v # w => job[v].op # "toFull"
    BY OthersIdle DEF AloneOps, Idle
  <1> QED BY <1>1 DEF IInv, Twins

LEMMA MaterialiseKeeps ==
    ASSUME Quiet, IInv, TypeOK', NEW w \in Worker, Materialise(w) PROVE StepOK
  <1> DEFINE own == job[w].stamp
  <1>1. /\ job[w] \in [op : {"toFull"}, target : {"full"}, pending : SUBSET Stamp,
                       stamp : Stamp, files : Files, paths : SUBSET Path]
        /\ ToFullOK(job[w]) /\ job[w].op = "toFull"
    BY JobKinds DEF Materialise, IInv, TypeOK, Jobs, JobOK
  <1>2. UNCHANGED <<blobs, manifest, clock, asked>>
    BY DEF Materialise
  <1>3. PICK p \in job[w].paths :
          /\ job[w].files[p] \in Stored
          /\ Put(own, p, blobs[job[w].files[p]])
          /\ Becomes(w, [job[w] EXCEPT !.paths = job[w].paths \ {p}])
    BY DEF Materialise
  <1>4. PICK next :
          /\ Becomes(w, next) /\ next.op = "toFull" /\ next.stamp = own
          /\ next.files = job[w].files /\ next.paths = job[w].paths \ {p}
          /\ next.pending = job[w].pending
    BY <1>1, <1>3
  <1>5. job'[w] = next
    BY <1>4, BecomesOne DEF IInv
  <1>6. blobs[job[w].files[p]] = job[w].files[p]
    BY <1>3 DEF Stored, IInv, Named
  <1>7. own \in Stamp /\ own \in Manifests /\ Manifests' = Manifests /\ p \in Path
    BY <1>1, <1>2 DEF ToFullOK, Manifests
  <1> DEFINE copies == [Copies(own) EXCEPT ![p] = job[w].files[p]]
  <1>8. /\ \A t \in Stamp \ {own} : folder'[t] = folder[t]
        /\ folder'[own] = [files |-> copies, meta |-> FALSE]
    BY <1>3, <1>6, <1>7 DEF Put, IInv, TypeOK
  <1>9. copies \in Files /\ \A q \in Path \ next.paths : copies[q] = next.files[q]
    <2>1. Copies(own) \in Files
      BY <1>7, CopiesType DEF IInv
    <2>2. \A q \in Path \ next.paths : q # p => Copies(own)[q] = job[w].files[q]
      BY <1>1, <1>4 DEF ToFullOK
    <2> QED BY <1>1, <1>4, <1>7, <2>1, <2>2 DEF Files
  <1> HIDE DEF copies
  <1>10. Copies(own)' = copies
    <2>1. folder'[own] # None
      BY <1>8, <1>9, FolderIsSome
    <2> QED BY <1>4, <1>5, <1>8, <2>1 DEF Copies
  <1>11. JobOK(job[w])'
    <2>1. ToFullOK(job[w])'
      <3>1. next.stamp \in Manifests' \ next.pending /\ next.files = manifest'[next.stamp]
        BY <1>1, <1>2, <1>4, <1>7 DEF ToFullOK
      <3>2. next.paths \subseteq Present(next.files)
        BY <1>1, <1>4 DEF ToFullOK
      <3>3. \A q \in Path \ next.paths : Copies(job[w].stamp)'[q] = next.files[q]
        BY <1>4, <1>5, <1>9, <1>10
      <3> QED BY <1>5, <3>1, <3>2, <3>3 DEF ToFullOK, Present
    <2> QED BY <1>4, <1>5, <2>1 DEF JobOK
  <1>12. \A t \in (Manifests \cap Folders) \ {own} : folder[t].files = manifest[t]
    BY <1>1, AgreeElsewhere
  <1>13. job[w].op \in AloneOps /\ next.op # "copy"
    BY <1>1, <1>4 DEF AloneOps
  <1> QED BY <1>2, <1>4, <1>7, <1>8, <1>11, <1>12, <1>13, FolderFills

LEMMA WriteConvertedMetaKeeps ==
    ASSUME Quiet, IInv, TypeOK', NEW w \in Worker, WriteConvertedMeta(w) PROVE StepOK
  <1> DEFINE own == job[w].stamp
  <1>1. /\ job[w] \in [op : {"toFull"}, target : {"full"}, pending : SUBSET Stamp,
                       stamp : Stamp, files : Files, paths : SUBSET Path]
        /\ ToFullOK(job[w]) /\ job[w].op = "toFull" /\ job[w].paths = {}
    BY JobKinds DEF WriteConvertedMeta, IInv, TypeOK, Jobs, JobOK
  <1>2. UNCHANGED <<blobs, manifest, clock, asked>> /\ Becomes(w, Converted(w))
    BY DEF WriteConvertedMeta
  <1>3. /\ job'[w] = Converted(w) /\ Converted(w).op = "drop" /\ Converted(w).stamp = own
        /\ Converted(w).target = "full" /\ Converted(w).pending = job[w].pending
    BY <1>1, <1>2, BecomesOne DEF Converted, IInv
  <1>4. own \in Stamp /\ own \in Manifests /\ Manifests' = Manifests
    BY <1>1, <1>2 DEF ToFullOK, Manifests
  <1>5. Copies(own) = manifest[own]
    <2>1. Copies(own) \in Files /\ manifest[own] \in Files
      BY <1>1, <1>4, CopiesType DEF IInv, ToFullOK
    <2>2. \A p \in Path : Copies(own)[p] = manifest[own][p]
      BY <1>1 DEF ToFullOK
    <2> QED BY <2>1, <2>2 DEF Files
  <1>6. /\ \A t \in Stamp \ {own} : folder'[t] = folder[t]
        /\ folder'[own] = [files |-> manifest[own], meta |-> TRUE]
    BY <1>4, <1>5 DEF WriteConvertedMeta, PutMeta, IInv, TypeOK
  <1>7. folder'[own] # None /\ own \in Folders'
    <2>1. manifest[own] \in Files
      BY <1>1, <1>4 DEF ToFullOK
    <2> QED BY <1>4, <1>6, <2>1, FolderIsSome DEF Folders
  <1>8. JobOK(job[w])'
    <2>1. own \notin job[w].pending
      BY <1>1 DEF ToFullOK
    <2>2. DropOK(job[w])'
      BY <1>3, <1>4, <1>7, <2>1 DEF DropOK, PendingOK
    <2> QED BY <1>3, <2>2 DEF JobOK
  <1>9. \A t \in (Manifests \cap Folders) \ {own} : folder[t].files = manifest[t]
    BY <1>1, AgreeElsewhere
  <1>10. job[w].op \in AloneOps /\ Converted(w).op # "copy"
    BY <1>1, <1>3 DEF AloneOps
  <1>11. folder'[own].files = manifest[own]
    BY <1>6
  <1> QED BY <1>2, <1>4, <1>6, <1>8, <1>9, <1>10, <1>11, FolderFills

LEMMA ConvertingPending ==
    ASSUME IInv, NEW w \in Worker, job[w].op \in {"toBlobs", "drop"} PROVE PendingOK(job[w])
  BY DEF IInv, Jobs, JobOK, ToBlobsOK, DropOK

LEMMA DropSourceKeeps ==
    ASSUME Quiet, IInv, TypeOK', NEW w \in Worker, DropSource(w) PROVE StepOK
  <1> DEFINE side == <<Source(job[w].target), job[w].stamp>>
  <1>1. /\ job[w] \in [op : {"drop"}, target : {"blobs", "full"}, pending : SUBSET Stamp, stamp : Stamp]
        /\ DropOK(job[w]) /\ job[w].op = "drop"
    BY JobKinds DEF DropSource, IInv, TypeOK, Jobs, JobOK
  <1>2. Delete(side) /\ Becomes(w, Resumed(w)) /\ UNCHANGED <<blobs, clock, asked>>
    BY DEF DropSource
  <1>3. /\ job'[w] = Resumed(w) /\ Resumed(w).op = "migrate" /\ Resumed(w).target = job[w].target
        /\ Resumed(w).pending = job[w].pending /\ Resumed(w).sides = {}
    BY <1>2, BecomesOne DEF Resumed, IInv
  <1>4. side \in Sides /\ side[2] \in (Manifests \cap Folders) \ job[w].pending
    BY <1>1 DEF Source, Sides, DropOK
  <1>5. Agree /\ job[w].op \in AloneOps
    BY <1>1, AgreeIfBusy DEF AloneOps
  <1>6. Folders' = IF side[1] = "folder" THEN Folders \ {side[2]} ELSE Folders
    BY <1>2, <1>4, <1>5, Removed
  <1>7. PendingOK(job[w])'
    BY <1>1, <1>3, <1>4, <1>6 DEF DropOK, PendingOK
  <1>8. JobOK(job[w])'
    BY <1>3, <1>7 DEF JobOK, MigrateOK
  <1> HIDE DEF side
  <1> QED BY <1>2, <1>3, <1>4, <1>5, <1>8, SourceDropped

LEMMA ResumedKeeps ==
    ASSUME Quiet, IInv, TypeOK', NEW w \in Worker, KeepSource(w) \/ ConvertFail(w) PROVE StepOK
  <1>1. UNCHANGED <<blobs, manifest, folder, clock, asked>> /\ Becomes(w, Resumed(w))
    BY DEF KeepSource, ConvertFail, store
  <1>2. job[w].op \in {"toBlobs", "drop"}
    <2>1. CASE KeepSource(w)
      BY <2>1 DEF KeepSource
    <2>2. CASE ConvertFail(w) /\ job[w].op = "toFull"
      <3>1. ToFullOK(job[w]) /\ \A p \in Path : job[w].files[p] # Absent => job[w].files[p] \in Stored
        BY <2>2 DEF IInv, Jobs, JobOK, ToFullOK, Backed, Hashes
      <3>2. {job[w].files[p] : p \in job[w].paths} \subseteq Stored
        BY <3>1 DEF ToFullOK, Present
      <3> QED BY <2>2, <3>2 DEF ConvertFail, Fault, Quiet
    <2>3. CASE ConvertFail(w) /\ job[w].op # "toFull"
      BY <2>3 DEF ConvertFail
    <2> QED BY <2>1, <2>2, <2>3
  <1>3. /\ job'[w] = Resumed(w) /\ Resumed(w).op = "migrate" /\ Resumed(w).target = job[w].target
        /\ Resumed(w).pending = job[w].pending /\ Resumed(w).sides = {}
    BY <1>1, BecomesOne DEF Resumed, IInv
  <1>4. Folders' = Folders
    BY <1>1 DEF Folders
  <1>5. JobOK(job[w])'
    BY <1>2, <1>3, <1>4, ConvertingPending DEF JobOK, MigrateOK, PendingOK
  <1>6. Named' /\ Backed'
    BY <1>1, BlobsStay
  <1>7. Agree /\ job[w].op \in AloneOps /\ Resumed(w).op # "copy"
    BY <1>2, <1>3, AgreeIfBusy DEF AloneOps
  <1> QED BY <1>1, <1>5, <1>6, <1>7, AloneStays

-----------------------------------------------------------------------------
(* The theorem                                                                   *)

LEMMA ActionKeeps ==
    ASSUME Quiet, IInv, NEW w \in Worker,
           \/ BeginBlobs(w) \/ BeginFull(w) \/ BeginGc(w)
           \/ BeginForget(w) \/ BeginPrune(w) \/ BeginMigrate(w)
           \/ Proceed(w) \/ Abandon(w)
    PROVE  IInv' /\ VaultStep
  <1>1. TypeOK'
    BY NextType DEF IInv
  <1>2. StepOK
    <2>1. CASE BeginBlobs(w) \/ BeginFull(w) \/ BeginGc(w)
           \/ BeginForget(w) \/ BeginPrune(w) \/ BeginMigrate(w)
      BY <1>1, <2>1, BeginBlobsKeeps, BeginFullKeeps, BeginGcKeeps, BeginForgetKeeps, PruneForgets, BeginMigrateKeeps
    <2>2. CASE UploadBlob(w) \/ WriteManifest(w) \/ CopyFile(w) \/ WriteMeta(w)
      BY <1>1, <2>2, UploadBlobKeeps, WriteManifestKeeps, CopyingKeeps
    <2>3. CASE SourceGone(w) \/ EndGc(w) \/ EndForget(w) \/ EndMigrate(w) \/ Abandon(w)
      BY <1>1, <2>3, EndsKeep
    <2>4. CASE ReadManifests(w) \/ Sweep(w) \/ SweepFail(w)
      BY <1>1, <2>4, ReadManifestsKeeps, SweepKeeps
    <2>5. CASE DeleteSide(w)
      <3>1. job[w].op = "forget" \/ job[w].op = "migrate"
        BY <2>5 DEF DeleteSide
      <3> QED BY <1>1, <2>5, <3>1, ForgetSideKeeps, MigrateSideKeeps
    <2>6. CASE ConvertToBlobs(w) \/ UploadCopy(w) \/ WriteConverted(w)
      BY <1>1, <2>6, ConvertToBlobsKeeps, UploadCopyKeeps, WriteConvertedKeeps
    <2>7. CASE ConvertToFull(w) \/ Materialise(w) \/ WriteConvertedMeta(w)
      BY <1>1, <2>7, ConvertToFullKeeps, MaterialiseKeeps, WriteConvertedMetaKeeps
    <2>8. CASE DropSource(w) \/ KeepSource(w) \/ ConvertFail(w)
      BY <1>1, <2>8, DropSourceKeeps, ResumedKeeps
    <2> QED BY <2>1, <2>2, <2>3, <2>4, <2>5, <2>6, <2>7, <2>8 DEF Proceed
  <1> QED BY <1>1, <1>2 DEF StepOK, IInv

LEMMA StutterKeeps == ASSUME IInv, UNCHANGED vars PROVE IInv' /\ VaultStep
  <1>1. IInv'
    BY DEF vars, IInv, TypeOK, Named, Backed, Twins, Fresh, Jobs, Distinct, Exclusive, JobOK, UploadOK,
           CopyOK, SweepOK, ForgetOK, MigrateOK, PendingOK, ToBlobsOK, ToFullOK, DropOK, Manifests,
           Folders, Listed, Stored, Hashes, Copies, Referenced, Present
  <1>2. Kept
    BY DEF vars, Kept, Whole, CopiedTo, Manifests, Folders, Listed
  <1>3. asked \in SUBSET Stamp /\ asked' = asked \cup asked
    BY DEF vars, IInv, TypeOK
  <1> QED BY <1>1, <1>2, <1>3 DEF VaultStep

LEMMA InitHolds == Init => IInv
  <1> SUFFICES ASSUME Init PROVE IInv
    OBVIOUS
  <1>1. TypeOK
    BY InitType
  <1>2. Manifests = {} /\ Folders = {} /\ Listed = {}
    BY DEF Init, Manifests, Folders, Listed
  <1>3. Named /\ Backed /\ Twins /\ Fresh
    BY <1>2 DEF Init, Named, Backed, Twins, Fresh
  <1>4. \A w \in Worker : job[w] = Idle
    BY DEF Init
  <1>5. Jobs
    BY <1>4 DEF Jobs, Distinct, Exclusive, JobOK, Idle, CreateOps, AloneOps
  <1> QED BY <1>1, <1>3, <1>5 DEF IInv

LEMMA InitMaps == Init => Promise!Init
  <1> SUFFICES ASSUME Init PROVE Promise!Init
    OBVIOUS
  <1>1. \A t \in Stamp : Vault(t) = None
    BY DEF Init, Vault, Listed, Manifests, Folders
  <1> QED BY <1>1 DEF Init, Promise!Init

(* Snapshots are kept: what a restore of a timestamp yields is settled when the  *)
(* snapshot is taken, and no create, gc, migrate or forget of another one, killed *)
(* or failing anywhere but in a conversion to full copies, changes it before      *)
(* somebody asks to forget it (snapshots.py).                                     *)
THEOREM VaultKeptHolds == ASSUME Quiet PROVE Spec => VaultKept
  <1>1. ASSUME IInv, [Next]_vars PROVE IInv' /\ [Promise!Next]_(Promise!vars)
    <2>1. IInv' /\ VaultStep
      BY <1>1, ActionKeeps, StutterKeeps DEF Next
    <2> QED BY <1>1, <2>1, StepMaps
  <1> QED BY <1>1, InitHolds, InitMaps, PTL DEF Spec, VaultKept, Promise!Spec

-----------------------------------------------------------------------------
(* A create is faithful                                                          *)

\* What a full create has copied so far is what it found, as long as nobody has
\* asked to forget its snapshot.
CopiedSoFar(j) == \A p \in Path \ j.paths : Copies(j.stamp)[p] = j.files[p]
Copied == \A w \in Worker : job[w].op = "copy" /\ job[w].stamp \notin asked => CopiedSoFar(job[w])

FInv == IInv /\ Copied

(* A step that leaves the folders of the others' creates alone. *)
LEMMA OthersCopied ==
    ASSUME FInv, NEW w \in Worker, \A v \in Worker : v # w => job'[v] = job[v],
           asked \subseteq asked',
           \A v \in Worker : v # w /\ job[v].op = "copy" /\ job[v].stamp \notin asked
                             => folder'[job[v].stamp] = folder[job[v].stamp],
           job'[w].op = "copy" /\ job'[w].stamp \notin asked' => CopiedSoFar(job[w])'
    PROVE  Copied'
  <1> SUFFICES ASSUME NEW v \in Worker, v # w, job[v].op = "copy", job[v].stamp \notin asked
               PROVE  CopiedSoFar(job[v])'
    BY DEF Copied
  <1>1. job'[v] = job[v] /\ folder'[job[v].stamp] = folder[job[v].stamp] /\ CopiedSoFar(job[v])
    BY DEF FInv, Copied
  <1> QED BY <1>1 DEF CopiedSoFar, Copies

(* No step of a command that runs alone, or that leaves the folders alone, matters. *)
LEMMA AloneCopied ==
    ASSUME FInv, NEW w \in Worker, \A v \in Worker : v # w => job'[v] = job[v],
           asked \subseteq asked', job[w].op \in AloneOps \/ UNCHANGED folder, job'[w].op # "copy"
    PROVE  Copied'
  <1>1. ASSUME NEW v \in Worker, v # w, job[v].op = "copy", job[w].op \in AloneOps PROVE FALSE
    BY <1>1, OthersIdle DEF FInv, Idle
  <1> QED BY <1>1, OthersCopied

LEMMA BeginFullCopied ==
    ASSUME FInv, NEW w \in Worker, \A v \in Worker : v # w => job'[v] = job[v], BeginFull(w)
    PROVE  Copied'
  <1>1. PICK files \in Files :
          Begins(w, "copy", [op |-> "copy", stamp |-> clock + 1, files |-> files, paths |-> Present(files)])
    BY DEF BeginFull
  <1>2. job'[w] = [op |-> "copy", stamp |-> clock + 1, files |-> files, paths |-> Present(files)]
    BY <1>1 DEF Begins, FInv, IInv, TypeOK
  <1>3. clock + 1 \in Stamp /\ asked' = asked
    BY SnapshotStoreAssumption DEF BeginFull, FInv, IInv, TypeOK, Stamp
  <1>4. folder' = [folder EXCEPT ![clock + 1] = [files |-> Empty, meta |-> FALSE]]
    BY DEF BeginFull
  <1>5. folder'[clock + 1] = [files |-> Empty, meta |-> FALSE] /\ folder'[clock + 1] # None
    BY <1>3, <1>4, EmptyType, SnapshotStoreAssumption DEF FInv, IInv, TypeOK
  <1>6. CopiedSoFar(job[w])'
    BY <1>2, <1>5 DEF CopiedSoFar, Copies, Empty, Present
  <1>7. ASSUME NEW v \in Worker, job[v].op = "copy" PROVE folder'[job[v].stamp] = folder[job[v].stamp]
    <2>1. job[v].stamp \in Stamp /\ job[v].stamp <= clock
      BY <1>7, CreateStamps DEF FInv, CreateOps
    <2>2. job[v].stamp # clock + 1
      BY <2>1, SnapshotStoreAssumption DEF FInv, IInv, TypeOK, Stamp
    <2> QED BY <1>4, <2>1, <2>2 DEF FInv, IInv, TypeOK
  <1> QED BY <1>3, <1>6, <1>7, OthersCopied

(* Two creates never share a folder. *)
LEMMA OwnFolder ==
    ASSUME FInv, NEW w \in Worker, job[w].op = "copy", CopyFile(w) \/ WriteMeta(w),
           NEW v \in Worker, v # w, job[v].op = "copy"
    PROVE  folder'[job[v].stamp] = folder[job[v].stamp]
  <1>1. job[v].stamp # job[w].stamp
    BY DEF FInv, IInv, Jobs, Distinct, CreateOps
  <1>2. job[v].stamp \in Stamp /\ job[w].stamp \in Stamp
    BY CreateStamps DEF FInv, CreateOps
  <1>3. \E f : folder' = [folder EXCEPT ![job[w].stamp] = f]
    BY DEF CopyFile, WriteMeta, Put, PutMeta
  <1> QED BY <1>1, <1>2, <1>3 DEF FInv, IInv, TypeOK

LEMMA CopyFileCopied ==
    ASSUME Quiet, FInv, NEW w \in Worker, \A v \in Worker : v # w => job'[v] = job[v], CopyFile(w)
    PROVE  Copied'
  <1>1. job[w].op = "copy" /\ job[w] \in Copying
    BY JobKinds DEF CopyFile, FInv, IInv, TypeOK
  <1>2. PICK p \in job[w].paths :
          /\ Put(job[w].stamp, p, job[w].files[p])
          /\ Becomes(w, [job[w] EXCEPT !.paths = job[w].paths \ {p}])
    BY DEF CopyFile, Quiet
  <1>3. /\ job'[w].op = "copy" /\ job'[w].stamp = job[w].stamp
        /\ job'[w].files = job[w].files /\ job'[w].paths = job[w].paths \ {p}
    BY <1>1, <1>2 DEF Becomes, FInv, IInv, TypeOK, Copying
  <1>4. asked' = asked
    BY DEF CopyFile
  <1>5. job[w].stamp \in Stamp /\ p \in Path /\ job[w].files[p] \in Content \cup {Absent}
    BY <1>1 DEF Copying, Files
  <1>6. Copies(job[w].stamp) \in Files
    BY <1>5, CopiesType DEF FInv, IInv
  <1> DEFINE new == [files |-> [Copies(job[w].stamp) EXCEPT ![p] = job[w].files[p]], meta |-> FALSE]
  <1>7. folder'[job[w].stamp] = new
    BY <1>2, <1>5 DEF Put, FInv, IInv, TypeOK
  <1>8. new \in Folder
    <2>1. [Copies(job[w].stamp) EXCEPT ![p] = job[w].files[p]] \in Files
      BY <1>5, <1>6 DEF Files
    <2> QED BY <2>1 DEF Folder
  <1>9. folder'[job[w].stamp] # None
    BY <1>7, <1>8, SnapshotStoreAssumption
  <1>10. Copies(job[w].stamp)' = [Copies(job[w].stamp) EXCEPT ![p] = job[w].files[p]]
    <2>1. folder'[job'[w].stamp].files = [Copies(job[w].stamp) EXCEPT ![p] = job[w].files[p]]
      BY <1>3, <1>7
    <2>2. folder'[job'[w].stamp] # None
      BY <1>3, <1>9
    <2> QED BY <2>1, <2>2 DEF Copies
  <1>11. ASSUME job[w].stamp \notin asked PROVE CopiedSoFar(job[w])'
    <2>1. CopiedSoFar(job[w])
      BY <1>1, <1>11 DEF FInv, Copied
    <2> QED BY <1>3, <1>5, <1>6, <1>10, <2>1 DEF CopiedSoFar, Files
  <1> QED BY <1>1, <1>3, <1>4, <1>11, OwnFolder, OthersCopied

LEMMA WriteMetaCopied ==
    ASSUME FInv, NEW w \in Worker, \A v \in Worker : v # w => job'[v] = job[v], WriteMeta(w)
    PROVE  Copied'
  <1>1. job[w].op = "copy" /\ job'[w].op # "copy" /\ asked' = asked
    BY DEF WriteMeta, Becomes, FInv, IInv, TypeOK, Idle
  <1> QED BY <1>1, OwnFolder, OthersCopied

(* forget only takes what was asked for. *)
LEMMA ForgetCopied ==
    ASSUME FInv, NEW w \in Worker, \A v \in Worker : v # w => job'[v] = job[v],
           DeleteSide(w), job[w].op = "forget"
    PROVE  Copied'
  <1>1. job[w] \in Forgetting /\ ForgetOK(job[w])
    BY JobKinds DEF FInv, IInv, TypeOK, Jobs, JobOK
  <1>2. PICK side \in job[w].sides :
          /\ Delete(side) \/ UNCHANGED <<manifest, folder>>
          /\ Becomes(w, [job[w] EXCEPT !.sides = job[w].sides \ {side}])
    BY DEF DeleteSide
  <1>3. asked' = asked /\ job'[w].op # "copy" /\ side[2] \in asked
    BY <1>1, <1>2 DEF DeleteSide, Becomes, FInv, IInv, TypeOK, Forgetting, ForgetOK
  <1>4. ASSUME NEW v \in Worker, job[v].op = "copy", job[v].stamp \notin asked
        PROVE  folder'[job[v].stamp] = folder[job[v].stamp]
    <2>1. job[v].stamp # side[2] /\ job[v].stamp \in Stamp
      BY <1>3, <1>4, CreateStamps DEF FInv, CreateOps
    <2> QED BY <1>2, <2>1 DEF Delete, FInv, IInv, TypeOK
  <1> QED BY <1>3, <1>4, OthersCopied

LEMMA OnlyCreateCopies ==
    ASSUME TypeOK, NEW w \in Worker, Step(w), job'[w].op = "copy" PROVE BeginFull(w) \/ CopyFile(w)
  <1>1. CASE Begin(w)
    <2>1. ~BeginGc(w)
      BY DEF BeginGc, Begins, TypeOK
    <2> QED BY <1>1, <2>1, OthersBegin
  <1>2. CASE Abandon(w)
    BY <1>2 DEF Abandon, Becomes, TypeOK, Idle
  <1>3. CASE Proceed(w)
    <2>1. ~ReadManifests(w) /\ ~EndGc(w)
      BY DEF ReadManifests, EndGc, Becomes, TypeOK, Idle
    <2>2. ~Sweep(w) /\ ~SweepFail(w)
      BY SweepGoesOn
    <2> QED BY <1>3, <2>1, <2>2, CreateStays, RemovalStays, MigrationStays DEF Proceed
  <1> QED BY <1>1, <1>2, <1>3 DEF Step

LEMMA StaysOpen ==
    ASSUME NEW w \in Worker, Step(w), job[w].op \notin AloneOps
    PROVE  \/ BeginFull(w) \/ CopyFile(w) \/ WriteManifest(w) \/ WriteMeta(w)
           \/ DeleteSide(w) /\ job[w].op = "forget"
           \/ UNCHANGED <<manifest, folder>>
  <1>1. CASE Begin(w)
    BY <1>1, PruneForgets
       DEF Begin, BeginBlobs, BeginGc, BeginForget, Forgets, BeginMigrate, store
  <1>2. CASE Abandon(w)
    BY <1>2 DEF Abandon, store
  <1>3. CASE UploadBlob(w) \/ SourceGone(w) \/ EndForget(w)
    BY <1>3 DEF UploadBlob, SourceGone, EndForget, store
  <1>4. CASE DeleteSide(w)
    BY <1>4 DEF DeleteSide, AloneOps
  <1>5. CASE \/ ReadManifests(w) \/ Sweep(w) \/ SweepFail(w) \/ EndGc(w)
             \/ ConvertToBlobs(w) \/ UploadCopy(w) \/ WriteConverted(w)
             \/ ConvertToFull(w) \/ Materialise(w) \/ WriteConvertedMeta(w)
             \/ DropSource(w) \/ KeepSource(w) \/ ConvertFail(w) \/ EndMigrate(w)
    BY <1>5 DEF AloneOps, ReadManifests, Sweep, SweepFail, EndGc, ConvertsNext, ConvertToBlobs, UploadCopy,
                WriteConverted, ConvertToFull, Materialise, WriteConvertedMeta, DropSource, KeepSource,
                ConvertFail, EndMigrate
  <1> QED BY <1>1, <1>2, <1>3, <1>4, <1>5 DEF Step, Proceed

LEMMA AskedGrows == ASSUME NEW w \in Worker, Step(w) PROVE asked \subseteq asked'
  <1>1. CASE Begin(w)
    BY <1>1, PruneForgets DEF Begin, BeginBlobs, BeginFull, BeginGc, BeginForget, Forgets, BeginMigrate
  <1>2. CASE Abandon(w)
    BY <1>2 DEF Abandon
  <1>3. CASE Proceed(w)
    <2>1. UNCHANGED asked
      BY <1>3 DEF Proceed, UploadBlob, WriteManifest, CopyFile, WriteMeta, SourceGone, ReadManifests, Sweep,
                  SweepFail, EndGc, DeleteSide, EndForget, ConvertToBlobs, UploadCopy, WriteConverted,
                  ConvertToFull, Materialise, WriteConvertedMeta, DropSource, KeepSource, ConvertFail, EndMigrate
    <2> QED BY <2>1
  <1> QED BY <1>1, <1>2, <1>3 DEF Step

LEMMA FInvStep == ASSUME Quiet, FInv, NEW w \in Worker, Step(w) PROVE FInv'
  <1>1. IInv'
    BY ActionKeeps DEF FInv, Step, Begin
  <1>2. \A v \in Worker : v # w => job'[v] = job[v]
    BY OthersStay DEF FInv, IInv
  <1>3. CASE BeginFull(w) \/ CopyFile(w) \/ WriteMeta(w) \/ (DeleteSide(w) /\ job[w].op = "forget")
    BY <1>1, <1>2, <1>3, BeginFullCopied, CopyFileCopied, WriteMetaCopied, ForgetCopied DEF FInv
  <1>4. CASE ~(BeginFull(w) \/ CopyFile(w) \/ WriteMeta(w) \/ (DeleteSide(w) /\ job[w].op = "forget"))
    <2>1. job[w].op \in AloneOps \/ UNCHANGED folder
      BY <1>4, StaysOpen DEF WriteManifest
    <2>2. job'[w].op # "copy"
      BY <1>4, OnlyCreateCopies DEF FInv, IInv
    <2> QED BY <1>1, <1>2, <2>1, <2>2, AskedGrows, AloneCopied DEF FInv
  <1> QED BY <1>3, <1>4

LEMMA FInvStutter == ASSUME FInv, UNCHANGED vars PROVE FInv'
  BY StutterKeeps DEF FInv, Copied, CopiedSoFar, Copies, vars

LEMMA FInvInit == Init => FInv
  BY InitHolds DEF Init, FInv, Copied, Idle

(* A snapshot is completed by its own create, or by a command that runs alone. *)
LEMMA Completes ==
    ASSUME IInv, NEW w \in Worker, Step(w), job[w].op \notin AloneOps,
           NEW t \in Stamp, ~Complete(t), Complete(t)'
    PROVE  job[w].stamp = t /\ (WriteManifest(w) \/ WriteMeta(w))
  <1> USE DEF IInv, TypeOK, Complete, Manifests, Folders
  <1>1. CASE BeginFull(w)
    <2>1. clock + 1 \in Stamp
      BY <1>1, SnapshotStoreAssumption DEF BeginFull, Stamp
    <2> QED BY <1>1, <2>1 DEF BeginFull
  <1>2. CASE CopyFile(w)
    <2>1. PICK p \in job[w].paths : \E now : Put(job[w].stamp, p, now)
      BY <1>2 DEF CopyFile
    <2>2. job[w].stamp \in Stamp
      BY <1>2, CreateStamps DEF CopyFile, CreateOps
    <2> QED BY <1>2, <2>1, <2>2 DEF CopyFile, Put
  <1>3. CASE WriteManifest(w)
    BY <1>3 DEF WriteManifest
  <1>4. CASE WriteMeta(w)
    BY <1>4 DEF WriteMeta, PutMeta
  <1>5. CASE DeleteSide(w)
    <2>1. PICK side \in job[w].sides : Delete(side) \/ UNCHANGED <<manifest, folder>>
      BY <1>5 DEF DeleteSide
    <2> QED BY <2>1 DEF Delete
  <1>6. CASE UNCHANGED <<manifest, folder>>
    BY <1>6
  <1> QED BY <1>1, <1>2, <1>3, <1>4, <1>5, <1>6, StaysOpen

LEMMA ManifestsRestore == IInv => \A t \in Manifests : RestoreOf(t) = manifest[t]
  BY RestoresManifest DEF IInv

LEMMA ManifestsRestoreNext == (IInv => \A t \in Manifests : RestoreOf(t) = manifest[t])'
  BY ManifestsRestore, PTL

LEMMA ManifestFaithful ==
    ASSUME IInv, IInv', NEW w \in Worker, WriteManifest(w), NEW t \in Stamp, job[w].stamp = t
    PROVE  RestoreOf(t)' = job[w].files
  <1>1. job[w] \in Uploading
    BY JobKinds DEF WriteManifest, IInv, TypeOK
  <1>2. job[w].files \in Files
    BY <1>1 DEF Uploading
  <1>3. manifest'[t] = job[w].files
    BY <1>2 DEF WriteManifest, IInv, TypeOK
  <1>4. t \in Manifests'
    BY <1>2, <1>3, SnapshotStoreAssumption DEF Manifests
  <1> QED BY <1>3, <1>4, ManifestsRestoreNext

LEMMA MetaFaithful ==
    ASSUME FInv, NEW w \in Worker, WriteMeta(w), NEW t \in Stamp \ asked, job[w].stamp = t
    PROVE  RestoreOf(t)' = job[w].files
  <1>1. job[w] \in Copying /\ job[w].op = "copy" /\ job[w].paths = {}
    BY JobKinds DEF WriteMeta, FInv, IInv, TypeOK
  <1>2. job[w].files \in Files /\ t \notin Manifests
    BY <1>1, CreateStamps DEF Copying, CreateOps, FInv
  <1>3. Copies(t) \in Files /\ \A p \in Path : Copies(t)[p] = job[w].files[p]
    <2>1. CopiedSoFar(job[w])
      BY <1>1 DEF FInv, Copied
    <2>2. Copies(t) \in Files
      BY CopiesType DEF FInv, IInv
    <2>3. \A p \in Path : Copies(t)[p] = job[w].files[p]
      BY <1>1, <2>1 DEF CopiedSoFar
    <2> QED BY <2>2, <2>3
  <1>4. Copies(t) = job[w].files
    BY <1>2, <1>3 DEF Files
  <1>5. folder'[t] = [files |-> job[w].files, meta |-> TRUE]
    BY <1>2, <1>4 DEF WriteMeta, PutMeta, FInv, IInv, TypeOK
  <1>6. folder'[t] # None /\ folder'[t].files = job[w].files
    <2>1. [files |-> job[w].files, meta |-> TRUE] # None
      BY <1>2, FolderIsSome
    <2> QED BY <1>5, <2>1
  <1>7. t \notin Manifests'
    BY <1>2 DEF WriteMeta, Manifests
  <1>8. RestoreOf(t)' = Copies(t)'
    BY <1>7 DEF RestoreOf
  <1> QED BY <1>6, <1>8 DEF Copies

(* Creates are faithful: a snapshot that a create completes restores to exactly  *)
(* the files the create found when it began, whichever blobs were there already, *)
(* whatever interrupted commands have left behind and others do meanwhile, unless *)
(* somebody has asked to forget it (_create_blobs_on, _create_full_on).          *)
THEOREM FaithfulHolds == ASSUME Quiet PROVE Spec => Faithful
  <1> DEFINE AsFound ==
        \A w \in Worker, t \in Stamp \ asked :
          job[w].op \in {"upload", "copy"} /\ job[w].stamp = t /\ ~Complete(t) /\ Complete(t)'
          => RestoreOf(t)' = job[w].files
  <1>1. ASSUME FInv, Next PROVE FInv' /\ AsFound
    <2>1. PICK v \in Worker : Step(v)
      BY <1>1 DEF Next, Step, Begin
    <2>2. FInv'
      BY <1>1, <2>1, FInvStep
    <2>3. ASSUME NEW w \in Worker, NEW t \in Stamp \ asked, job[w].op \in {"upload", "copy"},
                 job[w].stamp = t, ~Complete(t), Complete(t)'
          PROVE  RestoreOf(t)' = job[w].files
      <3>1. job[v].op \notin AloneOps
        BY <1>1, <2>3, OthersOpen DEF FInv, Idle, AloneOps
      <3>2. job[v].stamp = t /\ (WriteManifest(v) \/ WriteMeta(v))
        BY <1>1, <2>1, <2>3, <3>1, Completes DEF FInv
      <3>3. v = w
        BY <1>1, <2>3, <3>2 DEF FInv, IInv, Jobs, Distinct, CreateOps, WriteManifest, WriteMeta
      <3>4. CASE WriteManifest(w)
        BY <1>1, <2>2, <2>3, <3>4, ManifestFaithful DEF FInv
      <3>5. CASE WriteMeta(w)
        BY <1>1, <2>3, <3>5, MetaFaithful
      <3> QED BY <3>2, <3>3, <3>4, <3>5
    <2> QED BY <2>2, <2>3
  <1>2. ASSUME FInv, [Next]_vars PROVE FInv' /\ [AsFound]_vars
    BY <1>1, <1>2, FInvStutter
  <1>3. Spec => [][AsFound]_vars
    <2> HIDE DEF AsFound
    <2> QED BY <1>2, FInvInit, PTL DEF Spec
  <1> QED BY <1>3 DEF Faithful

=============================================================================
