-------------------------------- MODULE MountFS --------------------------------
(***************************************************************************)
(* claude-mirror mount: read-only views of a snapshot (SnapshotFS,         *)
(* AsOfDateFS), of all of them (AllSnapshotsFS) and of a backend as it is  *)
(* now (LiveFS, PerMirrorFS), each in a process of its own with one thread *)
(* (nothreads=True), and the BlobCache on disk that all of them share.     *)
(*                                                                         *)
(* A snapshot holds one file here and a live view one file: paths and      *)
(* directories are looked up in what a manifest or a listing says and add  *)
(* nothing of their own.  A content stands for its SHA-256.  Snapshots are *)
(* numbered by their timestamps.  Which blobs the cache evicts, the oldest *)
(* by access time in the code, is left open.                               *)
(***************************************************************************)
EXTENDS Naturals, Sequences, FiniteSets

CONSTANTS
    Process,      \* the mount processes of one user
    Snapshots,    \* number of snapshots
    Content,      \* contents of files
    Recorded,     \* Recorded[s]: the content a snapshot was taken of
    Layouts,      \* what the backends hold of the snapshots at the start
    Kinds,        \* the variants a run mounts
    MaxOpen,      \* MAX_OPEN_SUBTREES
    MaxCached,    \* --cache-mb, in files
    MaxMounts,    \* bound: mounts started
    MaxFaults,    \* bound: failed calls, full disks, kills, blobs gone bad
    MaxChanges,   \* bound: changes on the backends
    Gone, None

Snapshot == 1..Snapshots

Backend == {"primary", "mirror"}

\* The two formats of a snapshot, and no copy.
Format == {"blobs", "full", "gone"}

ASSUME MountAssumption ==
    /\ Snapshots \in Nat \ {0} /\ MaxOpen \in Nat \ {0} /\ MaxCached \in Nat
    /\ MaxMounts \in Nat /\ MaxFaults \in Nat /\ MaxChanges \in Nat
    /\ Recorded \in [Snapshot -> Content]
    /\ None \notin Content /\ Gone \notin Content
    /\ Layouts \subseteq [Backend -> [Snapshot -> Format]]
    /\ Kinds \subseteq {"snapshot", "as-of", "all", "live"}

(***************************************************************************)
(* at[b][s] is the format of a snapshot on a backend, blob[b][c] its blob  *)
(* of a content, live[b] its file now.  A file of the cache is there or    *)
(* not, has all its bytes or not, and is open in the processes that are    *)
(* about to write it, which it keeps when it is renamed.  since[p] is      *)
(* history: the contents the live file has had since p began to read it.   *)
(***************************************************************************)
VARIABLES at, blob, live, main, tmp, proc, since, mounts, faults, changes

remote == <<at, blob, live>>
cache  == <<main, tmp>>
vars   == <<at, blob, live, main, tmp, proc, since, mounts, faults, changes>>

FileState == [there: BOOLEAN, whole: BOOLEAN, open: SUBSET Process]

Absent == [there |-> FALSE, whole |-> FALSE, open |-> {}]

Tree == [ts: Snapshot, format: {"blobs", "full"}, from: Backend, served: Backend]

Off == [pc |-> "off", kind |-> "snapshot", backend |-> "primary", index |-> {},
        trees |-> <<>>, known |-> [b \in Backend |-> {}], listing |-> FALSE, fresh |-> FALSE,
        ts |-> 0, found |-> None, want |-> None, raw |-> None, goal |-> "open",
        handle |-> None]

\* Nothing was pushed since the last snapshot.
Init ==
    /\ at \in Layouts
    /\ blob = [b \in Backend |-> [c \in Content |->
                  IF \E s \in Snapshot : at[b][s] = "blobs" /\ Recorded[s] = c
                  THEN "whole" ELSE "none"]]
    /\ live = [b \in Backend |-> Recorded[Snapshots]]
    /\ main = [c \in Content |-> Absent] /\ tmp = [c \in Content |-> Absent]
    /\ proc = [p \in Process |-> Off]
    /\ since = [p \in Process |-> {}]
    /\ mounts = 0 /\ faults = 0 /\ changes = 0

Set(p, r) == proc' = [proc EXCEPT ![p] = r]
At(p, pc) == proc[p].pc = pc
Fault == faults < MaxFaults /\ faults' = faults + 1
NoFault == UNCHANGED faults

\* What an operation leaves when it is over.
Over(r) == [r EXCEPT !.pc = "idle", !.want = None, !.raw = None, !.ts = 0, !.goal = "open"]
\* An error: a call returns EIO, a mount that cannot load its snapshot exits.
Fail(p) ==
    /\ Set(p, IF proc[p].goal = "mount" THEN Off ELSE Over(proc[p]))
    /\ since' = [since EXCEPT ![p] = {}]

-----------------------------------------------------------------------------
(* Mounting                                                                *)

Begin(p, r) ==
    /\ At(p, "off") /\ mounts < MaxMounts
    /\ mounts' = mounts + 1
    /\ Set(p, r)
    /\ UNCHANGED <<remote, cache, since, changes>>

\* SnapshotManager.list looks at the primary.
Listed == {s \in Snapshot : at["primary"][s] # "gone"}

\* --snapshot takes any timestamp, --tag one of the listing: the constructor
\* loads the manifest.
MountSnapshot(p, s) ==
    /\ "snapshot" \in Kinds
    /\ Begin(p, [Off EXCEPT !.pc = "inspect", !.ts = s, !.goal = "mount"])
    /\ NoFault

\* --as-of: the last snapshot of the listing that is not later.
MountAsOf(p, date) ==
    /\ "as-of" \in Kinds
    /\ \E s \in Listed :
        /\ s <= date /\ \A t \in Listed : t <= date => t <= s
        /\ Begin(p, [Off EXCEPT !.pc = "inspect", !.ts = s, !.goal = "mount"])
    /\ NoFault

\* --all-snapshots lists once; a listing that fails shows none.
MountAll(p) ==
    /\ "all" \in Kinds
    /\ \/ Begin(p, [Off EXCEPT !.pc = "idle", !.kind = "all", !.index = Listed]) /\ NoFault
       \/ Begin(p, [Off EXCEPT !.pc = "idle", !.kind = "all"]) /\ Fault

\* --live, of the primary or of one mirror: it lists when it starts.
MountLive(p, b) ==
    /\ "live" \in Kinds
    /\ Begin(p, [Off EXCEPT !.pc = "refresh", !.kind = "live", !.backend = b])
    /\ NoFault

Unmount(p) ==
    /\ At(p, "idle")
    /\ Set(p, Off) /\ since' = [since EXCEPT ![p] = {}]
    /\ UNCHANGED <<remote, cache, mounts, faults, changes>>

-----------------------------------------------------------------------------
(* Resolving a path                                                        *)

TreesOf(r) == {r.trees[i] : i \in DOMAIN r.trees}

\* What a tree's entry for its file says, and where the fetch starts: a hash is
\* looked up in the cache, a file id is downloaded first.
Fetch(r, t) ==
    [r EXCEPT !.ts = t.ts,
              !.want = IF t.format = "blobs" THEN Recorded[t.ts] ELSE None,
              !.pc = IF t.format = "blobs" THEN "lookup" ELSE "download"]

\* A tree becomes the most recent.
Touched(trees, i) ==
    [j \in 1..Len(trees) |-> IF j < i THEN trees[j]
                             ELSE IF j < Len(trees) THEN trees[j + 1] ELSE trees[i]]

\* open on a file of a snapshot that is loaded.
OpenLoaded(p) ==
    /\ At(p, "idle") /\ proc[p].handle = None
    /\ \E i \in DOMAIN proc[p].trees :
           Set(p, Fetch([proc[p] EXCEPT !.trees = Touched(proc[p].trees, i)], proc[p].trees[i]))
    /\ UNCHANGED <<remote, cache, since, mounts, faults, changes>>

\* open below a timestamp of --all-snapshots that is not loaded.
OpenNew(p) ==
    /\ At(p, "idle") /\ proc[p].kind = "all" /\ proc[p].handle = None
    /\ \E s \in proc[p].index \ {t.ts : t \in TreesOf(proc[p])} :
           Set(p, [proc[p] EXCEPT !.pc = "inspect", !.ts = s, !.goal = "open"])
    /\ UNCHANGED <<remote, cache, since, mounts, faults, changes>>

\* getattr and readdir below a timestamp of --all-snapshots touch its subtree, or
\* load it, also while a file is open.
Look(p) ==
    /\ At(p, "idle") /\ proc[p].kind = "all"
    /\ \/ \E i \in DOMAIN proc[p].trees :
              Set(p, [proc[p] EXCEPT !.trees = Touched(proc[p].trees, i)])
       \/ \E s \in proc[p].index \ {t.ts : t \in TreesOf(proc[p])} :
              Set(p, [proc[p] EXCEPT !.pc = "inspect", !.ts = s, !.goal = "look"])
    /\ UNCHANGED <<remote, cache, since, mounts, faults, changes>>

\* The first backend that answers and has the snapshot, one passed over by a
\* call that fails.
Answers(p, b) ==
    /\ at[b][proc[p].ts] # "gone"
    /\ IF b = "primary" \/ at["primary"][proc[p].ts] = "gone" THEN NoFault ELSE Fault

\* inspect: the manifest of a blobs snapshot, or the file ids of a full one.
Inspect(p) ==
    /\ At(p, "inspect")
    /\ \E b \in Backend :
        /\ Answers(p, b)
        /\ Set(p, [proc[p] EXCEPT !.pc = "locate",
                     !.found = [ts |-> proc[p].ts, format |-> at[b][proc[p].ts],
                                from |-> b, served |-> b]])
    /\ UNCHANGED <<remote, cache, since, mounts, changes>>

InspectFail(p) ==
    /\ At(p, "inspect")
    /\ \/ (\A b \in Backend : at[b][proc[p].ts] = "gone") /\ NoFault
       \/ Fault
    /\ Fail(p)
    /\ UNCHANGED <<remote, cache, mounts, changes>>

\* Mutant: one subtree more than the limit stays.
KeptOneMore(trees) == IF Len(trees) > MaxOpen + 1 THEN Tail(trees) ELSE trees
\* The least recent subtree goes when there are too many.
Kept(trees) == IF Len(trees) > MaxOpen THEN Tail(trees) ELSE trees

Load(p, t) ==
    LET r == [proc[p] EXCEPT !.trees = Kept(Append(proc[p].trees, t)), !.found = None] IN
    Set(p, IF r.goal = "open" THEN Fetch(r, t) ELSE Over(r))

\* _locate_snapshot_backend asks the backends again, and its answer, the
\* primary when it has none, serves the files.
Locate(p) ==
    /\ At(p, "locate")
    /\ \/ \E b \in Backend : Answers(p, b) /\ Load(p, [proc[p].found EXCEPT !.served = b])
       \/ /\ \/ (\A b \in Backend : at[b][proc[p].ts] = "gone") /\ NoFault
             \/ Fault
          /\ Load(p, [proc[p].found EXCEPT !.served = "primary"])
    /\ UNCHANGED <<remote, cache, since, mounts, changes>>

\* LiveFS._refresh_listing: a failed listing counts as an empty one and is kept
\* as long.
Refresh(p) ==
    /\ At(p, "refresh")
    /\ \/ /\ live[proc[p].backend] # Gone /\ NoFault
          /\ Set(p, [proc[p] EXCEPT !.pc = "idle", !.listing = TRUE, !.fresh = TRUE])
       \/ /\ (live[proc[p].backend] = Gone /\ NoFault) \/ Fault
          /\ Set(p, [proc[p] EXCEPT !.pc = "idle", !.listing = FALSE, !.fresh = TRUE])
    /\ UNCHANGED <<remote, cache, since, mounts, changes>>

\* The listing is older than --ttl: the next call lists again.
Expire(p) ==
    /\ At(p, "idle") /\ proc[p].kind = "live" /\ proc[p].fresh
    /\ Set(p, [proc[p] EXCEPT !.fresh = FALSE])
    /\ UNCHANGED <<remote, cache, since, mounts, faults, changes>>

Relist(p) ==
    /\ At(p, "idle") /\ proc[p].kind = "live" /\ ~proc[p].fresh
    /\ Set(p, [proc[p] EXCEPT !.pc = "refresh"])
    /\ UNCHANGED <<remote, cache, since, mounts, faults, changes>>

\* open on a file of the live listing.
OpenLive(p) ==
    /\ At(p, "idle") /\ proc[p].kind = "live" /\ proc[p].fresh /\ proc[p].listing
    /\ proc[p].handle = None
    /\ Set(p, [proc[p] EXCEPT !.pc = "download"])
    /\ since' = [since EXCEPT ![p] = {live[proc[p].backend]}]
    /\ UNCHANGED <<remote, cache, mounts, faults, changes>>

-----------------------------------------------------------------------------
(* BlobCache.get and the fetch it calls                                    *)

\* open puts the bytes into its table of handles.
Deliver(p, data) ==
    Set(p, [Over(proc[p]) EXCEPT
              !.handle = [ts |-> proc[p].ts, data |-> data, seen |-> since[p]]])

\* Mutant: bytes that are there are good.
HitUnchecked(p) == main[proc[p].want].there
\* The file is there and its bytes have the hash it is named for.
Hit(p) == main[proc[p].want].whole

LookupHit(p) ==
    /\ At(p, "lookup") /\ Hit(p)
    /\ Deliver(p, IF main[proc[p].want].whole THEN proc[p].want ELSE None)
    /\ UNCHANGED <<remote, cache, since, mounts, faults, changes>>

\* After a miss the bytes are fetched, unless the caller has them.
AfterMiss(r) == [r EXCEPT !.pc = IF r.raw = None THEN "ids" ELSE "tmp"]

LookupMiss(p) ==
    /\ At(p, "lookup") /\ ~Hit(p)
    /\ Set(p, IF main[proc[p].want].there THEN [proc[p] EXCEPT !.pc = "purge"]
              ELSE AfterMiss(proc[p]))
    /\ UNCHANGED <<remote, cache, since, mounts, faults, changes>>

\* The bad file is unlinked, or what another process has put there meanwhile.
Purge(p) ==
    /\ At(p, "purge")
    /\ main' = [main EXCEPT ![proc[p].want] = Absent]
    /\ Set(p, AfterMiss(proc[p]))
    /\ UNCHANGED <<remote, tmp, since, mounts, faults, changes>>

Loaded(p) == CHOOSE t \in TreesOf(proc[p]) : t.ts = proc[p].ts
Source(p) == IF proc[p].kind = "live" THEN proc[p].backend ELSE Loaded(p).served
Present(b) == {c \in Content : blob[b][c] # "none"}

\* get_blob_content lists the blobs of a backend once a mount, unless there was
\* none: a blob of a later day is not found.
BlobIds(p) ==
    /\ At(p, "ids") /\ NoFault
    /\ LET b == Source(p)
           known == IF proc[p].known[b] = {} THEN Present(b) ELSE proc[p].known[b]
           r == [proc[p] EXCEPT !.known[b] = known]
       IN  IF proc[p].want \in known
           THEN Set(p, [r EXCEPT !.pc = "download"]) /\ UNCHANGED since
           ELSE Set(p, Over(r)) /\ since' = [since EXCEPT ![p] = {}]
    /\ UNCHANGED <<remote, cache, mounts, changes>>

BlobIdsFail(p) ==
    /\ At(p, "ids") /\ proc[p].known[Source(p)] = {}
    /\ Fault /\ Fail(p)
    /\ UNCHANGED <<remote, cache, mounts, changes>>

\* A blob whose bytes have the hash is written to the cache.
DownloadBlob(p) ==
    /\ At(p, "download") /\ proc[p].want # None
    /\ blob[Source(p)][proc[p].want] = "whole"
    /\ Set(p, [proc[p] EXCEPT !.pc = "tmp", !.raw = proc[p].want])
    /\ UNCHANGED <<remote, cache, since, mounts, faults, changes>>

\* A file of a full snapshot or of the live view: the cache is asked for the
\* hash of what came.
DownloadFile(p) ==
    /\ At(p, "download") /\ proc[p].want = None
    /\ LET data == IF proc[p].kind = "live" THEN live[proc[p].backend]
                   ELSE Recorded[proc[p].ts] IN
        /\ IF proc[p].kind = "live" THEN data # Gone
           ELSE at[Loaded(p).served][proc[p].ts] = "full" /\ Loaded(p).from = Loaded(p).served
        /\ Set(p, [proc[p] EXCEPT !.pc = "lookup", !.want = data, !.raw = data])
    /\ UNCHANGED <<remote, cache, since, mounts, faults, changes>>

\* What cannot be had, or has not the hash it should have, ends the open.
Unavailable(p) ==
    IF proc[p].want # None THEN blob[Source(p)][proc[p].want] # "whole"
    ELSE IF proc[p].kind = "live" THEN live[proc[p].backend] = Gone
    ELSE at[Loaded(p).served][proc[p].ts] # "full" \/ Loaded(p).from # Loaded(p).served

DownloadFail(p) ==
    /\ At(p, "download")
    /\ (Unavailable(p) /\ NoFault) \/ Fault
    /\ Fail(p)
    /\ UNCHANGED <<remote, cache, mounts, changes>>

\* write_bytes opens and empties the temporary file, whoever made it, and then
\* fills it, under whatever name it has by then.
OpenTmp(p) ==
    /\ At(p, "tmp")
    /\ tmp' = [tmp EXCEPT ![proc[p].want] =
                  [there |-> TRUE, whole |-> FALSE, open |-> tmp[proc[p].want].open \cup {p}]]
    /\ Set(p, [proc[p] EXCEPT !.pc = "write"])
    /\ UNCHANGED <<remote, main, since, mounts, faults, changes>>

Closed(f, p) == [c \in Content |-> [f[c] EXCEPT !.open = f[c].open \ {p}]]
Filled(f, p) == [c \in Content |-> IF p \in f[c].open
                                   THEN [f[c] EXCEPT !.whole = TRUE, !.open = f[c].open \ {p}]
                                   ELSE f[c]]

WriteTmp(p) ==
    /\ At(p, "write")
    /\ main' = Filled(main, p) /\ tmp' = Filled(tmp, p)
    /\ Set(p, [proc[p] EXCEPT !.pc = "replace"])
    /\ UNCHANGED <<remote, since, mounts, faults, changes>>

\* The disk is full: the temporary file goes and the open fails, though the
\* bytes are there.
WriteFail(p) ==
    /\ At(p, "write") /\ Fault
    /\ main' = Closed(main, p) /\ tmp' = [tmp EXCEPT ![proc[p].want] = Absent]
    /\ Fail(p)
    /\ UNCHANGED <<remote, mounts, changes>>

\* os.replace; when another process was there first the open fails.
Replace(p) ==
    /\ At(p, "replace") /\ tmp[proc[p].want].there
    /\ main' = [main EXCEPT ![proc[p].want] = tmp[proc[p].want]]
    /\ tmp' = [tmp EXCEPT ![proc[p].want] = Absent]
    /\ Set(p, [proc[p] EXCEPT !.pc = "evict"])
    /\ UNCHANGED <<remote, since, mounts, faults, changes>>

ReplaceFail(p) ==
    /\ At(p, "replace") /\ ~tmp[proc[p].want].there
    /\ Fail(p)
    /\ UNCHANGED <<remote, cache, mounts, faults, changes>>

Files(f) == {c \in Content : f[c].there}
Excess == LET n == Cardinality(Files(main)) + Cardinality(Files(tmp))
          IN  IF n > MaxCached THEN n - MaxCached ELSE 0

\* _evict_locked: as many files go as are too many, temporary ones included,
\* and the bytes fetched are handed out.
Evict(p) ==
    /\ At(p, "evict")
    /\ \E m \in SUBSET Files(main), t \in SUBSET Files(tmp) :
        /\ Cardinality(m) + Cardinality(t) = Excess
        /\ main' = [c \in Content |-> IF c \in m THEN Absent ELSE main[c]]
        /\ tmp' = [c \in Content |-> IF c \in t THEN Absent ELSE tmp[c]]
    /\ Deliver(p, proc[p].raw)
    /\ UNCHANGED <<remote, since, mounts, faults, changes>>

Release(p) ==
    /\ At(p, "idle") /\ proc[p].handle # None
    /\ Set(p, [proc[p] EXCEPT !.handle = None])
    /\ since' = [since EXCEPT ![p] = {}]
    /\ UNCHANGED <<remote, cache, mounts, faults, changes>>

-----------------------------------------------------------------------------
(* What happens around the mounts                                          *)

Kill(p) ==
    /\ ~At(p, "off") /\ ~At(p, "idle") /\ Fault
    /\ main' = Closed(main, p) /\ tmp' = Closed(tmp, p)
    /\ Set(p, Off) /\ since' = [since EXCEPT ![p] = {}]
    /\ UNCHANGED <<remote, mounts, changes>>

\* A file of the cache goes bad on the disk.
Rot ==
    /\ Fault
    /\ \E c \in Content : main[c].whole /\ main' = [main EXCEPT ![c].whole = FALSE]
    /\ UNCHANGED <<remote, tmp, proc, since, mounts, changes>>

Change == changes < MaxChanges /\ changes' = changes + 1

\* Other commands: migrate, forget followed by gc, and a blob that an upload
\* cut short has left behind.
Migrate(b, s) ==
    /\ Change /\ at[b][s] = "full"
    /\ at' = [at EXCEPT ![b][s] = "blobs"]
    /\ blob' = [blob EXCEPT ![b][Recorded[s]] = "whole"]
    /\ UNCHANGED <<live, cache, proc, since, mounts, faults>>

Forget(b, s) ==
    /\ Change /\ at[b][s] # "gone"
    /\ at' = [at EXCEPT ![b][s] = "gone"]
    /\ blob' = [blob EXCEPT ![b] = [c \in Content |->
                   IF \E t \in Snapshot \ {s} : at[b][t] = "blobs" /\ Recorded[t] = c
                   THEN blob[b][c] ELSE "none"]]
    /\ UNCHANGED <<live, cache, proc, since, mounts, faults>>

Damage(b, c) ==
    /\ Fault /\ blob[b][c] = "whole"
    /\ blob' = [blob EXCEPT ![b][c] = "torn"]
    /\ UNCHANGED <<at, live, cache, proc, since, mounts, changes>>

\* A push changes or deletes the live file.
Push(b, new) ==
    /\ Change /\ new # live[b]
    /\ live' = [live EXCEPT ![b] = new]
    /\ since' = [p \in Process |->
           IF since[p] # {} /\ proc[p].backend = b THEN since[p] \cup {new} ELSE since[p]]
    /\ UNCHANGED <<at, blob, cache, proc, mounts, faults>>

-----------------------------------------------------------------------------
Step(p) ==
    \/ \E s \in Snapshot : MountSnapshot(p, s) \/ MountAsOf(p, s)
    \/ MountAll(p) \/ \E b \in Backend : MountLive(p, b)
    \/ Unmount(p) \/ OpenLoaded(p) \/ OpenNew(p) \/ OpenLive(p) \/ Look(p)
    \/ Inspect(p) \/ InspectFail(p) \/ Locate(p)
    \/ Refresh(p) \/ Expire(p) \/ Relist(p)
    \/ LookupHit(p) \/ LookupMiss(p) \/ Purge(p)
    \/ BlobIds(p) \/ BlobIdsFail(p)
    \/ DownloadBlob(p) \/ DownloadFile(p) \/ DownloadFail(p)
    \/ OpenTmp(p) \/ WriteTmp(p) \/ WriteFail(p)
    \/ Replace(p) \/ ReplaceFail(p) \/ Evict(p)
    \/ Release(p) \/ Kill(p)

Others ==
    \/ Rot
    \/ \E b \in Backend :
        \/ \E s \in Snapshot : Migrate(b, s) \/ Forget(b, s)
        \/ \E c \in Content : Damage(b, c)
        \/ \E new \in Content \cup {Gone} : Push(b, new)

Next == Others \/ \E p \in Process : Step(p)

Spec == Init /\ [][Next]_vars

-----------------------------------------------------------------------------
\* Never more subtrees than MAX_OPEN_SUBTREES, one for a timestamp, and a file
\* of the cache still to be written belongs to a process that writes it.
TypeOK ==
    /\ at \in [Backend -> [Snapshot -> Format]]
    /\ blob \in [Backend -> [Content -> {"none", "whole", "torn"}]]
    /\ live \in [Backend -> Content \cup {Gone}]
    /\ main \in [Content -> FileState] /\ tmp \in [Content -> FileState]
    /\ \A c \in Content, p \in Process : p \in main[c].open \cup tmp[c].open => At(p, "write")
    /\ \A p \in Process :
        /\ Len(proc[p].trees) <= MaxOpen
        /\ \A i, j \in DOMAIN proc[p].trees :
               /\ proc[p].trees[i] \in Tree
               /\ proc[p].trees[i].ts = proc[p].trees[j].ts => i = j
        /\ \A b \in Backend : proc[p].known[b] \subseteq Content

\* The bytes an open hands out are those the snapshot was taken of, or, in a
\* live view, those the file had at some moment since the open began: whatever
\* other mounts write to, purge and evict from the cache they share, whoever is
\* killed there, whatever rots on the disk or is cut short on a backend, and
\* whatever other commands migrate or forget meanwhile.
BytesAreRight ==
    \A p \in Process :
        LET h == proc[p].handle IN
        h # None => IF proc[p].kind = "live" THEN h.data \in h.seen \ {Gone}
                    ELSE h.data = Recorded[h.ts]
=============================================================================
