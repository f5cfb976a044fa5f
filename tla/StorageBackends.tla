--------------------------- MODULE StorageBackends ---------------------------
(***************************************************************************)
(* The eight storage backends behind one interface (StorageBackend):        *)
(* googledrive, dropbox, onedrive, webdav, s3, sftp, ftp and smb.  One      *)
(* behaviour is about one backend, chosen at the start.                     *)
(*                                                                          *)
(* Uploaders, each a thread of some process, put versions of files in one   *)
(* subfolder; a reader downloads; a lister walks the tree; files are        *)
(* deleted.  A call of the remote service may fail with any condition, its  *)
(* reply may be lost after it took effect, and a process may be killed.     *)
(*                                                                          *)
(* What differs between the backends is kept: how a file is addressed (by   *)
(* path, or by an id so that two files may share a path), how an upload     *)
(* becomes visible (one request, a temporary object that is renamed, or in  *)
(* place), what a listing does when a folder cannot be read, and which      *)
(* errors are worth a retry.  A file is two blocks, which an upload in      *)
(* place or to a temporary object writes one after the other.               *)
(***************************************************************************)
EXTENDS Naturals, FiniteSets

CONSTANTS
    Kind,         \* the backends under consideration
    Uploader,     \* threads that upload
    Process,      \* the processes they run in
    File,         \* the names of the files
    NoFile,       \* no file
    MaxAttempts,  \* config.max_retry_attempts
    MaxCalls,     \* bound on upload and copy calls
    MaxFaults     \* bound on failed calls, lost replies and kills

ASSUME BoundAssumption ==
    /\ NoFile \notin File
    /\ MaxAttempts \in Nat \ {0}
    /\ MaxCalls \in Nat
    /\ MaxFaults \in Nat

KindAssumption ==
    Kind \subseteq {"googledrive", "dropbox", "onedrive", "webdav", "s3", "sftp", "ftp", "smb"}

ASSUME KindAssumption

-----------------------------------------------------------------------------
(* Error classes.  What can go wrong in a call, and the class each backend   *)
(* gives it.                                                                 *)

Condition == {"credentials", "forbidden", "missing", "full", "throttled", "server",
              "network", "odd"}

\* Mutant: a Drive quota error (a 403) taken for throttling.
GoogleDriveClassOf403 ==
    [credentials |-> "auth", forbidden |-> "permission", missing |-> "file_rejected",
     full |-> "rate_limit_global", throttled |-> "rate_limit_global", server |-> "transient",
     network |-> "transient", odd |-> "unknown"]

GoogleDriveClass ==
    [credentials |-> "auth", forbidden |-> "permission", missing |-> "file_rejected",
     full |-> "quota", throttled |-> "rate_limit_global", server |-> "transient",
     network |-> "transient", odd |-> "unknown"]

DropboxClass ==
    [credentials |-> "auth", forbidden |-> "permission", missing |-> "unknown",
     full |-> "quota", throttled |-> "rate_limit_global", server |-> "transient",
     network |-> "transient", odd |-> "unknown"]

OneDriveClass ==
    [credentials |-> "auth", forbidden |-> "permission", missing |-> "file_rejected",
     full |-> "quota", throttled |-> "rate_limit_global", server |-> "transient",
     network |-> "transient", odd |-> "unknown"]

WebDAVClass ==
    [credentials |-> "auth", forbidden |-> "permission", missing |-> "file_rejected",
     full |-> "quota", throttled |-> "rate_limit_global", server |-> "transient",
     network |-> "transient", odd |-> "file_rejected"]

S3Class ==
    [credentials |-> "auth", forbidden |-> "auth", missing |-> "file_rejected",
     full |-> "transient", throttled |-> "rate_limit_global", server |-> "transient",
     network |-> "transient", odd |-> "unknown"]

SftpClass ==
    [credentials |-> "auth", forbidden |-> "permission", missing |-> "file_rejected",
     full |-> "quota", throttled |-> "unknown", server |-> "unknown",
     network |-> "transient", odd |-> "unknown"]

FtpClass ==
    [credentials |-> "auth", forbidden |-> "permission", missing |-> "file_rejected",
     full |-> "quota", throttled |-> "transient", server |-> "transient",
     network |-> "transient", odd |-> "unknown"]

SmbClass ==
    [credentials |-> "auth", forbidden |-> "permission", missing |-> "file_rejected",
     full |-> "quota", throttled |-> "unknown", server |-> "unknown",
     network |-> "transient", odd |-> "unknown"]

classify_error(k, c) ==
    CASE k = "googledrive" -> GoogleDriveClass[c]
      [] k = "dropbox"     -> DropboxClass[c]
      [] k = "onedrive"    -> OneDriveClass[c]
      [] k = "webdav"      -> WebDAVClass[c]
      [] k = "s3"          -> S3Class[c]
      [] k = "sftp"        -> SftpClass[c]
      [] k = "ftp"         -> FtpClass[c]
      [] k = "smb"         -> SmbClass[c]

is_retryable(class) == class \in {"transient", "unknown", "rate_limit_global"}

-----------------------------------------------------------------------------
(* How each backend works.                                                   *)

\* A file is addressed by its path; googledrive uses ids, and paths may repeat.
ByPath == Kind \ {"googledrive"}

\* The new content is written to <path>.tmp, which then takes the place of <path>.
ViaTemp == Kind \cap {"sftp", "smb"}

\* The backends with an _upload_with_retry of their own.
Retrying == Kind \cap {"googledrive", "dropbox", "onedrive", "webdav"}

\* The conditions under which a folder that cannot be read is left out of a
\* listing, as if it were empty.
GoogleDriveSkips == {}
DropboxSkips     == {"missing", "forbidden"}
OneDriveSkips    == {"missing"}
WebDAVSkips      == Condition \ {"network"}
S3Skips          == {}
SftpSkips        == {"forbidden", "missing", "network", "odd"}
FtpSkips         == Condition \ {"credentials"}
SmbSkips         == {"forbidden", "missing", "network", "odd"}

Skips(k) ==
    CASE k = "googledrive" -> GoogleDriveSkips
      [] k = "dropbox"     -> DropboxSkips
      [] k = "onedrive"    -> OneDriveSkips
      [] k = "webdav"      -> WebDAVSkips
      [] k = "s3"          -> S3Skips
      [] k = "sftp"        -> SftpSkips
      [] k = "ftp"         -> FtpSkips
      [] k = "smb"         -> SmbSkips

\* One request lists the whole tree.
FlatListing == Kind \cap {"dropbox", "s3", "webdav"}

-----------------------------------------------------------------------------
VARIABLES
    kind,     \* the backend
    host,     \* the process each uploader is a thread of
    obj,      \* the remote objects
    data,     \* the blocks of each allocated node
    used,     \* how many nodes are allocated
    folder,   \* ids of the folders at the path of the files
    cache,    \* GoogleDriveBackend._folder_cache of each process
    call,     \* the upload or copy each uploader is in
    pending,  \* copies OneDrive has accepted and not carried out
    reader,   \* a download
    listing,  \* a list_files_recursive
    calls,    \* how many uploads and copies were begun
    faults,   \* how many calls failed, replies were lost, processes killed, files deleted
    overlap,  \* ghost: paths that two calls, or a call and a pending copy, ever shared
    broken,   \* ghost: paths whose last write in place was cut off
    left,     \* ghost: paths whose temporary was left behind by a kill or a failed removal
    blind     \* ghost: the reply to a Drive create was lost, or an id not known

vars == <<kind, host, obj, data, used, folder, cache, call, pending, reader, listing,
          calls, faults, overlap, broken, left, blind>>

MaxNodes == MaxCalls * MaxAttempts
Node     == 1..MaxNodes
Content  == [1..2 -> 0..MaxCalls]          \* 0: a block not written yet
FolderId == {1, 2}
Snapshots == 0                             \* the folder copies go to
PathOf(x) == <<x.dir = Snapshots, x.name>>
Path == {PathOf([dir |-> d, name |-> f]) : d \in {0, 1}, f \in File}

\* Stands for the folder of the files in overlap.
FolderPath == <<FALSE, NoFile>>

Object == [id : 0..MaxNodes, dir : FolderId \cup {Snapshots}, name : File,
           temp : BOOLEAN, node : Node]

Call == [pc : {"idle", "resolve", "query", "create", "put", "first", "second",
               "publish", "cleanup", "waiting", "ok", "failed"},
         op : {"upload", "copy"}, name : File \cup {NoFile}, dir : FolderId \cup {Snapshots},
         known : BOOLEAN, id : 0..MaxNodes, tries : 0..(MaxAttempts - 1),
         cond : Condition \cup {"none"}, node : 0..MaxNodes, want : Content,
         direct : BOOLEAN, late : BOOLEAN]

NoCall == [pc |-> "idle", op |-> "upload", name |-> NoFile, dir |-> 1,
           known |-> FALSE, id |-> 0, tries |-> 0, cond |-> "none", node |-> 0,
           want |-> [b \in 1..2 |-> 0], direct |-> FALSE, late |-> FALSE]

NoReader  == [pc |-> "idle", node |-> 0, name |-> NoFile, got |-> <<0, 0>>]
NoListing == [pc |-> "idle", todo |-> {}, found |-> {}, steady |-> {}, skipped |-> FALSE]

Init ==
    /\ kind \in Kind
    /\ host \in [Uploader -> Process]
    /\ obj = {} /\ used = 0 /\ pending = {} /\ folder = {}
    /\ data = [n \in Node |-> [b \in 1..2 |-> 0]]
    /\ cache = [p \in Process |-> 0]
    /\ call = [w \in Uploader |-> NoCall]
    /\ reader = NoReader /\ listing = NoListing
    /\ calls = 0 /\ faults = 0
    /\ overlap = {} /\ broken = {} /\ left = {} /\ blind = FALSE

Busy(w)  == call[w].pc # "idle"
Files    == {o \in obj : ~o.temp /\ o.dir # Snapshots}
At(c, t) == {o \in obj : PathOf(o) = PathOf(c) /\ o.temp = t}

\* The call c of w becomes d.
Becomes(w, d) == call' = [call EXCEPT ![w] = d]

\* The node of content c for an object at x, which replaces those in old.
Store(old, x, c) ==
    /\ used < MaxNodes
    /\ used' = used + 1
    /\ data' = [data EXCEPT ![used + 1] = c]
    /\ obj' = (obj \ old) \cup {[x EXCEPT !.node = used + 1]}

\* The object a call writes, at its path or at the path of its temporary.
ObjectOf(c, t) == [id |-> 0, dir |-> c.dir, name |-> c.name, temp |-> t, node |-> 1]

\* A call that may fail with one of conditions C.
Fault == faults < MaxFaults /\ faults' = faults + 1

-----------------------------------------------------------------------------
(* Beginning a call, and finding the folder.                                 *)

\* A copy OneDrive has accepted is still to be put at path p.
Awaited(p) == \E q \in pending : PathOf([dir |-> Snapshots, name |-> q.name]) = p

\* The paths in dispute once w begins a call at path p.
Overlaps(w, p) ==
    IF Awaited(p) \/ \E x \in Uploader \ {w} : Busy(x) /\ PathOf(call[x]) = p
    THEN overlap \cup {p} ELSE overlap

\* A process uploads a path in one thread at a time; other machines may upload it too.
MayBegin(w, p) ==
    /\ ~Busy(w) /\ calls < MaxCalls
    /\ \A x \in Uploader \ {w} : host[x] = host[w] /\ Busy(x) => PathOf(call[x]) # p

\* upload_file, with the file id of an earlier upload or without.
BeginUpload(w, f) ==
    LET c == [NoCall EXCEPT !.name = f, !.want = [b \in 1..2 |-> calls + 1]]
    IN /\ MayBegin(w, PathOf(c))
       /\ \/ /\ Becomes(w, [c EXCEPT !.pc = "resolve"])
             /\ blind' = (blind \/ At(c, FALSE) # {})
          \/ \E o \in At(c, FALSE) :
                /\ Becomes(w, [c EXCEPT !.pc = "put", !.known = TRUE, !.id = o.id, !.dir = o.dir])
                /\ UNCHANGED blind
       /\ overlap' = Overlaps(w, PathOf(c))
       /\ calls' = calls + 1
       /\ UNCHANGED <<kind, host, obj, data, used, folder, cache, pending, reader, listing,
                      faults, broken, left>>

\* copy_file of an object to the folder of a snapshot.
BeginCopy(w, o) ==
    LET c == [NoCall EXCEPT !.name = o.name, !.op = "copy", !.dir = Snapshots, !.pc = "put",
                            !.want = data[o.node], !.direct = (kind = "sftp")]
    IN /\ MayBegin(w, PathOf(c))
       /\ Becomes(w, c)
       /\ overlap' = Overlaps(w, PathOf(c))
       /\ calls' = calls + 1
       /\ UNCHANGED <<kind, host, obj, data, used, folder, cache, pending, reader, listing,
                      faults, broken, left, blind>>

\* resolve_path where a folder is a path: mkdir tells that it exists.
Resolve(w) ==
    /\ call[w].pc = "resolve"
    /\ folder' = folder \cup {1}
    /\ Becomes(w, [call[w] EXCEPT !.pc = "put"])
    /\ UNCHANGED <<kind, host, obj, data, used, cache, pending, reader, listing, calls,
                   faults, overlap, broken, left, blind>>

ResolveDropbox(w)  == kind = "dropbox" /\ Resolve(w)
ResolveOneDrive(w) == kind = "onedrive" /\ Resolve(w)
ResolveWebDAV(w)   == kind = "webdav" /\ Resolve(w)
ResolveSftp(w)     == kind = "sftp" /\ Resolve(w)
ResolveFtp(w)      == kind = "ftp" /\ Resolve(w)
ResolveSmb(w)      == kind = "smb" /\ Resolve(w)

\* On S3 a folder is a part of the key, and needs no request.
ResolveS3(w)       == kind = "s3" /\ Resolve(w)

\* get_or_create_folder on Drive: the cache of the process first.
LookInCache(w) ==
    /\ kind = "googledrive" /\ call[w].pc = "resolve"
    /\ Becomes(w, IF cache[host[w]] # 0
                  THEN [call[w] EXCEPT !.pc = "put", !.dir = cache[host[w]]]
                  ELSE [call[w] EXCEPT !.pc = "query"])
    /\ UNCHANGED <<kind, host, obj, data, used, folder, cache, pending, reader, listing,
                   calls, faults, overlap, broken, left, blind>>

\* Mutant: the query is left out.
QueryFolderNever(w) ==
    /\ call[w].pc = "query"
    /\ Becomes(w, [call[w] EXCEPT !.pc = "create"])
    /\ UNCHANGED <<kind, host, obj, data, used, folder, cache, pending, reader, listing, calls,
                   faults, overlap, broken, left, blind>>

\* Then the folders of that name; the first of them is taken.  Nothing keeps two
\* threads from finding none.
QueryFolder(w) ==
    /\ call[w].pc = "query"
    /\ \/ /\ folder = {}
          /\ Becomes(w, [call[w] EXCEPT !.pc = "create"])
          /\ overlap' = IF \E x \in Uploader : call[x].pc = "create"
                        THEN overlap \cup {FolderPath} ELSE overlap
          /\ UNCHANGED cache
       \/ \E d \in folder : /\ Becomes(w, [call[w] EXCEPT !.pc = "put", !.dir = d])
                            /\ cache' = [cache EXCEPT ![host[w]] = d]
                            /\ UNCHANGED overlap
    /\ UNCHANGED <<kind, host, obj, data, used, folder, pending, reader, listing, calls,
                   faults, broken, left, blind>>

\* Then a new one; its reply may be lost.
CreateFolder(w) ==
    /\ call[w].pc = "create"
    /\ LET d == Cardinality(folder) + 1 IN
          /\ d \in FolderId
          /\ folder' = folder \cup {d}
          /\ \/ /\ Becomes(w, [call[w] EXCEPT !.pc = "put", !.dir = d])
                /\ cache' = [cache EXCEPT ![host[w]] = d]
                /\ UNCHANGED faults
             \/ /\ Fault
                /\ Becomes(w, [call[w] EXCEPT !.pc = "failed", !.cond = "network"])
                /\ UNCHANGED cache
    /\ UNCHANGED <<kind, host, obj, data, used, pending, reader, listing, calls, overlap,
                   broken, left, blind>>

-----------------------------------------------------------------------------
(* upload_file, upload_bytes and copy_file, backend by backend.              *)

Same == <<kind, host, folder, cache, reader, listing, calls, overlap>>

\* The call took effect: the uploader learns it, or the reply is lost.
Replied(w, c, create) ==
    \/ /\ Becomes(w, [c EXCEPT !.pc = "ok"])
       /\ UNCHANGED <<faults, blind>>
    \/ /\ Fault
       /\ Becomes(w, [c EXCEPT !.pc = "failed", !.cond = "network"])
       /\ blind' = (blind \/ create)

\* One request puts the whole content at a path, over what is there.
Overwrite(w) ==
    /\ call[w].pc = "put"
    /\ Store(At(call[w], FALSE), ObjectOf(call[w], FALSE), call[w].want)
    /\ Replied(w, call[w], FALSE)
    /\ UNCHANGED <<Same, left, pending, broken>>

Uploads(w) == call[w].op = "upload"
Copies(w)  == call[w].op = "copy"

PutDropbox(w) == kind = "dropbox" /\ Uploads(w) /\ Overwrite(w)
PutS3(w)      == kind = "s3" /\ Uploads(w) /\ Overwrite(w)
PutWebDAV(w)  == kind = "webdav" /\ Uploads(w) /\ Overwrite(w)

\* files_copy_v2, copy_object and COPY: the server copies.
CopyDropbox(w) == kind = "dropbox" /\ Copies(w) /\ Overwrite(w)
CopyS3(w)      == kind = "s3" /\ Copies(w) /\ Overwrite(w)
CopyWebDAV(w)  == kind = "webdav" /\ Copies(w) /\ Overwrite(w)

\* The last chunk of an upload session publishes the file, as a small PUT does.
PutOneDrive(w) == kind = "onedrive" /\ Uploads(w) /\ Overwrite(w)

\* files().update of an id, or files().create and files().copy, which make a new file.
PutGoogleDrive(w) ==
    /\ kind = "googledrive" /\ call[w].pc = "put"
    /\ LET c   == call[w]
           old == {o \in obj : o.id = c.id /\ c.known}
       IN IF c.known /\ old = {}
          THEN /\ Becomes(w, [c EXCEPT !.pc = "failed", !.cond = "missing"])
               /\ UNCHANGED <<Same, left, obj, data, used, pending, broken, faults, blind>>
          ELSE /\ Store(old, IF c.known THEN CHOOSE o \in old : TRUE
                             ELSE [ObjectOf(c, FALSE) EXCEPT !.id = used + 1], c.want)
               /\ Replied(w, c, ~c.known)
               /\ UNCHANGED <<Same, left, pending, broken>>

\* The temporary object, or with FTP the file itself, is opened for writing: an
\* existing one keeps its node and is truncated.
InPlace(c) == kind = "ftp" \/ c.direct

\* Mutant: the file itself is opened although the backend has a temporary for it.
OpenDestination(w) ==
    LET c == call[w]
    IN /\ c.pc = "put"
       /\ \/ /\ At(c, FALSE) = {}
             /\ Store({}, ObjectOf(c, FALSE), NoCall.want)
             /\ Becomes(w, [c EXCEPT !.pc = "first", !.node = used + 1])
          \/ \E o \in At(c, FALSE) :
                /\ data' = [data EXCEPT ![o.node] = NoCall.want]
                /\ Becomes(w, [c EXCEPT !.pc = "first", !.node = o.node])
                /\ UNCHANGED <<obj, used>>
       /\ UNCHANGED <<Same, left, pending, broken, faults, blind>>

Open(w) ==
    LET c == call[w]
        there == At(c, ~InPlace(c))
    IN /\ c.pc = "put"
       /\ \/ /\ there = {}
             /\ Store({}, ObjectOf(c, ~InPlace(c)), NoCall.want)
             /\ Becomes(w, [c EXCEPT !.pc = "first", !.node = used + 1])
          \/ \E o \in there :
                /\ data' = [data EXCEPT ![o.node] = NoCall.want]
                /\ Becomes(w, [c EXCEPT !.pc = "first", !.node = o.node])
                /\ UNCHANGED <<obj, used>>
       /\ UNCHANGED <<Same, left, pending, broken, faults, blind>>

OpenSftp(w) == kind = "sftp" /\ Uploads(w) /\ Open(w)
OpenSmb(w)  == kind = "smb" /\ Uploads(w) /\ Open(w)
OpenFtp(w)  == kind = "ftp" /\ Uploads(w) /\ Open(w)

\* A copy is cp on the SFTP server, or a download and an upload of its bytes.
CopySftp(w) == kind = "sftp" /\ Copies(w) /\ Open(w)
CopySmb(w)  == kind = "smb" /\ Copies(w) /\ Open(w)
CopyFtp(w)  == kind = "ftp" /\ Copies(w) /\ Open(w)

\* A block goes to the node that was opened, whatever its name is by now.
WriteBlock(w) ==
    LET c == call[w]
        b == IF c.pc = "first" THEN 1 ELSE 2
    IN /\ c.pc \in {"first", "second"}
       /\ data' = [data EXCEPT ![c.node] = [data[c.node] EXCEPT ![b] = c.want[b]]]
       /\ Becomes(w, [c EXCEPT !.pc = IF b = 1 THEN "second" ELSE "publish"])
       /\ UNCHANGED <<Same, left, obj, used, pending, broken, faults, blind>>

\* Mutant: a rename that leaves an existing file alone.
RenameUnlessThere(w) ==
    LET c == call[w]
    IN /\ c.pc = "publish" /\ ~InPlace(c)
       /\ Becomes(w, [c EXCEPT !.pc = "ok"])
       /\ obj' = IF At(c, FALSE) # {} THEN obj \ At(c, TRUE)
                 ELSE (obj \ At(c, TRUE)) \cup {[o EXCEPT !.temp = FALSE] : o \in At(c, TRUE)}
       /\ UNCHANGED <<Same, left, data, used, pending, broken, faults, blind>>

\* posix_rename and _replace: the temporary takes the place of the file.
Rename(w) ==
    LET c == call[w]
        temp == At(c, TRUE)
    IN /\ c.pc = "publish" /\ ~InPlace(c)
       /\ \/ /\ temp = {}
             /\ Becomes(w, [c EXCEPT !.pc = "cleanup", !.cond = "missing"])
             /\ UNCHANGED <<obj, faults>>
          \/ \E o \in temp :
                /\ obj' = (obj \ (temp \cup At(c, FALSE))) \cup {[o EXCEPT !.temp = FALSE]}
                /\ \/ Becomes(w, [c EXCEPT !.pc = "ok"]) /\ UNCHANGED faults
                   \/ Fault /\ Becomes(w, [c EXCEPT !.pc = "cleanup", !.cond = "network"])
       /\ UNCHANGED <<Same, left, data, used, pending, broken, blind>>

\* The end of STOR, and of cp on the SFTP server.
Close(w) ==
    /\ call[w].pc = "publish" /\ InPlace(call[w])
    /\ Becomes(w, [call[w] EXCEPT !.pc = "ok"])
    /\ broken' = broken \ {PathOf(call[w])}
    /\ UNCHANGED <<Same, left, obj, data, used, pending, faults, blind>>

\* Mutant: the except branch only raises.
CleanupNot(w) ==
    /\ call[w].pc = "cleanup"
    /\ Becomes(w, [call[w] EXCEPT !.pc = "failed"])
    /\ UNCHANGED <<Same, left, obj, data, used, pending, broken, faults, blind>>

\* The except branch of an upload through a temporary: it is removed, or stays.
Cleanup(w) ==
    LET c == call[w]
    IN /\ c.pc = "cleanup"
       /\ Becomes(w, [c EXCEPT !.pc = "failed"])
       /\ \/ obj' = obj \ At(c, TRUE) /\ UNCHANGED <<faults, left>>
          \/ Fault /\ left' = left \cup {PathOf(c)} /\ UNCHANGED obj
       /\ UNCHANGED <<Same, data, used, pending, broken, blind>>

\* OneDrive accepts a copy (202) and carries it out later.
PostCopy(w) ==
    /\ kind = "onedrive" /\ call[w].pc = "put" /\ call[w].op = "copy"
    /\ pending' = pending \cup {[name |-> call[w].name, want |-> call[w].want]}
    /\ Becomes(w, [call[w] EXCEPT !.pc = "waiting"])
    /\ UNCHANGED <<Same, left, obj, data, used, broken, faults, blind>>

CopyLands(q) ==
    LET x == [NoCall EXCEPT !.dir = Snapshots, !.name = q.name]
    IN /\ q \in pending
       /\ Store(At(x, FALSE), ObjectOf(x, FALSE), q.want)
       /\ pending' = pending \ {q}
       /\ UNCHANGED <<Same, left, call, broken, faults, blind>>

\* _wait_for_copy: completed, failed, or the minute is over, which is no error.
WaitForCopy(w) ==
    LET c == call[w]
        q == [name |-> c.name, want |-> c.want]
    IN /\ c.pc = "waiting"
       /\ \/ /\ Becomes(w, [c EXCEPT !.pc = "ok", !.late = (q \in pending)])
             /\ UNCHANGED <<pending, faults>>
          \/ /\ q \in pending /\ Fault
             /\ Becomes(w, [c EXCEPT !.pc = "failed", !.cond = "odd"])
             /\ pending' = pending \ {q}
       /\ UNCHANGED <<Same, left, obj, data, used, broken, blind>>

-----------------------------------------------------------------------------
(* Failures, retries, kills, deletions.                                      *)

\* A request of the call fails before it has any effect.  A failed cp makes
\* copy_file download and upload through a temporary instead.  What went wrong
\* matters to _upload_with_retry only.
Fail(w, e) ==
    LET c == call[w]
    IN /\ \/ c.pc \in {"query", "create", "put", "first", "second", "publish"}
          \/ c.pc = "resolve" /\ kind \in ByPath \ {"s3"}
       /\ Fault
       /\ Becomes(w, IF c.direct THEN [c EXCEPT !.pc = "put", !.direct = FALSE]
                     ELSE [c EXCEPT !.cond = IF c.op = "upload" /\ kind \in Retrying THEN e ELSE "none",
                                    !.pc = IF kind \in ViaTemp /\ c.pc # "resolve"
                                           THEN "cleanup" ELSE "failed"])
       /\ broken' = IF InPlace(c) /\ c.pc \in {"first", "second", "publish"}
                    THEN broken \cup {PathOf(c)} ELSE broken
       /\ UNCHANGED <<Same, left, obj, data, used, pending, blind>>

\* Mutant: the number of attempts is off by one.
WillRetryOnceMore(c) ==
    /\ c.pc = "failed" /\ c.op = "upload" /\ kind \in Retrying
    /\ is_retryable(classify_error(kind, c.cond))
    /\ c.tries < MaxAttempts

\* _upload_with_retry: another attempt with the same arguments.
WillRetry(c) ==
    /\ c.pc = "failed" /\ c.op = "upload" /\ kind \in Retrying
    /\ is_retryable(classify_error(kind, c.cond))
    /\ c.tries + 1 < MaxAttempts

Retry(w) ==
    /\ WillRetry(call[w])
    /\ Becomes(w, [call[w] EXCEPT !.pc = IF call[w].known THEN "put" ELSE "resolve",
                                  !.tries = call[w].tries + 1, !.cond = "none"])
    /\ UNCHANGED <<Same, left, obj, data, used, pending, broken, faults, blind>>

Return(w) ==
    /\ \/ call[w].pc = "ok"
       \/ call[w].pc = "failed" /\ ~WillRetry(call[w])
    /\ Becomes(w, NoCall)
    /\ UNCHANGED <<Same, left, obj, data, used, pending, broken, faults, blind>>

\* A process is killed: its calls end where they are, and its cache is gone.
Kill(p) ==
    LET cut == {w \in Uploader : host[w] = p /\ Busy(w)}
    IN /\ cut # {} /\ Fault
       /\ call' = [w \in Uploader |-> IF w \in cut THEN NoCall ELSE call[w]]
       /\ cache' = [cache EXCEPT ![p] = 0]
       /\ broken' = broken \cup {PathOf(call[w]) : w \in {x \in cut : InPlace(call[x]) /\
                                    call[x].pc \in {"first", "second", "publish"}}}
       /\ left' = left \cup {PathOf(call[w]) : w \in cut}
       /\ UNCHANGED <<kind, host, obj, data, used, folder, pending, reader, listing, calls,
                      overlap, blind>>

\* delete_file of an object that is there.
Delete(o) ==
    /\ o \in Files
    /\ Fault
    /\ obj' = obj \ {o}
    /\ overlap' = IF \E w \in Uploader : Busy(w) /\ PathOf(call[w]) = PathOf(o)
                  THEN overlap \cup {PathOf(o)} ELSE overlap
    /\ listing' = [listing EXCEPT !.steady = listing.steady \ {o.name}]
    /\ UNCHANGED <<kind, host, data, used, folder, cache, call, pending, reader, calls,
                   broken, left, blind>>

-----------------------------------------------------------------------------
(* download_file and list_files_recursive, by a client that does one of them *)
(* at a time.                                                                *)

Idle == <<kind, host, obj, data, used, folder, cache, call, pending, calls, overlap,
          broken, left, blind>>

BeginDownload(o) ==
    /\ reader.pc = "idle" /\ listing.pc = "idle" /\ o \in Files
    /\ reader' = [NoReader EXCEPT !.pc = "first", !.node = o.node, !.name = o.name]
    /\ UNCHANGED <<Idle, listing, faults>>

Download ==
    LET b == IF reader.pc = "first" THEN 1 ELSE 2
    IN /\ reader.pc \in {"first", "second"}
       /\ reader' = [reader EXCEPT !.pc = IF b = 1 THEN "second" ELSE "done",
                                   !.got[b] = data[reader.node][b]]
       /\ UNCHANGED <<Idle, listing, faults>>

EndDownload ==
    /\ reader.pc = "done"
    /\ reader' = NoReader
    /\ UNCHANGED <<Idle, listing, faults>>

BeginListing ==
    /\ listing.pc = "idle" /\ reader.pc = "idle"
    /\ listing' = [NoListing EXCEPT !.pc = "root", !.steady = {o.name : o \in Files}]
    /\ UNCHANGED <<Idle, reader, faults>>

Shown(d) == {<<o.name, o.temp>> : o \in {x \in obj : x.dir = d}}

\* The whole tree in one request, or its root; a folder is listed after it.  WebDAV
\* lists folder by folder where the server refuses the one request.
ListRoot ==
    /\ listing.pc = "root"
    /\ \/ /\ kind \in FlatListing
          /\ listing' = [listing EXCEPT !.pc = "done", !.found = UNION {Shown(d) : d \in folder}]
       \/ /\ kind \notin FlatListing \ {"webdav"}
          /\ listing' = [listing EXCEPT !.pc = "folders", !.todo = folder]
    /\ UNCHANGED <<Idle, reader, faults>>

\* Mutant: of the folders of one name, only one is listed.
ListFolderOnce(d) ==
    /\ listing.pc = "folders" /\ d \in listing.todo
    /\ listing' = [listing EXCEPT !.todo = {}, !.found = listing.found \cup Shown(d)]
    /\ UNCHANGED <<Idle, reader, faults>>

ListFolder(d) ==
    /\ listing.pc = "folders" /\ d \in listing.todo
    /\ listing' = [listing EXCEPT !.todo = listing.todo \ {d},
                                  !.found = listing.found \cup Shown(d)]
    /\ UNCHANGED <<Idle, reader, faults>>

\* A folder cannot be listed: it is left out, or the listing raises.
ListFails(e) ==
    /\ \/ listing.pc = "root"
       \/ listing.pc = "folders" /\ listing.todo # {}
    /\ Fault
    /\ listing' = IF e \in Skips(kind)
                  THEN [listing EXCEPT !.skipped = TRUE,
                                       !.pc = IF listing.pc = "root" THEN "done" ELSE "folders",
                                       !.todo = listing.todo \ {CHOOSE d \in listing.todo \cup {0} :
                                                                  listing.todo # {} => d # 0}]
                  ELSE [listing EXCEPT !.pc = "raised"]
    /\ UNCHANGED <<Idle, reader>>

ListEnds ==
    /\ listing.pc = "folders" /\ listing.todo = {}
    /\ listing' = [listing EXCEPT !.pc = "done"]
    /\ UNCHANGED <<Idle, reader, faults>>

EndListing ==
    /\ listing.pc \in {"done", "raised"}
    /\ listing' = NoListing
    /\ UNCHANGED <<Idle, reader, faults>>

-----------------------------------------------------------------------------
Put(w) ==
    \/ PutDropbox(w) \/ PutS3(w) \/ PutWebDAV(w) \/ PutOneDrive(w) \/ PutGoogleDrive(w)
    \/ OpenSftp(w) \/ OpenSmb(w) \/ OpenFtp(w)

Copy(w) ==
    \/ CopyDropbox(w) \/ CopyS3(w) \/ CopyWebDAV(w) \/ PostCopy(w)
    \/ CopySftp(w) \/ CopySmb(w) \/ CopyFtp(w)

FindFolder(w) ==
    \/ ResolveDropbox(w) \/ ResolveOneDrive(w) \/ ResolveWebDAV(w) \/ ResolveS3(w)
    \/ ResolveSftp(w) \/ ResolveFtp(w) \/ ResolveSmb(w)
    \/ LookInCache(w) \/ QueryFolder(w) \/ CreateFolder(w)

Step(w) ==
    \/ FindFolder(w)
    \/ Put(w) \/ Copy(w) \/ WriteBlock(w) \/ Rename(w) \/ Close(w) \/ Cleanup(w) \/ WaitForCopy(w)
    \/ Retry(w) \/ Return(w)

Next ==
    \/ \E w \in Uploader : Step(w)
    \/ \E w \in Uploader, f \in File : BeginUpload(w, f)
    \/ \E w \in Uploader, o \in Files : BeginCopy(w, o)
    \/ \E w \in Uploader, e \in Condition : Fail(w, e)
    \/ \E q \in pending : CopyLands(q)
    \/ \E p \in Process : Kill(p)
    \/ \E o \in Files : Delete(o) \/ BeginDownload(o)
    \/ Download \/ EndDownload
    \/ BeginListing \/ ListRoot \/ ListEnds \/ EndListing
    \/ \E d \in listing.todo : ListFolder(d)
    \/ \E e \in Condition : ListFails(e)

Spec == Init /\ [][Next]_vars

-----------------------------------------------------------------------------
(* Properties.                                                               *)

TypeOK ==
    /\ kind \in Kind
    /\ host \in [Uploader -> Process]
    /\ obj \subseteq Object
    /\ data \in [Node -> Content]
    /\ used \in 0..MaxNodes
    /\ folder \subseteq FolderId
    /\ cache \in [Process -> {0} \cup FolderId]
    /\ call \in [Uploader -> Call]
    /\ pending \subseteq [name : File, want : Content]
    /\ reader \in [pc : {"idle", "first", "second", "done"}, node : 0..MaxNodes,
                   name : File \cup {NoFile}, got : Content]
    /\ listing.pc \in {"idle", "root", "folders", "done", "raised"}
    /\ listing.todo \subseteq FolderId /\ listing.steady \subseteq File
    /\ listing.found \subseteq File \X BOOLEAN
    /\ listing.skipped \in BOOLEAN
    /\ calls \in 0..MaxCalls /\ faults \in 0..MaxFaults
    /\ overlap \subseteq Path \cup {FolderPath} /\ broken \subseteq Path
    /\ left \subseteq Path /\ blind \in BOOLEAN

\* All blocks of one version.
Whole(c) == c[1] = c[2] /\ c[1] # 0

\* A write in place is under way at the path of o, or the last one was cut off.
Torn(o) ==
    \/ PathOf(o) \in broken
    \/ \E w \in Uploader : /\ InPlace(call[w]) /\ PathOf(call[w]) = PathOf(o)
                           /\ call[w].pc \in {"first", "second", "publish"}

\* What a client can see at the path of a file is a whole version of it, at any
\* moment, through failures and kills: on SFTP and SMB the temporary object keeps
\* half an upload out of sight as long as two machines do not upload the same
\* path at once (they share the temporary); FTP, and cp on an SFTP server, write
\* in place, and what they leave when they are cut off is not whole.
WholeOrKnown ==
    \A o \in Files : Whole(data[o.node]) \/ Torn(o) \/ PathOf(o) \in overlap

\* An upload or copy that reports success has put its content at the path, unless
\* another call was busy with the path, or OneDrive's copy was not waited for: what
\* it has accepted may land as late as after the next copy to that path.
ReportedIsStored ==
    \A w \in Uploader :
        call[w].pc = "ok" /\ ~call[w].late /\ PathOf(call[w]) \notin overlap
            => \E o \in obj : /\ PathOf(o) = PathOf(call[w]) /\ ~o.temp
                              /\ data[o.node] = call[w].want

\* A path has one object: always where paths are addresses; on Google Drive,
\* which allows several files of one name, unless two uploads of the path
\* overlapped, the reply to a create was lost, after which _upload_with_retry
\* creates the file once more, or an upload began without the id of what is there.
\* So has the folder, unless two threads looked for it at the same time.
OneObjectPerPath ==
    /\ \A o, q \in Files :
        o # q /\ PathOf(o) = PathOf(q)
            => kind = "googledrive" /\ (blind \/ PathOf(o) \in overlap)
    /\ Cardinality(folder) > 1 => FolderPath \in overlap

\* A .tmp object, which a listing shows as a file of its own, goes with the upload
\* that made it, also when that fails or meets another upload of the path; only a
\* kill, or a removal that fails too, leaves one behind.
TempIsTransient ==
    \A o \in obj : o.temp =>
        \/ PathOf(o) \in left
        \/ \E w \in Uploader : Busy(w) /\ PathOf(call[w]) = PathOf(o)

\* A listing that returns shows every file that was there throughout: Google Drive
\* and S3 raise when a folder cannot be read, the others may leave it out, and
\* the engine then takes its files for deleted.
ListingComplete ==
    listing.pc = "done" =>
        \/ \A f \in listing.steady : <<f, FALSE>> \in listing.found
        \/ listing.skipped /\ kind \notin {"googledrive", "s3"}

\* A finished download is one whole version, however many uploads ran meanwhile,
\* unless the backend writes in place or two machines shared the temporary.
DownloadsWhole ==
    reader.pc = "done" => \/ Whole(reader.got)
                          \/ kind = "ftp"
                          \/ <<FALSE, reader.name>> \in overlap

GivenUp(w) == call[w].pc = "failed" /\ call'[w].pc = "idle" /\ faults' = faults

\* What was refused for its credentials, for lack of space or of permission is not
\* tried again in the same call, and a call that gives up on a network error has
\* used all its attempts.
RetriesFitTheCause ==
    [][\A w \in Uploader :
        LET c == call[w] IN
        /\ c.pc = "failed" /\ call'[w].tries > c.tries
               => c.cond \notin {"credentials", "full", "forbidden"}
        /\ GivenUp(w) /\ c.op = "upload" /\ kind \in Retrying
             /\ c.cond \in {"network", "throttled", "server"}
               => c.tries + 1 = MaxAttempts]_vars

=============================================================================
