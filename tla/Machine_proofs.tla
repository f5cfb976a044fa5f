---------------------------- MODULE Machine_proofs ----------------------------
(* Theorems about two parts of claude-mirror that live on one machine: the     *)
(* manifest file its processes share, for any number of processes and paths,   *)
(* and doctor, for any number of mirrors of any kinds and any number of calls  *)
(* that fail.  The two do not touch: they share no variable.                   *)
(*                                                                             *)
(* The invariant of doctor says where a fault is still going to be found:      *)
(* FoundAt names the probe that reports it at the latest, UpTo the stages      *)
(* before, and no probe leaves them without reporting something.               *)
EXTENDS ManifestStore, Doctor, TLAPS

-----------------------------------------------------------------------------
(* The manifest file.                                                        *)

\* The lock is held by the one process that is between lock and replace.
Exclusive ==
    \A p \in Process : phase[p] \in {"locked", "merged"} => lock = p

\* What a process is about to write is still the merge of its copy with the
\* file, as long as nobody went past the lock.
Current ==
    ~bypassed => \A p \in Process : phase[p] = "merged" => merged[p] = Merge(p)

\* A process's copy differs from what it read only where it did the work.
Attributed ==
    \A p \in Process, f \in File :
        phase[p] # "out" /\ mem[p][f] # base[p][f] => f \in own[p]

ManifestInv == TypeOK /\ Exclusive /\ Current /\ Attributed

LEMMA NoEntriesType == NoEntries \in Entries
  BY DEF NoEntries, Entries

LEMMA OnDiskType == TypeOK => OnDisk \in Entries
  BY NoEntriesType DEF TypeOK, OnDisk

\* The merge of well-typed entries is well typed.
LEMMA MergeType ==
    ASSUME TypeOK, NEW p \in Process
    PROVE  Merge(p) \in Entries
  <1>1. mem[p] \in Entries /\ OnDisk \in Entries
    BY OnDiskType DEF TypeOK
  <1> QED
    BY <1>1 DEF Merge, Entries

\* Where nothing that it reads has changed, the merge has not changed.
LEMMA MergeKept ==
    ASSUME NEW p \in Process, mem'[p] = mem[p], removed'[p] = removed[p], OnDisk' = OnDisk
    PROVE  Merge(p)' = Merge(p)
  BY DEF Merge

LEMMA ManifestBegins == Init => ManifestInv
  <1> SUFFICES ASSUME Init PROVE ManifestInv
    OBVIOUS
  <1>1. TypeOK
    <2>1. 0 \in 0..MaxSyncs
      BY BoundAssumption
    <2>2. syncs \in [File -> 0..MaxSyncs]
      BY <2>1 DEF Init
    <2>3. mem \in [Process -> Entries] /\ merged \in [Process -> Entries]
          /\ base \in [Process -> Entries] /\ disk \in Entries \cup {Corrupt}
      BY NoEntriesType DEF Init
    <2> QED
      BY <2>2, <2>3 DEF Init, TypeOK
  <1> QED
    BY <1>1 DEF Init, ManifestInv, Exclusive, Current, Attributed

-----------------------------------------------------------------------------
(* One lemma per action.                                                    *)

LEMMA LoadKept ==
    ASSUME ManifestInv, NEW p \in Process, Load(p) PROVE ManifestInv'
  <1>1. OnDisk \in Entries
    BY OnDiskType DEF ManifestInv
  <1>2. OnDisk' = OnDisk
    BY <1>1, NullAssumption DEF Load, OnDisk
  <1>3. TypeOK'
    BY <1>1 DEF Load, ManifestInv, TypeOK
  <1>4. Exclusive'
    BY DEF Load, ManifestInv, Exclusive, TypeOK
  <1>5. \A q \in Process : q # p => /\ mem'[q] = mem[q] /\ removed'[q] = removed[q]
                                    /\ base'[q] = base[q] /\ own'[q] = own[q]
                                    /\ phase'[q] = phase[q]
    BY DEF Load, ManifestInv, TypeOK
  <1>6. phase'[p] = "running" /\ mem'[p] = base'[p]
    BY DEF Load, ManifestInv, TypeOK
  <1>7. Current'
    <2> SUFFICES ASSUME ~bypassed', NEW q \in Process, phase'[q] = "merged"
                 PROVE  merged'[q] = Merge(q)'
      BY DEF Current
    <2>1. q # p /\ phase[q] = "merged" /\ ~bypassed /\ merged' = merged
      BY <1>5, <1>6 DEF Load
    <2>2. merged[q] = Merge(q)
      BY <2>1 DEF ManifestInv, Current
    <2> QED
      BY <1>2, <1>5, <2>1, <2>2, MergeKept
  <1>8. Attributed'
    BY <1>5, <1>6 DEF ManifestInv, Attributed
  <1> QED
    BY <1>3, <1>4, <1>7, <1>8 DEF ManifestInv

\* Work on a path happens outside the lock and is attributed to its process.
LEMMA WorkKept ==
    ASSUME ManifestInv, NEW p \in Process, NEW f \in File, Update(p, f) \/ Remove(p, f)
    PROVE  ManifestInv'
  <1>1. \A g \in File : syncs[g] \in 0..MaxSyncs
    BY DEF ManifestInv, TypeOK
  <1>2. TypeOK'
    <2>1. CASE Update(p, f)
      <3>1. syncs[f] + 1 \in Entry /\ syncs[f] + 1 \in 0..MaxSyncs
        BY <1>1, <2>1, BoundAssumption DEF Update, Entry
      <3>2. mem' \in [Process -> Entries]
        BY <2>1, <3>1 DEF Update, ManifestInv, TypeOK, Entries
      <3> QED
        BY <2>1, <3>1, <3>2 DEF Update, ManifestInv, TypeOK
    <2>2. CASE Remove(p, f)
      <3>1. mem' \in [Process -> Entries]
        BY <2>2 DEF Remove, ManifestInv, TypeOK, Entries
      <3> QED
        BY <2>2, <3>1 DEF Remove, ManifestInv, TypeOK
    <2> QED
      BY <2>1, <2>2
  <1>3. /\ phase[p] = "running" /\ phase' = phase /\ lock' = lock /\ disk' = disk
        /\ merged' = merged /\ base' = base /\ bypassed' = bypassed
        /\ own' = [own EXCEPT ![p] = own[p] \cup {f}]
    BY DEF Update, Remove
  <1>4. /\ \A q \in Process \ {p} : mem'[q] = mem[q] /\ removed'[q] = removed[q]
        /\ \A g \in File \ {f} : mem'[p][g] = mem[p][g]
    BY DEF Update, Remove, ManifestInv, TypeOK, Entries
  <1>5. Exclusive'
    BY <1>3 DEF ManifestInv, Exclusive
  <1>6. Current'
    <2> SUFFICES ASSUME ~bypassed', NEW q \in Process, phase'[q] = "merged"
                 PROVE  merged'[q] = Merge(q)'
      BY DEF Current
    <2>1. q # p /\ merged[q] = Merge(q)
      BY <1>3 DEF ManifestInv, Current
    <2>2. OnDisk' = OnDisk
      BY <1>3 DEF OnDisk
    <2> QED
      BY <1>3, <1>4, <2>1, <2>2, MergeKept
  <1>7. Attributed'
    BY <1>3, <1>4 DEF ManifestInv, Attributed, TypeOK
  <1> QED
    BY <1>2, <1>5, <1>6, <1>7 DEF ManifestInv

LEMMA LockKept ==
    ASSUME ManifestInv, NEW p \in Process, Lock(p) PROVE ManifestInv'
  <1>1. TypeOK'
    BY DEF Lock, ManifestInv, TypeOK
  <1>2. Exclusive'
    BY NullAssumption DEF Lock, ManifestInv, TypeOK, Exclusive
  <1>3. \A q \in Process : phase'[q] = "merged" => phase[q] = "merged"
    BY DEF Lock, ManifestInv, TypeOK
  <1>4. Current'
    BY <1>3 DEF Lock, ManifestInv, Current, Merge, OnDisk
  <1>5. Attributed'
    BY DEF Lock, ManifestInv, TypeOK, Attributed
  <1> QED
    BY <1>1, <1>2, <1>4, <1>5 DEF ManifestInv

LEMMA ReadAndMergeKept ==
    ASSUME ManifestInv, NEW p \in Process, ReadAndMerge(p) PROVE ManifestInv'
  <1>1. TypeOK'
    BY MergeType DEF ReadAndMerge, ManifestInv, TypeOK
  <1>2. Exclusive'
    BY DEF ReadAndMerge, ManifestInv, TypeOK, Exclusive
  <1>3. \A q \in Process : Merge(q)' = Merge(q)
    BY MergeKept DEF ReadAndMerge, OnDisk
  <1>4. \A q \in Process : IF q = p THEN merged'[q] = Merge(q)
                           ELSE merged'[q] = merged[q] /\ phase'[q] = phase[q]
    BY DEF ReadAndMerge, ManifestInv, TypeOK
  <1>5. Current'
    BY <1>3, <1>4 DEF ReadAndMerge, ManifestInv, Current
  <1>6. Attributed'
    BY DEF ReadAndMerge, ManifestInv, TypeOK, Attributed
  <1> QED
    BY <1>1, <1>2, <1>5, <1>6 DEF ManifestInv

\* Nobody else is about to write when a process replaces the file.
LEMMA ReplaceKept ==
    ASSUME ManifestInv, NEW p \in Process, Replace(p) PROVE ManifestInv'
  <1>1. TypeOK'
    BY DEF Replace, ManifestInv, TypeOK
  <1>2. \A q \in Process \ {p} : phase[q] \notin {"locked", "merged"}
    BY DEF Replace, ManifestInv, Exclusive
  <1>3. /\ phase'[p] = "running" /\ mem'[p] = base'[p]
        /\ \A q \in Process \ {p} : /\ phase'[q] = phase[q] /\ mem'[q] = mem[q]
                                    /\ base'[q] = base[q] /\ own'[q] = own[q]
    BY DEF Replace, ManifestInv, TypeOK
  <1>4. Exclusive'
    BY <1>2, <1>3 DEF Exclusive
  <1>5. Current'
    BY <1>2, <1>3 DEF Current
  <1>6. Attributed'
    BY <1>3 DEF ManifestInv, Attributed
  <1> QED
    BY <1>1, <1>4, <1>5, <1>6 DEF ManifestInv

LEMMA SaveUnlockedKept ==
    ASSUME ManifestInv, NEW p \in Process, SaveUnlocked(p) PROVE ManifestInv'
  BY DEF SaveUnlocked, ManifestInv, TypeOK, Exclusive, Current, Attributed

LEMMA LeaveKept ==
    ASSUME ManifestInv, NEW p \in Process, Leave(p) PROVE ManifestInv'
  <1>1. TypeOK'
    BY DEF Leave, ManifestInv, TypeOK
  <1>2. \A q \in Process : IF q = p THEN phase'[q] = "out" ELSE phase'[q] = phase[q]
    BY DEF Leave, ManifestInv, TypeOK
  <1>3. Exclusive'
    BY <1>2 DEF Leave, ManifestInv, Exclusive
  <1>4. Current'
    BY <1>2 DEF Leave, ManifestInv, Current, Merge, OnDisk
  <1>5. Attributed'
    BY <1>2 DEF Leave, ManifestInv, Attributed
  <1> QED
    BY <1>1, <1>3, <1>4, <1>5 DEF ManifestInv

LEMMA ManifestNextKept == ManifestInv /\ [Next]_vars => ManifestInv'
  <1> SUFFICES ASSUME ManifestInv, [Next]_vars PROVE ManifestInv'
    OBVIOUS
  <1>1. CASE Next
    <2> PICK p \in Process : Step(p)
      BY <1>1 DEF Next
    <2> QED
      BY LoadKept, WorkKept, LockKept, ReadAndMergeKept, ReplaceKept, SaveUnlockedKept,
         LeaveKept DEF Step
  <1>2. CASE UNCHANGED vars
    BY <1>2 DEF vars, ManifestInv, TypeOK, Exclusive, Current, Attributed, Merge, OnDisk
  <1> QED
    BY <1>1, <1>2

-----------------------------------------------------------------------------
\* The inductive invariant holds: in particular the lock excludes, and no save
\* writes a merge that is out of date.
THEOREM ManifestInvariant == Spec => []ManifestInv
  BY ManifestBegins, ManifestNextKept, PTL DEF Spec

\* Type correctness: whatever the file held, even something that cannot be
\* parsed, every copy and every merge is a well-formed manifest.
THEOREM ManifestTypeCorrect == Spec => []TypeOK
  BY ManifestInvariant, PTL DEF ManifestInv

\* What a step of p may write at path f is explained by p's own history.
LEMMA ReplaceAttributed ==
    ASSUME ManifestInv, NEW p \in Process, NEW f \in File, Replace(p), ~bypassed,
           disk'[f] # OnDisk[f]
    PROVE  f \in own[p] \cup removed[p] \/ base[p][f] # NoEntry
  <1>1. disk'[f] = Merge(p)[f] /\ phase[p] # "out"
    BY DEF Replace, ManifestInv, Current
  <1>2. mem[p][f] # NoEntry \/ f \in removed[p]
    BY <1>1 DEF Merge
  <1> QED
    BY <1>1, <1>2 DEF ManifestInv, Attributed

\* AddsLand: what other processes add or leave out survives a save, for any
\* number of processes and paths (Manifest.save, _merge_with_disk).
THEOREM AddsLandHolds == Spec => AddsLand
  <1>1. ManifestInv /\ [Next]_vars =>
          [\A p \in Process, f \in File :
              Replace(p) /\ ~bypassed /\ disk'[f] # OnDisk[f] =>
                  f \in own[p] \cup removed[p] \/ base[p][f] # NoEntry]_vars
    BY ReplaceAttributed
  <1> QED
    BY <1>1, ManifestInvariant, PTL DEF Spec, AddsLand

\* An entry that a step makes disappear was removed by the saving process.
LEMMA RemovalAttributed ==
    ASSUME ManifestInv, [Next]_vars, NEW f \in File,
           ~bypassed', OnDisk[f] # NoEntry, OnDisk'[f] = NoEntry
    PROVE  \E p \in Process : Replace(p) /\ f \in removed[p]
  <1>1. OnDisk \in Entries /\ OnDisk' # OnDisk
    BY OnDiskType DEF ManifestInv
  <1>2. disk' # disk
    BY <1>1 DEF OnDisk
  <1>3. PICK p \in Process : Step(p)
    BY <1>2 DEF Next, vars
  <1>4. ~Load(p)
    BY <1>1, NullAssumption DEF Load, OnDisk
  <1>5. Replace(p)
    BY <1>2, <1>3, <1>4 DEF Step, Update, Remove, Lock, ReadAndMerge, SaveUnlocked, Leave
  <1>6. merged[p] = Merge(p) /\ merged[p] \in Entries
    BY <1>5 DEF Replace, ManifestInv, Current, TypeOK
  <1>7. OnDisk' = Merge(p)
    BY <1>5, <1>6, NullAssumption DEF Replace, OnDisk
  <1>8. f \in removed[p]
    BY <1>7 DEF Merge
  <1> QED
    BY <1>5, <1>8

\* OnlyRemovalRemoves: an entry disappears only by Manifest.remove of the path in
\* the process that saves, for any number of processes and paths.
THEOREM OnlyRemovalRemovesHolds == Spec => OnlyRemovalRemoves
  <1>1. ManifestInv /\ [Next]_vars =>
          [\A f \in File :
              ~bypassed' /\ OnDisk[f] # NoEntry /\ OnDisk'[f] = NoEntry =>
                  \E p \in Process : Replace(p) /\ f \in removed[p]]_vars
    BY RemovalAttributed
  <1> QED
    BY <1>1, ManifestInvariant, PTL DEF Spec, OnlyRemovalRemoves

-----------------------------------------------------------------------------
(* Doctor.                                                                   *)

\* The deep checks of each backend.
DeepOf(k) ==
    CASE k = "googledrive" -> {"drive_scopes", "drive_api", "topic", "subscription", "iam"}
      [] k = "dropbox" -> {"token_shape", "app_key", "account", "scopes", "folder"}
      [] k = "onedrive" -> {"cache", "refresh", "item"}
      [] k = "webdav" -> {"url", "root", "headers", "account_base"}
      [] k = "sftp" -> {"host_key", "key", "key_unconnected", "transport", "auth", "exec", "stat"}
      [] k = "ftp" -> {"reach", "login", "cwd", "stor", "dele"}
      [] k = "s3" -> {"shape", "bucket", "list", "put", "delete"}
      [] k = "smb" -> {"session", "share", "write", "remove"}

Early == {"credentials", "token", "connect", "files"}
Middle == Early \cup {"deep", "project", "manifest"} \cup Deep

\* The probe that reports fault s of a backend of kind k, if no other does before.
FoundAt(k, s) ==
    IF k \in OAuth /\ s = "no_credentials" THEN "credentials"
    ELSE IF \/ k = "onedrive"
            \/ k \in OAuth /\ s \in {"no_token", "token_corrupt", "no_refresh"}
            \/ k \notin OAuth /\ s = "incomplete" THEN "token"
    ELSE IF k # "webdav" /\ (s = "unreachable" \/ s \in Raises[k]) THEN "connect"
    ELSE CASE k = "sftp" /\ s \in {"key_missing", "key_unreadable"} -> "files"
      [] k = "googledrive" /\ s \in {"pubsub_api_off", "topic_missing", "topic_denied"} -> "topic"
      [] k = "googledrive" /\ s = "subscription_missing" -> "subscription"
      [] k = "googledrive" /\ s \in {"iam_denied", "no_grant"} -> "iam"
      [] k = "dropbox" /\ s \in {"folder_unset", "folder_missing", "folder_denied"} -> "folder"
      [] k = "webdav" /\ s \in {"malformed", "cleartext"} -> "url"
      [] k = "webdav" /\ s \in {"unreachable", "revoked", "folder_missing", "no_propfind"} -> "root"
      [] k = "webdav" /\ s = "account_missing" -> "account_base"
      [] k = "sftp" /\ s \in {"key_open", "key_garbage"} -> "key"
      [] k = "ftp" /\ s \in {"read_only", "quota"} -> "stor"
      [] k = "s3" /\ s = "read_only" -> "put"
      [] k = "smb" /\ s \in {"share_missing", "share_denied"} -> "share"
      [] k = "smb" /\ s \in {"read_only", "disk_full"} -> "write"
      [] s = "no_project" -> "project"
      [] s = "manifest_corrupt" -> "manifest"
      [] OTHER -> "nowhere"

\* The stages of a turn up to probe p, which reports something.
UpTo(p) ==
    CASE p = "credentials" -> {"credentials"}
      [] p = "token" -> {"credentials", "token"}
      [] p = "connect" -> {"credentials", "token", "connect"}
      [] p = "files" -> Early
      [] p = "topic" -> Early \cup {"deep", "drive_scopes", "drive_api", "topic"}
      [] p = "subscription" ->
             Early \cup {"deep", "drive_scopes", "drive_api", "topic", "subscription"}
      [] p = "iam" -> Early \cup {"deep"} \cup DeepOf("googledrive")
      [] p = "folder" -> Early \cup {"deep"} \cup DeepOf("dropbox")
      [] p = "url" -> Early \cup {"deep", "url"}
      [] p = "root" -> Early \cup {"deep", "url", "root"}
      [] p = "account_base" -> Early \cup {"deep"} \cup DeepOf("webdav")
      [] p = "key" -> Early \cup {"deep", "host_key", "key", "key_unconnected"}
      [] p = "stor" -> Early \cup {"deep", "reach", "login", "cwd", "stor"}
      [] p = "put" -> Early \cup {"deep", "shape", "bucket", "list", "put"}
      [] p = "share" -> Early \cup {"deep", "session", "share"}
      [] p = "write" -> Early \cup {"deep", "session", "share", "write"}
      [] p = "project" -> Middle \ {"manifest"}
      [] p = "manifest" -> Middle

\* Probes that come after a call of the remote that succeeded.
Contacted == {"cwd", "stor", "dele", "list", "put", "delete", "share", "write", "remove"}

\* Probes that delete the sentinel.
Deleting == {"dele", "delete", "remove"}

\* A configuration to be checked that something is wrong with.
Bad(c) == Wanted(c) /\ fault[c] \notin Harmless(kind[c])

\* DoctorTypeOK; a deep check is one of the backend whose turn it is.
Typed ==
    /\ DoctorTypeOK
    /\ at \in Deep => at \in DeepOf(kind[turn])
    /\ at = "files" => kind[turn] = "sftp"

\* The order of the stages; the loop is left after the last configuration.
Passes ==
    /\ at = "load" => turn = 0
    /\ at \notin {"load", "exit"} => Loaded
    /\ at \in Middle \cup {"raised"} => Wanted(turn)
    /\ at = "exit" /\ Loaded => turn = Mirrors
    /\ exit # "" => at \in {"exit", "raised"}
    /\ exit \in {"passed", "issues"} => at = "exit"

\* A configuration whose turn is over has been reported if anything is wrong with it;
\* during its turn it has been, or the probe that reports its fault is still to come.
Reporting ==
    /\ at # "load" => \A c \in Config : fault[c] = "no_config" /\ (Loaded \/ c = 0) => c \in failed
    /\ Loaded /\ at # "load" => \A c \in Config :
          Bad(c) /\ (c < turn \/ (c = turn /\ at \in {"done", "exit"})) => c \in failed
    /\ at \in Middle /\ Bad(turn) => turn \in failed \/ at \in UpTo(FoundAt(kind[turn], fault[turn]))

\* Once a login has been refused nothing of the deep check, or before it, comes next.
Refused == rejected => at \notin Early \cup {"deep"} \cup Deep

\* As long as no call failed for nothing, nobody harmless has been reported, and the
\* host key of a harmless server was read.
Quiet == blips = 0 =>
    /\ at \in {"key_unconnected", "transport"} => fault[turn] \notin Harmless("sftp")
    /\ \A c \in failed : \/ fault[c] \notin Harmless(kind[c])
                         \/ kind[c] = "onedrive"
                         \/ fault[c] = "agent_only"

\* As long as no call failed for nothing, a probe that writes is on a remote that
\* answers, and a sentinel that can be deleted is about to be.
Cleaning == blips = 0 =>
    /\ at \in Contacted => fault[turn] \notin {"unreachable", "revoked"}
    /\ \A c \in sentinel : \/ fault[c] \in {"no_delete", "disk_full"}
                           \/ c = turn /\ at \in Deleting

\* The probes by their names.
LEMMA ProbeIs ==
    ASSUME NEW s
    PROVE  /\ Probe("drive_scopes", s) = GoogleDriveScopes(s)
           /\ Probe("drive_api", s) = GoogleDriveApi(s)
           /\ Probe("topic", s) = GoogleDriveTopic(s)
           /\ Probe("subscription", s) = GoogleDriveSubscription(s)
           /\ Probe("iam", s) = GoogleDriveIam(s)
           /\ Probe("token_shape", s) = DropboxToken(s)
           /\ Probe("app_key", s) = DropboxAppKey(s)
           /\ Probe("account", s) = DropboxAccount(s)
           /\ Probe("scopes", s) = DropboxScopes(s)
           /\ Probe("folder", s) = DropboxFolder(s)
           /\ Probe("cache", s) = OneDriveCache(s)
           /\ Probe("refresh", s) = OneDriveRefresh(s)
           /\ Probe("item", s) = OneDriveItem(s)
           /\ Probe("url", s) = WebDAVUrl(s)
           /\ Probe("root", s) = WebDAVRoot(s)
           /\ Probe("headers", s) = WebDAVHeaders(s)
           /\ Probe("account_base", s) = WebDAVAccount(s)
           /\ Probe("host_key", s) = SftpHostKey(s)
           /\ Probe("key", s) = SftpKeyFile(s, "auth")
           /\ Probe("key_unconnected", s) = SftpKeyFile(s, "transport")
           /\ Probe("transport", s) = SftpTransport(s)
           /\ Probe("auth", s) = SftpAuth(s)
           /\ Probe("exec", s) = SftpExec(s)
           /\ Probe("stat", s) = SftpStat(s)
           /\ Probe("reach", s) = FtpReach(s)
           /\ Probe("login", s) = FtpLogin(s)
           /\ Probe("cwd", s) = FtpFolder(s)
           /\ Probe("stor", s) = FtpWrite(s)
           /\ Probe("dele", s) = FtpDelete(s)
           /\ Probe("shape", s) = S3Shape(s)
           /\ Probe("bucket", s) = S3Bucket(s)
           /\ Probe("list", s) = S3List(s)
           /\ Probe("put", s) = S3Put(s)
           /\ Probe("delete", s) = S3Delete(s)
           /\ Probe("session", s) = SmbSession(s)
           /\ Probe("share", s) = SmbShare(s)
           /\ Probe("write", s) = SmbWrite(s)
           /\ Probe("remove", s) = SmbRemove(s)
  BY DEF Probe

-----------------------------------------------------------------------------
(* What the probes find.                                                     *)

\* What a deep probe of a backend of kind k does next.
Shape(k, r) ==
    /\ r.say \in {"ok", "fail", "auth", "raise"}
    /\ r.next \in DeepOf(k) \cup {"project", "raised"}
    /\ r.say = "auth" => r.next = "project"
    /\ r.say = "raise" <=> r.next = "raised"
    /\ r.sentinel \in {"same", "put", "gone"}
    /\ r.sentinel # "same" => k \in {"ftp", "s3", "smb"}

\* Shape holds of every deep probe, backend by backend.
LEMMA GoogleDriveProbeShape ==
    ASSUME NEW s, NEW a \in DeepOf("googledrive"), NEW r \in Probe(a, s) PROVE Shape("googledrive", r)
  BY ProbeIs DEF DeepOf, Shape, Result, Ok, Fail, Auth, Raise,
     GoogleDriveScopes, GoogleDriveFactory, GoogleDriveApi, GoogleDriveTopic,
     GoogleDriveSubscription, GoogleDriveIam

LEMMA DropboxProbeShape ==
    ASSUME NEW s, NEW a \in DeepOf("dropbox"), NEW r \in Probe(a, s) PROVE Shape("dropbox", r)
  BY ProbeIs DEF DeepOf, Shape, Result, Ok, Fail, Auth, Raise,
     DropboxToken, DropboxAppKey, DropboxAccount, DropboxScopes, DropboxFolder

LEMMA OneDriveProbeShape ==
    ASSUME NEW s, NEW a \in DeepOf("onedrive"), NEW r \in Probe(a, s) PROVE Shape("onedrive", r)
  BY ProbeIs DEF DeepOf, Shape, Result, Ok, Fail, Auth, Raise,
     OneDriveCache, OneDriveFactory, OneDriveRefresh, OneDriveItem

LEMMA WebDAVProbeShape ==
    ASSUME NEW s, NEW a \in DeepOf("webdav"), NEW r \in Probe(a, s) PROVE Shape("webdav", r)
  BY ProbeIs DEF DeepOf, Shape, Result, Ok, Fail, Auth, Raise,
     WebDAVUrl, WebDAVRoot, WebDAVHeaders, WebDAVAccount

LEMMA SftpProbeShape ==
    ASSUME NEW s, NEW a \in DeepOf("sftp"), NEW r \in Probe(a, s) PROVE Shape("sftp", r)
  BY ProbeIs DEF DeepOf, Shape, Result, Ok, Fail, Auth, Raise,
     SftpFactory, SftpHostKey, SftpKeyFile, SftpTransport, SftpAuth, SftpExec, SftpStat

LEMMA FtpProbeShape ==
    ASSUME NEW s, NEW a \in DeepOf("ftp"), NEW r \in Probe(a, s) PROVE Shape("ftp", r)
  BY ProbeIs DEF DeepOf, Shape, Result, Ok, Fail, Auth, Raise,
     FtpReach, FtpFactory, FtpLogin, FtpFolder, FtpWrite, FtpDelete

LEMMA S3ProbeShape ==
    ASSUME NEW s, NEW a \in DeepOf("s3"), NEW r \in Probe(a, s) PROVE Shape("s3", r)
  <1> USE ProbeIs DEF DeepOf, Shape, Result, Ok, Fail, Auth
  <1>1. CASE a \in {"shape", "bucket", "list"} BY <1>1 DEF S3Shape, S3Bucket, S3List
  <1>2. CASE a \in {"put", "delete"} BY <1>2 DEF S3Put, S3Delete
  <1> QED BY <1>1, <1>2

LEMMA SmbProbeShape ==
    ASSUME NEW s, NEW a \in DeepOf("smb"), NEW r \in Probe(a, s) PROVE Shape("smb", r)
  BY ProbeIs DEF DeepOf, Shape, Result, Ok, Fail, Auth, Raise,
     SmbSession, SmbFactory, SmbShare, SmbWrite, SmbRemove

\* A deep probe on the way to the one that reports s reports it itself, or goes on
\* that way, backend by backend.
LEMMA GoogleDriveReports ==
    ASSUME NEW s \in Fault("googledrive"), s \notin Harmless("googledrive") \cup {"no_config"},
           NEW a \in DeepOf("googledrive"), a \in UpTo(FoundAt("googledrive", s)), NEW r \in Probe(a, s)
    PROVE  r.say \in {"fail", "auth", "raise"} \/ r.next \in UpTo(FoundAt("googledrive", s))
  BY ProbeIs DEF DeepOf, UpTo, FoundAt, Fault, GeneralFault, InlineFault, OAuthFault, KindFault,
     Harmless, Raises, OAuth, Early, Middle, Deep, DeepLocal, DeepCall, Result, Ok, Fail, Auth, Raise,
     GoogleDriveScopes, GoogleDriveFactory, GoogleDriveApi, GoogleDriveTopic,
     GoogleDriveSubscription, GoogleDriveIam

LEMMA DropboxReports ==
    ASSUME NEW s \in Fault("dropbox"), s \notin Harmless("dropbox") \cup {"no_config"},
           NEW a \in DeepOf("dropbox"), a \in UpTo(FoundAt("dropbox", s)), NEW r \in Probe(a, s)
    PROVE  r.say \in {"fail", "auth", "raise"} \/ r.next \in UpTo(FoundAt("dropbox", s))
  BY ProbeIs DEF DeepOf, UpTo, FoundAt, Fault, GeneralFault, InlineFault, OAuthFault, KindFault,
     Harmless, Raises, OAuth, Early, Middle, Deep, DeepLocal, DeepCall, Result, Ok, Fail, Auth, Raise,
     DropboxToken, DropboxAppKey, DropboxAccount, DropboxScopes, DropboxFolder

LEMMA OneDriveReports ==
    ASSUME NEW s \in Fault("onedrive"), s \notin Harmless("onedrive") \cup {"no_config"},
           NEW a \in DeepOf("onedrive"), a \in UpTo(FoundAt("onedrive", s)), NEW r \in Probe(a, s)
    PROVE  r.say \in {"fail", "auth", "raise"} \/ r.next \in UpTo(FoundAt("onedrive", s))
  BY ProbeIs DEF DeepOf, UpTo, FoundAt, Fault, GeneralFault, InlineFault, OAuthFault, KindFault,
     Harmless, Raises, OAuth, Early, Middle, Deep, DeepLocal, DeepCall, Result, Ok, Fail, Auth, Raise,
     OneDriveCache, OneDriveFactory, OneDriveRefresh, OneDriveItem

LEMMA WebDAVReports ==
    ASSUME NEW s \in Fault("webdav"), s \notin Harmless("webdav") \cup {"no_config"},
           NEW a \in DeepOf("webdav"), a \in UpTo(FoundAt("webdav", s)), NEW r \in Probe(a, s)
    PROVE  r.say \in {"fail", "auth", "raise"} \/ r.next \in UpTo(FoundAt("webdav", s))
  <1>1. CASE s \in {"no_project", "manifest_corrupt", "account_missing"}
    BY <1>1, ProbeIs DEF DeepOf, UpTo, FoundAt, OAuth, Raises, Early, Middle, Deep, DeepLocal, DeepCall,
       Result, Ok, Fail, Auth, WebDAVUrl, WebDAVRoot, WebDAVHeaders, WebDAVAccount
  <1>2. CASE s \in {"unreachable", "revoked", "folder_missing", "no_propfind"}
    <2>1. FoundAt("webdav", s) = "root" BY <1>2 DEF FoundAt, OAuth
    <2>2. UpTo(FoundAt("webdav", s)) = Early \cup {"deep", "url", "root"} BY <2>1 DEF UpTo
    <2>3. a \in {"url", "root"} BY <2>2 DEF DeepOf, Early
    <2>4. CASE a = "url" BY <2>2, <2>4, ProbeIs DEF WebDAVUrl, Result, Ok, Fail
    <2>5. CASE a = "root" BY <2>5, <1>2, ProbeIs DEF WebDAVRoot, Result, Ok, Fail, Auth
    <2> QED BY <2>3, <2>4, <2>5
  <1>3. CASE s \in {"malformed", "cleartext"}
    <2>1. a = "url" BY <1>3 DEF UpTo, FoundAt, OAuth, Early, DeepOf
    <2> QED BY <1>3, <2>1, ProbeIs DEF WebDAVUrl, Result, Ok, Fail
  <1>4. CASE s = "incomplete" BY <1>4 DEF DeepOf, UpTo, FoundAt, OAuth
  <1> QED BY <1>1, <1>2, <1>3, <1>4 DEF Fault, GeneralFault, InlineFault, OAuth, KindFault, Harmless

LEMMA SftpReports ==
    ASSUME NEW s \in Fault("sftp"), s \notin Harmless("sftp") \cup {"no_config"},
           NEW a \in DeepOf("sftp"), a \in UpTo(FoundAt("sftp", s)), NEW r \in Probe(a, s)
    PROVE  r.say \in {"fail", "auth", "raise"} \/ r.next \in UpTo(FoundAt("sftp", s))
  BY ProbeIs DEF DeepOf, UpTo, FoundAt, Fault, GeneralFault, InlineFault, OAuthFault, KindFault,
     Harmless, Raises, OAuth, Early, Middle, Deep, DeepLocal, DeepCall, Result, Ok, Fail, Auth, Raise,
     SftpFactory, SftpHostKey, SftpKeyFile, SftpTransport, SftpAuth, SftpExec, SftpStat

LEMMA FtpReports ==
    ASSUME NEW s \in Fault("ftp"), s \notin Harmless("ftp") \cup {"no_config"},
           NEW a \in DeepOf("ftp"), a \in UpTo(FoundAt("ftp", s)), NEW r \in Probe(a, s)
    PROVE  r.say \in {"fail", "auth", "raise"} \/ r.next \in UpTo(FoundAt("ftp", s))
  BY ProbeIs DEF DeepOf, UpTo, FoundAt, Fault, GeneralFault, InlineFault, OAuthFault, KindFault,
     Harmless, Raises, OAuth, Early, Middle, Deep, DeepLocal, DeepCall, Result, Ok, Fail, Auth, Raise,
     FtpReach, FtpFactory, FtpLogin, FtpFolder, FtpWrite, FtpDelete

LEMMA S3Reports ==
    ASSUME NEW s \in Fault("s3"), s \notin Harmless("s3") \cup {"no_config"},
           NEW a \in DeepOf("s3"), a \in UpTo(FoundAt("s3", s)), NEW r \in Probe(a, s)
    PROVE  r.say \in {"fail", "auth", "raise"} \/ r.next \in UpTo(FoundAt("s3", s))
  BY ProbeIs DEF DeepOf, UpTo, FoundAt, Fault, GeneralFault, InlineFault, OAuthFault, KindFault,
     Harmless, Raises, OAuth, Early, Middle, Deep, DeepLocal, DeepCall, Result, Ok, Fail, Auth, Raise,
     S3Shape, S3Bucket, S3List, S3Put, S3Delete

LEMMA SmbReports ==
    ASSUME NEW s \in Fault("smb"), s \notin Harmless("smb") \cup {"no_config"},
           NEW a \in DeepOf("smb"), a \in UpTo(FoundAt("smb", s)), NEW r \in Probe(a, s)
    PROVE  r.say \in {"fail", "auth", "raise"} \/ r.next \in UpTo(FoundAt("smb", s))
  BY ProbeIs DEF DeepOf, UpTo, FoundAt, Fault, GeneralFault, InlineFault, OAuthFault, KindFault,
     Harmless, Raises, OAuth, Early, Middle, Deep, DeepLocal, DeepCall, Result, Ok, Fail, Auth, Raise,
     SmbSession, SmbFactory, SmbShare, SmbWrite, SmbRemove

\* A call that fails although nothing is wrong with it is reported, but for a deletion
\* of the sentinel, a token taken from the cache, a host key that was not sent and the
\* advice on a shell.
LEMMA BlipReports ==
    ASSUME NEW k \in Backends, NEW a \in DeepOf(k) \cap DeepCall,
           NEW s \in {"unreachable"} \cup (IF a \in InSession THEN {} ELSE {"revoked"}),
           NEW r \in Probe(a, s)
    PROVE  \/ r.say \in {"fail", "auth", "raise"}
           \/ a \in {"delete", "remove"} /\ r.next = "project"
           \/ a = "refresh" /\ r.next = "item"
           \/ a = "host_key" /\ r.next = "key_unconnected"
           \/ a = "exec" /\ r.next = "stat"
  <1> USE ProbeIs DEF DeepOf, DeepCall, InSession, Result, Ok, Fail, Auth, Raise
  <1>1. CASE k = "googledrive"
    BY <1>1 DEF GoogleDriveScopes, GoogleDriveFactory, GoogleDriveApi, GoogleDriveTopic,
       GoogleDriveSubscription, GoogleDriveIam
  <1>2. CASE k = "dropbox"
    BY <1>2 DEF DropboxToken, DropboxAppKey, DropboxAccount, DropboxScopes, DropboxFolder
  <1>3. CASE k = "onedrive"
    BY <1>3 DEF OneDriveCache, OneDriveFactory, OneDriveRefresh, OneDriveItem
  <1>4. CASE k = "webdav"
    BY <1>4 DEF WebDAVUrl, WebDAVRoot, WebDAVHeaders, WebDAVAccount
  <1>5. CASE k = "sftp"
    <2>1. a \in {"host_key", "auth", "exec", "stat"} BY <1>5
    <2>2. CASE a = "host_key" BY <2>2 DEF SftpHostKey, SftpFactory
    <2>3. CASE a \in {"auth", "exec", "stat"}
      BY <2>3 DEF SftpAuth, SftpExec, SftpStat
    <2> QED BY <2>1, <2>2, <2>3
  <1>6. CASE k = "ftp"
    BY <1>6 DEF FtpReach, FtpFactory, FtpLogin, FtpFolder, FtpWrite, FtpDelete
  <1>7. CASE k = "s3"
    BY <1>7 DEF S3Shape, S3Bucket, S3List, S3Put, S3Delete
  <1>8. CASE k = "smb"
    BY <1>8 DEF SmbSession, SmbFactory, SmbShare, SmbWrite, SmbRemove
  <1> HIDE DEF DeepOf
  <1> QED BY <1>1, <1>2, <1>3, <1>4, <1>5, <1>6, <1>7, <1>8 DEF Backends

\* What is harmless is reported by no deep probe, backend by backend.  onedrive has
\* none of these: its token probe reports everything.
LEMMA GoogleDriveSilent ==
    ASSUME NEW s \in Harmless("googledrive"), NEW a \in DeepOf("googledrive"), NEW r \in Probe(a, s)
    PROVE  r.say \notin {"fail", "auth"} /\ r.next \notin {"key_unconnected", "transport"}
  <1>1. s \in {"none", "no_delete", "pubsub_unset", "no_pubsub_scope"} BY DEF Harmless
  <1> USE ProbeIs, <1>1 DEF DeepOf, Result, Ok, Fail, Auth
  <1>2. CASE a = "drive_scopes"
    <2>1. /\ GoogleDriveFactory(s).drive /\ GoogleDriveFactory(s).usable
          /\ s # "no_pubsub_scope" => GoogleDriveFactory(s).pubsub
      BY DEF GoogleDriveFactory
    <2>2. r \in GoogleDriveScopes(s) BY <1>2
    <2>3. GoogleDriveScopes(s) \in {Ok("project"), Ok("drive_api")}
      BY <2>1 DEF GoogleDriveScopes
    <2> QED BY <2>2, <2>3
  <1>3. CASE a # "drive_scopes"
    BY <1>3 DEF GoogleDriveApi, GoogleDriveTopic, GoogleDriveSubscription, GoogleDriveIam
  <1> QED BY <1>2, <1>3

LEMMA DropboxSilent ==
    ASSUME NEW s \in Harmless("dropbox"), NEW a \in DeepOf("dropbox"),
           a \notin {"key_unconnected", "transport"}, NEW r \in Probe(a, s)
    PROVE  /\ s # "agent_only" => r.say \notin {"fail", "auth"}
           /\ r.next \notin {"key_unconnected", "transport"}
  BY ProbeIs DEF DeepOf, Harmless, Result, Ok, Fail, Auth, Raise,
     DropboxToken, DropboxAppKey, DropboxAccount, DropboxScopes, DropboxFolder

LEMMA WebDAVSilent ==
    ASSUME NEW s \in Harmless("webdav"), NEW a \in DeepOf("webdav"),
           a \notin {"key_unconnected", "transport"}, NEW r \in Probe(a, s)
    PROVE  /\ s # "agent_only" => r.say \notin {"fail", "auth"}
           /\ r.next \notin {"key_unconnected", "transport"}
  BY ProbeIs DEF DeepOf, Harmless, Result, Ok, Fail, Auth, Raise,
     WebDAVUrl, WebDAVRoot, WebDAVHeaders, WebDAVAccount

LEMMA SftpSilent ==
    ASSUME NEW s \in Harmless("sftp"), NEW a \in DeepOf("sftp"),
           a \notin {"key_unconnected", "transport"}, NEW r \in Probe(a, s)
    PROVE  /\ s # "agent_only" => r.say \notin {"fail", "auth"}
           /\ r.next \notin {"key_unconnected", "transport"}
  BY ProbeIs DEF DeepOf, Harmless, Result, Ok, Fail, Auth, Raise,
     SftpFactory, SftpHostKey, SftpKeyFile, SftpTransport, SftpAuth, SftpExec, SftpStat

LEMMA FtpSilent ==
    ASSUME NEW s \in Harmless("ftp"), NEW a \in DeepOf("ftp"),
           a \notin {"key_unconnected", "transport"}, NEW r \in Probe(a, s)
    PROVE  /\ s # "agent_only" => r.say \notin {"fail", "auth"}
           /\ r.next \notin {"key_unconnected", "transport"}
  BY ProbeIs DEF DeepOf, Harmless, Result, Ok, Fail, Auth, Raise,
     FtpReach, FtpFactory, FtpLogin, FtpFolder, FtpWrite, FtpDelete

LEMMA S3Silent ==
    ASSUME NEW s \in Harmless("s3"), NEW a \in DeepOf("s3"),
           a \notin {"key_unconnected", "transport"}, NEW r \in Probe(a, s)
    PROVE  /\ s # "agent_only" => r.say \notin {"fail", "auth"}
           /\ r.next \notin {"key_unconnected", "transport"}
  BY ProbeIs DEF DeepOf, Harmless, Result, Ok, Fail, Auth, Raise,
     S3Shape, S3Bucket, S3List, S3Put, S3Delete

LEMMA SmbSilent ==
    ASSUME NEW s \in Harmless("smb"), NEW a \in DeepOf("smb"),
           a \notin {"key_unconnected", "transport"}, NEW r \in Probe(a, s)
    PROVE  /\ s # "agent_only" => r.say \notin {"fail", "auth"}
           /\ r.next \notin {"key_unconnected", "transport"}
  BY ProbeIs DEF DeepOf, Harmless, Result, Ok, Fail, Auth, Raise,
     SmbSession, SmbFactory, SmbShare, SmbWrite, SmbRemove

\* What r, found by probe a at a remote with fault s, makes of the sentinel.
Cleans(a, s, r) ==
    /\ r.next \in Contacted => s \notin {"unreachable", "revoked"}
    /\ r.sentinel = "put" => r.next \in Deleting \/ s = "disk_full"
    /\ a \in Deleting => r.sentinel = "gone" \/ s = "no_delete"

\* The sentinel, for the backends that write one.
LEMMA FtpCleans ==
    ASSUME NEW s, NEW a \in DeepOf("ftp"), NEW r \in Probe(a, s),
           a \in Contacted => s \notin {"unreachable", "revoked"}
    PROVE  Cleans(a, s, r)
  BY ProbeIs DEF DeepOf, Contacted, Deleting, Cleans, Result, Ok, Fail, Auth, Raise,
     FtpReach, FtpFactory, FtpLogin, FtpFolder, FtpWrite, FtpDelete

LEMMA S3Cleans ==
    ASSUME NEW s, NEW a \in DeepOf("s3"), NEW r \in Probe(a, s),
           a \in Contacted => s \notin {"unreachable", "revoked"}
    PROVE  Cleans(a, s, r)
  BY ProbeIs DEF DeepOf, Contacted, Deleting, Cleans, Result, Ok, Fail, Auth, Raise,
     S3Shape, S3Bucket, S3List, S3Put, S3Delete

LEMMA SmbCleans ==
    ASSUME NEW s, NEW a \in DeepOf("smb"), NEW r \in Probe(a, s),
           a \in Contacted => s \notin {"unreachable", "revoked"}
    PROVE  Cleans(a, s, r)
  BY ProbeIs DEF DeepOf, Contacted, Deleting, Cleans, Result, Ok, Fail, Auth, Raise,
     SmbSession, SmbFactory, SmbShare, SmbWrite, SmbRemove

-----------------------------------------------------------------------------
(* What the probes outside the deep checks find, and all of them together.   *)

\* The stages of a turn on a backend of kind k that are probes.
ProbesOf(k) ==
    (Early \ (IF k = "sftp" THEN {} ELSE {"files"})) \cup {"project", "manifest"} \cup DeepOf(k)

\* What probe a of a backend of kind k finds when it sees s.
Found(k, a, s) ==
    CASE a = "credentials" -> Credentials(k, s)
      [] a = "token" -> Token(k, s)
      [] a = "connect" -> Connect(k, s)
      [] a = "files" -> SftpFiles(s)
      [] a = "project" -> Project(s)
      [] a = "manifest" -> Manifest(s)
      [] OTHER -> Probe(a, s)

Outer == Early \cup {"project", "manifest"}
Finder == {"credentials", "token", "connect", "files", "topic", "subscription", "iam", "folder",
           "url", "root", "account_base", "key", "stor", "put", "share", "write", "project",
           "manifest"}
Failure == {"fail", "auth", "raise"}

\* What a call may find although nothing is wrong.
Blip(a) == {"unreachable"} \cup (IF a \in InSession THEN {} ELSE {"revoked"})

LEMMA DeepIsDeep ==
    ASSUME NEW k \in Backends
    PROVE  /\ DeepOf(k) \subseteq Deep /\ DeepOf(k) \cap Outer = {}
           /\ "deep" \notin DeepOf(k) /\ "done" \notin DeepOf(k) /\ "raised" \notin DeepOf(k)
           /\ "exit" \notin DeepOf(k)
           /\ \A a \in DeepOf(k) : \A s : Found(k, a, s) = Probe(a, s)
           /\ k # "sftp" => DeepOf(k) \cap {"key_unconnected", "transport"} = {}
           /\ k \notin {"ftp", "s3", "smb"} => DeepOf(k) \cap (Contacted \cup Deleting) = {}
  <1>1. k \in {"googledrive", "dropbox", "onedrive", "webdav", "sftp", "ftp", "s3", "smb"}
    BY DEF Backends
  <1>2. /\ DeepOf(k) \subseteq Deep /\ DeepOf(k) \cap Outer = {}
        /\ "deep" \notin DeepOf(k) /\ "done" \notin DeepOf(k) /\ "raised" \notin DeepOf(k)
        /\ "exit" \notin DeepOf(k)
    BY <1>1 DEF DeepOf, Deep, DeepCall, DeepLocal, Outer, Early
  <1>3. \A a \in DeepOf(k) : \A s : Found(k, a, s) = Probe(a, s)
    BY <1>2 DEF Found, Outer, Early
  <1>4. k # "sftp" => DeepOf(k) \cap {"key_unconnected", "transport"} = {}
    BY <1>1 DEF DeepOf
  <1>5. k \notin {"ftp", "s3", "smb"} => DeepOf(k) \cap (Contacted \cup Deleting) = {}
    BY <1>1 DEF DeepOf, Contacted, Deleting
  <1> QED BY <1>2, <1>3, <1>4, <1>5

LEMMA OuterIs ==
    ASSUME NEW k, NEW s
    PROVE  /\ Found(k, "credentials", s) = Credentials(k, s) /\ Found(k, "token", s) = Token(k, s)
           /\ Found(k, "connect", s) = Connect(k, s) /\ Found(k, "files", s) = SftpFiles(s)
           /\ Found(k, "project", s) = Project(s) /\ Found(k, "manifest", s) = Manifest(s)
  BY DEF Found

LEMMA ConnectFails ==
    ASSUME NEW k \in Backends, NEW s, s = "unreachable" \/ s \in Raises[k], NEW r \in Connect(k, s)
    PROVE  r.say = "fail"
  <1>1. s \notin MayRaise BY DEF Raises, MayRaise, Backends
  <1>2. PICK next : Connect(k, s) = Fail(next) BY <1>1 DEF Connect
  <1> QED BY <1>2 DEF Fail, Result

\* What the probes outside the deep checks do next: they raise nothing, meet no
\* refusal and have no sentinel.
LEMMA OuterShape ==
    ASSUME NEW k, NEW s, NEW a \in Outer, NEW r \in Found(k, a, s)
    PROVE  /\ r.say \in {"ok", "fail"} /\ r.sentinel = "same"
           /\ r.next = CASE a = "credentials" -> "token"
                         [] a = "token" -> "connect"
                         [] a = "connect" -> IF k = "sftp" THEN "files" ELSE "deep"
                         [] a = "files" -> "deep"
                         [] a = "project" -> "manifest"
                         [] a = "manifest" -> "done"
  <1> USE OuterIs DEF Result, Ok, Fail
  <1>1. CASE a \in {"credentials", "token"} BY <1>1 DEF Credentials, Token
  <1>2. CASE a = "connect"
    <2>1. r \in Ok(IF k = "sftp" THEN "files" ELSE "deep") \cup Fail(IF k = "sftp" THEN "files" ELSE "deep")
      BY <1>2 DEF Connect
    <2> QED BY <1>2, <2>1
  <1>3. CASE a \in {"files", "project", "manifest"} BY <1>3 DEF SftpFiles, Project, Manifest
  <1> QED BY <1>1, <1>2, <1>3 DEF Outer, Early

\* What any probe does next.
Proceeds(k, a, r) ==
    /\ r.say \in {"ok", "fail", "auth", "raise"}
    /\ r.next \in ProbesOf(k) \cup {"deep", "done", "raised"}
    /\ r.say = "auth" => r.next = "project"
    /\ r.say = "raise" <=> r.next = "raised"
    /\ r.next \in Early \cup {"deep"} => a \in Early
    /\ r.next \in DeepOf(k) => a \in DeepOf(k)
    /\ r.next = "done" => a = "manifest"
    /\ r.sentinel \in {"same", "put", "gone"}
    /\ r.sentinel # "same" => a \in DeepOf(k) /\ k \in {"ftp", "s3", "smb"}

LEMMA FoundProceeds ==
    ASSUME NEW k \in Backends, NEW a \in ProbesOf(k), NEW s, NEW r \in Found(k, a, s)
    PROVE  Proceeds(k, a, r)
  <1>1. CASE a \in DeepOf(k)
    <2>1. r \in Probe(a, s) BY <1>1, DeepIsDeep
    <2>2. Shape(k, r)
      BY <1>1, <2>1, GoogleDriveProbeShape, DropboxProbeShape, OneDriveProbeShape, WebDAVProbeShape,
         SftpProbeShape, FtpProbeShape, S3ProbeShape, SmbProbeShape DEF Backends
    <2> QED BY <1>1, <2>2, DeepIsDeep DEF Shape, Proceeds, ProbesOf, Outer, Early
  <1>2. CASE a \in Outer
    <2> HIDE DEF DeepOf
    <2> QED BY <1>2, OuterShape, DeepIsDeep DEF Proceeds, ProbesOf, Outer, Early
  <1> QED BY <1>1, <1>2 DEF ProbesOf, Outer, Early

LEMMA FinderType ==
    ASSUME NEW k \in Backends, NEW s \in Fault(k), s \notin Harmless(k) \cup {"no_config"}
    PROVE  FoundAt(k, s) \in Finder
  BY DEF Backends, Fault, GeneralFault, OAuthFault, InlineFault, KindFault, OAuth, Harmless,
     FoundAt, Raises, Finder

LEMMA UpToWhole ==
    ASSUME NEW p \in Finder
    PROVE  /\ UpTo(p) \subseteq Middle
           /\ UpTo(p) \cap {"delete", "remove"} # {} => "project" \in UpTo(p)
           /\ "refresh" \in UpTo(p) => "item" \in UpTo(p)
           /\ "host_key" \in UpTo(p) => "key_unconnected" \in UpTo(p)
           /\ "exec" \in UpTo(p) => "stat" \in UpTo(p)
           /\ "credentials" \in UpTo(p)
           /\ p # "credentials" => "token" \in UpTo(p)
           /\ p \notin {"credentials", "token"} => "connect" \in UpTo(p)
           /\ p \notin {"credentials", "token", "connect"} => "files" \in UpTo(p)
           /\ p \notin Early => "deep" \in UpTo(p)
           /\ p = "credentials" => UpTo(p) = {"credentials"}
           /\ p = "token" => UpTo(p) = {"credentials", "token"}
           /\ p = "connect" => UpTo(p) = {"credentials", "token", "connect"}
           /\ p = "files" => UpTo(p) = Early
           /\ "project" \in UpTo(p) => p \in {"project", "manifest"}
           /\ "manifest" \in UpTo(p) <=> p = "manifest"
  <1>1. /\ DeepOf("googledrive") = {"drive_scopes", "drive_api", "topic", "subscription", "iam"}
        /\ DeepOf("dropbox") = {"token_shape", "app_key", "account", "scopes", "folder"}
        /\ DeepOf("webdav") = {"url", "root", "headers", "account_base"}
    BY DEF DeepOf
  <1>2. CASE p \in Early BY <1>2 DEF UpTo, Early, Middle
  <1> USE <1>1 DEF Early, Middle, Deep, DeepLocal, DeepCall
  <1>3. CASE p = "topic" BY <1>3 DEF UpTo
  <1>4. CASE p = "subscription" BY <1>4 DEF UpTo
  <1>5. CASE p = "iam" BY <1>5 DEF UpTo
  <1>6. CASE p = "folder" BY <1>6 DEF UpTo
  <1>7. CASE p = "url" BY <1>7 DEF UpTo
  <1>8. CASE p = "root" BY <1>8 DEF UpTo
  <1>9. CASE p = "account_base" BY <1>9 DEF UpTo
  <1>10. CASE p = "key" BY <1>10 DEF UpTo
  <1>11. CASE p = "stor" BY <1>11 DEF UpTo
  <1>12. CASE p = "put" BY <1>12 DEF UpTo
  <1>13. CASE p = "share" BY <1>13 DEF UpTo
  <1>14. CASE p = "write" BY <1>14 DEF UpTo
  <1>15. CASE p = "project" BY <1>15 DEF UpTo
  <1>16. CASE p = "manifest" BY <1>16 DEF UpTo
  <1> QED
    BY <1>2, <1>3, <1>4, <1>5, <1>6, <1>7, <1>8, <1>9, <1>10, <1>11, <1>12, <1>13, <1>14, <1>15, <1>16 DEF Finder

\* The faults that the probes outside the deep checks are to report.
LEMMA FoundAtOuter ==
    ASSUME NEW k \in Backends, NEW s \in Fault(k), s \notin Harmless(k) \cup {"no_config"}
    PROVE  /\ FoundAt(k, s) \in Finder
           /\ FoundAt(k, s) = "credentials" => k \in OAuth /\ s = "no_credentials"
           /\ FoundAt(k, s) = "token" =>
                 \/ k \in OAuth /\ (s \in {"no_token", "token_corrupt", "no_refresh"} \/ k = "onedrive")
                 \/ k \notin OAuth /\ s = "incomplete"
           /\ FoundAt(k, s) = "connect" => s = "unreachable" \/ s \in Raises[k]
           /\ FoundAt(k, s) = "files" => k = "sftp" /\ s \in {"key_missing", "key_unreadable"}
           /\ FoundAt(k, s) = "project" => s = "no_project"
           /\ FoundAt(k, s) = "manifest" => s = "manifest_corrupt"
  <1>1. FoundAt(k, s) \in Finder BY FinderType
  <1>2. FoundAt(k, s) = "credentials" => k \in OAuth /\ s = "no_credentials"
    BY DEF FoundAt, Backends, OAuth
  <1>3. FoundAt(k, s) = "token" =>
          \/ k \in OAuth /\ (s \in {"no_token", "token_corrupt", "no_refresh"} \/ k = "onedrive")
          \/ k \notin OAuth /\ s = "incomplete"
    BY DEF FoundAt, Backends, OAuth
  <1>4. FoundAt(k, s) = "connect" => s = "unreachable" \/ s \in Raises[k]
    BY DEF FoundAt, Backends, OAuth
  <1>5. FoundAt(k, s) = "files" => k = "sftp" /\ s \in {"key_missing", "key_unreadable"}
    BY DEF FoundAt, Backends, OAuth
  <1>6. FoundAt(k, s) \in {"project", "manifest"} => s \in {"no_project", "manifest_corrupt"}
    BY DEF FoundAt, Backends, Fault, GeneralFault, OAuthFault, InlineFault, KindFault, OAuth, Harmless, Raises
  <1>7. FoundAt(k, s) = "project" => s = "no_project" BY <1>6 DEF FoundAt
  <1>8. FoundAt(k, s) = "manifest" => s = "manifest_corrupt" BY <1>6 DEF FoundAt
  <1> QED BY <1>1, <1>2, <1>3, <1>4, <1>5, <1>7, <1>8

\* A fault is reported by the probe FoundAt names at the latest.
LEMMA OuterReports ==
    ASSUME NEW k \in Backends, NEW s \in Fault(k), s \notin Harmless(k) \cup {"no_config"},
           NEW a \in Outer, a = "files" => k = "sftp", a \in UpTo(FoundAt(k, s)),
           NEW r \in Found(k, a, s)
    PROVE  r.say = "fail" \/ r.next \in UpTo(FoundAt(k, s))
  <1>1. PICK p : p = FoundAt(k, s) OBVIOUS
  <1>2. /\ p \in Finder /\ a \in UpTo(p)
        /\ p = "credentials" => k \in OAuth /\ s = "no_credentials"
        /\ p = "token" =>
              \/ k \in OAuth /\ (s \in {"no_token", "token_corrupt", "no_refresh"} \/ k = "onedrive")
              \/ k \notin OAuth /\ s = "incomplete"
        /\ p = "connect" => s = "unreachable" \/ s \in Raises[k]
        /\ p = "files" => k = "sftp" /\ s \in {"key_missing", "key_unreadable"}
        /\ p = "project" => s = "no_project"
        /\ p = "manifest" => s = "manifest_corrupt"
    BY <1>1, FoundAtOuter
  <1> USE DEF Result, Fail
  <1>3. p = "credentials" /\ a = "credentials" => r.say = "fail" BY <1>2, OuterIs DEF Credentials
  <1>4. p = "token" /\ a = "token" => r.say = "fail" BY <1>2, OuterIs DEF Token
  <1>5. p = "connect" /\ a = "connect" => r.say = "fail"
    BY <1>2, OuterIs, ConnectFails
  <1>6. p = "files" /\ a = "files" => r.say = "fail" BY <1>2, OuterIs DEF SftpFiles
  <1>7. p = "project" /\ a = "project" => r.say = "fail" BY <1>2, OuterIs DEF Project
  <1>8. p = "manifest" /\ a = "manifest" => r.say = "fail" BY <1>2, OuterIs DEF Manifest
  <1>9. p = "files" => k = "sftp" BY <1>2
  <1> HIDE DEF Result, Fail
  <1>10. CASE a = "credentials" BY <1>1, <1>2, <1>3, <1>10, OuterShape, UpToWhole
  <1>11. CASE a = "token" BY <1>1, <1>2, <1>4, <1>11, OuterShape, UpToWhole
  <1>12. CASE a = "connect"
    <2>1. p \notin {"credentials", "token"} BY <1>2, <1>12, UpToWhole
    <2>2. r.next = IF k = "sftp" THEN "files" ELSE "deep" BY <1>12, OuterShape
    <2>3. p # "connect" => "files" \in UpTo(p) BY <2>1, <1>2, UpToWhole
    <2>4. p \notin {"connect", "files"} => "deep" \in UpTo(p) BY <2>1, <1>2, UpToWhole DEF Early
    <2> QED BY <1>1, <1>5, <1>9, <1>12, <2>2, <2>3, <2>4
  <1>13. CASE a = "files"
    <2>1. p \notin {"credentials", "token", "connect"} BY <1>2, <1>13, UpToWhole
    <2>2. r.next = "deep" BY <1>13, OuterShape
    <2>3. p # "files" => "deep" \in UpTo(p) BY <2>1, <1>2, UpToWhole DEF Early
    <2> QED BY <1>1, <1>6, <1>13, <2>2, <2>3
  <1>14. CASE a = "project" BY <1>1, <1>2, <1>7, <1>14, OuterShape, UpToWhole
  <1>15. CASE a = "manifest" BY <1>1, <1>2, <1>8, <1>15, OuterShape, UpToWhole
  <1> QED BY <1>10, <1>11, <1>12, <1>13, <1>14, <1>15 DEF Outer, Early

\* The same of the probes of the deep checks too.
LEMMA FoundReports ==
    ASSUME NEW k \in Backends, NEW s \in Fault(k), s \notin Harmless(k) \cup {"no_config"},
           NEW a \in ProbesOf(k), a \in UpTo(FoundAt(k, s)), NEW r \in Found(k, a, s)
    PROVE  r.say \in Failure \/ r.next \in UpTo(FoundAt(k, s))
  <1>1. CASE a \in DeepOf(k)
    <2>1. r \in Probe(a, s) BY <1>1, DeepIsDeep
    <2> QED
      BY <1>1, <2>1, GoogleDriveReports, DropboxReports, OneDriveReports, WebDAVReports,
         SftpReports, FtpReports, S3Reports, SmbReports DEF Backends, Failure
  <1>2. CASE a \in Outer
    <2>1. a = "files" => k = "sftp" BY DeepIsDeep DEF ProbesOf, Outer, Early
    <2> QED BY <1>2, <2>1, OuterReports DEF Failure
  <1> QED BY <1>1, <1>2 DEF ProbesOf, Outer, Early

\* A call that fails although nothing is wrong with it keeps a configuration on the
\* way to the probe that reports it, or is reported itself.
LEMMA BlipGoesOn ==
    ASSUME NEW k \in Backends, NEW p \in Finder, k = "webdav" => p \notin {"connect", "files"},
           NEW a \in ProbesOf(k), a \in UpTo(p), a \in {"connect"} \cup DeepCall,
           NEW s \in Blip(a), NEW r \in Found(k, a, s)
    PROVE  r.say \in Failure \/ r.next \in UpTo(p)
  <1>1. CASE a = "connect"
    <2>1. k # "webdav" => s \in {"unreachable"} \cup Raises[k]
      BY DEF Blip, Raises, Backends
    <2>2. r \in Connect(k, s) BY <1>1, OuterIs
    <2>3. k # "webdav" => r.say = "fail" BY <2>1, <2>2, ConnectFails
    <2>4. CASE k = "webdav"
      <3>1. r.next = "deep" BY <1>1, <2>4, OuterShape DEF Outer, Early
      <3>2. p \notin {"credentials", "token", "connect"} BY <2>4, <1>1, UpToWhole
      <3>3. p # "files" => "deep" \in UpTo(p) BY <3>2, UpToWhole DEF Early
      <3> QED BY <2>4, <3>1, <3>3
    <2> QED BY <2>3, <2>4 DEF Failure
  <1>2. CASE a # "connect"
    <2>1. a \in DeepOf(k) \cap DeepCall
      BY <1>2 DEF ProbesOf, Early, DeepCall
    <2>2. r \in Probe(a, s) BY <2>1, DeepIsDeep
    <2>3. \/ r.say \in Failure
          \/ a \in {"delete", "remove"} /\ r.next = "project"
          \/ a = "refresh" /\ r.next = "item"
          \/ a = "host_key" /\ r.next = "key_unconnected"
          \/ a = "exec" /\ r.next = "stat"
      BY <2>1, <2>2, BlipReports DEF Blip, Failure
    <2>4. a \in {"delete", "remove"} => "project" \in UpTo(p) BY UpToWhole
    <2> QED BY <2>3, <2>4, UpToWhole
  <1> QED BY <1>1, <1>2

\* What is harmless is not reported, as long as the connection stands.
LEMMA FoundSilent ==
    ASSUME NEW k \in Backends, NEW s \in Harmless(k), NEW a \in ProbesOf(k),
           a \notin {"key_unconnected", "transport"}, NEW r \in Found(k, a, s)
    PROVE  /\ k # "onedrive" /\ s # "agent_only" => r.say \notin {"fail", "auth"}
           /\ r.next \notin {"key_unconnected", "transport"}
  <1>1. CASE a \in DeepOf(k)
    <2>1. r \in Probe(a, s) BY <1>1, DeepIsDeep
    <2>2. CASE k = "onedrive" BY <2>2, FoundProceeds, DeepIsDeep DEF Proceeds, ProbesOf, Early
    <2>3. CASE k # "onedrive"
      BY <1>1, <2>1, <2>3, GoogleDriveSilent, DropboxSilent, WebDAVSilent,
         SftpSilent, FtpSilent, S3Silent, SmbSilent DEF Backends
    <2> QED BY <2>2, <2>3
  <1>2. CASE a \in Outer
    <2>1. r.next \notin {"key_unconnected", "transport"} BY <1>2, OuterShape DEF Outer, Early
    <2>2. /\ s \notin {"no_credentials", "token_corrupt", "no_refresh", "incomplete", "unreachable",
                       "no_project", "manifest_corrupt", "key_missing", "key_unreadable",
                       "no_known_hosts"}
          /\ s \notin Raises[k] \cup MayRaise
          /\ k # "webdav" => s # "no_token"
      BY DEF Harmless, Raises, MayRaise, Backends
    <2>3. CASE k # "onedrive"
      <3> USE OuterIs, <2>2 DEF Result, Ok
      <3>1. CASE a = "credentials" BY <3>1 DEF Credentials
      <3>2. CASE a = "token" BY <3>2, <2>3 DEF Token, OAuth
      <3>3. CASE a = "connect" BY <3>3 DEF Connect
      <3>4. CASE a = "files" BY <3>4 DEF SftpFiles
      <3>5. CASE a \in {"project", "manifest"} BY <3>5 DEF Project, Manifest
      <3> QED BY <1>2, <2>1, <3>1, <3>2, <3>3, <3>4, <3>5 DEF Outer, Early
    <2> QED BY <2>1, <2>3
  <1> QED BY <1>1, <1>2 DEF ProbesOf, Outer, Early

LEMMA FoundCleans ==
    ASSUME NEW k \in Backends, NEW s, NEW a \in ProbesOf(k),
           a \in Contacted => s \notin {"unreachable", "revoked"}, NEW r \in Found(k, a, s)
    PROVE  Cleans(a, s, r)
  <1>1. CASE a \in DeepOf(k)
    <2>1. r \in Probe(a, s) BY <1>1, DeepIsDeep
    <2>2. CASE k \in {"ftp", "s3", "smb"} BY <1>1, <2>1, <2>2, FtpCleans, S3Cleans, SmbCleans
    <2>3. CASE k \notin {"ftp", "s3", "smb"}
      BY <1>1, <2>3, FoundProceeds, DeepIsDeep
      DEF Proceeds, ProbesOf, Early, Cleans, Contacted, Deleting
    <2> QED BY <2>2, <2>3
  <1>2. CASE a \in Outer
    BY <1>2, OuterShape DEF Cleans, Contacted, Deleting, Outer, Early
  <1> QED BY <1>1, <1>2 DEF ProbesOf, Outer, Early

-----------------------------------------------------------------------------
(* The steps.                                                                *)

DoctorInv == Typed /\ Passes /\ Reporting /\ Refused /\ Quiet /\ Cleaning

\* A probe sees what is wrong, or a call that fails.
ProbeFinds(s, r) ==
    /\ at \in ProbesOf(kind[turn])
    /\ r \in Found(kind[turn], at, s)
    /\ Conclude(r)
    /\ \/ s = fault[turn] /\ UNCHANGED blips
       \/ s \in Blip(at) /\ at \in {"connect"} \cup DeepCall /\ blips < MaxBlips /\ blips' = blips + 1

LEMMA KindType ==
    ASSUME DoctorTypeOK
    PROVE  /\ \A c \in Config : kind[c] \in Backends /\ fault[c] \in Fault(kind[c])
           /\ turn \in Config /\ kind[turn] \in Backends /\ fault[turn] \in Fault(kind[turn])
  BY DoctorAssumption DEF DoctorTypeOK

\* Every action of a probe is a finding of it.
LEMMA ProbeStep ==
    ASSUME Typed,
           \/ CheckCredentials \/ CheckToken \/ CheckConnectivity \/ CheckSftpFiles
           \/ DeepProbe \/ CheckProject \/ CheckManifest
    PROVE  \E s, r : ProbeFinds(s, r)
  <1>0. kind[turn] \in Backends BY KindType DEF Typed
  <1> DEFINE k == kind[turn]
  <1>1. ASSUME NEW results, Local(results), at \in ProbesOf(k), results = Found(k, at, fault[turn])
        PROVE  \E s, r : ProbeFinds(s, r)
    BY <1>1 DEF Local, ProbeFinds
  <1>2. ASSUME Calls, at \in ProbesOf(k), at \in {"connect"} \cup DeepCall,
               \A s : Found(k, at, s) = IF at = "connect" THEN Connect(k, s) ELSE Probe(at, s)
        PROVE  \E s, r : ProbeFinds(s, r)
    <2>1. CASE \E r \in Found(k, at, fault[turn]) : Conclude(r) /\ UNCHANGED blips
      BY <1>2, <2>1 DEF ProbeFinds
    <2>2. CASE /\ blips < MaxBlips /\ blips' = blips + 1
               /\ \E s \in Blip(at) : \E r \in Found(k, at, s) : Conclude(r)
      BY <1>2, <2>2 DEF ProbeFinds
    <2> QED BY <1>2, <2>1, <2>2 DEF Calls, Blip
  <1>3. CASE CheckCredentials BY <1>3, <1>1, OuterIs DEF CheckCredentials, ProbesOf, Early
  <1>4. CASE CheckToken BY <1>4, <1>1, OuterIs DEF CheckToken, ProbesOf, Early
  <1>5. CASE CheckConnectivity BY <1>5, <1>2, OuterIs DEF CheckConnectivity, ProbesOf, Early
  <1>6. CASE CheckSftpFiles BY <1>6, <1>1, OuterIs DEF CheckSftpFiles, ProbesOf, Early, Typed
  <1>7. CASE CheckProject BY <1>7, <1>1, OuterIs DEF CheckProject, ProbesOf
  <1>8. CASE CheckManifest BY <1>8, <1>1, OuterIs DEF CheckManifest, ProbesOf
  <1>9. CASE DeepProbe
    <2>1. at \in DeepOf(k) /\ at # "connect" BY <1>9 DEF DeepProbe, Typed, Deep, DeepLocal, DeepCall
    <2>2. \A s : Found(k, at, s) = Probe(at, s) BY <2>1, <1>0, DeepIsDeep
    <2>3. at \in ProbesOf(k) BY <2>1 DEF ProbesOf
    <2> QED BY <1>9, <1>1, <1>2, <2>1, <2>2, <2>3 DEF DeepProbe
  <1> QED BY <1>3, <1>4, <1>5, <1>6, <1>7, <1>8, <1>9

\* The deep checks begin on the way to the probe that reports a fault.
LEMMA DeepBegins ==
    ASSUME NEW k \in Backends
    PROVE  /\ FirstDeep[k] \in DeepOf(k)
           /\ FirstDeep[k] \notin Contacted \cup Deleting \cup {"key_unconnected", "transport"}
           /\ \A s \in Fault(k) \ (Harmless(k) \cup {"no_config"}) :
                 "deep" \in UpTo(FoundAt(k, s)) => FirstDeep[k] \in UpTo(FoundAt(k, s))
  <1>1. /\ FirstDeep[k] \in DeepOf(k)
        /\ FirstDeep[k] \notin Contacted \cup Deleting \cup {"key_unconnected", "transport"}
    BY DEF FirstDeep, DeepOf, Contacted, Deleting, Backends
  <1>2. ASSUME NEW s \in Fault(k), s \notin Harmless(k) \cup {"no_config"},
               "deep" \in UpTo(FoundAt(k, s))
        PROVE  FirstDeep[k] \in UpTo(FoundAt(k, s))
    <2>1. PICK p : p = FoundAt(k, s) OBVIOUS
    <2>2. p \in Finder BY <1>2, <2>1, FinderType
    <2>3. "deep" \in UpTo(p) BY <1>2, <2>1
    <2>4. p \notin Early BY <2>3 DEF UpTo, Early
    <2>5. \/ k = "googledrive" /\ p \in {"topic", "subscription", "iam"}
          \/ k = "dropbox" /\ p = "folder"
          \/ k = "webdav" /\ p \in {"url", "root", "account_base"}
          \/ k = "sftp" /\ p = "key"
          \/ k = "ftp" /\ p = "stor"
          \/ k = "s3" /\ p = "put"
          \/ k = "smb" /\ p \in {"share", "write"}
          \/ p \in {"project", "manifest"}
      BY <2>1, <2>2, <2>4 DEF FoundAt, Finder, Early
    <2>6. CASE p \in {"project", "manifest"}
      <3>1. FirstDeep[k] \in Deep /\ FirstDeep[k] # "manifest" BY <1>1, DeepIsDeep DEF Outer
      <3>2. UpTo("project") = Middle \ {"manifest"} /\ UpTo("manifest") = Middle BY DEF UpTo
      <3> QED BY <2>1, <2>6, <3>1, <3>2 DEF Middle
    <2>7. CASE p \notin {"project", "manifest"}
      <3>1. /\ DeepOf("googledrive") = {"drive_scopes", "drive_api", "topic", "subscription", "iam"}
            /\ DeepOf("dropbox") = {"token_shape", "app_key", "account", "scopes", "folder"}
            /\ DeepOf("webdav") = {"url", "root", "headers", "account_base"}
        BY DEF DeepOf
      <3>2. "drive_scopes" \in UpTo("topic") /\ "drive_scopes" \in UpTo("subscription") BY DEF UpTo
      <3>3. "drive_scopes" \in UpTo("iam") BY <3>1 DEF UpTo
      <3>4. "token_shape" \in UpTo("folder") BY <3>1 DEF UpTo
      <3>5. "url" \in UpTo("url") /\ "url" \in UpTo("root") BY DEF UpTo
      <3>6. "url" \in UpTo("account_base") BY <3>1 DEF UpTo
      <3>7. "host_key" \in UpTo("key") /\ "reach" \in UpTo("stor") BY DEF UpTo
      <3>8. "shape" \in UpTo("put") /\ "session" \in UpTo("share") /\ "session" \in UpTo("write")
        BY DEF UpTo
      <3> QED BY <2>1, <2>5, <2>7, <3>2, <3>3, <3>4, <3>5, <3>6, <3>7, <3>8 DEF FirstDeep
    <2> QED BY <2>1, <2>6, <2>7
  <1> QED BY <1>1, <1>2

LEMMA DoctorBegins == DoctorInit => DoctorInv
  <1> SUFFICES ASSUME DoctorInit PROVE DoctorInv OBVIOUS
  <1> USE DoctorAssumption
  <1>1. kind \in [Config -> Kind] /\ \A c \in Config : fault[c] \in Fault(kind[c])
    BY DEF DoctorInit
  <1>2. filter \in Kind \cup {""} BY <1>1 DEF DoctorInit
  <1>3. DoctorTypeOK
    <2>1. turn = 0 /\ blips = 0 BY DEF DoctorInit
    <2>2. turn \in Config /\ blips \in 0 .. MaxBlips BY <2>1 DEF Config
    <2> QED BY <1>1, <1>2, <2>2 DEF DoctorInit, DoctorTypeOK, Stage
  <1>4. at = "load" /\ turn = 0 /\ failed = {} /\ sentinel = {} /\ exit = "" /\ rejected = FALSE
    BY DEF DoctorInit
  <1>5. at \notin Middle \cup Deep \cup Contacted
    BY <1>4 DEF Middle, Early, Deep, DeepCall, DeepLocal, Contacted
  <1> QED
    BY <1>3, <1>4, <1>5 DEF DoctorInv, Typed, Passes, Reporting, Refused, Quiet, Cleaning

\* Doctor has not ended yet.
Running == exit = ""

\* What a probe leaves alone, and what it finds out.
LEMMA ProbeFacts ==
    ASSUME DoctorInv, NEW s, NEW r, ProbeFinds(s, r)
    PROVE  /\ kind' = kind /\ fault' = fault /\ filter' = filter /\ turn' = turn /\ exit' = exit
           /\ at' = r.next
           /\ failed' = IF r.say \in {"fail", "auth"} THEN failed \cup {turn} ELSE failed
           /\ rejected' = (rejected \/ r.say = "auth")
           /\ sentinel' = CASE r.sentinel = "put" -> sentinel \cup {turn}
                            [] r.sentinel = "gone" -> sentinel \ {turn}
                            [] OTHER -> sentinel
           /\ turn \in Config /\ kind[turn] \in Backends /\ fault[turn] \in Fault(kind[turn])
           /\ at \in ProbesOf(kind[turn]) /\ r \in Found(kind[turn], at, s)
           /\ Proceeds(kind[turn], at, r)
           /\ at \in Middle \ {"deep"} /\ Loaded /\ Wanted(turn) /\ Running
           /\ blips' = 0 => s = fault[turn] /\ blips = 0
           /\ blips' \in 0 .. MaxBlips
  <1>1. turn \in Config /\ kind[turn] \in Backends /\ fault[turn] \in Fault(kind[turn])
    BY KindType DEF DoctorInv, Typed
  <1>2. /\ kind' = kind /\ fault' = fault /\ filter' = filter /\ turn' = turn /\ exit' = exit
        /\ at' = r.next
        /\ failed' = IF r.say \in {"fail", "auth"} THEN failed \cup {turn} ELSE failed
        /\ rejected' = (rejected \/ r.say = "auth")
        /\ sentinel' = CASE r.sentinel = "put" -> sentinel \cup {turn}
                         [] r.sentinel = "gone" -> sentinel \ {turn}
                         [] OTHER -> sentinel
    BY DEF ProbeFinds, Conclude, world
  <1>3. at \in ProbesOf(kind[turn]) /\ r \in Found(kind[turn], at, s) BY DEF ProbeFinds
  <1>4. Proceeds(kind[turn], at, r) BY <1>1, <1>3, FoundProceeds
  <1>5. at \in Middle \ {"deep"} BY <1>1, <1>3, DeepIsDeep DEF ProbesOf, Middle, Early
  <1>6. at \notin {"load", "exit", "raised"} BY <1>5 DEF Middle, Early, Deep, DeepCall, DeepLocal
  <1>7. Loaded /\ Wanted(turn) /\ Running BY <1>5, <1>6 DEF DoctorInv, Passes, Running
  <1>8. (blips' = 0 => s = fault[turn] /\ blips = 0) /\ blips' \in 0 .. MaxBlips
    <2>1. blips \in 0 .. MaxBlips /\ MaxBlips \in Nat
      BY DoctorAssumption DEF DoctorInv, Typed, DoctorTypeOK
    <2>2. \/ s = fault[turn] /\ blips' = blips
          \/ blips < MaxBlips /\ blips' = blips + 1
      BY DEF ProbeFinds
    <2> QED BY <2>1, <2>2
  <1> QED BY <1>1, <1>2, <1>3, <1>4, <1>5, <1>7, <1>8

\* A probe keeps the invariant, part by part.
LEMMA ProbeTyped ==
    ASSUME DoctorInv, NEW s, NEW r, ProbeFinds(s, r)
    PROVE  Typed' /\ Passes' /\ Refused'
  <1> DEFINE k == kind[turn]
  <1>1. at' \in ProbesOf(k) \cup {"deep", "done", "raised"} BY ProbeFacts DEF Proceeds
  <1>2. at' \in Stage \cup Deep
    BY <1>1, ProbeFacts, DeepIsDeep DEF ProbesOf, Early, Stage
  <1>3. at' \in Deep => at' \in DeepOf(k)
    BY <1>1 DEF ProbesOf, Early, Deep, DeepCall, DeepLocal
  <1>4. at' = "files" => k = "sftp"
    BY <1>1, ProbeFacts, DeepIsDeep DEF ProbesOf, Outer, Early
  <1>5. sentinel' \subseteq {c \in Config : kind[c] \in {"ftp", "s3", "smb"}}
    BY ProbeFacts DEF Proceeds, DoctorInv, Typed, DoctorTypeOK
  <1>6. failed' \subseteq Config /\ rejected' \in BOOLEAN
    BY ProbeFacts DEF DoctorInv, Typed, DoctorTypeOK
  <1>7. DoctorTypeOK'
    BY <1>2, <1>5, <1>6, ProbeFacts DEF DoctorTypeOK, DoctorInv, Typed
  <1>8. Typed' BY <1>3, <1>4, <1>7, ProbeFacts DEF Typed
  <1>9. at' \notin {"load", "exit"}
    BY <1>1, ProbeFacts, DeepIsDeep DEF ProbesOf, Early, Deep, DeepCall, DeepLocal
  <1>10. Passes' BY <1>9, ProbeFacts DEF Passes, Loaded, Wanted, Running
  <1>11. ASSUME rejected' PROVE at' \notin Early \cup {"deep"} \cup Deep
    <2>1. CASE r.say = "auth"
      BY <2>1, ProbeFacts DEF Proceeds, Early, Deep, DeepCall, DeepLocal
    <2>2. CASE rejected
      <3>1. at \notin Early \cup {"deep"} \cup Deep BY <2>2 DEF DoctorInv, Refused
      <3>2. at' \notin Early \cup {"deep"} \cup DeepOf(k)
        BY <3>1, ProbeFacts, DeepIsDeep DEF Proceeds
      <3> QED BY <3>2, <1>3
    <2> QED BY <1>11, <2>1, <2>2, ProbeFacts
  <1>12. Refused' BY <1>11 DEF Refused
  <1> QED BY <1>8, <1>10, <1>12

LEMMA ProbeReporting ==
    ASSUME DoctorInv, NEW s, NEW r, ProbeFinds(s, r)
    PROVE  Reporting'
  <1> DEFINE k == kind[turn]
             f == fault[turn]
  <1>1. failed \subseteq failed' BY ProbeFacts
  <1>2. at # "load" /\ at \in Middle /\ Loaded
    BY ProbeFacts DEF Middle, Early, Deep, DeepCall, DeepLocal
  <1>3. \A c \in Config : fault[c] = "no_config" /\ (Loaded \/ c = 0) => c \in failed
    BY <1>2 DEF DoctorInv, Reporting
  <1>4. \A c \in Config : Bad(c) /\ c < turn => c \in failed
    BY <1>2 DEF DoctorInv, Reporting
  <1>5. ASSUME Bad(turn), turn \notin failed'
        PROVE  at' = "raised" \/ at' \in UpTo(FoundAt(k, f))
    <2>1. turn \notin failed /\ r.say \notin {"fail", "auth"} BY <1>5, ProbeFacts
    <2>2. at \in UpTo(FoundAt(k, f)) BY <1>2, <1>5, <2>1 DEF DoctorInv, Reporting
    <2>3. f \notin Harmless(k) \cup {"no_config"} BY <1>5 DEF Bad, Wanted
    <2>4. CASE s = f
      <3>1. r.say \in Failure \/ r.next \in UpTo(FoundAt(k, f))
        <4>1. /\ k \in Backends /\ f \in Fault(k) /\ at \in ProbesOf(k) /\ r \in Found(k, at, f)
          BY <2>4, ProbeFacts
        <4> HIDE DEF k, f
        <4> QED BY <2>2, <2>3, <4>1, FoundReports
      <3> QED BY <2>1, <3>1, ProbeFacts DEF Failure, Proceeds
    <2>5. CASE s \in Blip(at) /\ at \in {"connect"} \cup DeepCall
      <3>1. FoundAt(k, f) \in Finder BY <2>3, ProbeFacts, FinderType
      <3>2. k = "webdav" => FoundAt(k, f) \notin {"connect", "files"} BY DEF FoundAt
      <3>3. r.say \in Failure \/ r.next \in UpTo(FoundAt(k, f))
        <4>1. /\ k \in Backends /\ at \in ProbesOf(k) /\ r \in Found(k, at, s)
          BY ProbeFacts
        <4> HIDE DEF k, f
        <4> QED BY <2>2, <2>5, <3>1, <3>2, <4>1, BlipGoesOn
      <3> QED BY <2>1, <3>3, ProbeFacts DEF Failure, Proceeds
    <2> QED BY <2>4, <2>5 DEF ProbeFinds
  <1>6. ASSUME Bad(turn), turn \notin failed' PROVE at' \notin {"done", "exit"}
    <2>1. f \notin Harmless(k) \cup {"no_config"} BY <1>6 DEF Bad, Wanted
    <2>2. UpTo(FoundAt(k, f)) \subseteq Middle BY <2>1, ProbeFacts, FinderType, UpToWhole
    <2> QED BY <1>5, <1>6, <2>2 DEF Middle, Early, Deep, DeepCall, DeepLocal
  <1>7. \A c \in Config : Bad(c)' <=> Bad(c) BY ProbeFacts DEF Bad, Wanted
  <1>8. Loaded' <=> Loaded BY ProbeFacts DEF Loaded
  <1>9. turn' = turn /\ kind' = kind /\ fault' = fault /\ turn \in Config BY ProbeFacts
  <1>10. at' = "raised" => at' \notin Middle BY DEF Middle, Early, Deep, DeepCall, DeepLocal
  <1> QED
    BY <1>1, <1>3, <1>4, <1>5, <1>6, <1>7, <1>8, <1>9, <1>10 DEF Reporting

LEMMA ProbeQuiet ==
    ASSUME DoctorInv, NEW s, NEW r, ProbeFinds(s, r)
    PROVE  Quiet' /\ Cleaning'
  <1> SUFFICES ASSUME blips' = 0 PROVE Quiet' /\ Cleaning' BY DEF Quiet, Cleaning
  <1> DEFINE k == kind[turn]
             f == fault[turn]
  <1>1. s = f /\ blips = 0 BY ProbeFacts
  <1>2. k # "sftp" => at \notin {"key_unconnected", "transport"} /\ at' \notin {"key_unconnected", "transport"}
    BY ProbeFacts, DeepIsDeep DEF Proceeds, ProbesOf, Early
  <1>3. ASSUME f \in Harmless(k)
        PROVE  /\ k # "onedrive" /\ f # "agent_only" => r.say \notin {"fail", "auth"}
               /\ at' \notin {"key_unconnected", "transport"}
    <2>1. at \notin {"key_unconnected", "transport"}
      BY <1>1, <1>2, <1>3 DEF DoctorInv, Quiet
    <2>2. k \in Backends /\ at \in ProbesOf(k) /\ r \in Found(k, at, f) /\ at' = r.next
      BY <1>1, ProbeFacts
    <2> HIDE DEF k, f
    <2> QED BY <1>3, <2>1, <2>2, FoundSilent
  <1>4. at' \in {"key_unconnected", "transport"} => f \notin Harmless("sftp")
    BY <1>2, <1>3
  <1>5. ASSUME NEW c \in failed'
        PROVE  \/ fault[c] \notin Harmless(kind[c]) \/ kind[c] = "onedrive"
               \/ fault[c] = "agent_only"
    <2>1. CASE c \in failed BY <1>1, <2>1 DEF DoctorInv, Quiet
    <2>2. CASE c \notin failed
      <3>1. c = turn /\ r.say \in {"fail", "auth"} BY <1>5, <2>2, ProbeFacts
      <3> QED BY <1>3, <3>1
    <2> QED BY <2>1, <2>2
  <1>6. Quiet' BY <1>4, <1>5, ProbeFacts DEF Quiet
  <1>7. Cleans(at, f, r)
    <2>1. at \in Contacted => f \notin {"unreachable", "revoked"}
      BY <1>1 DEF DoctorInv, Cleaning
    <2>2. k \in Backends /\ at \in ProbesOf(k) /\ r \in Found(k, at, f)
      BY <1>1, ProbeFacts
    <2> HIDE DEF k, f
    <2> QED BY <2>1, <2>2, FoundCleans
  <1>8. ASSUME NEW c \in sentinel'
        PROVE  fault[c] \in {"no_delete", "disk_full"} \/ (c = turn /\ at' \in Deleting)
    <2>1. CASE c = turn /\ r.sentinel = "put" BY <1>7, <2>1, ProbeFacts DEF Cleans
    <2>2. CASE ~(c = turn /\ r.sentinel = "put")
      <3>1. c \in sentinel /\ (c = turn => r.sentinel # "gone") BY <1>8, <2>2, ProbeFacts
      <3>2. fault[c] \in {"no_delete", "disk_full"} \/ (c = turn /\ at \in Deleting)
        BY <1>1, <3>1 DEF DoctorInv, Cleaning
      <3> QED BY <1>7, <3>1, <3>2 DEF Cleans
    <2> QED BY <2>1, <2>2
  <1>9. Cleaning' BY <1>7, <1>8, ProbeFacts DEF Cleaning, Cleans
  <1> QED BY <1>6, <1>9

\* One lemma per action that is no probe.
LEMMA LoadConfigsInv == ASSUME DoctorInv, LoadConfigs PROVE DoctorInv'
  <1>1. /\ kind' = kind /\ fault' = fault /\ filter' = filter /\ turn' = turn /\ exit' = exit
        /\ rejected' = rejected /\ sentinel' = sentinel /\ blips' = blips
    BY DEF LoadConfigs, world
  <1>2. \/ ~Loaded /\ failed' = {0} /\ at' = "exit"
        \/ Loaded /\ failed' = {c \in Config : fault[c] = "no_config"} /\ at' = "turn"
    BY DEF LoadConfigs, Loaded
  <1>3. at = "load" /\ turn = 0 /\ Running
    BY DEF LoadConfigs, DoctorInv, Passes, Running
  <1>4. at' \notin Middle \cup Deep \cup Contacted \cup Deleting \cup {"done", "load", "raised"}
    BY <1>2 DEF Middle, Early, Deep, DeepCall, DeepLocal, Contacted, Deleting
  <1>5. 0 \in Config BY DoctorAssumption DEF Config
  <1>6. DoctorTypeOK'
    <2>1. failed' \subseteq Config BY <1>2, <1>5
    <2>2. at' \in Stage BY <1>2 DEF Stage
    <2> QED BY <1>1, <2>1, <2>2 DEF DoctorTypeOK, DoctorInv, Typed
  <1>7. Typed' BY <1>4, <1>6 DEF Typed, Middle, Early
  <1>8. (Loaded' <=> Loaded) /\ (Running' <=> Running) /\ \A c \in Config : Bad(c)' <=> Bad(c)
    BY <1>1 DEF Loaded, Running, Bad, Wanted
  <1>9. Passes' BY <1>1, <1>2, <1>3, <1>4, <1>8 DEF Passes, Running
  <1>10. Reporting'
    <2>1. \A c \in Config : ~(c < 0) BY DEF Config
    <2>2. \A c \in Config : fault[c] = "no_config" /\ (Loaded \/ c = 0) => c \in failed'
      BY <1>2
    <2>3. Loaded => at' # "exit" BY <1>2
    <2> QED BY <1>1, <1>3, <1>4, <1>8, <2>1, <2>2, <2>3 DEF Reporting
  <1>11. Refused' BY <1>4 DEF Refused, Middle
  <1>12. Quiet' /\ Cleaning'
    <2>1. \A c \in failed' : fault[c] = "no_config"
      BY <1>2 DEF Loaded
    <2>2. \A x : "no_config" \notin Harmless(x) BY DEF Harmless
    <2>3. at \notin Deleting BY <1>3 DEF Deleting
    <2>4. at' \notin {"key_unconnected", "transport"} BY <1>2
    <2> QED BY <1>1, <1>4, <2>1, <2>2, <2>3, <2>4 DEF Quiet, Cleaning, DoctorInv
  <1> QED BY <1>7, <1>9, <1>10, <1>11, <1>12 DEF DoctorInv

LEMMA TakeTurnInv == ASSUME DoctorInv, TakeTurn PROVE DoctorInv'
  <1>1. /\ kind' = kind /\ fault' = fault /\ filter' = filter /\ turn' = turn /\ exit' = exit
        /\ failed' = failed /\ sentinel' = sentinel /\ blips' = blips /\ rejected' = FALSE
        /\ at = "turn"
    BY DEF TakeTurn, world
  <1>2. \/ Wanted(turn) /\ at' = "credentials"
        \/ ~Wanted(turn) /\ at' = "done"
    BY DEF TakeTurn
  <1>3. turn \in Config /\ kind[turn] \in Backends /\ fault[turn] \in Fault(kind[turn])
    BY KindType DEF DoctorInv, Typed
  <1>4. Loaded /\ Running BY <1>1 DEF DoctorInv, Passes, Running
  <1>5. at' \notin Deep \cup Contacted \cup Deleting \cup {"files", "load", "exit", "raised"}
    BY <1>2 DEF Deep, DeepCall, DeepLocal, Contacted, Deleting
  <1>6. DoctorTypeOK'
    <2>1. at' \in Stage BY <1>2 DEF Stage
    <2> QED BY <1>1, <2>1 DEF DoctorTypeOK, DoctorInv, Typed
  <1>7. Typed' BY <1>5, <1>6 DEF Typed
  <1>8. /\ (Loaded' <=> Loaded) /\ (Running' <=> Running)
        /\ \A c \in Config : (Bad(c)' <=> Bad(c)) /\ (Wanted(c)' <=> Wanted(c))
    BY <1>1 DEF Loaded, Running, Bad, Wanted
  <1>9. at' \in Middle => Wanted(turn) BY <1>2 DEF Middle, Early, Deep, DeepCall, DeepLocal
  <1>10. Passes' BY <1>1, <1>3, <1>4, <1>5, <1>8, <1>9 DEF Passes, Running
  <1>11. Reporting'
    <2>1. \A c \in Config : fault[c] = "no_config" /\ (Loaded \/ c = 0) => c \in failed
      BY <1>1 DEF DoctorInv, Reporting
    <2>2. \A c \in Config : Bad(c) /\ c < turn => c \in failed
      BY <1>1, <1>4 DEF DoctorInv, Reporting
    <2>3. Bad(turn) => at' = "credentials" BY <1>2 DEF Bad
    <2>4. Bad(turn) => "credentials" \in UpTo(FoundAt(kind[turn], fault[turn]))
      <3>1. Bad(turn) => fault[turn] \notin Harmless(kind[turn]) \cup {"no_config"}
        BY DEF Bad, Wanted
      <3> QED BY <1>3, <3>1, FinderType, UpToWhole
    <2> QED BY <1>1, <1>3, <1>8, <2>1, <2>2, <2>3, <2>4 DEF Reporting
  <1>12. Refused' BY <1>1 DEF Refused
  <1>13. Quiet' /\ Cleaning'
    <2>1. at \notin Deleting BY <1>1 DEF Deleting
    <2>2. at' \notin {"key_unconnected", "transport"} BY <1>2
    <2> QED BY <1>1, <1>5, <2>1, <2>2 DEF Quiet, Cleaning, DoctorInv
  <1> QED BY <1>7, <1>10, <1>11, <1>12, <1>13 DEF DoctorInv

LEMMA EndTurnInv == ASSUME DoctorInv, EndTurn PROVE DoctorInv'
  <1>1. /\ kind' = kind /\ fault' = fault /\ filter' = filter /\ exit' = exit
        /\ failed' = failed /\ sentinel' = sentinel /\ blips' = blips /\ rejected' = rejected
        /\ at = "done"
    BY DEF EndTurn, world
  <1>2. \/ turn = Mirrors /\ at' = "exit" /\ turn' = turn
        \/ turn # Mirrors /\ at' = "turn" /\ turn' = turn + 1
    BY DEF EndTurn
  <1>3. turn \in 0 .. Mirrors /\ Mirrors \in Nat
    BY DoctorAssumption DEF DoctorInv, Typed, DoctorTypeOK, Config
  <1>4. Loaded /\ Running BY <1>1 DEF DoctorInv, Passes, Running
  <1>5. at' \notin Middle \cup Deep \cup Contacted \cup Deleting \cup {"load", "raised", "done"}
    BY <1>2 DEF Middle, Early, Deep, DeepCall, DeepLocal, Contacted, Deleting
  <1>6. DoctorTypeOK'
    <2>1. at' \in Stage BY <1>2 DEF Stage
    <2>2. turn' \in 0 .. Mirrors BY <1>2, <1>3
    <2>3. turn' \in Config BY <2>2 DEF Config
    <2> QED BY <1>1, <2>1, <2>3 DEF DoctorTypeOK, DoctorInv, Typed
  <1>7. Typed' BY <1>5, <1>6 DEF Typed, Middle, Early
  <1>8. (Loaded' <=> Loaded) /\ (Running' <=> Running) /\ \A c \in Config : Bad(c)' <=> Bad(c)
    BY <1>1 DEF Loaded, Running, Bad, Wanted
  <1>9. Passes' BY <1>2, <1>4, <1>5, <1>8 DEF Passes, Running
  <1>10. Reporting'
    <2>1. \A c \in Config : fault[c] = "no_config" /\ (Loaded \/ c = 0) => c \in failed
      BY <1>1 DEF DoctorInv, Reporting
    <2>2. \A c \in Config : Bad(c) /\ (c < turn \/ c = turn) => c \in failed
      BY <1>1, <1>4 DEF DoctorInv, Reporting
    <2>3. \A c \in Config : c < turn' \/ (c = turn' /\ at' \in {"done", "exit"}) => c < turn \/ c = turn
      BY <1>2, <1>3 DEF Config
    <2> QED BY <1>1, <1>5, <1>8, <2>1, <2>2, <2>3 DEF Reporting
  <1>11. Refused' BY <1>5 DEF Refused, Middle
  <1>12. Quiet' /\ Cleaning'
    <2>1. at \notin Deleting BY <1>1 DEF Deleting
    <2>2. at' \notin {"key_unconnected", "transport"} BY <1>2
    <2> QED BY <1>1, <1>5, <2>1, <2>2 DEF Quiet, Cleaning, DoctorInv
  <1> QED BY <1>7, <1>9, <1>10, <1>11, <1>12 DEF DoctorInv

LEMMA BeginDeepInv == ASSUME DoctorInv, BeginDeep PROVE DoctorInv'
  <1>1. /\ kind' = kind /\ fault' = fault /\ filter' = filter /\ turn' = turn /\ exit' = exit
        /\ failed' = failed /\ sentinel' = sentinel /\ blips' = blips /\ rejected' = rejected
        /\ at = "deep" /\ at' = FirstDeep[kind[turn]]
    BY DEF BeginDeep, world
  <1>2. turn \in Config /\ kind[turn] \in Backends /\ fault[turn] \in Fault(kind[turn])
    BY KindType DEF DoctorInv, Typed
  <1>3. at \in Middle /\ at \notin Deleting BY <1>1 DEF Middle, Deleting
  <1>4. Loaded /\ Running /\ Wanted(turn)
    BY <1>1, <1>3 DEF DoctorInv, Passes, Running
  <1>5. /\ at' \in DeepOf(kind[turn]) /\ at' \in Deep
        /\ at' \notin Contacted \cup Deleting \cup {"key_unconnected", "transport"}
    BY <1>1, <1>2, DeepBegins, DeepIsDeep
  <1>6. at' \in Middle /\ at' \notin {"files", "load", "exit", "done", "raised"}
    BY <1>5 DEF Middle, Early, Deep, DeepCall, DeepLocal
  <1>7. DoctorTypeOK' BY <1>1, <1>5 DEF DoctorTypeOK, DoctorInv, Typed
  <1>8. Typed' BY <1>1, <1>5, <1>6, <1>7 DEF Typed
  <1>9. /\ (Loaded' <=> Loaded) /\ (Running' <=> Running)
        /\ \A c \in Config : (Bad(c)' <=> Bad(c)) /\ (Wanted(c)' <=> Wanted(c))
    BY <1>1 DEF Loaded, Running, Bad, Wanted
  <1>10. Passes' BY <1>1, <1>2, <1>4, <1>6, <1>9 DEF Passes, Running
  <1>11. Reporting'
    <2>1. \A c \in Config : fault[c] = "no_config" /\ (Loaded \/ c = 0) => c \in failed
      BY <1>1 DEF DoctorInv, Reporting
    <2>2. \A c \in Config : Bad(c) /\ c < turn => c \in failed
      BY <1>1, <1>4 DEF DoctorInv, Reporting
    <2>3. ASSUME Bad(turn), turn \notin failed
          PROVE  at' \in UpTo(FoundAt(kind[turn], fault[turn]))
      <3>1. "deep" \in UpTo(FoundAt(kind[turn], fault[turn]))
        BY <1>1, <1>3, <2>3 DEF DoctorInv, Reporting
      <3>2. fault[turn] \in Fault(kind[turn]) \ (Harmless(kind[turn]) \cup {"no_config"})
        BY <1>2, <2>3 DEF Bad, Wanted
      <3> QED BY <1>1, <1>2, <3>1, <3>2, DeepBegins
    <2> QED BY <1>1, <1>2, <1>6, <1>9, <2>1, <2>2, <2>3 DEF Reporting
  <1>12. Refused' BY <1>1 DEF DoctorInv, Refused
  <1>13. Quiet' /\ Cleaning'
    BY <1>1, <1>3, <1>5 DEF Quiet, Cleaning, DoctorInv
  <1> QED BY <1>8, <1>10, <1>11, <1>12, <1>13 DEF DoctorInv

LEMMA ExitInv == ASSUME DoctorInv, Exit PROVE DoctorInv'
  <1>1. /\ kind' = kind /\ fault' = fault /\ filter' = filter /\ turn' = turn /\ at' = at
        /\ failed' = failed /\ sentinel' = sentinel /\ blips' = blips /\ rejected' = rejected
        /\ at \in {"exit", "raised"}
    BY DEF Exit, world
  <1>2. exit' \in {"passed", "issues", "traceback"} /\ (at = "raised" => exit' = "traceback")
    BY DEF Exit
  <1>3. DoctorTypeOK' BY <1>1, <1>2 DEF DoctorTypeOK, DoctorInv, Typed
  <1>4. /\ (Loaded' <=> Loaded)
        /\ \A c \in Config : (Bad(c)' <=> Bad(c)) /\ (Wanted(c)' <=> Wanted(c))
    BY <1>1 DEF Loaded, Bad, Wanted
  <1>5. exit' \in {"passed", "issues"} => at' = "exit" BY <1>1, <1>2
  <1>6. turn \in Config BY KindType DEF DoctorInv, Typed
  <1>7. Typed' /\ Passes' /\ Reporting' /\ Refused' /\ Quiet' /\ Cleaning'
    BY <1>1, <1>3, <1>4, <1>5, <1>6
    DEF Typed, Passes, Reporting, Refused, Quiet, Cleaning, DoctorInv
  <1> QED BY <1>7 DEF DoctorInv

\* Nothing but the variables of doctor is looked at.
LEMMA DoctorStutters == ASSUME DoctorInv, UNCHANGED doctorVars PROVE DoctorInv'
  <1>1. /\ kind' = kind /\ fault' = fault /\ filter' = filter /\ turn' = turn /\ at' = at
        /\ failed' = failed /\ sentinel' = sentinel /\ blips' = blips /\ rejected' = rejected
        /\ exit' = exit
    BY DEF doctorVars
  <1>2. DoctorTypeOK' BY <1>1 DEF DoctorTypeOK, DoctorInv, Typed
  <1>3. /\ (Loaded' <=> Loaded)
        /\ \A c \in Config : (Bad(c)' <=> Bad(c)) /\ (Wanted(c)' <=> Wanted(c))
    BY <1>1 DEF Loaded, Bad, Wanted
  <1>4. turn \in Config BY KindType DEF DoctorInv, Typed
  <1>5. Typed' /\ Passes' /\ Reporting' /\ Refused' /\ Quiet' /\ Cleaning'
    BY <1>1, <1>2, <1>3, <1>4
    DEF Typed, Passes, Reporting, Refused, Quiet, Cleaning, DoctorInv
  <1> QED BY <1>5 DEF DoctorInv

LEMMA ProbeInv ==
    ASSUME DoctorInv,
           \/ CheckCredentials \/ CheckToken \/ CheckConnectivity \/ CheckSftpFiles
           \/ DeepProbe \/ CheckProject \/ CheckManifest
    PROVE  DoctorInv'
  <1>1. PICK s, r : ProbeFinds(s, r) BY ProbeStep DEF DoctorInv
  <1> QED BY <1>1, ProbeTyped, ProbeReporting, ProbeQuiet DEF DoctorInv

\* The invariant the theorems rest on.
THEOREM DoctorInvariant == DoctorSpec => []DoctorInv
  <1>1. DoctorInv /\ [DoctorNext]_doctorVars => DoctorInv'
    BY LoadConfigsInv, TakeTurnInv, EndTurnInv, BeginDeepInv, ProbeInv, ExitInv, DoctorStutters
    DEF DoctorNext
  <1> QED BY <1>1, DoctorBegins, PTL DEF DoctorSpec

\* doctor, its probes and its sentinel keep to their types, for any number of mirrors.
THEOREM DoctorTypeCorrect == DoctorSpec => []DoctorTypeOK
  BY DoctorInvariant, PTL DEF DoctorInv, Typed

\* Whatever is wrong with a configuration that doctor was to check, one of the probes of
\* _run_doctor_checks or of the deep check of its backend reports it, for any number of
\* mirrors and however many calls fail besides.
THEOREM BrokenIsFoundHolds == DoctorSpec => []BrokenIsFound
  <1>1. DoctorInv => BrokenIsFound
    <2> SUFFICES ASSUME DoctorInv, Ended PROVE
            \A c \in Config :
                /\ Wanted(c) /\ Loaded /\ fault[c] \notin Harmless(kind[c]) => c \in failed
                /\ fault[c] = "no_config" /\ (Loaded \/ c = 0) => c \in failed
      BY DEF BrokenIsFound
    <2>1. at = "exit" BY DEF Ended, DoctorInv, Passes
    <2>2. \A c \in Config : fault[c] = "no_config" /\ (Loaded \/ c = 0) => c \in failed
      BY <2>1 DEF DoctorInv, Reporting
    <2>3. ASSUME NEW c \in Config, Bad(c), Loaded PROVE c \in failed
      <3>1. turn = Mirrors BY <2>1, <2>3 DEF DoctorInv, Passes
      <3>2. c < turn \/ c = turn BY <3>1, DoctorAssumption DEF Config
      <3> QED BY <2>1, <2>3, <3>2 DEF DoctorInv, Reporting
    <2> QED BY <2>2, <2>3 DEF Bad
  <1> QED BY <1>1, DoctorInvariant, PTL

\* A configuration that nothing is wrong with is not reported when every call of its
\* remote succeeded.
THEOREM NoFalseAlarmHolds == DoctorSpec => []NoFalseAlarm
  <1>1. DoctorInv => NoFalseAlarm BY DEF DoctorInv, Quiet, NoFalseAlarm
  <1> QED BY <1>1, DoctorInvariant, PTL

\* Once a login has been refused, the deep check of the backend makes no further call.
THEOREM RefusalEndsDeepCheckHolds == DoctorSpec => []RefusalEndsDeepCheck
  <1>1. DoctorInv => RefusalEndsDeepCheck BY DEF DoctorInv, Refused, RefusalEndsDeepCheck
  <1> QED BY <1>1, DoctorInvariant, PTL

\* The sentinel of the ftp, s3 and smb checks is gone when doctor ends, unless the
\* remote would not delete it or had no room to finish it.
THEOREM SentinelRemovedHolds == DoctorSpec => []SentinelRemoved
  <1>1. DoctorInv => SentinelRemoved
    <2>1. ASSUME DoctorInv, exit # "" PROVE at \notin Deleting
      BY <2>1 DEF DoctorInv, Passes, Deleting
    <2> QED BY <2>1 DEF DoctorInv, Cleaning, SentinelRemoved
  <1> QED BY <1>1, DoctorInvariant, PTL
===============================================================================
