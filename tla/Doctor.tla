------------------------------- MODULE Doctor -------------------------------
(***************************************************************************)
(* claude-mirror doctor: one configuration and its mirrors are checked in    *)
(* turn, each by a fixed order of probes.  A probe looks at one thing, says  *)
(* what it found, and decides which probe comes next; the deep checks of a   *)
(* backend stop at some findings and go on after others.  Three of them      *)
(* write a sentinel object to the remote and delete it again.                *)
(*                                                                           *)
(* The world is what is wrong with each configuration: one fault, or none.   *)
(* A call of a remote service may besides meet a network that is down or a   *)
(* login that is refused just then (MaxBlips bounds how often).              *)
(*                                                                           *)
(* A probe is an operator from what it sees to the set of its results.       *)
(***************************************************************************)
EXTENDS Naturals, FiniteSets

CONSTANTS
    Kind,          \* the backends the configuration may name
    MirrorKind,    \* those a mirror may name
    Mirrors,       \* number of mirrors
    MaxBlips       \* bound on calls that fail although nothing is wrong

\* The backends _create_storage knows.
Backends == {"googledrive", "dropbox", "onedrive", "webdav", "sftp", "ftp", "s3", "smb"}

ASSUME DoctorAssumption ==
    /\ Mirrors \in Nat /\ MaxBlips \in Nat
    /\ Kind \subseteq Backends /\ MirrorKind \subseteq Kind

OAuth == {"googledrive", "dropbox", "onedrive"}

\* Configuration 0 is the one doctor was given, the others are its mirrors.
Config == 0 .. Mirrors

-----------------------------------------------------------------------------
(* What can be wrong.                                                        *)

GeneralFault == {"none", "no_config", "no_project", "manifest_corrupt", "revoked", "unreachable"}
OAuthFault == {"no_credentials", "no_token", "token_corrupt"}
InlineFault == {"incomplete", "no_token"}

KindFault ==
    [googledrive |-> {"no_refresh", "pubsub_unset", "no_drive_scope", "no_pubsub_scope",
                      "drive_api_off", "pubsub_api_off", "topic_missing", "topic_denied",
                      "subscription_missing", "iam_denied", "no_grant", "folder_missing"},
     dropbox |-> {"no_refresh", "no_app_key", "bad_app_key", "scope_missing", "folder_unset",
                  "folder_missing", "folder_denied"},
     onedrive |-> {"folder_unset", "bad_client_id", "no_account", "folder_missing",
                   "folder_denied", "folder_is_file"},
     webdav |-> {"malformed", "cleartext", "no_propfind", "folder_missing", "bare_server",
                 "account_missing"},
     sftp |-> {"key_missing", "key_unreadable", "key_open", "key_garbage", "agent_only",
               "no_known_hosts", "host_key_changed", "folder_missing", "folder_denied"},
     ftp |-> {"tls_broken", "folder_missing", "folder_denied", "read_only", "quota", "no_delete"},
     s3 |-> {"half_key", "endpoint_malformed", "bucket_missing", "list_denied", "read_only",
             "no_delete"},
     smb |-> {"smbv1", "share_missing", "share_denied", "read_only", "disk_full", "no_delete"}]

Fault(k) == GeneralFault \cup KindFault[k] \cup (IF k \in OAuth THEN OAuthFault ELSE InlineFault)

-----------------------------------------------------------------------------
(* Results.  A probe reports nothing, a success or advice ("ok"), a failure,  *)
(* or a refused login, which is a failure that ends the deep check; it names   *)
(* the probe that comes next, and may put or delete the sentinel.              *)

Result(say, next, sentinel) == {[say |-> say, next |-> next, sentinel |-> sentinel]}

Ok(next) == Result("ok", next, "same")
Fail(next) == Result("fail", next, "same")
Auth(next) == Result("auth", next, "same")
\* An exception that none of doctor's handlers takes.
Raise == Result("raise", "raised", "same")

(* The part that is common to the backends.                                  *)

Credentials(k, s) ==
    IF k \in OAuth /\ s = "no_credentials" THEN Fail("token") ELSE Ok("token")

\* The token file of OneDrive holds a token cache and has no refresh_token of its own.
Token(k, s) ==
    IF k \in OAuth
    THEN IF s \in {"no_token", "token_corrupt", "no_refresh"} \/ k = "onedrive"
         THEN Fail("connect") ELSE Ok("connect")
    ELSE IF s = "incomplete" THEN Fail("connect") ELSE Ok("connect")

\* What get_credentials and list_folders (for sftp a stat, for ftp a cwd) of the
\* backend raise on.  Dropbox, webdav and smb list nothing where a folder cannot
\* be read: there webdav takes even a refused login for an empty folder.
Raises ==
    [googledrive |-> {"no_token", "token_corrupt", "no_refresh", "revoked", "no_drive_scope",
                      "drive_api_off", "folder_missing"},
     dropbox |-> {"no_token", "token_corrupt", "no_refresh", "revoked", "no_app_key",
                  "bad_app_key", "scope_missing"},
     onedrive |-> {"no_token", "token_corrupt", "no_account", "bad_client_id", "revoked",
                   "folder_denied"},
     webdav |-> {"malformed", "cleartext"},
     sftp |-> {"no_token", "incomplete", "revoked", "no_known_hosts", "host_key_changed",
               "folder_missing", "folder_denied"},
     ftp |-> {"no_token", "incomplete", "revoked", "tls_broken", "folder_missing",
              "folder_denied"},
     s3 |-> {"no_token", "incomplete", "half_key", "endpoint_malformed", "revoked",
             "bucket_missing", "list_denied"},
     smb |-> {"no_token", "incomplete", "revoked", "smbv1"}]

\* The outcome depends on more than the fault: on other keys of the user, on what
\* the service answers to a listing of a file.
MayRaise == {"key_missing", "key_unreadable", "key_garbage", "folder_is_file", "folder_unset"}

Connect(k, s) ==
    LET next == IF k = "sftp" THEN "files" ELSE "deep"
    IN CASE s = "unreachable" \/ s \in Raises[k] -> Fail(next)
         [] s \in MayRaise -> Fail(next) \cup Ok(next)
         [] OTHER -> Ok(next)

SftpFiles(s) ==
    IF s \in {"key_missing", "key_unreadable", "no_known_hosts"} THEN Fail("deep") ELSE Ok("deep")

Project(s) == IF s = "no_project" THEN Fail("manifest") ELSE Ok("manifest")

Manifest(s) == IF s = "manifest_corrupt" THEN Fail("done") ELSE Ok("done")

-----------------------------------------------------------------------------
(* Google Drive: the scopes of the token, then the Drive API, the topic, this  *)
(* machine's subscription and the right of Drive to publish on the topic.      *)

\* What the token file says of the scopes, and whether credentials come of it.
GoogleDriveFactory(s) ==
    [drive |-> s \notin {"token_corrupt", "no_drive_scope"},
     pubsub |-> s \notin {"token_corrupt", "no_pubsub_scope"},
     usable |-> s # "no_refresh"]

\* Mutant: missing notification settings count as a failure.
GoogleDriveScopesStrict(s) ==
    LET found == GoogleDriveFactory(s)
    IN CASE s = "pubsub_unset" -> Fail("project")
         [] s # "no_token" /\ ~found.drive -> Fail("project")
         [] s # "no_token" /\ found.drive /\ found.pubsub /\ ~found.usable -> Fail("project")
         [] s = "no_token" \/ ~found.pubsub -> Ok("project")
         [] OTHER -> Ok("drive_api")

GoogleDriveScopes(s) ==
    LET found == GoogleDriveFactory(s)
    IN CASE s \in {"pubsub_unset", "no_token"} -> Ok("project")
         [] s # "no_token" /\ ~found.drive -> Fail("project")
         [] found.drive /\ ~found.pubsub -> Ok("project")
         [] found.drive /\ found.pubsub /\ ~found.usable -> Fail("project")
         [] OTHER -> Ok("drive_api")

\* Mutant: the checks go on after a refused login.
GoogleDriveApiAnyway(s) ==
    IF s = "revoked" THEN Auth("topic")
    ELSE IF s \in {"drive_api_off", "unreachable"} THEN Fail("topic") ELSE Ok("topic")

GoogleDriveApi(s) ==
    IF s = "revoked" THEN Auth("project")
    ELSE IF s \in {"drive_api_off", "unreachable"} THEN Fail("topic") ELSE Ok("topic")

GoogleDriveTopic(s) ==
    CASE s = "revoked" -> Auth("project")
      [] s \in {"pubsub_api_off", "topic_missing", "topic_denied", "unreachable"} -> Fail("project")
      [] OTHER -> Ok("subscription")

GoogleDriveSubscription(s) ==
    CASE s = "revoked" -> Auth("project")
      [] s \in {"subscription_missing", "unreachable"} -> Fail("iam")
      [] OTHER -> Ok("iam")

GoogleDriveIam(s) ==
    CASE s = "revoked" -> Auth("project")
      [] s \in {"iam_denied", "unreachable", "no_grant"} -> Fail("project")
      [] OTHER -> Ok("project")

(* Dropbox: token, application key, account, scopes, folder.                   *)

DropboxToken(s) ==
    CASE s = "no_token" -> Ok("project")
      [] s = "token_corrupt" -> Fail("project")
      [] OTHER -> Ok("app_key")

DropboxAppKey(s) ==
    IF s \in {"no_app_key", "bad_app_key"} THEN Fail("project") ELSE Ok("account")

DropboxAccount(s) ==
    CASE s = "revoked" -> Auth("project")
      [] s = "unreachable" -> Fail("project")
      [] OTHER -> Ok("scopes")

\* The scopes the token records; the folder is looked at whatever they are.
DropboxScopes(s) == IF s = "scope_missing" THEN Fail("folder") ELSE Ok("folder")

DropboxFolder(s) ==
    CASE s \in {"revoked", "scope_missing"} -> Auth("project")
      [] s \in {"folder_unset", "folder_missing", "folder_denied", "unreachable"} -> Fail("project")
      [] OTHER -> Ok("project")

(* OneDrive: the client and its token cache, a token, the folder.              *)

\* What is wrong with the client or its cache, the first of it.
OneDriveFactory(s) ==
    CASE s = "bad_client_id" -> "format"
      [] s = "token_corrupt" -> "cache"
      [] s = "no_account" -> "accounts"
      [] OTHER -> "none"

OneDriveCache(s) ==
    CASE s \in {"folder_unset", "no_token"} -> Ok("project")
      [] OneDriveFactory(s) # "none" -> Fail("project")
      [] OTHER -> Ok("refresh")

\* A token that is still good is taken from the cache without asking.  What goes
\* wrong in asking, the network included, counts as a refused login.
OneDriveRefresh(s) ==
    IF s \in {"revoked", "unreachable"} THEN Auth("project") \cup Ok("item") ELSE Ok("item")

OneDriveItem(s) ==
    CASE s = "revoked" -> Auth("project")
      [] s \in {"folder_missing", "folder_denied", "folder_is_file", "unreachable"} ->
             Fail("project")
      [] OTHER -> Ok("project")

(* WebDAV: the URL, the root, what its answer tells of the server, the account   *)
(* above it.                                                                     *)

WebDAVUrl(s) == IF s \in {"malformed", "cleartext"} THEN Fail("project") ELSE Ok("root")

WebDAVRoot(s) ==
    CASE s = "revoked" -> Auth("project")
      [] s \in {"folder_missing", "no_propfind", "unreachable"} -> Fail("project")
      [] OTHER -> Ok("headers")

\* The DAV class, the ETag and the checksums the answer for the root lacks, or an
\* answer that is no XML, are pointed out: sync goes by the time then.
WebDAVHeaders(s) == Ok("account_base")

WebDAVAccount(s) ==
    CASE s = "revoked" -> Auth("project")
      [] s \in {"account_missing", "unreachable"} -> Fail("project")
      [] OTHER -> Ok("project")

(* SFTP: one connection is opened to read the host key and is used for the      *)
(* rest; whether it could be opened decides what follows the key file.          *)

\* Whether the server answers with its host key.
SftpFactory(s) == s \notin {"unreachable", "incomplete"}

SftpHostKey(s) ==
    CASE ~SftpFactory(s) -> Ok("key_unconnected")
      [] s = "host_key_changed" -> Fail("project")
      [] OTHER -> Ok("key")

SftpKeyFile(s, next) ==
    IF s \in {"key_missing", "key_unreadable", "key_open", "key_garbage"}
    THEN Fail(next) ELSE Ok(next)

SftpTransport(s) == Fail("project")

SftpAuth(s) ==
    CASE s \in {"revoked", "agent_only", "key_missing", "key_unreadable", "key_garbage"} ->
             Auth("project")
      [] s = "unreachable" -> Fail("project")
      [] OTHER -> Ok("exec")

SftpExec(s) == Ok("stat")

\* A missing folder is advice only.  Other errors than those of the file system
\* are not handled.
SftpStat(s) ==
    CASE s = "folder_denied" -> Auth("project")
      [] s = "unreachable" -> Fail("project") \cup Raise
      [] OTHER -> Ok("project")

(* FTP: the port, the login, the folder, a file written and deleted.  Only a     *)
(* permanent error of the server is handled in the last three.                   *)

FtpReach(s) == IF s \in {"unreachable", "incomplete"} THEN Fail("project") ELSE Ok("login")

\* How far the connection gets: TLS comes before the login, which comes before "open".
FtpFactory(s) ==
    CASE s = "unreachable" -> "error"
      [] s = "tls_broken" -> "tls"
      [] s = "revoked" -> "530"
      [] OTHER -> "open"

FtpLogin(s) ==
    CASE FtpFactory(s) \in {"530", "tls"} -> Auth("project")
      [] FtpFactory(s) = "error" -> Fail("project")
      [] FtpFactory(s) = "open" -> Ok("cwd")

FtpFolder(s) ==
    CASE s = "folder_denied" -> Auth("project")
      [] s = "folder_missing" -> Fail("project")
      [] s = "unreachable" -> Raise
      [] OTHER -> Ok("stor")

FtpWrite(s) ==
    CASE s = "read_only" -> Auth("project")
      [] s = "quota" -> Fail("project")
      [] s = "unreachable" -> Raise \cup Result("raise", "raised", "put")
      [] OTHER -> Result("ok", "dele", "put")

\* Mutant: the sentinel is not deleted.
FtpDeleteNever(s) == Ok("project")

FtpDelete(s) ==
    CASE s = "no_delete" -> Ok("project")
      [] s = "unreachable" -> Raise
      [] OTHER -> Result("ok", "project", "gone")

(* S3: the shape of the settings, the bucket, a listing, an object put and       *)
(* deleted.                                                                      *)

S3Shape(s) ==
    IF s \in {"half_key", "endpoint_malformed", "incomplete"} THEN Fail("project")
    ELSE Ok("bucket")

S3Bucket(s) ==
    CASE s = "revoked" -> Auth("project")
      [] s \in {"bucket_missing", "unreachable"} -> Fail("project")
      [] OTHER -> Ok("list")

S3List(s) ==
    CASE s \in {"revoked", "list_denied"} -> Auth("project")
      [] s = "unreachable" -> Fail("put")
      [] OTHER -> Ok("put")

\* A put whose answer is lost may have been carried out.
S3Put(s) ==
    CASE s \in {"revoked", "read_only"} -> Auth("project")
      [] s = "unreachable" -> Fail("project") \cup Result("fail", "project", "put")
      [] OTHER -> Result("ok", "delete", "put")

S3Delete(s) ==
    IF s \in {"no_delete", "revoked", "unreachable"} THEN Ok("project")
    ELSE Result("ok", "project", "gone")

(* SMB: the session, the share, a file written and deleted.                     *)

\* The step that failed first: the port, the dialect, the session.
SmbFactory(s) ==
    CASE s \in {"unreachable", "incomplete"} -> "tcp"
      [] s = "smbv1" -> "smbv1"
      [] s = "revoked" -> "auth"
      [] OTHER -> "none"

SmbSession(s) ==
    CASE SmbFactory(s) = "auth" -> Auth("project")
      [] SmbFactory(s) \in {"tcp", "smbv1"} -> Fail("project")
      [] SmbFactory(s) = "none" -> Ok("share")

SmbShare(s) ==
    CASE s = "share_denied" -> Auth("project")
      [] s \in {"share_missing", "unreachable"} -> Fail("project")
      [] OTHER -> Ok("write")

\* The file is made before a byte is written; it is removed after a refusal, and
\* left where another failure found it.
SmbWrite(s) ==
    CASE s = "read_only" -> Auth("project")
      [] s = "disk_full" -> Result("fail", "project", "put")
      [] s = "unreachable" -> Fail("project") \cup Result("fail", "project", "put")
      [] OTHER -> Result("ok", "remove", "put")

SmbRemove(s) ==
    IF s \in {"no_delete", "unreachable"} THEN Ok("project")
    ELSE Result("ok", "project", "gone")

-----------------------------------------------------------------------------
(* The probes by name, and the order they start in.                            *)

FirstDeep ==
    [googledrive |-> "drive_scopes", dropbox |-> "token_shape", onedrive |-> "cache",
     webdav |-> "url", sftp |-> "host_key", ftp |-> "reach", s3 |-> "shape", smb |-> "session"]

\* Probes of the deep checks that call a remote service.
DeepCall ==
    {"drive_api", "topic", "subscription", "iam", "account", "folder", "refresh", "item", "root",
     "account_base", "host_key", "auth", "exec", "stat", "reach", "login", "cwd", "stor", "dele",
     "bucket", "list", "put", "delete", "session", "share", "write", "remove"}
DeepLocal ==
    {"drive_scopes", "token_shape", "app_key", "scopes", "cache", "url", "headers", "key",
     "key_unconnected", "transport", "shape"}
Deep == DeepCall \cup DeepLocal

\* What a deep probe finds when it sees s.
Probe(at, s) ==
    CASE at = "drive_scopes" -> GoogleDriveScopes(s)
      [] at = "drive_api" -> GoogleDriveApi(s)
      [] at = "topic" -> GoogleDriveTopic(s)
      [] at = "subscription" -> GoogleDriveSubscription(s)
      [] at = "iam" -> GoogleDriveIam(s)
      [] at = "token_shape" -> DropboxToken(s)
      [] at = "app_key" -> DropboxAppKey(s)
      [] at = "account" -> DropboxAccount(s)
      [] at = "scopes" -> DropboxScopes(s)
      [] at = "folder" -> DropboxFolder(s)
      [] at = "cache" -> OneDriveCache(s)
      [] at = "refresh" -> OneDriveRefresh(s)
      [] at = "item" -> OneDriveItem(s)
      [] at = "url" -> WebDAVUrl(s)
      [] at = "root" -> WebDAVRoot(s)
      [] at = "headers" -> WebDAVHeaders(s)
      [] at = "account_base" -> WebDAVAccount(s)
      [] at = "host_key" -> SftpHostKey(s)
      [] at = "key" -> SftpKeyFile(s, "auth")
      [] at = "key_unconnected" -> SftpKeyFile(s, "transport")
      [] at = "transport" -> SftpTransport(s)
      [] at = "auth" -> SftpAuth(s)
      [] at = "exec" -> SftpExec(s)
      [] at = "stat" -> SftpStat(s)
      [] at = "reach" -> FtpReach(s)
      [] at = "login" -> FtpLogin(s)
      [] at = "cwd" -> FtpFolder(s)
      [] at = "stor" -> FtpWrite(s)
      [] at = "dele" -> FtpDelete(s)
      [] at = "shape" -> S3Shape(s)
      [] at = "bucket" -> S3Bucket(s)
      [] at = "list" -> S3List(s)
      [] at = "put" -> S3Put(s)
      [] at = "delete" -> S3Delete(s)
      [] at = "session" -> SmbSession(s)
      [] at = "share" -> SmbShare(s)
      [] at = "write" -> SmbWrite(s)
      [] at = "remove" -> SmbRemove(s)

-----------------------------------------------------------------------------
VARIABLES
    kind,      \* the backend of each configuration
    fault,     \* what is wrong with it
    filter,    \* --backend, "" for all
    turn,      \* the configuration being checked
    at,        \* the probe that comes next
    failed,    \* the configurations a failure has been reported for
    rejected,  \* the deep check has met a refused login
    sentinel,  \* the configurations whose remote holds the sentinel object
    blips,     \* calls that failed although nothing was wrong
    exit       \* how doctor ended

world == <<kind, fault, filter>>
doctorVars == <<kind, fault, filter, turn, at, failed, rejected, sentinel, blips, exit>>

Stage == {"load", "turn", "credentials", "token", "connect", "files", "deep", "project",
          "manifest", "done", "raised", "exit"}

DoctorInit ==
    /\ kind \in {f \in [Config -> Kind] : \A c \in Config \ {0} : f[c] \in MirrorKind}
    /\ fault \in {f \in [Config -> UNION {Fault(k) : k \in Kind}] :
                      \A c \in Config : f[c] \in Fault(kind[c])}
    /\ filter \in {""} \cup {kind[c] : c \in Config}
    /\ turn = 0
    /\ at = "load"
    /\ failed = {}
    /\ rejected = FALSE
    /\ sentinel = {}
    /\ blips = 0
    /\ exit = ""

\* The primary has to load; mirrors that do not are reported and left out.
LoadConfigs ==
    /\ at = "load"
    /\ IF fault[0] = "no_config"
       THEN /\ failed' = {0}
            /\ at' = "exit"
       ELSE /\ failed' = {c \in Config : fault[c] = "no_config"}
            /\ at' = "turn"
    /\ UNCHANGED <<world, turn, rejected, sentinel, blips, exit>>

Wanted(c) == fault[c] # "no_config" /\ filter \in {"", kind[c]}

\* Mutant: the loop is left where a backend is to be passed over.
TakeTurnOrLeave ==
    /\ at = "turn"
    /\ rejected' = FALSE
    /\ at' = IF Wanted(turn) THEN "credentials" ELSE "exit"
    /\ UNCHANGED <<world, turn, failed, sentinel, blips, exit>>

TakeTurn ==
    /\ at = "turn"
    /\ rejected' = FALSE
    /\ at' = IF Wanted(turn) THEN "credentials" ELSE "done"
    /\ UNCHANGED <<world, turn, failed, sentinel, blips, exit>>

\* Mutant: one turn too many.
EndTurnPast ==
    /\ at = "done"
    /\ IF turn > Mirrors
       THEN at' = "exit" /\ UNCHANGED turn
       ELSE at' = "turn" /\ turn' = turn + 1
    /\ UNCHANGED <<world, failed, rejected, sentinel, blips, exit>>

\* The next configuration, or the end.
EndTurn ==
    /\ at = "done"
    /\ IF turn = Mirrors
       THEN at' = "exit" /\ UNCHANGED turn
       ELSE at' = "turn" /\ turn' = turn + 1
    /\ UNCHANGED <<world, failed, rejected, sentinel, blips, exit>>

\* What is done about a result.
Conclude(r) ==
    /\ at' = r.next
    /\ failed' = IF r.say \in {"fail", "auth"} THEN failed \cup {turn} ELSE failed
    /\ rejected' = (rejected \/ r.say = "auth")
    /\ sentinel' = CASE r.sentinel = "put" -> sentinel \cup {turn}
                     [] r.sentinel = "gone" -> sentinel \ {turn}
                     [] OTHER -> sentinel
    /\ UNCHANGED <<world, turn, exit>>

\* A probe that stays on this machine sees what is wrong, or that nothing is.
Local(results) == (\E r \in results : Conclude(r)) /\ UNCHANGED blips

\* Probes that go over a session that is logged in already, or that need no login.
InSession == {"host_key", "exec", "stat", "reach", "cwd", "stor", "dele", "share", "write", "remove"}

\* A call may besides find the network down or the login refused.
Calls ==
    LET Results(s) == IF at = "connect" THEN Connect(kind[turn], s) ELSE Probe(at, s)
    IN \/ /\ \E r \in Results(fault[turn]) : Conclude(r)
          /\ UNCHANGED blips
       \/ /\ blips < MaxBlips
          /\ blips' = blips + 1
          /\ \E s \in {"unreachable"} \cup (IF at \in InSession THEN {} ELSE {"revoked"}) :
                 \E r \in Results(s) : Conclude(r)

CheckCredentials == at = "credentials" /\ Local(Credentials(kind[turn], fault[turn]))

CheckToken == at = "token" /\ Local(Token(kind[turn], fault[turn]))

CheckConnectivity == at = "connect" /\ Calls

CheckSftpFiles == at = "files" /\ Local(SftpFiles(fault[turn]))

BeginDeep ==
    /\ at = "deep"
    /\ at' = FirstDeep[kind[turn]]
    /\ UNCHANGED <<world, turn, failed, rejected, sentinel, blips, exit>>

DeepProbe ==
    \/ at \in DeepLocal /\ Local(Probe(at, fault[turn]))
    \/ at \in DeepCall /\ Calls

CheckProject == at = "project" /\ Local(Project(fault[turn]))

CheckManifest == at = "manifest" /\ Local(Manifest(fault[turn]))

\* The exit code, or the traceback of an exception nobody took.
Exit ==
    /\ at \in {"exit", "raised"}
    /\ exit = ""
    /\ exit' = IF at = "raised" THEN "traceback" ELSE IF failed = {} THEN "passed" ELSE "issues"
    /\ UNCHANGED <<world, turn, at, failed, rejected, sentinel, blips>>

DoctorNext ==
    \/ LoadConfigs \/ TakeTurn \/ EndTurn
    \/ CheckCredentials \/ CheckToken \/ CheckConnectivity \/ CheckSftpFiles
    \/ BeginDeep \/ DeepProbe
    \/ CheckProject \/ CheckManifest
    \/ Exit

DoctorSpec == DoctorInit /\ [][DoctorNext]_doctorVars

-----------------------------------------------------------------------------
\* The variables have their types; the sentinel is only put by those that delete it.
DoctorTypeOK ==
    /\ kind \in [Config -> Kind]
    /\ \A c \in Config : fault[c] \in Fault(kind[c])
    /\ filter \in Kind \cup {""}
    /\ turn \in Config
    /\ at \in Stage \cup Deep
    /\ failed \subseteq Config
    /\ rejected \in BOOLEAN
    /\ sentinel \subseteq {c \in Config : kind[c] \in {"ftp", "s3", "smb"}}
    /\ blips \in 0 .. MaxBlips
    /\ exit \in {"", "passed", "issues", "traceback"}

\* What doctor means to pass over: no notifications, a sentinel it cannot delete
\* again, webdav without a token file or on a server that tells little, a key only
\* the agent holds.
Harmless(k) ==
    {"none", "no_delete"} \cup
    CASE k = "googledrive" -> {"pubsub_unset", "no_pubsub_scope"}
      [] k = "webdav" -> {"no_token", "bare_server"}
      [] k = "sftp" -> {"agent_only"}
      [] OTHER -> {}

Ended == exit \in {"passed", "issues"}
Loaded == fault[0] # "no_config"

\* Whatever is wrong with a configuration that was to be checked is reported, by one
\* probe or another and whatever the other configurations suffer from: the listings
\* that take a refusal for an empty folder are made up for by the deep checks.
BrokenIsFound ==
    Ended => \A c \in Config :
        /\ Wanted(c) /\ Loaded /\ fault[c] \notin Harmless(kind[c]) => c \in failed
        /\ fault[c] = "no_config" /\ (Loaded \/ c = 0) => c \in failed

\* A configuration nothing is wrong with is not reported when no call failed.  Two
\* are, and are left out here: OneDrive, whose token file never has the refresh
\* token that is asked for, and an SFTP login that needs the agent.
NoFalseAlarm ==
    Ended /\ blips = 0 => \A c \in failed :
        \/ fault[c] \notin Harmless(kind[c])
        \/ kind[c] = "onedrive"
        \/ fault[c] = "agent_only"

\* After a login has been refused the deep check makes no further call: repeated
\* failures lock accounts, and would report one cause twice.
RefusalEndsDeepCheck == rejected => at \notin Deep

\* The sentinel object, which the next sync would take for a file of the project, is
\* gone when doctor ends, unless the remote would not delete it or broke off.
SentinelRemoved ==
    exit # "" /\ blips = 0 => \A c \in sentinel : fault[c] \in {"no_delete", "disk_full"}
=============================================================================
