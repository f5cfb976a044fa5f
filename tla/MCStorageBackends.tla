-------------------------- MODULE MCStorageBackends --------------------------
(* Two threads, of one process or of two, and two attempts for an upload.       *)
EXTENDS StorageBackends, TLC

CONSTANTS f1, f2
MCFile == {f1, f2}
MCKind == {"googledrive", "dropbox", "onedrive", "webdav", "s3", "sftp", "ftp", "smb"}
MCSymmetry == Permutations(Uploader) \cup Permutations(Process) \cup Permutations(MCFile)
==============================================================================
