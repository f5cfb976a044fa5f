----------------------- MODULE StorageBackends_proofs -----------------------
(* Theorems about StorageBackends.                                           *)
(*                                                                           *)
(* The inductive invariants are built up in this order, each on those before: *)
(* Typed and Shapes (which calls and objects a backend has), TempsOwned,      *)
(* Disputed, Places, Ids and Contents (what is at the path of a call),        *)
(* WholeOrKnown, Folders and Singles (one object per path), Reading, Listed.  *)
(* The lemmas ...Does say what an action changes.                            *)
EXTENDS StorageBackends, FiniteSetTheorems, TLAPS

-----------------------------------------------------------------------------
(* The inductive invariant.                                                  *)

ListingType ==
    [pc : {"idle", "root", "folders", "done", "raised"}, todo : SUBSET FolderId,
     found : SUBSET (File \X BOOLEAN), steady : SUBSET File, skipped : BOOLEAN]

\* TypeOK; a call has a file, and so has a download.
Typed ==
    /\ TypeOK
    /\ listing \in ListingType
    /\ \A w \in Uploader : Busy(w) => call[w].name \in File
    /\ reader.pc # "idle" => reader.node \in Node /\ reader.name \in File

USE BoundAssumption

LEMMA NodesNat == MaxNodes \in Nat
  BY DEF MaxNodes

LEMMA TypesOfCalls ==
    /\ NoCall \in Call
    /\ \A c \in Call : PathOf(c) = <<c.dir = Snapshots, c.name>>
    /\ \A c \in Call : c.name \in File => PathOf(c) \in Path
  <1> USE NodesNat DEF Snapshots, FolderId
  <1>1. NoCall \in Call BY DEF NoCall, Call, Content
  <1>2. \A c \in Call : PathOf(c) = <<c.dir = Snapshots, c.name>> BY DEF PathOf
  <1>3. ASSUME NEW c \in Call, c.name \in File PROVE PathOf(c) \in Path
    <2>1. CASE c.dir = 0
      <3>1. PathOf(c) = PathOf([dir |-> 0, name |-> c.name]) BY <2>1 DEF PathOf
      <3> QED BY <1>3, <3>1 DEF Path
    <2>2. CASE c.dir # 0
      <3>1. PathOf(c) = PathOf([dir |-> 1, name |-> c.name]) BY <2>2 DEF PathOf
      <3> QED BY <1>3, <3>1 DEF Path
    <2> QED BY <2>1, <2>2
  <1> QED BY <1>1, <1>2, <1>3

LEMMA TypedInit == Init => Typed
  <1> SUFFICES ASSUME Init PROVE Typed OBVIOUS
  <1>1. data \in [Node -> Content] BY DEF Init, Content
  <1>2. reader \in [pc : {"idle", "first", "second", "done"}, node : 0..MaxNodes,
                   name : File \cup {NoFile}, got : Content]
    BY NodesNat DEF Init, NoReader, Content
  <1>3. listing \in ListingType BY DEF Init, NoListing, ListingType
  <1>4. call \in [Uploader -> Call] BY TypesOfCalls DEF Init
  <1>5. /\ kind \in Kind /\ host \in [Uploader -> Process] /\ cache \in [Process -> {0} \cup FolderId]
        /\ obj \subseteq Object /\ folder \subseteq FolderId
        /\ pending \subseteq [name : File, want : Content]
        /\ overlap \subseteq Path \cup {FolderPath} /\ broken \subseteq Path
        /\ left \subseteq Path /\ blind \in BOOLEAN
    BY DEF Init
  <1>6. used \in 0..MaxNodes /\ calls \in 0..MaxCalls /\ faults \in 0..MaxFaults
    BY NodesNat DEF Init
  <1>7. TypeOK BY <1>1, <1>2, <1>3, <1>4, <1>5, <1>6 DEF TypeOK, ListingType
  <1> QED BY <1>3, <1>7 DEF Init, Typed, Busy, NoCall, NoReader

LEMMA BecomesTyped ==
    ASSUME Typed, NEW w \in Uploader, NEW d \in Call, d.pc # "idle" => d.name \in File, Becomes(w, d)
    PROVE  call' \in [Uploader -> Call] /\ \A x \in Uploader : Busy(x)' => call'[x].name \in File
  <1>1. call \in [Uploader -> Call] /\ \A x \in Uploader : call[x].pc # "idle" => call[x].name \in File
    BY DEF Typed, TypeOK, Busy
  <1>2. call' = [call EXCEPT ![w] = d] BY DEF Becomes
  <1> HIDE DEF Call
  <1> QED BY <1>1, <1>2 DEF Busy

LEMMA StoreTyped ==
    ASSUME Typed, NEW old, NEW x \in Object, NEW c \in Content, Store(old, x, c)
    PROVE  /\ obj' \subseteq Object /\ data' \in [Node -> Content]
           /\ used' \in Node /\ used' \in 0..MaxNodes /\ used' = used + 1
  <1>1. obj \subseteq Object /\ data \in [Node -> Content] /\ used \in 0..MaxNodes
    BY DEF Typed, TypeOK
  <1>2. used + 1 \in Node /\ used + 1 \in 0..MaxNodes BY <1>1, NodesNat DEF Store, Node
  <1>3. [x EXCEPT !.node = used + 1] \in Object BY <1>2 DEF Object
  <1> QED BY <1>1, <1>2, <1>3 DEF Store

LEMMA ObjectOfTyped ==
    ASSUME Typed, NEW c \in Call, c.name \in File, NEW t \in BOOLEAN, used < MaxNodes
    PROVE  /\ ObjectOf(c, t) \in Object
           /\ [ObjectOf(c, t) EXCEPT !.id = used + 1] \in Object
  <1>1. used \in 0..MaxNodes BY DEF Typed, TypeOK
  <1> QED BY <1>1, NodesNat DEF ObjectOf, Object, Call, Node

-----------------------------------------------------------------------------
(* Type correctness, action by action.                                       *)

LEMMA BeginUploadTyped ==
    ASSUME Typed, NEW w \in Uploader, NEW f \in File, BeginUpload(w, f) PROVE Typed'
  <1> DEFINE c == [NoCall EXCEPT !.name = f, !.want = [b \in 1..2 |-> calls + 1]]
  <1>0. calls \in 0..MaxCalls BY DEF Typed, TypeOK
  <1>b. calls < MaxCalls BY DEF BeginUpload, MayBegin
  <1>1. calls + 1 \in 0..MaxCalls BY <1>0, <1>b
  <1>a. [b \in 1..2 |-> calls + 1] \in Content BY <1>1 DEF Content
  <1>2. c \in Call /\ c.name = f BY <1>a, TypesOfCalls DEF Call
  <1>3. [c EXCEPT !.pc = "resolve"] \in Call /\ [c EXCEPT !.pc = "resolve"].name = f
    BY <1>2 DEF Call
  <1>4. ASSUME NEW o \in obj
        PROVE  LET d == [c EXCEPT !.pc = "put", !.known = TRUE, !.id = o.id, !.dir = o.dir]
               IN d \in Call /\ d.name = f
    BY <1>2, <1>4 DEF Call, Typed, TypeOK, Object
  <1>5. call' \in [Uploader -> Call] /\ \A x \in Uploader : Busy(x)' => call'[x].name \in File
    BY <1>3, <1>4, BecomesTyped DEF BeginUpload, At
  <1>6. PathOf(c) \in Path BY <1>2, TypesOfCalls
  <1>7. overlap' \subseteq Path \cup {FolderPath} BY <1>6 DEF BeginUpload, Overlaps, Typed, TypeOK
  <1>8. blind' \in BOOLEAN BY DEF BeginUpload, Typed, TypeOK
  <1> QED BY <1>1, <1>5, <1>7, <1>8 DEF Typed, TypeOK, BeginUpload

LEMMA BeginCopyTyped ==
    ASSUME Typed, NEW w \in Uploader, NEW o \in Files, BeginCopy(w, o) PROVE Typed'
  <1> DEFINE c == [NoCall EXCEPT !.name = o.name, !.op = "copy", !.dir = Snapshots, !.pc = "put",
                            !.want = data[o.node], !.direct = (kind = "sftp")]
  <1>1. calls + 1 \in 0..MaxCalls BY DEF Typed, TypeOK, BeginCopy, MayBegin
  <1>2. o.name \in File /\ data[o.node] \in Content BY DEF Files, Object, Typed, TypeOK
  <1>3. c \in Call /\ c.name \in File BY <1>2, TypesOfCalls DEF Call, NoCall
  <1>4. call' \in [Uploader -> Call] /\ \A x \in Uploader : Busy(x)' => call'[x].name \in File
    BY <1>3, BecomesTyped DEF BeginCopy
  <1>5. PathOf(c) \in Path BY <1>3, TypesOfCalls
  <1>6. overlap' \subseteq Path \cup {FolderPath} BY <1>5 DEF BeginCopy, Overlaps, Typed, TypeOK
  <1> QED BY <1>1, <1>4, <1>6 DEF Typed, TypeOK, BeginCopy

\* What a call becomes while it finds the folder, writes, fails and ends.
PC == {"idle", "resolve", "query", "create", "put", "first", "second",
       "publish", "cleanup", "waiting", "ok", "failed"}

LEMMA CallBecomes ==
    ASSUME NEW c \in Call
    PROVE  /\ \A pc \in PC : [c EXCEPT !.pc = pc] \in Call
           /\ \A pc \in PC, d \in FolderId : [c EXCEPT !.pc = pc, !.dir = d] \in Call
           /\ \A pc \in PC, e \in Condition \cup {"none"} : [c EXCEPT !.pc = pc, !.cond = e] \in Call
           /\ \A pc \in PC, e \in Condition \cup {"none"} : [c EXCEPT !.cond = e, !.pc = pc] \in Call
           /\ \A pc \in PC, n \in 0..MaxNodes : [c EXCEPT !.pc = pc, !.node = n] \in Call
           /\ \A pc \in PC, l \in BOOLEAN : [c EXCEPT !.pc = pc, !.late = l] \in Call
           /\ \A pc \in PC, l \in BOOLEAN : [c EXCEPT !.pc = pc, !.direct = l] \in Call
           /\ \A pc \in PC, t \in 0..(MaxAttempts - 1), e \in Condition \cup {"none"} :
                [c EXCEPT !.pc = pc, !.tries = t, !.cond = e] \in Call
  <1> USE DEF Call, PC
  <1>1. \A pc \in PC : [c EXCEPT !.pc = pc] \in Call OBVIOUS
  <1>2. \A pc \in PC, d \in FolderId : [c EXCEPT !.pc = pc, !.dir = d] \in Call OBVIOUS
  <1>3. \A pc \in PC, e \in Condition \cup {"none"} : [c EXCEPT !.pc = pc, !.cond = e] \in Call
    OBVIOUS
  <1>4. \A pc \in PC, e \in Condition \cup {"none"} : [c EXCEPT !.cond = e, !.pc = pc] \in Call
    OBVIOUS
  <1>5. \A pc \in PC, n \in 0..MaxNodes : [c EXCEPT !.pc = pc, !.node = n] \in Call OBVIOUS
  <1>6. \A pc \in PC, l \in BOOLEAN : [c EXCEPT !.pc = pc, !.late = l] \in Call OBVIOUS
  <1>7. \A pc \in PC, l \in BOOLEAN : [c EXCEPT !.pc = pc, !.direct = l] \in Call OBVIOUS
  <1>8. ASSUME NEW pc \in PC, NEW t \in 0..(MaxAttempts - 1), NEW e \in Condition \cup {"none"}
        PROVE  [c EXCEPT !.pc = pc, !.tries = t, !.cond = e] \in Call
    OBVIOUS
  <1> HIDE DEF Call, PC
  <1> QED BY <1>1, <1>2, <1>3, <1>4, <1>5, <1>6, <1>7, <1>8

\* A step of one call that leaves the objects alone.
LEMMA CallTyped ==
    ASSUME Typed, NEW w \in Uploader, NEW d \in Call, d.pc # "idle" => d.name \in File, Becomes(w, d),
           folder' \subseteq FolderId, cache' \in [Process -> {0} \cup FolderId],
           overlap' \subseteq Path \cup {FolderPath}, broken' \subseteq Path, left' \subseteq Path,
           blind' \in BOOLEAN, pending' \subseteq [name : File, want : Content],
           faults' \in 0..MaxFaults, calls' \in 0..MaxCalls,
           UNCHANGED <<kind, host, obj, data, used, reader, listing>>
    PROVE  Typed'
  <1>1. call' \in [Uploader -> Call] /\ \A x \in Uploader : Busy(x)' => call'[x].name \in File
    BY BecomesTyped
  <1> QED BY <1>1 DEF Typed, TypeOK

LEMMA FindFolderTyped ==
    ASSUME Typed, NEW w \in Uploader, FindFolder(w) PROVE Typed'
  <1> DEFINE c == call[w]
  <1>1. c \in Call /\ (c.pc # "idle" => c.name \in File) BY DEF Typed, TypeOK, Busy
  <1>a. /\ \A pc \in PC : [c EXCEPT !.pc = pc].name = c.name
        /\ \A pc \in PC, d \in FolderId : [c EXCEPT !.pc = pc, !.dir = d].name = c.name
        /\ [c EXCEPT !.pc = "failed", !.cond = "network"].name = c.name
    BY <1>1 DEF Call
  <1>b. /\ \A pc \in PC : [c EXCEPT !.pc = pc] \in Call
        /\ \A pc \in PC, d \in FolderId : [c EXCEPT !.pc = pc, !.dir = d] \in Call
        /\ [c EXCEPT !.pc = "failed", !.cond = "network"] \in Call
    BY <1>1, CallBecomes DEF PC, Condition
  <1>2. /\ \A pc \in PC : [c EXCEPT !.pc = pc] \in Call /\ [c EXCEPT !.pc = pc].name = c.name
        /\ \A pc \in PC, d \in FolderId : /\ [c EXCEPT !.pc = pc, !.dir = d] \in Call
                                          /\ [c EXCEPT !.pc = pc, !.dir = d].name = c.name
        /\ [c EXCEPT !.pc = "failed", !.cond = "network"] \in Call
        /\ [c EXCEPT !.pc = "failed", !.cond = "network"].name = c.name
    BY <1>a, <1>b
  <1>3. /\ folder \subseteq FolderId /\ cache \in [Process -> {0} \cup FolderId]
        /\ host \in [Uploader -> Process] /\ overlap \subseteq Path \cup {FolderPath}
        /\ broken \subseteq Path /\ left \subseteq Path /\ blind \in BOOLEAN
        /\ pending \subseteq [name : File, want : Content]
        /\ faults \in 0..MaxFaults /\ calls \in 0..MaxCalls
    BY DEF Typed, TypeOK
  <1>4. CASE Resolve(w)
    <2>1. folder' \subseteq FolderId BY <1>3, <1>4 DEF Resolve, FolderId
    <2> QED BY <1>1, <1>2, <1>3, <1>4, <2>1, CallTyped DEF Resolve, PC
  <1>5. CASE LookInCache(w)
    <2>1. cache[host[w]] # 0 => cache[host[w]] \in FolderId BY <1>3
    <2> QED BY <1>1, <1>2, <1>3, <1>5, <2>1, CallTyped DEF LookInCache, PC
  <1>6. CASE QueryFolder(w)
    <2>1. /\ \/ Becomes(w, [c EXCEPT !.pc = "create"]) /\ UNCHANGED cache
             \/ \E d \in folder : /\ Becomes(w, [c EXCEPT !.pc = "put", !.dir = d])
                                  /\ cache' = [cache EXCEPT ![host[w]] = d]
          /\ c.pc # "idle"
          /\ overlap' \subseteq overlap \cup {FolderPath}
          /\ UNCHANGED <<kind, host, obj, data, used, folder, pending, reader, listing, calls, faults,
                         broken, left, blind>>
      BY <1>6 DEF QueryFolder
    <2>2. cache' \in [Process -> {0} \cup FolderId]
      <3>1. cache' = cache \/ \E d \in FolderId : cache' = [cache EXCEPT ![host[w]] = d] BY <1>3, <2>1
      <3> QED BY <1>3, <3>1
    <2>3. \E d \in Call : d.name = c.name /\ Becomes(w, d) BY <1>1, <1>2, <1>3, <2>1 DEF PC
    <2>4. PICK d \in Call : d.name = c.name /\ Becomes(w, d) BY <2>3
    <2>5. c.name \in File BY <1>1, <2>1
    <2>6. /\ overlap' \subseteq Path \cup {FolderPath} /\ folder' \subseteq FolderId /\ broken' \subseteq Path
          /\ left' \subseteq Path /\ blind' \in BOOLEAN
          /\ pending' \subseteq [name : File, want : Content]
          /\ faults' \in 0..MaxFaults /\ calls' \in 0..MaxCalls
      BY <1>3, <2>1
    <2> QED BY <2>1, <2>2, <2>4, <2>5, <2>6, CallTyped
  <1>7. CASE CreateFolder(w)
    <2> DEFINE d == Cardinality(folder) + 1
    <2>1. d \in FolderId /\ folder' = folder \cup {d} BY <1>7 DEF CreateFolder
    <2>2. folder' \subseteq FolderId BY <2>1, <1>3
    <2>3. CASE Becomes(w, [c EXCEPT !.pc = "put", !.dir = d]) /\ cache' = [cache EXCEPT ![host[w]] = d]
               /\ UNCHANGED faults
      <3> HIDE DEF d
      <3>1. cache' \in [Process -> {0} \cup FolderId] BY <1>3, <2>1, <2>3
      <3> QED BY <1>1, <1>2, <1>3, <1>7, <2>1, <2>2, <2>3, <3>1, CallTyped DEF CreateFolder, PC
    <2>4. CASE Becomes(w, [c EXCEPT !.pc = "failed", !.cond = "network"]) /\ UNCHANGED cache /\ Fault
      <3>1. faults' \in 0..MaxFaults BY <1>3, <2>4 DEF Fault
      <3> QED BY <1>1, <1>2, <1>3, <1>7, <2>2, <2>4, <3>1, CallTyped DEF CreateFolder, PC
    <2> QED BY <1>7, <2>3, <2>4 DEF CreateFolder
  <1> QED BY <1>4, <1>5, <1>6, <1>7 DEF FindFolder, ResolveDropbox, ResolveOneDrive, ResolveWebDAV,
             ResolveSftp, ResolveFtp, ResolveSmb, ResolveS3

\* A step that replaces, writes or drops an object.
LEMMA ObjectTyped ==
    ASSUME Typed, call' \in [Uploader -> Call], \A x \in Uploader : Busy(x)' => call'[x].name \in File,
           obj' \subseteq Object, data' \in [Node -> Content], used' \in 0..MaxNodes,
           broken' \subseteq Path, left' \subseteq Path, blind' \in BOOLEAN, faults' \in 0..MaxFaults,
           pending' \subseteq [name : File, want : Content], UNCHANGED Same
    PROVE  Typed'
  BY DEF Typed, TypeOK, Same

\* What a step of a call starts from, and the fields that it leaves alone.
LEMMA CallFacts ==
    ASSUME Typed, NEW w \in Uploader
    PROVE  /\ call[w] \in Call /\ (call[w].pc # "idle" => call[w].name \in File)
           /\ call[w].want \in Content /\ call[w].name \in File \cup {NoFile}
           /\ \A pc \in PC : [call[w] EXCEPT !.pc = pc] \in Call
           /\ \A pc \in PC : [call[w] EXCEPT !.pc = pc].name = call[w].name
           /\ \A pc \in PC, e \in Condition \cup {"none"} :
                [call[w] EXCEPT !.pc = pc, !.cond = e] \in Call
           /\ \A pc \in PC, e \in Condition \cup {"none"} :
                [call[w] EXCEPT !.pc = pc, !.cond = e].name = call[w].name
           /\ call[w].pc # "idle" => PathOf(call[w]) \in Path
  <1>1. call[w] \in Call /\ (call[w].pc # "idle" => call[w].name \in File)
    BY DEF Typed, TypeOK, Busy
  <1>2. /\ \A pc \in PC : [call[w] EXCEPT !.pc = pc].name = call[w].name
        /\ \A pc \in PC, e \in Condition \cup {"none"} :
              [call[w] EXCEPT !.pc = pc, !.cond = e].name = call[w].name
        /\ call[w].want \in Content /\ call[w].name \in File \cup {NoFile}
    BY <1>1 DEF Call
  <1> QED BY <1>1, <1>2, CallBecomes, TypesOfCalls

LEMMA RestFacts ==
    Typed => /\ folder \subseteq FolderId /\ cache \in [Process -> {0} \cup FolderId]
             /\ host \in [Uploader -> Process] /\ overlap \subseteq Path \cup {FolderPath}
             /\ broken \subseteq Path /\ left \subseteq Path /\ blind \in BOOLEAN
             /\ pending \subseteq [name : File, want : Content]
             /\ faults \in 0..MaxFaults /\ calls \in 0..MaxCalls
             /\ obj \subseteq Object /\ data \in [Node -> Content] /\ used \in 0..MaxNodes
             /\ (Fault => faults' \in 0..MaxFaults)
  <1> SUFFICES ASSUME Typed PROVE /\ folder \subseteq FolderId /\ cache \in [Process -> {0} \cup FolderId]
             /\ host \in [Uploader -> Process] /\ overlap \subseteq Path \cup {FolderPath}
             /\ broken \subseteq Path /\ left \subseteq Path /\ blind \in BOOLEAN
             /\ pending \subseteq [name : File, want : Content]
             /\ faults \in 0..MaxFaults /\ calls \in 0..MaxCalls
             /\ obj \subseteq Object /\ data \in [Node -> Content] /\ used \in 0..MaxNodes
             /\ (Fault => faults' \in 0..MaxFaults)
    OBVIOUS
  <1>1. faults \in 0..MaxFaults BY DEF Typed, TypeOK
  <1>2. Fault => faults' \in 0..MaxFaults BY <1>1 DEF Fault
  <1> QED BY <1>1, <1>2 DEF Typed, TypeOK

LEMMA CallIs ==
    ASSUME Typed, NEW w \in Uploader
    PROVE  /\ call \in [Uploader -> Call] /\ call[w] \in Call
           /\ call[w].pc \in PC /\ call[w].op \in {"upload", "copy"}
           /\ call[w].dir \in {0, 1, 2} /\ call[w].id \in Nat /\ call[w].node \in Nat
           /\ call[w].known \in BOOLEAN /\ call[w].direct \in BOOLEAN /\ call[w].late \in BOOLEAN
           /\ call[w].want \in Content
           /\ call[w].pc # "idle" => call[w].name \in File
           /\ used \in Nat
  <1>1. call \in [Uploader -> Call] /\ used \in Nat BY NodesNat DEF Typed, TypeOK
  <1>2. call[w] \in Call BY <1>1
  <1>3. /\ call[w].pc \in PC /\ call[w].op \in {"upload", "copy"}
        /\ call[w].known \in BOOLEAN /\ call[w].direct \in BOOLEAN /\ call[w].late \in BOOLEAN
        /\ call[w].want \in Content
    BY <1>2 DEF Call, PC
  <1>4. call[w].dir \in {0, 1, 2} /\ call[w].id \in Nat /\ call[w].node \in Nat
    BY <1>2, NodesNat DEF Call, FolderId, Snapshots
  <1>5. call[w].pc # "idle" => call[w].name \in File BY DEF Typed, Busy
  <1> QED BY <1>1, <1>2, <1>3, <1>4, <1>5

LEMMA ObjectIs ==
    ASSUME Typed, NEW o \in obj
    PROVE  /\ o \in Object /\ o.node \in Node /\ o.node \in Nat /\ o.id \in Nat /\ o.name \in File
           /\ o.dir \in {0, 1, 2} /\ o.temp \in BOOLEAN /\ data[o.node] \in Content
  <1>1. o \in Object /\ data \in [Node -> Content] BY DEF Typed, TypeOK
  <1> QED BY <1>1, NodesNat DEF Object, Node, FolderId, Snapshots

LEMMA RepliedTyped ==
    ASSUME Typed, NEW w \in Uploader, NEW create \in BOOLEAN, Busy(w), Replied(w, call[w], create)
    PROVE  /\ call' \in [Uploader -> Call] /\ \A x \in Uploader : Busy(x)' => call'[x].name \in File
           /\ faults' \in 0..MaxFaults /\ blind' \in BOOLEAN
  <1>1. CASE Becomes(w, [call[w] EXCEPT !.pc = "ok"]) /\ UNCHANGED <<faults, blind>>
    BY <1>1, CallFacts, RestFacts, BecomesTyped DEF PC, Busy
  <1>2. CASE Fault /\ Becomes(w, [call[w] EXCEPT !.pc = "failed", !.cond = "network"])
             /\ blind' = (blind \/ create)
    BY <1>2, CallFacts, RestFacts, BecomesTyped DEF PC, Condition, Busy
  <1> QED BY <1>1, <1>2 DEF Replied

LEMMA OverwriteTyped ==
    ASSUME Typed, NEW w \in Uploader, Overwrite(w) PROVE Typed'
  <1>1. Busy(w) /\ used < MaxNodes /\ Replied(w, call[w], FALSE) /\ UNCHANGED <<Same, left, pending, broken>>
        /\ Store(At(call[w], FALSE), ObjectOf(call[w], FALSE), call[w].want)
    BY DEF Overwrite, Store, Busy
  <1>2. ObjectOf(call[w], FALSE) \in Object /\ call[w].want \in Content
    BY <1>1, CallFacts, ObjectOfTyped DEF Busy
  <1>3. obj' \subseteq Object /\ data' \in [Node -> Content] /\ used' \in 0..MaxNodes
    BY <1>1, <1>2, StoreTyped
  <1> QED BY <1>1, <1>3, RepliedTyped, ObjectTyped, RestFacts

LEMMA PutGoogleDriveTyped ==
    ASSUME Typed, NEW w \in Uploader, PutGoogleDrive(w) PROVE Typed'
  <1> DEFINE c == call[w]
             old == {o \in obj : o.id = c.id /\ c.known}
             x == IF c.known THEN CHOOSE o \in old : TRUE
                  ELSE [ObjectOf(c, FALSE) EXCEPT !.id = used + 1]
  <1>1. Busy(w) BY DEF PutGoogleDrive, Busy
  <1>2. CASE c.known /\ old = {}
    <2>1. Becomes(w, [c EXCEPT !.pc = "failed", !.cond = "missing"])
          /\ UNCHANGED <<Same, left, obj, data, used, pending, broken, faults, blind>>
      BY <1>2 DEF PutGoogleDrive
    <2>2. call' \in [Uploader -> Call] /\ \A v \in Uploader : Busy(v)' => call'[v].name \in File
      BY <1>1, <2>1, CallFacts, BecomesTyped DEF PC, Condition, Busy
    <2> QED BY <2>1, <2>2, ObjectTyped, RestFacts
  <1>3. CASE ~(c.known /\ old = {})
    <2>1. /\ Store(old, x, c.want) /\ Replied(w, c, ~c.known) /\ UNCHANGED <<Same, left, pending, broken>>
          /\ used < MaxNodes
      BY <1>3 DEF PutGoogleDrive, Store
    <2>2. x \in Object
      <3>1. CASE c.known
        <4>1. old # {} /\ old \subseteq Object BY <1>3, <3>1, RestFacts
        <4> QED BY <3>1, <4>1
      <3>2. CASE ~c.known BY <1>1, <2>1, <3>2, CallFacts, ObjectOfTyped DEF Busy
      <3> QED BY <3>1, <3>2
    <2> HIDE DEF x, old
    <2>3. obj' \subseteq Object /\ data' \in [Node -> Content] /\ used' \in 0..MaxNodes
      BY <2>1, <2>2, CallFacts, StoreTyped
    <2>4. c.known \in BOOLEAN BY CallFacts DEF Call
    <2> QED BY <1>1, <2>1, <2>3, <2>4, RepliedTyped, ObjectTyped, RestFacts
  <1> QED BY <1>2, <1>3

LEMMA OpenTyped ==
    ASSUME Typed, NEW w \in Uploader, Open(w) PROVE Typed'
  <1> DEFINE c == call[w]
             there == At(c, ~InPlace(c))
  <1>1. c.pc = "put" /\ c.name \in File /\ c \in Call /\ Busy(w)
        /\ UNCHANGED <<Same, left, pending, broken, faults, blind>>
    BY CallFacts DEF Open, Busy
  <1>2. NoCall.want \in Content BY DEF NoCall, Content
  <1>a. \A n \in 0..MaxNodes : [c EXCEPT !.pc = "first", !.node = n].name = c.name
    BY <1>1 DEF Call
  <1>b. \A n \in 0..MaxNodes : [c EXCEPT !.pc = "first", !.node = n] \in Call
    BY <1>1, CallBecomes DEF PC
  <1>3. \A n \in 0..MaxNodes : [c EXCEPT !.pc = "first", !.node = n] \in Call
                               /\ [c EXCEPT !.pc = "first", !.node = n].name = c.name
    BY <1>a, <1>b
  <1>4. CASE Store({}, ObjectOf(c, ~InPlace(c)), NoCall.want)
             /\ Becomes(w, [c EXCEPT !.pc = "first", !.node = used + 1])
    <2>1. used < MaxNodes BY <1>4 DEF Store
    <2>2. ObjectOf(c, ~InPlace(c)) \in Object BY <1>1, <2>1, ObjectOfTyped DEF InPlace, Call
    <2>3. obj' \subseteq Object /\ data' \in [Node -> Content] /\ used' \in 0..MaxNodes /\ used' = used + 1
      BY <1>2, <1>4, <2>2, StoreTyped
    <2>4. call' \in [Uploader -> Call] /\ \A v \in Uploader : Busy(v)' => call'[v].name \in File
      BY <1>1, <1>3, <1>4, <2>3, BecomesTyped
    <2> QED BY <1>1, <2>3, <2>4, ObjectTyped, RestFacts
  <1>5. ASSUME NEW o \in there, data' = [data EXCEPT ![o.node] = NoCall.want],
               Becomes(w, [c EXCEPT !.pc = "first", !.node = o.node]), UNCHANGED <<obj, used>>
        PROVE  Typed'
    <2>1. o.node \in 0..MaxNodes BY <1>5, RestFacts, NodesNat DEF At, Object, Node
    <2>2. call' \in [Uploader -> Call] /\ \A v \in Uploader : Busy(v)' => call'[v].name \in File
      BY <1>1, <1>3, <1>5, <2>1, BecomesTyped
    <2>3. data' \in [Node -> Content] BY <1>2, <1>5, RestFacts
    <2> QED BY <1>1, <1>5, <2>2, <2>3, ObjectTyped, RestFacts
  <1> QED BY <1>4, <1>5 DEF Open

LEMMA WriteBlockTyped ==
    ASSUME Typed, NEW w \in Uploader, WriteBlock(w) PROVE Typed'
  <1> DEFINE c == call[w]
             b == IF c.pc = "first" THEN 1 ELSE 2
  <1>a. c.want \in Content BY CallFacts
  <1>1. Busy(w) /\ c.want \in Content /\ b \in 1..2 BY <1>a DEF WriteBlock, Busy
  <1>2. data' \in [Node -> Content]
    <2>1. data' = [data EXCEPT ![c.node] = [data[c.node] EXCEPT ![b] = c.want[b]]] BY DEF WriteBlock
    <2>2. CASE c.node \in Node
      <3>1. data[c.node] \in Content BY <2>2, RestFacts
      <3>2. [data[c.node] EXCEPT ![b] = c.want[b]] \in Content BY <1>1, <3>1 DEF Content
      <3> QED BY <2>1, <3>2, RestFacts
    <2>3. CASE c.node \notin Node BY <2>1, <2>3, RestFacts
    <2> QED BY <2>2, <2>3
  <1>3. call' \in [Uploader -> Call] /\ \A v \in Uploader : Busy(v)' => call'[v].name \in File
    BY <1>1, CallFacts, BecomesTyped DEF WriteBlock, PC, Busy
  <1> QED BY <1>2, <1>3, ObjectTyped, RestFacts DEF WriteBlock

LEMMA RenameTyped ==
    ASSUME Typed, NEW w \in Uploader, Rename(w) PROVE Typed'
  <1> DEFINE c == call[w]
             temp == At(c, TRUE)
  <1>1. c.pc = "publish" /\ Busy(w) /\ UNCHANGED <<Same, left, data, used, pending, broken, blind>>
    BY DEF Rename, Busy
  <1>2. CASE Becomes(w, [c EXCEPT !.pc = "cleanup", !.cond = "missing"]) /\ UNCHANGED <<obj, faults>>
    <2>1. call' \in [Uploader -> Call] /\ \A v \in Uploader : Busy(v)' => call'[v].name \in File
      BY <1>1, <1>2, CallFacts, BecomesTyped DEF PC, Condition, Busy
    <2> QED BY <1>1, <1>2, <2>1, ObjectTyped, RestFacts
  <1>3. ASSUME NEW o \in temp,
               obj' = (obj \ (temp \cup At(c, FALSE))) \cup {[o EXCEPT !.temp = FALSE]},
               \/ Becomes(w, [c EXCEPT !.pc = "ok"]) /\ UNCHANGED faults
               \/ Fault /\ Becomes(w, [c EXCEPT !.pc = "cleanup", !.cond = "network"])
        PROVE  Typed'
    <2>1. call' \in [Uploader -> Call] /\ \A v \in Uploader : Busy(v)' => call'[v].name \in File
      BY <1>1, <1>3, CallFacts, BecomesTyped DEF PC, Condition, Busy
    <2>2. faults' \in 0..MaxFaults BY <1>3, RestFacts
    <2>3. o \in Object BY RestFacts DEF At
    <2>4. [o EXCEPT !.temp = FALSE] \in Object BY <2>3 DEF Object
    <2>5. obj' \subseteq Object BY <1>3, <2>4, RestFacts
    <2> QED BY <1>1, <2>1, <2>2, <2>5, ObjectTyped, RestFacts
  <1> QED BY <1>2, <1>3 DEF Rename

LEMMA CloseTyped ==
    ASSUME Typed, NEW w \in Uploader, Close(w) PROVE Typed'
  <1>1. call' \in [Uploader -> Call] /\ \A v \in Uploader : Busy(v)' => call'[v].name \in File
    BY CallFacts, BecomesTyped DEF Close, PC, Busy
  <1>2. broken' \subseteq Path BY RestFacts DEF Close
  <1> QED BY <1>1, <1>2, ObjectTyped, RestFacts DEF Close

LEMMA CleanupTyped ==
    ASSUME Typed, NEW w \in Uploader, Cleanup(w) PROVE Typed'
  <1>1. call' \in [Uploader -> Call] /\ \A v \in Uploader : Busy(v)' => call'[v].name \in File
    BY CallFacts, BecomesTyped DEF Cleanup, PC, Busy
  <1>2. obj' \subseteq Object /\ left' \subseteq Path /\ faults' \in 0..MaxFaults
    BY CallFacts, RestFacts DEF Cleanup
  <1> QED BY <1>1, <1>2, ObjectTyped, RestFacts DEF Cleanup

LEMMA WaitTyped ==
    ASSUME Typed, NEW w \in Uploader, PostCopy(w) \/ WaitForCopy(w) PROVE Typed'
  <1> DEFINE c == call[w]
             q == [name |-> c.name, want |-> c.want]
  <1>1. CASE PostCopy(w)
    <2>1. call' \in [Uploader -> Call] /\ \A v \in Uploader : Busy(v)' => call'[v].name \in File
      BY <1>1, CallFacts, BecomesTyped DEF PostCopy, PC, Busy
    <2>a. c.want \in Content /\ c.name \in File BY <1>1, CallFacts DEF PostCopy
    <2>b. pending \subseteq [name : File, want : Content] BY RestFacts
    <2>2. pending' \subseteq [name : File, want : Content] BY <1>1, <2>a, <2>b DEF PostCopy
    <2> QED BY <1>1, <2>1, <2>2, ObjectTyped, RestFacts DEF PostCopy
  <1>2. CASE WaitForCopy(w)
    <2>1. Busy(w) /\ UNCHANGED <<Same, left, obj, data, used, broken, blind>> BY <1>2 DEF WaitForCopy, Busy
    <2>2. CASE Becomes(w, [c EXCEPT !.pc = "ok", !.late = (q \in pending)]) /\ UNCHANGED <<pending, faults>>
      <3> DEFINE l == q \in pending
                 d == [c EXCEPT !.pc = "ok", !.late = l]
      <3>l. l \in BOOLEAN OBVIOUS
      <3>a. c \in Call /\ l \in BOOLEAN BY <3>l, CallFacts
      <3> HIDE DEF l
      <3>b. d.name = c.name BY <3>a DEF Call
      <3>c. d \in Call BY <3>a, CallBecomes DEF PC
      <3>1. d \in Call /\ d.name = c.name BY <3>b, <3>c
      <3>2. call' \in [Uploader -> Call] /\ \A v \in Uploader : Busy(v)' => call'[v].name \in File
        BY <2>1, <2>2, <3>1, CallFacts, BecomesTyped DEF Busy, l
      <3> QED BY <2>1, <2>2, <3>2, ObjectTyped, RestFacts
    <2>3. CASE /\ Fault /\ Becomes(w, [c EXCEPT !.pc = "failed", !.cond = "odd"])
               /\ pending' = pending \ {q}
      <3>1. call' \in [Uploader -> Call] /\ \A v \in Uploader : Busy(v)' => call'[v].name \in File
        BY <2>1, <2>3, CallFacts, BecomesTyped DEF PC, Condition, Busy
      <3> QED BY <2>1, <2>3, <3>1, ObjectTyped, RestFacts
    <2> QED BY <1>2, <2>2, <2>3 DEF WaitForCopy
  <1> QED BY <1>1, <1>2

LEMMA FailTyped ==
    ASSUME Typed, NEW w \in Uploader, NEW e \in Condition, Fail(w, e) PROVE Typed'
  <1> DEFINE c == call[w]
             cond == IF c.op = "upload" /\ kind \in Retrying THEN e ELSE "none"
             pc == IF kind \in ViaTemp /\ c.pc # "resolve" THEN "cleanup" ELSE "failed"
             d == IF c.direct THEN [c EXCEPT !.pc = "put", !.direct = FALSE]
                  ELSE [c EXCEPT !.cond = cond, !.pc = pc]
  <1>1. /\ Busy(w) /\ Becomes(w, d) /\ Fault
        /\ broken' = IF InPlace(c) /\ c.pc \in {"first", "second", "publish"}
                     THEN broken \cup {PathOf(c)} ELSE broken
        /\ UNCHANGED <<Same, left, obj, data, used, pending, blind>>
    BY DEF Fail, Busy
  <1>2. d \in Call /\ d.name = c.name
    <2>1. cond \in Condition \cup {"none"} /\ pc \in PC BY DEF PC
    <2> HIDE DEF cond, pc
    <2>2. [c EXCEPT !.pc = "put", !.direct = FALSE] \in Call BY CallFacts, CallBecomes DEF PC
    <2>3. [c EXCEPT !.cond = cond, !.pc = pc] \in Call BY <2>1, CallFacts, CallBecomes
    <2>a. c \in Call BY CallFacts
    <2>4. [c EXCEPT !.pc = "put", !.direct = FALSE].name = c.name
          /\ [c EXCEPT !.cond = cond, !.pc = pc].name = c.name
      BY <2>a DEF Call
    <2> QED BY <2>2, <2>3, <2>4
  <1> HIDE DEF d
  <1>3. call' \in [Uploader -> Call] /\ \A v \in Uploader : Busy(v)' => call'[v].name \in File
    BY <1>1, <1>2, CallFacts, BecomesTyped DEF Busy
  <1>4. broken' \subseteq Path BY <1>1, CallFacts, RestFacts
  <1> QED BY <1>1, <1>3, <1>4, ObjectTyped, RestFacts

LEMMA RetryTyped ==
    ASSUME Typed, NEW w \in Uploader, Retry(w) PROVE Typed'
  <1> DEFINE c == call[w]
             pc == IF c.known THEN "put" ELSE "resolve"
             d == [c EXCEPT !.pc = pc, !.tries = c.tries + 1, !.cond = "none"]
  <1>1. Busy(w) /\ Becomes(w, d) /\ c.tries + 1 < MaxAttempts
        /\ UNCHANGED <<Same, left, obj, data, used, pending, broken, faults, blind>>
    BY DEF Retry, WillRetry, Busy
  <1>2. c.tries \in 0..(MaxAttempts - 1) BY CallFacts DEF Call
  <1>3. c.tries + 1 \in 0..(MaxAttempts - 1) BY <1>1, <1>2
  <1>4. pc \in PC BY DEF PC
  <1>5. d \in Call BY <1>3, <1>4, CallFacts, CallBecomes
  <1>a. c \in Call BY CallFacts
  <1>6. d.name = c.name BY <1>a DEF Call
  <1> HIDE DEF d
  <1>7. call' \in [Uploader -> Call] /\ \A v \in Uploader : Busy(v)' => call'[v].name \in File
    BY <1>1, <1>5, <1>6, CallFacts, BecomesTyped DEF Busy
  <1> QED BY <1>1, <1>7, ObjectTyped, RestFacts

LEMMA ReturnTyped ==
    ASSUME Typed, NEW w \in Uploader, Return(w) PROVE Typed'
  <1>1. call' \in [Uploader -> Call] /\ \A v \in Uploader : Busy(v)' => call'[v].name \in File
    BY TypesOfCalls, BecomesTyped DEF Return, NoCall
  <1> QED BY <1>1, ObjectTyped, RestFacts DEF Return

LEMMA CopyLandsTyped ==
    ASSUME Typed, NEW q \in pending, CopyLands(q) PROVE Typed'
  <1> DEFINE x == [NoCall EXCEPT !.dir = Snapshots, !.name = q.name]
  <1>1. q.name \in File /\ q.want \in Content BY RestFacts
  <1>2. x \in Call /\ x.name = q.name BY <1>1, TypesOfCalls DEF Call
  <1> HIDE DEF x
  <1>3. Store(At(x, FALSE), ObjectOf(x, FALSE), q.want) /\ used < MaxNodes /\ pending' = pending \ {q}
        /\ UNCHANGED <<Same, left, call, broken, faults, blind>>
    BY DEF CopyLands, x, Store
  <1>4. ObjectOf(x, FALSE) \in Object BY <1>1, <1>2, <1>3, ObjectOfTyped
  <1>5. obj' \subseteq Object /\ data' \in [Node -> Content] /\ used' \in 0..MaxNodes
    BY <1>1, <1>3, <1>4, StoreTyped
  <1>6. call' \in [Uploader -> Call] /\ \A v \in Uploader : Busy(v)' => call'[v].name \in File
    BY <1>3 DEF Typed, TypeOK, Busy
  <1> QED BY <1>3, <1>5, <1>6, ObjectTyped, RestFacts

LEMMA KillTyped ==
    ASSUME Typed, NEW p \in Process, Kill(p) PROVE Typed'
  <1> DEFINE cut == {w \in Uploader : host[w] = p /\ Busy(w)}
  <1>1. call' \in [Uploader -> Call] /\ \A v \in Uploader : Busy(v)' => call'[v].name \in File
    <2>1. call' = [w \in Uploader |-> IF w \in cut THEN NoCall ELSE call[w]] BY DEF Kill
    <2>2. NoCall.pc = "idle" BY DEF NoCall
    <2> QED BY <2>1, <2>2, CallFacts, TypesOfCalls DEF Busy
  <1>2. \A w \in cut : PathOf(call[w]) \in Path BY CallFacts DEF Busy
  <1>3. broken' \subseteq Path
    <2>1. broken' = broken \cup {PathOf(call[w]) : w \in {x \in cut : InPlace(call[x]) /\
                                    call[x].pc \in {"first", "second", "publish"}}}
      BY DEF Kill
    <2> QED BY <1>2, <2>1, RestFacts
  <1>4. left' \subseteq Path
    <2>1. left' = left \cup {PathOf(call[w]) : w \in cut} BY DEF Kill
    <2> QED BY <1>2, <2>1, RestFacts
  <1>5. cache' \in [Process -> {0} \cup FolderId] /\ faults' \in 0..MaxFaults BY RestFacts DEF Kill
  <1>6. UNCHANGED <<kind, host, obj, data, used, folder, pending, reader, listing, calls,
                      overlap, blind>>
    BY DEF Kill
  <1> QED BY <1>1, <1>3, <1>4, <1>5, <1>6 DEF Typed, TypeOK

\* A deletion, a download and a listing.
LEMMA ClientTyped ==
    ASSUME Typed,
           \/ \E o \in Files : Delete(o) \/ BeginDownload(o)
           \/ Download \/ EndDownload
           \/ BeginListing \/ ListRoot \/ ListEnds \/ EndListing
           \/ \E d \in listing.todo : ListFolder(d)
           \/ \E e \in Condition : ListFails(e)
    PROVE  Typed'
  <1> DEFINE ReaderType == [pc : {"idle", "first", "second", "done"}, node : 0..MaxNodes,
                            name : File \cup {NoFile}, got : Content]
  <1>1. /\ reader \in ReaderType /\ listing \in ListingType
        /\ reader.pc # "idle" => reader.node \in Node /\ reader.name \in File
    BY DEF Typed, TypeOK
  <1>2. NoReader \in ReaderType /\ NoReader.pc = "idle" BY NodesNat DEF NoReader, Content
  <1>3. NoListing \in ListingType BY DEF NoListing, ListingType
  <1>4. \A d \in FolderId : Shown(d) \subseteq File \X BOOLEAN BY RestFacts DEF Shown, Object
  <1>5. \A l \in ListingType :
           /\ l.pc \in {"idle", "root", "folders", "done", "raised"}
           /\ l.todo \subseteq FolderId /\ l.steady \subseteq File
           /\ l.found \subseteq File \X BOOLEAN /\ l.skipped \in BOOLEAN
    BY DEF ListingType
  <1>6. ASSUME reader' \in ReaderType, listing' \in ListingType, UNCHANGED Idle,
               reader'.pc # "idle" => reader'.node \in Node /\ reader'.name \in File,
               faults' \in 0..MaxFaults
        PROVE  Typed'
    BY <1>5, <1>6 DEF Idle, Typed, TypeOK, Busy
  <1>7. ASSUME NEW o \in Files, Delete(o) PROVE Typed'
    <2>1. PathOf(o) \in Path
      <3>1. o \in Object BY RestFacts DEF Files
      <3>2. CASE o.dir = 0
        <4>1. PathOf(o) = PathOf([dir |-> 0, name |-> o.name]) BY <3>2 DEF PathOf
        <4> QED BY <3>1, <4>1 DEF Path, Object
      <3>3. CASE o.dir # 0
        <4>1. PathOf(o) = PathOf([dir |-> 1, name |-> o.name]) BY <3>3 DEF PathOf, Snapshots
        <4> QED BY <3>1, <4>1 DEF Path, Object
      <3> QED BY <3>2, <3>3
    <2>2. overlap' \subseteq Path \cup {FolderPath} BY <1>7, <2>1, RestFacts DEF Delete
    <2>3. listing' \in ListingType BY <1>1, <1>7 DEF Delete, ListingType
    <2>4. faults' \in 0..MaxFaults BY <1>7, RestFacts DEF Delete
    <2>5. obj' \subseteq Object BY <1>7, RestFacts DEF Delete
    <2> QED BY <1>5, <1>7, <2>2, <2>3, <2>4, <2>5 DEF Delete, Typed, TypeOK, Busy
  <1>8. ASSUME NEW o \in Files, BeginDownload(o) PROVE Typed'
    <2>1. o.node \in Node /\ o.name \in File BY RestFacts DEF Files, Object
    <2>2. reader' \in ReaderType /\ reader'.node = o.node /\ reader'.name = o.name
      <3>1. o.node \in 0..MaxNodes BY <2>1, NodesNat DEF Node
      <3>2. reader' = [NoReader EXCEPT !.pc = "first", !.node = o.node, !.name = o.name]
        BY <1>8 DEF BeginDownload
      <3> QED BY <2>1, <1>2, <3>1, <3>2
    <2> QED BY <1>1, <1>6, <1>8, <2>1, <2>2, RestFacts DEF BeginDownload
  <1>9. CASE Download
    <2> DEFINE b == IF reader.pc = "first" THEN 1 ELSE 2
    <2>1. data[reader.node] \in Content BY <1>1, <1>9, RestFacts DEF Download
    <2>2. data[reader.node][b] \in 0..MaxCalls BY <2>1 DEF Content
    <2>3. reader' = [reader EXCEPT !.pc = IF b = 1 THEN "second" ELSE "done",
                                   !.got[b] = data[reader.node][b]] BY <1>9 DEF Download
    <2>4. reader' \in ReaderType /\ reader'.node = reader.node /\ reader'.name = reader.name
      BY <1>1, <2>2, <2>3 DEF Content
    <2> QED BY <1>1, <1>6, <1>9, <2>4, RestFacts DEF Download
  <1>10. CASE EndDownload BY <1>1, <1>2, <1>6, <1>10, RestFacts DEF EndDownload
  <1>11. CASE BeginListing
    <2>1. {o.name : o \in Files} \subseteq File BY RestFacts DEF Files, Object
    <2>2. listing' \in ListingType BY <1>11, <2>1 DEF BeginListing, NoListing, ListingType
    <2> QED BY <1>1, <1>6, <1>11, <2>2, RestFacts DEF BeginListing
  <1>12. CASE ListRoot
    <2>1. UNION {Shown(d) : d \in folder} \subseteq File \X BOOLEAN BY <1>4, RestFacts
    <2>2. folder \subseteq FolderId BY RestFacts
    <2>3. listing' \in ListingType BY <1>1, <1>12, <2>1, <2>2 DEF ListRoot, ListingType
    <2> QED BY <1>1, <1>6, <1>12, <2>3, RestFacts DEF ListRoot
  <1>13. CASE ListEnds
    <2>1. listing' \in ListingType BY <1>1, <1>13 DEF ListEnds, ListingType
    <2> QED BY <1>1, <1>6, <1>13, <2>1, RestFacts DEF ListEnds
  <1>14. CASE EndListing BY <1>1, <1>3, <1>6, <1>14, RestFacts DEF EndListing
  <1>15. ASSUME NEW d \in listing.todo, ListFolder(d) PROVE Typed'
    <2>1. Shown(d) \subseteq File \X BOOLEAN BY <1>1, <1>4, <1>5
    <2>2. listing' \in ListingType BY <1>1, <1>15, <2>1 DEF ListFolder, ListingType
    <2> QED BY <1>1, <1>6, <1>15, <2>2, RestFacts DEF ListFolder
  <1>16. ASSUME NEW e \in Condition, ListFails(e) PROVE Typed'
    <2>1. listing' \in ListingType BY <1>1, <1>16 DEF ListFails, ListingType
    <2> QED BY <1>1, <1>6, <1>16, <2>1, RestFacts DEF ListFails
  <1> QED BY <1>7, <1>8, <1>9, <1>10, <1>11, <1>12, <1>13, <1>14, <1>15, <1>16

LEMMA TypedStep == Typed /\ [Next]_vars => Typed'
  <1> SUFFICES ASSUME Typed, [Next]_vars PROVE Typed' OBVIOUS
  <1>1. ASSUME NEW w \in Uploader, Step(w) PROVE Typed'
    <2>1. CASE FindFolder(w) BY <2>1, FindFolderTyped
    <2>2. CASE Put(w)
      BY <2>2, OverwriteTyped, OpenTyped, PutGoogleDriveTyped
         DEF Put, PutDropbox, PutS3, PutWebDAV, PutOneDrive, OpenSftp, OpenSmb, OpenFtp
    <2>3. CASE Copy(w)
      BY <2>3, OverwriteTyped, OpenTyped, WaitTyped
         DEF Copy, CopyDropbox, CopyS3, CopyWebDAV, CopySftp, CopySmb, CopyFtp
    <2> QED BY <1>1, <2>1, <2>2, <2>3, WriteBlockTyped, RenameTyped, CloseTyped, CleanupTyped, WaitTyped,
               RetryTyped, ReturnTyped DEF Step
  <1>2. CASE UNCHANGED vars BY <1>2 DEF vars, Typed, TypeOK, Busy
  <1>3. CASE \/ \E o \in Files : Delete(o) \/ BeginDownload(o)
             \/ Download \/ EndDownload
             \/ BeginListing \/ ListRoot \/ ListEnds \/ EndListing
             \/ \E d \in listing.todo : ListFolder(d)
             \/ \E e \in Condition : ListFails(e)
    BY <1>3, ClientTyped
  <1> QED BY <1>1, <1>2, <1>3, BeginUploadTyped, BeginCopyTyped, FailTyped, CopyLandsTyped, KillTyped
          DEF Next

\* TypeOK holds of every behaviour: every variable stays within its type, and so
\* attempts within max_retry_attempts and every object within an allocated node.
THEOREM TypeCorrect == Spec => []TypeOK
  <1>1. Typed => TypeOK BY DEF Typed
  <1> QED BY <1>1, TypedInit, TypedStep, PTL DEF Spec

-----------------------------------------------------------------------------
(* Retries.                                                                  *)

\* The steps of one uploader.
Moves(w) ==
    \/ Step(w)
    \/ \E f \in File : BeginUpload(w, f)
    \/ \E o \in Files : BeginCopy(w, o)
    \/ \E e \in Condition : Fail(w, e)

LEMMA OneMoves ==
    ASSUME Typed, NEW w \in Uploader, Moves(w)
    PROVE  /\ \A x \in Uploader \ {w} : call'[x] = call[x]
           /\ call[w].pc = "failed" => Retry(w) \/ Return(w)
           /\ UNCHANGED <<kind, host, reader, listing>>
  <1>1. \A d : Becomes(w, d) => \A x \in Uploader \ {w} : call'[x] = call[x]
    BY DEF Becomes, Typed, TypeOK
  <1> USE <1>1 DEF Same
  <1>2. CASE FindFolder(w)
    BY <1>2 DEF FindFolder, ResolveDropbox, ResolveOneDrive, ResolveWebDAV, ResolveSftp, ResolveFtp,
                ResolveSmb, ResolveS3, Resolve, LookInCache, QueryFolder, CreateFolder
  <1>3. ASSUME Overwrite(w) PROVE /\ \A x \in Uploader \ {w} : call'[x] = call[x]
                                  /\ call[w].pc # "failed" /\ UNCHANGED <<kind, host, reader, listing>>
    BY <1>3 DEF Overwrite, Replied
  <1>4. ASSUME Open(w) PROVE /\ \A x \in Uploader \ {w} : call'[x] = call[x]
                             /\ call[w].pc # "failed" /\ UNCHANGED <<kind, host, reader, listing>>
    BY <1>4 DEF Open
  <1>5. ASSUME PutGoogleDrive(w) PROVE /\ \A x \in Uploader \ {w} : call'[x] = call[x]
                                       /\ call[w].pc # "failed" /\ UNCHANGED <<kind, host, reader, listing>>
    BY <1>5 DEF PutGoogleDrive, Replied
  <1>6. CASE Put(w)
    BY <1>3, <1>4, <1>5, <1>6
       DEF Put, PutDropbox, PutS3, PutWebDAV, PutOneDrive, OpenSftp, OpenSmb, OpenFtp
  <1>7. CASE Copy(w)
    BY <1>3, <1>4, <1>7
       DEF Copy, CopyDropbox, CopyS3, CopyWebDAV, CopySftp, CopySmb, CopyFtp, PostCopy
  <1>8. CASE WriteBlock(w) \/ Rename(w) \/ Close(w) \/ Cleanup(w) \/ WaitForCopy(w)
    BY <1>8 DEF WriteBlock, Rename, Close, Cleanup, WaitForCopy
  <1>9. CASE Retry(w) \/ Return(w) BY <1>9 DEF Retry, Return
  <1>10. ASSUME NEW f \in File, BeginUpload(w, f)
         PROVE  /\ \A x \in Uploader \ {w} : call'[x] = call[x]
                /\ call[w].pc # "failed" /\ UNCHANGED <<kind, host, reader, listing>>
    BY <1>10 DEF BeginUpload, MayBegin, Busy
  <1>11. ASSUME NEW o \in Files, BeginCopy(w, o)
         PROVE  /\ \A x \in Uploader \ {w} : call'[x] = call[x]
                /\ call[w].pc # "failed" /\ UNCHANGED <<kind, host, reader, listing>>
    BY <1>11 DEF BeginCopy, MayBegin, Busy
  <1>12. ASSUME NEW e \in Condition, Fail(w, e)
         PROVE  /\ \A x \in Uploader \ {w} : call'[x] = call[x]
                /\ call[w].pc # "failed" /\ UNCHANGED <<kind, host, reader, listing>>
    BY <1>12 DEF Fail
  <1> QED BY <1>2, <1>6, <1>7, <1>8, <1>9, <1>10, <1>11, <1>12 DEF Moves, Step

\* The steps in which no uploader takes part.
Apart ==
    \/ \E q \in pending : CopyLands(q)
    \/ \E o \in Files : Delete(o) \/ BeginDownload(o)
    \/ Download \/ EndDownload
    \/ BeginListing \/ ListRoot \/ ListEnds \/ EndListing
    \/ \E d \in listing.todo : ListFolder(d)
    \/ \E e \in Condition : ListFails(e)
    \/ UNCHANGED vars

LEMMA ApartStays == Apart => UNCHANGED <<kind, host, call>>
  BY DEF Apart, CopyLands, Same, Delete, BeginDownload, Download, EndDownload, BeginListing, ListRoot,
         ListEnds, EndListing, ListFolder, ListFails, Idle, vars

LEMMA NextCases ==
    [Next]_vars => \/ \E w \in Uploader : Moves(w)
                   \/ \E p \in Process : Kill(p)
                   \/ Apart
  BY DEF Next, Moves, Apart

\* A class says what is worth a retry.
LEMMA Classes ==
    \A e \in Condition : kind \in Retrying =>
       /\ e \in {"credentials", "full", "forbidden"} => ~is_retryable(classify_error(kind, e))
       /\ e \in {"network", "throttled", "server"} => is_retryable(classify_error(kind, e))
  BY DEF Retrying, Condition, is_retryable, classify_error, GoogleDriveClass, DropboxClass,
         OneDriveClass, WebDAVClass

\* RetriesFitTheCause holds of every step: only a failure of a kind that may pass is
\* tried again, and what may pass is given up only when the attempts are used up
\* (classify_error and _upload_with_retry of the backends).
THEOREM RetriesFitTheCauseHolds == Spec => RetriesFitTheCause
  <1>1. ASSUME Typed, [Next]_vars, NEW w \in Uploader, call[w].pc = "failed"
        PROVE  /\ call'[w].tries > call[w].tries => call[w].cond \notin {"credentials", "full", "forbidden"}
               /\ GivenUp(w) /\ call[w].op = "upload" /\ kind \in Retrying
                    /\ call[w].cond \in {"network", "throttled", "server"}
                  => call[w].tries + 1 = MaxAttempts
    <2>1. call[w].tries \in 0..(MaxAttempts - 1) /\ call \in [Uploader -> Call]
      BY <1>1, CallFacts DEF Call, Typed, TypeOK
    <2>2. NoCall.tries = 0 /\ NoCall.pc = "idle" BY DEF NoCall
    <2>3. CASE call'[w] = call[w] BY <1>1, <2>1, <2>3 DEF GivenUp
    <2>4. CASE Retry(w)
      <3>1. call'[w].pc # "idle" /\ is_retryable(classify_error(kind, call[w].cond)) /\ kind \in Retrying
        BY <2>1, <2>4 DEF Retry, WillRetry, Becomes, Call
      <3> QED BY <3>1, Classes DEF GivenUp, Condition
    <2>5. CASE Return(w)
      <3>1. call'[w] = NoCall /\ ~WillRetry(call[w]) BY <1>1, <2>1, <2>5 DEF Return, Becomes
      <3>2. call[w].op = "upload" /\ kind \in Retrying /\ call[w].cond \in {"network", "throttled", "server"}
            => ~(call[w].tries + 1 < MaxAttempts)
        BY <1>1, <3>1, Classes DEF WillRetry, Condition
      <3> QED BY <2>1, <2>2, <3>1, <3>2
    <2>6. ASSUME NEW p \in Process, Kill(p) PROVE (call'[w] = call[w] \/ call'[w] = NoCall) /\ faults' # faults
      <3>1. faults \in Nat BY <1>1, RestFacts
      <3> QED BY <2>1, <2>6, <3>1 DEF Kill, Fault
    <2> QED BY <1>1, <2>1, <2>2, <2>3, <2>4, <2>5, <2>6, NextCases, OneMoves, ApartStays DEF GivenUp
  <1>2. Typed /\ [Next]_vars
        => [\A w \in Uploader :
              LET c == call[w] IN
              /\ c.pc = "failed" /\ call'[w].tries > c.tries
                     => c.cond \notin {"credentials", "full", "forbidden"}
              /\ GivenUp(w) /\ c.op = "upload" /\ kind \in Retrying
                   /\ c.cond \in {"network", "throttled", "server"}
                     => c.tries + 1 = MaxAttempts]_vars
    BY <1>1 DEF GivenUp
  <1> QED BY <1>2, TypedInit, TypedStep, PTL DEF Spec, RetriesFitTheCause

-----------------------------------------------------------------------------
(* What calls and objects look like on each backend.                         *)

Writes(c) == c.pc \in {"first", "second", "publish"}

CallShape(c) ==
    /\ c.op = "copy" <=> c.dir = Snapshots
    /\ c.pc # "idle" /\ c.op = "upload" => Whole(c.want)
    /\ c.known => c.op = "upload"
    /\ c.direct => c.op = "copy" /\ kind = "sftp"
    /\ Writes(c) => kind \in {"sftp", "smb", "ftp"} /\ c.node \in 1..used
    /\ c.pc = "cleanup" => kind \in {"sftp", "smb"}
    /\ c.pc = "waiting" => kind = "onedrive" /\ c.op = "copy"
    /\ c.pc \in {"query", "create"} => kind = "googledrive"
    /\ c.op = "upload" /\ kind # "googledrive" => c.dir = 1
    /\ c.op = "upload" /\ (c.pc = "put" \/ Writes(c) \/ c.known) => c.dir \in folder
    /\ c.pc \in {"resolve", "query", "create"} => c.op = "upload"
    /\ c.id <= used

ObjectShape(o) ==
    /\ o.node <= used /\ o.id <= used
    /\ o.temp => kind \in {"sftp", "smb"}
    /\ o.dir # Snapshots => o.dir \in folder
    /\ kind # "googledrive" => o.dir # 2

CachesShape  == \A p \in Process : cache[p] # 0 => cache[p] \in folder
PendingShape == pending # {} => kind = "onedrive"
BrokenShape  == \A f \in File : <<FALSE, f>> \in broken => kind = "ftp"
ReaderShape  == reader.pc # "idle" => reader.node <= used
FolderShape  == kind # "googledrive" => 2 \notin folder

Shapes ==
    /\ \A w \in Uploader : CallShape(call[w])
    /\ \A o \in obj : ObjectShape(o)
    /\ CachesShape /\ PendingShape /\ BrokenShape /\ ReaderShape /\ FolderShape

LEMMA ShapesInit == Init => Shapes
  <1> SUFFICES ASSUME Init PROVE Shapes OBVIOUS
  <1>1. ASSUME NEW w \in Uploader PROVE CallShape(call[w])
    BY DEF Init, NoCall, CallShape, Snapshots, Writes
  <1> QED BY <1>1 DEF Init, Shapes, CachesShape, PendingShape, BrokenShape, ReaderShape, FolderShape, NoReader

\* A step of one call: what it leaves alone keeps its shape.
LEMMA ShapesJoin ==
    ASSUME Typed, Shapes, NEW w \in Uploader, Moves(w),
           CallShape(call[w])', \A o \in obj' \ obj : ObjectShape(o)',
           CachesShape', PendingShape', BrokenShape', FolderShape',
           folder \subseteq folder', used' \in {used, used + 1}
    PROVE  Shapes'
  <1>1. /\ \A x \in Uploader \ {w} : call'[x] = call[x]
        /\ UNCHANGED <<kind, host, reader, listing>>
    BY OneMoves
  <1>2. used \in Nat /\ used' \in Nat /\ used <= used' /\ folder \subseteq folder' BY RestFacts
  <1>3. ASSUME NEW x \in Uploader PROVE CallShape(call[x])'
    <2>1. CASE x = w BY <2>1
    <2>2. CASE x # w
      <3>1. call'[x] = call[x] /\ CallShape(call[x]) BY <1>1, <2>2 DEF Shapes
      <3>2. call[x] \in Call BY CallFacts
      <3>3. call[x].id \in Nat /\ call[x].node \in Nat BY <3>2, NodesNat DEF Call
      <3> QED BY <1>1, <1>2, <3>1, <3>3 DEF CallShape, Writes
    <2> QED BY <2>1, <2>2
  <1>4. ASSUME NEW o \in obj' PROVE ObjectShape(o)'
    <2>1. CASE o \in obj
      <3>1. o \in Object BY <2>1, RestFacts
      <3>2. o.node \in Nat /\ o.id \in Nat BY <3>1, NodesNat DEF Object, Node
      <3> QED BY <1>1, <1>2, <2>1, <3>2 DEF ObjectShape, Shapes
    <2>2. CASE o \notin obj BY <2>2
    <2> QED BY <2>1, <2>2
  <1>5. ReaderShape'
    <2>1. reader.pc # "idle" => reader.node \in Nat BY NodesNat DEF Typed, Node
    <2> QED BY <1>1, <1>2, <2>1 DEF ReaderShape, Shapes
  <1> QED BY <1>3, <1>4, <1>5 DEF Shapes

LEMMA ViaTempIs == kind \in ViaTemp => kind \in {"sftp", "smb"}
  BY DEF ViaTemp

\* The most common step moves a call on and leaves the rest alone.
LEMMA ShapesStay ==
    ASSUME Typed, Shapes, NEW w \in Uploader, Moves(w), CallShape(call[w])',
           UNCHANGED <<obj, used, folder, cache, pending, broken>>
    PROVE  Shapes'
  <1>1. UNCHANGED kind BY OneMoves
  <1>2. CachesShape' /\ PendingShape' /\ BrokenShape' /\ FolderShape'
    BY <1>1 DEF Shapes, CachesShape, PendingShape, BrokenShape, FolderShape
  <1> QED BY <1>2, ShapesJoin

LEMMA BeginShapes ==
    ASSUME Typed, Shapes, NEW w \in Uploader,
           (\E f \in File : BeginUpload(w, f)) \/ (\E o \in Files : BeginCopy(w, o))
    PROVE  Shapes'
  <1>0. Moves(w) /\ call \in [Uploader -> Call] BY DEF Moves, Typed, TypeOK
  <1>n. calls \in Nat /\ used \in Nat /\ calls + 1 # 0 BY RestFacts, NodesNat
  <1>1. CASE \E f \in File : BeginUpload(w, f)
    <2> PICK f \in File : BeginUpload(w, f) BY <1>1
    <2> DEFINE c == [NoCall EXCEPT !.name = f, !.want = [b \in 1..2 |-> calls + 1]]
    <2>1. UNCHANGED <<kind, obj, used, folder, cache, pending, broken>> BY DEF BeginUpload
    <2>2. Whole([b \in 1..2 |-> calls + 1]) BY <1>n DEF Whole
    <2>3. CASE Becomes(w, [c EXCEPT !.pc = "resolve"])
      <3> DEFINE d == [c EXCEPT !.pc = "resolve"]
      <3>1. d.pc = "resolve" /\ d.op = "upload" /\ d.dir = 1 /\ ~d.known /\ ~d.direct /\ d.id = 0
            /\ d.want = [b \in 1..2 |-> calls + 1]
        BY DEF NoCall
      <3>2. call'[w] = d BY <1>0, <2>3 DEF Becomes
      <3> HIDE DEF d
      <3>3. CallShape(call[w])' BY <1>n, <2>1, <2>2, <3>1, <3>2 DEF CallShape, Snapshots, Writes
      <3> QED BY <1>0, <2>1, <3>2, <3>3, ShapesStay
    <2>4. ASSUME NEW o \in At(c, FALSE),
                 Becomes(w, [c EXCEPT !.pc = "put", !.known = TRUE, !.id = o.id, !.dir = o.dir])
          PROVE  Shapes'
      <3> DEFINE d == [c EXCEPT !.pc = "put", !.known = TRUE, !.id = o.id, !.dir = o.dir]
      <3>1. o \in obj /\ o \in Object /\ PathOf(o) = PathOf(c) BY RestFacts DEF At
      <3>2. o.dir # Snapshots /\ o.dir \in FolderId BY <3>1 DEF PathOf, NoCall, Snapshots, Object
      <3>3. o.dir \in folder /\ o.id <= used /\ (kind # "googledrive" => o.dir = 1)
        BY <3>1, <3>2 DEF Shapes, ObjectShape, FolderId
      <3>4. d.pc = "put" /\ d.op = "upload" /\ d.dir = o.dir /\ ~d.direct /\ d.id = o.id
            /\ d.want = [b \in 1..2 |-> calls + 1]
        BY DEF NoCall
      <3>5. call'[w] = d BY <1>0, <2>4 DEF Becomes
      <3> HIDE DEF d
      <3>6. CallShape(call[w])'
        BY <2>1, <2>2, <3>2, <3>3, <3>4, <3>5 DEF CallShape, Snapshots, Writes
      <3> QED BY <1>0, <2>1, <3>5, <3>6, ShapesStay
    <2> QED BY <2>3, <2>4 DEF BeginUpload
  <1>2. CASE \E o \in Files : BeginCopy(w, o)
    <2> PICK o \in Files : BeginCopy(w, o) BY <1>2
    <2> DEFINE c == [NoCall EXCEPT !.name = o.name, !.op = "copy", !.dir = Snapshots, !.pc = "put",
                            !.want = data[o.node], !.direct = (kind = "sftp")]
    <2>1. UNCHANGED <<kind, obj, used, folder, cache, pending, broken>> BY DEF BeginCopy
    <2>2. c.pc = "put" /\ c.op = "copy" /\ c.dir = Snapshots /\ ~c.known /\ (c.direct <=> kind = "sftp")
          /\ c.id = 0
      BY DEF NoCall
    <2>3. call'[w] = c BY <1>0 DEF Becomes, BeginCopy
    <2> HIDE DEF c
    <2>4. CallShape(call[w])' BY <1>n, <2>1, <2>2, <2>3 DEF CallShape, Writes
    <2> QED BY <1>0, <2>1, <2>3, <2>4, ShapesStay
  <1> QED BY <1>1, <1>2

LEMMA FindFolderShapes ==
    ASSUME Typed, Shapes, NEW w \in Uploader, FindFolder(w) PROVE Shapes'
  <1> DEFINE c == call[w]
  <1>0. Moves(w) /\ call \in [Uploader -> Call] /\ c \in Call /\ CallShape(c)
    BY CallFacts DEF Moves, Step, Typed, TypeOK, Shapes
  <1>1. /\ UNCHANGED <<kind, obj, used, pending, broken>> /\ folder \subseteq folder'
        /\ used' \in {used, used + 1}
    BY DEF FindFolder, ResolveDropbox, ResolveOneDrive, ResolveWebDAV, ResolveSftp, ResolveFtp,
                ResolveSmb, ResolveS3, Resolve, LookInCache, QueryFolder, CreateFolder
  <1>2. PendingShape' /\ BrokenShape' BY <1>1 DEF PendingShape, BrokenShape, Shapes
  <1>3. ASSUME Resolve(w), kind # "googledrive" PROVE Shapes'
    <2>1. call'[w] = [c EXCEPT !.pc = "put"] /\ folder' = folder \cup {1} /\ c.pc = "resolve" /\ cache' = cache
      BY <1>0, <1>3 DEF Resolve, Becomes
    <2>2. CallShape(call[w])' BY <1>0, <1>1, <1>3, <2>1 DEF CallShape, Call, Writes
    <2>3. FolderShape' /\ CachesShape' BY <1>1, <1>3, <2>1 DEF FolderShape, CachesShape, Shapes
    <2> QED BY <1>0, <1>1, <1>2, <2>1, <2>2, <2>3, ShapesJoin
  <1>4. ASSUME kind = "googledrive",
               \/ LookInCache(w) \/ QueryFolder(w) \/ CreateFolder(w)
        PROVE  Shapes'
    <2>1. FolderShape' BY <1>1, <1>4 DEF FolderShape
    <2>2. CachesShape'
      <3>1. CASE UNCHANGED cache BY <1>1, <3>1 DEF CachesShape, Shapes
      <3>2. CASE \E d \in folder' : cache' = [cache EXCEPT ![host[w]] = d]
        BY <1>1, <3>2, RestFacts DEF CachesShape, Shapes
      <3> QED BY <1>4, <3>1, <3>2 DEF LookInCache, QueryFolder, CreateFolder
    <2>3. c.pc \in {"resolve", "query", "create"} /\ c.op = "upload"
      BY <1>0, <1>4 DEF LookInCache, QueryFolder, CreateFolder, CallShape
    <2>4. /\ c.pc # "idle" /\ Whole(c.want) /\ c.dir # Snapshots /\ ~c.direct /\ c.id <= used
          /\ c.known => c.dir \in folder
      BY <1>0, <1>4, <2>3 DEF CallShape
    <2>5. \/ \E d \in folder' : call'[w] = [c EXCEPT !.pc = "put", !.dir = d]
          \/ \E pc \in {"query", "create"} : call'[w] = [c EXCEPT !.pc = pc]
          \/ call'[w] = [c EXCEPT !.pc = "failed", !.cond = "network"]
      <3>1. CASE LookInCache(w)
        <4>1. cache[host[w]] # 0 => cache[host[w]] \in folder BY RestFacts DEF Shapes, CachesShape
        <4> QED BY <1>0, <1>1, <3>1, <4>1 DEF LookInCache, Becomes
      <3>2. CASE QueryFolder(w) BY <1>0, <1>1, <3>2 DEF QueryFolder, Becomes
      <3>3. CASE CreateFolder(w) BY <1>0, <1>1, <3>3 DEF CreateFolder, Becomes
      <3> QED BY <1>4, <3>1, <3>2, <3>3
    <2>6. folder' \subseteq FolderId BY TypedStep DEF Next, Step, Typed, TypeOK
    <2>7. CallShape(call[w])'
      <3>1. CASE \E d \in folder' : call'[w] = [c EXCEPT !.pc = "put", !.dir = d]
        <4> PICK d \in folder' : call'[w] = [c EXCEPT !.pc = "put", !.dir = d] BY <3>1
        <4>1. d # Snapshots BY <2>6 DEF Snapshots, FolderId
        <4> QED BY <1>0, <1>1, <1>4, <2>3, <2>4, <4>1 DEF CallShape, Call, Writes
      <3>2. CASE \E pc \in {"query", "create"} : call'[w] = [c EXCEPT !.pc = pc]
        BY <1>0, <1>1, <1>4, <2>3, <2>4, <3>2 DEF CallShape, Call, Writes
      <3>3. CASE call'[w] = [c EXCEPT !.pc = "failed", !.cond = "network"]
        BY <1>0, <1>1, <1>4, <2>3, <2>4, <3>3 DEF CallShape, Call, Writes
      <3> QED BY <2>5, <3>1, <3>2, <3>3
    <2> QED BY <1>0, <1>1, <1>2, <2>1, <2>2, <2>7, ShapesJoin
  <1>5. \/ Resolve(w) /\ kind # "googledrive"
        \/ kind = "googledrive" /\ (LookInCache(w) \/ QueryFolder(w) \/ CreateFolder(w))
    BY <1>0 DEF FindFolder, ResolveDropbox, ResolveOneDrive, ResolveWebDAV, ResolveSftp, ResolveFtp,
                ResolveSmb, ResolveS3, LookInCache, QueryFolder, CreateFolder, CallShape
  <1> QED BY <1>3, <1>4, <1>5

\* A step of a call seldom changes more than how far it is.
OtherFields(d, c) ==
    /\ d.op = c.op /\ d.dir = c.dir /\ d.known = c.known /\ d.id = c.id /\ d.want = c.want
    /\ d.direct = c.direct /\ d.name = c.name

\* A call that ends keeps its shape.
LEMMA EndedShape ==
    ASSUME Typed, Shapes, NEW w \in Uploader, call[w].pc # "idle",
           UNCHANGED <<kind, folder>>, used' \in {used, used + 1},
           OtherFields(call'[w], call[w]), call'[w].pc \in {"ok", "failed"}
    PROVE  CallShape(call[w])'
  <1>1. CallShape(call[w]) BY DEF Shapes
  <1> QED BY <1>1, CallIs DEF CallShape, Writes, OtherFields

LEMMA RepliedEnds ==
    ASSUME Typed, NEW w \in Uploader, NEW create, Replied(w, call[w], create)
    PROVE  /\ call'[w].pc \in {"ok", "failed"}
           /\ OtherFields(call'[w], call[w]) /\ call'[w].late = call[w].late
           /\ call'[w].pc = "failed" => blind' = (blind \/ create)
           /\ call'[w].pc = "ok" => blind' = blind
  <1>1. call[w] \in Call /\ call \in [Uploader -> Call] BY CallIs
  <1>2. CASE call'[w] = [call[w] EXCEPT !.pc = "ok"] /\ blind' = blind
    BY <1>1, <1>2 DEF Call, OtherFields
  <1>3. CASE call'[w] = [call[w] EXCEPT !.pc = "failed", !.cond = "network"] /\ blind' = (blind \/ create)
    BY <1>1, <1>3 DEF Call, OtherFields
  <1>4. \/ call'[w] = [call[w] EXCEPT !.pc = "ok"] /\ blind' = blind
        \/ call'[w] = [call[w] EXCEPT !.pc = "failed", !.cond = "network"] /\ blind' = (blind \/ create)
    BY <1>1 DEF Replied, Becomes
  <1> QED BY <1>2, <1>3, <1>4

Plain == kind \in {"dropbox", "s3", "webdav", "onedrive"}

LEMMA OverwriteShapes ==
    ASSUME Typed, Shapes, NEW w \in Uploader, Overwrite(w), Moves(w), Plain PROVE Shapes'
  <1> DEFINE c == call[w]
             n == [ObjectOf(c, FALSE) EXCEPT !.node = used + 1]
  <1>1. /\ c.pc = "put" /\ Replied(w, c, FALSE) /\ used' = used + 1
        /\ obj' = (obj \ At(c, FALSE)) \cup {n}
        /\ UNCHANGED <<kind, folder, cache, pending, broken>>
    BY DEF Overwrite, Store, Same
  <1>2. CallShape(call[w])' BY <1>1, RepliedEnds, EndedShape
  <1>3. n.node = used + 1 /\ n.id = 0 /\ n.temp = FALSE /\ n.dir = c.dir BY DEF ObjectOf
  <1>4. CallShape(c) /\ c.op \in {"upload", "copy"} /\ used \in Nat
    BY CallIs DEF Shapes
  <1>5. ASSUME NEW o \in obj' \ obj PROVE ObjectShape(o)'
    <2>1. kind # "googledrive" BY DEF Plain
    <2>2. o = n BY <1>1
    <2>3. o.node = used + 1 /\ o.id = 0 /\ o.temp = FALSE /\ o.dir = c.dir BY <1>3, <2>2
    <2>4. (c.dir # 0 => c.dir \in folder) /\ c.dir # 2 BY <1>1, <1>4, <2>1 DEF CallShape, Snapshots
    <2> HIDE DEF c, n
    <2> QED BY <1>1, <1>4, <2>3, <2>4 DEF ObjectShape, Snapshots
  <1>6. CachesShape' /\ PendingShape' /\ BrokenShape' /\ FolderShape'
    BY <1>1 DEF Shapes, CachesShape, PendingShape, BrokenShape, FolderShape
  <1> HIDE DEF n
  <1> QED BY <1>1, <1>2, <1>5, <1>6, ShapesJoin

LEMMA PutGoogleDriveShapes ==
    ASSUME Typed, Shapes, NEW w \in Uploader, PutGoogleDrive(w), Moves(w) PROVE Shapes'
  <1> DEFINE c == call[w]
             old == {o \in obj : o.id = c.id /\ c.known}
             x == IF c.known THEN CHOOSE o \in old : TRUE
                  ELSE [ObjectOf(c, FALSE) EXCEPT !.id = used + 1]
             n == [x EXCEPT !.node = used + 1]
  <1>1. /\ c.pc = "put" /\ kind = "googledrive" /\ CallShape(c) /\ c \in Call /\ used \in Nat
        /\ UNCHANGED <<kind, folder, cache, pending, broken>>
    BY CallIs DEF PutGoogleDrive, Same, Shapes
  <1>2. CASE c.known /\ old = {}
    <2>1. call'[w] = [c EXCEPT !.pc = "failed", !.cond = "missing"] /\ UNCHANGED <<obj, used>>
      BY <1>2, CallIs DEF PutGoogleDrive, Becomes
    <2>2. OtherFields(call'[w], c) /\ call'[w].pc = "failed" BY <1>1, <2>1 DEF Call, OtherFields
    <2> QED BY <1>1, <2>1, <2>2, EndedShape, ShapesStay
  <1>3. CASE ~(c.known /\ old = {})
    <2>1. Replied(w, c, ~c.known) /\ used' = used + 1 /\ obj' = (obj \ old) \cup {n}
      BY <1>3 DEF PutGoogleDrive, Store
    <2>2. CallShape(call[w])' BY <1>1, <2>1, RepliedEnds, EndedShape
    <2>3. /\ n.node = used + 1 /\ n.id <= used + 1 /\ n.temp = FALSE
          /\ n.dir # 0 => n.dir \in folder
      <3>1. CASE c.known
        <4>1. PICK o \in obj : o = x BY <1>3, <3>1
        <4>2. ObjectShape(o) /\ o \in Object /\ o.id \in Nat /\ o.temp \in BOOLEAN BY ObjectIs DEF Shapes
        <4>3. n = [o EXCEPT !.node = used + 1] BY <4>1
        <4>4. n.node = used + 1 /\ n.id = o.id /\ n.temp = o.temp /\ n.dir = o.dir
          BY <4>2, <4>3 DEF Object
        <4> HIDE DEF n
        <4> QED BY <1>1, <4>2, <4>4 DEF ObjectShape, Snapshots
      <3>2. CASE ~c.known
        <4>1. n.node = used + 1 /\ n.id = used + 1 /\ n.temp = FALSE /\ n.dir = c.dir
          BY <3>2 DEF ObjectOf
        <4>2. c.dir # 0 => c.dir \in folder BY <1>1, CallIs DEF CallShape, Snapshots
        <4> HIDE DEF n, c
        <4> QED BY <1>1, <4>1, <4>2
      <3> QED BY <3>1, <3>2
    <2> HIDE DEF n
    <2>4. \A o \in obj' \ obj : ObjectShape(o)'
      BY <1>1, <2>1, <2>3 DEF ObjectShape, Snapshots
    <2>5. CachesShape' /\ PendingShape' /\ BrokenShape' /\ FolderShape'
      BY <1>1 DEF Shapes, CachesShape, PendingShape, BrokenShape, FolderShape
    <2> QED BY <1>1, <2>1, <2>2, <2>4, <2>5, ShapesJoin
  <1> QED BY <1>2, <1>3

InPlaceOrTemp == kind \in {"sftp", "smb", "ftp"}

LEMMA OpenShapes ==
    ASSUME Typed, Shapes, NEW w \in Uploader, Open(w), Moves(w), InPlaceOrTemp PROVE Shapes'
  <1> DEFINE c == call[w]
             n == [ObjectOf(c, ~InPlace(c)) EXCEPT !.node = used + 1]
  <1>1. /\ c.pc = "put" /\ CallShape(c) /\ c \in Call /\ used \in Nat /\ call \in [Uploader -> Call]
        /\ UNCHANGED <<kind, folder, cache, pending, broken>>
    BY CallIs DEF Open, Same, Shapes
  <1>2. \/ /\ used' = used + 1 /\ obj' = obj \cup {n}
           /\ call'[w] = [c EXCEPT !.pc = "first", !.node = used + 1]
        \/ \E o \in obj : call'[w] = [c EXCEPT !.pc = "first", !.node = o.node] /\ UNCHANGED <<obj, used>>
    BY <1>1 DEF Open, Becomes, Store, At
  <1>4. call'[w].pc = "first" /\ OtherFields(call'[w], c) /\ call'[w].node \in 1..used'
    <2>1. ASSUME NEW o \in obj PROVE o.node \in 1..used
      BY <1>1, ObjectIs DEF Shapes, ObjectShape, Node
    <2>2. used + 1 \in 1..(used + 1) BY <1>1
    <2>3. CASE used' = used + 1 /\ call'[w] = [c EXCEPT !.pc = "first", !.node = used + 1]
      BY <1>1, <2>2, <2>3 DEF Call, OtherFields
    <2>4. ASSUME NEW o \in obj, call'[w] = [c EXCEPT !.pc = "first", !.node = o.node], UNCHANGED <<obj, used>>
          PROVE  call'[w].pc = "first" /\ OtherFields(call'[w], c) /\ call'[w].node \in 1..used'
      BY <1>1, <2>1, <2>4 DEF Call, OtherFields
    <2> QED BY <1>2, <2>3, <2>4
  <1>5. CallShape(call[w])'
    <2>1. c.id \in Nat /\ c.op \in {"upload", "copy"} /\ used' \in {used, used + 1} BY <1>2, CallIs
    <2> HIDE DEF c
    <2> QED BY <1>1, <1>4, <2>1 DEF CallShape, Writes, OtherFields, InPlaceOrTemp
  <1>6. ASSUME NEW o \in obj' \ obj PROVE ObjectShape(o)'
    <2>1. o = n /\ used' = used + 1 BY <1>2
    <2>2. o.node = used + 1 /\ o.id = 0 /\ o.dir = c.dir /\ (o.temp <=> ~InPlace(c))
      BY <2>1 DEF ObjectOf
    <2>3. (c.dir # 0 => c.dir \in folder) /\ c.dir # 2
      BY <1>1, CallIs DEF CallShape, Snapshots, InPlaceOrTemp
    <2>4. o.temp => kind \in {"sftp", "smb"} BY <2>2 DEF InPlace, InPlaceOrTemp
    <2> HIDE DEF c, n
    <2> QED BY <1>1, <2>1, <2>2, <2>3, <2>4 DEF ObjectShape, Snapshots
  <1>7. CachesShape' /\ PendingShape' /\ BrokenShape' /\ FolderShape'
    BY <1>1 DEF Shapes, CachesShape, PendingShape, BrokenShape, FolderShape
  <1>8. used' \in {used, used + 1} BY <1>2
  <1> QED BY <1>1, <1>5, <1>6, <1>7, <1>8, ShapesJoin

LEMMA WriteBlockShapes ==
    ASSUME Typed, Shapes, NEW w \in Uploader, WriteBlock(w) PROVE Shapes'
  <1> DEFINE c == call[w]
  <1>1. CallShape(c) /\ c \in Call /\ used \in Nat /\ call \in [Uploader -> Call] /\ Writes(c)
    BY CallIs DEF Shapes, WriteBlock, Writes
  <1>2. UNCHANGED <<kind, obj, used, folder, cache, pending, broken>> BY DEF WriteBlock, Same
  <1>3. \E pc \in {"second", "publish"} : call'[w] = [c EXCEPT !.pc = pc]
    BY <1>1 DEF WriteBlock, Becomes
  <1>4. OtherFields(call'[w], c) /\ call'[w].pc \in {"second", "publish"} /\ call'[w].node = c.node
    BY <1>1, <1>3 DEF Call, OtherFields
  <1>5. CallShape(call[w])'
    <2> HIDE DEF c
    <2> QED BY <1>1, <1>2, <1>4 DEF CallShape, OtherFields, Writes
  <1> QED BY <1>2, <1>5, ShapesStay DEF Moves, Step

LEMMA RenameShapes ==
    ASSUME Typed, Shapes, NEW w \in Uploader, Rename(w) PROVE Shapes'
  <1> DEFINE c == call[w]
             temp == At(c, TRUE)
  <1>1. /\ CallShape(c) /\ c \in Call /\ used \in Nat /\ call \in [Uploader -> Call] /\ c.pc = "publish"
        /\ ~InPlace(c)
    BY CallIs DEF Shapes, Rename
  <1>2. UNCHANGED <<kind, used, folder, cache, pending, broken>> BY DEF Rename, Same
  <1>3. \/ call'[w] = [c EXCEPT !.pc = "ok"]
        \/ \E e : call'[w] = [c EXCEPT !.pc = "cleanup", !.cond = e]
    BY <1>1 DEF Rename, Becomes
  <1>4. OtherFields(call'[w], c) /\ call'[w].pc \in {"ok", "cleanup"}
    <2>1. CASE call'[w] = [c EXCEPT !.pc = "ok"] BY <1>1, <2>1 DEF Call, OtherFields
    <2>2. CASE \E e : call'[w] = [c EXCEPT !.pc = "cleanup", !.cond = e]
      BY <1>1, <2>2 DEF Call, OtherFields
    <2> QED BY <1>3, <2>1, <2>2
  <1>5. CallShape(call[w])'
    <2>1. kind \in {"sftp", "smb"} BY <1>1 DEF CallShape, Writes, InPlace
    <2> HIDE DEF c
    <2> QED BY <1>1, <1>2, <1>4, <2>1 DEF CallShape, OtherFields, Writes
  <1>6. ASSUME NEW n \in obj' \ obj PROVE ObjectShape(n)'
    <2>1. PICK o \in obj : n = [o EXCEPT !.temp = FALSE] BY DEF Rename, At
    <2>2. o \in Object /\ ObjectShape(o) BY ObjectIs DEF Shapes
    <2>3. n.node = o.node /\ n.id = o.id /\ n.dir = o.dir /\ n.temp = FALSE BY <2>1, <2>2 DEF Object
    <2> QED BY <1>2, <2>2, <2>3 DEF ObjectShape
  <1>7. CachesShape' /\ PendingShape' /\ BrokenShape' /\ FolderShape'
    BY <1>2 DEF Shapes, CachesShape, PendingShape, BrokenShape, FolderShape
  <1> QED BY <1>2, <1>5, <1>6, <1>7, ShapesJoin DEF Moves, Step

LEMMA EndShapes ==
    ASSUME Typed, Shapes, NEW w \in Uploader, Close(w) \/ Cleanup(w) \/ WaitForCopy(w) PROVE Shapes'
  <1> DEFINE c == call[w]
  <1>1. c \in Call /\ call \in [Uploader -> Call] /\ c.pc # "idle" /\ Moves(w)
    BY CallIs DEF Close, Cleanup, WaitForCopy, Moves, Step
  <1>2. UNCHANGED <<kind, used, folder, cache>> /\ obj' \subseteq obj /\ pending' \subseteq pending
        /\ broken' \subseteq broken
    BY DEF Close, Cleanup, WaitForCopy, Same
  <1>3. \/ \E pc \in {"ok", "failed"} : call'[w] = [c EXCEPT !.pc = pc]
        \/ \E l : call'[w] = [c EXCEPT !.pc = "ok", !.late = l]
        \/ call'[w] = [c EXCEPT !.pc = "failed", !.cond = "odd"]
    BY <1>1 DEF Close, Cleanup, WaitForCopy, Becomes
  <1>4. OtherFields(call'[w], c) /\ call'[w].pc \in {"ok", "failed"}
    <2>1. CASE \E pc \in {"ok", "failed"} : call'[w] = [c EXCEPT !.pc = pc]
      BY <1>1, <2>1 DEF Call, OtherFields
    <2>2. CASE \E l : call'[w] = [c EXCEPT !.pc = "ok", !.late = l]
      BY <1>1, <2>2 DEF Call, OtherFields
    <2>3. CASE call'[w] = [c EXCEPT !.pc = "failed", !.cond = "odd"]
      BY <1>1, <2>3 DEF Call, OtherFields
    <2> QED BY <1>3, <2>1, <2>2, <2>3
  <1>5. CallShape(call[w])' BY <1>1, <1>2, <1>4, EndedShape
  <1>6. CachesShape' /\ PendingShape' /\ BrokenShape' /\ FolderShape'
    BY <1>2 DEF Shapes, CachesShape, PendingShape, BrokenShape, FolderShape
  <1> QED BY <1>1, <1>2, <1>5, <1>6, ShapesJoin

LEMMA PostCopyShapes ==
    ASSUME Typed, Shapes, NEW w \in Uploader, PostCopy(w) PROVE Shapes'
  <1> DEFINE c == call[w]
  <1>1. /\ c \in Call /\ call \in [Uploader -> Call] /\ c.pc = "put" /\ CallShape(c) /\ Moves(w)
        /\ c.op = "copy" /\ kind = "onedrive"
    BY CallIs DEF PostCopy, Moves, Step, Copy, Shapes
  <1>2. UNCHANGED <<kind, obj, used, folder, cache, broken>> BY DEF PostCopy, Same
  <1>3. call'[w] = [c EXCEPT !.pc = "waiting"] BY <1>1 DEF PostCopy, Becomes
  <1>4. OtherFields(call'[w], c) /\ call'[w].pc = "waiting" BY <1>1, <1>3 DEF Call, OtherFields
  <1>5. CallShape(call[w])' BY <1>1, <1>2, <1>4 DEF CallShape, OtherFields, Writes
  <1>6. CachesShape' /\ PendingShape' /\ BrokenShape' /\ FolderShape'
    BY <1>1, <1>2 DEF Shapes, CachesShape, PendingShape, BrokenShape, FolderShape
  <1> QED BY <1>1, <1>2, <1>5, <1>6, ShapesJoin

LEMMA FailShapes ==
    ASSUME Typed, Shapes, NEW w \in Uploader, NEW e \in Condition, Fail(w, e) PROVE Shapes'
  <1> DEFINE c == call[w]
  <1>1. c \in Call /\ call \in [Uploader -> Call] /\ c.pc # "idle" /\ CallShape(c) /\ Moves(w)
    BY CallIs DEF Fail, Moves, Shapes
  <1>2. /\ UNCHANGED <<kind, obj, used, folder, cache, pending>>
        /\ broken' = IF InPlace(c) /\ Writes(c) THEN broken \cup {PathOf(c)} ELSE broken
    BY DEF Fail, Same, Writes
  <1>3. CallShape(call[w])'
    <2>1. CASE c.direct
      <3>1. call'[w] = [c EXCEPT !.pc = "put", !.direct = FALSE] BY <1>1, <2>1 DEF Fail, Becomes
      <3>2. /\ call'[w].pc = "put" /\ ~call'[w].direct
            /\ call'[w].op = c.op /\ call'[w].dir = c.dir /\ call'[w].known = c.known
            /\ call'[w].id = c.id
        BY <1>1, <3>1 DEF Call
      <3> HIDE DEF c
      <3> QED BY <1>1, <1>2, <2>1, <3>2 DEF CallShape, Writes
    <2>2. CASE ~c.direct
      <3>1. \E f, pc : /\ call'[w] = [c EXCEPT !.cond = f, !.pc = pc]
                       /\ pc = IF kind \in ViaTemp /\ c.pc # "resolve" THEN "cleanup" ELSE "failed"
        BY <1>1, <2>2 DEF Fail, Becomes
      <3>2. OtherFields(call'[w], c)
            /\ call'[w].pc = IF kind \in ViaTemp /\ c.pc # "resolve" THEN "cleanup" ELSE "failed"
        BY <1>1, <3>1 DEF Call, OtherFields
      <3>3. CASE call'[w].pc = "failed" BY <1>1, <1>2, <3>2, <3>3, EndedShape
      <3>4. CASE call'[w].pc = "cleanup" /\ kind \in {"sftp", "smb"}
        <4> HIDE DEF c
        <4> QED BY <1>1, <1>2, <3>2, <3>4 DEF CallShape, Writes, OtherFields
      <3> QED BY <3>2, <3>3, <3>4, ViaTempIs
    <2> QED BY <2>1, <2>2
  <1>4. BrokenShape'
    <2>1. InPlace(c) /\ c.dir # 0 => kind = "ftp" BY <1>1 DEF InPlace, CallShape, Snapshots
    <2>2. BrokenShape BY DEF Shapes
    <2>3. \A f : <<FALSE, f>> = PathOf(c) => c.dir # 0 BY DEF PathOf, Snapshots
    <2> HIDE DEF c
    <2> QED BY <1>2, <2>1, <2>2, <2>3 DEF BrokenShape
  <1>5. CachesShape' /\ PendingShape' /\ FolderShape'
    BY <1>2 DEF Shapes, CachesShape, PendingShape, FolderShape
  <1> QED BY <1>1, <1>2, <1>3, <1>4, <1>5, ShapesJoin

LEMMA RetryShapes ==
    ASSUME Typed, Shapes, NEW w \in Uploader, Retry(w) PROVE Shapes'
  <1> DEFINE c == call[w]
  <1>1. /\ c \in Call /\ call \in [Uploader -> Call] /\ c.pc # "idle" /\ CallShape(c) /\ Moves(w)
        /\ c.op = "upload"
    BY CallIs DEF Retry, WillRetry, Moves, Step, Shapes
  <1>2. UNCHANGED <<kind, obj, used, folder, cache, pending, broken>> BY DEF Retry, Same
  <1>3. \E t, f, pc : /\ call'[w] = [c EXCEPT !.pc = pc, !.tries = t, !.cond = f]
                      /\ pc = IF c.known THEN "put" ELSE "resolve"
    BY <1>1 DEF Retry, Becomes
  <1>4. OtherFields(call'[w], c) /\ call'[w].pc = IF c.known THEN "put" ELSE "resolve"
    BY <1>1, <1>3 DEF Call, OtherFields
  <1>5. CallShape(call[w])'
    <2> HIDE DEF c
    <2> QED BY <1>1, <1>2, <1>4 DEF CallShape, OtherFields, Writes
  <1> QED BY <1>1, <1>2, <1>5, ShapesStay

LEMMA NoCallShape == used \in Nat => CallShape(NoCall)
  BY DEF CallShape, NoCall, Snapshots, Writes

LEMMA ReturnShapes ==
    ASSUME Typed, Shapes, NEW w \in Uploader, Return(w) PROVE Shapes'
  <1>1. call'[w] = NoCall BY CallIs DEF Return, Becomes
  <1>2. UNCHANGED <<kind, obj, used, folder, cache, pending, broken>> BY DEF Return, Same
  <1>3. CallShape(call[w])' BY <1>1, <1>2, CallIs, NoCallShape DEF CallShape
  <1> QED BY <1>2, <1>3, ShapesStay DEF Moves, Step

LEMMA KillShapes ==
    ASSUME Typed, Shapes, NEW p \in Process, Kill(p) PROVE Shapes'
  <1> DEFINE cut == {w \in Uploader : host[w] = p /\ Busy(w)}
  <1>1. UNCHANGED <<kind, obj, used, folder, pending, reader>> BY DEF Kill
  <1>2. ASSUME NEW w \in Uploader PROVE CallShape(call[w])'
    <2>1. call'[w] \in {NoCall, call[w]} BY DEF Kill
    <2>2. CallShape(call[w]) BY DEF Shapes
    <2> QED BY <1>1, <2>1, <2>2, CallIs, NoCallShape DEF CallShape
  <1>3. BrokenShape'
    <2>1. ASSUME NEW f \in File, NEW w \in cut, InPlace(call[w]), Writes(call[w]), <<FALSE, f>> = PathOf(call[w])
          PROVE  kind = "ftp"
      <3>1. CallShape(call[w]) BY DEF Shapes
      <3>2. call[w].dir # 0 BY <2>1 DEF PathOf, Snapshots
      <3> QED BY <2>1, <3>1, <3>2 DEF InPlace, CallShape, Snapshots
    <2>2. broken' = broken \cup {PathOf(call[w]) : w \in {x \in cut : InPlace(call[x]) /\
                                    call[x].pc \in {"first", "second", "publish"}}}
      BY DEF Kill
    <2>3. BrokenShape BY DEF Shapes
    <2> QED BY <1>1, <2>1, <2>2, <2>3 DEF BrokenShape, Writes
  <1>4. CachesShape' BY <1>1, RestFacts DEF CachesShape, Kill, Shapes
  <1>5. \A o \in obj' : ObjectShape(o)' BY <1>1 DEF Shapes, ObjectShape
  <1>6. PendingShape' /\ ReaderShape' /\ FolderShape'
    BY <1>1 DEF Shapes, PendingShape, ReaderShape, FolderShape
  <1> QED BY <1>2, <1>3, <1>4, <1>5, <1>6 DEF Shapes

LEMMA CopyLandsShapes ==
    ASSUME Typed, Shapes, NEW q \in pending, CopyLands(q) PROVE Shapes'
  <1> DEFINE x == [NoCall EXCEPT !.dir = Snapshots, !.name = q.name]
             n == [ObjectOf(x, FALSE) EXCEPT !.node = used + 1]
  <1>1. /\ UNCHANGED <<kind, folder, cache, reader, call, broken>> /\ used' = used + 1 /\ used \in Nat
        /\ obj' = (obj \ At(x, FALSE)) \cup {n} /\ pending' = pending \ {q}
    BY RestFacts DEF CopyLands, Store, Same
  <1>2. ASSUME NEW w \in Uploader PROVE CallShape(call[w])'
    <2>1. CallShape(call[w]) /\ call'[w] = call[w] BY <1>1 DEF Shapes
    <2> HIDE DEF n, x
    <2> QED BY <1>1, <2>1, CallIs DEF CallShape, Writes
  <1>3. n.node = used + 1 /\ n.id = 0 /\ n.dir = 0 /\ n.temp = FALSE
    BY DEF ObjectOf, NoCall, Snapshots
  <1>4. ASSUME NEW o \in obj' PROVE ObjectShape(o)'
    <2>1. CASE o \in obj
      <3>1. ObjectShape(o) BY <2>1 DEF Shapes
      <3> HIDE DEF n, x
      <3> QED BY <1>1, <2>1, <3>1, ObjectIs DEF ObjectShape
    <2>2. CASE o = n
      <3> HIDE DEF n, x
      <3> QED BY <1>1, <1>3, <2>2 DEF ObjectShape, Snapshots
    <2> QED BY <1>1, <2>1, <2>2
  <1>5. ReaderShape'
    <2>1. reader.pc # "idle" => reader.node \in Nat BY NodesNat DEF Typed, Node
    <2> HIDE DEF n, x
    <2> QED BY <1>1, <2>1 DEF ReaderShape, Shapes
  <1>6. CachesShape' /\ PendingShape' /\ FolderShape' /\ BrokenShape'
    <2> HIDE DEF n, x
    <2> QED BY <1>1 DEF Shapes, CachesShape, PendingShape, FolderShape, BrokenShape
  <1> QED BY <1>2, <1>4, <1>5, <1>6 DEF Shapes

\* Deletions, downloads and listings leave everything but objects and the reader alone.
LEMMA ClientShapes ==
    ASSUME Typed, Shapes, Apart, ~(\E q \in pending : CopyLands(q)) PROVE Shapes'
  <1>1. UNCHANGED <<kind, used, folder, cache, call, pending, broken>> /\ obj' \subseteq obj
    BY DEF Apart, Delete, BeginDownload, Download, EndDownload, BeginListing, ListRoot,
         ListEnds, EndListing, ListFolder, ListFails, Idle, vars
  <1>2. ReaderShape'
    <2>1. ASSUME NEW o \in Files, BeginDownload(o) PROVE ReaderShape'
      <3>1. o \in obj /\ ObjectShape(o) BY DEF Files, Shapes
      <3> QED BY <1>1, <2>1, <3>1 DEF BeginDownload, ReaderShape, ObjectShape, NoReader
    <2>2. CASE UNCHANGED reader BY <1>1, <2>2 DEF ReaderShape, Shapes
    <2>3. CASE Download \/ EndDownload
      <3>1. reader \in [pc : {"idle", "first", "second", "done"}, node : 0..MaxNodes,
                   name : File \cup {NoFile}, got : Content] BY DEF Typed, TypeOK
      <3>2. reader'.pc = "idle" \/ (reader'.node = reader.node /\ reader.pc # "idle")
        <4>1. CASE EndDownload BY <4>1 DEF EndDownload, NoReader
        <4>2. CASE Download
          <5>1. \E pc, b, x : reader' = [reader EXCEPT !.pc = pc, !.got[b] = x] BY <4>2 DEF Download
          <5>2. reader'.node = reader.node BY <3>1, <5>1
          <5> QED BY <4>2, <5>2 DEF Download
        <4> QED BY <2>3, <4>1, <4>2
      <3> QED BY <1>1, <3>2 DEF ReaderShape, Shapes
    <2> QED BY <2>1, <2>2, <2>3 DEF Apart, Delete, BeginListing, ListRoot,
         ListEnds, EndListing, ListFolder, ListFails, vars
  <1>3. \A w \in Uploader : CallShape(call[w])' BY <1>1 DEF Shapes, CallShape
  <1>4. \A o \in obj' : ObjectShape(o)' BY <1>1 DEF Shapes, ObjectShape
  <1>5. CachesShape' /\ PendingShape' /\ FolderShape' /\ BrokenShape'
    BY <1>1 DEF Shapes, CachesShape, PendingShape, FolderShape, BrokenShape
  <1> QED BY <1>2, <1>3, <1>4, <1>5 DEF Shapes

\* The steps of an uploader, with the backends they belong to.
LEMMA MovesCases ==
    ASSUME NEW w \in Uploader, Moves(w)
    PROVE  \/ (\E f \in File : BeginUpload(w, f)) \/ (\E o \in Files : BeginCopy(w, o))
           \/ FindFolder(w)
           \/ Overwrite(w) /\ Plain /\ (kind = "onedrive" => Uploads(w))
           \/ PutGoogleDrive(w)
           \/ Open(w) /\ InPlaceOrTemp
           \/ WriteBlock(w) \/ Rename(w) \/ Close(w) \/ Cleanup(w) \/ PostCopy(w) \/ WaitForCopy(w)
           \/ (\E e \in Condition : Fail(w, e)) \/ Retry(w) \/ Return(w)
  <1>1. Put(w) => \/ Overwrite(w) /\ Plain /\ (kind = "onedrive" => Uploads(w))
                  \/ PutGoogleDrive(w)
                  \/ Open(w) /\ InPlaceOrTemp
    BY DEF Put, PutDropbox, PutS3, PutWebDAV, PutOneDrive, OpenSftp, OpenSmb, OpenFtp, Plain, InPlaceOrTemp
  <1>2. Copy(w) => \/ Overwrite(w) /\ Plain /\ (kind = "onedrive" => Uploads(w))
                   \/ PostCopy(w)
                   \/ Open(w) /\ InPlaceOrTemp
    BY DEF Copy, CopyDropbox, CopyS3, CopyWebDAV, CopySftp, CopySmb, CopyFtp, Plain, InPlaceOrTemp
  <1> QED BY <1>1, <1>2 DEF Moves, Step

LEMMA ShapesStep == Typed /\ Shapes /\ [Next]_vars => Shapes'
  <1> SUFFICES ASSUME Typed, Shapes, [Next]_vars PROVE Shapes' OBVIOUS
  <1>1. ASSUME NEW w \in Uploader, Moves(w) PROVE Shapes'
    BY <1>1, MovesCases, BeginShapes, FindFolderShapes, OverwriteShapes, PutGoogleDriveShapes, OpenShapes,
       WriteBlockShapes, RenameShapes, EndShapes, PostCopyShapes, FailShapes, RetryShapes, ReturnShapes
  <1>2. CASE Apart BY <1>2, CopyLandsShapes, ClientShapes
  <1> QED BY <1>1, <1>2, KillShapes, NextCases

-----------------------------------------------------------------------------
(* Paths in dispute.                                                         *)

Clear(c) == PathOf(c) \notin overlap

\* Two calls that are busy with one path are in dispute; so are a call and a copy
\* that is still to land, unless the call is the one that waits for it.
Disputed ==
    /\ \A v, w \in Uploader :
          v # w /\ Busy(v) /\ Busy(w) /\ PathOf(call[v]) = PathOf(call[w]) => ~Clear(call[v])
    /\ \A q \in pending, w \in Uploader :
          Busy(w) /\ call[w].op = "copy" /\ call[w].name = q.name /\ Clear(call[w])
             => \/ call[w].pc = "waiting" /\ call[w].want = q.want
                \/ call[w].pc = "ok" /\ call[w].late

LEMMA DisputedInit == Init => Disputed
  BY DEF Init, Disputed, Busy, NoCall

\* What a call keeps from its beginning to its end.
Kept(d, c) ==
    /\ d.op = c.op /\ d.name = c.name /\ d.want = c.want /\ d.known = c.known /\ d.id = c.id
    /\ PathOf(d) = PathOf(c)

Begun(w) ==
    /\ call[w].pc = "idle" /\ call'[w].pc \in {"resolve", "put"}
    /\ overlap' = Overlaps(w, PathOf(call'[w])) /\ UNCHANGED <<obj, data, used, pending, broken, left>>

Going(w) ==
    /\ call[w].pc \notin {"idle", "ok", "waiting"} /\ call'[w].pc # "idle" /\ Kept(call'[w], call[w])
    /\ overlap \subseteq overlap'

Ended(w) ==
    /\ call'[w] = NoCall /\ call[w].pc # "idle"
    /\ UNCHANGED <<obj, data, used, pending, broken, left, overlap, blind>>

Waited(w) ==
    /\ WaitForCopy(w) /\ call[w].pc = "waiting" /\ call'[w].pc \in {"ok", "failed"}
    /\ Kept(call'[w], call[w]) /\ UNCHANGED overlap

LEMMA OtherFieldsKept ==
    ASSUME NEW c, NEW d, OtherFields(d, c) PROVE Kept(d, c)
  BY DEF OtherFields, Kept, PathOf

\* The life of a call.
LEMMA CallLife ==
    ASSUME Typed, Shapes, NEW w \in Uploader, Moves(w)
    PROVE  Begun(w) \/ Going(w) \/ Ended(w) \/ Waited(w)
  <1> DEFINE c == call[w]
  <1>1. c \in Call /\ call \in [Uploader -> Call] /\ CallShape(c) BY CallIs DEF Shapes
  <1>2. CASE \E f \in File : BeginUpload(w, f)
    <2> PICK f \in File : BeginUpload(w, f) BY <1>2
    <2> DEFINE b == [NoCall EXCEPT !.name = f, !.want = [x \in 1..2 |-> calls + 1]]
    <2>1. /\ c.pc = "idle" /\ overlap' = Overlaps(w, PathOf(b))
          /\ UNCHANGED <<obj, data, used, pending, broken, left>>
      BY DEF BeginUpload, MayBegin, Busy
    <2>2. \/ call'[w] = [b EXCEPT !.pc = "resolve"]
          \/ \E o \in At(b, FALSE) :
               call'[w] = [b EXCEPT !.pc = "put", !.known = TRUE, !.id = o.id, !.dir = o.dir]
      BY <1>1 DEF BeginUpload, Becomes
    <2>3. b.dir = 1 /\ b.name = f BY DEF NoCall
    <2>4. PathOf(call'[w]) = PathOf(b) /\ call'[w].pc \in {"resolve", "put"}
      <3>1. CASE call'[w] = [b EXCEPT !.pc = "resolve"] BY <3>1 DEF PathOf, NoCall
      <3>2. ASSUME NEW o \in At(b, FALSE),
                   call'[w] = [b EXCEPT !.pc = "put", !.known = TRUE, !.id = o.id, !.dir = o.dir]
            PROVE  PathOf(call'[w]) = PathOf(b) /\ call'[w].pc \in {"resolve", "put"}
        <4>1. PathOf(o) = PathOf(b) BY DEF At
        <4>2. call'[w].dir = o.dir /\ call'[w].name = b.name /\ call'[w].pc = "put" BY <3>2 DEF NoCall
        <4> HIDE DEF b
        <4> QED BY <4>1, <4>2 DEF PathOf
      <3> QED BY <2>2, <3>1, <3>2
    <2> QED BY <2>1, <2>4 DEF Begun
  <1>3. CASE \E o \in Files : BeginCopy(w, o)
    <2> PICK o \in Files : BeginCopy(w, o) BY <1>3
    <2> DEFINE b == [NoCall EXCEPT !.name = o.name, !.op = "copy", !.dir = Snapshots, !.pc = "put",
                            !.want = data[o.node], !.direct = (kind = "sftp")]
    <2>1. /\ c.pc = "idle" /\ overlap' = Overlaps(w, PathOf(b)) /\ call'[w] = b
          /\ UNCHANGED <<obj, data, used, pending, broken, left>>
      BY <1>1 DEF BeginCopy, MayBegin, Busy, Becomes
    <2>2. b.pc = "put" BY DEF NoCall
    <2> QED BY <2>1, <2>2 DEF Begun
  <1>4. CASE FindFolder(w)
    <2>1. c.pc \in {"resolve", "query", "create"} /\ c.op = "upload" /\ overlap \subseteq overlap'
      BY <1>1, <1>4 DEF FindFolder, ResolveDropbox, ResolveOneDrive, ResolveWebDAV, ResolveSftp, ResolveFtp,
                ResolveSmb, ResolveS3, Resolve, LookInCache, QueryFolder, CreateFolder, CallShape
    <2>2. folder' \subseteq FolderId /\ folder \subseteq FolderId /\ cache \in [Process -> {0} \cup FolderId]
          /\ host \in [Uploader -> Process]
      BY <1>4, FindFolderTyped, RestFacts DEF Typed, TypeOK
    <2>3. \/ \E d \in FolderId : call'[w] = [c EXCEPT !.pc = "put", !.dir = d]
          \/ \E pc \in {"put", "query", "create"} : call'[w] = [c EXCEPT !.pc = pc]
          \/ call'[w] = [c EXCEPT !.pc = "failed", !.cond = "network"]
      <3>1. CASE Resolve(w) BY <1>1, <3>1 DEF Resolve, Becomes
      <3>2. CASE LookInCache(w)
        <4>1. cache[host[w]] # 0 => cache[host[w]] \in FolderId BY <2>2
        <4> QED BY <1>1, <3>2, <4>1 DEF LookInCache, Becomes
      <3>3. CASE QueryFolder(w) BY <1>1, <2>2, <3>3 DEF QueryFolder, Becomes
      <3>4. CASE CreateFolder(w) BY <1>1, <3>4 DEF CreateFolder, Becomes
      <3> QED BY <1>4, <3>1, <3>2, <3>3, <3>4 DEF FindFolder, ResolveDropbox, ResolveOneDrive,
               ResolveWebDAV, ResolveSftp, ResolveFtp, ResolveSmb, ResolveS3
    <2>4. CASE \E d \in FolderId : call'[w] = [c EXCEPT !.pc = "put", !.dir = d]
      <3> PICK d \in FolderId : call'[w] = [c EXCEPT !.pc = "put", !.dir = d] BY <2>4
      <3>1. c.dir # 0 /\ d # 0 BY <1>1, <2>1 DEF CallShape, Snapshots, FolderId
      <3>2. /\ call'[w].op = c.op /\ call'[w].name = c.name /\ call'[w].want = c.want
            /\ call'[w].known = c.known /\ call'[w].id = c.id /\ call'[w].dir = d /\ call'[w].pc = "put"
        BY <1>1 DEF Call
      <3> HIDE DEF c
      <3>3. Kept(call'[w], c) BY <3>1, <3>2 DEF Kept, PathOf, Snapshots
      <3> QED BY <2>1, <3>2, <3>3 DEF Going, c
    <2>5. CASE \E pc \in {"put", "query", "create"} : call'[w] = [c EXCEPT !.pc = pc]
      <3>1. OtherFields(call'[w], c) /\ call'[w].pc \in {"put", "query", "create"}
        BY <1>1, <2>5 DEF Call, OtherFields
      <3> QED BY <2>1, <3>1, OtherFieldsKept DEF Going
    <2>6. CASE call'[w] = [c EXCEPT !.pc = "failed", !.cond = "network"]
      <3>1. OtherFields(call'[w], c) /\ call'[w].pc = "failed" BY <1>1, <2>6 DEF Call, OtherFields
      <3> QED BY <2>1, <3>1, OtherFieldsKept DEF Going
    <2> QED BY <2>3, <2>4, <2>5, <2>6
  <1>5. CASE Overwrite(w)
    <2>1. c.pc = "put" /\ Replied(w, c, FALSE) /\ UNCHANGED overlap BY <1>5 DEF Overwrite, Same
    <2> QED BY <2>1, RepliedEnds, OtherFieldsKept DEF Going
  <1>6. CASE PutGoogleDrive(w)
    <2>1. c.pc = "put" /\ UNCHANGED overlap BY <1>6 DEF PutGoogleDrive, Same
    <2>2. CASE Replied(w, c, ~c.known) BY <2>1, <2>2, RepliedEnds, OtherFieldsKept DEF Going
    <2>3. CASE Becomes(w, [c EXCEPT !.pc = "failed", !.cond = "missing"])
      <3>1. call'[w] = [c EXCEPT !.pc = "failed", !.cond = "missing"] BY <1>1, <2>3 DEF Becomes
      <3>2. OtherFields(call'[w], c) /\ call'[w].pc = "failed" BY <1>1, <3>1 DEF Call, OtherFields
      <3> QED BY <2>1, <3>2, OtherFieldsKept DEF Going
    <2> QED BY <1>6, <2>2, <2>3 DEF PutGoogleDrive
  <1>7. CASE Open(w)
    <2>1. c.pc = "put" /\ UNCHANGED overlap BY <1>7 DEF Open, Same
    <2>2. \E n : call'[w] = [c EXCEPT !.pc = "first", !.node = n] BY <1>1, <1>7 DEF Open, Becomes
    <2>3. OtherFields(call'[w], c) /\ call'[w].pc = "first" BY <1>1, <2>2 DEF Call, OtherFields
    <2> QED BY <2>1, <2>3, OtherFieldsKept DEF Going
  <1>8. CASE WriteBlock(w) \/ Rename(w) \/ Close(w) \/ Cleanup(w) \/ PostCopy(w)
    <2>1. c.pc \in {"first", "second", "publish", "cleanup", "put"} /\ UNCHANGED overlap
      BY <1>8 DEF WriteBlock, Rename, Close, Cleanup, PostCopy, Same
    <2>2. \/ \E pc \in PC \ {"idle"} : call'[w] = [c EXCEPT !.pc = pc]
          \/ \E e : call'[w] = [c EXCEPT !.pc = "cleanup", !.cond = e]
      BY <1>1, <1>8 DEF WriteBlock, Rename, Close, Cleanup, PostCopy, Becomes, PC
    <2>3. CASE \E pc \in PC \ {"idle"} : call'[w] = [c EXCEPT !.pc = pc]
      <3>1. OtherFields(call'[w], c) /\ call'[w].pc # "idle" BY <1>1, <2>3 DEF Call, OtherFields
      <3> QED BY <2>1, <3>1, OtherFieldsKept DEF Going
    <2>4. CASE \E e : call'[w] = [c EXCEPT !.pc = "cleanup", !.cond = e]
      <3>1. OtherFields(call'[w], c) /\ call'[w].pc # "idle" BY <1>1, <2>4 DEF Call, OtherFields
      <3> QED BY <2>1, <3>1, OtherFieldsKept DEF Going
    <2> QED BY <2>2, <2>3, <2>4
  <1>9. CASE WaitForCopy(w)
    <2>1. c.pc = "waiting" /\ UNCHANGED overlap BY <1>9 DEF WaitForCopy, Same
    <2>2. CASE \E l : call'[w] = [c EXCEPT !.pc = "ok", !.late = l]
      <3>1. OtherFields(call'[w], c) /\ call'[w].pc = "ok" BY <1>1, <2>2 DEF Call, OtherFields
      <3> QED BY <1>9, <2>1, <3>1, OtherFieldsKept DEF Waited
    <2>3. CASE call'[w] = [c EXCEPT !.pc = "failed", !.cond = "odd"]
      <3>1. OtherFields(call'[w], c) /\ call'[w].pc = "failed" BY <1>1, <2>3 DEF Call, OtherFields
      <3> QED BY <1>9, <2>1, <3>1, OtherFieldsKept DEF Waited
    <2> QED BY <1>1, <1>9, <2>2, <2>3 DEF WaitForCopy, Becomes
  <1>10. CASE \E e \in Condition : Fail(w, e)
    <2> PICK e \in Condition : Fail(w, e) BY <1>10
    <2>1. c.pc \notin {"idle", "ok", "waiting"} /\ UNCHANGED overlap BY DEF Fail, Same
    <2>2. CASE call'[w] = [c EXCEPT !.pc = "put", !.direct = FALSE]
      <3>1. /\ call'[w].op = c.op /\ call'[w].name = c.name /\ call'[w].want = c.want
            /\ call'[w].known = c.known /\ call'[w].id = c.id /\ call'[w].dir = c.dir /\ call'[w].pc = "put"
        BY <1>1, <2>2 DEF Call
      <3>2. Kept(call'[w], c) BY <3>1 DEF Kept, PathOf
      <3> QED BY <2>1, <3>1, <3>2 DEF Going
    <2>3. CASE \E f, pc : call'[w] = [c EXCEPT !.cond = f, !.pc = pc] /\ pc \in {"cleanup", "failed"}
      <3>1. OtherFields(call'[w], c) /\ call'[w].pc # "idle" BY <1>1, <2>3 DEF Call, OtherFields
      <3> QED BY <2>1, <3>1, OtherFieldsKept DEF Going
    <2> QED BY <1>1, <2>2, <2>3 DEF Fail, Becomes
  <1>11. CASE Retry(w)
    <2>1. c.pc = "failed" /\ UNCHANGED overlap BY <1>11 DEF Retry, WillRetry, Same
    <2>2. \E t, f, pc : call'[w] = [c EXCEPT !.pc = pc, !.tries = t, !.cond = f] /\ pc \in {"put", "resolve"}
      BY <1>1, <1>11 DEF Retry, Becomes
    <2>3. OtherFields(call'[w], c) /\ call'[w].pc # "idle" BY <1>1, <2>2 DEF Call, OtherFields
    <2> QED BY <2>1, <2>3, OtherFieldsKept DEF Going
  <1>12. CASE Return(w) BY <1>1, <1>12 DEF Return, Becomes, Same, Ended
  <1> QED BY <1>2, <1>3, <1>4, <1>5, <1>6, <1>7, <1>8, <1>9, <1>10, <1>11, <1>12, MovesCases

\* A copy goes to the path of its name in the folder of the snapshot.
LEMMA CopyPath ==
    ASSUME Typed, Shapes, NEW w \in Uploader, call[w].op = "copy"
    PROVE  PathOf(call[w]) = <<TRUE, call[w].name>>
  <1>1. CallShape(call[w]) BY DEF Shapes
  <1> QED BY <1>1 DEF CallShape, PathOf

LEMMA PendingPath == \A q : PathOf([dir |-> Snapshots, name |-> q.name]) = <<TRUE, q.name>>
  BY DEF PathOf

LEMMA DisputedMoves ==
    ASSUME Typed, Shapes, Disputed, NEW w \in Uploader, Moves(w), Shapes', Typed' PROVE Disputed'
  <1> DEFINE c == call[w]
             d == call'[w]
  <1>1. /\ \A x \in Uploader \ {w} : call'[x] = call[x]
        /\ Begun(w) \/ Going(w) \/ Ended(w) \/ Waited(w)
    BY OneMoves, CallLife
  <1>2. overlap \subseteq overlap' BY <1>1 DEF Begun, Going, Ended, Waited, Overlaps
  <1>n. NoCall.pc = "idle" BY DEF NoCall
  <1>3. ASSUME NEW x \in Uploader \ {w}, Busy(x)', Busy(w)', PathOf(call'[x]) = PathOf(d)
        PROVE  ~Clear(call[x])' /\ ~Clear(call[w])'
    <2>1. Busy(x) /\ call'[x] = call[x] BY <1>1, <1>3 DEF Busy
    <2>2. CASE Begun(w) BY <1>3, <2>1, <2>2 DEF Begun, Overlaps, Clear
    <2>3. CASE Going(w) \/ Waited(w)
      <3>1. PathOf(d) = PathOf(c) /\ Busy(w) BY <2>3 DEF Going, Waited, Kept, Busy
      <3> QED BY <1>2, <1>3, <2>1, <3>1 DEF Disputed, Clear
    <2>4. CASE Ended(w) BY <1>3, <1>n, <2>4 DEF Ended, Busy
    <2> QED BY <1>1, <2>2, <2>3, <2>4
  <1>4. ASSUME NEW v \in Uploader, NEW x \in Uploader, v # x, Busy(v)', Busy(x)',
               PathOf(call'[v]) = PathOf(call'[x])
        PROVE  ~Clear(call[v])'
    <2>1. CASE v # w /\ x # w
      <3>1. call'[v] = call[v] /\ call'[x] = call[x] BY <1>1, <2>1
      <3> QED BY <1>2, <1>4, <3>1 DEF Disputed, Clear, Busy
    <2> QED BY <1>3, <1>4, <2>1
  <1>5. ASSUME NEW q \in pending', NEW x \in Uploader, Busy(x)', call'[x].op = "copy",
               call'[x].name = q.name, Clear(call[x])'
        PROVE  \/ call'[x].pc = "waiting" /\ call'[x].want = q.want
               \/ call'[x].pc = "ok" /\ call'[x].late
    <2>0. PathOf(call'[x]) = <<TRUE, q.name>>
      <3>1. CallShape(call[x])' BY DEF Shapes
      <3> QED BY <1>5, <3>1 DEF CallShape, PathOf
    <2>1. CASE q \in pending /\ x # w
      <3>1. call'[x] = call[x] BY <1>1, <2>1
      <3> QED BY <1>2, <1>5, <2>1, <3>1 DEF Disputed, Clear, Busy
    <2>2. CASE q \in pending /\ x = w
      <3>1. CASE Begun(w)
        <4>1. Awaited(PathOf(d)) BY <2>0, <2>2, PendingPath DEF Awaited
        <4> QED BY <1>5, <2>2, <3>1, <4>1 DEF Begun, Overlaps, Clear
      <3>2. CASE Going(w)
        <4>1. Busy(w) /\ c.op = "copy" /\ c.name = q.name /\ Clear(c)
          BY <1>2, <1>5, <2>2, <3>2 DEF Going, Kept, Clear, Busy
        <4> QED BY <2>2, <3>2, <4>1 DEF Disputed, Going
      <3>3. CASE Ended(w) BY <1>5, <1>n, <2>2, <3>3 DEF Ended, Busy
      <3>4. CASE Waited(w)
        <4>1. Busy(w) /\ c.op = "copy" /\ c.name = q.name /\ Clear(c) /\ d.want = c.want
          BY <1>2, <1>5, <2>2, <3>4 DEF Waited, Kept, Clear, Busy
        <4>2. c.want = q.want BY <2>2, <3>4, <4>1 DEF Disputed, Waited
        <4>3. q = [name |-> c.name, want |-> c.want] BY <2>2, <4>1, <4>2, RestFacts
        <4>4. c \in Call /\ call \in [Uploader -> Call] BY CallIs
        <4>5. d = [c EXCEPT !.pc = "ok", !.late = TRUE]
          BY <1>5, <3>4, <4>3, <4>4, <2>2 DEF Waited, WaitForCopy, Becomes
        <4>6. d.pc = "ok" /\ d.late BY <4>4, <4>5 DEF Call
        <4> QED BY <2>2, <4>6
      <3> QED BY <1>1, <3>1, <3>2, <3>3, <3>4
    <2>3. CASE q \notin pending
      <3>1. PostCopy(w) /\ q = [name |-> c.name, want |-> c.want]
        <4>1. pending' \subseteq pending \/ PostCopy(w)
          BY MovesCases DEF BeginUpload, BeginCopy, Overwrite, PutGoogleDrive, Open, WriteBlock, Rename, Close,
             Cleanup, WaitForCopy, Fail, Retry, Return, FindFolder, ResolveDropbox, ResolveOneDrive,
             ResolveWebDAV, ResolveSftp, ResolveFtp, ResolveSmb, ResolveS3, Resolve, LookInCache,
             QueryFolder, CreateFolder
        <4>2. PostCopy(w) BY <2>3, <4>1
        <4> QED BY <2>3, <4>2 DEF PostCopy
      <3>2. c \in Call /\ call \in [Uploader -> Call] BY CallIs
      <3>3. d = [c EXCEPT !.pc = "waiting"] BY <3>1, <3>2 DEF PostCopy, Becomes
      <3>4. d.pc = "waiting" /\ d.want = c.want /\ d.name = c.name /\ d.op = c.op /\ d.dir = c.dir
        BY <3>2, <3>3 DEF Call
      <3>5. CASE x = w BY <3>1, <3>4, <3>5
      <3>6. CASE x # w
        <4>1. PathOf(d) = PathOf(c) BY <3>4 DEF PathOf
        <4>2. PathOf(c) = <<TRUE, q.name>> BY <3>1, CopyPath DEF PostCopy
        <4>3. Busy(w)' BY <3>4 DEF Busy
        <4> QED BY <1>3, <1>5, <2>0, <3>6, <4>1, <4>2, <4>3
      <3> QED BY <3>5, <3>6
    <2> QED BY <2>1, <2>2, <2>3
  <1> QED BY <1>4, <1>5 DEF Disputed

\* What the other steps do to calls, to pending copies and to paths in dispute.
LEMMA OthersMove ==
    ASSUME Typed, Apart \/ \E p \in Process : Kill(p)
    PROVE  /\ \A w \in Uploader : call'[w] \in {call[w], NoCall}
           /\ pending' \subseteq pending /\ overlap \subseteq overlap'
           /\ UNCHANGED <<kind, host, folder, blind>>
           /\ left \subseteq left' /\ broken \subseteq broken'
  <1>1. CASE Apart
    BY <1>1 DEF Apart, CopyLands, Same, Delete, BeginDownload, Download, EndDownload, BeginListing, ListRoot,
         ListEnds, EndListing, ListFolder, ListFails, Idle, vars
  <1>2. ASSUME NEW p \in Process, Kill(p) 
        PROVE  /\ \A w \in Uploader : call'[w] \in {call[w], NoCall}
               /\ pending' \subseteq pending /\ overlap \subseteq overlap'
               /\ UNCHANGED <<kind, host, folder, blind>>
               /\ left \subseteq left' /\ broken \subseteq broken'
    BY <1>2 DEF Kill
  <1> QED BY <1>1, <1>2

LEMMA DisputedStep == Typed /\ Shapes /\ Disputed /\ [Next]_vars => Disputed'
  <1> SUFFICES ASSUME Typed, Shapes, Disputed, [Next]_vars PROVE Disputed' OBVIOUS
  <1>1. CASE Apart \/ \E p \in Process : Kill(p)
    <2>1. NoCall.pc = "idle" BY DEF NoCall
    <2> QED BY <1>1, <2>1, OthersMove DEF Disputed, Busy, Clear
  <1> QED BY <1>1, DisputedMoves, NextCases, ShapesStep, TypedStep

-----------------------------------------------------------------------------
(* What the steps do to the objects.                                         *)

\* A new object n with content v takes the place of those in old.
Stores(old, n, v) ==
    /\ used' = used + 1 /\ n \in Object /\ n.node = used + 1
    /\ obj' = (obj \ old) \cup {n}
    /\ data'[n.node] = v /\ \A m \in 1..used : data'[m] = data[m]

LEMMA StoreStores ==
    ASSUME Typed, NEW old, NEW x \in Object, NEW v \in Content, Store(old, x, v)
    PROVE  LET n == [x EXCEPT !.node = used + 1]
           IN Stores(old, n, v) /\ n.id = x.id /\ n.dir = x.dir /\ n.name = x.name /\ n.temp = x.temp
  <1> DEFINE n == [x EXCEPT !.node = used + 1]
  <1>1. /\ used < MaxNodes /\ used' = used + 1 /\ obj' = (obj \ old) \cup {n}
        /\ data' = [data EXCEPT ![used + 1] = v]
    BY DEF Store
  <1>2. used \in 0..MaxNodes /\ data \in [Node -> Content] BY DEF Typed, TypeOK
  <1>3. used + 1 \in Node /\ used \in Nat BY <1>1, <1>2, NodesNat DEF Node
  <1>4. n \in Object /\ n.node = used + 1 /\ n.id = x.id /\ n.dir = x.dir /\ n.name = x.name
        /\ n.temp = x.temp
    BY <1>3 DEF Object
  <1>5. \A m \in 1..used : m \in Node /\ m # used + 1 BY <1>2, <1>3, NodesNat DEF Node
  <1> HIDE DEF n
  <1>6. data'[n.node] = v /\ \A m \in 1..used : data'[m] = data[m] BY <1>1, <1>2, <1>3, <1>4, <1>5
  <1>7. Stores(old, n, v) BY <1>1, <1>4, <1>6 DEF Stores
  <1> QED BY <1>4, <1>7 DEF n

LEMMA OverwriteDoes ==
    ASSUME Typed, NEW w \in Uploader, Overwrite(w)
    PROVE  \E n : /\ Stores(At(call[w], FALSE), n, call[w].want)
                  /\ n.temp = FALSE /\ n.dir = call[w].dir /\ n.name = call[w].name
                  /\ PathOf(n) = PathOf(call[w])
  <1> DEFINE c == call[w]
             x == ObjectOf(c, FALSE)
             n == [x EXCEPT !.node = used + 1]
  <1>1. Store(At(c, FALSE), x, c.want) /\ used < MaxNodes /\ c.pc = "put" BY DEF Overwrite, Store
  <1>2. c \in Call /\ c.name \in File /\ c.want \in Content BY <1>1, CallIs
  <1>3. x \in Object BY <1>1, <1>2, ObjectOfTyped
  <1>4. x.temp = FALSE /\ x.dir = c.dir /\ x.name = c.name BY DEF ObjectOf
  <1> HIDE DEF x
  <1>5. Stores(At(c, FALSE), n, c.want) /\ n.dir = x.dir /\ n.name = x.name /\ n.temp = x.temp
    BY <1>1, <1>2, <1>3, StoreStores
  <1> HIDE DEF n
  <1>6. PathOf(n) = PathOf(c) BY <1>4, <1>5 DEF PathOf
  <1> QED BY <1>4, <1>5, <1>6

LEMMA CopyLandsDoes ==
    ASSUME Typed, NEW q \in pending, CopyLands(q)
    PROVE  \E n : /\ Stores({o \in obj : PathOf(o) = <<TRUE, q.name>> /\ o.temp = FALSE}, n, q.want)
                  /\ n.temp = FALSE /\ n.dir = Snapshots /\ n.name = q.name
                  /\ PathOf(n) = <<TRUE, q.name>>
  <1> DEFINE c == [NoCall EXCEPT !.dir = Snapshots, !.name = q.name]
             x == ObjectOf(c, FALSE)
             n == [x EXCEPT !.node = used + 1]
  <1>1. Store(At(c, FALSE), x, q.want) /\ used < MaxNodes BY DEF CopyLands, Store
  <1>2. q.name \in File /\ q.want \in Content BY RestFacts
  <1>3. c \in Call /\ c.name = q.name /\ c.dir = Snapshots BY <1>2, TypesOfCalls DEF Call
  <1> HIDE DEF c
  <1>4. PathOf(c) = <<TRUE, q.name>> BY <1>3 DEF PathOf
  <1>5. x \in Object BY <1>1, <1>2, <1>3, ObjectOfTyped
  <1>6. x.temp = FALSE /\ x.dir = Snapshots /\ x.name = q.name BY <1>3 DEF ObjectOf
  <1> HIDE DEF x
  <1>7. Stores(At(c, FALSE), n, q.want) /\ n.dir = x.dir /\ n.name = x.name /\ n.temp = x.temp
    BY <1>1, <1>2, <1>5, StoreStores
  <1> HIDE DEF n
  <1>8. PathOf(n) = <<TRUE, q.name>> BY <1>6, <1>7 DEF PathOf
  <1>9. At(c, FALSE) = {o \in obj : PathOf(o) = <<TRUE, q.name>> /\ o.temp = FALSE} BY <1>4 DEF At
  <1> QED BY <1>6, <1>7, <1>8, <1>9

LEMMA PutGoogleDriveDoes ==
    ASSUME Typed, Shapes, NEW w \in Uploader, PutGoogleDrive(w)
    PROVE  \/ UNCHANGED <<obj, data, used, blind>> /\ call'[w].pc = "failed" /\ call[w].known
           \/ /\ call[w].known /\ Replied(w, call[w], FALSE)
              /\ \E n, x : /\ x \in obj /\ x.id = call[w].id
                           /\ Stores({o \in obj : o.id = call[w].id}, n, call[w].want)
                           /\ n.temp = FALSE /\ n.dir = x.dir /\ n.name = x.name /\ n.id = x.id
           \/ /\ ~call[w].known /\ Replied(w, call[w], TRUE)
              /\ \E n : /\ Stores({}, n, call[w].want)
                        /\ n.temp = FALSE /\ n.dir = call[w].dir /\ n.name = call[w].name
                        /\ n.id = used + 1 /\ PathOf(n) = PathOf(call[w])
  <1> DEFINE c == call[w]
             old == {o \in obj : o.id = c.id /\ c.known}
  <1>1. c.pc = "put" /\ c \in Call /\ c.name \in File /\ c.want \in Content /\ call \in [Uploader -> Call]
        /\ c.known \in BOOLEAN /\ kind = "googledrive"
    BY CallIs DEF PutGoogleDrive
  <1>2. CASE c.known /\ old = {}
    <2>1. call'[w] = [c EXCEPT !.pc = "failed", !.cond = "missing"] /\ UNCHANGED <<obj, data, used, blind>>
      BY <1>1, <1>2 DEF PutGoogleDrive, Becomes
    <2>2. call'[w].pc = "failed" BY <1>1, <2>1 DEF Call
    <2> QED BY <1>2, <2>1, <2>2
  <1>3. CASE c.known /\ old # {}
    <2> DEFINE x == CHOOSE o \in old : TRUE
               n == [x EXCEPT !.node = used + 1]
    <2>1. Store(old, x, c.want) /\ Replied(w, c, FALSE) BY <1>3 DEF PutGoogleDrive
    <2>2. x \in old BY <1>3
    <2> HIDE DEF x
    <2>3. x \in obj /\ x.id = c.id /\ x \in Object /\ ObjectShape(x) /\ x.temp \in BOOLEAN
      BY <2>2, ObjectIs DEF Shapes
    <2>4. x.temp = FALSE BY <1>1, <2>3 DEF ObjectShape
    <2>5. Stores(old, n, c.want) /\ n.id = x.id /\ n.dir = x.dir /\ n.name = x.name /\ n.temp = x.temp
      BY <1>1, <2>1, <2>3, StoreStores
    <2>6. old = {o \in obj : o.id = c.id} BY <1>3
    <2> HIDE DEF n, old
    <2> QED BY <1>3, <2>1, <2>3, <2>4, <2>5, <2>6
  <1>4. CASE ~c.known
    <2> DEFINE x == [ObjectOf(c, FALSE) EXCEPT !.id = used + 1]
               n == [x EXCEPT !.node = used + 1]
    <2>1. Store(old, x, c.want) /\ Replied(w, c, TRUE) /\ used < MaxNodes
      BY <1>1, <1>4 DEF PutGoogleDrive, Store
    <2>2. x \in Object BY <1>1, <2>1, ObjectOfTyped
    <2>3. x.temp = FALSE /\ x.dir = c.dir /\ x.name = c.name /\ x.id = used + 1 BY DEF ObjectOf
    <2> HIDE DEF x
    <2>4. Stores(old, n, c.want) /\ n.id = x.id /\ n.dir = x.dir /\ n.name = x.name /\ n.temp = x.temp
      BY <1>1, <2>1, <2>2, StoreStores
    <2>5. old = {} BY <1>4
    <2> HIDE DEF n, old
    <2>6. PathOf(n) = PathOf(c) BY <2>3, <2>4 DEF PathOf
    <2> QED BY <1>4, <2>1, <2>3, <2>4, <2>5, <2>6
  <1> QED BY <1>1, <1>2, <1>3, <1>4

OpensNew(w, n) ==
    /\ At(call[w], ~InPlace(call[w])) = {}
    /\ Stores({}, n, NoCall.want) /\ PathOf(n) = PathOf(call[w]) /\ n.dir = call[w].dir
    /\ n.name = call[w].name /\ (n.temp <=> ~InPlace(call[w])) /\ call'[w].node = n.node

OpensOld(w, o) ==
    /\ PathOf(o) = PathOf(call[w]) /\ (o.temp <=> ~InPlace(call[w])) /\ call'[w].node = o.node
    /\ data' = [data EXCEPT ![o.node] = NoCall.want] /\ UNCHANGED <<obj, used>>

LEMMA OpenDoes ==
    ASSUME Typed, NEW w \in Uploader, Open(w)
    PROVE  /\ call[w].pc = "put" /\ call'[w].pc = "first" /\ OtherFields(call'[w], call[w])
           /\ (\E n : OpensNew(w, n)) \/ (\E o \in obj : OpensOld(w, o))
  <1> DEFINE c == call[w]
             there == At(c, ~InPlace(c))
             x == ObjectOf(c, ~InPlace(c))
             n == [x EXCEPT !.node = used + 1]
  <1>1. c.pc = "put" /\ c \in Call /\ c.name \in File /\ call \in [Uploader -> Call] /\ c.direct \in BOOLEAN
    BY CallIs DEF Open
  <1>2. CASE there = {} /\ Store({}, x, NoCall.want) /\ call'[w] = [c EXCEPT !.pc = "first", !.node = used + 1]
    <2>1. NoCall.want \in Content BY DEF NoCall, Content
    <2>2. used < MaxNodes BY <1>2 DEF Store
    <2>3. x \in Object BY <1>1, <2>2, ObjectOfTyped DEF InPlace
    <2>4. (x.temp <=> ~InPlace(c)) /\ x.dir = c.dir /\ x.name = c.name BY DEF ObjectOf
    <2>5. call'[w].pc = "first" /\ call'[w].node = used + 1 /\ OtherFields(call'[w], c)
      BY <1>1, <1>2 DEF Call, OtherFields
    <2> HIDE DEF x
    <2>6. Stores({}, n, NoCall.want) /\ n.dir = x.dir /\ n.name = x.name /\ n.temp = x.temp
      BY <1>2, <2>1, <2>3, StoreStores
    <2> HIDE DEF n
    <2>7. PathOf(n) = PathOf(c) /\ n.node = used + 1 BY <2>4, <2>6 DEF PathOf, Stores
    <2>8. OpensNew(w, n) BY <1>2, <2>4, <2>5, <2>6, <2>7 DEF OpensNew
    <2> QED BY <1>1, <2>5, <2>8
  <1>3. ASSUME NEW o \in there, data' = [data EXCEPT ![o.node] = NoCall.want],
               call'[w] = [c EXCEPT !.pc = "first", !.node = o.node], UNCHANGED <<obj, used>>
        PROVE  /\ c.pc = "put" /\ call'[w].pc = "first" /\ OtherFields(call'[w], c)
               /\ \E q \in obj : OpensOld(w, q)
    <2>1. call'[w].pc = "first" /\ call'[w].node = o.node /\ OtherFields(call'[w], c)
      BY <1>1, <1>3 DEF Call, OtherFields
    <2>2. o \in obj /\ PathOf(o) = PathOf(c) /\ (o.temp <=> ~InPlace(c)) BY DEF At
    <2>3. OpensOld(w, o) BY <1>3, <2>1, <2>2 DEF OpensOld
    <2> QED BY <1>1, <2>1, <2>2, <2>3
  <1> QED BY <1>1, <1>2, <1>3 DEF Open, Becomes

Renames(w, o, n) ==
    /\ o \in obj /\ PathOf(o) = PathOf(call[w]) /\ o.temp
    /\ n \in Object /\ n.node = o.node /\ n.dir = o.dir /\ n.name = o.name /\ n.temp = FALSE
    /\ PathOf(n) = PathOf(call[w])
    /\ obj' = {q \in obj : PathOf(q) # PathOf(call[w])} \cup {n}

LEMMA RenameDoes ==
    ASSUME Typed, NEW w \in Uploader, Rename(w)
    PROVE  /\ call[w].pc = "publish" /\ ~InPlace(call[w]) /\ OtherFields(call'[w], call[w])
           /\ UNCHANGED <<data, used, pending, left, broken, overlap>>
           /\ \/ UNCHANGED obj /\ call'[w].pc = "cleanup"
              \/ call'[w].pc \in {"ok", "cleanup"} /\ \E o, n : Renames(w, o, n)
  <1> DEFINE c == call[w]
             temp == At(c, TRUE)
  <1>1. c.pc = "publish" /\ ~InPlace(c) /\ c \in Call /\ call \in [Uploader -> Call]
        /\ UNCHANGED <<data, used, pending, left, broken, overlap>>
    BY CallIs DEF Rename, Same
  <1>2. CASE call'[w] = [c EXCEPT !.pc = "cleanup", !.cond = "missing"] /\ UNCHANGED obj
    <2>1. OtherFields(call'[w], c) /\ call'[w].pc = "cleanup" BY <1>1, <1>2 DEF Call, OtherFields
    <2> QED BY <1>1, <1>2, <2>1
  <1>5. call'[w] = [c EXCEPT !.pc = "ok"] => OtherFields(call'[w], c) /\ call'[w].pc = "ok"
    BY <1>1 DEF Call, OtherFields
  <1>6. call'[w] = [c EXCEPT !.pc = "cleanup", !.cond = "network"]
        => OtherFields(call'[w], c) /\ call'[w].pc = "cleanup"
    BY <1>1 DEF Call, OtherFields
  <1>3. ASSUME NEW o \in temp, obj' = (obj \ (temp \cup At(c, FALSE))) \cup {[o EXCEPT !.temp = FALSE]},
               \/ call'[w] = [c EXCEPT !.pc = "ok"]
               \/ call'[w] = [c EXCEPT !.pc = "cleanup", !.cond = "network"]
        PROVE  /\ OtherFields(call'[w], c)
               /\ call'[w].pc \in {"ok", "cleanup"} /\ \E p, n : Renames(w, p, n)
    <2> DEFINE n == [o EXCEPT !.temp = FALSE]
    <2>3. o \in obj /\ PathOf(o) = PathOf(c) /\ o.temp /\ o \in Object BY ObjectIs DEF At
    <2>4. n \in Object /\ n.node = o.node /\ n.dir = o.dir /\ n.name = o.name /\ n.temp = FALSE
      BY <2>3 DEF Object
    <2>5. PathOf(n) = PathOf(c) 
      <3> HIDE DEF n
      <3> QED BY <2>3, <2>4 DEF PathOf
    <2>6. \A q \in obj : q.temp \in BOOLEAN BY ObjectIs
    <2>7. obj \ (temp \cup At(c, FALSE)) = {q \in obj : PathOf(q) # PathOf(c)} BY <2>6 DEF At
    <2> HIDE DEF n
    <2>8. Renames(w, o, n) BY <1>3, <2>3, <2>4, <2>5, <2>7 DEF Renames, n
    <2>9. OtherFields(call'[w], c) /\ call'[w].pc \in {"ok", "cleanup"} BY <1>3, <1>5, <1>6
    <2> QED BY <2>8, <2>9
  <1>4. \/ call'[w] = [c EXCEPT !.pc = "cleanup", !.cond = "missing"] /\ UNCHANGED obj
        \/ \E o \in temp : /\ obj' = (obj \ (temp \cup At(c, FALSE))) \cup {[o EXCEPT !.temp = FALSE]}
                           /\ \/ call'[w] = [c EXCEPT !.pc = "ok"]
                              \/ call'[w] = [c EXCEPT !.pc = "cleanup", !.cond = "network"]
    BY <1>1 DEF Rename, Becomes
  <1> QED BY <1>1, <1>2, <1>3, <1>4

\* The moves that are neither of these leave the objects alone, or remove some.
LEMMA QuietMoves ==
    ASSUME Typed, NEW w \in Uploader, Moves(w), ~(Overwrite(w) /\ Plain), ~PutGoogleDrive(w),
           ~(Open(w) /\ InPlaceOrTemp), ~Rename(w)
    PROVE  /\ obj' \subseteq obj /\ UNCHANGED used
           /\ ~Cleanup(w) => UNCHANGED obj
           /\ ~WriteBlock(w) => UNCHANGED data
  BY MovesCases DEF BeginUpload, BeginCopy, WriteBlock, Close, Cleanup, PostCopy,
     WaitForCopy, Fail, Retry, Return, FindFolder, ResolveDropbox, ResolveOneDrive,
     ResolveWebDAV, ResolveSftp, ResolveFtp, ResolveSmb, ResolveS3, Resolve, LookInCache,
     QueryFolder, CreateFolder, Same

LEMMA LeftGrows ==
    ASSUME Typed, NEW w \in Uploader, Moves(w)
    PROVE  left \subseteq left' /\ (~Close(w) => broken \subseteq broken')
  BY MovesCases DEF BeginUpload, BeginCopy, WriteBlock, Close, Cleanup, PostCopy,
     WaitForCopy, Fail, Retry, Return, FindFolder, ResolveDropbox, ResolveOneDrive,
     ResolveWebDAV, ResolveSftp, ResolveFtp, ResolveSmb, ResolveS3, Resolve, LookInCache,
     QueryFolder, CreateFolder, Same, Open, Rename, Overwrite, PutGoogleDrive

LEMMA WriteBlockDoes ==
    ASSUME Typed, NEW w \in Uploader, WriteBlock(w)
    PROVE  /\ OtherFields(call'[w], call[w]) /\ call'[w].node = call[w].node
           /\ \/ call[w].pc = "first" /\ call'[w].pc = "second"
                 /\ data' = [data EXCEPT ![call[w].node] = [data[call[w].node] EXCEPT ![1] = call[w].want[1]]]
              \/ call[w].pc = "second" /\ call'[w].pc = "publish"
                 /\ data' = [data EXCEPT ![call[w].node] = [data[call[w].node] EXCEPT ![2] = call[w].want[2]]]
           /\ UNCHANGED <<obj, used, pending, left, broken, overlap>>
  <1> DEFINE c == call[w]
  <1>1. c \in Call /\ call \in [Uploader -> Call] BY CallIs
  <1>2. UNCHANGED <<obj, used, pending, left, broken, overlap>> /\ c.pc \in {"first", "second"}
    BY DEF WriteBlock, Same
  <1>3. CASE c.pc = "first"
    <2>1. call'[w] = [c EXCEPT !.pc = "second"] BY <1>1, <1>3 DEF WriteBlock, Becomes
    <2>2. data' = [data EXCEPT ![c.node] = [data[c.node] EXCEPT ![1] = c.want[1]]]
      BY <1>3 DEF WriteBlock
    <2>3. OtherFields(call'[w], c) /\ call'[w].node = c.node /\ call'[w].pc = "second"
      BY <1>1, <2>1 DEF Call, OtherFields
    <2> QED BY <1>2, <1>3, <2>2, <2>3
  <1>4. CASE c.pc = "second"
    <2>1. call'[w] = [c EXCEPT !.pc = "publish"] BY <1>1, <1>4 DEF WriteBlock, Becomes
    <2>2. data' = [data EXCEPT ![c.node] = [data[c.node] EXCEPT ![2] = c.want[2]]]
      BY <1>4 DEF WriteBlock
    <2>3. OtherFields(call'[w], c) /\ call'[w].node = c.node /\ call'[w].pc = "publish"
      BY <1>1, <2>1 DEF Call, OtherFields
    <2> QED BY <1>2, <1>4, <2>2, <2>3
  <1> QED BY <1>2, <1>3, <1>4

LEMMA FindFolderDoes ==
    ASSUME Typed, NEW w \in Uploader, FindFolder(w)
    PROVE  /\ call'[w].pc \in {"put", "query", "create", "failed"}
           /\ ~QueryFolder(w) => call'[w].pc # "create"
  <1> DEFINE c == call[w]
  <1>1. c \in Call /\ call \in [Uploader -> Call] BY CallIs
  <1>2. CASE Resolve(w)
    <2>1. call'[w] = [c EXCEPT !.pc = "put"] BY <1>1, <1>2 DEF Resolve, Becomes
    <2> QED BY <1>1, <1>2, <2>1 DEF Call
  <1>3. CASE LookInCache(w)
    <2>1. \/ \E d : call'[w] = [c EXCEPT !.pc = "put", !.dir = d]
          \/ call'[w] = [c EXCEPT !.pc = "query"]
      BY <1>1, <1>3 DEF LookInCache, Becomes
    <2> QED BY <1>1, <2>1 DEF Call
  <1>4. CASE QueryFolder(w)
    <2>1. \/ \E d : call'[w] = [c EXCEPT !.pc = "put", !.dir = d]
          \/ call'[w] = [c EXCEPT !.pc = "create"]
      BY <1>1, <1>4 DEF QueryFolder, Becomes
    <2> QED BY <1>1, <1>4, <2>1 DEF Call
  <1>5. CASE CreateFolder(w)
    <2>1. \/ \E d : call'[w] = [c EXCEPT !.pc = "put", !.dir = d]
          \/ call'[w] = [c EXCEPT !.pc = "failed", !.cond = "network"]
      BY <1>1, <1>5 DEF CreateFolder, Becomes
    <2>2. (\E d : call'[w] = [c EXCEPT !.pc = "put", !.dir = d]) => call'[w].pc = "put" BY <1>1 DEF Call
    <2>3. call'[w] = [c EXCEPT !.pc = "failed", !.cond = "network"] => call'[w].pc = "failed"
      BY <1>1 DEF Call
    <2> QED BY <2>1, <2>2, <2>3
  <1> QED BY <1>2, <1>3, <1>4, <1>5 DEF FindFolder, ResolveDropbox, ResolveOneDrive, ResolveWebDAV,
          ResolveSftp, ResolveFtp, ResolveSmb, ResolveS3

LEMMA FailDoes ==
    ASSUME Typed, NEW w \in Uploader, NEW e \in Condition, Fail(w, e)
    PROVE  /\ call'[w].pc \in {"put", "cleanup", "failed"}
           /\ UNCHANGED <<obj, data, used, pending, left, overlap>>
           /\ InPlace(call[w]) /\ Writes(call[w]) => broken' = broken \cup {PathOf(call[w])}
  <1> DEFINE c == call[w]
  <1>1. c \in Call /\ call \in [Uploader -> Call] BY CallIs
  <1>2. UNCHANGED <<obj, data, used, pending, left, overlap>> BY DEF Fail, Same
  <1>3. InPlace(c) /\ Writes(c) => broken' = broken \cup {PathOf(c)} BY DEF Fail, Writes
  <1>4. CASE c.direct
    <2>1. call'[w] = [c EXCEPT !.pc = "put", !.direct = FALSE] BY <1>1, <1>4 DEF Fail, Becomes
    <2> QED BY <1>1, <1>2, <1>3, <2>1 DEF Call
  <1>5. CASE ~c.direct
    <2>1. \E f, pc : pc \in {"cleanup", "failed"} /\ call'[w] = [c EXCEPT !.cond = f, !.pc = pc]
      BY <1>1, <1>5 DEF Fail, Becomes
    <2> QED BY <1>1, <1>2, <1>3, <2>1 DEF Call
  <1> QED BY <1>4, <1>5

\* A call writes because it has opened, or goes on writing.
LEMMA Writers ==
    ASSUME Typed, Shapes, NEW w \in Uploader, Moves(w), Writes(call'[w])
    PROVE  WriteBlock(w) \/ (Open(w) /\ InPlaceOrTemp)
  <1> DEFINE c == call[w]
  <1>1. c \in Call /\ call \in [Uploader -> Call] /\ ~Writes(NoCall) BY CallIs DEF Writes, NoCall
  <1>2. CASE (\E f \in File : BeginUpload(w, f)) \/ (\E o \in Files : BeginCopy(w, o))
    <2>1. Begun(w)
      <3>1. c.pc = "idle" BY <1>2 DEF BeginUpload, BeginCopy, MayBegin, Busy
      <3> QED BY <3>1, CallLife DEF Going, Ended, Waited
    <2> QED BY <2>1 DEF Begun, Writes
  <1>3. CASE FindFolder(w) BY <1>3, FindFolderDoes DEF Writes
  <1>4. CASE Overwrite(w) BY <1>4, RepliedEnds DEF Overwrite, Writes
  <1>5. CASE PutGoogleDrive(w)
    <2>1. call'[w].pc \in {"ok", "failed"} BY <1>5, PutGoogleDriveDoes, RepliedEnds
    <2> QED BY <2>1 DEF Writes
  <1>6. CASE Rename(w) BY <1>6, RenameDoes DEF Writes
  <1>7. CASE Close(w) \/ Cleanup(w) \/ PostCopy(w)
    <2>1. \E pc \in {"ok", "failed", "waiting"} : call'[w] = [c EXCEPT !.pc = pc]
      BY <1>1, <1>7 DEF Close, Cleanup, PostCopy, Becomes
    <2>2. call'[w].pc \in {"ok", "failed", "waiting"} BY <1>1, <2>1 DEF Call
    <2> QED BY <2>2 DEF Writes
  <1>8. CASE WaitForCopy(w)
    <2>1. Waited(w)
      <3>1. c.pc = "waiting" BY <1>8 DEF WaitForCopy
      <3> QED BY <1>1, <1>8, <3>1, CallLife DEF Begun, Going, Ended, Writes
    <2> QED BY <2>1 DEF Waited, Writes
  <1>9. CASE \E e \in Condition : Fail(w, e) BY <1>9, FailDoes DEF Writes
  <1>10. CASE Retry(w)
    <2>1. \E pc \in {"put", "resolve"} : \E t, e : call'[w] = [c EXCEPT !.pc = pc, !.tries = t, !.cond = e]
      BY <1>1, <1>10 DEF Retry, Becomes
    <2>2. call'[w].pc \in {"put", "resolve"} BY <1>1, <2>1 DEF Call
    <2> QED BY <2>2 DEF Writes
  <1>11. CASE Return(w) BY <1>1, <1>11 DEF Return, Becomes
  <1> QED BY <1>2, <1>3, <1>4, <1>5, <1>6, <1>7, <1>8, <1>9, <1>10, <1>11, MovesCases

-----------------------------------------------------------------------------
(* Where objects and their nodes are.                                        *)

\* No two objects share a node; where a path is an address it has one object, and one
\* temporary; the node a call writes to is at the path of the call.
Places ==
    /\ \A o, q \in obj : o.node = q.node => o = q
    /\ kind # "googledrive" => \A o, q \in obj : PathOf(o) = PathOf(q) /\ o.temp = q.temp => o = q
    /\ \A o \in obj, w \in Uploader :
          Writes(call[w]) /\ call[w].node = o.node => PathOf(o) = PathOf(call[w])

LEMMA PlacesInit == Init => Places
  BY DEF Init, Places

\* The calls that write do so to the node they wrote to, or have just opened one.
LEMMA PlacesStored ==
    ASSUME Typed, Shapes, Places, NEW old, NEW n, NEW v, Stores(old, n, v), UNCHANGED kind,
           kind # "googledrive" => \A o \in obj : PathOf(o) = PathOf(n) /\ o.temp = n.temp => o \in old,
           \A x \in Uploader : Writes(call'[x]) =>
              \/ /\ Writes(call[x]) /\ call'[x].node = call[x].node
                 /\ PathOf(call'[x]) = PathOf(call[x])
              \/ call'[x].node = n.node /\ PathOf(call'[x]) = PathOf(n)
    PROVE  Places'
  <1>1. obj' = (obj \ old) \cup {n} /\ n.node = used + 1 /\ used \in Nat BY RestFacts DEF Stores
  <1>2. \A o \in obj : o.node <= used /\ o.node \in Nat BY ObjectIs DEF Shapes, ObjectShape
  <1>3. \A x \in Uploader : Writes(call[x]) => call[x].node <= used /\ call[x].node \in Nat
    BY <1>1 DEF Shapes, CallShape
  <1>4. ASSUME NEW o \in obj', NEW q \in obj', o.node = q.node PROVE o = q
    BY <1>1, <1>2, <1>4 DEF Places
  <1>5. ASSUME NEW o \in obj', NEW q \in obj', kind # "googledrive", PathOf(o) = PathOf(q), o.temp = q.temp
        PROVE  o = q
    BY <1>1, <1>5 DEF Places
  <1>6. ASSUME NEW o \in obj', NEW x \in Uploader, Writes(call'[x]), call'[x].node = o.node
        PROVE  PathOf(o) = PathOf(call'[x])
    <2>1. CASE o = n BY <1>1, <1>3, <1>6, <2>1
    <2>2. CASE o # n
      <3>1. o \in obj BY <1>1, <2>2
      <3> QED BY <1>1, <1>2, <1>6, <3>1 DEF Places
    <2> QED BY <2>1, <2>2
  <1> QED BY <1>4, <1>5, <1>6 DEF Places

\* A step after which there are fewer objects and no new writer.
LEMMA PlacesFewer ==
    ASSUME Typed, Places, obj' \subseteq obj, UNCHANGED kind,
           \A x \in Uploader : Writes(call'[x]) =>
              \/ /\ Writes(call[x]) /\ call'[x].node = call[x].node
                 /\ PathOf(call'[x]) = PathOf(call[x])
              \/ \E o \in obj : call'[x].node = o.node /\ PathOf(call'[x]) = PathOf(o)
    PROVE  Places'
  BY DEF Places

LEMMA PlacesMoves ==
    ASSUME Typed, Shapes, Places, NEW w \in Uploader, Moves(w) PROVE Places'
  <1>1. /\ \A x \in Uploader \ {w} : call'[x] = call[x]
        /\ UNCHANGED kind
    BY OneMoves
  <1>2. CASE Open(w)
    <2>1. PathOf(call'[w]) = PathOf(call[w]) /\ call[w].direct \in BOOLEAN
      BY <1>2, OpenDoes, CallIs DEF OtherFields, PathOf
    <2>2. ASSUME NEW n, OpensNew(w, n) PROVE Places'
      <3>1. Stores({}, n, NoCall.want) /\ PathOf(n) = PathOf(call[w]) /\ call'[w].node = n.node
        BY <2>2 DEF OpensNew
      <3>2. \A o \in obj : ~(PathOf(o) = PathOf(n) /\ o.temp = n.temp)
        <4>1. \A o \in obj : o.temp \in BOOLEAN BY ObjectIs
        <4>2. n.temp \in BOOLEAN BY <3>1 DEF Stores, Object
        <4> QED BY <2>2, <3>1, <4>1, <4>2 DEF OpensNew, At
      <3> QED BY <1>1, <2>1, <3>1, <3>2, PlacesStored
    <2>3. ASSUME NEW o \in obj, OpensOld(w, o) PROVE Places'
      BY <1>1, <2>1, <2>3, PlacesFewer DEF OpensOld
    <2> QED BY <1>2, <2>2, <2>3, OpenDoes
  <1>3. CASE ~Open(w)
    <2>1. \A x \in Uploader : Writes(call'[x]) =>
             /\ Writes(call[x]) /\ call'[x].node = call[x].node
             /\ PathOf(call'[x]) = PathOf(call[x])
      <3>1. ASSUME Writes(call'[w]) PROVE /\ Writes(call[w]) /\ call'[w].node = call[w].node
                                          /\ PathOf(call'[w]) = PathOf(call[w])
        BY <1>3, <3>1, Writers, WriteBlockDoes DEF OtherFields, PathOf, Writes
      <3> QED BY <1>1, <3>1
    <2>2. CASE Overwrite(w)
      <3>1. PICK n : /\ Stores(At(call[w], FALSE), n, call[w].want)
                     /\ n.temp = FALSE /\ PathOf(n) = PathOf(call[w])
        BY <2>2, OverwriteDoes
      <3>2. \A o \in obj : PathOf(o) = PathOf(n) /\ o.temp = n.temp => o \in At(call[w], FALSE)
        BY <3>1 DEF At
      <3> QED BY <1>1, <2>1, <3>1, <3>2, PlacesStored
    <2>3. CASE PutGoogleDrive(w)
      <3>1. UNCHANGED obj \/ \E old, n, v : Stores(old, n, v) BY <2>3, PutGoogleDriveDoes
      <3>2. kind = "googledrive" BY <2>3 DEF PutGoogleDrive
      <3> QED BY <1>1, <2>1, <3>1, <3>2, PlacesStored, PlacesFewer
    <2>4. CASE Rename(w)
      <3>1. CASE UNCHANGED obj BY <1>1, <2>1, <3>1, PlacesFewer
      <3>2. ASSUME NEW o, NEW n, Renames(w, o, n) PROVE Places'
        <4>1. /\ o \in obj /\ PathOf(o) = PathOf(call[w]) /\ n.node = o.node /\ PathOf(n) = PathOf(o)
              /\ obj' = {q \in obj : PathOf(q) # PathOf(call[w])} \cup {n}
          BY <3>2 DEF Renames
        <4> QED BY <1>1, <2>1, <4>1 DEF Places
      <3> QED BY <2>4, <3>1, <3>2, RenameDoes
    <2>5. CASE ~Overwrite(w) /\ ~PutGoogleDrive(w) /\ ~Rename(w)
      BY <1>1, <1>3, <2>1, <2>5, QuietMoves, PlacesFewer
    <2> QED BY <2>2, <2>3, <2>4, <2>5
  <1> QED BY <1>2, <1>3

LEMMA FewerObjects ==
    ASSUME Typed, Apart \/ \E p \in Process : Kill(p), ~(\E q \in pending : CopyLands(q))
    PROVE  obj' \subseteq obj /\ UNCHANGED <<data, used>>
  BY DEF Apart, Kill, Delete, BeginDownload, Download, EndDownload, BeginListing, ListRoot,
         ListEnds, EndListing, ListFolder, ListFails, Idle, vars

LEMMA PlacesStep == Typed /\ Shapes /\ Places /\ [Next]_vars => Places'
  <1> SUFFICES ASSUME Typed, Shapes, Places, [Next]_vars PROVE Places' OBVIOUS
  <1>1. ASSUME NEW q \in pending, CopyLands(q) PROVE Places'
    <2>1. UNCHANGED <<kind, call>> BY <1>1 DEF CopyLands, Same
    <2>2. PICK n : /\ Stores({o \in obj : PathOf(o) = <<TRUE, q.name>> /\ o.temp = FALSE}, n, q.want)
                   /\ n.temp = FALSE /\ PathOf(n) = <<TRUE, q.name>>
      BY <1>1, CopyLandsDoes
    <2> QED BY <2>1, <2>2, PlacesStored
  <1>2. ASSUME Apart \/ \E p \in Process : Kill(p), ~(\E q \in pending : CopyLands(q)) PROVE Places'
    <2>1. ~Writes(NoCall) BY DEF Writes, NoCall
    <2>2. obj' \subseteq obj /\ UNCHANGED kind /\ \A x \in Uploader : call'[x] \in {call[x], NoCall}
      BY <1>2, FewerObjects, OthersMove
    <2> QED BY <2>1, <2>2, PlacesFewer
  <1> QED BY <1>1, <1>2, PlacesMoves, NextCases

-----------------------------------------------------------------------------
(* Temporary objects.                                                        *)

\* A call with a temporary object that it has still to publish or to remove.
Owns(c) == ~InPlace(c) /\ (Writes(c) \/ c.pc = "cleanup")

\* A temporary belongs to a call, or was left behind.
TempsOwned ==
    \A o \in obj : o.temp => \/ PathOf(o) \in left
                             \/ \E w \in Uploader : Owns(call[w]) /\ PathOf(call[w]) = PathOf(o)

LEMMA TempsInit == Init => TempsOwned
  BY DEF Init, TempsOwned

\* A step that makes no temporary without an owner, and after which every owner is
\* still one, has left its temporary behind or has none.
LEMMA TempsKept ==
    ASSUME TempsOwned, left \subseteq left',
           \A o \in obj' : o.temp =>
              \/ o \in obj
              \/ \E x \in Uploader : Owns(call[x])' /\ PathOf(call[x])' = PathOf(o),
           \A x \in Uploader : Owns(call[x]) =>
              \/ Owns(call[x])' /\ PathOf(call[x])' = PathOf(call[x])
              \/ PathOf(call[x]) \in left'
              \/ \A o \in obj' : o.temp => PathOf(o) # PathOf(call[x])
    PROVE  TempsOwned'
  <1> SUFFICES ASSUME NEW o \in obj', o.temp
               PROVE  \/ PathOf(o) \in left'
                      \/ \E x \in Uploader : Owns(call[x])' /\ PathOf(call[x])' = PathOf(o)
    BY DEF TempsOwned
  <1>1. CASE o \in obj
    <2>1. CASE PathOf(o) \in left BY <2>1
    <2>2. ASSUME NEW x \in Uploader, Owns(call[x]), PathOf(call[x]) = PathOf(o)
          PROVE  \/ PathOf(o) \in left'
                 \/ \E y \in Uploader : Owns(call[y])' /\ PathOf(call[y])' = PathOf(o)
      BY <2>2
    <2> QED BY <1>1, <2>1, <2>2 DEF TempsOwned
  <1> QED BY <1>1

LEMMA OwnerMoves ==
    ASSUME Typed, Shapes, NEW w \in Uploader, Moves(w), Owns(call[w])
    PROVE  \/ Owns(call[w])' /\ PathOf(call[w])' = PathOf(call[w])
           \/ PathOf(call[w]) \in left'
           \/ \A o \in obj' : o.temp => PathOf(o) # PathOf(call[w])
  <1> DEFINE c == call[w]
  <1>1. /\ c \in Call /\ call \in [Uploader -> Call] /\ CallShape(c) /\ kind \in Kind /\ UNCHANGED kind
        /\ c.direct \in BOOLEAN
    BY CallIs, OneMoves DEF Shapes, Typed, TypeOK
  <1>2. c.pc \in {"first", "second", "publish", "cleanup"} /\ kind # "ftp" /\ ~c.direct
    BY DEF Owns, Writes, InPlace
  <1>3. kind \in ViaTemp BY <1>1, <1>2 DEF CallShape, Writes, ViaTemp
  <1>4. ASSUME OtherFields(call'[w], c), call'[w].pc \in {"second", "publish", "cleanup"}
        PROVE  Owns(call[w])' /\ PathOf(call[w])' = PathOf(c)
    BY <1>1, <1>2, <1>4 DEF OtherFields, Owns, Writes, InPlace, PathOf
  <1>5. CASE WriteBlock(w) BY <1>4, <1>5, WriteBlockDoes
  <1>6. CASE Rename(w)
    <2>1. CASE call'[w].pc = "cleanup" BY <1>4, <1>6, <2>1, RenameDoes
    <2>2. ASSUME NEW o, NEW n, Renames(w, o, n) PROVE \A q \in obj' : q.temp => PathOf(q) # PathOf(c)
      BY <2>2 DEF Renames
    <2> QED BY <1>6, <2>1, <2>2, RenameDoes
  <1>7. CASE Cleanup(w)
    <2>1. obj' = obj \ At(c, TRUE) \/ PathOf(c) \in left' BY <1>7 DEF Cleanup
    <2>2. \A o \in obj : o.temp \in BOOLEAN BY ObjectIs
    <2> QED BY <2>1, <2>2 DEF At
  <1>8. ASSUME NEW e \in Condition, Fail(w, e) PROVE Owns(call[w])' /\ PathOf(call[w])' = PathOf(c)
    <2>1. \E f : call'[w] = [c EXCEPT !.cond = f, !.pc = "cleanup"]
      BY <1>1, <1>2, <1>3, <1>8 DEF Fail, Becomes
    <2>2. OtherFields(call'[w], c) /\ call'[w].pc = "cleanup" BY <1>1, <2>1 DEF Call, OtherFields
    <2> QED BY <1>4, <2>2
  <1>9. ~Close(w) BY <1>2 DEF Close, InPlace
  <1> QED BY <1>2, <1>5, <1>6, <1>7, <1>8, <1>9, MovesCases DEF BeginUpload, BeginCopy, MayBegin, Busy,
       FindFolder, ResolveDropbox, ResolveOneDrive, ResolveWebDAV, ResolveSftp, ResolveFtp, ResolveSmb,
       ResolveS3, Resolve, LookInCache, QueryFolder, CreateFolder, Overwrite, PutGoogleDrive, Open,
       PostCopy, WaitForCopy, Retry, WillRetry, Return

LEMMA NewTemps ==
    ASSUME Typed, Shapes, NEW w \in Uploader, Moves(w), NEW o \in obj', o.temp, o \notin obj
    PROVE  Owns(call[w])' /\ PathOf(call[w])' = PathOf(o)
  <1>1. CASE Open(w)
    <2>1. PICK n : OpensNew(w, n) BY <1>1, OpenDoes DEF OpensOld
    <2>2. o = n BY <2>1 DEF OpensNew, Stores
    <2>3. call'[w].pc = "first" /\ OtherFields(call'[w], call[w]) /\ UNCHANGED kind
      BY <1>1, OpenDoes, OneMoves
    <2>4. ~InPlace(call[w]) /\ PathOf(o) = PathOf(call[w]) BY <2>1, <2>2 DEF OpensNew
    <2> QED BY <2>3, <2>4 DEF OtherFields, Owns, Writes, InPlace, PathOf
  <1>0. \A old, n, v : Stores(old, n, v) => o = n BY DEF Stores
  <1>2. CASE Overwrite(w)
    <2>1. PICK n : Stores(At(call[w], FALSE), n, call[w].want) /\ n.temp = FALSE BY <1>2, OverwriteDoes
    <2> QED BY <1>0, <2>1
  <1>3. CASE PutGoogleDrive(w) 
    <2> DEFINE c == call[w]
    <2>1. \/ UNCHANGED <<obj, data, used, blind>> /\ call'[w].pc = "failed" /\ c.known
          \/ /\ c.known /\ Replied(w, c, FALSE)
             /\ \E n, x : /\ x \in obj /\ x.id = c.id
                          /\ Stores({p \in obj : p.id = c.id}, n, c.want)
                          /\ n.temp = FALSE /\ n.dir = x.dir /\ n.name = x.name /\ n.id = x.id
          \/ /\ ~c.known /\ Replied(w, c, TRUE)
             /\ \E n : /\ Stores({}, n, c.want)
                       /\ n.temp = FALSE /\ n.dir = c.dir /\ n.name = c.name
                       /\ n.id = used + 1 /\ PathOf(n) = PathOf(c)
      BY <1>3, PutGoogleDriveDoes
    <2> HIDE DEF c
    <2>2. CASE c.known
      <3>1. PICK n : Stores({p \in obj : p.id = c.id}, n, c.want) /\ n.temp = FALSE BY <2>1, <2>2
      <3> QED BY <1>0, <3>1
    <2>3. CASE ~c.known
      <3>1. PICK n : Stores({}, n, c.want) /\ n.temp = FALSE BY <2>1, <2>3
      <3> QED BY <1>0, <3>1
    <2> QED BY <2>2, <2>3
  <1>4. CASE Rename(w) BY <1>4, RenameDoes DEF Renames
  <1> QED BY <1>1, <1>2, <1>3, <1>4, QuietMoves

LEMMA TempsStep == Typed /\ Shapes /\ TempsOwned /\ [Next]_vars => TempsOwned'
  <1> SUFFICES ASSUME Typed, Shapes, TempsOwned, [Next]_vars PROVE TempsOwned' OBVIOUS
  <1>1. ASSUME NEW w \in Uploader, Moves(w) PROVE TempsOwned'
    <2>1. \A x \in Uploader \ {w} : call'[x] = call[x] BY <1>1, OneMoves
    <2>2. UNCHANGED kind /\ left \subseteq left' BY <1>1, OneMoves, LeftGrows
    <2>3. \A x \in Uploader \ {w} : Owns(call[x]) =>
             Owns(call[x])' /\ PathOf(call[x])' = PathOf(call[x])
      BY <2>1, <2>2 DEF Owns, InPlace, Writes
    <2> QED BY <1>1, <2>2, <2>3, OwnerMoves, NewTemps, TempsKept
  <1>2. ASSUME NEW p \in Process, Kill(p) PROVE TempsOwned'
    <2>1. obj' = obj /\ left \subseteq left' BY <1>2 DEF Kill
    <2>2. ASSUME NEW x \in Uploader, Owns(call[x])
          PROVE  \/ Owns(call[x])' /\ PathOf(call[x])' = PathOf(call[x])
                 \/ PathOf(call[x]) \in left'
      <3>1. Busy(x) /\ UNCHANGED kind BY <1>2, <2>2 DEF Owns, Writes, Busy, Kill
      <3>2. call'[x] = call[x] \/ PathOf(call[x]) \in left' BY <1>2, <3>1 DEF Kill
      <3> QED BY <2>2, <3>1, <3>2 DEF Owns, InPlace, Writes
    <2> QED BY <2>1, <2>2, TempsKept
  <1>3. CASE Apart
    <2>1. UNCHANGED <<kind, call>> /\ left \subseteq left' BY <1>3, ApartStays, OthersMove
    <2>2. \A x \in Uploader : Owns(call[x]) => Owns(call[x])' /\ PathOf(call[x])' = PathOf(call[x])
      BY <2>1 DEF Owns, InPlace, Writes
    <2>3. \A o \in obj' : o.temp => o \in obj
      <3>1. ASSUME NEW q \in pending, CopyLands(q) PROVE \A o \in obj' : o.temp => o \in obj
        BY <3>1, CopyLandsDoes DEF Stores
      <3> QED BY <1>3, <3>1, FewerObjects
    <2> QED BY <2>1, <2>2, <2>3, TempsKept
  <1> QED BY <1>1, <1>2, <1>3, NextCases

\* TempIsTransient holds of every behaviour: the objects called <path>.tmp go with
\* the upload that made them, whichever way it ends (sftp.py, smb.py: the finally
\* branch of the upload), unless a kill or a failed removal left them.
THEOREM TempIsTransientHolds == Spec => []TempIsTransient
  <1>1. TempsOwned => TempIsTransient
    BY DEF TempsOwned, TempIsTransient, Owns, Writes, Busy
  <1> QED BY <1>1, TypedInit, TypedStep, ShapesInit, ShapesStep, TempsInit, TempsStep, PTL DEF Spec

-----------------------------------------------------------------------------
(* Ids on Google Drive.                                                      *)

\* An id is the id of one object, and a call that knows an id knows it from its path.
Ids ==
    kind = "googledrive" =>
       /\ \A o, q \in obj : o.id = q.id => o = q
       /\ \A w \in Uploader, o \in obj :
             call[w].known /\ o.id = call[w].id => PathOf(o) = PathOf(call[w])

LEMMA IdsInit == Init => Ids
  BY DEF Init, Ids

\* A call knows an id from its beginning.
LEMMA KnowsFromBegin ==
    ASSUME Typed, Shapes, NEW w \in Uploader, Moves(w), call'[w].known
    PROVE  \/ Begun(w) /\ \E o \in obj : call'[w].id = o.id /\ PathOf(call'[w]) = PathOf(o)
           \/ call[w].known /\ call'[w].id = call[w].id /\ PathOf(call'[w]) = PathOf(call[w])
  <1> DEFINE c == call[w]
  <1>1. call \in [Uploader -> Call] /\ ~NoCall.known BY CallIs DEF NoCall
  <1>2. CASE Begun(w)
    <2>1. c.pc = "idle" /\ call'[w].pc \in {"resolve", "put"} BY <1>2 DEF Begun
    <2>2. CASE \E f \in File : BeginUpload(w, f)
      <3> PICK f \in File : BeginUpload(w, f) BY <2>2
      <3> DEFINE b == [NoCall EXCEPT !.name = f, !.want = [x \in 1..2 |-> calls + 1]]
      <3>1. \/ call'[w] = [b EXCEPT !.pc = "resolve"]
            \/ \E o \in At(b, FALSE) :
                 call'[w] = [b EXCEPT !.pc = "put", !.known = TRUE, !.id = o.id, !.dir = o.dir]
        BY <1>1 DEF BeginUpload, Becomes
      <3>2. call'[w] # [b EXCEPT !.pc = "resolve"] BY DEF NoCall
      <3> PICK o \in At(b, FALSE) :
             call'[w] = [b EXCEPT !.pc = "put", !.known = TRUE, !.id = o.id, !.dir = o.dir]
        BY <3>1, <3>2
      <3>3. call'[w].id = o.id /\ call'[w].dir = o.dir /\ call'[w].name = b.name BY DEF NoCall
      <3>4. o \in obj /\ PathOf(o) = PathOf(b) BY DEF At
      <3> HIDE DEF b
      <3>5. PathOf(call'[w]) = PathOf(o) BY <3>3, <3>4 DEF PathOf
      <3> QED BY <1>2, <3>3, <3>4, <3>5
    <2>3. CASE \E o \in Files : BeginCopy(w, o)
      <3>1. ~call'[w].known BY <1>1, <2>3 DEF BeginCopy, Becomes, NoCall
      <3> QED BY <3>1
    <2> QED BY <2>1, <2>2, <2>3, MovesCases DEF FindFolder, ResolveDropbox, ResolveOneDrive, ResolveWebDAV,
         ResolveSftp, ResolveFtp, ResolveSmb, ResolveS3, Resolve, LookInCache, QueryFolder, CreateFolder,
         Overwrite, PutGoogleDrive, Open, WriteBlock, Rename, Close, Cleanup, PostCopy, WaitForCopy, Fail,
         Retry, WillRetry, Return
  <1>3. CASE Going(w) \/ Waited(w) BY <1>3 DEF Going, Waited, Kept
  <1>4. CASE Ended(w) BY <1>1, <1>4 DEF Ended
  <1> QED BY <1>2, <1>3, <1>4, CallLife

\* Objects come under a new id, or in the place of one with the same id and path.
LEMMA IdsStored ==
    ASSUME Typed, Shapes, Ids, NEW old, NEW n, NEW v, Stores(old, n, v), kind = "googledrive",
           n.id = used + 1 \/ \E x \in obj : /\ n.id = x.id /\ PathOf(n) = PathOf(x)
                                             /\ \A o \in obj : o.id = x.id => o \in old
    PROVE  /\ \A o, q \in obj' : o.id = q.id => o = q
           /\ \A w \in Uploader, o \in obj' :
                 call[w].known /\ o.id = call[w].id => PathOf(o) = PathOf(call[w])
           /\ \A o \in obj' : o.id # used + 1 => \E q \in obj : o.id = q.id /\ PathOf(o) = PathOf(q)
  <1>1. obj' = (obj \ old) \cup {n} /\ used \in Nat BY RestFacts DEF Stores
  <1>2. \A o \in obj : o.id <= used /\ o.id \in Nat BY ObjectIs DEF Shapes, ObjectShape
  <1>3. \A w \in Uploader : call[w].id <= used /\ call[w].id \in Nat BY CallIs DEF Shapes, CallShape
  <1>4. CASE n.id = used + 1
    <2>1. \A o \in obj : o.id # n.id BY <1>1, <1>2, <1>4
    <2>2. \A w \in Uploader : call[w].id # n.id BY <1>1, <1>3, <1>4
    <2>3. \A o, q \in obj' : o.id = q.id => o = q BY <1>1, <2>1 DEF Ids
    <2>4. \A w \in Uploader, o \in obj' :
             call[w].known /\ o.id = call[w].id => PathOf(o) = PathOf(call[w])
      BY <1>1, <2>2 DEF Ids
    <2>5. \A o \in obj' : o.id # used + 1 => \E q \in obj : o.id = q.id /\ PathOf(o) = PathOf(q)
      BY <1>1, <1>4
    <2> QED BY <2>3, <2>4, <2>5
  <1>5. ASSUME NEW x \in obj, n.id = x.id, PathOf(n) = PathOf(x), \A o \in obj : o.id = x.id => o \in old
        PROVE  /\ \A o, q \in obj' : o.id = q.id => o = q
               /\ \A w \in Uploader, o \in obj' :
                     call[w].known /\ o.id = call[w].id => PathOf(o) = PathOf(call[w])
               /\ \A o \in obj' : \E q \in obj : o.id = q.id /\ PathOf(o) = PathOf(q)
    <2>1. \A o, q \in obj' : o.id = q.id => o = q BY <1>1, <1>5 DEF Ids
    <2>2. \A w \in Uploader, o \in obj' :
             call[w].known /\ o.id = call[w].id => PathOf(o) = PathOf(call[w])
      BY <1>1, <1>5 DEF Ids
    <2>3. \A o \in obj' : \E q \in obj : o.id = q.id /\ PathOf(o) = PathOf(q)
      BY <1>1, <1>5
    <2> QED BY <2>1, <2>2, <2>3
  <1> QED BY <1>4, <1>5

LEMMA KindStays == Typed /\ [Next]_vars => UNCHANGED kind
  BY OneMoves, OthersMove, NextCases

LEMMA IdsStep == Typed /\ Shapes /\ Ids /\ [Next]_vars => Ids'
  <1> SUFFICES ASSUME Typed, Shapes, Ids, [Next]_vars, kind = "googledrive"
               PROVE  /\ \A o, q \in obj' : o.id = q.id => o = q
                      /\ \A w \in Uploader, o \in obj' :
                            call'[w].known /\ o.id = call'[w].id => PathOf(o) = PathOf(call'[w])
    BY KindStays DEF Ids
  <1>1. ASSUME NEW w \in Uploader, PutGoogleDrive(w), Moves(w)
        PROVE  /\ \A o, q \in obj' : o.id = q.id => o = q
               /\ \A x \in Uploader, o \in obj' :
                     call'[x].known /\ o.id = call'[x].id => PathOf(o) = PathOf(call'[x])
    <2>1. \A x \in Uploader : call'[x].known =>
             call[x].known /\ call'[x].id = call[x].id /\ PathOf(call'[x]) = PathOf(call[x])
      <3>1. call[w].pc = "put" BY <1>1 DEF PutGoogleDrive
      <3> QED BY <1>1, <3>1, KnowsFromBegin, OneMoves DEF Begun
    <2>2. CASE UNCHANGED obj BY <2>1, <2>2 DEF Ids
    <2>3. ASSUME NEW n, NEW x \in obj, x.id = call[w].id,
                 Stores({o \in obj : o.id = call[w].id}, n, call[w].want),
                 n.dir = x.dir, n.name = x.name, n.id = x.id
          PROVE  /\ \A o, q \in obj' : o.id = q.id => o = q
                 /\ \A y \in Uploader, o \in obj' :
                       call[y].known /\ o.id = call[y].id => PathOf(o) = PathOf(call[y])
      <3>1. PathOf(n) = PathOf(x) BY <2>3 DEF PathOf
      <3>2. \A o \in obj : o.id = x.id => o \in {q \in obj : q.id = call[w].id} BY <2>3
      <3> QED BY <2>3, <3>1, <3>2, IdsStored
    <2>4. ASSUME NEW n, Stores({}, n, call[w].want), n.id = used + 1
          PROVE  /\ \A o, q \in obj' : o.id = q.id => o = q
                 /\ \A y \in Uploader, o \in obj' :
                       call[y].known /\ o.id = call[y].id => PathOf(o) = PathOf(call[y])
      BY <2>4, IdsStored
    <2>5. \/ UNCHANGED obj
          \/ \E n, x : /\ x \in obj /\ x.id = call[w].id
                       /\ Stores({o \in obj : o.id = call[w].id}, n, call[w].want)
                       /\ n.dir = x.dir /\ n.name = x.name /\ n.id = x.id
          \/ \E n : Stores({}, n, call[w].want) /\ n.id = used + 1
      BY <1>1, PutGoogleDriveDoes
    <2> QED BY <2>1, <2>2, <2>3, <2>4, <2>5
  <1>2. ASSUME obj' \subseteq obj,
               \A x \in Uploader : call'[x].known =>
                  \/ \E o \in obj : call'[x].id = o.id /\ PathOf(call'[x]) = PathOf(o)
                  \/ call[x].known /\ call'[x].id = call[x].id /\ PathOf(call'[x]) = PathOf(call[x])
        PROVE  /\ \A o, q \in obj' : o.id = q.id => o = q
               /\ \A x \in Uploader, o \in obj' :
                     call'[x].known /\ o.id = call'[x].id => PathOf(o) = PathOf(call'[x])
    BY <1>2 DEF Ids
  <1>3. ASSUME NEW w \in Uploader, Moves(w), ~PutGoogleDrive(w)
        PROVE  /\ \A o, q \in obj' : o.id = q.id => o = q
               /\ \A x \in Uploader, o \in obj' :
                     call'[x].known /\ o.id = call'[x].id => PathOf(o) = PathOf(call'[x])
    <2>2. obj' \subseteq obj
      <3>1. ~Rename(w) \/ UNCHANGED obj
        <4>1. CallShape(call[w]) BY DEF Shapes
        <4> QED BY <4>1 DEF Rename, CallShape, Writes
      <3> QED BY <1>3, <3>1, QuietMoves DEF InPlaceOrTemp, Plain
    <2>3. \A x \in Uploader : call'[x].known =>
             \/ \E o \in obj : call'[x].id = o.id /\ PathOf(call'[x]) = PathOf(o)
             \/ call[x].known /\ call'[x].id = call[x].id /\ PathOf(call'[x]) = PathOf(call[x])
      BY <1>3, KnowsFromBegin, OneMoves
    <2> QED BY <1>2, <2>2, <2>3
  <1>4. CASE Apart \/ \E p \in Process : Kill(p)
    <2>1. ~(\E q \in pending : CopyLands(q)) BY DEF CopyLands, Shapes, PendingShape
    <2>2. ~NoCall.known BY DEF NoCall
    <2>3. obj' \subseteq obj BY <1>4, <2>1, FewerObjects
    <2>4. \A x \in Uploader : call'[x].known => call'[x] = call[x] BY <1>4, <2>2, OthersMove
    <2> QED BY <1>2, <2>3, <2>4
  <1> QED BY <1>1, <1>3, <1>4, NextCases

-----------------------------------------------------------------------------
(* What steps leave alone.                                                   *)

\* A call ends well, or waits for a copy, by one of these steps.
LEMMA Finishers ==
    ASSUME Typed, Shapes, NEW w \in Uploader, Moves(w), call'[w].pc \in {"ok", "waiting"}
    PROVE  \/ Overwrite(w) \/ PutGoogleDrive(w) \/ Rename(w) \/ Close(w) \/ PostCopy(w) \/ WaitForCopy(w)
  <1> DEFINE c == call[w]
  <1>1. c \in Call /\ call \in [Uploader -> Call] /\ NoCall.pc = "idle" BY CallIs DEF NoCall
  <1>2. CASE (\E f \in File : BeginUpload(w, f)) \/ (\E o \in Files : BeginCopy(w, o))
    <2>1. c.pc = "idle" BY <1>2 DEF BeginUpload, BeginCopy, MayBegin, Busy
    <2> QED BY <2>1, CallLife DEF Begun, Going, Ended, Waited
  <1>3. CASE FindFolder(w) BY <1>3, FindFolderDoes
  <1>4. CASE Open(w) BY <1>4, OpenDoes
  <1>5. CASE WriteBlock(w) BY <1>5, WriteBlockDoes
  <1>6. CASE Cleanup(w)
    <2>1. call'[w] = [c EXCEPT !.pc = "failed"] BY <1>1, <1>6 DEF Cleanup, Becomes
    <2> QED BY <1>1, <2>1 DEF Call
  <1>7. CASE \E e \in Condition : Fail(w, e) BY <1>7, FailDoes
  <1>8. CASE Retry(w)
    <2>1. \E pc \in {"put", "resolve"} : \E t, e : call'[w] = [c EXCEPT !.pc = pc, !.tries = t, !.cond = e]
      BY <1>1, <1>8 DEF Retry, Becomes
    <2> QED BY <1>1, <2>1 DEF Call
  <1>9. CASE Return(w) BY <1>1, <1>9 DEF Return, Becomes
  <1> QED BY <1>2, <1>3, <1>4, <1>5, <1>6, <1>7, <1>8, <1>9, MovesCases

LEMMA StoresSpare == \A old, n, v : Stores(old, n, v) => \A o \in obj : o \notin old => o \in obj'
  BY DEF Stores

\* Nodes that are in use are no new node.
LEMMA StoredElsewhere ==
    ASSUME Typed, Shapes, NEW old, NEW n, NEW v, Stores(old, n, v)
    PROVE  /\ \A o \in obj : data'[o.node] = data[o.node] /\ (o \in obj' \/ o \in old)
           /\ n \in obj' /\ data'[n.node] = v
           /\ \A o \in obj' : o = n \/ (o \in obj /\ o \notin old)
  <1>1. \A o \in obj : o.node \in 1..used BY ObjectIs, RestFacts DEF Shapes, ObjectShape, Node
  <1> QED BY <1>1 DEF Stores

\* A call changes nothing but what is at its path.
LEMMA Elsewhere ==
    ASSUME Typed, Shapes, Places, Ids, NEW w \in Uploader, Moves(w), NEW o \in obj,
           PathOf(o) # PathOf(call[w])
    PROVE  o \in obj' /\ data'[o.node] = data[o.node]
  <1> DEFINE c == call[w]
  <1>1. /\ data \in [Node -> Content] /\ o.node \in Node
        /\ \A q \in obj : q.node \in Node
    BY ObjectIs, RestFacts
  <1>2. CASE Overwrite(w)
    <2>1. PICK n : Stores(At(c, FALSE), n, c.want) BY <1>2, OverwriteDoes
    <2>2. o \notin At(c, FALSE) BY DEF At
    <2>3. data'[o.node] = data[o.node] BY <2>1, StoredElsewhere
    <2> QED BY <2>1, <2>2, <2>3, StoresSpare
  <1>3. CASE PutGoogleDrive(w)
    <2>1. CASE UNCHANGED <<obj, data>> BY <2>1
    <2>2. ASSUME c.known, NEW n, Stores({q \in obj : q.id = c.id}, n, c.want)
          PROVE  o \in obj' /\ data'[o.node] = data[o.node]
      <3>1. o.id # c.id BY <1>3, <2>2 DEF Ids, PutGoogleDrive
      <3> QED BY <2>2, <3>1, StoredElsewhere
    <2>3. ASSUME NEW n, Stores({}, n, c.want) PROVE o \in obj' /\ data'[o.node] = data[o.node]
      BY <2>3, StoredElsewhere
    <2>4. \/ UNCHANGED <<obj, data>>
          \/ c.known /\ \E n : Stores({q \in obj : q.id = c.id}, n, c.want)
          \/ \E n : Stores({}, n, c.want)
      BY <1>3, PutGoogleDriveDoes
    <2> QED BY <2>1, <2>2, <2>3, <2>4
  <1>4. CASE Open(w)
    <2>1. ASSUME NEW n, OpensNew(w, n) PROVE o \in obj' /\ data'[o.node] = data[o.node]
      BY <2>1, StoredElsewhere DEF OpensNew
    <2>2. ASSUME NEW q \in obj, OpensOld(w, q) PROVE o \in obj' /\ data'[o.node] = data[o.node]
      <3>1. o.node # q.node BY <2>2 DEF OpensOld, Places
      <3>2. o \in obj' /\ data' = [data EXCEPT ![q.node] = NoCall.want] BY <2>2 DEF OpensOld
      <3> QED BY <1>1, <3>1, <3>2
    <2> QED BY <1>4, <2>1, <2>2, OpenDoes
  <1>5. CASE WriteBlock(w)
    <2>1. UNCHANGED obj /\ \E v : data' = [data EXCEPT ![c.node] = v] BY <1>5, WriteBlockDoes
    <2>2. o.node # c.node BY <1>5 DEF Places, WriteBlock, Writes
    <2> QED BY <1>1, <2>1, <2>2
  <1>6. CASE Rename(w)
    <2>1. UNCHANGED data BY <1>6, RenameDoes
    <2>2. o \in obj' BY <1>6, RenameDoes DEF Renames
    <2> QED BY <2>1, <2>2
  <1>7. CASE Cleanup(w) BY <1>7 DEF Cleanup, At
  <1> QED BY <1>2, <1>3, <1>4, <1>5, <1>6, <1>7, QuietMoves

\* A copy that has been accepted stays so until it lands, or is found to have failed.
LEMMA PendingMoves ==
    ASSUME Typed, NEW w \in Uploader, Moves(w)
    PROVE  \/ pending \subseteq pending'
           \/ WaitForCopy(w) /\ pending' = pending \ {[name |-> call[w].name, want |-> call[w].want]}
  BY MovesCases DEF BeginUpload, BeginCopy, Overwrite, PutGoogleDrive, Open, WriteBlock, Rename, Close,
     Cleanup, WaitForCopy, PostCopy, Fail, Retry, Return, FindFolder, ResolveDropbox, ResolveOneDrive,
     ResolveWebDAV, ResolveSftp, ResolveFtp, ResolveSmb, ResolveS3, Resolve, LookInCache,
     QueryFolder, CreateFolder

-----------------------------------------------------------------------------
(* What is at a path.                                                        *)

Holds(c) == \E o \in obj : PathOf(o) = PathOf(c) /\ ~o.temp /\ data[o.node] = c.want

\* The object that a call writes is at its path, with the blocks written so far.
Fills(c) ==
    Writes(c) /\ Clear(c) =>
       /\ \E o \in obj : PathOf(o) = PathOf(c) /\ (o.temp <=> ~InPlace(c)) /\ o.node = c.node
       /\ c.pc = "second" => data[c.node][1] = c.want[1]
       /\ c.pc = "publish" => data[c.node] = c.want

\* A call that succeeded has stored its content, or will when the copy lands.
Met(c) ==
    /\ c.pc = "ok" /\ ~c.late /\ Clear(c) => Holds(c)
    /\ c.pc = "waiting" /\ Clear(c) => Holds(c) \/ [name |-> c.name, want |-> c.want] \in pending

Contents == \A w \in Uploader : Fills(call[w]) /\ Met(call[w])

LEMMA ContentsInit == Init => Contents
  BY DEF Init, Contents, Fills, Met, Writes, NoCall

\* A call of which a step leaves everything alone that is at its path.
LEMMA StandsBy ==
    ASSUME Typed, NEW x \in Uploader, Fills(call[x]), Met(call[x]), call'[x] = call[x],
           overlap \subseteq overlap', UNCHANGED kind,
           Clear(call[x])' /\ (Writes(call[x]) \/ call[x].pc \in {"ok", "waiting"}) =>
              \A o \in obj : PathOf(o) = PathOf(call[x]) => o \in obj' /\ data'[o.node] = data[o.node],
           /\ Clear(call[x])' /\ call[x].pc = "waiting"
           /\ [name |-> call[x].name, want |-> call[x].want] \in pending
           => [name |-> call[x].name, want |-> call[x].want] \in pending' \/ Holds(call[x])'
    PROVE  Fills(call[x])' /\ Met(call[x])'
  <1> DEFINE c == call[x]
  <1>1. ASSUME Clear(c)' PROVE Clear(c) BY <1>1 DEF Clear
  <1>2. ASSUME Clear(c)', Writes(c) \/ c.pc \in {"ok", "waiting"}, Holds(c) PROVE Holds(call[x])'
    BY <1>2 DEF Holds
  <1>3. Met(call[x])' BY <1>1, <1>2 DEF Met
  <1>4. ASSUME Writes(c), Clear(c)'
        PROVE  /\ \E o \in obj' : PathOf(o) = PathOf(c) /\ (o.temp <=> ~InPlace(c)) /\ o.node = c.node
               /\ c.pc = "second" => data'[c.node][1] = c.want[1]
               /\ c.pc = "publish" => data'[c.node] = c.want
    <2>1. PICK o \in obj : PathOf(o) = PathOf(c) /\ (o.temp <=> ~InPlace(c)) /\ o.node = c.node
      BY <1>1, <1>4 DEF Fills
    <2>2. o \in obj' /\ data'[c.node] = data[c.node] BY <1>4, <2>1
    <2>3. (c.pc = "second" => data[c.node][1] = c.want[1]) /\ (c.pc = "publish" => data[c.node] = c.want)
      BY <1>1, <1>4 DEF Fills
    <2> QED BY <2>1, <2>2, <2>3
  <1>5. Fills(call[x])' BY <1>4 DEF Fills, Writes, InPlace
  <1> QED BY <1>3, <1>5

LEMMA ContentEquals == \A a, b \in Content : a[1] = b[1] /\ a[2] = b[2] => a = b
  BY DEF Content

\* The object that a call has opened, and the blocks that it writes.
LEMMA FillsMoves ==
    ASSUME Typed, Shapes, Contents, NEW w \in Uploader, Moves(w), Typed'
    PROVE  Fills(call[w])'
  <1> DEFINE c == call[w]
             d == call'[w]
  <1> SUFFICES ASSUME Writes(d), Clear(call[w])'
               PROVE  /\ \E o \in obj' : /\ PathOf(o) = PathOf(d) /\ o.node = d.node
                                         /\ (o.temp <=> ~(kind' = "ftp" \/ d.direct))
                      /\ d.pc = "second" => data'[d.node][1] = d.want[1]
                      /\ d.pc = "publish" => data'[d.node] = d.want
    BY DEF Fills, InPlace, Writes
  <1>1. UNCHANGED kind BY OneMoves
  <1>2. CASE Open(w)
    <2>1. d.pc = "first" /\ OtherFields(d, c) BY <1>2, OpenDoes
    <2>2. PathOf(d) = PathOf(c) /\ d.direct = c.direct BY <2>1 DEF OtherFields, PathOf
    <2>3. ASSUME NEW n, OpensNew(w, n)
          PROVE  \E o \in obj' : PathOf(o) = PathOf(c) /\ o.node = d.node /\ (o.temp <=> ~InPlace(c))
      <3>1. n \in obj' BY <2>3, StoredElsewhere DEF OpensNew
      <3> QED BY <2>3, <3>1 DEF OpensNew
    <2>4. ASSUME NEW o \in obj, OpensOld(w, o)
          PROVE  \E q \in obj' : PathOf(q) = PathOf(c) /\ q.node = d.node /\ (q.temp <=> ~InPlace(c))
      BY <2>4 DEF OpensOld
    <2>5. \E q \in obj' : PathOf(q) = PathOf(c) /\ q.node = d.node /\ (q.temp <=> ~InPlace(c))
      BY <1>2, <2>3, <2>4, OpenDoes
    <2> HIDE DEF c, d
    <2> QED BY <1>1, <2>1, <2>2, <2>5 DEF InPlace, c, d
  <1>3. CASE WriteBlock(w)
    <2>1. OtherFields(d, c) /\ d.node = c.node /\ UNCHANGED <<obj, overlap>> BY <1>3, WriteBlockDoes
    <2>2. PathOf(d) = PathOf(c) /\ d.direct = c.direct /\ d.want = c.want BY <2>1 DEF OtherFields, PathOf
    <2>3. Writes(c) /\ Clear(c) BY <1>3, <2>1, <2>2 DEF WriteBlock, Writes, Clear
    <2>4. PICK o \in obj : PathOf(o) = PathOf(c) /\ (o.temp <=> ~InPlace(c)) /\ o.node = c.node
      BY <2>3 DEF Contents, Fills
    <2>5. c.node \in Node /\ data \in [Node -> Content] /\ data[c.node] \in Content /\ c.want \in Content
      BY <2>4, ObjectIs, RestFacts, CallIs
    <2>6. DOMAIN data[c.node] = 1..2 BY <2>5 DEF Content
    <2>7. CASE c.pc = "first"
      <3>1. data' = [data EXCEPT ![c.node] = [data[c.node] EXCEPT ![1] = c.want[1]]] /\ d.pc = "second"
        BY <1>3, <2>7, WriteBlockDoes
      <3>2. data'[c.node][1] = c.want[1] BY <2>5, <2>6, <3>1
      <3> QED BY <1>1, <2>1, <2>2, <2>4, <3>1, <3>2 DEF InPlace
    <2>8. CASE c.pc = "second"
      <3>1. data' = [data EXCEPT ![c.node] = [data[c.node] EXCEPT ![2] = c.want[2]]] /\ d.pc = "publish"
        BY <1>3, <2>8, WriteBlockDoes
      <3>2. data[c.node][1] = c.want[1] BY <2>3, <2>8 DEF Contents, Fills
      <3>3. data'[c.node][1] = c.want[1] /\ data'[c.node][2] = c.want[2] BY <2>5, <2>6, <3>1, <3>2
      <3>4. data'[c.node] \in Content BY <2>5 DEF Typed, TypeOK
      <3>5. data'[c.node] = c.want BY <2>5, <3>3, <3>4, ContentEquals
      <3> QED BY <1>1, <2>1, <2>2, <2>4, <3>1, <3>5 DEF InPlace
    <2> QED BY <1>3, <2>7, <2>8, WriteBlockDoes
  <1> QED BY <1>2, <1>3, Writers

\* What a call that ends well has stored.
LEMMA MetMoves ==
    ASSUME Typed, Shapes, Places, Ids, Contents, NEW w \in Uploader, Moves(w)
    PROVE  Met(call[w])'
  <1> DEFINE c == call[w]
             d == call'[w]
  <1>0. c \in Call /\ call \in [Uploader -> Call] /\ CallShape(c) BY CallIs DEF Shapes
  <1>1. ASSUME NEW old, NEW n, Stores(old, n, c.want), PathOf(n) = PathOf(c), n.temp = FALSE,
               OtherFields(d, c)
        PROVE  Holds(call[w])'
    <2>1. n \in obj' /\ data'[n.node] = c.want BY <1>1, StoredElsewhere
    <2> QED BY <1>1, <2>1 DEF Holds, OtherFields, PathOf
  <1>2. CASE Overwrite(w)
    <2>1. PICK n : Stores(At(c, FALSE), n, c.want) /\ n.temp = FALSE /\ PathOf(n) = PathOf(c)
      BY <1>2, OverwriteDoes
    <2>2. OtherFields(d, c) /\ d.pc \in {"ok", "failed"} BY <1>2, RepliedEnds DEF Overwrite
    <2>3. Holds(call[w])' BY <1>1, <2>1, <2>2
    <2> HIDE DEF c, d
    <2> QED BY <2>2, <2>3 DEF Met, d
  <1>3. CASE PutGoogleDrive(w)
    <2>1. CASE d.pc = "failed" BY <2>1 DEF Met
    <2>2. ASSUME c.known, Replied(w, c, FALSE), NEW n, NEW x \in obj, x.id = c.id,
                 Stores({o \in obj : o.id = c.id}, n, c.want), n.temp = FALSE, n.dir = x.dir, n.name = x.name
          PROVE  Met(call[w])'
      <3>1. PathOf(x) = PathOf(c) BY <1>3, <2>2 DEF Ids, PutGoogleDrive
      <3>2. PathOf(n) = PathOf(c) BY <2>2, <3>1 DEF PathOf
      <3>3. OtherFields(d, c) /\ d.pc \in {"ok", "failed"} BY <2>2, RepliedEnds
      <3> QED BY <1>1, <2>2, <3>2, <3>3 DEF Met
    <2>3. ASSUME Replied(w, c, TRUE), NEW n, Stores({}, n, c.want), n.temp = FALSE, PathOf(n) = PathOf(c)
          PROVE  Met(call[w])'
      <3>1. OtherFields(d, c) /\ d.pc \in {"ok", "failed"} BY <2>3, RepliedEnds
      <3> QED BY <1>1, <2>3, <3>1 DEF Met
    <2>4. \/ UNCHANGED <<obj, data, used, blind>> /\ d.pc = "failed" /\ c.known
          \/ /\ c.known /\ Replied(w, c, FALSE)
             /\ \E n, x : /\ x \in obj /\ x.id = c.id
                          /\ Stores({o \in obj : o.id = c.id}, n, c.want)
                          /\ n.temp = FALSE /\ n.dir = x.dir /\ n.name = x.name /\ n.id = x.id
          \/ /\ ~c.known /\ Replied(w, c, TRUE)
             /\ \E n : /\ Stores({}, n, c.want)
                       /\ n.temp = FALSE /\ n.dir = c.dir /\ n.name = c.name
                       /\ n.id = used + 1 /\ PathOf(n) = PathOf(c)
      BY <1>3, PutGoogleDriveDoes
    <2> HIDE DEF c, d
    <2> QED BY <2>1, <2>2, <2>3, <2>4
  <1>4. CASE Rename(w)
    <2>1. /\ c.pc = "publish" /\ ~InPlace(c) /\ OtherFields(d, c) /\ d.pc \in {"ok", "cleanup"}
          /\ UNCHANGED <<data, overlap>> /\ kind # "googledrive"
      BY <1>0, <1>4, RenameDoes DEF CallShape, Writes
    <2>2. PathOf(d) = PathOf(c) /\ d.want = c.want BY <2>1 DEF OtherFields, PathOf
    <2>3. ASSUME Clear(call[w])', NEW o, NEW n, Renames(w, o, n) PROVE Holds(call[w])'
      <3>1. PICK p \in obj : PathOf(p) = PathOf(c) /\ p.temp /\ p.node = c.node /\ data[c.node] = c.want
        BY <2>1, <2>2, <2>3 DEF Contents, Fills, Writes, Clear
      <3>2. o \in obj /\ PathOf(o) = PathOf(c) /\ o.temp BY <2>3 DEF Renames
      <3>3. p.temp \in BOOLEAN /\ o.temp \in BOOLEAN BY <3>1, <3>2, ObjectIs
      <3>4. o = p
        <4>1. o.temp = p.temp /\ PathOf(o) = PathOf(p) BY <3>1, <3>2, <3>3
        <4> QED BY <2>1, <3>1, <3>2, <4>1 DEF Places
      <3>5. n \in obj' /\ n.node = o.node /\ PathOf(n) = PathOf(c) /\ n.temp = FALSE BY <2>3 DEF Renames
      <3> QED BY <2>1, <2>2, <3>1, <3>4, <3>5 DEF Holds
    <2>4. d.pc = "cleanup" \/ \E o, n : Renames(w, o, n) BY <1>4, RenameDoes
    <2> QED BY <2>1, <2>3, <2>4 DEF Met
  <1>5. CASE Close(w)
    <2>1. c.pc = "publish" /\ InPlace(c) /\ d = [c EXCEPT !.pc = "ok"] /\ UNCHANGED <<obj, data, overlap>>
      BY <1>0, <1>5 DEF Close, Becomes, Same
    <2>2. OtherFields(d, c) /\ d.pc = "ok" BY <1>0, <2>1 DEF Call, OtherFields
    <2>3. PathOf(d) = PathOf(c) /\ d.want = c.want BY <2>2 DEF OtherFields, PathOf
    <2>4. ASSUME Clear(call[w])' PROVE Holds(call[w])'
      <3>1. PICK p \in obj : PathOf(p) = PathOf(c) /\ ~p.temp /\ p.node = c.node /\ data[c.node] = c.want
        BY <2>1, <2>3, <2>4 DEF Contents, Fills, Writes, Clear
      <3> QED BY <2>1, <2>3, <3>1 DEF Holds
    <2> QED BY <2>2, <2>4 DEF Met
  <1>6. CASE PostCopy(w)
    <2>1. d = [c EXCEPT !.pc = "waiting"] /\ [name |-> c.name, want |-> c.want] \in pending'
      BY <1>0, <1>6 DEF PostCopy, Becomes
    <2>2. d.pc = "waiting" /\ d.name = c.name /\ d.want = c.want BY <1>0, <2>1 DEF Call
    <2> QED BY <2>1, <2>2 DEF Met
  <1>7. CASE WaitForCopy(w)
    <2>1. c.pc = "waiting" /\ UNCHANGED <<obj, data, overlap>> BY <1>7 DEF WaitForCopy, Same
    <2>2. CASE call'[w] = [c EXCEPT !.pc = "ok", !.late = ([name |-> c.name, want |-> c.want] \in pending)]
      <3>1. /\ OtherFields(d, c) /\ d.pc = "ok" /\ d.late = ([name |-> c.name, want |-> c.want] \in pending)
        BY <1>0, <2>2 DEF Call, OtherFields
      <3>2. PathOf(d) = PathOf(c) /\ d.want = c.want BY <3>1 DEF OtherFields, PathOf
      <3>3. ASSUME ~d.late, Clear(call[w])' PROVE Holds(call[w])'
        <4>1. Clear(c) BY <2>1, <3>2, <3>3 DEF Clear
        <4>2. Holds(c) BY <2>1, <3>1, <3>3, <4>1 DEF Contents, Met
        <4> QED BY <2>1, <3>2, <4>2 DEF Holds
      <3> QED BY <3>1, <3>3 DEF Met
    <2>3. CASE call'[w] = [c EXCEPT !.pc = "failed", !.cond = "odd"]
      <3>1. d.pc = "failed" BY <1>0, <2>3 DEF Call
      <3> QED BY <3>1 DEF Met
    <2> QED BY <1>0, <1>7, <2>2, <2>3 DEF WaitForCopy, Becomes
  <1>8. CASE d.pc \notin {"ok", "waiting"} BY <1>8 DEF Met
  <1> QED BY <1>2, <1>3, <1>4, <1>5, <1>6, <1>7, <1>8, Finishers

LEMMA ContentsMoves ==
    ASSUME Typed, Shapes, Places, Ids, Disputed, Contents, NEW w \in Uploader, Moves(w),
           NEW x \in Uploader, x # w
    PROVE  Fills(call[x])' /\ Met(call[x])'
  <1> DEFINE c == call[x]
             q == [name |-> c.name, want |-> c.want]
  <1>1. /\ call'[x] = c /\ UNCHANGED kind
        /\ Begun(w) \/ Going(w) \/ Ended(w) \/ Waited(w)
    BY OneMoves, CallLife
  <1>2. overlap \subseteq overlap' BY <1>1 DEF Begun, Going, Ended, Waited, Overlaps
  <1>3. CASE Begun(w)
    <2>1. UNCHANGED <<obj, data, pending>> BY <1>3 DEF Begun
    <2> QED BY <1>1, <1>2, <2>1, StandsBy DEF Contents
  <1>4. CASE Going(w) \/ Ended(w) \/ Waited(w)
    <2>1. Busy(w) BY <1>4 DEF Going, Ended, Waited, Busy
    <2>2. ASSUME Clear(call[x])', Writes(c) \/ c.pc \in {"ok", "waiting"} PROVE PathOf(c) # PathOf(call[w])
      <3>1. Clear(c) BY <1>1, <1>2, <2>2 DEF Clear
      <3>2. Busy(x) BY <2>2 DEF Busy, Writes
      <3> QED BY <2>1, <3>1, <3>2 DEF Disputed
    <2>3. Clear(call[x])' /\ (Writes(c) \/ c.pc \in {"ok", "waiting"}) =>
             \A o \in obj : PathOf(o) = PathOf(c) => o \in obj' /\ data'[o.node] = data[o.node]
      BY <2>2, Elsewhere
    <2>4. ASSUME Clear(call[x])', c.pc = "waiting", q \in pending PROVE q \in pending'
      <3>1. CASE pending \subseteq pending' BY <2>4, <3>1
      <3>2. CASE WaitForCopy(w) /\ pending' = pending \ {[name |-> call[w].name, want |-> call[w].want]}
        <4>1. CallShape(c) /\ CallShape(call[w]) BY DEF Shapes
        <4>2. c.op = "copy" /\ call[w].op = "copy" BY <2>4, <3>2, <4>1 DEF CallShape, WaitForCopy
        <4>3. c.name # call[w].name BY <2>2, <2>4, <4>2, CopyPath
        <4> QED BY <2>4, <3>2, <4>3
      <3> QED BY <3>1, <3>2, PendingMoves
    <2> HIDE DEF c, q
    <2> QED BY <1>1, <1>2, <2>3, <2>4, StandsBy DEF Contents, c, q
  <1> QED BY <1>1, <1>3, <1>4

LEMMA ContentsLand ==
    ASSUME Typed, Shapes, Disputed, Contents, NEW q \in pending, CopyLands(q), NEW x \in Uploader
    PROVE  Fills(call[x])' /\ Met(call[x])'
  <1> DEFINE c == call[x]
             p == [name |-> c.name, want |-> c.want]
             old == {o \in obj : PathOf(o) = <<TRUE, q.name>> /\ o.temp = FALSE}
  <1>1. UNCHANGED <<kind, call, overlap>> /\ pending' = pending \ {q} BY DEF CopyLands, Same
  <1>2. PICK n : Stores(old, n, q.want) /\ n.temp = FALSE /\ PathOf(n) = <<TRUE, q.name>>
    BY CopyLandsDoes
  <1>3. kind = "onedrive" /\ CallShape(c) BY DEF Shapes, PendingShape
  <1>4. c.op = "copy" => PathOf(c) = <<TRUE, c.name>> BY CopyPath
  <1>5. c.op # "copy" => PathOf(c)[1] = FALSE
    <2>1. c.op # "copy" => c.dir # Snapshots BY <1>3 DEF CallShape
    <2> QED BY <2>1 DEF PathOf
  <1>6. ASSUME Clear(c), Busy(x), PathOf(c) = <<TRUE, q.name>>
        PROVE  \/ c.pc = "waiting" /\ c.want = q.want
               \/ c.pc = "ok" /\ c.late
    <2>1. c.op = "copy" BY <1>5, <1>6
    <2>2. c.name = q.name BY <1>4, <1>6, <2>1
    <2> QED BY <1>6, <2>1, <2>2 DEF Disputed
  <1>7. CASE Clear(c) /\ Busy(x) /\ PathOf(c) = <<TRUE, q.name>>
    <2>1. CASE c.pc = "waiting" /\ c.want = q.want
      <3>1. n \in obj' /\ data'[n.node] = q.want BY <1>2, StoredElsewhere
      <3>2. Holds(call[x])' BY <1>1, <1>2, <1>7, <2>1, <3>1 DEF Holds
      <3> QED BY <1>1, <2>1, <3>2 DEF Fills, Met, Writes
    <2>2. CASE c.pc = "ok" /\ c.late BY <1>1, <2>2 DEF Fills, Met, Writes
    <2> QED BY <1>6, <1>7, <2>1, <2>2
  <1>8. CASE ~Clear(c) BY <1>1, <1>8 DEF Fills, Met, Clear
  <1>9. CASE ~Busy(x) BY <1>1, <1>9 DEF Fills, Met, Writes, Busy
  <1>10. CASE PathOf(c) # <<TRUE, q.name>>
    <2>1. \A o \in obj : PathOf(o) = PathOf(c) => o \in obj' /\ data'[o.node] = data[o.node]
      <3>1. ASSUME NEW o \in obj, PathOf(o) = PathOf(c) PROVE o \in obj' /\ data'[o.node] = data[o.node]
        <4>1. o \notin old BY <1>10, <3>1
        <4> HIDE DEF old
        <4> QED BY <1>2, <4>1, StoredElsewhere
      <3> QED BY <3>1
    <2>2. ASSUME c.pc = "waiting", p \in pending PROVE p \in pending'
      <3>1. c.op = "copy" BY <1>3, <2>2 DEF CallShape
      <3>2. p.name # q.name BY <1>4, <1>10, <3>1
      <3> QED BY <1>1, <2>2, <3>2
    <2> HIDE DEF c, p
    <2> QED BY <1>1, <2>1, <2>2, StandsBy DEF Contents, c, p
  <1> QED BY <1>7, <1>8, <1>9, <1>10

LEMMA ContentsStep == Typed /\ Shapes /\ Places /\ Ids /\ Disputed /\ Contents /\ [Next]_vars => Contents'
  <1> SUFFICES ASSUME Typed, Shapes, Places, Ids, Disputed, Contents, [Next]_vars, NEW x \in Uploader
               PROVE  Fills(call[x])' /\ Met(call[x])'
    BY DEF Contents
  <1>1. ASSUME NEW w \in Uploader, Moves(w) PROVE Fills(call[x])' /\ Met(call[x])'
    BY <1>1, FillsMoves, MetMoves, ContentsMoves, TypedStep
  <1>2. ASSUME ~(\E q \in pending : CopyLands(q)), Apart \/ \E p \in Process : Kill(p)
        PROVE  Fills(call[x])' /\ Met(call[x])'
    <2>1. /\ call'[x] \in {call[x], NoCall} /\ UNCHANGED <<kind, data>> /\ overlap \subseteq overlap'
      BY <1>2, OthersMove, FewerObjects
    <2>2. CASE call'[x] = NoCall BY <2>2 DEF Fills, Met, Writes, NoCall
    <2>3. CASE call'[x] = call[x]
      <3>1. ASSUME NEW o \in Files, Delete(o), Clear(call[x])', Busy(x), NEW q \in obj,
                   PathOf(q) = PathOf(call[x])
            PROVE  q \in obj'
        <4>1. PathOf(call[x]) # PathOf(o) BY <2>3, <3>1 DEF Delete, Clear
        <4> QED BY <3>1, <4>1 DEF Delete
      <3>2. UNCHANGED pending
        BY <1>2 DEF Apart, Kill, Delete, BeginDownload, Download, EndDownload, BeginListing, ListRoot,
           ListEnds, EndListing, ListFolder, ListFails, Idle, vars
      <3>3. UNCHANGED obj \/ \E o \in Files : Delete(o)
        BY <1>2 DEF Apart, Kill, BeginDownload, Download, EndDownload, BeginListing, ListRoot,
           ListEnds, EndListing, ListFolder, ListFails, Idle, vars
      <3>4. Clear(call[x])' /\ (Writes(call[x]) \/ call[x].pc \in {"ok", "waiting"}) =>
               \A o \in obj : PathOf(o) = PathOf(call[x]) => o \in obj' /\ data'[o.node] = data[o.node]
        BY <2>1, <3>1, <3>3 DEF Busy, Writes
      <3> QED BY <2>1, <2>3, <3>2, <3>4, StandsBy DEF Contents
    <2> QED BY <2>1, <2>2, <2>3
  <1> QED BY <1>1, <1>2, ContentsLand, NextCases

\* ReportedIsStored holds of every behaviour: what an upload or copy reported as done
\* is at its path (upload_file, upload_bytes and copy_file of the backends).
THEOREM ReportedIsStoredHolds == Spec => []ReportedIsStored
  <1>1. Contents => ReportedIsStored
    BY DEF Contents, Met, Holds, Clear, ReportedIsStored
  <1> QED BY <1>1, TypedInit, TypedStep, ShapesInit, ShapesStep, PlacesInit, PlacesStep, IdsInit, IdsStep,
             DisputedInit, DisputedStep, ContentsInit, ContentsStep, PTL DEF Spec

-----------------------------------------------------------------------------
(* Whole files.                                                              *)

\* A path stays torn until the call that writes there has closed the file.
LEMMA TornMoves ==
    ASSUME Typed, Shapes, NEW w \in Uploader, Moves(w), NEW o, Torn(o),
           ~(Close(w) /\ PathOf(o) = PathOf(call[w]))
    PROVE  Torn(o)'
  <1> DEFINE c == call[w]
  <1>1. \A x \in Uploader \ {w} : call'[x] = call[x] BY OneMoves
  <1>2. UNCHANGED kind BY OneMoves
  <1>3. CASE PathOf(o) \in broken
    <2>1. PathOf(o) \in broken' BY <1>3, LeftGrows DEF Close
    <2> QED BY <2>1 DEF Torn
  <1>4. ASSUME NEW x \in Uploader, x # w, InPlace(call[x]), PathOf(call[x]) = PathOf(o), Writes(call[x])
        PROVE  Torn(o)'
    <2>1. call'[x] = call[x] BY <1>1, <1>4
    <2> QED BY <1>2, <1>4, <2>1 DEF Torn, InPlace, Writes
  <1>5. ASSUME InPlace(c), PathOf(c) = PathOf(o), Writes(c) PROVE Torn(o)'
    <2>1. CASE WriteBlock(w)
      <3>1. OtherFields(call'[w], c) /\ call'[w].pc \in {"second", "publish"} BY <2>1, WriteBlockDoes
      <3>2. PathOf(call'[w]) = PathOf(o) /\ call'[w].direct = c.direct BY <1>5, <3>1 DEF OtherFields, PathOf
      <3> QED BY <1>2, <1>5, <3>1, <3>2 DEF Torn, InPlace
    <2>2. CASE \E e \in Condition : Fail(w, e)
      <3>1. PathOf(o) \in broken' BY <1>5, <2>2, FailDoes
      <3> QED BY <3>1 DEF Torn
    <2>3. ~Close(w) /\ ~Rename(w) BY <1>5 DEF Rename
    <2> QED BY <1>5, <2>1, <2>2, <2>3, MovesCases DEF Writes, BeginUpload, BeginCopy, MayBegin, Busy,
         FindFolder, ResolveDropbox, ResolveOneDrive, ResolveWebDAV, ResolveSftp, ResolveFtp, ResolveSmb,
         ResolveS3, Resolve, LookInCache, QueryFolder, CreateFolder, Overwrite, PutGoogleDrive, Open,
         Cleanup, PostCopy, WaitForCopy, Retry, WillRetry, Return
  <1> QED BY <1>3, <1>4, <1>5 DEF Torn, Writes

\* What is put in the folder of the files is the content of an upload.
LEMMA UploadsWhole ==
    ASSUME Typed, Shapes, NEW w \in Uploader, call[w].pc # "idle",
           call[w].dir # Snapshots \/ call[w].known
    PROVE  Whole(call[w].want)
  <1>1. CallShape(call[w]) /\ call[w].op \in {"upload", "copy"} BY CallIs DEF Shapes
  <1> QED BY <1>1 DEF CallShape

LEMMA WholeMoves ==
    ASSUME Typed, Shapes, Places, Contents, WholeOrKnown, NEW w \in Uploader, Moves(w),
           NEW o \in Files'
    PROVE  Whole(data'[o.node]) \/ Torn(o)' \/ PathOf(o) \in overlap'
  <1> DEFINE c == call[w]
             Fine == Whole(data'[o.node]) \/ Torn(o)' \/ PathOf(o) \in overlap'
  <1>1. o \in obj' /\ ~o.temp /\ o.dir # Snapshots BY DEF Files
  <1>2. overlap \subseteq overlap' BY CallLife DEF Begun, Going, Ended, Waited, Overlaps
  <1>3. ASSUME o \in obj, data'[o.node] = data[o.node], ~Close(w) PROVE Fine
    <2>1. o \in Files BY <1>1, <1>3 DEF Files
    <2>2. Whole(data[o.node]) \/ Torn(o) \/ PathOf(o) \in overlap BY <2>1 DEF WholeOrKnown
    <2>3. Torn(o) => Torn(o)' BY <1>3, TornMoves
    <2> QED BY <1>2, <1>3, <2>2, <2>3 DEF Whole
  <1>4. ASSUME NEW old, NEW n, Stores(old, n, c.want), ~Close(w), c.pc # "idle",
               o = n => c.dir # Snapshots \/ c.known
        PROVE  Fine
    <2>1. CASE o = n BY <1>4, <2>1, StoredElsewhere, UploadsWhole
    <2>2. CASE o # n BY <1>1, <1>3, <1>4, <2>2, StoredElsewhere
    <2> QED BY <2>1, <2>2
  <1>5. CASE Overwrite(w)
    <2>1. PICK n : Stores(At(c, FALSE), n, c.want) /\ n.dir = c.dir BY <1>5, OverwriteDoes
    <2>2. ~Close(w) /\ c.pc # "idle" BY <1>5 DEF Overwrite, Close
    <2> QED BY <1>1, <1>4, <2>1, <2>2
  <1>6. CASE PutGoogleDrive(w)
    <2>1. ~Close(w) /\ c.pc # "idle" BY <1>6 DEF PutGoogleDrive, Close
    <2>2. \/ UNCHANGED <<obj, data>>
          \/ \E old, n : Stores(old, n, c.want) /\ (n.dir = c.dir \/ c.known)
      BY <1>6, PutGoogleDriveDoes
    <2> QED BY <1>1, <1>3, <1>4, <2>1, <2>2
  <1>7. CASE Open(w)
    <2>1. c.pc = "put" /\ call'[w].pc = "first" /\ OtherFields(call'[w], c) /\ UNCHANGED kind /\ ~Close(w)
      BY <1>7, OpenDoes, OneMoves DEF Close
    <2>2. ASSUME PathOf(o) = PathOf(c), InPlace(c) PROVE Torn(o)'
      <3>1. PathOf(call'[w]) = PathOf(o) /\ call'[w].direct = c.direct
        BY <2>1, <2>2 DEF OtherFields, PathOf
      <3> QED BY <2>1, <2>2, <3>1 DEF Torn, InPlace
    <2>3. ASSUME NEW n, OpensNew(w, n) PROVE Fine
      <3>1. Stores({}, n, NoCall.want) /\ PathOf(n) = PathOf(c) /\ (n.temp <=> ~InPlace(c))
        BY <2>3 DEF OpensNew
      <3>2. CASE o = n BY <1>1, <2>2, <3>1, <3>2
      <3>3. CASE o # n BY <1>1, <1>3, <2>1, <3>1, <3>3, StoredElsewhere
      <3> QED BY <3>2, <3>3
    <2>4. ASSUME NEW q \in obj, OpensOld(w, q) PROVE Fine
      <3>1. /\ PathOf(q) = PathOf(c) /\ (q.temp <=> ~InPlace(c)) /\ UNCHANGED obj
            /\ data' = [data EXCEPT ![q.node] = NoCall.want]
        BY <2>4 DEF OpensOld
      <3>2. CASE o = q BY <1>1, <2>2, <3>1, <3>2
      <3>3. CASE o # q
        <4>1. o.node # q.node /\ o \in obj BY <1>1, <3>1, <3>3 DEF Places
        <4>2. o.node \in Node /\ data \in [Node -> Content] BY <4>1, ObjectIs, RestFacts
        <4> QED BY <1>3, <2>1, <3>1, <4>1, <4>2
      <3> QED BY <3>2, <3>3
    <2> QED BY <1>7, <2>3, <2>4, OpenDoes
  <1>8. CASE WriteBlock(w)
    <2>1. /\ UNCHANGED <<obj, overlap>> /\ \E v : data' = [data EXCEPT ![c.node] = v]
          /\ call'[w].pc \in {"second", "publish"} /\ OtherFields(call'[w], c) /\ UNCHANGED kind
      BY <1>8, WriteBlockDoes, OneMoves
    <2>2. Writes(c) /\ ~Close(w) BY <1>8 DEF WriteBlock, Writes, Close
    <2>3. o \in obj /\ o.node \in Node /\ data \in [Node -> Content] BY <1>1, <2>1, ObjectIs, RestFacts
    <2>4. CASE o.node # c.node BY <1>3, <2>1, <2>2, <2>3, <2>4
    <2>5. CASE o.node = c.node
      <3>1. PathOf(o) = PathOf(c) BY <2>2, <2>3, <2>5 DEF Places
      <3>2. CASE InPlace(c)
        <4>1. PathOf(call'[w]) = PathOf(o) /\ call'[w].direct = c.direct
          BY <2>1, <3>1 DEF OtherFields, PathOf
        <4> QED BY <2>1, <3>2, <4>1 DEF Torn, InPlace
      <3>3. CASE ~InPlace(c) /\ Clear(c)
        <4>1. PICK p \in obj : p.temp /\ p.node = c.node BY <2>2, <3>3 DEF Contents, Fills
        <4> QED BY <1>1, <2>3, <2>5, <4>1 DEF Places
      <3>4. CASE ~Clear(c) BY <2>1, <3>1, <3>4 DEF Clear
      <3> QED BY <3>2, <3>3, <3>4
    <2> QED BY <2>4, <2>5
  <1>9. CASE Rename(w)
    <2>1. c.pc = "publish" /\ ~InPlace(c) /\ UNCHANGED <<data, overlap>> /\ ~Close(w)
      BY <1>9, RenameDoes DEF Close
    <2>2. CASE o \in obj BY <1>3, <2>1, <2>2
    <2>3. ASSUME NEW p, NEW n, Renames(w, p, n), o \notin obj PROVE Fine
      <3>1. /\ o = n /\ p \in obj /\ PathOf(p) = PathOf(c) /\ p.temp /\ n.node = p.node /\ n.dir = p.dir
            /\ PathOf(n) = PathOf(c)
        BY <1>1, <2>3 DEF Renames
      <3>2. CASE ~Clear(c) BY <2>1, <3>1, <3>2 DEF Clear
      <3>3. CASE Clear(c)
        <4>1. PICK r \in obj : PathOf(r) = PathOf(c) /\ r.temp /\ r.node = c.node /\ data[c.node] = c.want
          BY <2>1, <3>3 DEF Contents, Fills, Writes
        <4>2. CallShape(c) /\ p.temp \in BOOLEAN /\ r.temp \in BOOLEAN BY <3>1, <4>1, ObjectIs DEF Shapes
        <4>3. r = p
          <5>1. kind # "googledrive" BY <2>1, <4>2 DEF CallShape, Writes
          <5>2. r.temp = p.temp /\ PathOf(r) = PathOf(p) BY <3>1, <4>1, <4>2
          <5> QED BY <3>1, <4>1, <5>1, <5>2 DEF Places
        <4>4. c.dir # Snapshots BY <1>1, <3>1 DEF PathOf
        <4>5. Whole(c.want) BY <2>1, <4>4, UploadsWhole
        <4> QED BY <2>1, <3>1, <4>1, <4>3, <4>5
      <3> QED BY <3>2, <3>3
    <2> QED BY <1>1, <1>9, <2>2, <2>3, RenameDoes
  <1>10. CASE Close(w)
    <2>1. c.pc = "publish" /\ InPlace(c) /\ UNCHANGED <<obj, data, overlap>> BY <1>10 DEF Close, Same
    <2>2. o \in Files /\ o \in obj BY <1>1, <2>1 DEF Files
    <2>3. CASE PathOf(o) # PathOf(c)
      <3>1. Torn(o) => Torn(o)' BY <2>3, TornMoves
      <3> QED BY <2>1, <2>2, <3>1 DEF WholeOrKnown
    <2>4. CASE PathOf(o) = PathOf(c) /\ ~Clear(c) BY <2>1, <2>4 DEF Clear
    <2>5. CASE PathOf(o) = PathOf(c) /\ Clear(c)
      <3>1. PICK r \in obj : PathOf(r) = PathOf(c) /\ ~r.temp /\ r.node = c.node /\ data[c.node] = c.want
        BY <2>1, <2>5 DEF Contents, Fills, Writes
      <3>2. CallShape(c) /\ o.temp = r.temp
        <4>1. o.temp \in BOOLEAN /\ r.temp \in BOOLEAN BY <2>2, <3>1, ObjectIs
        <4> QED BY <1>1, <3>1, <4>1 DEF Shapes
      <3>3. r = o BY <2>1, <2>2, <2>5, <3>1, <3>2 DEF Places, CallShape, Writes
      <3>4. c.dir # Snapshots BY <1>1, <2>5 DEF PathOf
      <3>5. Whole(c.want) BY <2>1, <3>4, UploadsWhole
      <3> QED BY <2>1, <3>1, <3>3, <3>5
    <2> QED BY <2>3, <2>4, <2>5
  <1>11. CASE ~Close(w) /\ ~Overwrite(w) /\ ~PutGoogleDrive(w) /\ ~Open(w) /\ ~Rename(w) /\ ~WriteBlock(w)
    BY <1>1, <1>3, <1>11, QuietMoves
  <1> QED BY <1>5, <1>6, <1>7, <1>8, <1>9, <1>10, <1>11

LEMMA WholeStep ==
    Typed /\ Shapes /\ Places /\ Contents /\ WholeOrKnown /\ [Next]_vars => WholeOrKnown'
  <1> SUFFICES ASSUME Typed, Shapes, Places, Contents, WholeOrKnown, [Next]_vars, NEW o \in Files'
               PROVE  Whole(data'[o.node]) \/ Torn(o)' \/ PathOf(o) \in overlap'
    BY DEF WholeOrKnown
  <1>1. CASE Apart \/ \E p \in Process : Kill(p)
    <2>1. ASSUME o \in obj, data'[o.node] = data[o.node]
          PROVE  Whole(data'[o.node]) \/ Torn(o)' \/ PathOf(o) \in overlap'
      <3>1. o \in Files /\ overlap \subseteq overlap' BY <1>1, <2>1, OthersMove DEF Files
      <3>2. Torn(o) => Torn(o)'
        <4>1. UNCHANGED kind /\ broken \subseteq broken' BY <1>1, OthersMove
        <4>2. CASE Apart
          <5>1. call' = call BY <4>2, ApartStays
          <5> QED BY <4>1, <5>1 DEF Torn, InPlace
        <4>3. ASSUME NEW p \in Process, Kill(p), NEW x \in Uploader, InPlace(call[x]),
                     PathOf(call[x]) = PathOf(o), Writes(call[x])
              PROVE  Torn(o)'
          <5>1. call'[x] = call[x] \/ PathOf(o) \in broken' BY <4>3 DEF Kill, Writes
          <5> QED BY <4>1, <4>3, <5>1 DEF Torn, InPlace, Writes
        <4> QED BY <1>1, <4>1, <4>2, <4>3 DEF Torn, Writes
      <3> QED BY <2>1, <3>1, <3>2 DEF WholeOrKnown
    <2>2. ASSUME NEW q \in pending, CopyLands(q)
          PROVE  o \in obj /\ data'[o.node] = data[o.node]
      <3>1. PICK old, n : Stores(old, n, q.want) /\ n.dir = Snapshots BY <2>2, CopyLandsDoes
      <3>2. o # n /\ o \in obj' BY <3>1 DEF Files
      <3> QED BY <3>1, <3>2, StoredElsewhere
    <2>3. CASE ~(\E q \in pending : CopyLands(q)) BY <1>1, <2>1, <2>3, FewerObjects DEF Files
    <2> QED BY <2>1, <2>2, <2>3
  <1> QED BY <1>1, WholeMoves, NextCases

\* WholeOrKnown holds of every behaviour: what is to be seen at a path is a whole
\* version, or is known to be torn (sftp.py and smb.py publish by a rename, the
\* others by one request; ftp.py writes in place).
THEOREM WholeOrKnownHolds == Spec => []WholeOrKnown
  <1>1. Init => WholeOrKnown BY DEF Init, WholeOrKnown, Files
  <1> QED BY <1>1, TypedInit, TypedStep, ShapesInit, ShapesStep, PlacesInit, PlacesStep, IdsInit, IdsStep,
             DisputedInit, DisputedStep, ContentsInit, ContentsStep, WholeStep, PTL DEF Spec

-----------------------------------------------------------------------------
(* One folder, and one object per path.                                      *)

\* A second folder of the name comes of two threads that both found none.
Folders ==
    /\ FolderPath \in overlap \/ folder \in {{}, {1}}
    /\ \A w \in Uploader : call[w].pc = "create" => FolderPath \in overlap \/ folder = {}
    /\ \A v, w \in Uploader :
          v # w /\ call[v].pc = "create" /\ call[w].pc = "create" => FolderPath \in overlap

LEMMA FoldersInit == Init => Folders
  BY DEF Init, Folders, NoCall

\* Who creates a folder has just found none.
LEMMA Creators ==
    ASSUME Typed, Shapes, NEW w \in Uploader, Moves(w), call'[w].pc = "create"
    PROVE  QueryFolder(w) /\ folder = {} /\ UNCHANGED folder
           /\ ((\E x \in Uploader : call[x].pc = "create") => FolderPath \in overlap')
  <1> DEFINE c == call[w]
  <1>1. c \in Call /\ call \in [Uploader -> Call] /\ NoCall.pc = "idle" BY CallIs DEF NoCall
  <1>2. CASE (\E f \in File : BeginUpload(w, f)) \/ (\E o \in Files : BeginCopy(w, o))
    <2>1. c.pc = "idle" BY <1>2 DEF BeginUpload, BeginCopy, MayBegin, Busy
    <2> QED BY <2>1, CallLife DEF Begun, Going, Ended, Waited
  <1>3. CASE QueryFolder(w)
    <2>1. \A d : call'[w] # [c EXCEPT !.pc = "put", !.dir = d]
      <3>1. \A d : [c EXCEPT !.pc = "put", !.dir = d].pc = "put" BY <1>1 DEF Call
      <3> QED BY <3>1
    <2>2. \A d : ~Becomes(w, [c EXCEPT !.pc = "put", !.dir = d]) BY <1>1, <2>1 DEF Becomes
    <2> QED BY <1>3, <2>2 DEF QueryFolder
  <1>4. CASE FindFolder(w) /\ ~QueryFolder(w) BY <1>4, FindFolderDoes
  <1>5. CASE Open(w) BY <1>5, OpenDoes
  <1>6. CASE WriteBlock(w) BY <1>6, WriteBlockDoes
  <1>7. CASE Overwrite(w) BY <1>7, RepliedEnds DEF Overwrite
  <1>8. CASE PutGoogleDrive(w)
    <2>1. call'[w].pc \in {"ok", "failed"} BY <1>8, PutGoogleDriveDoes, RepliedEnds
    <2> QED BY <2>1
  <1>9. CASE Rename(w) BY <1>9, RenameDoes
  <1>10. CASE Close(w) \/ Cleanup(w) \/ PostCopy(w)
    <2>1. \E pc \in {"ok", "failed", "waiting"} : call'[w] = [c EXCEPT !.pc = pc]
      BY <1>1, <1>10 DEF Close, Cleanup, PostCopy, Becomes
    <2> QED BY <1>1, <2>1 DEF Call
  <1>11. CASE WaitForCopy(w)
    <2>1. c.pc = "waiting" BY <1>11 DEF WaitForCopy
    <2> QED BY <1>1, <2>1, CallLife DEF Begun, Going, Ended, Waited
  <1>12. CASE \E e \in Condition : Fail(w, e) BY <1>12, FailDoes
  <1>13. CASE Retry(w)
    <2>1. \E pc \in {"put", "resolve"} : \E t, e : call'[w] = [c EXCEPT !.pc = pc, !.tries = t, !.cond = e]
      BY <1>1, <1>13 DEF Retry, Becomes
    <2> QED BY <1>1, <2>1 DEF Call
  <1>14. CASE Return(w) BY <1>1, <1>14 DEF Return, Becomes
  <1> QED BY <1>2, <1>3, <1>4, <1>5, <1>6, <1>7, <1>8, <1>9, <1>10, <1>11, <1>12, <1>13, <1>14, MovesCases

LEMMA FolderMoves ==
    ASSUME NEW w \in Uploader, Moves(w)
    PROVE  \/ UNCHANGED folder
           \/ kind # "googledrive" /\ folder' = folder \cup {1}
           \/ call[w].pc = "create" /\ folder' = folder \cup {Cardinality(folder) + 1}
  BY MovesCases DEF BeginUpload, BeginCopy, Overwrite, PutGoogleDrive, Open, WriteBlock, Rename, Close,
     Cleanup, WaitForCopy, PostCopy, Fail, Retry, Return, FindFolder, ResolveDropbox, ResolveOneDrive,
     ResolveWebDAV, ResolveSftp, ResolveFtp, ResolveSmb, ResolveS3, Resolve, LookInCache,
     QueryFolder, CreateFolder, Same

LEMMA FoldersStep == Typed /\ Shapes /\ Folders /\ [Next]_vars => Folders'
  <1> SUFFICES ASSUME Typed, Shapes, Folders, [Next]_vars PROVE Folders' OBVIOUS
  <1>1. ASSUME NEW w \in Uploader, Moves(w) PROVE Folders'
    <2>1. \A x \in Uploader \ {w} : call'[x] = call[x] BY <1>1, OneMoves
    <2>2. overlap \subseteq overlap' BY <1>1, CallLife DEF Begun, Going, Ended, Waited, Overlaps
    <2>3. CASE FolderPath \in overlap BY <2>2, <2>3 DEF Folders
    <2>4. CASE FolderPath \notin overlap
      <3>1. folder \in {{}, {1}} /\ \A x \in Uploader : call[x].pc = "create" => folder = {}
        BY <2>4 DEF Folders
      <3>2. \A v, x \in Uploader : v # x /\ call[v].pc = "create" => call[x].pc # "create"
        BY <2>4 DEF Folders
      <3>3. CASE call'[w].pc = "create"
        <4>1. /\ folder = {} /\ folder' = {}
              /\ (\E x \in Uploader : call[x].pc = "create") => FolderPath \in overlap'
          BY <1>1, <3>3, Creators
        <4> QED BY <2>1, <4>1 DEF Folders
      <3>4. CASE call'[w].pc # "create"
        <4>1. \A x \in Uploader : call'[x].pc = "create" => x # w /\ call[x].pc = "create"
          BY <2>1, <3>4
        <4>2. CASE UNCHANGED folder BY <3>1, <3>2, <4>1, <4>2 DEF Folders
        <4>3. CASE kind # "googledrive" /\ folder' = folder \cup {1}
          <5>1. \A x \in Uploader : call'[x].pc # "create" BY <4>1, <4>3 DEF Shapes, CallShape
          <5>2. folder' = {1} BY <3>1, <4>3
          <5> QED BY <5>1, <5>2 DEF Folders
        <4>4. CASE call[w].pc = "create" /\ folder' = folder \cup {Cardinality(folder) + 1}
          <5>1. folder = {} BY <3>1, <4>4
          <5>2. Cardinality(folder) = 0 BY <5>1, FS_EmptySet
          <5>3. folder' = {1} BY <4>4, <5>1, <5>2
          <5>4. \A x \in Uploader : call'[x].pc # "create" BY <3>2, <4>1, <4>4
          <5> QED BY <5>3, <5>4 DEF Folders
        <4> QED BY <1>1, <4>2, <4>3, <4>4, FolderMoves
      <3> QED BY <3>3, <3>4
    <2> QED BY <2>3, <2>4
  <1>2. CASE Apart \/ \E p \in Process : Kill(p)
    <2>1. NoCall.pc = "idle" BY DEF NoCall
    <2>2. UNCHANGED folder /\ overlap \subseteq overlap' /\ \A x \in Uploader : call'[x] \in {call[x], NoCall}
      BY <1>2, OthersMove
    <2> QED BY <2>1, <2>2 DEF Folders
  <1> QED BY <1>1, <1>2, NextCases

\* On Google Drive two files share a path only after a lost reply, an upload that did
\* not know the id, or an overlap; an upload without an id otherwise finds the path free.
Singles ==
    kind = "googledrive" =>
       /\ \A o, q \in Files : o # q /\ PathOf(o) = PathOf(q) => blind \/ PathOf(o) \in overlap
       /\ \A w \in Uploader :
             Busy(w) /\ call[w].op = "upload" /\ ~call[w].known /\ call[w].pc # "ok" /\ ~blind /\ Clear(call[w])
               => \A o \in obj : PathOf(o) # PathOf(call[w])

LEMMA SinglesInit == Init => Singles
  BY DEF Init, Singles, Files

LEMMA BlindGrows ==
    ASSUME Typed, NEW w \in Uploader, Moves(w) PROVE blind => blind'
  BY MovesCases DEF BeginUpload, BeginCopy, Overwrite, PutGoogleDrive, Open, WriteBlock, Rename, Close,
     Cleanup, WaitForCopy, PostCopy, Fail, Retry, Return, FindFolder, ResolveDropbox, ResolveOneDrive,
     ResolveWebDAV, ResolveSftp, ResolveFtp, ResolveSmb, ResolveS3, Resolve, LookInCache,
     QueryFolder, CreateFolder, Replied

\* An upload that begins without an id has seen the path free, or is blind.
LEMMA BeginsBlind ==
    ASSUME Typed, Shapes, NEW w \in Uploader, Moves(w), Begun(w), kind = "googledrive",
           call'[w].op = "upload", ~call'[w].known, ~blind'
    PROVE  \A o \in obj : PathOf(o) # PathOf(call'[w])
  <1> DEFINE c == call[w]
  <1>1. call \in [Uploader -> Call] /\ c.pc = "idle" BY CallIs DEF Begun
  <1>2. ASSUME NEW f \in File, BeginUpload(w, f) PROVE \A o \in obj : PathOf(o) # PathOf(call'[w])
    <2> DEFINE b == [NoCall EXCEPT !.name = f, !.want = [x \in 1..2 |-> calls + 1]]
    <2>1. \/ call'[w] = [b EXCEPT !.pc = "resolve"] /\ blind' = (blind \/ At(b, FALSE) # {})
          \/ \E o \in At(b, FALSE) :
               call'[w] = [b EXCEPT !.pc = "put", !.known = TRUE, !.id = o.id, !.dir = o.dir]
      BY <1>1, <1>2 DEF BeginUpload, Becomes
    <2>2. \A i, d : [b EXCEPT !.pc = "put", !.known = TRUE, !.id = i, !.dir = d].known BY DEF NoCall
    <2>3. call'[w] = [b EXCEPT !.pc = "resolve"] /\ At(b, FALSE) = {} BY <2>1, <2>2
    <2>4. call'[w].dir = b.dir /\ call'[w].name = b.name BY <2>3 DEF NoCall
    <2> HIDE DEF b
    <2>5. PathOf(call'[w]) = PathOf(b) BY <2>4 DEF PathOf
    <2>6. \A o \in obj : o.temp = FALSE
      <3>1. \A o \in obj : ObjectShape(o) /\ o.temp \in BOOLEAN BY ObjectIs DEF Shapes
      <3> QED BY <3>1 DEF ObjectShape
    <2> QED BY <2>3, <2>5, <2>6 DEF At
  <1>3. ~(\E o \in Files : BeginCopy(w, o))
    <2>1. ASSUME NEW o \in Files, BeginCopy(w, o) PROVE FALSE
      <3>1. call'[w].op = "copy" BY <1>1, <2>1 DEF BeginCopy, Becomes, NoCall
      <3> QED BY <3>1
    <2> QED BY <2>1
  <1> QED BY <1>1, <1>2, <1>3, MovesCases DEF FindFolder, ResolveDropbox, ResolveOneDrive, ResolveWebDAV,
       ResolveSftp, ResolveFtp, ResolveSmb, ResolveS3, Resolve, LookInCache, QueryFolder, CreateFolder,
       Overwrite, PutGoogleDrive, Open, WriteBlock, Rename, Close, Cleanup, PostCopy, WaitForCopy, Fail,
       Retry, WillRetry, Return

LEMMA DriveMoves ==
    ASSUME Typed, Shapes, NEW w \in Uploader, Moves(w), kind = "googledrive", ~PutGoogleDrive(w)
    PROVE  obj' \subseteq obj
  <1>1. ~Rename(w)
    <2>1. CallShape(call[w]) BY DEF Shapes
    <2> QED BY <2>1 DEF Rename, CallShape, Writes
  <1> QED BY <1>1, QuietMoves DEF InPlaceOrTemp, Plain

\* What PutGoogleDrive leaves in the folder of the files.
LEMMA DriveStores ==
    ASSUME Typed, Shapes, Ids, Singles, NEW w \in Uploader, PutGoogleDrive(w), ~UNCHANGED obj
    PROVE  \E n : /\ \A o \in obj' : o = n \/ o \in obj
                  /\ PathOf(n) = PathOf(call[w])
                  /\ n.dir # Snapshots /\ ~blind /\ Clear(call[w]) =>
                        \A o \in Files : o \in obj' => PathOf(o) # PathOf(n)
                  /\ ~call[w].known => call'[w].pc = "ok" \/ blind'
  <1> DEFINE c == call[w]
  <1>1. c.pc = "put" /\ kind = "googledrive" /\ CallShape(c) /\ c.op \in {"upload", "copy"}
    BY CallIs DEF PutGoogleDrive, Shapes
  <1>2. ASSUME c.known, NEW n, NEW x \in obj, x.id = c.id, Stores({o \in obj : o.id = c.id}, n, c.want),
               n.temp = FALSE, n.dir = x.dir, n.name = x.name
        PROVE  /\ \A o \in obj' : o = n \/ o \in obj
               /\ PathOf(n) = PathOf(c)
               /\ n.dir # Snapshots /\ ~blind /\ Clear(c) =>
                     \A o \in Files : o \in obj' => PathOf(o) # PathOf(n)
    <2>1. PathOf(x) = PathOf(c) BY <1>1, <1>2 DEF Ids
    <2>2. PathOf(n) = PathOf(x) BY <1>2 DEF PathOf
    <2>3. \A o \in obj' : o = n \/ (o \in obj /\ o.id # c.id) BY <1>2 DEF Stores
    <2>4. n \notin obj
      <3>1. n.node = used + 1 /\ used \in Nat BY <1>2, RestFacts DEF Stores
      <3>2. \A o \in obj : o.node <= used /\ o.node \in Nat BY ObjectIs DEF Shapes, ObjectShape
      <3> QED BY <3>1, <3>2
    <2>5. ASSUME n.dir # Snapshots, ~blind, Clear(c), NEW o \in Files, o \in obj'
          PROVE  PathOf(o) # PathOf(n)
      <3>1. ~x.temp
        <4>1. ObjectShape(x) /\ x.temp \in BOOLEAN BY ObjectIs DEF Shapes
        <4> QED BY <1>1, <4>1 DEF ObjectShape
      <3>2. x \in Files BY <1>2, <2>5, <3>1 DEF Files
      <3>3. o \in obj BY <2>5 DEF Files
      <3>4. o # x BY <1>2, <2>3, <2>4, <2>5, <3>3
      <3> QED BY <1>1, <2>1, <2>2, <2>5, <3>2, <3>4 DEF Singles, Clear
    <2> QED BY <2>1, <2>2, <2>3, <2>5
  <1>3. ASSUME ~c.known, NEW n, Stores({}, n, c.want), n.dir = c.dir, PathOf(n) = PathOf(c)
        PROVE  /\ \A o \in obj' : o = n \/ o \in obj
               /\ PathOf(n) = PathOf(c)
               /\ n.dir # Snapshots /\ ~blind /\ Clear(c) =>
                     \A o \in Files : o \in obj' => PathOf(o) # PathOf(n)
    <2>1. \A o \in obj' : o = n \/ o \in obj BY <1>3 DEF Stores
    <2>2. ASSUME n.dir # Snapshots, ~blind, Clear(c), NEW o \in Files PROVE PathOf(o) # PathOf(n)
      <3>1. c.op = "upload" /\ Busy(w) /\ c.pc # "ok" BY <1>1, <1>3, <2>2 DEF CallShape, Busy
      <3> QED BY <1>1, <1>3, <2>2, <3>1 DEF Singles, Files
    <2> QED BY <1>3, <2>1, <2>2
  <1>4. ~c.known /\ Replied(w, c, TRUE) => call'[w].pc = "ok" \/ blind' BY RepliedEnds
  <1>5. \/ /\ c.known
           /\ \E n, x : /\ x \in obj /\ x.id = c.id
                        /\ Stores({o \in obj : o.id = c.id}, n, c.want)
                        /\ n.temp = FALSE /\ n.dir = x.dir /\ n.name = x.name
        \/ /\ ~c.known /\ Replied(w, c, TRUE)
           /\ \E n : Stores({}, n, c.want) /\ n.dir = c.dir /\ PathOf(n) = PathOf(c)
    <2>1. \/ UNCHANGED <<obj, data, used, blind>> /\ call'[w].pc = "failed" /\ c.known
          \/ /\ c.known /\ Replied(w, c, FALSE)
             /\ \E n, x : /\ x \in obj /\ x.id = c.id
                          /\ Stores({o \in obj : o.id = c.id}, n, c.want)
                          /\ n.temp = FALSE /\ n.dir = x.dir /\ n.name = x.name /\ n.id = x.id
          \/ /\ ~c.known /\ Replied(w, c, TRUE)
             /\ \E n : /\ Stores({}, n, c.want)
                       /\ n.temp = FALSE /\ n.dir = c.dir /\ n.name = c.name
                       /\ n.id = used + 1 /\ PathOf(n) = PathOf(c)
      BY PutGoogleDriveDoes
    <2> HIDE DEF c
    <2> QED BY <2>1
  <1> HIDE DEF c
  <1>6. CASE c.known
    <2>1. PICK n, x : /\ x \in obj /\ x.id = c.id
                      /\ Stores({o \in obj : o.id = c.id}, n, c.want)
                      /\ n.temp = FALSE /\ n.dir = x.dir /\ n.name = x.name
      BY <1>5, <1>6
    <2> QED BY <1>2, <1>6, <2>1 DEF c
  <1>7. CASE ~c.known BY <1>3, <1>4, <1>5, <1>7 DEF c
  <1> QED BY <1>6, <1>7

\* Of the calls that have no id, none is about to make a second file of a name.
SinglesAfter ==
    \A x \in Uploader :
       /\ call'[x].pc # "idle" /\ call'[x].op = "upload" /\ ~call'[x].known
       /\ call'[x].pc # "ok" /\ ~blind' /\ PathOf(call'[x]) \notin overlap'
       => \A o \in obj' : PathOf(o) # PathOf(call'[x])

LEMMA SinglesMoves ==
    ASSUME Typed, Shapes, Ids, Disputed, Singles, NEW w \in Uploader, Moves(w), kind = "googledrive"
    PROVE  Singles'
  <1> DEFINE c == call[w]
             d == call'[w]
  <1>1. \A x \in Uploader \ {w} : call'[x] = call[x] BY OneMoves
  <1>2. overlap \subseteq overlap' /\ (blind => blind')
    BY CallLife, BlindGrows DEF Begun, Going, Ended, Waited, Overlaps
  <1>3. ASSUME NEW x \in Uploader, call'[x].pc # "idle", call'[x].op = "upload", ~call'[x].known,
               call'[x].pc # "ok", ~blind', PathOf(call'[x]) \notin overlap'
        PROVE  \A o \in obj : PathOf(o) # PathOf(call'[x])
    <2>1. CASE Begun(w) /\ x = w BY <1>3, <2>1, BeginsBlind
    <2>2. CASE Going(w) /\ x = w
      <3>1. c.op = "upload" /\ ~c.known /\ Busy(w) /\ c.pc # "ok" /\ PathOf(d) = PathOf(c)
        BY <1>3, <2>2 DEF Going, Kept, Busy
      <3> QED BY <1>2, <1>3, <2>2, <3>1 DEF Singles, Clear
    <2>3. CASE Ended(w) /\ x = w BY <1>3, <2>3 DEF Ended, NoCall
    <2>4. CASE x # w
      <3>1. call'[x] = call[x] /\ Busy(x) BY <1>1, <1>3, <2>4 DEF Busy
      <3> QED BY <1>2, <1>3, <3>1 DEF Singles, Clear
    <2>5. ~Waited(w)
      <3>1. CallShape(c) BY DEF Shapes
      <3> QED BY <3>1 DEF Waited, CallShape
    <2> QED BY <2>1, <2>2, <2>3, <2>4, <2>5, CallLife
  <1>4. CASE obj' \subseteq obj
    <2>1. Files' \subseteq Files BY <1>4 DEF Files
    <2>2. \A o, q \in Files' : o # q /\ PathOf(o) = PathOf(q) => blind' \/ PathOf(o) \in overlap'
      BY <1>2, <2>1 DEF Singles
    <2>3. SinglesAfter BY <1>3, <1>4 DEF SinglesAfter
    <2> QED BY <2>2, <2>3 DEF Singles, SinglesAfter, Busy, Clear
  <1>5. CASE PutGoogleDrive(w) /\ ~UNCHANGED obj
    <2>1. PICK n : /\ \A o \in obj' : o = n \/ o \in obj
                   /\ PathOf(n) = PathOf(c)
                   /\ n.dir # Snapshots /\ ~blind /\ Clear(c) =>
                         \A o \in Files : o \in obj' => PathOf(o) # PathOf(n)
                   /\ ~c.known => d.pc = "ok" \/ blind'
      BY <1>5, DriveStores
    <2>2. c.pc = "put" BY <1>5 DEF PutGoogleDrive
    <2>3. Going(w)
      <3>1. ~Begun(w) /\ ~Waited(w) BY <2>2 DEF Begun, Waited
      <3>2. ~Ended(w) BY <1>5 DEF Ended
      <3> QED BY <3>1, <3>2, CallLife
    <2>4. ASSUME NEW o \in Files', NEW q \in Files', o # q, PathOf(o) = PathOf(q)
          PROVE  blind' \/ PathOf(o) \in overlap'
      <3>1. ASSUME NEW r \in Files', r # n PROVE r \in Files /\ r \in obj' BY <2>1, <3>1 DEF Files
      <3>2. CASE o # n /\ q # n BY <1>2, <2>4, <3>1, <3>2 DEF Singles
      <3>3. CASE o = n \/ q = n
        <4>1. n.dir # Snapshots BY <2>4, <3>3 DEF Files
        <4>2. blind \/ ~Clear(c) BY <2>1, <2>4, <3>1, <3>3, <4>1
        <4> QED BY <1>2, <2>1, <2>4, <3>3, <4>2 DEF Clear
      <3> QED BY <3>2, <3>3
    <2>5. ASSUME NEW x \in Uploader, call'[x].pc # "idle", call'[x].op = "upload", ~call'[x].known,
                 call'[x].pc # "ok", ~blind', PathOf(call'[x]) \notin overlap'
          PROVE  \A o \in obj' : PathOf(o) # PathOf(call'[x])
      <3>1. PathOf(n) # PathOf(call'[x])
        <4>1. CASE x = w BY <2>1, <2>3, <2>5, <4>1 DEF Going, Kept
        <4>2. CASE x # w
          <5>1. call'[x] = call[x] /\ Busy(x) /\ Busy(w) BY <1>1, <2>2, <2>5, <4>2 DEF Busy
          <5> QED BY <1>2, <2>1, <2>5, <4>2, <5>1 DEF Disputed, Clear
        <4> QED BY <4>1, <4>2
      <3> QED BY <1>3, <2>1, <2>5, <3>1
    <2>6. SinglesAfter BY <2>5 DEF SinglesAfter
    <2> QED BY <2>4, <2>6 DEF Singles, SinglesAfter, Busy, Clear
  <1> QED BY <1>4, <1>5, DriveMoves

LEMMA SinglesStep == Typed /\ Shapes /\ Ids /\ Disputed /\ Singles /\ [Next]_vars => Singles'
  <1> SUFFICES ASSUME Typed, Shapes, Ids, Disputed, Singles, [Next]_vars, kind = "googledrive"
               PROVE  Singles'
    BY KindStays DEF Singles
  <1>1. CASE Apart \/ \E p \in Process : Kill(p)
    <2>1. ~(\E q \in pending : CopyLands(q)) BY DEF CopyLands, Shapes, PendingShape
    <2>2. obj' \subseteq obj BY <1>1, <2>1, FewerObjects
    <2>3. /\ overlap \subseteq overlap' /\ UNCHANGED blind
          /\ \A x \in Uploader : call'[x] \in {call[x], NoCall}
      BY <1>1, OthersMove
    <2>4. NoCall.pc = "idle" BY DEF NoCall
    <2>5. Files' \subseteq Files BY <2>2 DEF Files
    <2>6. \A o, q \in Files' : o # q /\ PathOf(o) = PathOf(q) => blind' \/ PathOf(o) \in overlap'
      BY <2>3, <2>5 DEF Singles
    <2>7. SinglesAfter BY <2>2, <2>3, <2>4 DEF SinglesAfter, Singles, Busy, Clear
    <2> QED BY <2>6, <2>7 DEF Singles, SinglesAfter, Busy, Clear
  <1> QED BY <1>1, SinglesMoves, NextCases

\* OneObjectPerPath holds of every behaviour: a path has one object and the folder
\* exists once, on Google Drive (googledrive.py: get_or_create_folder, upload_file)
\* unless two threads overlapped, a reply was lost or an id was not known.
THEOREM OneObjectPerPathHolds == Spec => []OneObjectPerPath
  <1>1. ASSUME Typed, Places, Folders, Singles PROVE OneObjectPerPath
    <2>1. ASSUME NEW o \in Files, NEW q \in Files, o # q, PathOf(o) = PathOf(q)
          PROVE  kind = "googledrive" /\ (blind \/ PathOf(o) \in overlap)
      <3>1. o \in obj /\ q \in obj /\ ~o.temp /\ ~q.temp BY DEF Files
      <3>2. o.temp \in BOOLEAN /\ q.temp \in BOOLEAN BY <1>1, <3>1, ObjectIs
      <3>3. kind = "googledrive" BY <1>1, <2>1, <3>1, <3>2 DEF Places
      <3> QED BY <1>1, <2>1, <3>3 DEF Singles
    <2>2. ASSUME Cardinality(folder) > 1 PROVE FolderPath \in overlap
      <3>1. Cardinality({}) = 0 /\ Cardinality({1}) = 1 BY FS_EmptySet, FS_Singleton
      <3> QED BY <1>1, <2>2, <3>1 DEF Folders
    <2> QED BY <2>1, <2>2 DEF OneObjectPerPath
  <1> QED BY <1>1, TypedInit, TypedStep, ShapesInit, ShapesStep, PlacesInit, PlacesStep, IdsInit, IdsStep,
             DisputedInit, DisputedStep, FoldersInit, FoldersStep, SinglesInit, SinglesStep, PTL DEF Spec

-----------------------------------------------------------------------------
(* Downloads.                                                                *)

\* Nobody writes to node m any more, which is or was the node of the file of name f.
Settled(m, f) ==
    /\ Whole(data[m])
    /\ \A o \in obj : o.node = m => ~o.temp /\ PathOf(o) = <<FALSE, f>>
    /\ \A w \in Uploader : Writes(call[w]) => call[w].node # m

\* A download reads a settled node, and has got its blocks.
Reading ==
    reader.pc # "idle" /\ kind # "ftp" /\ <<FALSE, reader.name>> \notin overlap =>
       /\ Settled(reader.node, reader.name)
       /\ reader.pc \in {"second", "done"} => reader.got[1] = data[reader.node][1]
       /\ reader.pc = "done" => reader.got[2] = data[reader.node][2]

LEMMA ReadingInit == Init => Reading
  BY DEF Init, Reading, NoReader

LEMMA ReaderIs ==
    ASSUME Typed
    PROVE  /\ reader \in [pc : {"idle", "first", "second", "done"}, node : 0..MaxNodes,
                          name : File \cup {NoFile}, got : Content]
           /\ reader.pc # "idle" => reader.node \in Node
  BY DEF Typed, TypeOK

LEMMA ReadingKept ==
    ASSUME Typed, Reading, UNCHANGED <<kind, reader>>, overlap \subseteq overlap',
           reader.pc # "idle" /\ kind # "ftp" /\ Settled(reader.node, reader.name) =>
              /\ data'[reader.node] = data[reader.node]
              /\ \A o \in obj' : o.node = reader.node => ~o.temp /\ PathOf(o) = <<FALSE, reader.name>>
              /\ \A w \in Uploader : Writes(call'[w]) => call'[w].node # reader.node
    PROVE  Reading'
  BY DEF Reading, Settled, Whole

\* A new object has a node of its own.
LEMMA SettledStored ==
    ASSUME Typed, NEW m \in 1..used, NEW f, Settled(m, f), NEW old, NEW n, NEW v, Stores(old, n, v)
    PROVE  /\ data'[m] = data[m] /\ n.node # m
           /\ \A o \in obj' : o.node = m => ~o.temp /\ PathOf(o) = <<FALSE, f>>
  <1>1. used \in Nat BY RestFacts
  <1>2. data'[m] = data[m] BY DEF Stores
  <1>3. n.node # m BY <1>1 DEF Stores
  <1>4. ASSUME NEW o \in obj', o.node = m PROVE ~o.temp /\ PathOf(o) = <<FALSE, f>>
    <2>1. o \in obj BY <1>3, <1>4 DEF Stores
    <2> QED BY <1>4, <2>1 DEF Settled
  <1> QED BY <1>2, <1>3, <1>4

\* What settles a node is there to stay.
LEMMA SettledMoves ==
    ASSUME Typed, Shapes, NEW w \in Uploader, Moves(w), NEW m \in 1..used, NEW f, Settled(m, f),
           kind # "ftp", m \in Node
    PROVE  /\ data'[m] = data[m]
           /\ \A o \in obj' : o.node = m => ~o.temp /\ PathOf(o) = <<FALSE, f>>
           /\ \A x \in Uploader : Writes(call'[x]) => call'[x].node # m
  <1> DEFINE c == call[w]
  <1>1. /\ \A x \in Uploader \ {w} : call'[x] = call[x]
        /\ data \in [Node -> Content] /\ used \in Nat
    BY OneMoves, RestFacts
  <1>2. ASSUME NEW old, NEW n, NEW v, Stores(old, n, v)
        PROVE  data'[m] = data[m] /\ n.node # m
               /\ \A o \in obj' : o.node = m => ~o.temp /\ PathOf(o) = <<FALSE, f>>
    BY <1>2, SettledStored
  <1>3. CASE Open(w)
    <2>1. ASSUME NEW n, OpensNew(w, n)
          PROVE  /\ data'[m] = data[m] /\ call'[w].node # m
                 /\ \A o \in obj' : o.node = m => ~o.temp /\ PathOf(o) = <<FALSE, f>>
      BY <1>2, <2>1 DEF OpensNew
    <2>2. ASSUME NEW q \in obj, OpensOld(w, q)
          PROVE  /\ data'[m] = data[m] /\ call'[w].node # m
                 /\ \A o \in obj' : o.node = m => ~o.temp /\ PathOf(o) = <<FALSE, f>>
      <3>1. /\ PathOf(q) = PathOf(c) /\ (q.temp <=> ~InPlace(c)) /\ call'[w].node = q.node
            /\ data' = [data EXCEPT ![q.node] = NoCall.want] /\ UNCHANGED obj
        BY <2>2 DEF OpensOld
      <3>2. q.node # m
        <4>1. CASE q.temp BY <4>1 DEF Settled
        <4>2. CASE ~q.temp
          <5>1. c.direct /\ CallShape(c) BY <3>1, <4>2 DEF InPlace, Shapes
          <5>2. PathOf(c)[1] = TRUE BY <5>1 DEF CallShape, PathOf
          <5>3. PathOf(q) # <<FALSE, f>>
            <6>1. <<FALSE, f>>[1] = FALSE OBVIOUS
            <6> HIDE DEF c
            <6>2. PathOf(q)[1] = TRUE BY <3>1, <5>2
            <6> QED BY <6>1, <6>2
          <5> QED BY <5>3 DEF Settled
        <4> QED BY <4>1, <4>2
      <3> QED BY <1>1, <3>1, <3>2 DEF Settled
    <2> QED BY <1>1, <1>3, <2>1, <2>2, OpenDoes DEF Settled
  <1>4. CASE ~Open(w)
    <2>1. \A x \in Uploader : Writes(call'[x]) => Writes(call[x]) /\ call'[x].node = call[x].node
      <3>1. Writes(call'[w]) => Writes(call[w]) /\ call'[w].node = call[w].node
        BY <1>4, Writers, WriteBlockDoes DEF Writes
      <3> QED BY <1>1, <3>1
    <2>2. \A x \in Uploader : Writes(call'[x]) => call'[x].node # m BY <2>1 DEF Settled
    <2>3. data'[m] = data[m] /\ \A o \in obj' : o.node = m => ~o.temp /\ PathOf(o) = <<FALSE, f>>
      <3>1. CASE Overwrite(w) BY <1>2, <3>1, OverwriteDoes
      <3>2. CASE PutGoogleDrive(w)
        <4>1. UNCHANGED <<obj, data>> \/ \E old, n, v : Stores(old, n, v) BY <3>2, PutGoogleDriveDoes
        <4> QED BY <1>2, <4>1 DEF Settled
      <3>3. CASE WriteBlock(w)
        <4>1. c.node # m BY <3>3 DEF Settled, WriteBlock, Writes
        <4>2. UNCHANGED obj /\ \E v : data' = [data EXCEPT ![c.node] = v] BY <3>3, WriteBlockDoes
        <4> QED BY <1>1, <4>1, <4>2 DEF Settled
      <3>4. CASE Rename(w)
        <4>1. UNCHANGED data BY <3>4, RenameDoes
        <4>2. ASSUME NEW p, NEW n, Renames(w, p, n), NEW o \in obj', o.node = m
              PROVE  ~o.temp /\ PathOf(o) = <<FALSE, f>>
          <5>1. p \in obj /\ p.temp /\ n.node = p.node /\ (o = n \/ o \in obj) BY <4>2 DEF Renames
          <5> QED BY <4>2, <5>1 DEF Settled
        <4> QED BY <3>4, <4>1, <4>2, RenameDoes DEF Settled
      <3>5. CASE ~Overwrite(w) /\ ~PutGoogleDrive(w) /\ ~WriteBlock(w) /\ ~Rename(w)
        BY <1>4, <3>5, QuietMoves DEF Settled
      <3> QED BY <3>1, <3>2, <3>3, <3>4, <3>5
    <2> QED BY <2>2, <2>3
  <1> QED BY <1>3, <1>4

\* A file that a download begins with is settled.
LEMMA SettledFile ==
    ASSUME Typed, Shapes, Places, Contents, WholeOrKnown, NEW o \in Files, kind # "ftp",
           <<FALSE, o.name>> \notin overlap
    PROVE  Settled(o.node, o.name)
  <1>1. o \in obj /\ ~o.temp /\ o.dir # Snapshots /\ o.name \in File BY ObjectIs DEF Files
  <1>2. PathOf(o) = <<FALSE, o.name>> BY <1>1 DEF PathOf
  <1>3. ASSUME NEW w \in Uploader, PathOf(call[w]) = PathOf(o), Writes(call[w]) PROVE ~InPlace(call[w])
    <2>1. CallShape(call[w]) BY DEF Shapes
    <2>2. call[w].dir # Snapshots BY <1>2, <1>3 DEF PathOf
    <2> QED BY <2>1, <2>2 DEF CallShape, InPlace
  <1>4. ~Torn(o) BY <1>1, <1>2, <1>3 DEF Torn, Writes, Shapes, BrokenShape
  <1>5. Whole(data[o.node]) BY <1>2, <1>4 DEF WholeOrKnown
  <1>6. \A q \in obj : q.node = o.node => ~q.temp /\ PathOf(q) = <<FALSE, o.name>>
    BY <1>1, <1>2 DEF Places
  <1>7. ASSUME NEW w \in Uploader, Writes(call[w]), call[w].node = o.node PROVE FALSE
    <2>1. PathOf(o) = PathOf(call[w]) BY <1>1, <1>7 DEF Places
    <2>2. Clear(call[w]) BY <1>2, <2>1 DEF Clear
    <2>3. ~InPlace(call[w]) BY <1>3, <1>7, <2>1
    <2>4. PICK q \in obj : q.temp /\ q.node = call[w].node BY <1>7, <2>2, <2>3 DEF Contents, Fills
    <2> QED BY <1>6, <1>7, <2>4
  <1> QED BY <1>5, <1>6, <1>7 DEF Settled

LEMMA ReadingStep ==
    Typed /\ Shapes /\ Places /\ Contents /\ WholeOrKnown /\ Reading /\ [Next]_vars => Reading'
  <1> SUFFICES ASSUME Typed, Shapes, Places, Contents, WholeOrKnown, Reading, [Next]_vars PROVE Reading'
    OBVIOUS
  <1>0. reader.pc # "idle" => reader.node \in 1..used /\ reader.node \in Node
    BY ReaderIs, NodesNat, RestFacts DEF Shapes, ReaderShape, Node
  <1>1. ASSUME NEW w \in Uploader, Moves(w) PROVE Reading'
    <2>1. UNCHANGED <<kind, reader>> BY <1>1, OneMoves
    <2>2. overlap \subseteq overlap' BY <1>1, CallLife DEF Begun, Going, Ended, Waited, Overlaps
    <2> QED BY <1>0, <1>1, <2>1, <2>2, SettledMoves, ReadingKept
  <1>2. ASSUME NEW o \in Files, BeginDownload(o) PROVE Reading'
    <2>1. /\ reader' = [NoReader EXCEPT !.pc = "first", !.node = o.node, !.name = o.name]
          /\ UNCHANGED <<kind, obj, data, call, overlap>>
      BY <1>2 DEF BeginDownload, Idle
    <2>2. reader'.pc = "first" /\ reader'.node = o.node /\ reader'.name = o.name
      BY <2>1 DEF NoReader
    <2>3. ASSUME kind # "ftp", <<FALSE, o.name>> \notin overlap
          PROVE  /\ Whole(data'[o.node])
                 /\ \A q \in obj' : q.node = o.node => ~q.temp /\ PathOf(q) = <<FALSE, o.name>>
                 /\ \A w \in Uploader : Writes(call'[w]) => call'[w].node # o.node
      BY <2>1, <2>3, SettledFile DEF Settled, Whole
    <2>4. /\ reader'.pc \notin {"second", "done"} 
          /\ reader'.pc # "idle" /\ kind' # "ftp" /\ <<FALSE, reader'.name>> \notin overlap'
             => kind # "ftp" /\ <<FALSE, o.name>> \notin overlap
      BY <2>1, <2>2
    <2> QED BY <2>2, <2>3, <2>4 DEF Reading, Settled, Writes
  <1>3. CASE Download
    <2>1. reader \in [pc : {"idle", "first", "second", "done"}, node : 0..MaxNodes,
                      name : File \cup {NoFile}, got : Content]
      BY ReaderIs
    <2>2. UNCHANGED <<kind, obj, data, call, overlap>> BY <1>3 DEF Download, Idle
    <2>3. CASE reader.pc = "first"
      <3>1. reader' = [reader EXCEPT !.pc = "second", !.got[1] = data[reader.node][1]]
        BY <1>3, <2>3 DEF Download
      <3>2. /\ reader'.pc = "second" /\ reader'.node = reader.node /\ reader'.name = reader.name
            /\ reader'.got[1] = data[reader.node][1]
        BY <2>1, <3>1 DEF Content
      <3> QED BY <2>2, <2>3, <3>2 DEF Reading, Settled, Whole
    <2>4. CASE reader.pc = "second"
      <3>1. reader' = [reader EXCEPT !.pc = "done", !.got[2] = data[reader.node][2]]
        BY <1>3, <2>4 DEF Download
      <3>2. /\ reader'.pc = "done" /\ reader'.node = reader.node /\ reader'.name = reader.name
            /\ reader'.got[1] = reader.got[1] /\ reader'.got[2] = data[reader.node][2]
        BY <2>1, <3>1 DEF Content
      <3> QED BY <2>2, <2>4, <3>2 DEF Reading, Settled, Whole
    <2> QED BY <1>3, <2>3, <2>4 DEF Download
  <1>4. CASE EndDownload BY <1>4 DEF EndDownload, Reading, NoReader
  <1>5. ASSUME NEW q \in pending, CopyLands(q) PROVE Reading'
    <2>1. UNCHANGED <<kind, reader, call, overlap>> BY <1>5 DEF CopyLands, Same
    <2>2. PICK old, n : Stores(old, n, q.want) BY <1>5, CopyLandsDoes
    <2>3. ASSUME reader.pc # "idle", Settled(reader.node, reader.name)
          PROVE  /\ data'[reader.node] = data[reader.node]
                 /\ \A o \in obj' : o.node = reader.node => ~o.temp /\ PathOf(o) = <<FALSE, reader.name>>
                 /\ \A w \in Uploader : Writes(call'[w]) => call'[w].node # reader.node
      <3>1. \A w \in Uploader : Writes(call'[w]) => call'[w].node # reader.node BY <2>1, <2>3 DEF Settled
      <3> QED BY <1>0, <2>2, <2>3, <3>1, SettledStored
    <2> QED BY <2>1, <2>3, ReadingKept
  <1>6. ASSUME Apart \/ \E p \in Process : Kill(p), ~(\E q \in pending : CopyLands(q)), UNCHANGED reader
        PROVE  Reading'
    <2>1. /\ obj' \subseteq obj /\ UNCHANGED <<kind, data>> /\ overlap \subseteq overlap'
          /\ \A x \in Uploader : call'[x] \in {call[x], NoCall}
      BY <1>6, FewerObjects, OthersMove
    <2>2. ~Writes(NoCall) BY DEF Writes, NoCall
    <2> QED BY <1>6, <2>1, <2>2, ReadingKept DEF Settled
  <1>7. Apart \/ (\E p \in Process : Kill(p)) =>
           \/ UNCHANGED reader \/ Download \/ EndDownload \/ \E o \in Files : BeginDownload(o)
    BY DEF Apart, Kill, CopyLands, Same, Delete, BeginListing, ListRoot, ListEnds, EndListing, ListFolder,
       ListFails, vars
  <1> QED BY <1>1, <1>2, <1>3, <1>4, <1>5, <1>6, <1>7, NextCases

\* DownloadsWhole holds of every behaviour: however many uploads ran meanwhile, a
\* download that ends has read one version (download_file of the backends).
THEOREM DownloadsWholeHolds == Spec => []DownloadsWhole
  <1>1. Reading => DownloadsWhole
    BY DEF Reading, Settled, DownloadsWhole, Whole
  <1>2. Init => WholeOrKnown BY DEF Init, WholeOrKnown, Files
  <1> QED BY <1>1, <1>2, TypedInit, TypedStep, ShapesInit, ShapesStep, PlacesInit, PlacesStep, IdsInit,
             IdsStep, DisputedInit, DisputedStep, ContentsInit, ContentsStep, WholeStep, ReadingInit,
             ReadingStep, PTL DEF Spec

-----------------------------------------------------------------------------
(* Listings.                                                                 *)

\* A steady file was found, or is there to be found where the listing has still to look.
Listed ==
    listing.pc \in {"root", "folders", "done"} => \A f \in listing.steady :
       \/ listing.skipped /\ kind \notin {"googledrive", "s3"}
       \/ listing.pc # "root" /\ <<f, FALSE>> \in listing.found
       \/ listing.pc = "root" /\ \E o \in Files : o.name = f
       \/ listing.pc = "folders" /\ \E o \in Files : o.name = f /\ o.dir \in listing.todo

LEMMA ListedInit == Init => Listed
  BY DEF Init, Listed, NoListing

LEMMA FileIs ==
    ASSUME Typed, Shapes, NEW o \in Files
    PROVE  /\ o \in obj /\ o.temp = FALSE /\ o.dir # Snapshots /\ o.dir \in folder
           /\ PathOf(o) = <<FALSE, o.name>> /\ o.name \in File /\ o.dir \in {1, 2}
           /\ kind # "googledrive" => o.dir = 1
  <1>1. o \in obj /\ ~o.temp /\ o.dir # Snapshots BY DEF Files
  <1>2. o.temp \in BOOLEAN /\ o.name \in File /\ o.dir \in {0, 1, 2} /\ ObjectShape(o)
    BY <1>1, ObjectIs DEF Shapes
  <1> QED BY <1>1, <1>2 DEF ObjectShape, PathOf, Snapshots

\* A step of a call replaces a file, and never takes it away.
LEMMA FilesStay ==
    ASSUME Typed, Shapes, Ids, NEW w \in Uploader, Moves(w), NEW o \in Files
    PROVE  \E q \in Files' : q.name = o.name /\ q.dir = o.dir
  <1> DEFINE c == call[w]
  <1>0. /\ o \in obj /\ o.temp = FALSE /\ o.dir # Snapshots /\ PathOf(o) = <<FALSE, o.name>>
        /\ kind # "googledrive" => o.dir = 1
    BY FileIs
  <1>1. ASSUME o \in obj' PROVE \E q \in Files' : q.name = o.name /\ q.dir = o.dir
    BY <1>0, <1>1 DEF Files
  <1>2. ASSUME NEW n \in obj', n.temp = FALSE, n.name = o.name, n.dir = o.dir
        PROVE  \E q \in Files' : q.name = o.name /\ q.dir = o.dir
    <2>1. n \in Files' BY <1>0, <1>2 DEF Files
    <2> QED BY <1>2, <2>1
  <1>3. CASE Overwrite(w) /\ Plain
    <2>1. PICK n : /\ Stores(At(c, FALSE), n, c.want) /\ n.temp = FALSE /\ n.dir = c.dir /\ n.name = c.name
                   /\ PathOf(n) = PathOf(c)
      BY <1>3, OverwriteDoes
    <2>2. CASE o \notin At(c, FALSE)
      <3>1. o \in obj' BY <1>0, <2>1, <2>2, StoresSpare
      <3> QED BY <1>1, <3>1
    <2>3. CASE o \in At(c, FALSE)
      <3>1. PathOf(c) = <<FALSE, o.name>> BY <1>0, <2>3 DEF At
      <3>2. c.name = o.name /\ c.dir # Snapshots BY <3>1 DEF PathOf
      <3>3. c.dir = 1 /\ o.dir = 1
        <4>1. CallShape(c) /\ c.op \in {"upload", "copy"} BY CallIs DEF Shapes
        <4> QED BY <1>0, <1>3, <3>2, <4>1 DEF CallShape, Plain
      <3>4. n \in obj' BY <2>1, StoredElsewhere
      <3> QED BY <1>2, <2>1, <3>2, <3>3, <3>4
    <2> QED BY <2>2, <2>3
  <1>4. CASE PutGoogleDrive(w)
    <2>1. ASSUME NEW n, NEW x \in obj, x.id = c.id, Stores({r \in obj : r.id = c.id}, n, c.want),
                 n.temp = FALSE, n.dir = x.dir, n.name = x.name
          PROVE  \E q \in Files' : q.name = o.name /\ q.dir = o.dir
      <3>1. CASE o.id # c.id BY <1>0, <1>1, <2>1, <3>1, StoredElsewhere
      <3>2. CASE o.id = c.id
        <4>1. o = x BY <1>0, <1>4, <2>1, <3>2 DEF Ids, PutGoogleDrive
        <4>2. n \in obj' BY <2>1, StoredElsewhere
        <4> QED BY <1>2, <2>1, <4>1, <4>2
      <3> QED BY <3>1, <3>2
    <2>2. ASSUME NEW n, Stores({}, n, c.want) PROVE o \in obj' BY <1>0, <2>2, StoredElsewhere
    <2>3. \/ UNCHANGED obj
          \/ \E n, x : /\ x \in obj /\ x.id = c.id
                       /\ Stores({r \in obj : r.id = c.id}, n, c.want)
                       /\ n.temp = FALSE /\ n.dir = x.dir /\ n.name = x.name
          \/ \E n : Stores({}, n, c.want)
      BY <1>4, PutGoogleDriveDoes
    <2> QED BY <1>0, <1>1, <2>1, <2>2, <2>3
  <1>5. CASE Rename(w)
    <2>1. CASE UNCHANGED obj BY <1>0, <1>1, <2>1
    <2>2. ASSUME NEW p, NEW n, Renames(w, p, n) PROVE \E q \in Files' : q.name = o.name /\ q.dir = o.dir
      <3>1. /\ p \in obj /\ PathOf(p) = PathOf(c) /\ n.dir = p.dir /\ n.name = p.name /\ n.temp = FALSE
            /\ obj' = {q \in obj : PathOf(q) # PathOf(c)} \cup {n}
        BY <2>2 DEF Renames
      <3>2. CASE PathOf(o) # PathOf(c) BY <1>0, <1>1, <3>1, <3>2
      <3>3. CASE PathOf(o) = PathOf(c)
        <4>1. p.name = o.name /\ p.dir # Snapshots BY <1>0, <3>1, <3>3 DEF PathOf
        <4>2. p.dir = 1 /\ o.dir = 1
          <5>1. CallShape(c) /\ ObjectShape(p) /\ p.dir \in {0, 1, 2} BY <3>1, ObjectIs DEF Shapes
          <5>2. kind # "googledrive" BY <1>5, <5>1 DEF CallShape, Rename, Writes
          <5> QED BY <1>0, <4>1, <5>1, <5>2 DEF ObjectShape, Snapshots
        <4> QED BY <1>2, <3>1, <4>1, <4>2
      <3> QED BY <3>2, <3>3
    <2> QED BY <1>5, <2>1, <2>2, RenameDoes
  <1>6. CASE Open(w)
    <2>1. o \in obj' BY <1>0, <1>6, OpenDoes, StoredElsewhere DEF OpensNew, OpensOld
    <2> QED BY <1>1, <2>1
  <1>7. CASE Cleanup(w) BY <1>0, <1>1, <1>7 DEF Cleanup, At
  <1>8. CASE ~(Overwrite(w) /\ Plain) /\ ~PutGoogleDrive(w) /\ ~Rename(w) /\ ~Open(w) /\ ~Cleanup(w)
    BY <1>0, <1>1, <1>8, QuietMoves
  <1> QED BY <1>3, <1>4, <1>5, <1>6, <1>7, <1>8

LEMMA ListedKept ==
    ASSUME Listed, UNCHANGED <<kind, listing>>,
           \A o \in Files : \E q \in Files' : q.name = o.name /\ q.dir = o.dir
    PROVE  Listed'
  <1>1. SUFFICES ASSUME listing.pc \in {"root", "folders", "done"}, NEW f \in listing.steady
                 PROVE  \/ listing.skipped /\ kind \notin {"googledrive", "s3"}
                        \/ listing.pc # "root" /\ <<f, FALSE>> \in listing.found
                        \/ listing.pc = "root" /\ \E o \in Files' : o.name = f
                        \/ listing.pc = "folders" /\ \E o \in Files' : o.name = f /\ o.dir \in listing.todo
    BY DEF Listed
  <1>2. ASSUME NEW o \in Files, o.name = f PROVE \E q \in Files' : q.name = f /\ q.dir = o.dir
    BY <1>2
  <1> QED BY <1>1, <1>2 DEF Listed

LEMMA ListedStep == Typed /\ Shapes /\ Ids /\ Listed /\ [Next]_vars => Listed'
  <1> SUFFICES ASSUME Typed, Shapes, Ids, Listed, [Next]_vars PROVE Listed' OBVIOUS
  <1>0. listing \in ListingType BY DEF Typed
  <1>1. ASSUME NEW w \in Uploader, Moves(w) PROVE Listed'
    <2>1. UNCHANGED <<kind, listing>> BY <1>1, OneMoves
    <2>2. \A o \in Files : \E q \in Files' : q.name = o.name /\ q.dir = o.dir BY <1>1, FilesStay
    <2> QED BY <2>1, <2>2, ListedKept
  <1>2. ASSUME UNCHANGED <<kind, listing, obj>> PROVE Listed' BY <1>2 DEF Listed, Files
  <1>3. ASSUME NEW q \in pending, CopyLands(q) PROVE Listed'
    <2>1. UNCHANGED <<kind, listing>> BY <1>3 DEF CopyLands, Same
    <2> DEFINE old == {o \in obj : PathOf(o) = <<TRUE, q.name>> /\ o.temp = FALSE}
    <2>2. PICK n : Stores(old, n, q.want) BY <1>3, CopyLandsDoes
    <2>3. ASSUME NEW o \in Files PROVE o \in Files'
      <3>1. o \in obj /\ PathOf(o) = <<FALSE, o.name>> BY FileIs
      <3>2. o \notin old
        <4>1. <<FALSE, o.name>>[1] = FALSE /\ <<TRUE, q.name>>[1] = TRUE OBVIOUS
        <4>2. <<FALSE, o.name>> # <<TRUE, q.name>> BY <4>1
        <4> QED BY <3>1, <4>2
      <3> HIDE DEF old
      <3>3. o \in obj' BY <2>2, <3>1, <3>2, StoresSpare
      <3> QED BY <3>3 DEF Files
    <2> QED BY <2>1, <2>3, ListedKept
  <1>4. ASSUME NEW o \in Files, Delete(o) PROVE Listed'
    <2>1. listing' = [listing EXCEPT !.steady = listing.steady \ {o.name}] /\ UNCHANGED kind
          /\ obj' = obj \ {o}
      BY <1>4 DEF Delete
    <2>2. /\ listing'.steady = listing.steady \ {o.name} /\ listing'.pc = listing.pc
          /\ listing'.skipped = listing.skipped /\ listing'.found = listing.found
          /\ listing'.todo = listing.todo
      BY <1>0, <2>1 DEF ListingType
    <2>3. \A q \in Files : q.name # o.name => q \in Files' BY <2>1 DEF Files
    <2> QED BY <2>1, <2>2, <2>3 DEF Listed
  <1>5. CASE BeginListing
    <2>1. /\ listing' = [NoListing EXCEPT !.pc = "root", !.steady = {o.name : o \in Files}]
          /\ UNCHANGED <<kind, obj>>
      BY <1>5 DEF BeginListing, Idle
    <2>2. listing'.pc = "root" /\ listing'.steady = {o.name : o \in Files} BY <2>1 DEF NoListing
    <2>3. Files' = Files BY <2>1 DEF Files
    <2> QED BY <2>2, <2>3 DEF Listed
  <1>6. CASE ListRoot
    <2>1. listing.pc = "root" /\ UNCHANGED <<kind, obj>> BY <1>6 DEF ListRoot, Idle
    <2>2. Files' = Files BY <2>1 DEF Files
    <2>3. CASE listing' = [listing EXCEPT !.pc = "done", !.found = UNION {Shown(d) : d \in folder}]
      <3>1. /\ listing'.pc = "done" /\ listing'.found = UNION {Shown(d) : d \in folder}
            /\ listing'.steady = listing.steady /\ listing'.skipped = listing.skipped
        BY <1>0, <2>3 DEF ListingType
      <3>2. ASSUME NEW o \in Files PROVE <<o.name, FALSE>> \in UNION {Shown(d) : d \in folder}
        <4>1. <<o.name, FALSE>> \in Shown(o.dir) /\ o.dir \in folder BY FileIs DEF Shown
        <4> QED BY <4>1
      <3> QED BY <2>1, <3>1, <3>2 DEF Listed
    <2>4. CASE listing' = [listing EXCEPT !.pc = "folders", !.todo = folder]
      <3>1. /\ listing'.pc = "folders" /\ listing'.todo = folder
            /\ listing'.steady = listing.steady /\ listing'.skipped = listing.skipped
        BY <1>0, <2>4 DEF ListingType
      <3>2. \A o \in Files : o.dir \in folder BY FileIs
      <3> QED BY <2>1, <2>2, <3>1, <3>2 DEF Listed
    <2> QED BY <1>6, <2>3, <2>4 DEF ListRoot
  <1>7. ASSUME NEW d \in listing.todo, ListFolder(d) PROVE Listed'
    <2>1. /\ listing.pc = "folders" /\ UNCHANGED <<kind, obj>>
          /\ listing' = [listing EXCEPT !.todo = listing.todo \ {d}, !.found = listing.found \cup Shown(d)]
      BY <1>7 DEF ListFolder, Idle
    <2>2. Files' = Files BY <2>1 DEF Files
    <2>3. /\ listing'.pc = "folders" /\ listing'.todo = listing.todo \ {d}
          /\ listing'.found = listing.found \cup Shown(d)
          /\ listing'.steady = listing.steady /\ listing'.skipped = listing.skipped
      BY <1>0, <2>1 DEF ListingType
    <2>4. ASSUME NEW o \in Files, o.dir = d PROVE <<o.name, FALSE>> \in Shown(d)
      BY <2>4, FileIs DEF Shown
    <2> QED BY <2>1, <2>2, <2>3, <2>4 DEF Listed
  <1>8. ASSUME NEW e \in Condition, ListFails(e) PROVE Listed'
    <2>1. UNCHANGED <<kind, obj>> /\ listing.pc \in {"root", "folders"} BY <1>8 DEF ListFails, Idle
    <2>2. CASE e \in Skips(kind)
      <3>1. \E p, t : listing' = [listing EXCEPT !.skipped = TRUE, !.pc = p, !.todo = t]
        BY <1>8, <2>2 DEF ListFails
      <3>2. listing'.skipped BY <1>0, <3>1 DEF ListingType
      <3>3. kind \notin {"googledrive", "s3"} BY <2>2 DEF Skips, GoogleDriveSkips, S3Skips
      <3> QED BY <2>1, <3>2, <3>3 DEF Listed
    <2>3. CASE e \notin Skips(kind)
      <3>1. listing' = [listing EXCEPT !.pc = "raised"] BY <1>8, <2>3 DEF ListFails
      <3>2. listing'.pc = "raised" BY <1>0, <3>1 DEF ListingType
      <3> QED BY <3>2 DEF Listed
    <2> QED BY <2>2, <2>3
  <1>9. CASE ListEnds
    <2>1. /\ listing.pc = "folders" /\ listing.todo = {} /\ listing' = [listing EXCEPT !.pc = "done"]
          /\ UNCHANGED kind
      BY <1>9 DEF ListEnds, Idle
    <2>2. /\ listing'.pc = "done" /\ listing'.found = listing.found
          /\ listing'.steady = listing.steady /\ listing'.skipped = listing.skipped
      BY <1>0, <2>1 DEF ListingType
    <2> QED BY <2>1, <2>2 DEF Listed
  <1>10. CASE EndListing BY <1>10 DEF EndListing, Listed, NoListing
  <1>11. ASSUME NEW p \in Process, Kill(p) PROVE Listed' BY <1>2, <1>11 DEF Kill
  <1>12. CASE Download \/ EndDownload \/ \E o \in Files : BeginDownload(o)
    BY <1>2, <1>12 DEF Download, EndDownload, BeginDownload, Idle
  <1>13. CASE UNCHANGED vars BY <1>2, <1>13 DEF vars
  <1> QED BY <1>1, <1>3, <1>4, <1>5, <1>6, <1>7, <1>8, <1>9, <1>10, <1>11, <1>12, <1>13, NextCases DEF Apart

\* ListingComplete holds of every behaviour: a listing that ends shows every file that
\* was there throughout, or has left a folder out (list_files_recursive of the backends).
THEOREM ListingCompleteHolds == Spec => []ListingComplete
  <1>1. Listed => ListingComplete BY DEF Listed, ListingComplete
  <1> QED BY <1>1, TypedInit, TypedStep, ShapesInit, ShapesStep, IdsInit, IdsStep, ListedInit, ListedStep,
             PTL DEF Spec

=============================================================================
