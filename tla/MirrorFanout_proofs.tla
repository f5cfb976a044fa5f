------------------------ MODULE MirrorFanout_proofs ------------------------
(* Theorems about the mirrors, for any number of files and mirrors. *)
EXTENDS MirrorFanout, TLAPS

\* What is queued can be done: a file to pull, or in conflict, is on the primary
\* until it is handled; a file to upload has a hash; an upload to a mirror is
\* about a file of the manifest.
Queued ==
    /\ \A f \in todo["pull"] \cup todo["conflict"] \cup todo["again"] : primary[f] # NoFile
    /\ \A f \in todo["upload"] : hash[f] # NoFile
    /\ todo["delete"] \cap (todo["pull"] \cup todo["conflict"] \cup todo["again"]) = {}
    /\ \A p \in fan : mem[p[1]] # NoEntry
    /\ cmd = "idle" => fan = {} /\ \A s \in Stages : todo[s] = {}

IInv == TypeOK /\ Queued

-----------------------------------------------------------------------------
(* The manifest's book-keeping stays within the states that occur.          *)

LEMMA TriesType ==
    ASSUME NEW old \in RemoteState \cup {Unseen}, NEW state \in {"ok", "pending_retry", "failed_perm"},
           NEW intended \in Hash
    PROVE  /\ state = "ok" => Tries(old, state, intended) = 0
           /\ state # "ok" => Tries(old, state, intended) \in 1..MaxAttempts
  <1>1. old # Unseen => old.attempts \in 0..MaxAttempts
    BY DEF RemoteState, RemoteFields
  <1> QED
    BY <1>1, BoundAssumption DEF Tries

\* A pending mirror always has attempts left: the last failure quarantines it.
LEMMA UpdateRemoteType ==
    ASSUME NEW old \in RemoteState \cup {Unseen}, NEW state \in {"ok", "pending_retry", "failed_perm"},
           NEW intended \in Hash
    PROVE  UpdateRemote(old, state, intended) \in RemoteState
  <1> DEFINE tries == Tries(old, state, intended)
             r == UpdateRemote(old, state, intended)
  <1>1. tries \in 0..MaxAttempts /\ (state = "ok" <=> tries = 0)
    BY TriesType, BoundAssumption
  <1>2. old # Unseen => old.known \in BOOLEAN
    BY DEF RemoteState, RemoteFields
  <1>3. r.known \in BOOLEAN /\ r.attempts = tries /\ r.intended = intended
    BY <1>2 DEF UpdateRemote
  <1>4. /\ r.state \in {"ok", "pending_retry", "failed_perm"}
        /\ r.state = "ok" => state = "ok"
        /\ r.state = "pending_retry" => state = "pending_retry" /\ ~(tries >= MaxAttempts)
        /\ r.state = "failed_perm" => state # "ok"
        /\ state = "ok" => r.known
    BY DEF UpdateRemote
  <1>5. r \in RemoteFields
    BY <1>1, <1>3, <1>4 DEF UpdateRemote, RemoteFields
  <1>6. /\ r.state = "ok" => r.attempts = 0 /\ r.known
        /\ r.state = "pending_retry" => r.attempts \in 1..(MaxAttempts - 1)
        /\ r.state = "failed_perm" => r.attempts > 0
    BY <1>1, <1>3, <1>4, BoundAssumption
  <1> QED
    BY <1>5, <1>6 DEF RemoteState

LEMMA SyncedType ==
    ASSUME NEW e \in Entry \cup {NoEntry}, NEW here \in Content, NEW there \in Content
    PROVE  Synced(e, here, there) \in Entry
  BY DEF Synced, OnMirrors, Unseeded, Entry

LEMMA PrunedType ==
    ASSUME NEW e \in Entry \cup {NoEntry}
    PROVE  /\ Pruned(e) \in Entry \cup {NoEntry}
           /\ e # NoEntry => Pruned(e) # NoEntry
  BY NullAssumption DEF Pruned, Entry

LEMMA InitInv == Init => IInv
  <1> SUFFICES ASSUME Init PROVE IInv
    OBVIOUS
  <1>1. crashes \in 0..MaxCrashes /\ configs \in 0..MaxConfigs
    BY BoundAssumption DEF Init
  <1>2. todo \in [Stages -> SUBSET File] /\ \A s \in Stages : todo[s] = {}
    BY DEF Init, NoTodo
  <1>3. TypeOK
    BY <1>1, <1>2 DEF Init, TypeOK, Hash, NoEntries
  <1>4. Queued
    BY <1>2 DEF Init, Queued, Stages
  <1> QED
    BY <1>3, <1>4 DEF IInv

-----------------------------------------------------------------------------
(* Steps outside a command, and its beginning and end.                      *)

LEMMA UserKept == IInv /\ UserStep => IInv'
  <1> SUFFICES ASSUME IInv, UserStep PROVE IInv'
    OBVIOUS
  <1>1. ASSUME NEW f \in File, Remove(f) PROVE IInv'
    BY <1>1 DEF Remove, command, ghosts, IInv, TypeOK, Queued, Hash
  <1>2. ASSUME NEW f \in File, NEW c \in Content, Edit(f, c) PROVE IInv'
    BY <1>2 DEF Edit, command, ghosts, IInv, TypeOK, Queued, Hash
  <1>3. ASSUME NEW f \in File, NEW c \in Content, NEW B \in SUBSET Mirror, OtherPush(f, c, B)
        PROVE  IInv'
    <2>1. \A b \in Mirror : [store[b] EXCEPT ![f] = c] \in [File -> Hash]
      BY DEF IInv, TypeOK, Hash
    <2>2. TypeOK'
      BY <1>3, <2>1 DEF OtherPush, command, ghosts, IInv, TypeOK, Hash
    <2>3. Queued'
      BY <1>3, NoFileAssumption DEF OtherPush, command, IInv, TypeOK, Queued, Stages
    <2> QED
      BY <2>2, <2>3 DEF IInv
  <1>4. ASSUME NEW b \in Mirror, Configure(b) PROVE IInv'
    BY <1>4, BoundAssumption DEF Configure, world, command, IInv, TypeOK, Queued
  <1> QED
    BY <1>1, <1>2, <1>3, <1>4 DEF UserStep

\* Whatever ends a command leaves nothing queued.
LEMMA StopKept ==
    ASSUME IInv, Stop, UNCHANGED <<local, primary, store, used, active>>,
           disk' \in [File -> Entry \cup {NoEntry}],
           crashes' \in 0..MaxCrashes, configs' \in 0..MaxConfigs, lost' \subseteq File
    PROVE  IInv'
  <1>1. todo' \in [Stages -> SUBSET File] /\ \A s \in Stages : todo'[s] = {}
    BY DEF Stop, NoTodo
  <1>2. TypeOK'
    BY <1>1 DEF Stop, IInv, TypeOK, NoEntries, Hash
  <1>3. Queued'
    BY <1>1 DEF Stop, Queued, Stages
  <1> QED
    BY <1>2, <1>3 DEF IInv

LEMMA BeginType ==
    ASSUME IInv, NEW k \in {"sync", "push", "pull", "retry", "seed"}, Begin(k),
           todo' \in [Stages -> SUBSET File], fan' \in SUBSET (File \X Mirror)
    PROVE  TypeOK' /\ \A f \in File : disk[f] # NoEntry => mem'[f] # NoEntry
  <1>1. \A f \in File : disk[f] \in Entry \cup {NoEntry}
    BY DEF IInv, TypeOK
  <1>2. mem' \in [File -> Entry \cup {NoEntry}]
    BY <1>1, PrunedType DEF Begin
  <1>3. TypeOK'
    BY <1>2 DEF Begin, world, ghosts, IInv, TypeOK
  <1> QED
    BY <1>1, <1>3, PrunedType DEF Begin

\* What a status tells of the two sides.
LEMMA HavingFacts ==
    ASSUME TypeOK
    PROVE  /\ Behind \subseteq File /\ \A f \in Behind : primary[f] # NoFile
           /\ Split \subseteq File /\ \A f \in Split : primary[f] # NoFile /\ local[f] # NoFile
           /\ Ahead \subseteq File /\ \A f \in Ahead : local[f] # NoFile
           /\ Gone \subseteq File /\ Gone \cap (Behind \cup Split) = {}
           /\ \A f \in PendingFiles : f \in File /\ (f \notin Gone => local[f] # NoFile)
  <1> USE DEF Having, Classify, FirstSeen, SinceSync
  <1>1. Behind \subseteq File /\ \A f \in Behind : primary[f] # NoFile
    BY DEF Behind
  <1>2. Split \subseteq File /\ \A f \in Split : primary[f] # NoFile /\ local[f] # NoFile
    BY DEF Split
  <1>3. Ahead \subseteq File /\ \A f \in Ahead : local[f] # NoFile
    BY DEF Ahead
  <1>4. Gone \subseteq File /\ Gone \cap (Behind \cup Split) = {}
    BY DEF Gone, Behind, Split
  <1>5. \A f \in PendingFiles : f \in File /\ disk[f] # NoEntry
    BY DEF PendingFiles, PendingOn, In
  <1>6. \A f \in File : disk[f] # NoEntry /\ local[f] = NoFile => f \in Gone
    BY DEF Gone, Tracked
  <1> QED
    BY <1>1, <1>2, <1>3, <1>4, <1>5, <1>6

LEMMA InitialTodoFacts ==
    ASSUME TypeOK, NEW k \in {"sync", "push", "pull"}
    PROVE  LET todo1 == InitialTodo(k)
           IN  /\ todo1 \in [Stages -> SUBSET File]
               /\ \A f \in todo1["pull"] \cup todo1["conflict"] \cup todo1["again"] : primary[f] # NoFile
               /\ \A f \in todo1["upload"] : local[f] # NoFile
               /\ todo1["delete"] \cap (todo1["pull"] \cup todo1["conflict"] \cup todo1["again"]) = {}
  <1>1. CASE k = "sync"
    BY <1>1, HavingFacts DEF InitialTodo, Stages
  <1>2. CASE k = "push"
    BY <1>2, HavingFacts DEF InitialTodo, Stages
  <1>3. CASE k = "pull"
    BY <1>3, HavingFacts DEF InitialTodo, Stages, NoTodo
  <1> QED
    BY <1>1, <1>2, <1>3

LEMMA StartKept == IInv /\ StartStep => IInv'
  <1> SUFFICES ASSUME IInv, StartStep PROVE IInv'
    OBVIOUS
  <1>1. ASSUME NEW k \in {"sync", "push", "pull"}, StartSync(k) PROVE IInv'
    <2>1. /\ todo' = InitialTodo(k) /\ hash' = local /\ primary' = primary
          /\ fan' = {} /\ cmd' = k /\ Begin(k)
      BY <1>1 DEF StartSync, Begin, world, IInv, Queued
    <2>2. TypeOK'
      BY <2>1, InitialTodoFacts, BeginType DEF IInv, TypeOK
    <2>3. Queued'
      BY <2>1, InitialTodoFacts DEF IInv, Queued
    <2> QED
      BY <2>2, <2>3 DEF IInv
  <1>2. ASSUME NEW k \in {"retry", "seed"}, Begin(k), UNCHANGED todo,
               fan' \in SUBSET (File \X Mirror), \A p \in fan' : disk[p[1]] # NoEntry
        PROVE  IInv'
    <2>1. cmd' = k /\ primary' = primary /\ \A s \in Stages : todo'[s] = {}
      BY <1>2 DEF Begin, world, IInv, Queued
    <2>2. /\ TypeOK'
          /\ \A f \in File : disk[f] # NoEntry => mem'[f] # NoEntry
      BY <1>2, BeginType DEF IInv, TypeOK
    <2>3. \A p \in fan' : mem'[p[1]] # NoEntry
      BY <1>2, <2>2
    <2>4. Queued'
      BY <2>1, <2>3 DEF Queued, Stages
    <2> QED
      BY <2>2, <2>4 DEF IInv
  <1>3. ASSUME NEW target \in Mirror \cup {NoTarget}, StartRetry(target) PROVE IInv'
    <2>1. fan' = {p \in File \X active : /\ p[1] \in PendingOn(p[2])
                                         /\ target \in {NoTarget, p[2]}}
      BY <1>3 DEF StartRetry
    <2>2. fan' \in SUBSET (File \X Mirror)
      BY <2>1 DEF IInv, TypeOK
    <2>3. \A p \in fan' : disk[p[1]] # NoEntry
      BY <2>1 DEF PendingOn, In
    <2> QED
      BY <1>2, <1>3, <2>2, <2>3 DEF StartRetry
  <1>4. ASSUME NEW b \in Mirror, StartSeed(b) PROVE IInv'
    <2>1. fan' = {<<f, b>> : f \in {g \in UnseededOn(b) : local[g] = disk[g].synced}}
      BY <1>4 DEF StartSeed
    <2>2. fan' \in SUBSET (File \X Mirror) /\ \A p \in fan' : disk[p[1]] # NoEntry
      BY <2>1 DEF UnseededOn
    <2> QED
      BY <1>2, <1>4, <2>2 DEF StartSeed
  <1> QED
    BY <1>1, <1>3, <1>4 DEF StartStep

-----------------------------------------------------------------------------
(* The primary side.                                                        *)

\* A file leaves its stage, and its manifest entry stays one.
LEMMA DropKept ==
    ASSUME IInv, NEW s \in Stages, NEW f \in File, Drop(s, f), cmd # "idle", cmd' = cmd,
           mem' \in [File -> Entry \cup {NoEntry}],
           \A g \in File : mem[g] # NoEntry => mem'[g] # NoEntry,
           primary' \in [File -> Hash], hash' \in [File -> Hash],
           local' \in [File -> Hash], seen' \in [File -> Hash],
           \A g \in File : primary[g] # NoFile => primary'[g] # NoFile,
           \A g \in File : hash[g] # NoFile => hash'[g] # NoFile,
           fan' \subseteq fan \cup {p \in {f} \X Mirror : mem'[f] # NoEntry},
           kept' \subseteq File, UNCHANGED <<store, used, active, disk, crashes, configs, lost>>
    PROVE  IInv'
  <1>1. /\ todo' \in [Stages -> SUBSET File]
        /\ \A t \in Stages : todo'[t] \subseteq todo[t]
    BY DEF Drop, IInv, TypeOK
  <1>2. fan' \subseteq File \X Mirror
    BY DEF IInv, TypeOK
  <1>3. TypeOK'
    BY <1>1, <1>2 DEF IInv, TypeOK
  <1>4. \A p \in fan' : mem'[p[1]] # NoEntry
    <2> SUFFICES ASSUME NEW p \in fan' PROVE mem'[p[1]] # NoEntry
      OBVIOUS
    <2>1. CASE p \in fan
      BY <2>1 DEF IInv, TypeOK, Queued
    <2>2. CASE p \in {q \in {f} \X Mirror : mem'[f] # NoEntry}
      BY <2>2
    <2> QED
      BY <2>1, <2>2
  <1>5. Queued'
    BY <1>1, <1>4 DEF IInv, TypeOK, Queued, Stages
  <1> QED
    BY <1>3, <1>5 DEF IInv

LEMMA PullKept ==
    ASSUME IInv, NEW f \in File, Pull(f) PROVE IInv'
  <1> DEFINE fresh == Synced(mem[f], primary[f], primary[f])
             entry == [fresh EXCEPT !.on = [b \in Mirror |->
                          IF b \in active
                          THEN UpdateRemote(fresh.on[b], "pending_retry", primary[f])
                          ELSE fresh.on[b]]]
  <1>1. primary[f] \in Content /\ mem[f] \in Entry \cup {NoEntry}
    BY DEF Pull, At, IInv, TypeOK, Queued, Hash
  <1>2. fresh \in Entry
    BY <1>1, SyncedType
  <1>3. \A b \in Mirror : UpdateRemote(fresh.on[b], "pending_retry", primary[f]) \in RemoteState
    BY <1>1, <1>2, UpdateRemoteType DEF Entry, Hash
  <1>4. entry \in Entry
    <2> HIDE DEF fresh
    <2> QED
      BY <1>2, <1>3 DEF Entry
  <1>5. mem' = [mem EXCEPT ![f] = entry] /\ local' = [local EXCEPT ![f] = primary[f]]
    BY DEF Pull
  <1> HIDE DEF entry
  <1>6. /\ mem' \in [File -> Entry \cup {NoEntry}]
        /\ \A g \in File : mem[g] # NoEntry => mem'[g] # NoEntry
    BY <1>4, <1>5, NullAssumption DEF IInv, TypeOK
  <1>7. local' \in [File -> Hash]
    BY <1>1, <1>5 DEF IInv, TypeOK, Hash
  <1>8. /\ Drop("pull", f) /\ cmd # "idle" /\ "pull" \in Stages
        /\ seen' \in [File -> Hash]
        /\ primary' = primary /\ hash' = hash /\ cmd' = cmd /\ fan' = fan
        /\ kept' \subseteq File /\ UNCHANGED <<store, used, active, disk, crashes, configs, lost>>
    BY DEF Pull, At, Stages, ghosts, IInv, TypeOK
  <1> QED
    BY <1>6, <1>7, <1>8, DropKept DEF IInv, TypeOK

\* The steps that write an entry, and fan the file out.
LEMMA RecordKept ==
    ASSUME IInv, NEW s \in {"upload", "conflict", "again"}, NEW f \in File,
           At(s, f), Drop(s, f), FanOut(f),
           NEW here \in Content, NEW there \in Content, NEW noted \in Content,
           mem' = [mem EXCEPT ![f] = Synced(mem[f], here, noted)],
           primary' = [primary EXCEPT ![f] = there],
           hash' = [hash EXCEPT ![f] = here],
           local' \in [File -> Hash], seen' \in [File -> Hash],
           kept' \subseteq File, UNCHANGED <<store, used, active, disk, cmd, crashes, configs, lost>>
    PROVE  IInv'
  <1>1. Synced(mem[f], here, noted) \in Entry
    BY SyncedType DEF IInv, TypeOK
  <1>2. /\ mem' \in [File -> Entry \cup {NoEntry}] /\ mem'[f] # NoEntry
        /\ \A g \in File : mem[g] # NoEntry => mem'[g] # NoEntry
    BY <1>1, NullAssumption DEF IInv, TypeOK
  <1>3. /\ primary' \in [File -> Hash] /\ hash' \in [File -> Hash]
        /\ \A g \in File : primary[g] # NoFile => primary'[g] # NoFile
        /\ \A g \in File : hash[g] # NoFile => hash'[g] # NoFile
    BY NoFileAssumption DEF IInv, TypeOK, Hash
  <1>4. fan' \subseteq fan \cup {p \in {f} \X Mirror : mem'[f] # NoEntry}
    BY <1>2 DEF FanOut, IInv, TypeOK
  <1>5. s \in Stages /\ cmd # "idle" /\ cmd' = cmd
    BY DEF Stages, At
  <1> QED
    BY <1>2, <1>3, <1>4, <1>5, DropKept

LEMMA UploadKept ==
    ASSUME IInv, NEW f \in File, Upload(f) PROVE IInv'
  <1>1. hash[f] \in Content /\ local[f] \in Content
    BY DEF Upload, At, IInv, TypeOK, Queued, Hash
  <1>2. hash' = [hash EXCEPT ![f] = hash[f]]
    BY DEF Upload, IInv, TypeOK
  <1>3. local' \in [File -> Hash] /\ seen' \in [File -> Hash] /\ kept' \subseteq File
    BY DEF Upload, ghosts, IInv, TypeOK
  <1> QED
    BY <1>1, <1>2, <1>3, RecordKept DEF Upload, ghosts

LEMMA KeepKept ==
    ASSUME IInv, NEW s \in {"conflict", "again"}, NEW f \in File, KeepRemote(s, f) \/ KeepLocal(s, f)
    PROVE  IInv'
  <1>1. CASE KeepRemote(s, f)
    <2> DEFINE noted == IF seen[f] # NoFile THEN seen[f] ELSE primary[f]
    <2>1. primary[f] \in Content /\ noted \in Content
      BY <1>1 DEF KeepRemote, InConflict, At, IInv, TypeOK, Queued, Hash
    <2>2. primary' = [primary EXCEPT ![f] = primary[f]]
      BY <1>1 DEF KeepRemote, IInv, TypeOK
    <2>3. local' \in [File -> Hash] /\ seen' \in [File -> Hash] /\ kept' \subseteq File
      BY <1>1, <2>1 DEF KeepRemote, ghosts, IInv, TypeOK, Hash
    <2>4. /\ At(s, f) /\ Drop(s, f) /\ FanOut(f)
          /\ mem' = [mem EXCEPT ![f] = Synced(mem[f], primary[f], noted)]
          /\ hash' = [hash EXCEPT ![f] = primary[f]]
          /\ UNCHANGED <<store, used, active, disk, cmd, crashes, configs, lost>>
      BY <1>1 DEF KeepRemote, InConflict, ghosts
    <2> HIDE DEF noted
    <2> QED
      BY <2>1, <2>2, <2>3, <2>4, RecordKept
  <1>2. CASE KeepLocal(s, f)
    <2>1. local[f] \in Content
      BY <1>2 DEF KeepLocal, IInv, TypeOK, Hash
    <2>2. local' \in [File -> Hash] /\ seen' \in [File -> Hash] /\ kept' \subseteq File
      BY <1>2 DEF KeepLocal, IInv, TypeOK
    <2> QED
      BY <1>2, <2>1, <2>2, RecordKept DEF KeepLocal, InConflict
  <1> QED
    BY <1>1, <1>2

\* A deleted file is not queued for anything else.
LEMMA DeleteKept ==
    ASSUME IInv, NEW f \in File, NEW D \in SUBSET Mirror, Delete(f, D) PROVE IInv'
  <1>1. fan = {} /\ fan' = {} /\ cmd # "idle" /\ cmd' = cmd /\ hash' = hash
    BY DEF Delete, At, Reached
  <1>2. /\ todo' \in [Stages -> SUBSET File]
        /\ \A t \in Stages : todo'[t] \subseteq todo[t]
    BY DEF Delete, Drop, IInv, TypeOK
  <1>3. f \notin todo["pull"] \cup todo["conflict"] \cup todo["again"]
    BY DEF Delete, At, IInv, Queued
  <1>4. \A b \in Mirror : store[b] \in [File -> Hash] /\ [store[b] EXCEPT ![f] = NoFile] \in [File -> Hash]
    BY DEF IInv, TypeOK, Hash
  <1>5. store' \in [Mirror -> [File -> Hash]]
    BY <1>4 DEF Delete
  <1>6. TypeOK'
    BY <1>1, <1>2, <1>5 DEF Delete, ghosts, IInv, TypeOK, Hash
  <1>7. \A g \in File \ {f} : primary'[g] = primary[g]
    BY DEF Delete, IInv, TypeOK
  <1>8. Queued'
    BY <1>1, <1>2, <1>3, <1>7 DEF IInv, TypeOK, Queued, Stages
  <1> QED
    BY <1>6, <1>8 DEF IInv

LEMMA PrimaryKept ==
    ASSUME IInv, NEW f \in File, PrimaryStep(f) PROVE IInv'
  <1>1. CASE Pull(f)
    BY <1>1, PullKept
  <1>2. CASE Upload(f)
    BY <1>2, UploadKept
  <1>3. CASE \E D \in SUBSET Mirror : Delete(f, D)
    BY <1>3, DeleteKept
  <1>4. ASSUME NEW s \in Stages, PrimaryFail(s, f) \/ Skip(s, f) PROVE IInv'
    <2>1. cmd # "idle" /\ UNCHANGED <<world, active, disk, mem, cmd, hash, seen, fan, ghosts>>
      BY <1>4 DEF PrimaryFail, Skip, InConflict, At
    <2>2. CASE \E t \in Stages : Drop(t, f)
      BY <2>1, <2>2, DropKept DEF world, ghosts, IInv, TypeOK
    <2>3. CASE PrimaryFail(s, f) /\ s = "pull" /\ f \in todo["upload"]
      <3>1. /\ f \in todo["pull"]
            /\ todo' = [todo EXCEPT !["pull"] = @ \ {f}, !["upload"] = @ \ {f},
                                    !["again"] = @ \cup {f}]
        BY <2>3 DEF PrimaryFail, At
      <3>2. TypeOK'
        BY <2>1, <3>1 DEF world, ghosts, IInv, TypeOK
      <3>3. Queued'
        BY <2>1, <3>1 DEF world, IInv, TypeOK, Queued, Stages
      <3> QED
        BY <3>2, <3>3 DEF IInv
    <2> QED
      BY <1>4, <2>2, <2>3 DEF PrimaryFail, Skip, Stages
  <1>5. ASSUME NEW s \in {"conflict", "again"}, Unreadable(s, f) PROVE IInv'
    BY <1>5, StopKept DEF Unreadable, Abandon, world, IInv, TypeOK
  <1>6. ASSUME NEW s \in {"conflict", "again"}, KeepRemote(s, f) \/ KeepLocal(s, f) PROVE IInv'
    BY <1>6, KeepKept
  <1>7. {"conflict", "again"} \subseteq Stages
    BY DEF Stages
  <1> QED
    BY <1>1, <1>2, <1>3, <1>4, <1>5, <1>6, <1>7 DEF PrimaryStep

-----------------------------------------------------------------------------
(* The mirror side.                                                         *)

LEMMA SettleKept ==
    ASSUME IInv, NEW f \in File, NEW b \in Mirror, <<f, b>> \in fan,
           NEW state \in {"ok", "pending_retry", "failed_perm"}, NEW intended \in Hash,
           Settle(f, b, UpdateRemote(mem[f].on[b], state, intended)),
           store' \in [Mirror -> [File -> Hash]],
           UNCHANGED <<local, primary, used, active, disk, cmd, hash, seen, todo, ghosts>>
    PROVE  IInv'
  <1> DEFINE r == UpdateRemote(mem[f].on[b], state, intended)
             entry == [mem[f] EXCEPT !.on = [mem[f].on EXCEPT ![b] = r]]
  <1>1. mem[f] \in Entry
    BY DEF IInv, TypeOK, Queued
  <1>2. r \in RemoteState
    BY <1>1, UpdateRemoteType DEF Entry
  <1> HIDE DEF r
  <1>3. entry \in Entry
    BY <1>1, <1>2 DEF Entry
  <1>4. mem' = [mem EXCEPT ![f] = entry] /\ fan' = fan \ {<<f, b>>}
    BY DEF Settle, r
  <1> HIDE DEF entry
  <1>5. /\ mem' \in [File -> Entry \cup {NoEntry}]
        /\ \A g \in File : mem[g] # NoEntry => mem'[g] # NoEntry
    BY <1>3, <1>4, NullAssumption DEF IInv, TypeOK
  <1>6. TypeOK'
    BY <1>4, <1>5 DEF ghosts, IInv, TypeOK
  <1>7. Queued'
    BY <1>4, <1>5 DEF IInv, TypeOK, Queued
  <1> QED
    BY <1>6, <1>7 DEF IInv

LEMMA MirrorKept ==
    ASSUME IInv, NEW f \in File, NEW b \in Mirror, MirrorStep(f, b) PROVE IInv'
  <1>1. CASE MirrorUpload(f, b)
    <2>1. [store[b] EXCEPT ![f] = local[f]] \in [File -> Hash]
      BY DEF IInv, TypeOK
    <2>2. store' \in [Mirror -> [File -> Hash]] /\ NoFile \in Hash
      BY <1>1, <2>1 DEF MirrorUpload, IInv, TypeOK, Hash
    <2> QED
      BY <1>1, <2>2, SettleKept DEF MirrorUpload
  <1>2. ASSUME NEW state \in {"pending_retry", "failed_perm"}, MirrorFail(f, b, state)
        PROVE  IInv'
    <2>1. Intended(f) \in Hash
      BY DEF Intended, IInv, TypeOK
    <2> QED
      BY <1>2, <2>1, SettleKept DEF MirrorFail, world, IInv, TypeOK
  <1>3. CASE GiveUp(f, b)
    BY <1>3 DEF GiveUp, world, ghosts, IInv, TypeOK, Queued
  <1> QED
    BY <1>1, <1>2, <1>3 DEF MirrorStep

LEMMA NextKept == IInv /\ [Next]_vars => IInv'
  <1> SUFFICES ASSUME IInv, [Next]_vars PROVE IInv'
    OBVIOUS
  <1>1. CASE WorkStep
    <2>1. CASE Save
      BY <2>1, StopKept DEF Save, world, IInv, TypeOK
    <2>2. CASE \E f \in File : PrimaryStep(f) \/ \E b \in Mirror : MirrorStep(f, b)
      BY <2>2, PrimaryKept, MirrorKept
    <2> QED
      BY <1>1, <2>1, <2>2 DEF WorkStep
  <1>2. CASE Crash
    <2>1. crashes' \in 0..MaxCrashes
      BY <1>2, BoundAssumption DEF Crash, IInv, TypeOK
    <2> QED
      BY <1>2, <2>1, StopKept DEF Crash, Abandon, world, IInv, TypeOK
  <1>3. CASE UNCHANGED vars
    BY <1>3 DEF vars, world, command, ghosts, IInv, TypeOK, Queued
  <1> QED
    BY <1>1, <1>2, <1>3, UserKept, StartKept DEF Next

-----------------------------------------------------------------------------
\* Type correctness, for any files, mirrors and budgets: a manifest entry always
\* has real hashes, a mirror recorded ok carries its file id, and one that is
\* still to be retried has attempts left (Manifest.update_remote).
THEOREM TypeCorrect == Spec => []TypeOK
  <1>1. IInv => TypeOK
    BY DEF IInv
  <1> QED
    BY <1>1, InitInv, NextKept, PTL DEF Spec

-----------------------------------------------------------------------------
(* What the record says of the mirrors.  An edit yields a content that has    *)
(* not existed, so that a working copy that has moved on from its entry does  *)
(* not come back to it but by a pull, which the entry tells.                  *)

\* The working copy is what both sides were at the sync of entry e.
Untouched(e, f) == e # NoEntry /\ e.synced = e.remote /\ local[f] = e.synced

\* An entry with two hashes (the file was edited before its upload) names a
\* content that is gone; the primary has what an untouched file was synced with.
Sound(e, f) ==
    /\ e # NoEntry => {e.synced, e.remote} \subseteq used
    /\ e # NoEntry /\ e.synced # e.remote => \E c \in {e.synced, e.remote} : c \notin {local[f], primary[f]}
    /\ Untouched(e, f) => primary[f] # NoFile

Remembered(f) ==
    /\ {local[f], primary[f], hash[f], seen[f]} \subseteq used \cup {NoFile}
    /\ Sound(disk[f], f) /\ Sound(mem[f], f)

\* A file to pull or in conflict has moved on the primary; one to upload, once
\* it is pulled, has not; one to delete was edited since, if it is there.
Sorted(f) ==
    /\ f \in todo["pull"] /\ disk[f] # NoEntry => primary[f] # disk[f].remote
    /\ f \in (todo["conflict"] \cup todo["again"]) \ kept /\ disk[f] # NoEntry =>
           primary[f] # disk[f].remote
    /\ f \in todo["upload"] \ todo["pull"] /\ Untouched(disk[f], f) => primary[f] = local[f]
    /\ f \in todo["delete"] => ~Untouched(disk[f], f)
    /\ f \in todo["upload"] => f \notin todo["conflict"] \cup todo["again"]
    /\ cmd \in {"retry", "seed"} => \A s \in Stages : f \notin todo[s]

\* A command knows of active mirrors only, and what it owes one and then gives
\* up is not recorded ok.
Owed(f) ==
    \A b \in Mirror :
        /\ <<f, b>> \in fan => b \in active
        /\ mem[f] # NoEntry /\ mem[f].on[b] # Unseen => b \in active
        /\ <<f, b>> \in fan => IF cmd \in {"retry", "seed"} THEN ~In(mem[f], b, "ok")
                                                            ELSE hash[f] # NoFile

Held(e, f, b) ==
    Untouched(e, f) /\ primary[f] = local[f] /\ In(e, b, "ok") => store[b][f] = local[f]

\* The saved record tells the truth until the local side wins a conflict, and the
\* one in memory of every mirror that is served.
Copied(f) ==
    f \notin lost =>
        \A b \in Mirror : /\ f \notin kept => Held(disk[f], f, b)
                          /\ <<f, b>> \notin fan => Held(mem[f], f, b)

FileInv(f) == Remembered(f) /\ Sorted(f) /\ Owed(f) /\ Copied(f)

Quiet == cmd = "idle" => kept = {} /\ mem = NoEntries

MInv == IInv /\ Quiet /\ \A f \in File : FileInv(f)

LEMMA InitMirrored == Init => MInv
  <1> SUFFICES ASSUME Init PROVE MInv
    OBVIOUS
  <1>1. IInv
    BY InitInv
  <1>2. Quiet
    BY DEF Init, Quiet
  <1>3. ASSUME NEW f \in File PROVE FileInv(f)
    <2>1. /\ local[f] = NoFile /\ primary[f] = NoFile /\ hash[f] = NoFile /\ seen[f] = NoFile
          /\ disk[f] = NoEntry /\ mem[f] = NoEntry /\ fan = {}
          /\ \A s \in Stages : todo[s] = {}
      BY DEF Init, NoEntries, NoTodo
    <2> QED
      BY <2>1 DEF FileInv, Remembered, Sound, Untouched, Sorted, Stages, Owed, Copied, Held
  <1> QED
    BY <1>1, <1>2, <1>3 DEF MInv

\* What a file's part of the state is made of.
LEMMA FileTypes ==
    ASSUME TypeOK, NEW f \in File
    PROVE  /\ local[f] \in Hash /\ primary[f] \in Hash /\ hash[f] \in Hash
           /\ disk[f] # NoEntry => disk[f].synced \in Content /\ disk[f].remote \in Content
           /\ mem[f] # NoEntry => mem[f].synced \in Content /\ mem[f].remote \in Content
           /\ used \subseteq Content
  BY DEF TypeOK, Entry

\* A step that is about other files.
LEMMA FileStays ==
    ASSUME NEW f \in File, FileInv(f), used \subseteq used',
           local'[f] = local[f], primary'[f] = primary[f], hash'[f] = hash[f], seen'[f] = seen[f],
           disk'[f] = disk[f], mem'[f] = mem[f], cmd' = cmd, active' = active,
           \A b \in Mirror : store'[b][f] = store[b][f],
           \A s \in Stages : f \in todo'[s] <=> f \in todo[s],
           \A b \in Mirror : <<f, b>> \in fan' <=> <<f, b>> \in fan,
           f \in kept' <=> f \in kept, f \in lost' <=> f \in lost
    PROVE  FileInv(f)'
  <1>1. Remembered(f)'
    BY DEF FileInv, Remembered, Sound, Untouched
  <1>2. Sorted(f)'
    BY DEF FileInv, Sorted, Untouched, Stages
  <1>3. Owed(f)'
    BY DEF FileInv, Owed, In
  <1>4. Copied(f)'
    BY DEF FileInv, Copied, Held, Untouched, In
  <1> QED
    BY <1>1, <1>2, <1>3, <1>4 DEF FileInv

\* The local file becomes one that the record does not know.
LEMMA LocalMoves ==
    ASSUME TypeOK, NEW f \in File, FileInv(f), NEW c, c \notin used,
           local' = [local EXCEPT ![f] = c], used' = used \cup ({c} \ {NoFile}),
           UNCHANGED <<primary, store, active, disk, command, ghosts>>
    PROVE  \A g \in File : FileInv(f)' /\ (FileInv(g) => FileInv(g)')
  <1>1. /\ local'[f] = c /\ \A g \in File : g # f => local'[g] = local[g]
        /\ UNCHANGED <<mem, cmd, hash, seen, todo, fan, kept, lost>>
    BY DEF TypeOK, command, ghosts
  <1>2. ~Untouched(disk[f], f)' /\ ~Untouched(mem[f], f)'
    BY <1>1, FileTypes DEF Untouched, FileInv, Remembered, Sound
  <1>3. Remembered(f)'
    BY <1>1, <1>2, FileTypes DEF FileInv, Remembered, Sound
  <1>4. Sorted(f)'
    BY <1>1, <1>2 DEF FileInv, Sorted, Stages
  <1>5. Owed(f)' /\ Copied(f)'
    BY <1>1, <1>2 DEF FileInv, Owed, Copied, Held, In
  <1>6. FileInv(f)'
    BY <1>3, <1>4, <1>5 DEF FileInv
  <1>7. ASSUME NEW g \in File, g # f, FileInv(g) PROVE FileInv(g)'
    BY <1>1, <1>7, FileStays
  <1> QED
    BY <1>6, <1>7

LEMMA UserMirrored == ASSUME MInv, UserStep PROVE MInv'
  <1>1. IInv' /\ TypeOK
    BY UserKept DEF MInv, IInv
  <1>2. ASSUME NEW f \in File, NEW c, c \notin used,
               local' = [local EXCEPT ![f] = c], used' = used \cup ({c} \ {NoFile}),
               UNCHANGED <<primary, store, active, disk, command, ghosts>>
        PROVE  MInv'
    BY <1>1, <1>2, LocalMoves DEF MInv, Quiet, command, ghosts
  <1>3. ASSUME NEW f \in File, NEW c \in Content, Edit(f, c) PROVE MInv'
    <2>1. {c} \ {NoFile} = {c}
      BY NoFileAssumption
    <2> QED
      BY <1>2, <1>3, <2>1 DEF Edit
  <1>4. ASSUME NEW f \in File, Remove(f) PROVE MInv'
    <2>1. NoFile \notin used /\ used \cup ({NoFile} \ {NoFile}) = used
      BY <1>1, NoFileAssumption DEF TypeOK
    <2> QED
      BY <1>2, <1>4, <2>1 DEF Remove
  <1>5. ASSUME NEW f \in File, NEW c \in Content, NEW B \in SUBSET Mirror, OtherPush(f, c, B)
        PROVE  MInv'
    <2>1. /\ cmd = "idle" /\ c \notin used /\ used' = used \cup {c}
          /\ UNCHANGED <<local, active, disk, mem, cmd, hash, seen, todo, fan, crashes, configs, kept, lost>>
          /\ primary'[f] = c /\ \A g \in File : g # f => primary'[g] = primary[g]
      BY <1>1, <1>5 DEF OtherPush, command, ghosts, TypeOK
    <2>2. \A s \in Stages : todo[s] = {}
      BY <2>1 DEF MInv, IInv, Queued
    <2>3. \A b \in Mirror, g \in File : g # f => store'[b][g] = store[b][g]
      BY <1>1, <1>5 DEF OtherPush, TypeOK
    <2>4. ASSUME NEW g \in File, g # f PROVE FileInv(g)'
      BY <2>1, <2>3, <2>4, FileStays DEF MInv
    <2>5. FileInv(f)'
      <3>1. FileInv(f) /\ local[f] # c
        BY <1>1, <2>1, FileTypes, NoFileAssumption DEF MInv, FileInv, Remembered
      <3>2. Remembered(f)'
        BY <2>1, <3>1, NoFileAssumption DEF FileInv, Remembered, Sound, Untouched
      <3>3. Sorted(f)'
        BY <2>1, <2>2 DEF Sorted, Stages
      <3>4. Owed(f)' /\ Copied(f)'
        BY <2>1, <3>1 DEF FileInv, Owed, Copied, Held, In
      <3> QED
        BY <3>2, <3>3, <3>4 DEF FileInv
    <2> QED
      BY <1>1, <2>1, <2>4, <2>5 DEF MInv, Quiet
  <1>6. ASSUME NEW b \in Mirror, Configure(b) PROVE MInv'
    <2>1. cmd = "idle" /\ UNCHANGED <<world, disk, command, crashes, kept, lost>>
      BY <1>6 DEF Configure
    <2>2. fan = {} /\ mem = NoEntries
      BY <2>1 DEF MInv, IInv, Queued, Quiet
    <2>3. ASSUME NEW f \in File PROVE FileInv(f)'
      BY <2>1, <2>2 DEF MInv, FileInv, Remembered, Sound, Untouched, Sorted, Owed, Copied, Held, In,
                        world, command, NoEntries
    <2> QED
      BY <1>1, <2>1, <2>3 DEF MInv, Quiet, command
  <1> QED
    BY <1>3, <1>4, <1>5, <1>6 DEF UserStep

\* What a status tells of a file and its entry.
LEMMA StatusFacts ==
    ASSUME TypeOK, NEW f \in File, Sound(disk[f], f)
    PROVE  /\ f \in Behind \cup Split /\ disk[f] # NoEntry => primary[f] # disk[f].remote
           /\ f \in Ahead \cup Gone => ~Untouched(disk[f], f)
           /\ f \notin Behind \cup Split /\ Untouched(disk[f], f) => primary[f] = local[f]
  <1> USE DEF Having, Classify, FirstSeen, SinceSync
  <1>1. f \in Behind /\ disk[f] # NoEntry => primary[f] # disk[f].remote
    BY DEF Behind
  <1>2. f \in Split /\ disk[f] # NoEntry => primary[f] # disk[f].remote
    BY DEF Split
  <1>3. f \in Ahead => ~Untouched(disk[f], f)
    BY DEF Ahead, Untouched
  <1>4. f \in Gone => ~Untouched(disk[f], f)
    BY FileTypes, NoFileAssumption DEF Gone, Untouched
  <1>5. Untouched(disk[f], f) /\ f \notin Behind => primary[f] = local[f]
    <2> SUFFICES ASSUME Untouched(disk[f], f), primary[f] # local[f] PROVE f \in Behind
      OBVIOUS
    <2>1. primary[f] \notin {NoFile, disk[f].remote} /\ local[f] = disk[f].synced
      BY DEF Untouched, Sound
    <2>2. local[f] # NoFile /\ disk[f] # NoEntry
      BY FileTypes, NoFileAssumption DEF Untouched
    <2> QED
      BY <2>1, <2>2 DEF Behind, Tracked
  <1> QED
    BY <1>1, <1>2, <1>3, <1>4, <1>5

\* prune_unknown_backends forgets the mirrors that are not configured, no more.
LEMMA PrunedFields ==
    ASSUME NEW e \in Entry
    PROVE  /\ Pruned(e) # NoEntry
           /\ Pruned(e).synced = e.synced /\ Pruned(e).remote = e.remote
           /\ \A b \in Mirror : Pruned(e).on[b] = IF b \in active THEN e.on[b] ELSE Unseen
  <1>1. e # NoEntry
    BY NullAssumption
  <1>2. Pruned(e) = [e EXCEPT !.on = [b \in Mirror |-> IF b \in active THEN e.on[b] ELSE Unseen]]
    BY <1>1 DEF Pruned
  <1>3. Pruned(e) \in Entry
    BY <1>2 DEF Entry
  <1> QED
    BY <1>2, <1>3, NullAssumption DEF Entry

LEMMA BeginMirrored ==
    ASSUME MInv, IInv', NEW k, Begin(k), k # "idle",
           \A f \in File : Sorted(f)',
           \A f \in File, b \in Mirror : <<f, b>> \in fan' =>
               /\ k \in {"retry", "seed"} /\ b \in active
               /\ ~In(disk[f], b, "ok")
    PROVE  MInv'
  <1>1. /\ cmd = "idle" /\ cmd' = k /\ mem' = [f \in File |-> Pruned(disk[f])] /\ hash' = local
        /\ UNCHANGED <<local, primary, store, used, active, disk, seen, kept, lost>>
    BY DEF Begin, world, ghosts
  <1>2. kept = {} /\ TypeOK
    BY <1>1 DEF MInv, IInv, Quiet
  <1>3. ASSUME NEW f \in File PROVE FileInv(f)'
    <2>1. mem'[f] = Pruned(disk[f]) /\ hash'[f] = local[f] /\ FileInv(f)
      BY <1>1 DEF MInv
    <2>2. disk[f] = NoEntry => mem'[f] = NoEntry
      BY <2>1 DEF Pruned
    <2>3. disk[f] # NoEntry =>
             /\ mem'[f] # NoEntry
             /\ mem'[f].synced = disk[f].synced /\ mem'[f].remote = disk[f].remote
             /\ \A b \in Mirror : mem'[f].on[b] = IF b \in active THEN disk[f].on[b] ELSE Unseen
      BY <1>2, <2>1, PrunedFields DEF TypeOK
    <2>4. Remembered(f)'
      BY <1>1, <2>1, <2>2, <2>3 DEF FileInv, Remembered, Sound, Untouched
    <2>5. \A b \in Mirror : In(mem'[f], b, "ok") => b \in active /\ In(disk[f], b, "ok")
      BY <2>2, <2>3 DEF In
    <2>6. Owed(f)'
      BY <1>1, <2>1, <2>2, <2>3, <2>5 DEF Owed, In
    <2>7. Copied(f)'
      BY <1>1, <1>2, <2>1, <2>2, <2>3, <2>5 DEF FileInv, Copied, Held, Untouched, In
    <2> QED
      BY <2>4, <2>6, <2>7 DEF FileInv
  <1> QED
    BY <1>1, <1>3 DEF MInv, Quiet

LEMMA StartMirrored == ASSUME MInv, StartStep PROVE MInv'
  <1>1. IInv' /\ TypeOK /\ \A f \in File : Sound(disk[f], f)
    BY StartKept DEF MInv, IInv, FileInv, Remembered
  <1>2. ASSUME NEW k \in {"sync", "push", "pull"}, StartSync(k) PROVE MInv'
    <2>1. /\ Begin(k) /\ cmd' = k /\ todo' = InitialTodo(k) /\ fan' = {}
          /\ UNCHANGED <<local, primary, disk>>
      BY <1>2 DEF StartSync, Begin, world, MInv, IInv, Queued
    <2>2. ASSUME NEW f \in File PROVE Sorted(f)'
      <3> USE <1>1, <2>1, StatusFacts DEF InitialTodo, Sorted, Stages, Untouched
      <3>1. CASE k = "sync"
        BY <3>1, HavingFacts DEF Sound
      <3>2. CASE k = "push"
        BY <3>2, HavingFacts DEF Sound
      <3>3. CASE k = "pull"
        BY <3>3 DEF NoTodo
      <3> QED
        BY <3>1, <3>2, <3>3
    <2> QED
      BY <1>1, <2>1, <2>2, BeginMirrored
  <1>3. ASSUME NEW k \in {"retry", "seed"}, Begin(k), UNCHANGED todo,
               \A f \in File, b \in Mirror : <<f, b>> \in fan' =>
                   b \in active /\ ~In(disk[f], b, "ok")
        PROVE  MInv'
    <2>1. \A s \in Stages : todo'[s] = {}
      BY <1>3 DEF Begin, MInv, IInv, Queued
    <2>2. \A f \in File : Sorted(f)'
      BY <2>1 DEF Sorted, Stages
    <2> QED
      BY <1>1, <1>3, <2>2, BeginMirrored
  <1>4. ASSUME NEW target \in Mirror \cup {NoTarget}, StartRetry(target) PROVE MInv'
    <2>1. \A f \in File, b \in Mirror : <<f, b>> \in fan' => b \in active /\ f \in PendingOn(b)
      BY <1>4 DEF StartRetry
    <2> QED
      BY <1>3, <1>4, <2>1 DEF StartRetry, PendingOn, In
  <1>5. ASSUME NEW c \in Mirror, StartSeed(c) PROVE MInv'
    <2>1. \A f \in File, b \in Mirror : <<f, b>> \in fan' => b = c /\ f \in UnseededOn(c)
      BY <1>5 DEF StartSeed
    <2> QED
      BY <1>3, <1>5, <2>1 DEF StartSeed, UnseededOn, In
  <1> QED
    BY <1>2, <1>4, <1>5 DEF StartStep

-----------------------------------------------------------------------------
(* A step of a command about file f.                                          *)

LEMMA StepMirrored ==
    ASSUME MInv, IInv', NEW f \in File, cmd # "idle", FileInv(f)',
           UNCHANGED <<cmd, active, disk, used, lost>>,
           \A g \in File \ {f} :
               /\ local'[g] = local[g] /\ primary'[g] = primary[g] /\ hash'[g] = hash[g]
               /\ seen'[g] = seen[g]
               /\ mem'[g] = mem[g] /\ (g \in kept' <=> g \in kept)
               /\ \A b \in Mirror : store'[b][g] = store[b][g]
               /\ \A s \in Stages : g \in todo'[s] <=> g \in todo[s]
               /\ \A b \in Mirror : <<g, b>> \in fan' <=> <<g, b>> \in fan
    PROVE  MInv'
  <1>1. ASSUME NEW g \in File, g # f PROVE FileInv(g)'
    BY <1>1, FileStays DEF MInv
  <1> QED
    BY <1>1 DEF MInv, Quiet

\* f leaves a stage.
LEMMA Dropped ==
    ASSUME TypeOK, NEW s \in Stages, NEW f \in File, Drop(s, f)
    PROVE  /\ \A t \in Stages : todo'[t] = IF t = s THEN todo[t] \ {f} ELSE todo[t]
           /\ \A g \in File \ {f}, t \in Stages : g \in todo'[t] <=> g \in todo[t]
  BY DEF Drop, TypeOK

LEMMA Fanned ==
    ASSUME NEW f \in File, FanOut(f)
    PROVE  /\ \A b \in Mirror : <<f, b>> \in fan' <=> <<f, b>> \in fan \/ b \in active
           /\ \A g \in File \ {f}, b \in Mirror : <<g, b>> \in fan' <=> <<g, b>> \in fan
  BY DEF FanOut

\* After an update the record of the mirrors is what it was, or empty.
LEMMA SyncedFields ==
    ASSUME NEW e, NEW here, NEW there
    PROVE  /\ Synced(e, here, there) # NoEntry =>
                /\ Synced(e, here, there).synced = here /\ Synced(e, here, there).remote = there
                /\ \A b \in Mirror : Synced(e, here, there).on[b] =
                       IF e = NoEntry THEN Unseen ELSE e.on[b]
  BY DEF Synced, OnMirrors, Unseeded

\* What is recorded as failed is not ok.
LEMMA NotOk ==
    ASSUME NEW old, NEW state \in {"pending_retry", "failed_perm"}, NEW intended
    PROVE  UpdateRemote(old, state, intended).state # "ok"
  BY DEF UpdateRemote

\* The pulled content is not the one of the saved entry, and no mirror is
\* recorded ok for it in memory.
LEMMA PullMirrored == ASSUME MInv, IInv', NEW f \in File, Pull(f) PROVE MInv'
  <1> DEFINE c == primary[f]
             fresh == Synced(mem[f], c, c)
             on == [b \in Mirror |-> IF b \in active THEN UpdateRemote(fresh.on[b], "pending_retry", c)
                                     ELSE fresh.on[b]]
  <1>1. /\ TypeOK /\ cmd # "idle" /\ f \in todo["pull"] /\ Drop("pull", f) /\ "pull" \in Stages
        /\ UNCHANGED <<primary, store, used, active, disk, cmd, hash, seen, fan, kept, lost>>
        /\ local' = [local EXCEPT ![f] = c]
        /\ mem' = [mem EXCEPT ![f] = [fresh EXCEPT !.on = on]]
    BY DEF Pull, At, Stages, ghosts, MInv, IInv
  <1>2. /\ local'[f] = c /\ \A g \in File \ {f} : local'[g] = local[g] /\ mem'[g] = mem[g]
        /\ mem'[f] = [fresh EXCEPT !.on = on]
    BY <1>1 DEF TypeOK
  <1>3. c \in Content /\ c \in used /\ FileInv(f)
    BY <1>1, FileTypes DEF MInv, IInv, Queued, FileInv, Remembered, Hash
  <1>4. /\ mem'[f].synced = c /\ mem'[f].remote = c
        /\ \A b \in Mirror : mem'[f].on[b] = on[b]
    BY <1>2 DEF Synced
  <1>5. \A b \in Mirror : on[b] # Unseen => b \in active /\ ~In(mem'[f], b, "ok")
    <2> SUFFICES ASSUME NEW b \in Mirror, on[b] # Unseen PROVE b \in active /\ ~In(mem'[f], b, "ok")
      OBVIOUS
    <2>1. CASE b \in active
      BY <1>4, <2>1, NotOk DEF In
    <2>2. CASE b \notin active
      <3>1. on[b] = fresh.on[b] /\ fresh.on[b] = OnMirrors(mem[f])[b]
        BY <2>2 DEF Synced
      <3>2. OnMirrors(mem[f])[b] = Unseen
        BY <1>3, <2>2 DEF OnMirrors, Unseeded, FileInv, Owed
      <3> QED
        BY <3>1, <3>2
    <2> QED
      BY <2>1, <2>2
  <1> HIDE DEF on, fresh
  <1>6. disk[f] # NoEntry => c # disk[f].remote
    BY <1>1, <1>3 DEF FileInv, Sorted
  <1>7. ~Untouched(disk[f], f)'
    BY <1>1, <1>2, <1>6 DEF Untouched
  <1>8. Remembered(f)'
    BY <1>1, <1>2, <1>3, <1>4, <1>7, NoFileAssumption DEF FileInv, Remembered, Sound, Untouched
  <1>9. Sorted(f)'
    BY <1>1, <1>2, <1>3, <1>7, Dropped DEF FileInv, Sorted, Stages
  <1>10. Owed(f)'
    BY <1>1, <1>3, <1>4, <1>5 DEF FileInv, Owed, In
  <1>11. Copied(f)'
    BY <1>1, <1>3, <1>4, <1>5, <1>7 DEF FileInv, Copied, Held, In
  <1>12. FileInv(f)'
    BY <1>8, <1>9, <1>10, <1>11 DEF FileInv
  <1> QED
    BY <1>1, <1>2, <1>12, Dropped, StepMirrored

\* The steps that write an entry and fan the file out: the entry says here and
\* noted, and there is what both sides have afterwards.
Records(s, f, here, there, noted) ==
    /\ At(s, f) /\ Drop(s, f) /\ FanOut(f)
    /\ {here, there, noted} \subseteq used
    /\ there \in {local[f], primary[f]} /\ (s = "upload" => there = local[f])
    /\ s # "upload" /\ f \notin kept' => there = primary[f]
    /\ Untouched(disk[f], f)' /\ f \notin kept' => primary[f] = there /\ local[f] = there
    /\ mem' = [mem EXCEPT ![f] = Synced(mem[f], here, noted)]
    /\ seen'[f] \in used \cup {NoFile} /\ \A g \in File \ {f} : seen'[g] = seen[g]
    /\ primary' = [primary EXCEPT ![f] = there]
    /\ hash' = [hash EXCEPT ![f] = here]
    /\ local' = [local EXCEPT ![f] = there]
    /\ kept \subseteq kept' /\ kept' \subseteq kept \cup {f}
    /\ UNCHANGED <<store, used, active, disk, cmd, lost>>

LEMMA RecordMirrored ==
    ASSUME MInv, IInv', NEW s \in {"upload", "conflict", "again"}, NEW f \in File,
           NEW here \in Content, NEW there \in Content, NEW noted \in Content,
           Records(s, f, here, there, noted)
    PROVE  MInv'
  <1> USE DEF Records
  <1>1. TypeOK /\ FileInv(f) /\ cmd # "idle" /\ f \in todo[s] /\ s \in Stages
    BY DEF MInv, IInv, At, Stages
  <1>2. /\ local'[f] = there /\ primary'[f] = there /\ hash'[f] = here
        /\ mem'[f] = Synced(mem[f], here, noted) /\ used' = used
        /\ \A g \in File \ {f} : /\ local'[g] = local[g] /\ mem'[g] = mem[g]
                                 /\ primary'[g] = primary[g] /\ hash'[g] = hash[g]
                                 /\ seen'[g] = seen[g]
                                 /\ (g \in kept' <=> g \in kept)
    BY <1>1 DEF TypeOK
  <1>3. mem'[f] # NoEntry
    BY <1>1, <1>2, SyncedType, NullAssumption DEF TypeOK
  <1>4. /\ mem'[f].synced = here /\ mem'[f].remote = noted
        /\ \A b \in Mirror : mem'[f].on[b] # Unseen => mem[f] # NoEntry /\ mem[f].on[b] # Unseen
    BY <1>2, <1>3, SyncedFields
  <1>5. \A b \in Mirror : In(mem'[f], b, "ok") => b \in active
    BY <1>1, <1>4 DEF In, FileInv, Owed
  <1>6. Remembered(f)'
    <2>1. Sound(mem[f], f)'
      BY <1>2, <1>4, NoFileAssumption DEF Sound, Untouched
    <2>2. disk[f] # NoEntry /\ disk[f].synced # disk[f].remote =>
              \E c \in {disk[f].synced, disk[f].remote} : c # there
      BY <1>1 DEF FileInv, Remembered, Sound
    <2>3. Sound(disk[f], f)'
      BY <1>1, <1>2, <2>2, NoFileAssumption DEF FileInv, Remembered, Sound, Untouched
    <2>4. {local[f], primary[f], hash[f], seen[f]}' \subseteq used' \cup {NoFile}
      BY <1>2
    <2> QED
      BY <2>1, <2>3, <2>4 DEF Remembered
  <1>7. cmd \notin {"retry", "seed"}
    BY <1>1 DEF FileInv, Sorted
  <1>8. Sorted(f)'
    <2>1. /\ f \notin todo["pull"]
          /\ (s # "upload" => f \notin todo["delete"] \cup todo["upload"])
          /\ (s = "again" => f \notin todo["conflict"])
      BY DEF At, Reached
    <2>2. /\ f \notin todo'["pull"] \cup todo'["upload"]
          /\ f \in todo'["conflict"] \cup todo'["again"] => s = "conflict"
          /\ f \in todo'["delete"] => f \in todo["delete"] /\ s = "upload"
      BY <1>1, <2>1, Dropped DEF FileInv, Sorted, Stages
    <2>3. f \in todo'["delete"] => ~Untouched(disk[f], f)'
      BY <1>1, <1>2, <2>2 DEF FileInv, Sorted, Untouched
    <2>4. f \in (todo'["conflict"] \cup todo'["again"]) \ kept' /\ disk[f] # NoEntry =>
              there # disk[f].remote
      <3>1. s = "conflict" /\ f \notin kept' => f \in todo["conflict"] \ kept /\ there = primary[f]
        BY <1>1
      <3> QED
        BY <1>1, <2>2, <3>1 DEF FileInv, Sorted
    <2> QED
      BY <1>1, <1>2, <1>7, <2>2, <2>3, <2>4 DEF Sorted, Untouched
  <1>9. Owed(f)'
    BY <1>1, <1>2, <1>3, <1>4, <1>7, Fanned, NoFileAssumption DEF FileInv, Owed
  <1>10. Copied(f)'
    BY <1>1, <1>2, <1>4, <1>5, Fanned DEF FileInv, Copied, Held, Untouched
  <1>11. FileInv(f)'
    BY <1>6, <1>8, <1>9, <1>10 DEF FileInv
  <1> QED
    BY <1>1, <1>2, <1>11, Dropped, Fanned, StepMirrored

LEMMA UploadMirrored == ASSUME MInv, IInv', NEW f \in File, Upload(f) PROVE MInv'
  <1>1. TypeOK /\ FileInv(f) /\ f \in todo["upload"] \ todo["pull"]
    BY DEF Upload, At, Reached, MInv, IInv
  <1>2. hash[f] \in Content /\ local[f] \in Content
    BY <1>1 DEF Upload, MInv, IInv, Queued, TypeOK, Hash
  <1>3. {hash[f], local[f]} \subseteq used
    BY <1>1, <1>2, NoFileAssumption DEF FileInv, Remembered
  <1>4. hash' = [hash EXCEPT ![f] = hash[f]] /\ local' = [local EXCEPT ![f] = local[f]]
    BY <1>1 DEF Upload, TypeOK
  <1>5. Untouched(disk[f], f)' => primary[f] = local[f]
    BY <1>1 DEF Upload, Untouched, FileInv, Sorted
  <1>6. /\ At("upload", f) /\ Drop("upload", f) /\ FanOut(f)
        /\ mem' = [mem EXCEPT ![f] = Synced(mem[f], hash[f], local[f])]
        /\ primary' = [primary EXCEPT ![f] = local[f]]
        /\ UNCHANGED <<store, used, active, disk, cmd, lost>> /\ kept' = kept
    BY DEF Upload, ghosts
  <1>7. /\ "upload" \in {"upload", "conflict", "again"} /\ local[f] \in {local[f], primary[f]}
        /\ kept \subseteq kept' /\ kept' \subseteq kept \cup {f}
        /\ "upload" # "upload" /\ f \notin kept' => local[f] = primary[f]
        /\ Untouched(disk[f], f)' /\ f \notin kept' => primary[f] = local[f] /\ local[f] = local[f]
        /\ {hash[f], local[f], local[f]} \subseteq used
    BY <1>3, <1>5, <1>6
  <1>8. seen'[f] \in used \cup {NoFile} /\ \A g \in File \ {f} : seen'[g] = seen[g]
    BY <1>1 DEF Upload, FileInv, Remembered
  <1>9. Records("upload", f, hash[f], local[f], local[f])
    BY <1>4, <1>6, <1>7, <1>8 DEF Records
  <1> QED
    BY <1>2, <1>9, RecordMirrored

LEMMA KeepRemoteMirrored ==
    ASSUME MInv, IInv', NEW s \in {"conflict", "again"}, NEW f \in File, KeepRemote(s, f) PROVE MInv'
  <1> DEFINE noted == IF seen[f] # NoFile THEN seen[f] ELSE primary[f]
  <1>1. TypeOK /\ FileInv(f) /\ f \in todo["conflict"] \cup todo["again"]
    BY DEF KeepRemote, InConflict, At, MInv, IInv
  <1>2. primary[f] \in Content \cap used /\ noted \in Content \cap used
    BY <1>1, FileTypes DEF MInv, IInv, Queued, FileInv, Remembered, TypeOK, Hash
  <1>3. /\ primary' = [primary EXCEPT ![f] = primary[f]]
        /\ local'[f] = primary[f] /\ disk' = disk
    BY <1>1 DEF KeepRemote, TypeOK
  <1>4. f \notin kept => ~Untouched(disk[f], f)'
    BY <1>1, <1>3 DEF Untouched, FileInv, Sorted
  <1>5. /\ At(s, f) /\ Drop(s, f) /\ FanOut(f)
        /\ mem' = [mem EXCEPT ![f] = Synced(mem[f], primary[f], noted)]
        /\ hash' = [hash EXCEPT ![f] = primary[f]]
        /\ local' = [local EXCEPT ![f] = primary[f]]
        /\ UNCHANGED <<store, used, active, disk, cmd, lost>> /\ kept' = kept
    BY DEF KeepRemote, InConflict, ghosts
  <1> HIDE DEF noted
  <1>6. /\ s \in {"upload", "conflict", "again"} /\ primary[f] \in {local[f], primary[f]}
        /\ primary[f] \in Content /\ noted \in Content
        /\ {primary[f], primary[f], noted} \subseteq used
        /\ kept \subseteq kept' /\ kept' \subseteq kept \cup {f}
        /\ s = "upload" => primary[f] = local[f]
        /\ s # "upload" /\ f \notin kept' => primary[f] = primary[f]
        /\ Untouched(disk[f], f)' /\ f \notin kept' => primary[f] = primary[f] /\ local[f] = primary[f]
    BY <1>2, <1>4, <1>5
  <1>7. seen'[f] \in used \cup {NoFile} /\ \A g \in File \ {f} : seen'[g] = seen[g]
    BY <1>1 DEF KeepRemote, FileInv, Remembered
  <1>8. Records(s, f, primary[f], primary[f], noted)
    BY <1>3, <1>5, <1>6, <1>7 DEF Records
  <1> QED
    BY <1>6, <1>8, RecordMirrored

LEMMA KeepLocalMirrored ==
    ASSUME MInv, IInv', NEW s \in {"conflict", "again"}, NEW f \in File, KeepLocal(s, f) PROVE MInv'
  <1>1. TypeOK /\ FileInv(f)
    BY DEF MInv, IInv
  <1>2. local[f] \in Content \cap used
    BY <1>1, FileTypes DEF KeepLocal, FileInv, Remembered, Hash
  <1>3. local' = [local EXCEPT ![f] = local[f]] /\ f \in kept'
    BY <1>1 DEF KeepLocal, TypeOK
  <1>4. /\ At(s, f) /\ Drop(s, f) /\ FanOut(f)
        /\ mem' = [mem EXCEPT ![f] = Synced(mem[f], local[f], local[f])]
        /\ hash' = [hash EXCEPT ![f] = local[f]]
        /\ primary' = [primary EXCEPT ![f] = local[f]]
        /\ UNCHANGED <<store, used, active, disk, cmd, lost>> /\ kept' = kept \cup {f}
    BY DEF KeepLocal, InConflict
  <1>5. /\ s \in {"upload", "conflict", "again"} /\ local[f] \in {local[f], primary[f]}
        /\ local[f] \in Content /\ {local[f], local[f], local[f]} \subseteq used
        /\ kept \subseteq kept' /\ kept' \subseteq kept \cup {f}
        /\ s = "upload" => local[f] = local[f]
        /\ s # "upload" /\ f \notin kept' => local[f] = primary[f]
        /\ Untouched(disk[f], f)' /\ f \notin kept' => primary[f] = local[f] /\ local[f] = local[f]
    BY <1>2, <1>3, <1>4
  <1>6. seen'[f] \in used \cup {NoFile} /\ \A g \in File \ {f} : seen'[g] = seen[g]
    BY <1>1 DEF KeepLocal, TypeOK, FileInv, Remembered
  <1>7. Records(s, f, local[f], local[f], local[f])
    BY <1>3, <1>4, <1>5, <1>6 DEF Records
  <1> QED
    BY <1>5, <1>7, RecordMirrored

LEMMA DeleteMirrored ==
    ASSUME MInv, IInv', NEW f \in File, NEW D \in SUBSET Mirror, Delete(f, D) PROVE MInv'
  <1>1. /\ TypeOK /\ FileInv(f) /\ cmd # "idle" /\ f \in todo["delete"] /\ "delete" \in Stages
        /\ Drop("delete", f) /\ todo["pull"] = {} /\ todo["upload"] = {}
        /\ f \notin todo["conflict"] \cup todo["again"]
        /\ UNCHANGED <<local, used, active, disk, cmd, hash, seen, fan, kept, lost>>
    BY DEF Delete, At, Reached, Stages, ghosts, MInv, IInv, Queued
  <1>2. /\ primary'[f] = NoFile /\ mem'[f] = NoEntry
        /\ \A g \in File \ {f} : primary'[g] = primary[g] /\ mem'[g] = mem[g]
    BY <1>1 DEF Delete, TypeOK
  <1>3. \A g \in File \ {f}, b \in Mirror : store'[b][g] = store[b][g]
    BY <1>1 DEF Delete, TypeOK
  <1>4. ~Untouched(disk[f], f)'
    BY <1>1 DEF Untouched, FileInv, Sorted
  <1>5. Remembered(f)'
    BY <1>1, <1>2, <1>4, FileTypes, NoFileAssumption DEF FileInv, Remembered, Sound, Untouched
  <1>6. \A t \in Stages : f \notin todo'[t]
    BY <1>1, Dropped DEF Stages
  <1>7. Sorted(f)'
    BY <1>6 DEF Sorted, Stages
  <1>8. Owed(f)' /\ Copied(f)'
    BY <1>1, <1>2, <1>4 DEF Delete, At, Reached, FileInv, Owed, Copied, Held, In
  <1>9. FileInv(f)'
    BY <1>5, <1>7, <1>8 DEF FileInv
  <1> QED
    BY <1>1, <1>2, <1>3, <1>9, Dropped, StepMirrored

\* A file that is left out, or goes on as a conflict.
LEMMA LeftMirrored ==
    ASSUME MInv, IInv', NEW f \in File, NEW s \in Stages, Skip(s, f) \/ PrimaryFail(s, f)
    PROVE  MInv'
  <1>1. /\ TypeOK /\ FileInv(f) /\ cmd # "idle"
        /\ UNCHANGED <<world, active, disk, mem, cmd, hash, seen, fan, ghosts>>
    BY DEF Skip, PrimaryFail, InConflict, At, MInv, IInv
  <1>2. \A g \in File \ {f}, t \in Stages : g \in todo'[t] <=> g \in todo[t]
    <2>1. CASE Drop(s, f)
      BY <1>1, <2>1, Dropped
    <2>2. CASE todo' = [todo EXCEPT !["pull"] = @ \ {f}, !["upload"] = @ \ {f},
                                    !["again"] = @ \cup {f}]
      BY <1>1, <2>2 DEF TypeOK, Stages
    <2> QED
      BY <2>1, <2>2 DEF Skip, PrimaryFail, Stages
  <1>3. Sorted(f)'
    <2>1. ASSUME At(s, f), Drop(s, f), s = "pull" => f \notin todo["upload"]
          PROVE  Sorted(f)'
      <3>1. \A t \in Stages : todo'[t] = IF t = s THEN todo[t] \ {f} ELSE todo[t]
        BY <1>1, <2>1, Dropped
      <3>2. (f \in todo'["upload"] \ todo'["pull"]) => f \in todo["upload"] \ todo["pull"]
        BY <2>1, <3>1 DEF Stages
      <3>3. \A t \in Stages : f \in todo'[t] => f \in todo[t]
        BY <3>1
      <3>4. /\ UNCHANGED <<local, primary, disk, cmd, kept>>
            /\ {"pull", "upload", "delete", "conflict", "again"} \subseteq Stages
        BY <1>1 DEF world, ghosts, Stages
      <3> QED
        BY <1>1, <3>2, <3>3, <3>4 DEF FileInv, Sorted, Untouched
    <2>2. ASSUME f \in todo["pull"],
                 todo' = [todo EXCEPT !["pull"] = @ \ {f}, !["upload"] = @ \ {f},
                                      !["again"] = @ \cup {f}]
          PROVE  Sorted(f)'
      <3>1. /\ f \notin todo'["pull"] /\ f \notin todo'["upload"]
            /\ todo'["delete"] = todo["delete"]
        BY <1>1, <2>2 DEF TypeOK, Stages
      <3> QED
        BY <1>1, <2>2, <3>1 DEF world, FileInv, Sorted, Untouched, Stages
    <2> QED
      BY <2>1, <2>2 DEF Skip, PrimaryFail, InConflict, At, Stages
  <1>4. Remembered(f)' /\ Owed(f)' /\ Copied(f)'
    BY <1>1 DEF world, ghosts, FileInv, Remembered, Sound, Untouched, Owed, Copied, Held, In
  <1>5. FileInv(f)'
    BY <1>3, <1>4 DEF FileInv
  <1> QED
    BY <1>1, <1>2, <1>5, StepMirrored DEF world, ghosts

LEMMA PrimaryMirrored ==
    ASSUME MInv, IInv', NEW f \in File, PrimaryStep(f),
           \A s \in {"conflict", "again"} : ~Unreadable(s, f)
    PROVE  MInv'
  BY PullMirrored, UploadMirrored, DeleteMirrored, LeftMirrored, KeepRemoteMirrored, KeepLocalMirrored
     DEF PrimaryStep, Stages

-----------------------------------------------------------------------------
(* The mirrors, and the end of a command.                                     *)

\* The record of a pair that has been served.
LEMMA SettledFields ==
    ASSUME TypeOK, NEW f \in File, NEW b \in Mirror, NEW r \in RemoteState, mem[f] # NoEntry,
           Settle(f, b, r)
    PROVE  /\ mem'[f] # NoEntry
           /\ \A g \in File \ {f} : mem'[g] = mem[g]
           /\ mem'[f].synced = mem[f].synced /\ mem'[f].remote = mem[f].remote
           /\ mem'[f].on[b] = r /\ \A c \in Mirror \ {b} : mem'[f].on[c] = mem[f].on[c]
  <1>1. mem \in [File -> Entry \cup {NoEntry}] /\ mem[f] \in Entry
    BY DEF TypeOK
  <1>2. mem[f].on \in [Mirror -> RemoteState \cup {Unseen}]
    BY <1>1 DEF Entry
  <1>3. mem'[f] = [mem[f] EXCEPT !.on[b] = r] /\ \A g \in File \ {f} : mem'[g] = mem[g]
    BY <1>1 DEF Settle
  <1>4. /\ mem'[f].synced = mem[f].synced /\ mem'[f].remote = mem[f].remote
        /\ mem'[f].on = [mem[f].on EXCEPT ![b] = r]
    BY <1>1, <1>3 DEF Entry
  <1>5. mem'[f] \in Entry
    BY <1>1, <1>2, <1>3 DEF Entry
  <1> QED
    BY <1>2, <1>3, <1>4, <1>5, NullAssumption

\* A pair is done with: what is then recorded ok is there.
LEMMA ServedMirrored ==
    ASSUME MInv, IInv', NEW f \in File, NEW b \in Mirror, <<f, b>> \in fan, fan' = fan \ {<<f, b>>},
           mem'[f] # NoEntry,
           UNCHANGED <<local, primary, used, active, disk, cmd, hash, seen, todo, kept, lost>>,
           \A g \in File \ {f} : mem'[g] = mem[g],
           mem'[f].synced = mem[f].synced, mem'[f].remote = mem[f].remote,
           \A c \in Mirror \ {b} : mem'[f].on[c] = mem[f].on[c],
           \A g \in File, c \in Mirror : g # f \/ c # b => store'[c][g] = store[c][g],
           store'[b][f] \in {store[b][f], local[f]},
           In(mem'[f], b, "ok") => store'[b][f] = local[f]
    PROVE  MInv'
  <1>1. /\ TypeOK /\ FileInv(f) /\ b \in active /\ mem[f] # NoEntry
        /\ cmd # "idle"
    BY DEF MInv, IInv, Queued, FileInv, Owed
  <1>2. \A g \in File, c \in Mirror : <<g, c>> \in fan' <=> <<g, c>> \in fan /\ ~(g = f /\ c = b)
    OBVIOUS
  <1>3. \A c \in Mirror \ {b}, s \in {"ok"} : In(mem'[f], c, s) <=> In(mem[f], c, s)
    BY <1>1 DEF In
  <1>4. Remembered(f)' /\ Sorted(f)'
    BY <1>1 DEF FileInv, Remembered, Sound, Untouched, Sorted
  <1>5. Owed(f)'
    BY <1>1, <1>2, <1>3 DEF FileInv, Owed
  <1>6. \A c \in Mirror : Held(disk[f], f, c) => Held(disk[f], f, c)'
    BY DEF Held, Untouched, In
  <1>7. \A c \in Mirror \ {b} : Held(mem[f], f, c) => Held(mem[f], f, c)'
    BY <1>1, <1>3 DEF Held, Untouched
  <1>8. Held(mem[f], f, b)'
    BY <1>1 DEF Held
  <1>9. Copied(f)'
    BY <1>1, <1>2, <1>6, <1>7, <1>8 DEF FileInv, Copied
  <1>10. FileInv(f)'
    BY <1>4, <1>5, <1>9 DEF FileInv
  <1> QED
    BY <1>1, <1>2, <1>10, StepMirrored

LEMMA MirrorMirrored ==
    ASSUME MInv, IInv', NEW f \in File, NEW b \in Mirror, MirrorStep(f, b) PROVE MInv'
  <1>1. TypeOK /\ FileInv(f) /\ <<f, b>> \in fan /\ mem[f] # NoEntry
    BY DEF MirrorStep, MirrorUpload, MirrorFail, GiveUp, MInv, IInv, Queued
  <1>2. mem[f].on[b] \in RemoteState \cup {Unseen} /\ NoFile \in Hash /\ Intended(f) \in Hash
    BY <1>1 DEF TypeOK, Entry, Hash, Intended
  <1>3. CASE MirrorUpload(f, b)
    <2>1. UpdateRemote(mem[f].on[b], "ok", NoFile) \in RemoteState
      BY <1>2, UpdateRemoteType
    <2>2. /\ fan' = fan \ {<<f, b>>}
          /\ UNCHANGED <<local, primary, used, active, disk, cmd, hash, seen, todo, kept, lost>>
          /\ store' = [store EXCEPT ![b][f] = local[f]]
          /\ Settle(f, b, UpdateRemote(mem[f].on[b], "ok", NoFile))
      BY <1>3 DEF MirrorUpload, Settle, ghosts
    <2>3. /\ store'[b][f] = local[f]
          /\ \A g \in File, c \in Mirror : g # f \/ c # b => store'[c][g] = store[c][g]
      BY <1>1, <2>2 DEF TypeOK
    <2> QED
      BY <1>1, <2>1, <2>2, <2>3, SettledFields, ServedMirrored
  <1>4. ASSUME NEW state \in {"pending_retry", "failed_perm"}, MirrorFail(f, b, state) PROVE MInv'
    <2>1. UpdateRemote(mem[f].on[b], state, Intended(f)) \in RemoteState
      BY <1>2, UpdateRemoteType
    <2>2. /\ fan' = fan \ {<<f, b>>}
          /\ UNCHANGED <<local, primary, store, used, active, disk, cmd, hash, seen, todo, kept, lost>>
          /\ Settle(f, b, UpdateRemote(mem[f].on[b], state, Intended(f)))
      BY <1>4 DEF MirrorFail, Settle, world, ghosts
    <2>3. mem'[f].on[b] = UpdateRemote(mem[f].on[b], state, Intended(f))
      BY <1>1, <2>1, <2>2, SettledFields
    <2>4. ~In(mem'[f], b, "ok")
      BY <2>3, NotOk DEF In
    <2> QED
      BY <1>1, <2>1, <2>2, <2>4, SettledFields, ServedMirrored
  <1>5. CASE GiveUp(f, b)
    <2>1. /\ fan' = fan \ {<<f, b>>} /\ mem' = mem
          /\ UNCHANGED <<local, primary, store, used, active, disk, cmd, hash, seen, todo, kept, lost>>
      BY <1>5 DEF GiveUp, world, ghosts
    <2>2. cmd \in {"retry", "seed"}
      BY <1>1, <1>5 DEF GiveUp, Intended, FileInv, Owed
    <2>3. ~In(mem[f], b, "ok")
      BY <1>1, <2>2 DEF FileInv, Owed
    <2> QED
      BY <1>1, <2>1, <2>3, ServedMirrored
  <1> QED
    BY <1>3, <1>4, <1>5 DEF MirrorStep

\* A command ends; what is on disk then is told of the mirrors.
LEMMA StopMirrored ==
    ASSUME MInv, IInv', Stop, UNCHANGED <<local, primary, store, used, active>>, lost \subseteq lost',
           \A f \in File : Sound(disk'[f], f),
           \A f \in File \ lost' : \A b \in Mirror : Held(disk'[f], f, b)
    PROVE  MInv'
  <1>1. /\ cmd' = "idle" /\ mem' = NoEntries /\ fan' = {} /\ kept' = {}
        /\ \A s \in Stages : todo'[s] = {}
    BY DEF Stop, NoTodo
  <1>2. ASSUME NEW f \in File PROVE FileInv(f)'
    <2>1. mem'[f] = NoEntry /\ hash'[f] = NoFile /\ seen'[f] = NoFile /\ FileInv(f)
      BY DEF Stop, NoEntries, MInv
    <2>2. Remembered(f)'
      BY <2>1 DEF FileInv, Remembered, Sound, Untouched
    <2>3. Sorted(f)'
      BY <1>1 DEF Sorted, Stages
    <2>4. Owed(f)'
      BY <1>1, <2>1 DEF Owed
    <2>5. Copied(f)'
      BY <1>1, <2>1 DEF Copied, Held, Untouched, In
    <2> QED
      BY <2>2, <2>3, <2>4, <2>5 DEF FileInv
  <1> QED
    BY <1>1, <1>2 DEF MInv, Quiet

LEMMA EndMirrored ==
    ASSUME MInv, IInv', Save \/ (Abandon /\ UNCHANGED <<world, active, disk>>) PROVE MInv'
  <1>1. \A f \in File : Sound(disk[f], f) /\ Sound(mem[f], f) /\ Copied(f)
    BY DEF MInv, FileInv, Remembered
  <1>2. CASE Save
    BY <1>1, <1>2, StopMirrored DEF Save, world, Copied
  <1>3. CASE Abandon /\ UNCHANGED <<world, active, disk>>
    BY <1>1, <1>3, StopMirrored DEF Abandon, world, Copied
  <1> QED
    BY <1>2, <1>3

LEMMA NextMirrored == MInv /\ [Next]_vars => MInv'
  <1> SUFFICES ASSUME MInv, [Next]_vars PROVE MInv'
    OBVIOUS
  <1>1. IInv'
    BY NextKept DEF MInv
  <1>2. CASE WorkStep
    <2>1. ASSUME NEW f \in File, NEW s \in {"conflict", "again"}, Unreadable(s, f) PROVE MInv'
      BY <1>1, <2>1, EndMirrored DEF Unreadable
    <2> QED
      BY <1>1, <1>2, <2>1, EndMirrored, PrimaryMirrored, MirrorMirrored DEF WorkStep
  <1>3. CASE Crash
    BY <1>1, <1>3, EndMirrored DEF Crash
  <1>4. CASE UNCHANGED vars
    <2>1. \A f \in File : FileInv(f) => FileInv(f)'
      BY <1>4 DEF vars, world, command, ghosts, FileInv, Remembered, Sound, Untouched, Sorted, Owed,
                  Copied, Held, In
    <2> QED
      BY <1>1, <1>4, <2>1 DEF vars, command, ghosts, MInv, Quiet
  <1> QED
    BY <1>2, <1>3, <1>4, UserMirrored, StartMirrored DEF Next

\* Between commands a mirror that the manifest calls ok for a file in sync has the
\* content of the working copy, for any number of files, mirrors, kills and
\* changes of the configuration.  The record is written by _push_file,
\* _pull_file, _resolve_conflict, retry_mirrors and seed_mirror, and
\* no listing ever corrects it.
THEOREM OkMeansMirroredHolds == Spec => []OkMeansMirrored
  <1>1. MInv => OkMeansMirrored
    <2> SUFFICES ASSUME MInv, cmd = "idle", NEW f \in File \ lost, NEW b \in active,
                        NoFile \notin {local[f], primary[f]},
                        Classify(local[f], primary[f], disk[f]) = "in_sync",
                        In(disk[f], b, "ok")
                 PROVE  store[b][f] = local[f]
      BY DEF OkMeansMirrored
    <2>1. b \in Mirror /\ Remembered(f) /\ Copied(f) /\ f \notin kept /\ disk[f] # NoEntry
      BY DEF MInv, IInv, TypeOK, Quiet, FileInv, In
    <2>2. local[f] = disk[f].synced /\ primary[f] = disk[f].remote
      BY <2>1 DEF Classify, FirstSeen, SinceSync
    <2>3. Untouched(disk[f], f) /\ primary[f] = local[f]
      BY <2>1, <2>2 DEF Untouched, Remembered, Sound
    <2> QED
      BY <2>1, <2>3 DEF Copied, Held
  <1> QED
    BY <1>1, InitMirrored, NextMirrored, PTL DEF Spec

=============================================================================
